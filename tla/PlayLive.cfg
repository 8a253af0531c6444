SPECIFICATION FairSpec
CONSTANTS
    Hub = Hub
    NoOne = NoOne
    Leasers = {}
    Askers = {}
    Players = {p1}
    Watchers = {}
    Flows = {flow}
    MaxCommands = 2
    MaxUnplugs = 1
INVARIANTS
    CommandsInOrder
PROPERTIES
    CommandsSettle
    FollowsDemand
    SubscriberLights
