SPECIFICATION FairSpec
CONSTANTS
    Hub = Hub
    NoOne = NoOne
    Leasers = {c1}
    Askers = {c1}
    Players = {}
    Watchers = {}
    Flows = {flow}
    MaxCommands = 0
    MaxUnplugs = 0
PROPERTIES
    RequestSettles
    AwaitingDrains
    DeadLeaseFreed
