SPECIFICATION FairSpec
CONSTANTS
    Hub = Hub
    NoOne = NoOne
    Leasers = {}
    Askers = {}
    Players = {p1}
    Watchers = {}
    Flows = {}
    MaxCommands = 0
    MaxUnplugs = 0
PROPERTIES
    ClientLights
