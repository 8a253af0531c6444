SPECIFICATION Spec
CONSTANTS
    Hub = Hub
    NoOne = NoOne
    Leasers = {c1, c2}
    Askers = {}
    Players = {}
    Watchers = {window}
    Flows = {}
    MaxCommands = 0
    MaxUnplugs = 0
SYMMETRY LeaserSymmetry
INVARIANTS
    LeaseInv
PROPERTIES
    KeepsPromise
