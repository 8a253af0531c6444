SPECIFICATION PartsSpec
CONSTANTS
    Pids = {p1, p2}
    NBinaries = 2
    MaxInstalls = 2
    MaxKills = 1
    Dirs <- UnDirs
    Sites <- UnSites
    Entries <- UnEntries
    Procs = {"p1"}
    Writers = {"hub"}
    Saves <- StSaves
    Values = {0, 3}
    Inodes <- StInodes
    MaxSaves = 2
    MaxRuns = 2
    MaxVisits = 1
    Apps = {"a"}
    Folders = {"f"}
    Hashed = {}
    Measured = {"f"}
    MaxJobs = 2
    MaxOutside = 0
INVARIANTS
    AlwaysRunnable
    UpdateIsWhole
    UninstallIsSafe
    FilesAreWhole
    PrefixIsSound
    SetupIsOwn
    ReadsAreTrue
PROPERTIES
    TheirsStay
CHECK_DEADLOCK FALSE
