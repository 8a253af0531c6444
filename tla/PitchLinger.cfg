SPECIFICATION FairSpec
CONSTANTS
    Others = {FALSE}
    MaxRuns = 1
    MaxLeases = 0
    MaxUnplugs = 0
PROPERTIES
    SavedIsShown
