SPECIFICATION WineSpec
CONSTANTS
    Dlls = {"np"}
    Yaws = {200}
    DataIdWrap = 3
    SigWrap = 1
    OtherSession = TRUE
    MaxTurns = 0
PROPERTIES
    FreesUp
