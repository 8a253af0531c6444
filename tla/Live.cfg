SPECIFICATION PartsSpec
INVARIANTS
    PartsAgree
PROPERTIES
    DialogAnswered
    CatchesUp
    Serves
CHECK_DEADLOCK FALSE
