SPECIFICATION SlowSpec
CONSTANTS
    Groups <- OnePair
    MaxAttempts = 1
    Unanswered = {}
    Prompt = FALSE
    MaxRuns = 1
    MaxAsks = 2
    MaxDrops = 0
INVARIANTS
    CompleteRun
