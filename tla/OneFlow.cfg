SPECIFICATION FlowsSpec
CONSTANTS
    latch = latch
    calA = calA
    calB = calB
    c1 = c1
    c2 = c2
    watching = watching
    calibration = calibration
    headpose = headpose
    eyegaze = eyegaze
    NoReason = NoReason
    Latches <- DemandLatches
    Windows <- DemandWindows
    Clients <- DemandClients
    Reasons <- DemandReasons
    EXCLUSIVE <- DemandExclusive
    ClientReasons <- DemandClientReasons
    ReasonOf <- DemandReasonOf
    Wrap = 4
    Ops = {"subscribe", "apply"}
    LargeOps = {"apply"}
    MaxRequests = 5
    MaxGaze = 2
    SoakCap = 2
    Plugs <- HwOne
    Eyes = {"both"}
    DragEnds = {700}
    Background = FALSE
    MaxDrops = 1
    MaxClicks = 0
    MaxEdits = 0
    Others = {TRUE, FALSE}
    MaxRuns = 2
    MaxLeases = 1
    MaxUnplugs = 1
    Postures = {"ahead", "aside"}
    Window = 2
    LossReset = 2
    Fresh = 2
    ReconAge = 0
    RequestAge = 4
    MessageAge = 6
    MinPoses = 4
    MaxAsks = 1
    MaxTurns = 1
    Pictures <- HtPictures
    Threshold = 5
    IpdMin = 2
    IpdMax = 4
    RoiMin = 2
    Reseed = 3
    MaxFrames = 8
    Sizes = {10, 20}
    ForcedOff = FALSE
    HintTime = 2
    MaxActs = 3
    GazeStream = "gaze"
    Probed <- CmProbed
    EyeChoices = {"left"}
    ArgLists <- CmArgs
    GameConfigs <- CmConfigs
    MaxSeen = 2
    MaxCommands = 1
    MaxAge = 1
INVARIANTS
    OneFlow
CHECK_DEADLOCK FALSE
