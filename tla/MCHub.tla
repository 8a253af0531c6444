----------------------------------- MODULE MCHub ----------------------------------
(***************************************************************************)
(* The parts between the tracker and the person, side by side: who wants   *)
(* the tracker on, the USB connection, the codecs and capture files, the   *)
(* head tracker, the frame path and recentring, the hub's window and pitch *)
(* dialog, its settings, its accuracy check and eye view, the diagnostics, *)
(* the command line and the games' profiles.  They share no state, so a    *)
(* behaviour is one part's and the others stay as they began; the parts no *)
(* proof is about keep their variables in a pool they take turns to use.   *)
(***************************************************************************)
EXTENDS Demand, Connection, HubWindow, PitchZero, Recentre, HeadTracker, SettingsMenu,
        Commands

VARIABLES which,   \* the part this behaviour is about
          v1, v2, v3, v4, v5, v6, v7, v8, v9, v10, v11, v12, v13, v14, v15, v16

pool == <<v1, v2, v3, v4, v5, v6, v7, v8, v9, v10, v11, v12, v13, v14, v15, v16>>
partsVars == <<which, pool, vars, connVars, hubVars, pitchVars, recentreVars, headVars, menuVars, cmdVars>>

-----------------------------------------------------------------------------
(* Demand: one latch, two windows sharing the exclusive reason and two        *)
(* clients with two subscription reasons, so that every reason is held twice. *)
CONSTANTS latch, calA, calB, c1, c2, watching, calibration, headpose, eyegaze
DemandLatches == {latch}
DemandWindows == {calA, calB}
DemandClients == {c1, c2}
DemandReasons == {watching, calibration, headpose, eyegaze}
DemandExclusive == {calibration}
DemandClientReasons == {headpose, eyegaze}
DemandReasonOf == [o \in {latch, calA, calB} |-> IF o = latch THEN watching ELSE calibration]

(* HubWindow: one monitor for the flows, two for the wizard. *)
HwMonitor(id, w) == [id |-> {id}, width |-> w, height |-> 300]
HwOne == {{HwMonitor("B", 1000)}}
HwTwo == {{HwMonitor("A", 600), HwMonitor("B", 1000)}}

(* Commands: what recordings are asked for, and what games.toml may say; one  *)
(* command that reads two notifications, and two that read none.             *)
CmProbed == <<"left", "log">>
CmArgs ==
    {<<>>, <<"--calibration">>, <<"--calibraton">>, <<"--calibration", "60">>, <<"x">>, <<"x", "60">>}
CmConfig(e, a, m, i) ==
    [enabled |-> e, args |-> a, view |-> TRUE, bridge |-> TRUE, joystick |-> FALSE,
     present |-> FALSE, model |-> m, installed |-> i]
CmConfigs ==
    {CmConfig(FALSE, {}, "auto", TRUE), CmConfig(FALSE, {"--calibrate-pitch"}, "auto", TRUE),
     CmConfig(TRUE, {}, "off", FALSE)}

(* Profiles: files with a comment above or beside a line, two comments, two   *)
(* checks of one name, a setting that is no value, and no profile at all.     *)
PrNone == "none"
PrLine(k, v, n) == [key |-> k, val |-> v, note |-> n]
PrBase(i, j, s) ==
    <<PrLine("version", "1", PrNone), PrLine("[settings]", "", PrNone), PrLine("enabled", s, PrNone),
      PrLine("[[check]]", "", PrNone), PrLine("id", i, PrNone), PrLine("tell", "t1", PrNone),
      PrLine("[[check]]", "", PrNone), PrLine("id", j, PrNone), PrLine("tell", "t2", PrNone)>>
PrAbove(t, k, n) == SubSeq(t, 1, k - 1) \o <<PrLine("", "", n)>> \o SubSeq(t, k, Len(t))
PrBeside(t, k, n) == [t EXCEPT ![k].note = n]
PrBases == {PrBase("a", "b", "true"), PrBase("b", "a", "bad"), PrBase("a", "a", "true")}
PrTexts ==
    {<<>>, <<PrLine("version", "2", "n1")>>, <<PrLine("", "", "n1")>>,
     <<PrLine("version", "1", PrNone), PrLine("name", "n", PrNone), PrLine("bridge", "true", PrNone)>>}
    \cup PrBases
    \cup {PrAbove(PrBase("a", "b", "true"), 1, "n1")} \cup {PrAbove(t, 7, "n1") : t \in PrBases}
    \cup {PrBeside(t, k, "n1") : t \in PrBases, k \in {4, 9}}
    \cup {PrAbove(PrBeside(PrBase("a", "b", "true"), k, "n1"), j, "n2") : k \in {4, 9}, j \in {10}}

(* Diagnostics: a text with the user's home and name in several spellings, a  *)
(* setup for each reason why a game gets nothing, and the days around the     *)
(* epoch, a leap year and two centuries, which are looked at as they begin.  *)
DgTexts ==
    {<<"could not write ", "/data/", "me", "/", "x", " ", "/home/", "other", " ", "/run/media/", "me", "/", "disk">>}
DgConfig(e, j, w, o, k) ==
    [enabled |-> e, joystick |-> j, wake_for_joystick |-> w, wake_for_opentrack |-> o, keep_awake |-> k]
DgMeasured(l, u) ==
    [listening |-> l, ephemeral |-> l = "yes", node |-> TRUE, uinput |-> u, rules |-> IF u THEN "new" ELSE "old"]
DgSetups ==
    {[config |-> DgConfig(FALSE, TRUE, TRUE, TRUE, FALSE), measured |-> DgMeasured("yes", TRUE)],
     [config |-> DgConfig(TRUE, TRUE, TRUE, FALSE, FALSE), measured |-> DgMeasured("yes", FALSE)],
     [config |-> DgConfig(TRUE, FALSE, TRUE, TRUE, FALSE), measured |-> DgMeasured("no", TRUE)],
     [config |-> DgConfig(TRUE, TRUE, FALSE, TRUE, FALSE), measured |-> DgMeasured("unknown", TRUE)],
     [config |-> DgConfig(TRUE, TRUE, TRUE, TRUE, TRUE), measured |-> DgMeasured("yes", TRUE)]}
DgDays == (-1..800) \cup (10955..11100) \cup (47480..47600)

(* HeadTracker: a face left and right with two glints, one glint, two at the  *)
(* edge of the picture, none.                                                *)
HtPicture(lit, face) ==
    [w |-> 8, h |-> 3, face |-> face,
     px |-> [i \in 0..23 |-> IF <<i % 8, i \div 8>> \in lit THEN 9 ELSE 0]]
HtFace(x) == {[x0 |-> x, y0 |-> 0, x1 |-> x + 3, y1 |-> 3]}
HtGlints(x) == {<<x, 0>>, <<x, 1>>, <<x + 2, 0>>, <<x + 2, 1>>}
HtPictures ==
    {HtPicture(HtGlints(0), HtFace(0)), HtPicture(HtGlints(4), HtFace(4)), HtPicture({<<2, 1>>}, {}),
     HtPicture({<<7, 2>>, <<6, 2>>}, HtFace(5)), HtPicture({}, HtFace(2))}

(* EyeView: a head in the middle, at the side, too low and too far. *)
EyHeads == {[x |-> 50, y |-> 50, d |-> 50], [x |-> 10, y |-> 50, d |-> 50], [x |-> 50, y |-> 95, d |-> 90]}

(* Wire: rows of up to three columns of every layout, frames whose sides      *)
(* differ from the bit depth, a corner left of the origin.                   *)
WiColumn(id, val) == [id |-> id, val |-> val]
WiColumns ==
    {WiColumn(1, <<7>>), WiColumn(2, <<1, 2, 3>>), WiColumn(2, <<4, 5, 6>>), WiColumn(28, <<1, 2>>),
     WiColumn(6, <<3>>), WiColumn(20, <<9>>), WiColumn(36, <<8, 8, 8>>), WiColumn(153, <<0>>)}
WiRows == UNION {[1..n -> WiColumns] : n \in 0..3}
WiFrames ==
    {[ts |-> 5, depth |-> 8, width |-> w, height |-> h, pixels |-> w * h] : w \in 9..20, h \in 9..20}
WiStream(id, name) == [id |-> id, name |-> name]
WiCatalogs ==
    {<<>>, <<WiStream(1280, <<"g">>)>>, <<WiStream(1280, <<"g">>), WiStream(1281, <<"c", "a">>)>>}
WiCorners == {[x |-> -3, y |-> 2, w |-> 6, h |-> 4, z |-> 1], [x |-> 0, y |-> 0, w |-> 1, h |-> 1, z |-> 0]}

(* Autostart: a program whose path has each character the entry must quote.   *)
AuLetters == {"a", "space", "$", "dq", "%", "bs", "#"}
AuPrograms == {<<"a">>} \cup {<<"a", x, y>> : x, y \in AuLetters}

-----------------------------------------------------------------------------
(* The hub in the background, and the wizard over a second monitor. *)
SecondScreen == INSTANCE HubWindow WITH Plugs <- HwTwo, Background <- TRUE, MaxEdits <- 1

(* Two commands one after another, that are sent nothing. *)
TwoCommands == INSTANCE Commands WITH MaxSeen <- 0, MaxCommands <- 2

A == INSTANCE Autostart WITH
    Programs <- AuPrograms, MaxOutside <- 2,
    exe <- v1, image <- v2, files <- v3, entry <- v4, scratch <- v5, switch <- v6,
    wanted <- v7, events <- v8

Q == INSTANCE Accuracy WITH
    Xs <- <<50, 42, 58, 34, 66, 26, 74, 18, 82, 10, 90, 2, 98>>, Ys <- <<50, 15>>,
    SettleTicks <- 2, SampleTicks <- 3, Lag <- 1,
    Faults <- {"none", "plane", "curvature", "coverage", "limit"}, Modes <- {"both"},
    Screen <- [w |-> 1193, h |-> 336], HeadZ <- 813, HeadX <- 0, MaxEvents <- 0,
    fault <- v1, mode <- v2, awake <- v3, latest <- v4, fresh <- v5, launched <- v6,
    band <- v7, eyeMode <- v8, index <- v9, ticks <- v10, looking <- v11,
    samples <- v12, results <- v13, outcome <- v14, open <- v15, events <- v16

B == INSTANCE Accuracy WITH
    Xs <- <<50, 42, 58, 34, 66, 26, 74, 18, 82, 10, 90, 2, 98>>, Ys <- <<50, 15>>,
    SettleTicks <- 2, SampleTicks <- 3, Lag <- 1, Faults <- {"plane"},
    Modes <- {"both"}, Screen <- [w |-> 1193, h |-> 336], HeadZ <- 813, HeadX <- 0,
    MaxEvents <- 1,
    fault <- v1, mode <- v2, awake <- v3, latest <- v4, fresh <- v5, launched <- v6,
    band <- v7, eyeMode <- v8, index <- v9, ticks <- v10, looking <- v11,
    samples <- v12, results <- v13, outcome <- v14, open <- v15, events <- v16

E == INSTANCE EyeView WITH
    Heads <- EyHeads, Window <- 2, DistanceBuffer <- 2, HystToHint <- 3,
    HystToNoEyes <- 4, MaxLosses <- 1,
    status <- v1, view <- v2, hist <- v3, session <- v4, viewOf <- v5, steady <- v6,
    unseen <- v7, both <- v8, losses <- v9

D == INSTANCE Diagnostics WITH
    Threads <- {"ui", "device"}, Ring <- 3, Cap <- 1, Keep <- 2, Texts <- DgTexts,
    Home <- <<"/data/", "me">>, Setups <- DgSetups, Days <- {19722},
    Reporters <- {"hub"}, MaxLines <- 3,
    file <- v1, ring <- v2, logger <- v3, text <- v4, salt <- v5, asker <- v6,
    report <- v7, ids <- v8, day <- v9

Y == INSTANCE Diagnostics WITH
    Threads <- {}, Ring <- 3, Cap <- 1, Keep <- 2, Texts <- DgTexts,
    Home <- <<"/data/", "me">>, Setups <- DgSetups, Days <- DgDays, Reporters <- {},
    MaxLines <- 3,
    file <- v1, ring <- v2, logger <- v3, text <- v4, salt <- v5, asker <- v6,
    report <- v7, ids <- v8, day <- v9

I == INSTANCE Wire WITH
    Rows <- WiRows, Frames <- WiFrames, Catalogs <- WiCatalogs, Corners <- WiCorners,
    EyeWords <- 0..4,
    sent <- v1, wire <- v2, hurt <- v3, got <- v4

R == INSTANCE Recap WITH
    Ops <- {1, 2}, Known <- {2}, OutPayloads <- {<<>>, <<"t", "d", "t">>},
    InPayloads <- {<<>>, <<"d", "t", "z">>}, MaxFrames <- 2,
    hostSent <- v1, devSent <- v2, file <- v3, sealed <- v4, at <- v5, accIn <- v6,
    accOut <- v7, timeline <- v8, errors <- v9

L == INSTANCE Capture WITH
    Notes <- {<<<<"a">>>>, <<<<"a">>, <<"<", "b">>>>, <<<<"a">>, <<"b">>>>},
    Bytes <- {"hello", "gaze"}, MaxEvents <- 3,
    note <- v1, events <- v2, file <- v3, read <- v4, replay <- v5, heard <- v6,
    exhausted <- v7

F == INSTANCE FramePath WITH
    Places <- {0, 400}, Angles <- {10}, MaxStep <- 150, MaxHeld <- 3,
    Alphas <- {50, 100}, HoldFrames <- 2, LossFrames <- 3, SendEvery <- 2,
    MaxOffers <- 5,
    alpha <- v1, filter <- v2, lastEv <- v3, gazeLost <- v4, tracked <- v5,
    neutral <- v6, sendAge <- v7, gazeAxis <- v8, dead <- v9, failures <- v10,
    got <- v11, frame <- v12, recent <- v13, offers <- v14

P == INSTANCE Profiles WITH
    Texts <- PrTexts, Settings <- [enabled |-> {"true", "false"}],
    Ids <- {"a", "b", "c"}, MaxCommands <- 2,
    file <- v1, conf <- v2, cmd <- v3, said <- v4, before <- v5, commands <- v6

-----------------------------------------------------------------------------
(* The variables of the pool a part has no use for. *)
Rest16 == v16 = 0
Rest15 == v15 = 0 /\ Rest16
Rest14 == v14 = 0 /\ Rest15
Rest13 == v13 = 0 /\ Rest14
Rest12 == v12 = 0 /\ Rest13
Rest11 == v11 = 0 /\ Rest12
Rest10 == v10 = 0 /\ Rest11
Rest9 == v9 = 0 /\ Rest10
Rest8 == v8 = 0 /\ Rest9
Rest7 == v7 = 0 /\ Rest8
Rest6 == v6 = 0 /\ Rest7
Rest5 == v5 = 0 /\ Rest6
Rest4 == v4 = 0 /\ Rest5
Rest3 == v3 = 0 /\ Rest4
Rest2 == v2 = 0 /\ Rest3
Rest1 == v1 = 0 /\ Rest2
Keep16 == v16' = v16
Keep15 == v15' = v15 /\ Keep16
Keep14 == v14' = v14 /\ Keep15
Keep13 == v13' = v13 /\ Keep14
Keep12 == v12' = v12 /\ Keep13
Keep11 == v11' = v11 /\ Keep12
Keep10 == v10' = v10 /\ Keep11
Keep9 == v9' = v9 /\ Keep10
Keep8 == v8' = v8 /\ Keep9
Keep7 == v7' = v7 /\ Keep8
Keep6 == v6' = v6 /\ Keep7
Keep5 == v5' = v5 /\ Keep6

(* Nobody asks for the tracker, nothing is on the wire, the hub's window and   *)
(* the pitch dialog are not there, and nobody recentres.                     *)
NoDemand   == Init
NoTraffic  == ConnInit /\ realm.type = 0 /\ by_queue
NoHubThere == HubInit /\ saved = Configured
NoDialog   == PitchInit /\ others
NoRecentre == RecentreInit /\ posture = "ahead"
NoMenu     == MenuInit /\ ~disk.games["awake"] /\ disk.text = 10 /\ ~disk.check
NoCommands == CommandsInit /\ setupFile = "none"
NoHead     == HeadInit /\ frame = CHOOSE f \in Pictures : TRUE
OnlyPool == NoDemand /\ NoTraffic /\ NoHubThere /\ NoDialog /\ NoRecentre /\ NoHead /\ NoMenu /\ NoCommands
KeptPool == UNCHANGED <<which, vars, connVars, hubVars, pitchVars, recentreVars, headVars, menuVars, cmdVars>>

PartsInit ==
    \/ which = "demand" /\ OnlyPool /\ Rest1
    \/ which = "usb" /\ NoDemand /\ ConnInit /\ NoHubThere /\ NoDialog /\ NoRecentre /\ NoHead /\ NoMenu /\ NoCommands /\ Rest1
    \/ which = "flows" /\ NoDemand /\ NoTraffic /\ HubInit /\ NoDialog /\ NoRecentre /\ NoHead /\ NoMenu /\ NoCommands /\ Rest1
    \/ which = "wizard" /\ NoDemand /\ NoTraffic /\ SecondScreen!HubInit /\ NoDialog /\ NoRecentre /\ NoHead /\ NoMenu /\ NoCommands /\ Rest1
    \/ which = "pitch" /\ NoDemand /\ NoTraffic /\ NoHubThere /\ PitchInit /\ NoRecentre /\ NoHead /\ NoMenu /\ NoCommands /\ Rest1
    \/ which = "recentre" /\ NoDemand /\ NoTraffic /\ NoHubThere /\ NoDialog /\ RecentreInit /\ NoHead /\ NoMenu /\ NoCommands /\ Rest1
    \/ which = "menu" /\ NoDemand /\ NoTraffic /\ NoHubThere /\ NoDialog /\ NoRecentre /\ NoHead /\ NoCommands /\ MenuInit /\ Rest1
    \/ which = "autostart" /\ A!AutoInit /\ Rest9 /\ OnlyPool
    \/ which = "accuracy" /\ Q!AccuracyInit /\ OnlyPool
    \/ which = "blinks" /\ B!AccuracyInit /\ OnlyPool
    \/ which = "eyes" /\ E!EyeInit /\ Rest10 /\ OnlyPool
    \/ which = "report" /\ D!DiagInit /\ Rest10 /\ OnlyPool
    \/ which = "calendar" /\ Y!DiagInit /\ Rest10 /\ OnlyPool
    \/ which \in {"commands", "recordings"} /\ NoDemand /\ NoTraffic /\ NoHubThere /\ NoDialog /\ NoRecentre /\ NoHead /\ NoMenu /\ CommandsInit /\ Rest1
    \/ which = "wire" /\ I!WireInit /\ Rest5 /\ OnlyPool
    \/ which = "recap" /\ R!RecapInit /\ Rest10 /\ OnlyPool
    \/ which = "capture" /\ L!CaptureInit /\ Rest8 /\ OnlyPool
    \/ which = "profiles" /\ P!ProfilesInit /\ Rest7 /\ OnlyPool
    \/ which = "frames" /\ F!FrameInit /\ Rest15 /\ OnlyPool
    \/ which = "head" /\ NoDemand /\ NoTraffic /\ NoHubThere /\ NoDialog /\ NoRecentre /\ NoMenu /\ NoCommands /\ HeadInit /\ Rest1

PartsNext ==
    \/ which = "demand" /\ Next /\ UNCHANGED <<which, pool, connVars, hubVars, pitchVars, recentreVars, headVars, menuVars, cmdVars>>
    \/ which = "usb" /\ ConnNext /\ UNCHANGED <<which, pool, vars, hubVars, pitchVars, recentreVars, headVars, menuVars, cmdVars>>
    \/ /\ \/ which = "flows" /\ HubWindowNext
          \/ which = "wizard" /\ SecondScreen!HubWindowNext /\ ~conn'    \* a hub without a tracker
       /\ UNCHANGED <<which, pool, vars, connVars, pitchVars, recentreVars, headVars, menuVars, cmdVars>>
    \/ which = "pitch" /\ PitchNext /\ UNCHANGED <<which, pool, vars, connVars, hubVars, recentreVars, headVars, menuVars, cmdVars>>
    \/ which = "recentre" /\ RecentreNext /\ UNCHANGED <<which, pool, vars, connVars, hubVars, pitchVars, headVars, menuVars, cmdVars>>
    \/ which = "menu" /\ MenuNext /\ UNCHANGED <<which, pool, vars, connVars, hubVars, pitchVars, recentreVars, headVars, cmdVars>>
    \/ which = "autostart" /\ A!AutoNext /\ Keep9 /\ KeptPool
    \/ which = "accuracy" /\ Q!AccuracyNext /\ KeptPool
    \/ which = "blinks" /\ B!AccuracyNext /\ KeptPool
    \/ which = "eyes" /\ E!EyeNext /\ Keep10 /\ KeptPool
    \/ which = "report" /\ D!DiagNext /\ Keep10 /\ KeptPool
    \/ which = "calendar" /\ Y!Midnight /\ Keep10 /\ KeptPool
    \/ /\ \/ which = "commands" /\ CommandsNext
          \/ which = "recordings" /\ TwoCommands!CommandsNext
       /\ UNCHANGED <<which, pool, vars, connVars, hubVars, pitchVars, recentreVars, headVars, menuVars>>
    \/ which = "wire" /\ I!WireNext /\ Keep5 /\ KeptPool
    \/ which = "recap" /\ R!RecapNext /\ Keep10 /\ KeptPool
    \/ which = "capture" /\ L!CaptureNext /\ Keep8 /\ KeptPool
    \/ which = "profiles" /\ P!ProfilesNext /\ Keep7 /\ KeptPool
    \/ which = "frames" /\ F!FrameNext /\ Keep15 /\ KeptPool
    \/ which = "head" /\ HeadNext /\ UNCHANGED <<which, pool, vars, connVars, hubVars, pitchVars, recentreVars, menuVars, cmdVars>>

PartsSpec == PartsInit /\ [][PartsNext]_partsVars
FlowsSpec == PartsInit /\ which = "flows" /\ [][PartsNext]_partsVars

-----------------------------------------------------------------------------
(* What may not come back, and what may not go: a forced flow that was        *)
(* cancelled, while one connection lasts (ForcedOnce), the view of somebody   *)
(* who has been away (Returns); a comment, or a check, of a profile that a    *)
(* command rewrites (ProfileKept).                                           *)
NoRelapse ==
    [][/\ ForcedOnce
       /\ which = "frames" => F!Returns
       /\ which = "profiles" => P!ProfileKept]_partsVars

(* What is shown is so: an accuracy check names the fault there is, on whole  *)
(* samples of the target (VerdictIsTrue), and the eye picture settles on the  *)
(* head that is there (PictureSettles); the outlier gate opens for a head      *)
(* that really has moved (GateOpens), and the next login starts the program   *)
(* the switch says, or none (LoginDoesAsTold).                               *)
ShownIsSo ==
    /\ which = "accuracy" => Q!VerdictIsTrue
    /\ which = "blinks" => B!VerdictIsTrue
    /\ which = "eyes" => E!PictureSettles
    /\ which = "frames" => F!GateOpens
    /\ which = "autostart" => A!LoginDoesAsTold

(* A diagnostic report names nobody, carries the same identity each time,     *)
(* gives a remedy that works, and dates its lines as the calendar does.      *)
ReportIsSound ==
    /\ which = "report" => D!NamesNobody /\ D!SameId /\ D!RemedyWorks
    /\ which = "calendar" => Y!CalendarAgrees

(* What was sent is what is decoded: from the wire (DecodedIsSent), from a    *)
(* USB capture (TimelineIsSaid) and from a recorded session (ReplayIsSession).*)
SentIsDecoded ==
    /\ which = "wire" => I!DecodedIsSent
    /\ which = "recap" => R!TimelineIsSaid
    /\ which = "capture" => L!ReplayIsSession

ASSUME PitchAssumption /\ RecentreAssumption /\ HeadAssumption /\ MenuAssumption /\
       CommandsAssumption /\ F!FrameAssumption /\ E!EyeAssumption
=============================================================================
