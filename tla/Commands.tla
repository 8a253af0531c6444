------------------------------ MODULE Commands ------------------------------
(***************************************************************************)
(* The commands of `tobii` that talk to the tracker themselves (main.rs):  *)
(* each opens the device, puts its requests one after another, reads what  *)
(* streams, and lets the device go.  A command is its list of steps; a     *)
(* request is answered, or is not in time (silent: the tracker may have    *)
(* done it all the same), or cannot be sent, and the step says where the   *)
(* command goes then.  Ctrl-C ends a command anywhere, without the close   *)
(* that makes the tracker start over.  `tobii record` leaves a file.       *)
(***************************************************************************)
EXTENDS Integers, Sequences, FiniteSets, SequencesExt

CONSTANTS
    GazeStream,   \* the stream the handshake subscribes to
    Probed,       \* stream ids `probe-streams` is given, in their order
    EyeChoices,         \* what `enabled-eye` can be given
    ArgLists,     \* command lines of `tobii record`
    GameConfigs,  \* configurations `tobii headpose` can find, with its arguments
    MaxSeen,      \* bound: notifications a command reads
    MaxCommands,  \* bound: commands
    MaxAge        \* HEAD_POSE_MAX_AGE, in readings

VARIABLES
    et5,      \* the tracker: its calibration, whether a calibration session is open, streams, area, eye
    setupFile,    \* the display set up on disk: "none", "good", "unreadable"
    cli,      \* the running command: its steps, where it is, what it has read, what it has recorded
    verdict,     \* what the last command reported
    files,    \* the recordings on disk: a name and what is in it
    found,    \* the tracker as the command found it, once connected
    flawed,   \* a request of this command went without its answer
    commands  \* bound: commands so far

cmdVars == <<et5, setupFile, cli, verdict, files, found, flawed, commands>>

-----------------------------------------------------------------------------
(* A step, where the command goes when nothing answers and when the request  *)
(* cannot be sent: 1 is the next step, Abort gives the error up, Quit ends.  *)
Abort == 0
QuitNow == 99
Step(op, arg, silent, failed) == [op |-> op, arg |-> arg, silent |-> silent, failed |-> failed]

(* Connection: an answer that must come (expect_response), and one that may. *)
Must(op, arg, failed) == Step(op, arg, failed, failed)
May(op, arg, failed) == Step(op, arg, 1, failed)
StartCalibration(failed) == Must("start", "none", failed)
StopCalibration(failed) == Must("stop", "none", failed)
RetrieveCalibration(failed) == Must("retrieve", "none", failed)
ApplyCalibration(form) == Must("apply", form, Abort)
GetEnabledEye == May("get_eye", "none", Abort)
SetEnabledEye(eye) == May("eye", eye, Abort)
AddCalibrationPoint(p) == Must("add", p, Abort)
ClearCalibration == Must("clear", "none", Abort)
ComputeCalibration(failed) == Must("compute", "none", failed)
SubscribeStream(id) == May("subscribe", id, Abort)
UnsubscribeStream(id) == May("unsubscribe", id, 1)
ReadUntil(until) == Step("read", until, 1, 1)

(* reapply_display_area: with something to apply, and never fatal. *)
SetDisplayArea(failed) == May("area", "saved", failed)
ReapplyDisplayArea == <<SetDisplayArea(1)>>

-----------------------------------------------------------------------------
(* The commands. *)
EnabledEyeCmd(eye) ==
    (IF eye = "none" THEN <<>> ELSE <<SetEnabledEye(eye)>>) \o <<GetEnabledEye>>
MutCalProbe == ReapplyDisplayArea \o <<StartCalibration(QuitNow), ReadUntil("deadline")>>
CalProbe == ReapplyDisplayArea \o <<StartCalibration(QuitNow), ReadUntil("deadline"), StopCalibration(1)>>
CalPoints ==
    ReapplyDisplayArea \o
    <<May("points", "none", 1), StartCalibration(QuitNow), May("points", "none", 1), StopCalibration(1)>>
CalBlob ==
    ReapplyDisplayArea \o
    <<RetrieveCalibration(Abort), May("apply", "as-is", 1), May("apply", "stripped", 1)>>
ProbeStream(id) == ReapplyDisplayArea \o <<SubscribeStream(id), ReadUntil("deadline")>>
ProbeStreams ==
    ReapplyDisplayArea \o <<ReadUntil("deadline")>> \o
    [i \in DOMAIN Probed |-> May("subscribe", Probed[i], 1)] \o <<ReadUntil("deadline")>> \o
    [i \in DOMAIN Probed |-> UnsubscribeStream(Probed[i])]
StreamCatalog == <<May("catalog", "none", Abort)>>
DeviceLog ==
    ReapplyDisplayArea \o <<Must("subscribe", "log", Abort), ReadUntil("deadline"), UnsubscribeStream("log")>>
CameraBoth ==
    ReapplyDisplayArea \o
    <<SubscribeStream("left"), SubscribeStream("right"), ReadUntil("deadline"),
      UnsubscribeStream("left"), UnsubscribeStream("right")>>
Camera(id) == ReapplyDisplayArea \o <<SubscribeStream(id), ReadUntil("count")>>
DumpStream(id) == ReapplyDisplayArea \o <<SubscribeStream(id), ReadUntil("count")>>
ColumnsCmd == ReapplyDisplayArea \o <<ReadUntil("forever")>>
Stream == ReapplyDisplayArea \o <<ReadUntil("forever")>>
DisplayGet == <<Must("get_area", "none", Abort)>>
DisplaySet == <<SetDisplayArea(Abort)>>
SetupApplies == <<SetDisplayArea(QuitNow)>>
(* calibrate: when the computing fails, the session is left first. *)
Calibrate ==
    <<StartCalibration(Abort), ClearCalibration, RetrieveCalibration(1)>> \o
    [i \in 1..2 |-> AddCalibrationPoint(i)] \o
    <<ComputeCalibration(4), StopCalibration(1), RetrieveCalibration(Abort),
      Step("quit", "none", 1, 1),
      StopCalibration(1), Step("abort", "none", 1, 1)>>

(* headpose: the configuration it goes by, ... *)
ApplyGamesOptIn(c) ==
    LET opted == c.enabled \/ "--extended-view" \in c.args IN
    [c EXCEPT !.view = @ /\ opted /\ "--no-extended-view" \notin c.args,
              !.bridge = @ /\ opted,
              !.joystick = @ /\ opted]
SinksOf(c) ==
    {"opentrack"} \cup (IF c.bridge THEN {"bridge"} ELSE {})
                  \cup (IF c.joystick /\ ~c.present THEN {"joystick"} ELSE {})
(* ... the model, whose absence costs the pitch, and the steps.              *)
OpenModel(c) == c.model = "auto" /\ c.installed
Headpose(c) ==
    ReapplyDisplayArea \o
    (IF OpenModel(c) THEN <<SubscribeStream("left")>> ELSE <<>>) \o
    <<ReadUntil(IF "--calibrate-pitch" \in c.args THEN "pitch" ELSE "forever")>>

-----------------------------------------------------------------------------
(* `tobii record`: its command line, taken strictly. *)
OptionsOf(args) == ToSet(args) \cap {"--calibration", "--calibraton"}
Positional(args) == SelectSeq(args, LAMBDA a : a \notin {"--calibration", "--calibraton"})
WithCalibration(args) == Contains(args, "--calibration")
IsNumber(a) == a \in {"60", "0"}
MutRefusesArgs(args) == WithCalibration(args) /\ Len(Positional(args)) > 1
RefusesArgs(args) ==
    LET p == Positional(args) IN
    \/ Contains(args, "--calibraton")
    \/ WithCalibration(args) /\ (Len(p) > 1 \/ (p # <<>> /\ IsNumber(p[1])))
    \/ ~WithCalibration(args) /\ Len(p) > 1 /\ ~IsNumber(p[2])
PathOf(args) ==
    LET p == Positional(args) IN
    IF p # <<>> THEN p[1] ELSE IF WithCalibration(args) THEN "calibration.tobiicap" ELSE "session.tobiicap"
FramesOf(args) ==
    LET p == Positional(args) IN
    ~WithCalibration(args) /\ ~(Len(p) > 1 /\ p[2] = "0")
RecordSession(args) ==
    ReapplyDisplayArea \o <<GetEnabledEye>> \o
    (IF WithCalibration(args) THEN <<RetrieveCalibration(Abort)>> ELSE <<>>) \o
    (IF FramesOf(args) THEN <<SubscribeStream(GazeStream), ReadUntil("count"), UnsubscribeStream(GazeStream)>>
     ELSE <<>>) \o
    <<Step("save", [path |-> PathOf(args), by |-> args], 1, Abort)>>

-----------------------------------------------------------------------------
(* What a command makes of what it has read.                                 *)
OfStream(seen, id) == SelectSeq(seen, LAMBDA n : n.stream = id)
ProbeVerdict(seen, id) ==
    LET mine == OfStream(seen, id) IN
    IF \E i \in DOMAIN mine : mine[i].data # mine[1].data THEN "live"
    ELSE IF Len(mine) > 1 THEN "constant" ELSE "rare"
Novel(base, after) == {n.stream : n \in ToSet(after)} \ {n.stream : n \in ToSet(base)}
StereoVerdict(seen) ==
    LET at(id, t) == {n.data : n \in {m \in ToSet(OfStream(seen, id)) : m.at = t}}
        matched == {t \in {n.at : n \in ToSet(seen)} : at("left", t) # {} /\ at("right", t) # {}}
        identical == {t \in matched : at("left", t) = at("right", t)}
    IN IF matched = {} THEN "unaligned"
       ELSE IF identical = matched THEN "same" ELSE IF identical = {} THEN "two-views" ELSE "mixed"
Report(c) ==
    CASE c.name = "probe-stream" -> ProbeVerdict(c.seen, "left")
      [] c.name = "probe-streams" -> IF Novel(c.base, c.seen) = {} THEN "nothing-new" ELSE "new"
      [] c.name = "camera-both" -> StereoVerdict(c.seen)
      [] OTHER -> "done"

-----------------------------------------------------------------------------
NoCommand == [name |-> "none", prog |-> <<>>, at |-> 0, base |-> <<>>, seen |-> <<>>, took |-> {},
              age |-> 0, frame |-> "none", recentring |-> FALSE]
Rebooted(d) == [d EXCEPT !.open = FALSE, !.streams = {}, !.area = "stub"]
Fixture(p, args) == [path |-> p, blob |-> WithCalibration(args), by |-> args]

CommandsInit ==
    /\ et5 = [cal |-> "own", open |-> FALSE, streams |-> {}, area |-> "stub", eye |-> "both"]
    /\ setupFile \in {"none", "good", "unreadable"}
    /\ cli = NoCommand /\ verdict = "none" /\ commands = 0 /\ flawed = FALSE /\ found = et5
    /\ files = {Fixture("calibration.tobiicap", <<"--calibration">>), Fixture("session.tobiicap", <<>>)}

(* Every program, once its arguments are taken. *)
Programs ==
    {[name |-> "enabled-eye", prog |-> EnabledEyeCmd(e)] : e \in EyeChoices \cup {"none"}} \cup
    {[name |-> "record", prog |-> RecordSession(a)] : a \in {b \in ArgLists : ~RefusesArgs(b)}} \cup
    {[name |-> "headpose", prog |-> Headpose(ApplyGamesOptIn(c))] : c \in GameConfigs} \cup
    {[name |-> "cal-probe", prog |-> CalProbe], [name |-> "cal-points", prog |-> CalPoints],
     [name |-> "cal-blob", prog |-> CalBlob], [name |-> "probe-stream", prog |-> ProbeStream("left")],
     [name |-> "probe-streams", prog |-> ProbeStreams], [name |-> "streams", prog |-> StreamCatalog],
     [name |-> "log", prog |-> DeviceLog], [name |-> "camera-both", prog |-> CameraBoth],
     [name |-> "camera", prog |-> Camera("left")], [name |-> "dump-stream", prog |-> DumpStream("log")],
     [name |-> "columns", prog |-> ColumnsCmd], [name |-> "stream", prog |-> Stream],
     [name |-> "display-get", prog |-> DisplayGet], [name |-> "calibrate", prog |-> Calibrate],
     [name |-> "calibrate-apply", prog |-> <<ApplyCalibration("saved")>>]} \cup
    (IF setupFile = "good" THEN {[name |-> "display-set", prog |-> DisplaySet]} ELSE {})

CommandConnects(p) ==
    /\ cli' = [NoCommand EXCEPT !.name = p.name, !.prog = p.prog, !.at = 1]
    /\ et5' = [et5 EXCEPT !.streams = @ \cup {GazeStream}]
    /\ found' = et5' /\ flawed' = FALSE
(* UsbTransport::open and Connection::connect, or their refusal. *)
CommandStarts(p) ==
    /\ cli.name = "none" /\ commands < MaxCommands /\ commands' = commands + 1
    /\ \/ CommandConnects(p) /\ verdict' = "none"
       \/ verdict' = "error" /\ UNCHANGED <<et5, cli, found, flawed>>
    /\ UNCHANGED <<setupFile, files>>
(* `tobii setup`: the answers are saved before the device is tried. *)
Setup ==
    /\ cli.name = "none" /\ commands < MaxCommands /\ commands' = commands + 1
    /\ setupFile' = "good"
    /\ \/ CommandConnects([name |-> "setup", prog |-> SetupApplies]) /\ verdict' = "none"
       \/ verdict' = "done" /\ UNCHANGED <<et5, cli, found, flawed>>
    /\ UNCHANGED files

-----------------------------------------------------------------------------
Running == cli.name # "none"
Now == cli.prog[cli.at]
(* The tracker, as far as these commands see it: clearing, adding and        *)
(* computing count inside a session; what was retrieved has lost its prefix, *)
(* so the form cal-blob strips once more is short.                           *)
Does(op, arg, d) ==
    CASE op = "start" -> [d EXCEPT !.open = TRUE]
      [] op = "stop" -> [d EXCEPT !.open = FALSE]
      [] op = "clear" /\ d.open -> [d EXCEPT !.cal = "cleared"]
      [] op = "compute" /\ d.open -> [d EXCEPT !.cal = "other"]
      [] op = "apply" /\ arg = "stripped" -> [d EXCEPT !.cal = "short"]
      [] op = "apply" /\ arg = "saved" -> [d EXCEPT !.cal = "own"]
      [] op = "subscribe" -> [d EXCEPT !.streams = @ \cup {arg}]
      [] op = "unsubscribe" -> [d EXCEPT !.streams = @ \ {arg}]
      [] op = "area" -> [d EXCEPT !.area = "set"]
      [] op = "eye" -> [d EXCEPT !.eye = arg]
      [] OTHER -> d

(* The command ends: what it says, and the close that restarts the tracker.  *)
CommandEnds(word, d) ==
    /\ verdict' = word /\ cli' = NoCommand /\ et5' = Rebooted(d)
    /\ found' = et5' /\ flawed' = FALSE
Goes(by, d, c, unanswered) ==
    IF by = Abort THEN CommandEnds("error", d)
    ELSE /\ et5' = d /\ cli' = [c EXCEPT !.at = @ + by]
         /\ flawed' = (flawed \/ unanswered) /\ UNCHANGED <<verdict, found>>
CommandFinishes ==
    /\ Running /\ cli.at > Len(cli.prog)
    /\ CommandEnds(Report(cli), et5)
    /\ UNCHANGED <<setupFile, files, commands>>

IsRequest == Running /\ cli.at <= Len(cli.prog) /\ Now.op \notin {"read", "save", "quit", "abort"}
NothingToApply == Now.op = "area" /\ setupFile # "good"
ReplyComes ==
    /\ IsRequest /\ ~NothingToApply
    /\ Goes(1, Does(Now.op, Now.arg, et5), [cli EXCEPT !.took = IF Now.op \in {"subscribe", "retrieve"} THEN @ \cup {Now.op} ELSE @], FALSE)
    /\ UNCHANGED <<setupFile, files, commands>>
Silent ==
    /\ IsRequest /\ ~NothingToApply 
    /\ \E d \in {et5, Does(Now.op, Now.arg, et5)} : Goes(Now.silent, d, cli, TRUE)
    /\ UNCHANGED <<setupFile, files, commands>>
Failed ==
    /\ IsRequest /\ ~NothingToApply 
    /\ Goes(Now.failed, et5, cli, TRUE)
    /\ UNCHANGED <<setupFile, files, commands>>
SkipArea ==
    /\ IsRequest /\ NothingToApply /\ Goes(1, et5, cli, FALSE)
    /\ UNCHANGED <<setupFile, files, commands>>
Leave ==
    /\ Running /\ cli.at <= Len(cli.prog) /\ Now.op \in {"quit", "abort"}
    /\ Goes(IF Now.op = "quit" THEN QuitNow ELSE Abort, et5, cli, FALSE)
    /\ UNCHANGED <<setupFile, files, commands>>

(* read_notifications, next_gaze: what streams, until the step has enough.   *)
Reading == Running /\ cli.at <= Len(cli.prog) /\ Now.op = "read"
Notify ==
    /\ Reading /\ Now.arg # "forever" /\ Len(cli.seen) < MaxSeen
    /\ \E id \in et5.streams, at \in 1..(IF cli.name = "camera-both" THEN 2 ELSE 1), data \in 1..2 :
         cli' = [cli EXCEPT !.seen = Append(@, [stream |-> id, at |-> at, data |-> data])]
    /\ UNCHANGED <<et5, setupFile, verdict, files, found, flawed, commands>>
ReadEnds ==
    /\ Reading /\ Now.arg # "forever"
    /\ IF Now.arg = "pitch" /\ cli.seen = <<>> THEN Goes(Abort, et5, cli, FALSE)
       ELSE Goes(1, et5, IF cli.name = "probe-streams" /\ cli.at = 2
                         THEN [cli EXCEPT !.base = cli.seen, !.seen = <<>>] ELSE cli, FALSE)
    /\ UNCHANGED <<setupFile, files, commands>>
(* headpose's loop: a model's pose counts while it is fresh; the recentring  *)
(* that was asked for starts at the first frame after one that had a pose.   *)
PoseInHand == cli.age > 0
HeadposeGaze ==
    /\ Reading /\ Now.arg = "forever" /\ cli.name = "headpose"
    /\ \E eyes \in BOOLEAN :
         cli' = [cli EXCEPT !.recentring = @ \/ cli.frame # "none",
                    !.frame = IF PoseInHand THEN "model" ELSE IF eyes THEN "eyes" ELSE "none",
                    !.age = IF @ > 0 THEN @ - 1 ELSE 0]
    /\ UNCHANGED <<et5, setupFile, verdict, files, found, flawed, commands>>
HeadposeCamera ==
    /\ Reading /\ Now.arg = "forever" /\ cli.name = "headpose" /\ "left" \in et5.streams
    /\ cli' = [cli EXCEPT !.age = MaxAge]
    /\ UNCHANGED <<et5, setupFile, verdict, files, found, flawed, commands>>

(* capture::save, or its failure. *)
SaveCapture ==
    /\ Running /\ cli.at <= Len(cli.prog) /\ Now.op = "save"
    /\ \/ /\ files' = {f \in files : f.path # Now.arg.path} \cup
                {[path |-> Now.arg.path, blob |-> "retrieve" \in cli.took, by |-> Now.arg.by]}
          /\ Goes(1, et5, cli, FALSE)
       \/ Goes(Abort, et5, cli, FALSE) /\ UNCHANGED files
    /\ UNCHANGED <<setupFile, commands>>

(* Ctrl-C: nothing is closed, the tracker stays as it is. *)
Interrupt ==
    /\ Running
    /\ cli' = NoCommand /\ verdict' = "interrupted" /\ found' = et5 /\ flawed' = FALSE
    /\ UNCHANGED <<et5, setupFile, files, commands>>

CommandsNext ==
    \/ \E p \in Programs : CommandStarts(p)
    \/ Setup \/ CommandFinishes \/ ReplyComes \/ Silent \/ Failed \/ SkipArea \/ Leave
    \/ Notify \/ ReadEnds \/ HeadposeGaze \/ HeadposeCamera \/ SaveCapture \/ Interrupt
CommandsSpec == CommandsInit /\ [][CommandsNext]_cmdVars

-----------------------------------------------------------------------------
(* The probes leave the session as they found it: a command that only looks, *)
(* and whose requests were all answered, comes to its end with the tracker's *)
(* calibration as it was, no session open and no stream on that it had not   *)
(* found so (cal_probe, cal_points, probe_streams, device_log, camera_both). *)
Looks == {"cal-probe", "cal-points", "probe-streams", "log", "camera-both", "streams", "display-get"}
LeavesAsFound ==
    Running /\ cli.at > Len(cli.prog) /\ cli.name \in Looks /\ ~flawed =>
        /\ et5.cal = found.cal /\ et5.streams \subseteq found.streams
        /\ et5.open => found.open

(* Whatever `tobii record` is asked, and whatever fails on the way, the two  *)
(* recordings the tests replay stay what they are for: the calibration one   *)
(* covers a retrieved blob, no mistyped option has recorded over the session *)
(* one, and a frame count is never taken for the name of a file.             *)
FixturesCover ==
    \A f \in files :
        /\ f.path = "calibration.tobiicap" => f.blob
        /\ f.path = "session.tobiicap" => OptionsOf(f.by) = {}
        /\ IsNumber(f.path) => ~WithCalibration(f.by)
CommandsAreClean == LeavesAsFound /\ FixturesCover

-----------------------------------------------------------------------------
(* Why: a command that looks undoes later what it does, and while every       *)
(* request was answered it passes every step, so that what is not as it was   *)
(* found is still to be undone ...                                           *)
Timed(p) ==
    /\ Len(p) \in Nat /\ DOMAIN p = 1..Len(p)
    /\ \A i \in DOMAIN p : p[i].silent \in Nat /\ p[i].failed \in Nat
LookOps == {"area", "points", "catalog", "get_area", "start", "stop", "subscribe", "unsubscribe", "read"}
Unsubscribes(p, from, id) == \E j \in DOMAIN p : j >= from /\ p[j].op = "unsubscribe" /\ p[j].arg = id
Stops(p, from) == \E j \in DOMAIN p : j >= from /\ p[j].op = "stop"
Balanced(p) ==
    \A i \in DOMAIN p :
        /\ p[i].op \in LookOps
        /\ p[i].op = "subscribe" => Unsubscribes(p, i + 1, p[i].arg)
        /\ p[i].op = "start" => Stops(p, i + 1)
LookInv ==
    Running /\ cli.name \in Looks =>
        /\ Balanced(cli.prog)
        /\ ~flawed => /\ et5.cal = found.cal
                      /\ \A id \in et5.streams : id \in found.streams \/ Unsubscribes(cli.prog, cli.at, id)
                      /\ et5.open => found.open \/ Stops(cli.prog, cli.at)

(* ... and only a recording saves, one of a calibration once it has retrieved *)
(* it.                                                                       *)
Saveless(p) == \A i \in DOMAIN p : p[i].op # "save"
SaveInv ==
    Running /\ ~Saveless(cli.prog) =>
        \E a \in ArgLists :
            /\ ~RefusesArgs(a) /\ cli.prog = RecordSession(a)
            /\ WithCalibration(a) /\ cli.at > 3 => "retrieve" \in cli.took

DeviceShape(d) == d = [cal |-> d.cal, open |-> d.open, streams |-> d.streams, area |-> d.area, eye |-> d.eye]
CommandShape(c) ==
    c = [name |-> c.name, prog |-> c.prog, at |-> c.at, base |-> c.base, seen |-> c.seen,
         took |-> c.took, age |-> c.age, frame |-> c.frame, recentring |-> c.recentring]
ShapeInv ==
    /\ DeviceShape(et5) /\ CommandShape(cli) /\ flawed \in BOOLEAN
    /\ Running => Timed(cli.prog) /\ cli.at \in Nat /\ cli.at >= 1
CommandsInv == ShapeInv /\ LookInv /\ SaveInv /\ FixturesCover

(* Nobody names one of the two recordings the tests replay on the command     *)
(* line: it would be recorded over, as asked.                                *)
CommandsAssumption ==
    /\ Probed \in Seq(STRING) /\ ArgLists \subseteq Seq(STRING)
    /\ \A a \in ArgLists : Positional(a) # <<>> =>
          Positional(a)[1] \notin {"calibration.tobiicap", "session.tobiicap"}
=============================================================================
