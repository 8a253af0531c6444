----------------------------- MODULE HubWindow -----------------------------
(***************************************************************************)
(* The hub's process as its user sees it (tobii-gtk lib.rs): the window,    *)
(* hidden to the tray, minimised or really closed; its 33 ms tick, which    *)
(* holds the tracker while the window is looked at, opens the flow that is  *)
(* needed before anything else can be done, and keeps the eye radios in     *)
(* step with the tracker; and the windows opened over it: display setup,    *)
(* calibration and the gaze preview, each with a claim of its own on the    *)
(* tracker.  The device thread is only a connection that comes and goes.    *)
(***************************************************************************)
EXTENDS Integers, Sequences, FiniteSets, FiniteSetsExt

-----------------------------------------------------------------------------
(* The display-setup wizard (setup_flow.rs, align.rs and screen_pick.rs) and *)
(* what is decided from what it saves (tobii-config setup.rs, edid.rs,       *)
(* calibration_state.rs).  Positions on the screen are in thousandths of its *)
(* width, lengths in millimetres; the tilt, the two other offsets and the    *)
(* corners computed from them play no part here.                             *)
Bounded(v, lo, hi) == IF v < lo THEN lo ELSE IF v > hi THEN hi ELSE v

-----------------------------------------------------------------------------
(* align.rs: the two lines the user drags onto the marks of the tracker. *)
EyeTrackerWidth == 184
MinLine == 20
MaxLine == 980
MinGap == 50

ClampLines(l, r) ==
    LET a == Bounded(l, MinLine, MaxLine)
        b == Bounded(r, MinLine, MaxLine)
        lo == Min({a, b})
        hi == Max({a, b})
        apart == Min({((lo + hi) \div 2) + (MinGap \div 2), MaxLine})
    IN  IF hi - lo < MinGap THEN <<apart - MinGap, apart>> ELSE <<lo, hi>>

AlignmentFromLines(l, r) ==
    LET c == ClampLines(l, r)
        w == (EyeTrackerWidth * 1000) \div (c[2] - c[1])
    IN  [width |-> w, offset |-> ((c[1] + c[2] - 1000) * w) \div 2000]

LinesFromWidthOffset(width, offset) ==
    IF width <= 0 THEN <<250, 750>>
    ELSE LET half == (EyeTrackerWidth * 1000) \div (width * 2)
             centre == 500 + ((offset * 1000) \div width)
         IN  ClampLines(centre - half, centre + half)

-----------------------------------------------------------------------------
(* edid.rs: a monitor is what its EDID says, or none if the EDID names no     *)
(* size; its id may be missing.                                              *)
ParseEdid(m) == IF m.width = 0 \/ m.height = 0 THEN {} ELSE {m}
DetectMonitors(plugged) == UNION {ParseEdid(m) : m \in plugged}
PickMonitor(ms) ==
    IF ms = {} THEN {}
    ELSE {CHOOSE m \in ms : \A n \in ms : n.width * n.height <= m.width * m.height}
ShouldShowPicker(ms) == Cardinality(ms) > 1
PlaneWidthFromEdid(width) == width

(* setup_line: what the card says the display is set up for. *)
SetupLine(setup, saved, ms) ==
    IF setup = {} THEN "never"
    ELSE IF saved = {} THEN "unnamed"
    ELSE IF \E m \in ms : m.id = saved THEN "named"
    ELSE IF ms = {} THEN "nothing read" ELSE "not connected"

(* active_monitor_id: the one that was chosen if it is plugged in, or the     *)
(* largest.                                                                  *)
ActiveMonitorId(saved, ms) ==
    IF saved # {} /\ \E m \in ms : m.id = saved THEN saved
    ELSE UNION {m.id : m \in PickMonitor(ms)}

(* DisplaySetup: the curve is kept and takes no part in the fingerprint. *)
DefaultSetup == [width |-> 600, offset |-> 0, curve |-> 0]
Fingerprint(s) == <<s.width, s.offset>>

(* decide *)
Decide(configured, cal, active, fp) ==
    IF ~configured THEN "ForceSetup"
    ELSE IF cal = {} THEN "ForceCalibration"
    ELSE LET c == CHOOSE c \in cal : TRUE
         IN  IF active # {} /\ c.monitor # {} /\ active # c.monitor THEN "OtherScreen"
             ELSE IF c.fp # fp THEN "GeometryChanged" ELSE "None"

-----------------------------------------------------------------------------
(* The wizard.  `entry' is the text of the width field.                      *)
Seeded(s, chosen) ==
    IF chosen = {} THEN s ELSE [s EXCEPT !.width = PlaneWidthFromEdid((CHOOSE m \in chosen : TRUE).width)]
LaunchSetup(saved, ms) ==
    LET chosen == IF ShouldShowPicker(ms) THEN {} ELSE PickMonitor(ms)
        was == IF saved = {} THEN DefaultSetup ELSE CHOOSE s \in saved : TRUE
    IN  [phase |-> IF chosen # {} \/ ms = {} THEN "align" ELSE "pick",
         chosen |-> chosen, setup |-> Seeded(was, chosen),
         entry |-> Seeded(was, chosen).width, warned |-> FALSE]

(* A button of the picker *)
PickScreen(z, m) ==
    [z EXCEPT !.chosen = {m}, !.setup = Seeded(@, {m}), !.entry = PlaneWidthFromEdid(m.width),
              !.phase = "align"]

(* add_spinner: a step is clamped and written back; what is typed is clamped  *)
(* into the setup and stays in the field as typed.                           *)
MinWidth == 1
MaxWidth == 5000
WidthStep == 5
SpinWidth(z, delta) ==
    LET v == Bounded(z.setup.width + delta, MinWidth, MaxWidth)
    IN  [z EXCEPT !.setup.width = v, !.entry = v]
TypeWidth(z, v) == [z EXCEPT !.setup.width = Bounded(v, MinWidth, MaxWidth), !.entry = v]

(* The curve's spinner re-snaps the width to the EDID, if there was one. *)
SetCurve(z, r) ==
    LET s == Seeded([z.setup EXCEPT !.curve = Bounded(r, 0, 5000)], z.chosen)
    IN  [z EXCEPT !.setup = s, !.entry = IF z.chosen = {} THEN @ ELSE s.width]

(* drag_begin takes the line nearer to the pointer, drag_update moves it.     *)
DragTarget(z, x) ==
    LET ls == LinesFromWidthOffset(z.setup.width, z.setup.offset)
        dist(i) == IF x > ls[i] THEN x - ls[i] ELSE ls[i] - x
    IN  IF dist(1) <= dist(2) THEN 1 ELSE 2
DragTo(z, x, to) ==
    LET ls == LinesFromWidthOffset(z.setup.width, z.setup.offset)
        i == DragTarget(z, x)
        moved == [ls EXCEPT ![i] = @ + (to - x)]
        a == AlignmentFromLines(moved[1], moved[2])
    IN  [z EXCEPT !.setup.width = a.width, !.setup.offset = a.offset, !.entry = a.width]

(* refresh_status: the size could not be read, or the radius is impossible. *)
StatusWarns(z) == z.chosen = {} \/ (z.setup.curve > 0 /\ z.setup.curve <= z.setup.width \div 2)

AlignDone(z) == [z EXCEPT !.phase = "posture"]

-----------------------------------------------------------------------------
CONSTANTS
    Plugs,           \* the sets of monitors this machine may have plugged in
    Eyes,            \* the eye selections
    DragEnds,        \* where the right line may be dragged to
    Background,      \* started with --background
    MaxDrops, MaxClicks, MaxEdits      \* bounds: connections lost while wanted, radios clicked, fields changed

VARIABLES
    app,             \* "up" or "gone"
    hub,             \* the window
    wins,            \* the other windows of the application
    claim,           \* who holds the tracker: the hub, and windows by number
    conn,            \* ConnStatus::Connected
    evaluated, forced_open,
    button,          \* the three buttons that open a flow: sensitive or not
    banner,          \* what is recommended
    plugged,         \* the monitors that are plugged in
    saved,           \* the files: the setup, its monitor, the calibration, the eyes
    eye,             \* the radios, and what they were seeded from
    reported,             \* what the device thread publishes about the eyes, and its queue
    launched,        \* the first activation has been seen
    drops, clicks, edits,
    forcedFor        \* what flows were forced for since the tracker connected

hubVars == <<app, hub, wins, claim, conn, evaluated, forced_open, button, banner, plugged, saved,
             eye, reported, launched, drops, clicks, edits, forcedFor>>

-----------------------------------------------------------------------------
(* evaluate_calibration_state *)
Evaluate(f) ==
    Decide(f.setup # {}, f.cal, ActiveMonitorId(f.monitor, DetectMonitors(plugged)),
           IF f.setup = {} THEN <<>> ELSE Fingerprint(CHOOSE s \in f.setup : TRUE))

HubHold == 0
HubWantsTracker(active, tab) == active /\ tab = "tracker"

NoHub == [built |-> FALSE, mapped |-> FALSE, minimised |-> FALSE, active |-> FALSE, sensitive |-> TRUE,
          tab |-> "tracker", quitting |-> FALSE, line |-> "never"]

(* screen_now, which the card shows until it is restated *)
ScreenNow(f) == SetupLine(f.setup, f.monitor, DetectMonitors(plugged))

(* A machine nothing was set up on, and one that was. *)
FirstStart == [setup |-> {}, monitor |-> {}, cal |-> {}, eye |-> {}]
Configured ==
    [FirstStart EXCEPT !.setup = {DefaultSetup}, !.monitor = ActiveMonitorId({}, DetectMonitors(plugged)),
                  !.cal = {[monitor |-> ActiveMonitorId({}, DetectMonitors(plugged)), fp |-> Fingerprint(DefaultSetup)]}]

HubInit ==
    /\ app = "up" /\ hub = NoHub
    /\ wins = {} /\ claim = {} /\ conn = FALSE /\ evaluated = FALSE /\ forced_open = FALSE
    /\ button = [setup |-> TRUE, cal |-> TRUE, recal |-> TRUE] /\ banner = "None"
    /\ plugged \in Plugs
    /\ saved \in {FirstStart, Configured}
    /\ eye = [radio |-> "both", seeded |-> FALSE, seen |-> 0]
    /\ reported = [eye |-> {}, applied |-> 0, queue |-> <<>>, unseen |-> FALSE]
    /\ launched = FALSE /\ drops = 0 /\ clicks = 0 /\ edits = 0 /\ forcedFor = {}

(* activate: the launch itself in the background shows nothing; a window that *)
(* is there is presented; otherwise one is built, over the saved selection.   *)
BuildHub ==
    /\ hub' = [NoHub EXCEPT !.built = TRUE, !.mapped = TRUE, !.line = ScreenNow(saved)]
    /\ eye' = [eye EXCEPT !.radio = IF saved.eye = {} THEN "both" ELSE CHOOSE e \in saved.eye : TRUE]
Activate ==
    /\ app = "up" /\ launched' = TRUE
    /\ \/ Background /\ ~launched /\ UNCHANGED <<hub, eye>>
       \/ ~(Background /\ ~launched) /\ hub.built
          /\ hub' = [hub EXCEPT !.mapped = TRUE, !.minimised = FALSE] /\ UNCHANGED eye
       \/ ~(Background /\ ~launched) /\ ~hub.built /\ BuildHub
    /\ UNCHANGED <<app, wins, claim, conn, evaluated, forced_open, button, banner, plugged, saved,
                   reported, drops, clicks, edits, forcedFor>>

-----------------------------------------------------------------------------
(* Windows.  hold_while_open: the claim is the window's, from its opening to   *)
(* its removal from the application.                                         *)
WindowIds(ws) == {w.id : w \in ws}
HoldWhileOpen(w) == claim \cup {w.id}
Opens(kind, why) ==
    [id |-> Min((1 .. 4) \ WindowIds(wins)), kind |-> kind, why |-> why,
     page |-> IF kind = "setup" THEN LaunchSetup(saved.setup, DetectMonitors(plugged)) ELSE DefaultSetup]

(* A button opens a flow, and cannot be pressed again until it is closed.      *)
(* Calibrating switches the preview off first.  The preview is one window.    *)
Usable == hub.built /\ hub.mapped /\ ~hub.minimised /\ hub.sensitive /\ hub.tab = "tracker"
Preview == {w \in wins : w.kind = "preview"}
Modal == {w \in wins : w.kind # "preview"}

SetupClicked ==
    /\ Usable /\ Modal = {} /\ button.setup
    /\ button' = [button EXCEPT !.setup = FALSE]
    /\ LET w == Opens("setup", "button")
       IN  wins' = wins \cup {w} /\ claim' = HoldWhileOpen(w)
    /\ UNCHANGED <<app, hub, conn, evaluated, forced_open, banner, plugged, saved, eye, reported,
                   launched, drops, clicks, edits, forcedFor>>

CalibrateClicked(why) ==
    /\ Usable /\ Modal = {} /\ button[why]
    /\ why = "recal" => banner # "None"
    /\ button' = [button EXCEPT ![why] = FALSE]
    /\ banner' = IF why = "recal" THEN "None" ELSE banner
    /\ LET w == Opens("calibration", why)
       IN  wins' = (wins \ Preview) \cup {w} /\ claim' = HoldWhileOpen(w) \ WindowIds(Preview)
    /\ UNCHANGED <<app, hub, conn, evaluated, forced_open, plugged, saved, eye, reported, launched,
                   drops, clicks, edits, forcedFor>>

DismissBanner ==
    /\ Usable /\ Modal = {} /\ banner # "None" /\ banner' = "None"
    /\ UNCHANGED <<app, hub, wins, claim, conn, evaluated, forced_open, button, plugged, saved,
                   eye, reported, launched, drops, clicks, edits, forcedFor>>

PreviewSwitched ==
    /\ Usable /\ Modal = {}
    /\ IF Preview = {}
       THEN LET w == Opens("preview", "switch")
            IN  wins' = wins \cup {w} /\ claim' = HoldWhileOpen(w)
       ELSE wins' = wins \ Preview /\ claim' = claim \ WindowIds(Preview)
    /\ UNCHANGED <<app, hub, conn, evaluated, forced_open, button, banner, plugged, saved, eye,
                   reported, launched, drops, clicks, edits, forcedFor>>

(* What closing ws does beyond removing them: the close handlers of the two    *)
(* flows, and of launch_forced, which asks again only if the answer changed.  *)
MutReasks(f, why) == TRUE
Reasks(f, why) == Evaluate(f) # why
Forced(w) == w.why \in {"ForceSetup", "ForceCalibration"}
CloseAll(ws, f) ==
    /\ wins' = wins \ ws /\ claim' = claim \ WindowIds(ws)
    /\ button' = [b \in DOMAIN button |-> button[b] \/ \E w \in ws : w.why = b \/ (b = "setup" /\ w.why = "button")]
    /\ hub' = [hub EXCEPT !.sensitive = @ \/ \E w \in ws : Forced(w),
                          !.line = IF \E w \in ws : w.kind = "setup" THEN ScreenNow(f) ELSE @]
    /\ forced_open' = (forced_open /\ ~\E w \in ws : Forced(w))
    /\ evaluated' = (evaluated /\ ~\E w \in ws : Forced(w) /\ Reasks(f, w.why))

(* Cancel, Esc *)
CloseFlow(w) ==
    /\ w \in Modal /\ CloseAll({w}, saved)
    /\ UNCHANGED <<app, conn, banner, plugged, saved, eye, reported, launched, drops, clicks, edits, forcedFor>>

(* The wizard's own pages *)
Turn(w, page, n) ==
    /\ wins' = (wins \ {w}) \cup {[w EXCEPT !.page = page]}
    /\ edits' = edits + n
    /\ UNCHANGED <<app, hub, claim, conn, evaluated, forced_open, button, banner, plugged, saved,
                   eye, reported, launched, drops, clicks, forcedFor>>
EditsOf(z) ==
    {SpinWidth(z, WidthStep), TypeWidth(z, 9999), SetCurve(z, 200)}
    \cup {DragTo(z, LinesFromWidthOffset(z.setup.width, z.setup.offset)[2], to) : to \in DragEnds}
Wizard(w) ==
    /\ w \in wins /\ w.kind = "setup"
    /\ \/ w.page.phase = "pick" /\ \E m \in DetectMonitors(plugged) : Turn(w, PickScreen(w.page, m), 0)
       \/ w.page.phase = "align" /\ edits < MaxEdits /\ \E z \in EditsOf(w.page) : Turn(w, z, 1)
       \/ w.page.phase = "align" /\ Turn(w, AlignDone(w.page), 0)

(* Done on the last page: both files are written, the tracker is told; the     *)
(* window stays, with a warning, unless both could be saved.                  *)
PostureDone(w, ok, idOk) ==
    /\ w \in wins /\ w.kind = "setup" /\ w.page.phase = "posture"
    /\ saved' = [saved EXCEPT !.setup = IF ok THEN {w.page.setup} ELSE @,
                              !.monitor = IF idOk THEN UNION {m.id : m \in w.page.chosen} ELSE @]
    /\ IF ok /\ idOk
       THEN CloseAll({w}, saved')
       ELSE /\ wins' = (wins \ {w}) \cup {[w EXCEPT !.page.warned = TRUE]}
            /\ UNCHANGED <<claim, button, hub, forced_open, evaluated>>
    /\ UNCHANGED <<app, conn, banner, plugged, eye, reported, launched, drops, clicks, edits, forcedFor>>

(* The device thread saves a calibration for the screen and geometry of now. *)
CalibrationSaved(w) ==
    /\ w \in wins /\ w.kind = "calibration" /\ conn
    /\ saved' = [saved EXCEPT !.cal =
                    {[monitor |-> ActiveMonitorId(saved.monitor, DetectMonitors(plugged)),
                      fp |-> IF saved.setup = {} THEN <<>> ELSE Fingerprint(CHOOSE s \in saved.setup : TRUE)]}]
    /\ saved'.cal # saved.cal
    /\ UNCHANGED <<app, hub, wins, claim, conn, evaluated, forced_open, button, banner, plugged,
                   eye, reported, launched, drops, clicks, edits, forcedFor>>

-----------------------------------------------------------------------------
(* The tick, while the window is mapped.  The claim follows the focus, and a   *)
(* window nobody can see goes no further.                                     *)
FocusHold(c) == IF HubWantsTracker(hub.active, hub.tab) THEN c \cup {HubHold} ELSE c \ {HubHold}

(* Asked once for each connection, and again when a forced flow closes. *)
AsksNow == conn /\ ~evaluated /\ ~forced_open

LaunchForced(kind, why) ==
    LET w == Opens(kind, why)
        off == IF kind = "calibration" THEN Preview ELSE {}
    IN  /\ wins' = (wins \ off) \cup {w} /\ claim' = FocusHold(HoldWhileOpen(w) \ WindowIds(off))
        /\ hub' = [hub EXCEPT !.sensitive = FALSE]
        /\ forced_open' = TRUE /\ forcedFor' = forcedFor \cup {why}

(* The radios: at the first tick of a connection, and after every command the  *)
(* device thread has answered.                                               *)
MutAppliedMoved == FALSE
AppliedMoved == eye.seen # reported.applied
SeedEye ==
    eye' = IF ~conn THEN [eye EXCEPT !.seeded = FALSE]
           ELSE [radio |-> IF (~eye.seeded \/ AppliedMoved) /\ reported.eye # {} THEN CHOOSE e \in reported.eye : TRUE ELSE eye.radio,
                 seeded |-> eye.seeded \/ reported.eye # {},
                 seen |-> IF ~eye.seeded \/ AppliedMoved THEN reported.applied ELSE eye.seen]

TickHidden ==
    /\ hub.mapped /\ ~hub.active
    /\ claim' = FocusHold(claim)
    /\ UNCHANGED <<app, hub, wins, conn, evaluated, forced_open, button, banner, plugged, saved,
                   eye, reported, launched, drops, clicks, edits, forcedFor>>
TickShown ==
    /\ hub.mapped /\ ~hub.minimised
    /\ SeedEye
    /\ evaluated' = (conn /\ (evaluated \/ AsksNow))
    /\ IF AsksNow /\ Evaluate(saved) = "ForceSetup"
       THEN LaunchForced("setup", "ForceSetup") /\ UNCHANGED banner
       ELSE IF AsksNow /\ Evaluate(saved) = "ForceCalibration"
       THEN LaunchForced("calibration", "ForceCalibration") /\ UNCHANGED banner
       ELSE /\ banner' = IF AsksNow /\ Evaluate(saved) # "None" THEN Evaluate(saved) ELSE banner
            /\ claim' = FocusHold(claim) /\ UNCHANGED <<wins, hub, forced_open, forcedFor>>
    /\ UNCHANGED <<app, conn, button, plugged, saved, reported, launched, drops, clicks, edits>>

-----------------------------------------------------------------------------
(* The user, and the desktop.  Only a mapped window that is not minimised and  *)
(* not covered by a modal one becomes active.                                *)
FocusMoves ==
    /\ hub.mapped
    /\ hub' = [hub EXCEPT !.active = ~@]
    /\ hub'.active => ~hub.minimised /\ Modal = {}
    /\ UNCHANGED <<app, wins, claim, conn, evaluated, forced_open, button, banner, plugged, saved,
                   eye, reported, launched, drops, clicks, edits, forcedFor>>
SwitchTab ==
    /\ hub.active /\ hub.sensitive /\ Modal = {}
    /\ hub' = [hub EXCEPT !.tab = IF @ = "tracker" THEN "games" ELSE "tracker"]
    /\ UNCHANGED <<app, wins, claim, conn, evaluated, forced_open, button, banner, plugged, saved,
                   eye, reported, launched, drops, clicks, edits, forcedFor>>

(* X: hidden if the tray's icon is published, which unmaps it and gives the    *)
(* claim up; or minimised.                                                   *)
MutUnmapped(c) == c
Unmapped(c) == c \ {HubHold}
HideHub(tray) ==
    /\ hub.built /\ hub.mapped /\ ~hub.quitting
    /\ IF tray
       THEN hub' = [hub EXCEPT !.mapped = FALSE, !.active = FALSE] /\ claim' = Unmapped(claim)
       ELSE hub' = [hub EXCEPT !.minimised = TRUE, !.active = FALSE] /\ UNCHANGED claim
    /\ UNCHANGED <<app, wins, conn, evaluated, forced_open, button, banner, plugged, saved, eye,
                   reported, launched, drops, clicks, edits, forcedFor>>

(* quit_everything: the hub is closed for real, and everything with it; a hub  *)
(* that was never built has only the icon to take down.                       *)
QuitEverything ==
    /\ app = "up" /\ app' = "gone"
    /\ IF hub.built
       THEN /\ wins' = {} /\ claim' = claim \ ({HubHold} \cup WindowIds(wins))
            /\ hub' = [NoHub EXCEPT !.quitting = TRUE] /\ forced_open' = FALSE
       ELSE UNCHANGED <<wins, claim, hub, forced_open>>
    /\ conn' = FALSE
    /\ UNCHANGED <<evaluated, button, banner, plugged, saved, eye, reported, launched, drops,
                   clicks, edits, forcedFor>>

(* A radio: the choice is saved and sent to the device thread. *)
EyeClicked(e) ==
    /\ Usable /\ Modal = {} /\ e # eye.radio /\ clicks < MaxClicks
    /\ eye' = [eye EXCEPT !.radio = e] /\ saved' = [saved EXCEPT !.eye = {e}]
    /\ reported' = [reported EXCEPT !.queue = Append(@, e)] /\ clicks' = clicks + 1
    /\ UNCHANGED <<app, hub, wins, claim, conn, evaluated, forced_open, button, banner, plugged,
                   launched, drops, edits, forcedFor>>

-----------------------------------------------------------------------------
(* The device thread: it connects while something wants the tracker, re-applies *)
(* the selection and reads what the device has; a command is taken or refused  *)
(* and counted either way.  A selection the device refuses leaves what it has. *)
(* Connecting takes many ticks: a window that is shown has seen the loss; one   *)
(* that is hidden has not (`unseen').                                         *)
Connects ==
    /\ app = "up" /\ ~conn /\ claim # {} /\ conn' = TRUE
    /\ hub.mapped /\ ~hub.minimised => ~evaluated /\ ~eye.seeded
    /\ \E e \in Eyes : reported' = [reported EXCEPT !.eye = {e}, !.unseen = eye.seeded]
    /\ forcedFor' = {}
    /\ UNCHANGED <<app, hub, wins, claim, evaluated, forced_open, button, banner, plugged, saved,
                   eye, launched, drops, clicks, edits>>
Disconnects ==
    /\ conn /\ (claim # {} => drops < MaxDrops) /\ conn' = FALSE
    /\ drops' = IF claim # {} THEN drops + 1 ELSE drops
    /\ UNCHANGED <<app, hub, wins, claim, evaluated, forced_open, button, banner, plugged, saved,
                   eye, reported, launched, clicks, edits, forcedFor>>
AppliesEye(taken) ==
    /\ conn /\ reported.queue # <<>>
    /\ reported' = [reported EXCEPT !.eye = IF taken THEN {Head(reported.queue)} ELSE @, !.applied = @ + 1, !.queue = Tail(@)]
    /\ UNCHANGED <<app, hub, wins, claim, conn, evaluated, forced_open, button, banner, plugged,
                   saved, eye, launched, drops, clicks, edits, forcedFor>>

TakesEye == \E taken \in BOOLEAN : AppliesEye(taken)
HubWindowNext ==
    \/ Activate \/ SetupClicked \/ (\E b \in {"cal", "recal"} : CalibrateClicked(b))
    \/ DismissBanner \/ PreviewSwitched
    \/ (\E w \in wins : CloseFlow(w) \/ Wizard(w) \/ CalibrationSaved(w))
    \/ (\E w \in wins, ok, idOk \in BOOLEAN : PostureDone(w, ok, idOk))
    \/ TickHidden \/ TickShown \/ FocusMoves \/ SwitchTab \/ (\E tray \in BOOLEAN : HideHub(tray)) \/ QuitEverything
    \/ (\E e \in Eyes : EyeClicked(e))
    \/ Connects \/ Disconnects \/ TakesEye

(* The timer fires, and a window that is active is not suspended; the device   *)
(* thread takes the commands sent to it.                                      *)
Looking == hub.active /\ TickShown
HubWindowFair == WF_hubVars(Looking) /\ WF_hubVars(TakesEye)
HubWindowSpec == HubInit /\ [][HubWindowNext]_hubVars /\ HubWindowFair

-----------------------------------------------------------------------------
(* A claim on the tracker has an owner: a window that is open, or the hub while *)
(* it is mapped.  Whatever is closed, hidden or quit, and in whichever order,  *)
(* no claim is left behind to keep the illuminators lit, and no open flow      *)
(* loses the tracker.                                                        *)
ClaimsOwned ==
    /\ claim \ {HubHold} = WindowIds(wins)
    /\ HubHold \in claim => hub.mapped

(* A flow that is forced can be cancelled: while one connection lasts the hub  *)
(* does not put the same flow up over itself a second time (launch_forced).    *)
ForcedOnce == forced_open' /\ ~forced_open => Evaluate(saved) \notin forcedFor

(* While the window is looked at and the tracker is there, the radios end up   *)
(* on what the tracker has, a refused selection included; a reconnection the   *)
(* hidden window did not see is left out.                                     *)
Watched == hub.active /\ conn /\ ~reported.unseen
EyeIsShown == reported.queue = <<>> /\ (reported.eye = {} \/ reported.eye = {eye.radio})
EyesAgree == <>[]Watched => <>[]EyeIsShown

(* Why: a window's number is its own, because three kinds of window share     *)
(* four numbers and there is at most one of each (the preview, the flow of a  *)
(* button, the flow that is forced); ...                                     *)
Family(w) == IF Forced(w) THEN "forced" ELSE IF w.kind = "preview" THEN "preview" ELSE "button"
WindowsApart ==
    /\ \A w \in wins :
         /\ DOMAIN w = {"id", "kind", "why", "page"} /\ w.id \in 1 .. 4
         /\ Forced(w) => w.kind # "preview"
    /\ \A v, w \in wins : v.id = w.id \/ Family(v) = Family(w) => v = w
    /\ forced_open \in BOOLEAN /\ (forced_open <=> \E w \in wins : Forced(w))

(* ... and what was forced since the tracker connected was done before the    *)
(* hub asks again: setting up comes before calibrating, and what is on disk   *)
(* stays there.                                                              *)
ForcedInOrder ==
    /\ DOMAIN saved = {"setup", "monitor", "cal", "eye"}
    /\ forcedFor \subseteq {"ForceSetup", "ForceCalibration"}
    /\ "ForceCalibration" \in forcedFor => saved.setup # {}
    /\ \A w \in wins : w.why = "ForceCalibration" => saved.setup # {}
    /\ \A w \in wins : w.why = "ForceSetup" => "ForceCalibration" \notin forcedFor
ForcedIsDone ==
    conn /\ ~evaluated =>
        IF forced_open THEN forcedFor = {}
        ELSE /\ "ForceSetup" \in forcedFor => saved.setup # {}
             /\ "ForceCalibration" \in forcedFor => saved.cal # {}
HubOK == DOMAIN hub = DOMAIN NoHub
HubWindowInv == HubOK /\ ClaimsOwned /\ WindowsApart /\ ForcedInOrder /\ ForcedIsDone

(* One flow at a time: two wizards would each be seeded from the same files    *)
(* and the second to finish would undo the first, and two calibrations would   *)
(* drive one session.                                                        *)
OneFlow == Cardinality(Modal) <= 1
=============================================================================
