----------------------------- MODULE FramePath ------------------------------
(***************************************************************************)
(* From a sample of the tracker to what a game's input receives: the        *)
(* position and the view angle of one frame through Extended View           *)
(* (tobii-output fusion.rs), the neutral and the filter (pipeline.rs,       *)
(* tobii-headpose filter.rs), and the router with its three sinks (lib.rs,  *)
(* sinks/).  One axis of each kind stands for its three; time is counted in *)
(* frames.  Recentring is in module Recentre.                               *)
(***************************************************************************)
EXTENDS Integers, Sequences, FiniteSets

CONSTANTS
    Places,          \* head positions, mm along one axis
    Angles,          \* gaze angles from the middle of the screen, degrees
    MaxStep,         \* filter_max_step_mm
    MaxHeld,         \* MAX_HELD_FRAMES
    Alphas,          \* filter_alpha, in percent
    HoldFrames,      \* hold_ms
    LossFrames,      \* TRACKING_LOSS_RESET
    SendEvery,       \* the router's send_interval
    MaxOffers        \* bound: frames

Sinks == {"opentrack", "bridge", "joystick"}

VARIABLES
    alpha, filter,       \* PoseFilter: its strength; last and held
    lastEv, gazeLost,    \* FramePipeline: last_ev, and for how long no gaze
    tracked,             \* frames since last_tracked: none, or a number
    neutral,             \* none, or a position
    sendAge,             \* frames since last_send: none, or a number
    gazeAxis,            \* the joystick's last_gaze
    dead, failures,      \* sinks that cannot send; what the router counts
    got,                 \* the last thing each sink sent
    frame,               \* the frame of this offer
    recent,              \* the poses since the last reset, newest last
    offers

frameVars == <<alpha, filter, lastEv, gazeLost, tracked, neutral, sendAge, gazeAxis, dead, failures, got, frame, recent, offers>>

Abs(v) == IF v < 0 THEN -v ELSE v
Clamp(v, lo, hi) == IF v < lo THEN lo ELSE IF v > hi THEN hi ELSE v

-----------------------------------------------------------------------------
(* fusion.rs, with the linear curve: nothing within the dead zone, and a       *)
(* ceiling.                                                                  *)
ViewCurve == [deadzone |-> 2, input_max |-> 25, output_max |-> 45, clamp |-> 60]
Shape(r, deg) ==
    LET size == Abs(deg)
        span == r.input_max - r.deadzone
        out == IF span > 0 THEN Clamp(((size - r.deadzone) * r.output_max) \div span, 0, r.output_max) ELSE r.output_max
    IN  IF size <= r.deadzone THEN 0 ELSE Clamp(IF deg < 0 THEN -out ELSE out, -r.clamp, r.clamp)
ExtendedView(angle) == Shape(ViewCurve, angle)
HoldThroughBlink(last, lostFor) == IF last # {} /\ lostFor < HoldFrames THEN CHOOSE e \in last : TRUE ELSE 0
Compose(x, yaw) == [x |-> x, yaw |-> yaw]

(* filter.rs: a sample that is far from the last one accepted is not believed *)
(* until it has been there for MaxHeld frames; one that is not a number       *)
(* changes nothing.                                                          *)
NoFilter == [last |-> {}, held |-> 0]
Mix(new, old) == (alpha * new + (100 - alpha) * old) \div 100

(* A fault: the gate never opens. *)
MutStepTooFar(f, p) == \E l \in f.last : Abs(p.x - l.raw.x) > MaxStep

StepTooFar(f, p) == f.held < MaxHeld /\ \E l \in f.last : Abs(p.x - l.raw.x) > MaxStep
Blended(f, p) ==
    IF f.last = {} THEN p
    ELSE LET old == (CHOOSE l \in f.last : TRUE).out IN [x |-> Mix(p.x, old.x), yaw |-> Mix(p.yaw, old.yaw)]
Update(f, p) ==
    IF StepTooFar(f, p) THEN [f EXCEPT !.held = @ + 1]
    ELSE [last |-> {[raw |-> p, out |-> Blended(f, p)]}, held |-> 0]
Current(f) == IF f.last = {} THEN [x |-> 0, yaw |-> 0] ELSE (CHOOSE l \in f.last : TRUE).out

-----------------------------------------------------------------------------
(* lib.rs Router::offer, and what the sinks make of a frame: nothing without  *)
(* a pose, one frame in SendEvery, every sink whatever became of another.    *)
ToOpentrack(p) == [x |-> p.x, yaw |-> p.yaw]                \* centimetres, degrees
AxisCentre == 32767
EncodeAxis(v, full) == AxisCentre + (Clamp(v, -full, full) * AxisCentre) \div full
EncodeUnit(g) == (Clamp(g, 0, 100) * 2 * AxisCentre) \div 100
HoldGaze(last, gaze) == IF gaze = {} THEN last ELSE EncodeUnit(CHOOSE g \in gaze : TRUE)
HeadFull == 70                                              \* joystick_full_deg
JoystickShape(deg, full) == Clamp((deg * full) \div HeadFull, -full, full)
AxisValues(p, gaze) == [x |-> EncodeAxis(p.x, 500), yaw |-> EncodeAxis(JoystickShape(p.yaw, 180), 180), gaze |-> gaze]
Emit(sink, f, gaze) ==
    CASE sink = "opentrack" -> ToOpentrack(f.pose)
      [] sink = "bridge" -> [x |-> f.pose.x, yaw |-> f.pose.yaw, gaze |-> f.gaze]
      [] sink = "joystick" -> AxisValues(f.pose, gaze)

Throttled == \E a \in sendAge : a + 1 < SendEvery
RouterOffer(f) ==
    IF f.lost \/ Throttled
    THEN /\ sendAge' = {IF a < SendEvery THEN a + 1 ELSE a : a \in sendAge}
         /\ UNCHANGED <<gazeAxis, failures, got>>
    ELSE /\ sendAge' = {0}
         /\ gazeAxis' = HoldGaze(gazeAxis, f.gaze)
         /\ got' = [s \in Sinks |-> IF s \in dead THEN got[s] ELSE {Emit(s, f, gazeAxis')}]
         /\ failures' = [s \in Sinks |-> IF s \in dead THEN failures[s] + 1 ELSE failures[s]]

-----------------------------------------------------------------------------
(* FramePipeline::offer with a head at `x': Extended View from the position   *)
(* and the gaze, or the last one through a blink; the neutral is the first    *)
(* position there is; then the filter.                                       *)
ViewOf(gaze, lost) ==
    IF gaze # {} THEN ExtendedView(CHOOSE g \in gaze : TRUE) ELSE HoldThroughBlink(lastEv, lost)
Newest(s, e) == LET t == Append(s, e) IN IF Len(t) > MaxHeld + 1 THEN Tail(t) ELSE t

OfferHead(x, gaze) ==
    LET lost == IF gazeLost = {} THEN 0 ELSE (CHOOSE n \in gazeLost : TRUE)
        n0 == IF neutral = {} THEN x ELSE CHOOSE n \in neutral : TRUE
        p == Compose(x - n0, ViewOf(gaze, lost))
        f == [lost |-> FALSE, pose |-> Current(filter'), gaze |-> gaze]
    IN  /\ offers < MaxOffers /\ offers' = offers + 1
        /\ lastEv' = IF gaze # {} THEN {ViewOf(gaze, lost)} ELSE lastEv
        /\ gazeLost' = IF gaze # {} THEN {} ELSE {IF lost < HoldFrames THEN lost + 1 ELSE lost}
        /\ neutral' = {n0} /\ tracked' = {0}
        /\ filter' = Update(filter, p)
        /\ frame' = f /\ RouterOffer(f)
        /\ recent' = Newest(recent, p)
        /\ UNCHANGED <<alpha, dead>>

(* Nobody there: after a second of it the pipeline forgets whom it saw. *)
LongLost == \A t \in tracked : t + 1 >= LossFrames

(* A fault: where the last person sat is kept. *)
MutForgets ==
    /\ filter' = NoFilter /\ tracked' = {} /\ lastEv' = {} /\ recent' = <<>>
    /\ UNCHANGED neutral

Forgets ==
    /\ filter' = NoFilter /\ tracked' = {} /\ lastEv' = {} /\ neutral' = {} /\ recent' = <<>>
OfferNobody ==
    /\ offers < MaxOffers /\ offers' = offers + 1
    /\ IF LongLost THEN Forgets
       ELSE tracked' = {t + 1 : t \in tracked} /\ UNCHANGED <<filter, lastEv, neutral, recent>>
    /\ gazeLost' = {IF n < HoldFrames THEN n + 1 ELSE n : n \in gazeLost}
    /\ frame' = [lost |-> TRUE, pose |-> Current(filter'), gaze |-> {}] /\ RouterOffer(frame')
    /\ UNCHANGED <<alpha, dead>>

(* reconfigure: another strength is a new filter and the same neutral; the    *)
(* router and its sinks are new.                                             *)
Reconfigure(a) ==
    /\ a # alpha /\ alpha' = a /\ filter' = NoFilter /\ recent' = <<>>
    /\ sendAge' = {} /\ failures' = [s \in Sinks |-> 0]
    /\ UNCHANGED <<lastEv, gazeLost, tracked, neutral, gazeAxis, dead, got, frame, offers>>
(* A receiver goes away: its sends fail. *)
SinkDies(s) ==
    /\ dead = {} /\ dead' = {s}
    /\ UNCHANGED <<alpha, filter, lastEv, gazeLost, tracked, neutral, sendAge, gazeAxis, failures, got, frame, recent, offers>>

FrameInit ==
    /\ alpha \in Alphas /\ filter = NoFilter /\ lastEv = {} /\ gazeLost = {} /\ tracked = {} /\ neutral = {}
    /\ sendAge = {} /\ gazeAxis = AxisCentre /\ dead = {} /\ failures = [s \in Sinks |-> 0]
    /\ got = [s \in Sinks |-> {}] /\ frame = [lost |-> TRUE, pose |-> [x |-> 0, yaw |-> 0], gaze |-> {}]
    /\ recent = <<>> /\ offers = 0
FrameNext ==
    \/ (\E x \in Places, g \in {{}} \cup {{a} : a \in Angles} : OfferHead(x, g))
    \/ OfferNobody \/ (\E a \in Alphas : Reconfigure(a)) \/ (\E s \in Sinks : SinkDies(s))
FrameSpec == FrameInit /\ [][FrameNext]_frameVars

-----------------------------------------------------------------------------
(* "the filter would reject the world forever": a head that has been in one   *)
(* place for MaxHeld + 1 frames is believed to be there, wherever it was      *)
(* before.                                                                   *)
GateOpens ==
    (Len(recent) = MaxHeld + 1 /\ \A i \in 1 .. MaxHeld : recent[i].x = recent[MaxHeld + 1].x)
        => \E l \in filter.last : l.raw.x = recent[MaxHeld + 1].x

(* "somebody who gets up and comes back sat slightly differently does not     *)
(* acquire a permanent offset": who has been lost for long comes back at the  *)
(* middle, with nothing left of the view.                                    *)
Returns ==
    (tracked = {} /\ tracked' = {0} /\ recent = <<>> /\ alpha' = alpha)
        => frame'.pose.x = 0 /\ (frame'.gaze = {} => frame'.pose.yaw = 0)

-----------------------------------------------------------------------------
(* Why the gate opens: the filter holds what it accepted last, and as many    *)
(* poses as it has not believed since then are the newest there were.         *)
HeldSince ==
    /\ DOMAIN filter = {"last", "held"} /\ filter.held \in 0 .. MaxHeld
    /\ recent = <<>> => filter = NoFilter
    /\ recent # <<>> =>
          /\ Len(recent) \in (filter.held + 1) .. (MaxHeld + 1)
          /\ filter.last # {}
          /\ \A l \in filter.last : l.raw = recent[Len(recent) - filter.held]
(* Why somebody returns to the middle: who has been forgotten has left        *)
(* neither a neutral nor a view.                                              *)
NobodyKept == tracked = {} => neutral = {} /\ lastEv = {}
FrameTypes ==
    /\ neutral \subseteq Int /\ lastEv \subseteq Int
    /\ recent \in Seq([x : Int, yaw : Int])
FrameInv == FrameTypes /\ HeldSince /\ NobodyKept

FrameAssumption == Places \subseteq Int /\ Angles \subseteq Int /\ MaxHeld \in Nat
=============================================================================
