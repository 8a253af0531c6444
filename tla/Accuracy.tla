------------------------------- MODULE Accuracy -------------------------------
(***************************************************************************)
(* `tobii-gtk --accuracy` (crates/tobii-gtk/src/accuracy.rs): a sweep of     *)
(* dots, what the tracker reports for each, and the cause the error profile  *)
(* is read as; with the calibrated band of calibration_area.rs.              *)
(*                                                                           *)
(* Positions are percent of the screen's width, errors and gains permille,   *)
(* angles their tangents in permille.  The tracker has one true fault; the   *)
(* eye lands on a new dot within Lag ticks and the tracker answers at least  *)
(* once a tick.                                                              *)
(***************************************************************************)
EXTENDS Integers, Sequences, FiniteSets, SequencesExt, FiniteSetsExt

CONSTANTS Xs, Ys,              \* columns and rows of dots, in the sweep's order
          SettleTicks, SampleTicks, Lag,
          Faults, Modes,       \* what may be wrong; which eyes are enabled
          Screen,              \* [w, h] in mm
          HeadZ, HeadX,        \* where the user sits, mm
          MaxEvents            \* blinks and glances away

VARIABLES fault, mode,
          awake,               \* the device thread has a session
          latest,              \* DeviceState.latest_gaze and eye_view
          fresh,               \* a frame since the last tick
          launched, band, eyeMode,   \* what launch() read
          index, ticks, looking,
          samples, results,
          outcome,             \* what finish() printed: {} or one report
          open, events

accVars == <<fault, mode, awake, latest, fresh, launched, band, eyeMode,
             index, ticks, looking, samples, results, outcome, open, events>>
device == <<fault, mode, awake>>
read == <<launched, band, eyeMode>>

Abs(n) == IF n < 0 THEN -n ELSE n
Quot(a, b) == IF (a < 0) = (b < 0) THEN Abs(a) \div Abs(b) ELSE -(Abs(a) \div Abs(b))
Total(s) == FoldSeq(LAMBDA x, y : x + y, 0, s)
Average(s) == Quot(Total(s), Len(s))

(***************************************************************************)
(* The sweep.                                                               *)
(***************************************************************************)
\* targets: each column's rows, begun one row further every column
targets(k) ==
    LET i == (k - 1) \div Len(Ys)
        j == (k - 1) % Len(Ys)
    IN  [x |-> Xs[i + 1], y |-> Ys[((i + j) % Len(Ys)) + 1]]
Count == Len(Xs) * Len(Ys)

(***************************************************************************)
(* The calibrated band.                                                     *)
(***************************************************************************)
FULL_7 == {100, 500, 900}     \* the calibration points' x, permille

\* capped_area: the share of the width, permille; a small screen is not capped
Small(s) == s.w * s.w + s.h * s.h < 700 * 700 /\ s.h < 360
capped_area(s) ==
    IF Small(s) THEN 1000 ELSE Min({1000, (600 * 1000) \div s.w})

\* capped_area_at: tan 28 deg over the outermost point's 0.4
capped_area_at(s, distance) ==
    IF Small(s) \/ distance = {} THEN capped_area(s)
    ELSE LET reach == ((CHOOSE d \in distance : TRUE) * 532) \div 400
         IN  Min({1000, (Min({Max({reach, 600}), Max({s.w, 600})}) * 1000) \div s.w})

remap_point(x, cap) == (1000 - cap) \div 2 + (x * cap) \div 1000

calibrated_band(s, distance) ==
    LET xs == {remap_point(x, capped_area_at(s, distance)) : x \in FULL_7}
    IN  [lo |-> Min(xs), hi |-> Max(xs)]

Inside(x, b) == x * 10 >= b.lo /\ x * 10 <= b.hi

(***************************************************************************)
(* What the tracker says of an eye on a dot: permille of the width.  It was  *)
(* calibrated from where the user sits.                                     *)
(***************************************************************************)
Calibrated == calibrated_band(Screen, {HeadZ})
Straddle == 90
Error(x) ==
    LET o == x - 50
    IN  (CASE fault = "plane" -> o
           [] fault = "curvature" -> Quot(o * o * o, 1000) + Quot(o, 5)
           [] fault = "coverage" -> IF Inside(x, Calibrated) THEN 0 ELSE o
           [] OTHER -> 0)
        + (IF mode = "left" THEN Straddle ELSE 0)
Resolved(x) == ~(fault = "limit" /\ Abs(x - 50) > 35)

Seen(x, kind) ==
    [at |-> looking,
     x |-> IF kind = "glance" THEN 1400 ELSE x * 10 + Error(x),
     l |-> kind # "blink" /\ Resolved(x),
     r |-> kind # "blink" /\ Resolved(x) /\ mode = "both"]

\* launch's `usable`: one eye is enough
Usable(g) == g.l \/ g.r

(***************************************************************************)
(* A target's measurement.                                                  *)
(***************************************************************************)
\* aggregate: the median
MutAggregate(s) == IF s = <<>> THEN {} ELSE {Average(s)}
aggregate(s) == IF s = <<>> THEN {} ELSE {SortSeq(s, LAMBDA a, b : a < b)[Len(s) \div 2 + 1]}

\* mean_eye: the head does not move here
mean_eye(s) == IF s = <<>> THEN {} ELSE {[x |-> HeadX, z |-> HeadZ]}

Points(s) == [i \in DOMAIN s |-> s[i].x]
Measurement(t, s) ==
    [target |-> t,
     reported |-> IF s = <<>> THEN 0 ELSE CHOOSE x \in aggregate(Points(s)) : TRUE,
     samples |-> Len(s),
     eye |-> mean_eye(s),
     left |-> aggregate(Points(SelectSeq(s, LAMBDA g : g.l))),
     right |-> aggregate(Points(SelectSeq(s, LAMBDA g : g.r)))]

error_x(m) == m.reported - m.target.x * 10
offset_x(m) == m.target.x - 50
eye_error_x(m, p) == {r - m.target.x * 10 : r \in p}
\* gaze_angle_deg: no angle without an eye; its tangent
gaze_angle(m) == {Quot((Quot(offset_x(m) * Screen.w, 100) - e.x) * 1000, e.z) : e \in {f \in m.eye : f.z >= 1}}

(***************************************************************************)
(* diagnose                                                                 *)
(***************************************************************************)
NoiseFloor == 10
GainRatio(g) == (g * 9) \div 5

Full(m) == m.samples >= SampleTicks
Gain(ms) ==
    LET far == SelectSeq(ms, LAMBDA m : Abs(offset_x(m)) > 10)
    IN  IF far = <<>> THEN 0
        ELSE Average([i \in DOMAIN far |-> Quot(error_x(far[i]) * 100, offset_x(far[i]))])

\* the capture rate, percent
Capture(ms) == IF ms = <<>> THEN 100 ELSE (Len(SelectSeq(ms, Full)) * 100) \div Len(ms)

Worst(ms) == Max({0} \cup {Abs(error_x(ms[i])) : i \in DOMAIN ms})

\* the edges are not asked whether they answered
MutDiagnose(ms, b) ==
    LET usable == SelectSeq(ms, LAMBDA m : m.samples > 0)
    IN  IF Worst(usable) <= NoiseFloor THEN "none" ELSE "plane"
diagnose(ms, b) ==
    LET usable == SelectSeq(ms, LAMBDA m : m.samples > 0)
        inside == SelectSeq(usable, LAMBDA m : Inside(m.target.x, b))
        outside == SelectSeq(usable, LAMBDA m : ~Inside(m.target.x, b))
        edge == SelectSeq(ms, LAMBDA m : Abs(offset_x(m)) > 35)
        middle == SelectSeq(ms, LAMBDA m : Abs(offset_x(m)) <= 35)
        inner == Abs(Gain(inside))
        innerIsReal == inner > NoiseFloor
        outerIsWorse == Abs(Gain(outside)) > GainRatio(Max({inner, NoiseFloor}))
    IN  CASE edge # <<>> /\ Capture(edge) < 75 /\ Capture(middle) >= 90 -> "limit"
          [] Worst(usable) <= NoiseFloor /\ Len(usable) = Len(ms) -> "none"
          [] Len(inside) < 3 \/ Len(outside) < 3 -> "inconclusive"
          [] outerIsWorse /\ ~innerIsReal -> "coverage"
          [] outerIsWorse /\ innerIsReal -> "curvature"
          [] innerIsReal -> "plane"
          [] OTHER -> "none"

(***************************************************************************)
(* The tables.                                                              *)
(***************************************************************************)
\* report: one row a target, by position, marked as calibrated or not
report(ms, b) ==
    LET rows == SortSeq(ms, LAMBDA m, n : \/ m.target.x < n.target.x
                                          \/ m.target.x = n.target.x /\ m.target.y < n.target.y)
    IN  [i \in DOMAIN rows |->
           [x |-> rows[i].target.x, dead |-> rows[i].samples = 0,
            marked |-> rows[i].samples > 0 /\ Inside(rows[i].target.x, b)]]

\* by_angle: mean error and full windows of 0-15, 15-28 and 28-90 degrees
Bucket(ms, lo, hi) == SelectSeq(ms, LAMBDA m : \E a \in gaze_angle(m) : Abs(a) >= lo /\ Abs(a) < hi)
by_angle(ms) ==
    LET table == <<Bucket(ms, 0, 268), Bucket(ms, 268, 532), Bucket(ms, 532, 1000000)>>
        usable(g) == SelectSeq(g, LAMBDA m : m.samples > 0)
        line(g) == [full |-> Len(SelectSeq(g, Full)), of |-> Len(g),
                    mean |-> IF usable(g) = <<>> THEN {}
                             ELSE {Average([i \in DOMAIN usable(g) |-> Abs(error_x(usable(g)[i]))])}]
    IN  {line(table[i]) : i \in {j \in DOMAIN table : table[j] # <<>>}}

\* by_eye: mean error looking left, ahead (8 degrees) and right, of each eye
by_eye(ms) ==
    LET looks(lo, hi) == SelectSeq(ms, LAMBDA m : m.samples > 0 /\ \E a \in gaze_angle(m) : a >= lo /\ a < hi)
        own(g, p(_)) == UNION {eye_error_x(g[i], p(g[i])) : i \in DOMAIN g}
        line(g) == [fused |-> Average([i \in DOMAIN g |-> Abs(error_x(g[i]))]),
                    left |-> own(g, LAMBDA m : m.left), right |-> own(g, LAMBDA m : m.right)]
    IN  {line(g) : g \in {looks(-1000000, -140), looks(-140, 140), looks(140, 1000000)} \ {<<>>}}

\* by_scale: the slope of a straight line through the well-sampled targets within 28 degrees
MutByScale(ms) == {1000}
by_scale(ms) ==
    LET g == SelectSeq(ms, LAMBDA m : Full(m) /\ \E a \in gaze_angle(m) : Abs(a) < 532)
        px(i) == offset_x(g[i]) * 10
        py(i) == g[i].reported - 500
        mx == Average([i \in DOMAIN g |-> px(i)])
        my == Average([i \in DOMAIN g |-> py(i)])
        var == Total([i \in DOMAIN g |-> (px(i) - mx) * (px(i) - mx)])
    IN  IF Len(g) < 6 THEN {}
        ELSE IF var = 0 THEN {}
        ELSE {Quot(Total([i \in DOMAIN g |-> (px(i) - mx) * (py(i) - my)]) * 100, var \div 10)}

(***************************************************************************)
(* The run.                                                                 *)
(***************************************************************************)
AccuracyInit ==
    /\ fault \in Faults /\ mode \in Modes
    /\ awake = FALSE /\ latest = {} /\ fresh = FALSE
    /\ launched = FALSE /\ band = [lo |-> 0, hi |-> 1000] /\ eyeMode = {}
    /\ index = 1 /\ ticks = 0 /\ looking = 1
    /\ samples = <<>> /\ results = <<>> /\ outcome = {} /\ open = TRUE /\ events = 0

\* The device thread: the claim is held before launch(), so both may run first
Wake ==
    /\ ~awake /\ awake' = TRUE
    /\ UNCHANGED <<fault, mode, latest, fresh, launched, band, eyeMode, index, ticks, looking,
                   samples, results, outcome, open, events>>

Frame(kind) ==
    /\ awake /\ ~fresh /\ open /\ index <= Count
    /\ kind # "plain" => events < MaxEvents
    /\ latest' = {Seen(targets(looking).x, kind)}
    /\ fresh' = TRUE
    /\ events' = IF kind = "plain" THEN events ELSE events + 1
    /\ UNCHANGED <<device, read, index, ticks, looking, samples, results, outcome, open>>

\* launch: the band from the distance it is told now, and the eyes in use
Launch ==
    /\ ~launched /\ launched' = TRUE
    /\ band' = calibrated_band(Screen, IF \E g \in latest : Usable(g) THEN {HeadZ} ELSE {})
    /\ eyeMode' = IF awake THEN {mode} ELSE {}
    /\ UNCHANGED <<device, latest, fresh, index, ticks, looking, samples, results, outcome, open, events>>

Look ==
    /\ launched /\ open /\ looking # index /\ looking' = index
    /\ UNCHANGED <<device, latest, fresh, read, index, ticks, samples, results, outcome, open, events>>

\* finish
Printed(ms) ==
    IF ms = <<>> THEN {}
    ELSE {[cause |-> diagnose(ms, band),
           warned |-> \E e \in eyeMode : e # "both",
           rows |-> report(ms, band),
           angles |-> by_angle(ms), eyes |-> by_eye(ms), scale |-> by_scale(ms),
           csv |-> Len(ms)]}

\* no time for the eye to land
MutTaken == samples \o SetToSeq({g \in latest : Usable(g)})
Taken == IF ticks + 1 > SettleTicks THEN samples \o SetToSeq({g \in latest : Usable(g)}) ELSE samples

Tick ==
    /\ launched /\ open /\ fresh
    /\ looking = index \/ ticks < Lag
    /\ fresh' = FALSE
    /\ IF ticks + 1 < SettleTicks + SampleTicks
       THEN /\ samples' = Taken /\ ticks' = ticks + 1
            /\ UNCHANGED <<index, results, outcome, open>>
       ELSE /\ results' = Append(results, Measurement(targets(index), Taken))
            /\ samples' = <<>> /\ ticks' = 0 /\ index' = index + 1
            /\ IF index < Count THEN UNCHANGED <<outcome, open>>
               ELSE outcome' = Printed(results') /\ open' = FALSE
    /\ UNCHANGED <<device, latest, read, looking, events>>

Escape ==
    /\ launched /\ open /\ open' = FALSE
    /\ outcome' = Printed(results)
    /\ UNCHANGED <<device, latest, fresh, read, index, ticks, looking, samples, results, events>>

AccuracyNext ==
    \/ Wake \/ Launch \/ Look \/ Tick \/ Escape
    \/ \E kind \in {"plain", "blink", "glance"} : Frame(kind)
AccuracySpec == AccuracyInit /\ [][AccuracyNext]_accVars

(***************************************************************************)
(* The verdict of a whole sweep with both eyes is the tracker's fault, and   *)
(* a sweep that was left early, and had no blink, names no other fault, save *)
(* that a curvature may still look like a scale; when it says the plane is   *)
(* off, the printed scale is the plane's (diagnose, by_scale, aggregate).  A *)
(* blink or a glance away may happen at any sample, and the eye is still on  *)
(* the last dot when a new one appears.                                      *)
(***************************************************************************)
VerdictIsTrue ==
    \A o \in outcome :
      mode = "both" =>
        /\ Len(results) = Count => o.cause = fault
        /\ events = 0 => o.cause \in {fault, "none", "inconclusive"} \cup (IF fault = "curvature" THEN {"plane"} ELSE {})
        /\ fault = "plane" => \A g \in o.scale : g \in 1095..1105

(***************************************************************************)
(* accuracy.rs says of a run with one eye that it is "Stated first, and      *)
(* loudly when it is not Both" (finish).                                     *)
(***************************************************************************)
LoudWhenMonocular == \A o \in outcome : mode # "both" => o.warned

(***************************************************************************)
(* accuracy.rs: "reporting the fixed 600mm band while the flow calibrated a  *)
(* wider one would label targets "(calibrated)" that never were, which is    *)
(* exactly the annotation this report exists to get right".                  *)
(***************************************************************************)
BandIsReal == \A o \in outcome : \A i \in DOMAIN o.rows : ~o.rows[i].dead => o.rows[i].marked = Inside(o.rows[i].x, Calibrated)
================================================================================
