-------------------------------- MODULE EyeView --------------------------------
(***************************************************************************)
(* The eye-position picture (crates/tobii-gtk/src/eyeview.rs, widget.rs):    *)
(* the two dots and the words beside them, from the tracker's frames and the *)
(* sessions of the device thread they come in.                               *)
(*                                                                           *)
(* Positions and depths are percent of the trackbox.  An absent value is the *)
(* empty set.  The head is at one of a few places and the tracker loses      *)
(* either eye, or both, in any frame.                                        *)
(***************************************************************************)
EXTENDS Integers, Sequences, FiniteSets, SequencesExt, FiniteSetsExt

CONSTANTS Heads,                \* [x, y, d]: where a head may be
          Window, DistanceBuffer, HystToHint, HystToNoEyes,
          MaxLosses              \* sessions lost

VARIABLES status,               \* "idle", "connecting", "connected", "error"
          view,                 \* DeviceState.eye_view
          hist,                 \* DeviceState.eye_history
          session, viewOf,      \* the session now, and the one the view is of
          steady,               \* frames in a row of this verdict
          unseen, both,         \* frames since each eye, and either, was seen
          losses

eyeVars == <<status, view, hist, session, viewOf, steady, unseen, both, losses>>

XyMin == 10
XyMax == 90
Small == 25
Default == 50
Big == 100

(***************************************************************************)
(* One eye in one frame: mirrored, with its depth and distance.             *)
(***************************************************************************)
decode_eye(valid, box, origin) ==
    IF valid THEN {[x |-> 100 - box.x, y |-> box.y, d |-> box.d, mm |-> origin]} ELSE {}

\* what the tracker sees of a head: the eyes four to its sides, mirrored
Trackbox(h, side) == [x |-> 100 - (h.x + side * 4), y |-> h.y, d |-> h.d]

The(s) == CHOOSE e \in s : TRUE

(***************************************************************************)
(* PairOffset: [delta, age]; age saturates                                  *)
(***************************************************************************)
Older(p) == [p EXCEPT !.age = Min({@ + 1, HystToNoEyes + 1})]

MutReconstruct(p, e, sign) ==
    {[x |-> e.x + sign * d.x, y |-> e.y + sign * d.y, d |-> e.d + sign * d.d, mm |-> e.mm] : d \in p.delta}
reconstruct(p, e, sign) ==
    IF Older(p).age > HystToNoEyes THEN {}
    ELSE {[x |-> e.x + sign * d.x, y |-> e.y + sign * d.y, d |-> e.d + sign * d.d, mm |-> e.mm] : d \in p.delta}

\* complete: [pair, left, right]
complete(p, l, r) ==
    IF l # {} /\ r # {}
    THEN [pair |-> [delta |-> {[x |-> The(r).x - The(l).x, y |-> The(r).y - The(l).y, d |-> The(r).d - The(l).d]},
                    age |-> 0],
          left |-> l, right |-> r]
    ELSE [pair |-> Older(p),
          left |-> IF r # {} THEN reconstruct(p, The(r), -1) ELSE l,
          right |-> IF l # {} THEN reconstruct(p, The(l), 1) ELSE r]

(***************************************************************************)
(* EyeWindow                                                                *)
(***************************************************************************)
Pushed(s, e, n) == LET t == Append(s, e) IN IF Len(t) > n THEN Tail(t) ELSE t

Clamp(n) == Max({0, Min({100, n})})

extrapolate(w) ==
    LET valid == {i \in DOMAIN w : w[i] # {}}
        newest == Max(valid)
        previous == Max(valid \ {newest})
        \* both are looked up by value: the last place of the one, the first of the other
        at == Max({i \in DOMAIN w : w[i] = w[newest]})
        from == Min({i \in DOMAIN w : w[i] = w[previous]})
        a == The(w[newest])
        b == The(w[previous])
        along(n, p) == Clamp(n + ((n - p) * (Len(w) - at)) \div (at - from))
    IN  IF valid = {} THEN {}
        ELSE IF w[Len(w)] # {} THEN w[Len(w)]
        ELSE IF Cardinality(valid) = 1 \/ at <= from THEN w[newest]
        ELSE {[x |-> along(a.x, b.x), y |-> along(a.y, b.y)]}

(***************************************************************************)
(* Size, brightness and opacity.                                            *)
(***************************************************************************)
CeilDiv(a, b) == -((-a) \div b)

eye_size_for(d) ==
    CASE d <= 20 -> Big
      [] d > 20 /\ d < 40 -> Default + CeilDiv(250 * (40 - d), 100)
      [] d >= 40 /\ d <= 65 -> Default
      [] d > 65 /\ d < 80 -> Default + CeilDiv(-500 * (d - 65), 300)
      [] OTHER -> Small

\* of 255
brightness_for(size) ==
    CASE size \in {0, Small, Big} -> 50
      [] size = Default -> 255
      [] size \notin {0, Small} /\ size < Default -> Max({50, 255 - (205 * (Default - size)) \div Small})
      [] OTHER -> Max({50, 255 - (205 * (size - Default)) \div Default})

\* percent
edge_alpha(p) ==
    IF p = {} THEN 0
    ELSE LET e == The(p)
             x == Clamp(((e.x - XyMin) * 100) \div (XyMax - XyMin))
             margin == Min({x, 100 - x, e.y, 100 - e.y})
         IN  IF margin <= 0 THEN 0 ELSE IF margin < 20 THEN margin * 5 ELSE 100

(***************************************************************************)
(* The words.                                                               *)
(***************************************************************************)
guidance_for(l, r, size) ==
    LET either == l \cup r
    IN  IF either = {} THEN "NoEyes"
        ELSE IF size <= Small THEN "MoveCloser"
        ELSE IF size >= Big THEN "MoveBack"
        ELSE IF \E e \in either : e.x <= XyMin THEN "MoveRight"
        ELSE IF \E e \in either : e.x >= XyMax THEN "MoveLeft"
        ELSE IF \E e \in either : e.y <= XyMin THEN "MoveDown"
        ELSE IF \E e \in either : e.y >= XyMax THEN "MoveUp"
        ELSE "Centered"

\* GuidanceDamper: [displayed, previous, count]
Shown(g, raw) == [displayed |-> raw, previous |-> raw, count |-> 0]

MutHoldOff(g, raw, needed) ==
    IF g.count + 1 > needed + 1 THEN Shown(g, raw) ELSE [g EXCEPT !.count = Min({needed, @ + 1})]
hold_off(g, raw, needed) ==
    IF g.count # 0 /\ g.count + 1 >= needed THEN Shown(g, raw) ELSE [g EXCEPT !.count = @ + 1]

Damped(g, raw) ==
    CASE raw = "Centered" -> Shown(g, raw)
      [] raw = "NoEyes" -> IF g.previous = "NoEyes" THEN [g EXCEPT !.displayed = raw] ELSE hold_off(g, raw, HystToNoEyes)
      [] OTHER -> IF g.previous = "Centered" THEN hold_off(g, raw, HystToHint) ELSE Shown(g, raw)

(***************************************************************************)
(* EyeHistory                                                               *)
(***************************************************************************)
NewHistory == [left |-> <<>>, right |-> <<>>, depth |-> <<>>,
               damper |-> [displayed |-> "NoEyes", previous |-> "NoEyes", count |-> 0],
               pair |-> [delta |-> {}, age |-> 0], size |-> 0]

Place(e) == {[x |-> p.x, y |-> p.y] : p \in e}
Mean(s) == FoldSeq(LAMBDA a, b : a + b, 0, s) \div Len(s)

\* update: the history and the view of one frame
Updated(h, seenL, seenR) ==
    LET c == complete(h.pair, seenL, seenR)
        wl == Pushed(h.left, Place(c.left), Window)
        wr == Pushed(h.right, Place(c.right), Window)
        depths == SetToSeq({[eye |-> "l", d |-> e.d] : e \in c.left} \cup {[eye |-> "r", d |-> e.d] : e \in c.right})
        buf == IF depths = <<>> THEN h.depth
               ELSE Pushed(h.depth, Mean([i \in DOMAIN depths |-> depths[i].d]), DistanceBuffer)
        size == IF depths = <<>> THEN h.size ELSE eye_size_for(Mean(buf))
        l == extrapolate(wl)
        r == extrapolate(wr)
        raw == guidance_for(l, r, size)
        damper == Damped(h.damper, raw)
        mms == UNION {e.mm : e \in c.left \cup c.right}
    IN  [hist |-> [left |-> wl, right |-> wr, depth |-> buf, damper |-> damper, pair |-> c.pair, size |-> size],
         view |-> [left |-> l, right |-> r, leftAlpha |-> edge_alpha(l), rightAlpha |-> edge_alpha(r),
                   size |-> size, brightness |-> brightness_for(size), distance |-> mms,
                   guidance |-> damper.displayed, raw |-> raw]]

(***************************************************************************)
(* What the hub draws.                                                      *)
(***************************************************************************)
NoView == [left |-> {}, right |-> {}, leftAlpha |-> 0, rightAlpha |-> 0, size |-> 0, brightness |-> 50,
           distance |-> {}, guidance |-> "NoEyes", raw |-> "NoEyes"]

eye_view_for == IF status # "connected" \/ view = {} THEN NoView ELSE The(view)

\* draw_eye_view: a dot is drawn where its eye is placed; green by the raw verdict
Dots == [left |-> eye_view_for.left, right |-> eye_view_for.right,
         green |-> eye_view_for.raw = "Centered",
         radius |-> IF eye_view_for.size > 0 THEN eye_view_for.size ELSE Default]

(***************************************************************************)
(* The device thread.                                                       *)
(***************************************************************************)
EyeInit ==
    /\ status = "idle" /\ view = {} /\ hist = NewHistory
    /\ session = 0 /\ viewOf = 0 /\ steady = 0
    /\ unseen = [l |-> 0, r |-> 0] /\ both = 0 /\ losses = 0

\* one_session: connecting, then connected or an error; what was published stays
Connecting ==
    /\ status \in {"idle", "error"} /\ status' = "connecting"
    /\ UNCHANGED <<view, hist, session, viewOf, steady, unseen, both, losses>>
Connected ==
    /\ status = "connecting" /\ status' = "connected"
    /\ session' = IF session = viewOf THEN 1 - session ELSE session
    /\ UNCHANGED <<view, hist, viewOf, steady, unseen, both, losses>>
Fails ==
    /\ status = "connecting" /\ losses < MaxLosses
    /\ status' = "error" /\ losses' = losses + 1
    /\ UNCHANGED <<view, hist, session, viewOf, steady, unseen, both>>
\* the watchdog: two silent seconds, and the next attempt begins
GoesQuiet ==
    /\ status = "connected" /\ losses < MaxLosses
    /\ status' = "connecting" /\ losses' = losses + 1
    /\ UNCHANGED <<view, hist, session, viewOf, steady, unseen, both>>
\* stand_by: nobody wants the tracker, and the whole state is set back
StandsBy ==
    /\ status # "idle" /\ losses < MaxLosses
    /\ status' = "idle" /\ view' = {} /\ hist' = NewHistory /\ losses' = losses + 1
    /\ steady' = 0 /\ unseen' = [l |-> 0, r |-> 0] /\ both' = 0
    /\ UNCHANGED <<session, viewOf>>

More(n) == Min({n + 1, HystToNoEyes + Window})

\* publish: a frame of the head at h, with each eye seen or not
Frame(h, l, r) ==
    LET u == Updated(hist, decode_eye(l, Trackbox(h, -1), {h.d * 10}), decode_eye(r, Trackbox(h, 1), {h.d * 10}))
    IN  /\ status = "connected"
        /\ hist' = u.hist /\ view' = {u.view} /\ viewOf' = session
        /\ steady' = IF view # {} /\ The(view).raw = u.view.raw THEN More(steady) ELSE 1
        /\ unseen' = [l |-> IF l THEN 0 ELSE More(unseen.l), r |-> IF r THEN 0 ELSE More(unseen.r)]
        /\ both' = IF l \/ r THEN 0 ELSE More(both)
        /\ UNCHANGED <<status, session, losses>>

EyeNext ==
    \/ Connecting \/ Connected \/ Fails \/ GoesQuiet \/ StandsBy
    \/ \E h \in Heads, l, r \in BOOLEAN : Frame(h, l, r)
EyeSpec == EyeInit /\ [][EyeNext]_eyeVars

(***************************************************************************)
(* Whatever the frames before, the picture comes to say what is: a verdict   *)
(* that has held for HYST_TO_NO_EYES frames is the one in the words          *)
(* (GuidanceDamper), an eye unseen for as long as an offset and then the     *)
(* window last is not drawn (PairOffset::reconstruct, EyeWindow), and        *)
(* neither is either eye a window after both were lost.                      *)
(***************************************************************************)
PictureSettles ==
    /\ \A v \in view : steady >= HystToNoEyes => v.guidance = v.raw
    /\ unseen.l >= HystToNoEyes + Window => Dots.left = {}
    /\ unseen.r >= HystToNoEyes + Window => Dots.right = {}
    /\ both >= Window => Dots.left = {} /\ Dots.right = {}

(***************************************************************************)
(* widget.rs says of eye_view_for: "never show stale gaze — force "no eyes"  *)
(* unless the device is connected AND a sample is present".                  *)
(***************************************************************************)
NeverStale == eye_view_for # NoView => viewOf = session

(***************************************************************************)
(* eyeview.rs says of hold_off: "Require `needed` consecutive frames before  *)
(* letting `raw` be shown".                                                  *)
(***************************************************************************)
SteadyBeforeShown ==
    [][\A v \in view, w \in view' :
         v.guidance = "Centered" /\ w.guidance \notin {"Centered", "NoEyes"} => steady' >= HystToHint]_eyeVars

(***************************************************************************)
(* Why the picture settles.  The words: what is displayed is what was let   *)
(* through last, and while a verdict is held off each frame of it counts.   *)
(***************************************************************************)
DamperCounts ==
    /\ DOMAIN hist.damper = {"displayed", "previous", "count"}
    /\ hist.damper.displayed = hist.damper.previous
    /\ hist.damper.count \in 0 .. (HystToNoEyes - 1)
    /\ \A v \in view :
          /\ v.guidance = hist.damper.displayed
          /\ v.guidance # v.raw => steady <= hist.damper.count

(***************************************************************************)
(* The dots: the offset is as old as the eye that has been away longest, so *)
(* past HYST_TO_NO_EYES frames of it nothing stands in for that eye, and    *)
(* the frames since then are the newest of its window.                      *)
(***************************************************************************)
IsWindow(w) == w \in Seq({w[i] : i \in DOMAIN w}) /\ Len(w) <= Window
Blank(w, n) == \A j \in 0 .. (Len(w) - 1) : j < n => w[Len(w) - j] = {}
OffsetAges ==
    /\ DOMAIN hist.pair = {"delta", "age"}
    /\ hist.pair.age \in 0 .. (HystToNoEyes + 1)
    /\ \A n \in {unseen.l, unseen.r} : hist.pair.age >= n \/ hist.pair.age = HystToNoEyes + 1
WindowsEmpty ==
    /\ IsWindow(hist.left) /\ IsWindow(hist.right)
    /\ Blank(hist.left, unseen.l - HystToNoEyes) /\ Blank(hist.right, unseen.r - HystToNoEyes)
    /\ Blank(hist.left, both) /\ Blank(hist.right, both)
    /\ \A v \in view : v.left = extrapolate(hist.left) /\ v.right = extrapolate(hist.right)
EyeTypes ==
    /\ DOMAIN hist = {"left", "right", "depth", "damper", "pair", "size"}
    /\ steady \in Nat /\ both \in Nat
    /\ DOMAIN unseen = {"l", "r"} /\ unseen.l \in Nat /\ unseen.r \in Nat
EyeInv == EyeTypes /\ DamperCounts /\ OffsetAges /\ WindowsEmpty

EyeAssumption ==
    /\ Window \in Nat \ {0} /\ HystToHint \in Nat /\ HystToNoEyes \in Nat
    /\ HystToNoEyes >= 2 /\ HystToHint <= HystToNoEyes
================================================================================
