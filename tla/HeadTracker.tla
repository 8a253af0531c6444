---------------------------- MODULE HeadTracker ----------------------------
(***************************************************************************)
(* Where the head-pose model looks next, and what becomes of its answer:   *)
(* tobii-headpose/src/onnx.rs (find_glints, seed_roi, Tracker, fuse), the  *)
(* crop of preprocess.rs, and the worker of tobii-gtk/src/device.rs that   *)
(* holds the last rotation when the model has none.                        *)
(*                                                                         *)
(* Frames are tiny pictures. Lengths are pixels, centres half pixels, the  *)
(* network's answers a small set; an angle is the frame it was measured on.*)
(***************************************************************************)
EXTENDS Integers, FiniteSets, FiniteSetsExt

CONSTANTS Pictures,     \* the frames the camera may send: [w, h, px, face]
          Threshold, IpdMin, IpdMax,   \* find_glints
          RoiMin,       \* ROI_MIN_PX
          Reseed,       \* SIGMA_RESEED_FRAMES
          MaxFrames     \* bound on the frames of a behaviour

VARIABLES roi,       \* Tracker::roi: {} or {[cx, cy, side]}
          misses,    \* Tracker::misses
          frame,     \* the last frame
          headState, \* head_pose, head_sigma, head_pose_at of DeviceState
          dark,      \* history: frames in a row the face was in reach and no answer came
          frameNo    \* frames so far

headVars == <<roi, misses, frame, headState, dark, frameNo>>

Pixel(f, x, y) == f.px[y * f.w + x]
Spots(f) == (0 .. f.w - 1) \X (0 .. f.h - 1)
Isqrt(n) == CHOOSE r \in 0 .. n : r * r <= n /\ (r + 1) * (r + 1) > n
Clamp(v, lo, hi) == IF v < lo THEN lo ELSE IF v > hi THEN hi ELSE v
-----------------------------------------------------------------------------
(* find_glints: the hot pixels, split at the widest gap between columns. *)
Hot(f) == {s \in Spots(f) : Pixel(f, s[1], s[2]) >= Threshold}
Columns(hot) == {s[1] : s \in hot}
NextColumn(hot, c) == Min({d \in Columns(hot) : d > c})
Gap(hot, c) == NextColumn(hot, c) - c
SplitAt(hot) ==   \* the last column left of the first of the widest gaps
    LET inner == {c \in Columns(hot) : \E d \in Columns(hot) : d > c}
    IN  Min({c \in inner : \A d \in inner : Gap(hot, d) <= Gap(hot, c)})
Mean2(g, i) == (2 * MapThenSumSet(LAMBDA s : s[i], g)) \div Cardinality(g) + 1
FindGlints(f) ==
    LET hot == Hot(f)
    IN  IF Cardinality(hot) < 4 \/ Cardinality(Columns(hot)) < 2 THEN {}
        ELSE LET a == {s \in hot : s[1] <= SplitAt(hot)}
                 b == hot \ a
                 dx == Mean2(b, 1) - Mean2(a, 1)
                 dy == Mean2(b, 2) - Mean2(a, 2)
                 ipd == Isqrt(dx * dx + dy * dy) \div 2
             IN  IF Cardinality(a) < 2 \/ Cardinality(b) < 2 \/ ipd \notin IpdMin .. IpdMax THEN {}
                 ELSE {[cx |-> (Mean2(a, 1) + Mean2(b, 1)) \div 2,
                        cy |-> (Mean2(a, 2) + Mean2(b, 2)) \div 2, ipd |-> ipd]}

(* preprocess::face_bbox: the box of what is 1.5 deviations over the mean. *)
PixelSum(f) == MapThenSumSet(LAMBDA s : Pixel(f, s[1], s[2]), Spots(f))
SquareSum(f) == MapThenSumSet(LAMBDA s : Pixel(f, s[1], s[2]) * Pixel(f, s[1], s[2]), Spots(f))
FaceBBox(f) ==
    LET n == f.w * f.h
        sum == PixelSum(f)
        var == n * SquareSum(f) - sum * sum
        above(p) == p * n - sum >= 0 /\ 4 * (p * n - sum) * (p * n - sum) >= 9 * var
        lit == {s \in Spots(f) : above(Pixel(f, s[1], s[2]))}
    IN  IF var < n * n \/ lit = {} THEN {}
        ELSE {[x0 |-> Min({s[1] : s \in lit}), y0 |-> Min({s[2] : s \in lit}),
               x1 |-> Max({s[1] + 1 : s \in lit}), y1 |-> Max({s[2] + 1 : s \in lit})]}

Monus(a, b) == IF a > b THEN a - b ELSE 0
Width(b) == Monus(b.x1, b.x0)
Height(b) == Monus(b.y1, b.y0)
Longer(a, b) == IF a > b THEN a ELSE b
Padded(b, pad, w, h) == [x0 |-> Monus(b.x0, pad), y0 |-> Monus(b.y0, pad),
                         x1 |-> Min({b.x1 + pad, w}), y1 |-> Min({b.y1 + pad, h})]
MutSquared(b, w, h) ==
    LET side == Longer(Width(b), Height(b))
    IN  [x0 |-> b.x0, y0 |-> b.y0, x1 |-> b.x0 + side, y1 |-> b.y0 + side]
Squared(b, w, h) ==
    LET half == Longer(Width(b), Height(b)) \div 2
        cx == (b.x0 + b.x1) \div 2
        cy == (b.y0 + b.y1) \div 2
    IN  [x0 |-> Monus(cx, half), y0 |-> Monus(cy, half),
         x1 |-> Min({cx + half, w}), y1 |-> Min({cy + half, h})]

(* crop_resize: the source pixels of an n x n crop. *)
CropResize(b, n) ==
    {<<b.x0 + (i * Longer(Width(b), 1)) \div n, b.y0 + (j * Longer(Height(b), 1)) \div n>> :
        i \in 0 .. n - 1, j \in 0 .. n - 1}
Preprocess(f, pad, n) ==
    {CropResize(Squared(Padded(b, (Longer(Width(b), Height(b)) * pad) \div 100, f.w, f.h), f.w, f.h), n) :
        b \in FaceBBox(f)}

(* seed_roi: the glints, else the box, else everything. *)
WholeFrame(f) == [cx |-> f.w, cy |-> f.h, side |-> Longer(f.w, f.h)]
FromGlints(g) == [cx |-> g.cx, cy |-> g.cy + g.ipd, side |-> (286 * g.ipd) \div 100]
FromBox(b) == [cx |-> 2 * b.x0 + Width(b), cy |-> 2 * b.y0 + Height(b),
               side |-> Longer(Width(b), Height(b))]
SeedRoi(f) ==
    LET boxes == {b \in {Squared(x, f.w, f.h) : x \in FaceBBox(f)} : Width(b) > 0 /\ Height(b) > 0}
    IN  CASE FindGlints(f) # {} -> FromGlints(CHOOSE g \in FindGlints(f) : TRUE)
          [] FindGlints(f) = {} /\ boxes # {} -> FromBox(CHOOSE b \in boxes : TRUE)
          [] OTHER -> WholeFrame(f)

(* Roi::plausible. *)
Plausible(r, f) == r.side >= RoiMin /\ 2 * r.side <= 3 * Longer(f.w, f.h)
RoiFor(f) == IF \E r \in roi : Plausible(r, f) THEN CHOOSE r \in roi : TRUE ELSE SeedRoi(f)

(* next_roi: the network's box, kept inside the frame. *)
NextRoi(b, f) == [cx |-> Clamp(b.x0 + b.x1, 0, 2 * f.w), cy |-> Clamp(b.y0 + b.y1, 0, 2 * f.h),
                  side |-> Longer(b.x1 - b.x0, b.y1 - b.y0)]
-----------------------------------------------------------------------------
(* The network (external): it is sure of a face that lies in the patch it  *)
(* is shown; shown none, it is unsure and its box may be anywhere.         *)
InPatch(face, r) ==
    /\ 2 * face.x0 >= r.cx - r.side /\ 2 * face.x1 <= r.cx + r.side
    /\ 2 * face.y0 >= r.cy - r.side /\ 2 * face.y1 <= r.cy + r.side
Elsewhere(f) == {[x0 |-> 0, y0 |-> 0, x1 |-> 1, y1 |-> 1],
                 [x0 |-> 0, y0 |-> 0, x1 |-> RoiMin, y1 |-> RoiMin],
                 [x0 |-> f.w - RoiMin, y0 |-> 0, x1 |-> f.w, y1 |-> RoiMin],
                 [x0 |-> 0, y0 |-> 0, x1 |-> 2 * f.w, y1 |-> 1]}
Answers(f, r) == IF \E b \in f.face : InPatch(b, r)
                 THEN {[box |-> b, sure |-> TRUE] : b \in f.face}
                 ELSE {[box |-> b, sure |-> FALSE] : b \in Elsewhere(f)}

(* Tracker::miss: ten in a row give up the region and start from a seed.   *)
MutMissed(r) == <<r, misses + 1>>
Missed(r) == IF misses + 1 >= Reseed THEN <<{}, 0>> ELSE <<r, misses + 1>>

(* Tracker::finish: the region moves on whatever the confidence; the pose  *)
(* is kept only with it.                                                   *)
FinishFrame(f, raw) ==
    LET next == {r \in {NextRoi(raw.box, f)} : Plausible(r, f)}
    IN  IF ~raw.sure \/ next = {}
        THEN [found |-> FALSE, state |-> Missed(next)]
        ELSE [found |-> TRUE, state |-> <<next, 0>>]

(* fuse, and the worker's arm for no pose: hold the rotation, not the      *)
(* confidence, and follow the eyes. rot is the frame it was measured on, 0 *)
(* for the eyes' own; pos that of the translation.                         *)
Fuse(eyes, n) == {[rot |-> n, pos |-> n]}
Held(pose, eyes, n) == IF ~eyes THEN pose
                       ELSE IF pose = {} THEN {[rot |-> 0, pos |-> n]}
                       ELSE {[p EXCEPT !.pos = n] : p \in pose}
MutKeepSigma(p) == p.sigma
KeepSigma(p) == FALSE

HeadInit == /\ roi = {} /\ misses = 0 /\ dark = 0 /\ frameNo = 0
            /\ frame \in Pictures
            /\ headState = [pose |-> {}, sigma |-> FALSE, at |-> 0]

(* estimate_detailed on one frame, and the worker's publication of it. *)
Estimate(f, eyes) ==
    /\ frameNo < MaxFrames
    /\ frameNo' = frameNo + 1
    /\ frame' = f
    /\ \E raw \in Answers(f, RoiFor(f)) :
          LET end == FinishFrame(f, raw)
          IN  /\ roi' = end.state[1]
              /\ misses' = end.state[2]
              /\ dark' = IF end.found \/ ~\E b \in f.face : InPatch(b, SeedRoi(f)) THEN 0 ELSE dark + 1
              /\ headState' = IF end.found
                              THEN [pose |-> Fuse(eyes, frameNo'), sigma |-> TRUE, at |-> frameNo']
                              ELSE [headState EXCEPT !.sigma = KeepSigma(headState),
                                                     !.pose = Held(@, eyes, frameNo')]

(* The runtime fails on the frame: a miss like any other. *)
RunFails(f, eyes) ==
    /\ frameNo < MaxFrames
    /\ frameNo' = frameNo + 1
    /\ frame' = f
    /\ roi' = Missed(roi)[1] /\ misses' = Missed(roi)[2]
    /\ dark' = 0
    /\ headState' = [headState EXCEPT !.sigma = KeepSigma(headState), !.pose = Held(@, eyes, frameNo')]

HeadNext == \E f \in Pictures, eyes \in BOOLEAN : Estimate(f, eyes) \/ RunFails(f, eyes)
HeadSpec == HeadInit /\ [][HeadNext]_headVars
-----------------------------------------------------------------------------
(* The tracker cannot keep staring where the head is not: a face a fresh    *)
(* seed would reach goes unanswered for at most Reseed frames in a row,     *)
(* wherever the region had drifted to before.                               *)
LostIsFound == dark <= Reseed

(* A held rotation never passes for a measured one: a confidence is         *)
(* published only with a rotation of the same frame, and the stamp is that  *)
(* of the rotation on show.                                                 *)
HeldIsNotFresh == \A p \in headState.pose :
                     /\ headState.sigma => p.rot = frameNo
                     /\ p.rot > 0 => headState.at = p.rot

(* Whatever is bright, the crop reads pixels of the frame and no others.    *)
CropInFrame ==
    frameNo > 0 => \A pad \in {0, 25} : \A c \in Preprocess(frame, pad, 3) : c \subseteq Spots(frame)

(* The three of them, and why they hold: a region is only ever left as it   *)
(* was found by an answer, and every frame without one counts as a miss.    *)
HeadIsFollowed == LostIsFound /\ HeldIsNotFresh /\ CropInFrame

HeadTypeOK ==
    /\ misses \in Nat /\ dark \in Nat /\ frameNo \in Nat /\ frame \in Pictures
    /\ headState \in [pose : SUBSET [rot : Nat, pos : Nat], sigma : BOOLEAN, at : Nat]
HeadInv ==
    /\ HeadTypeOK /\ HeldIsNotFresh
    /\ misses < Reseed /\ dark <= Reseed
    /\ roi # {} => dark <= misses

(* Pictures have pixels; a face the network may be sure of is one whose     *)
(* region the tracker keeps, neither a speck nor more than the frame.       *)
HeadAssumption ==
    /\ Reseed \in Nat \ {0}
    /\ \A f \in Pictures :
          /\ f.w \in Nat \ {0} /\ f.h \in Nat \ {0}
          /\ \A b \in f.face : Plausible(NextRoi(b, f), f)
=============================================================================
