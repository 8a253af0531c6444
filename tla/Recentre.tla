------------------------------ MODULE Recentre ------------------------------
(***************************************************************************)
(* Recentring the head (tobii-gtk outputs.rs and games.rs, tobii-output     *)
(* pipeline.rs, tobii-headpose): a request left by the button or by a       *)
(* client, taken by whichever pipeline composes frames next, measured for a *)
(* second, and answered on the status line.  The rotations it measures come *)
(* from a third thread, which may still publish for a session that ended.   *)
(*                                                                         *)
(* Time is in units of half a second, with one or two gaze frames in each.  *)
(* An age is the number of units since, as far as it is compared.           *)
(***************************************************************************)
EXTENDS Naturals, FiniteSets

CONSTANTS
    Postures,      \* the rotations a head is held at, more than 8 degrees apart
    Window,        \* RECENTRE_WINDOW
    LossReset,     \* TRACKING_LOSS_RESET
    Fresh,         \* HEAD_POSE_MAX_AGE
    ReconAge,      \* RECONSTRUCTION_MAX_AGE
    RequestAge,    \* REQUEST_MAX_AGE
    MessageAge,    \* MESSAGE_SHOWN_FOR
    MinPoses,      \* RECENTRE_MIN_POSES, more than the frames in flight
    MaxAsks, MaxTurns   \* bounds: requests; sessions and changes of the settings

(* A measurement and a loss take a while and end before the line does; more   *)
(* poses are needed than there are rotations of before on their way.         *)
RecentreAssumption ==
    /\ Window \in Nat \ {0} /\ LossReset \in Nat \ {0} /\ MessageAge \in Nat
    /\ Window + LossReset < MessageAge
    /\ MinPoses \in Nat /\ MinPoses > 3

Older(age, bound) == IF age < bound THEN age + 1 ELSE bound
FramesPerUnit == 2              \* gaze frames in a unit, at most
NoOne == "away"

VARIABLES
    \* the world
    posture, connected, model, frames, quiet,
    \* DeviceState
    head_pose, head_pose_at,
    \* the worker of this session, and what one of an earlier session still holds
    inflight, late,
    \* Recentring
    asked_at,
    \* the pipeline of the session's GameOutput; a slot is empty or holds one thing
    pipe,
    \* what the properties speak of
    heldSince, refs, asks, turns

person == <<posture, connected, model, frames, quiet>>
pose  == <<head_pose, head_pose_at, inflight, late>>
bounds == <<asks, turns>>
recentreVars == <<person, pose, asked_at, pipe, heldSince, refs, bounds>>

-----------------------------------------------------------------------------
(* Recentring::request: two before one is taken are one. *)
RecentreRequest == asked_at' = {0} /\ heldSince' = {posture}

(* Recentring::take: an old request is taken and dropped. *)
Takes == \E a \in asked_at : a <= RequestAge

-----------------------------------------------------------------------------
(* FramePipeline::new *)
NewPipeline ==
    [pair |-> {}, one_eye_run |-> 0, last_rotation |-> "other",
     last_tracked |-> LossReset, run |-> {}]

BeginRecentre(p) ==
    [p EXCEPT !.run = {[age |-> 0, poses |-> 0, seen |-> {}, since |-> heldSince]}]

(* PairOffset::pose_from_sample and reconstruct: with one eye, from its second *)
(* frame on, the last measured offset stands in for the other.               *)
Debounce == 2
PairAfter(p, eyes) ==
    IF eyes = "both" THEN {[rot |-> posture, age |-> 0]} ELSE p.pair
OneEyeRun(p, eyes) ==
    IF eyes # "one" THEN 0 ELSE IF p.one_eye_run < Debounce THEN p.one_eye_run + 1 ELSE Debounce
Reconstructs(p, eyes) ==
    eyes = "one" /\ OneEyeRun(p, eyes) >= Debounce /\ \E m \in p.pair : m.age <= ReconAge
PoseFromSample(p, eyes) ==
    IF eyes = "both" THEN {[rot |-> posture, source |-> "both"]}
    ELSE IF Reconstructs(p, eyes) THEN {[rot |-> m.rot, source |-> "one"] : m \in p.pair} ELSE {}

(* median_and_spread: of fewer than ten poses the spread is from the least to *)
(* the greatest, and without one the median is any of them.                  *)
Spread(r) == Cardinality(r.seen) > 1
Median(r) == CHOOSE q \in r.seen : TRUE
Pushed(r, q) == [r EXCEPT !.poses = IF @ < MinPoses THEN @ + 1 ELSE @, !.seen = @ \cup {q}]

(* A fault: one good frame is enough. *)
MutSettle(r) ==
    IF r.poses = 0 THEN "no head" ELSE IF Spread(r) THEN "moved" ELSE "applied"

(* settle *)
Settle(r) ==
    IF r.poses < MinPoses THEN "no head" ELSE IF Spread(r) THEN "moved" ELSE "applied"

(* A fault: the rotation is counted whenever there is one. *)
MutCounts(p, raw, held) == TRUE

(* A rotation that was counted before, or was made up, is not counted. *)
Counts(p, raw, held) == ~held

(* rereference: the measurement ends with the first pose after the window. *)
Rereference(p, raw, held) ==
    IF p.run = {} THEN [p |-> p, outcome |-> {}, ref |-> {}]
    ELSE LET r0 == CHOOSE x \in p.run : TRUE
             r == IF Counts(p, raw, held) THEN Pushed(r0, raw.rot) ELSE r0
         IN  IF r.age < Window
             THEN [p |-> [p EXCEPT !.run = {r}], outcome |-> {}, ref |-> {}]
             ELSE LET o == Settle(r)
                      rot == IF o = "applied" THEN {Median(r)} ELSE {}
                  IN  [p |-> [p EXCEPT !.run = {}],
                       outcome |-> {o},
                       ref |-> {[rot |-> q, since |-> r.since] : q \in rot}]

(* A fault: a loss drops the neutral and leaves the measurement running. *)
MutLost(p) ==
    [p |-> [p EXCEPT !.pair = {}, !.one_eye_run = 0], outcome |-> {}, ref |-> {}]

(* Nobody for a second: what was said of this head goes, the reference stays. *)
Lost(p) ==
    [p |-> [p EXCEPT !.pair = {}, !.one_eye_run = 0, !.run = {}],
     outcome |-> {"interrupted" : r \in p.run}, ref |-> {}]

(* FramePipeline::offer.  What a worker supplies goes before what the eyes    *)
(* say; `again' is a rotation this pipeline was handed before.               *)
PipelineOffer(p0, eyes, supplied, again) ==
    LET geometric == PoseFromSample(p0, eyes)
        p1 == [p0 EXCEPT !.pair = PairAfter(p0, eyes), !.one_eye_run = OneEyeRun(p0, eyes),
                         !.last_rotation = IF supplied # {} THEN "current" ELSE @]
        incoming == IF supplied # {} THEN supplied ELSE geometric
        held == IF supplied # {} THEN again ELSE \E g \in geometric : g.source = "one"
    IN  IF incoming # {}
        THEN Rereference([p1 EXCEPT !.last_tracked = 0], CHOOSE x \in incoming : TRUE, held)
        ELSE IF p1.last_tracked >= LossReset THEN Lost(p1)
        ELSE [p |-> p1, outcome |-> {}, ref |-> {}]

(* GameOutput::offer: a request is taken first, and the answer reported. *)
OutputOffer(p, eyes, supplied) ==
    PipelineOffer(IF Takes THEN BeginRecentre(p) ELSE p, eyes, supplied, model /\ p.last_rotation = "current")

-----------------------------------------------------------------------------
(* The OP_GAZE_NOTIFY arm of device_tick, without a worker the eyes are the   *)
(* pose; with one, what it published, while that is fresh.                   *)
PoseIsFresh(at) == at < Fresh
Frame(eyes) ==
    /\ connected /\ frames < FramesPerUnit
    /\ posture = NoOne => eyes = "none"
    /\ frames' = frames + 1 /\ quiet' = FALSE
    /\ LET geometric == IF eyes = "both" THEN {[rot |-> posture]} ELSE {}
           published == IF model THEN head_pose ELSE geometric
           at == IF model THEN head_pose_at ELSE IF geometric # {} THEN 0 ELSE Fresh
           supplied == IF PoseIsFresh(at) THEN published ELSE {}
       IN  /\ head_pose' = published /\ head_pose_at' = at
           /\ IF pipe = {}
              THEN UNCHANGED <<asked_at, pipe, heldSince, refs>>
              ELSE LET a == OutputOffer(CHOOSE p \in pipe : TRUE, eyes, supplied)
                   IN  /\ asked_at' = {}
                       /\ pipe' = {a.p} /\ refs' = a.ref
                       /\ heldSince' = {}
    /\ UNCHANGED <<posture, connected, model, inflight, late, bounds>>

(* The camera arm, and HeadWorker::offer: a frame that finds the worker busy  *)
(* is dropped.                                                               *)
CameraFrame ==
    /\ connected /\ model /\ inflight = {} /\ posture # NoOne
    /\ inflight' = {posture}
    /\ UNCHANGED <<person, head_pose, head_pose_at, late, asked_at, pipe, heldSince, refs, bounds>>

(* The worker: a rotation is stamped when it is published, whenever its frame *)
(* was taken; a frame it can make nothing of keeps the rotation and its stamp. *)
Published(rot) ==
    /\ head_pose' = {[rot |-> rot]} /\ head_pose_at' = 0
    /\ pipe' = {[p EXCEPT !.last_rotation = "other"] : p \in pipe}
WorkerPublishes ==
    /\ inflight # {} /\ inflight' = {}
    /\ \/ Published(CHOOSE q \in inflight : TRUE)
       \/ UNCHANGED <<head_pose, head_pose_at, pipe>>
    /\ UNCHANGED <<person, late, asked_at, heldSince, refs, bounds>>
LatePublishes ==
    /\ late # {} /\ late' = {} /\ Published(CHOOSE q \in late : TRUE)
    /\ UNCHANGED <<person, inflight, asked_at, heldSince, refs, bounds>>

-----------------------------------------------------------------------------
(* A session: with the settings of the moment, and a pipeline of its own.     *)
SessionStarts ==
    /\ ~connected /\ turns < MaxTurns /\ turns' = turns + 1
    /\ connected' = TRUE /\ model' \in BOOLEAN /\ frames' = 0 /\ quiet' = FALSE
    /\ pipe' \in {{}, {NewPipeline}}
    /\ UNCHANGED <<posture, pose, asked_at, heldSince, refs, asks>>

(* It ends: its worker's channel closes, the frame it has is still worked on. *)
(* An idle tracker forgets the pose, a lost one is opened again at once.     *)
SessionEnds ==
    /\ connected /\ connected' = FALSE /\ late = {}
    /\ late' = inflight /\ inflight' = {} /\ pipe' = {}
    /\ \/ head_pose' = {} /\ head_pose_at' = Fresh
       \/ UNCHANGED <<head_pose, head_pose_at>>
    /\ UNCHANGED <<posture, model, frames, quiet, asked_at, heldSince, refs, bounds>>

(* GameSide::poll found other settings: the pipeline is kept, goes with its    *)
(* output if there is nothing left to send to, and is made if there is now.   *)
Reconfigures ==
    /\ connected /\ turns < MaxTurns /\ turns' = turns + 1
    /\ pipe' = IF pipe = {} THEN {NewPipeline} ELSE {}
    /\ UNCHANGED <<person, pose, asked_at, heldSince, refs, asks>>

(* The button and the client's message.  What they are judged by (module      *)
(* GameSide) was read up to a second ago: a request may find nobody.         *)
Asks ==
    /\ asks < MaxAsks /\ asks' = asks + 1
    /\ RecentreRequest
    /\ UNCHANGED <<person, pose, pipe, refs, turns>>

-----------------------------------------------------------------------------
Moves(q) ==
    /\ posture' = q /\ q # posture
    /\ heldSince' = IF asked_at = {} THEN {} ELSE heldSince \cup {q}
    /\ pipe' = {[p EXCEPT !.run = {[r EXCEPT !.since = @ \cup {q}] : r \in p.run}] : p \in pipe}
    /\ UNCHANGED <<connected, model, frames, quiet, pose, asked_at, refs, bounds>>

(* Half a second.  A session that is silent for long is ended by its watchdog; *)
(* an offset too old to be used is as good as none.                          *)
Passes ==
    /\ connected /\ frames = 0 => ~quiet
    /\ quiet' = (connected /\ frames = 0)
    /\ frames' = 0
    /\ head_pose_at' = Older(head_pose_at, Fresh)
    /\ asked_at' = {Older(a, RequestAge + 1) : a \in asked_at}
    /\ pipe' = {[p EXCEPT !.last_tracked = Older(@, LossReset),
                          !.pair = {[x EXCEPT !.age = @ + 1] : x \in {m \in p.pair : m.age < ReconAge}},
                          !.run = {[x EXCEPT !.age = Older(@, MessageAge)] : x \in p.run}] : p \in pipe}
    /\ UNCHANGED <<posture, connected, model, head_pose, inflight, late, heldSince, refs, bounds>>

RecentreInit ==
    /\ posture \in Postures /\ connected = FALSE /\ model = FALSE
    /\ frames = 0 /\ quiet = FALSE
    /\ head_pose = {} /\ head_pose_at = Fresh /\ inflight = {} /\ late = {}
    /\ asked_at = {} /\ pipe = {}
    /\ heldSince = {} /\ refs = {}
    /\ asks = 0 /\ turns = 0

RecentreNext ==
    \/ (\E eyes \in {"both", "one", "none"} : Frame(eyes))
    \/ CameraFrame \/ WorkerPublishes \/ LatePublishes
    \/ SessionStarts \/ SessionEnds \/ Reconfigures \/ Asks
    \/ (\E q \in Postures \cup {NoOne} : Moves(q))
    \/ Passes

RecentreSpec == RecentreInit /\ [][RecentreNext]_recentreVars

-----------------------------------------------------------------------------
(* "a recentre taken from a posture nobody was holding at the time": a        *)
(* reference that is applied is a posture the head was in between the request *)
(* and the answer, though the rotations are published by another thread, late *)
(* or twice, and the user may have moved or left.                            *)
RefIsHeld == \A r \in refs : r.rot \in r.since

(* "rather than failing silently, which would leave somebody holding still":  *)
(* a measurement ends, with an answer, before the line that says it is being  *)
(* made has gone from the row.                                               *)
AnsweredInTime == \A p \in pipe : \A r \in p.run : r.age < MessageAge

(* Both: a recentre takes for the middle only what a still head held long     *)
(* enough, and is answered while its question is on the screen.              *)
RecentreIsRight == RefIsHeld /\ AnsweredInTime

(* Why: what is measured is of a posture held since the request, or it is one *)
(* rotation of before, counted as often as there were stale ones to come: one *)
(* published and not yet counted, one being worked on, and one of an earlier  *)
(* session's worker; ...                                                     *)
One(b) == IF b THEN 1 ELSE 0
StaleLeft(p, since) ==
    One(p.last_rotation # "current" /\ \E h \in head_pose : h.rot \notin since)
      + One(\E q \in inflight : q \notin since) + One(\E q \in late : q \notin since)
RunIsOfNow(p, r) ==
    /\ posture \in r.since
    /\ IsFiniteSet(r.seen) /\ r.poses \in Nat /\ (r.poses > 0 <=> r.seen # {})
    /\ \A q \in r.seen \ r.since : r.seen = {q} => r.poses + StaleLeft(p, r.since) <= 3

(* ... and a measurement is as old as its window, and what there has been     *)
(* since the last pose, allow: with nobody there the next frame ends it.     *)
RunEnds(p, r) ==
    /\ r.age \in Nat
    /\ r.age <= Window - 1 + p.last_tracked + One(p.last_tracked = LossReset /\ quiet)
    /\ p.last_tracked = LossReset => frames = 0
PipelineOK(p) ==
    /\ DOMAIN p = DOMAIN NewPipeline /\ p.last_tracked \in 0..LossReset
    /\ \A r \in p.run :
         DOMAIN r = {"age", "poses", "seen", "since"} /\ RunIsOfNow(p, r) /\ RunEnds(p, r)
RecentreInv ==
    /\ frames \in Nat /\ quiet \in BOOLEAN /\ model \in BOOLEAN
    /\ asked_at # {} => posture \in heldSince
    /\ pipe # {} => connected
    /\ \A p \in pipe : PipelineOK(p)
    /\ RefIsHeld
=============================================================================
