---------------------------- MODULE Calibration ----------------------------
(***************************************************************************)
(* The eye calibration: the full-screen flow of calibrate_flow.rs, a 33 ms *)
(* tick on the GTK thread; the device thread of device.rs, which runs the  *)
(* flow's commands one at a time and publishes CalPhase and the gaze in    *)
(* between; and the ET5 at the other end of a request that may go          *)
(* unanswered.                                                             *)
(*                                                                         *)
(* The flow cannot see which point an ack is of: it counts acks            *)
(* (CalPhase::collected) against those it has accounted for, and charges a *)
(* new one to the point in focus.  The tokens tell one session's CalPhase  *)
(* from the next one's.                                                    *)
(*                                                                         *)
(* A tick is two steps, the snapshot of CalPhase it starts from and the    *)
(* rest of it; the device thread may run in between.  Dwells, debounces    *)
(* and timeouts are ticks that may or may not have been enough.            *)
(***************************************************************************)
EXTENDS Naturals, Sequences, FiniteSets

CONSTANTS
    Groups,       \* GROUPS: the points, in the groups they are shown in
    MaxAttempts,  \* MAX_GROUP_ATTEMPTS
    Unanswered,   \* the requests the tracker may leave unanswered
    Prompt,       \* the tracker answers a collect within the tick that
                  \* would have given up on it
    MaxRuns,      \* windows opened, and sessions begun
    MaxAsks,      \* points requested per session
    MaxDrops      \* how many times the watchdog ends a session

Points == UNION {Groups[g] : g \in DOMAIN Groups}
NoPoint == 0
(* A compute between groups and the final one are one request to the tracker.*)
Requests == {"start", "clear", "add", "discard", "group", "compute", "stop", "retrieve", "apply", "save"}

ASSUME CalibrationAssumption ==
    /\ Groups \in Seq(SUBSET (Nat \ {NoPoint})) /\ Groups # <<>> /\ {} \notin {Groups[g] : g \in DOMAIN Groups}
    /\ IsFiniteSet(Points)
    /\ Unanswered \subseteq Requests /\ Prompt \in BOOLEAN
    /\ MaxAttempts \in Nat \ {0} /\ MaxRuns \in Nat /\ MaxAsks \in Nat /\ MaxDrops \in Nat

VARIABLES
    \* the flow (Phase)
    phase, token, group, calibrated, focused, requested, attempt, swallowed,
    opened,   \* windows opened
    minted,   \* the last token minted
    asks,     \* points requested this session
    snap,     \* the CalPhase this tick started from
    ticking,  \* the tick has its snapshot
    \* shared
    queue,    \* the commands on their way to the device thread
    cal,      \* DeviceState::calibration
    gaze,     \* the zone DeviceState::latest_gaze is in
    \* the device thread
    dev,      \* where it is
    arg,      \* of the command it is running
    taken,    \* commands taken off the queue by an attempt to open
    open,     \* DeviceState::cal_session_open
    drops,
    \* the tracker, and the disk
    realm,    \* the tracker is in a calibration realm
    held,     \* points it holds samples of
    model,    \* the calibration it runs on
    disk      \* the saved blob: whose, and fitted to which points

flow    == <<phase, token, group, calibrated, focused, requested, attempt, swallowed, opened, minted, asks>>
tick    == <<snap, ticking>>
thread  == <<dev, arg, taken, open, drops>>
tracker == <<realm, held, model, disk>>
vars    == <<flow, tick, queue, cal, gaze, thread, tracker>>

(* CalPhase::default, and CalPhase::begin. *)
NoCal == [token |-> 0, active |-> FALSE, started |-> FALSE, collected |-> 0,
          error |-> FALSE, finished |-> "none"]
begin(t) == [NoCal EXCEPT !.token = t, !.active = TRUE]
on_finish(c, result) == [c EXCEPT !.active = FALSE, !.finished = result]
on_collect(c, acked) == IF acked THEN [c EXCEPT !.collected = @ + 1, !.error = FALSE]
                        ELSE [c EXCEPT !.error = TRUE]

(* A request, done and acked, or not answered: it may have been done.        *)
Ack == [done |-> TRUE, acked |-> TRUE]
Outcomes(r) == {Ack} \cup IF r \in Unanswered THEN [done : BOOLEAN, acked : {FALSE}] ELSE {}

Blob == disk.points # {}

Init ==
    /\ phase = "closed" /\ token = 0 /\ group = 1 /\ calibrated = {} /\ focused = NoPoint
    /\ requested = FALSE /\ attempt = 0 /\ swallowed = 0 /\ opened = 0 /\ minted = 0 /\ asks = 0
    /\ snap = NoCal /\ ticking = FALSE
    /\ queue = <<>> /\ cal = NoCal /\ gaze = NoPoint
    /\ dev = "closed" /\ arg = 0 /\ taken = 0 /\ open = FALSE /\ drops = 0
    /\ realm = FALSE /\ held = {} /\ model = "none"
    /\ disk \in [run : {0}, points : {{}, Points}]

-----------------------------------------------------------------------------
(* What a Phase carries goes with it. *)
Leave(next) ==
    /\ phase' = next
    /\ group' = 1 /\ calibrated' = {} /\ focused' = NoPoint /\ requested' = FALSE
    /\ attempt' = 0 /\ swallowed' = 0 /\ asks' = 0
Finished(result) == Leave(result) /\ UNCHANGED <<token, opened, minted>>

(* The window: launch, the steps into a session, the close handler.          *)
Send(op, a) == queue' = Append(queue, <<op, a>>)

Launch ==
    /\ phase = "closed" /\ opened < MaxRuns
    /\ Leave("preview") /\ opened' = opened + 1
    /\ UNCHANGED <<token, minted, tick, queue, cal, gaze, thread, tracker>>

(* begin_calibration_phase: from the eye preview, by itself or by Continue,  *)
(* or from the failure screen's Try again.                                   *)
Begin ==
    /\ phase \in {"preview", "failed"} /\ ~ticking /\ minted < MaxRuns
    /\ minted' = minted + 1 /\ token' = minted' /\ Leave("starting")
    /\ Send("begin", token')
    /\ UNCHANGED <<opened, tick, cal, gaze, thread, tracker>>

(* Faults: the wait for a session does not look at the token; a weak group   *)
(* is not charged.                                                           *)
MutNotStarted == ~snap.started /\ snap.finished = "none"
MutReshowFree ==
    /\ attempt + 1 < MaxAttempts
    /\ requested' = FALSE
    /\ UNCHANGED <<phase, token, group, calibrated, focused, attempt, swallowed, opened, minted, asks>>

Close ==
    /\ phase # "closed" /\ ~ticking
    /\ Leave("closed") /\ Send("abort", 0)
    /\ UNCHANGED <<token, opened, minted, tick, cal, gaze, thread, tracker>>

-----------------------------------------------------------------------------
(* The tick.  It starts from a snapshot, ... *)
Snapshot ==
    /\ phase \in {"starting", "collecting", "computing"} /\ ~ticking
    /\ snap' = cal /\ ticking' = TRUE
    /\ UNCHANGED <<flow, queue, cal, gaze, thread, tracker>>

(* ... and ends with it.                                                     *)
EndTick == ticking' = FALSE /\ snap' = NoCal


(* Whether the device thread has yet to come to this session. *)
NotStarted == snap.token # token \/ (~snap.started /\ snap.finished = "none")

StartTimeout ==
    /\ ticking /\ phase = "starting" /\ NotStarted
    /\ Send("abort", 0) /\ Finished("failed") /\ EndTick
    /\ UNCHANGED <<cal, gaze, thread, tracker>>

Collecting(g) ==
    /\ phase' = "collecting" /\ group' = g /\ focused' = NoPoint /\ requested' = FALSE /\ attempt' = 0

Started ==
    /\ ticking /\ phase = "starting" /\ ~NotStarted /\ snap.started
    /\ Collecting(1) /\ calibrated' = {} /\ swallowed' = 0 /\ EndTick
    /\ UNCHANGED <<token, opened, minted, asks, queue, cal, gaze, thread, tracker>>

StartFailed ==
    /\ ticking /\ phase = "starting" /\ ~NotStarted /\ ~snap.started
    /\ Send("abort", 0) /\ Finished("failed") /\ EndTick
    /\ UNCHANGED <<cal, gaze, thread, tracker>>

(* A tick that changes nothing but its count. *)
Wait ==
    /\ ticking
    /\ \/ phase = "starting" /\ NotStarted
       \/ phase = "computing" /\ snap.token = token /\ snap.finished = "none"
    /\ EndTick
    /\ UNCHANGED <<flow, queue, cal, gaze, thread, tracker>>

-----------------------------------------------------------------------------
(* Phase::Collecting.  The device's error is taken, whatever the tick does.  *)
(* The arm for a token that is not the flow's own is not taken (OwnSession). *)
take_last_error == cal' = IF cal.token = token THEN [cal EXCEPT !.error = FALSE] ELSE cal

CollectingTick == ticking /\ phase = "collecting" /\ snap.token = token /\ take_last_error /\ EndTick

SessionFailed ==
    /\ CollectingTick /\ snap.finished = "err"
    /\ Send("abort", 0) /\ Finished("failed")
    /\ UNCHANGED <<gaze, thread, tracker>>

(* point_rejection: an error is charged while a collect is in flight. *)
Rejection == cal.token = token /\ cal.error /\ requested

(* weak_group_action and reshow_group: the same group again, captured points *)
(* and the focus kept; or the run fails.                                     *)
Reshow ==
    /\ attempt + 1 < MaxAttempts
    /\ attempt' = attempt + 1 /\ requested' = FALSE
    /\ UNCHANGED <<phase, token, group, calibrated, focused, swallowed, opened, minted, asks>>
GiveUp ==
    /\ attempt + 1 >= MaxAttempts
    /\ Send("abort", 0) /\ Finished("failed")

Rejected ==
    /\ CollectingTick /\ snap.finished # "err" /\ Rejection
    /\ \/ Reshow /\ Send("discard", focused)
       \/ GiveUp
    /\ UNCHANGED <<gaze, thread, tracker>>

(* read_advance: acks this flow has not accounted for. *)
accounted == Cardinality(calibrated) + swallowed
Reading == CollectingTick /\ snap.finished # "err" /\ ~Rejection
Advance == snap.collected > accounted

GroupDone == Groups[group] \subseteq calibrated \cup {focused}

LastDone ==
    /\ GroupDone /\ group = Len(Groups)
    /\ Send("finish", 0) /\ Leave("computing")
NextGroup ==
    /\ GroupDone /\ group < Len(Groups)
    /\ Send("compute", 0) /\ Collecting(group + 1)
    /\ calibrated' = calibrated \cup {focused} /\ UNCHANGED <<swallowed, asks>>

(* Faults: a captured point keeps the focus, or the request that asked for it. *)
MutCaptured ==
    /\ Reading /\ Advance /\ focused # NoPoint
    /\ \/ LastDone
       \/ NextGroup
       \/ /\ ~GroupDone
          /\ calibrated' = calibrated \cup {focused} /\ requested' = FALSE
          /\ UNCHANGED <<queue, phase, group, focused, attempt, swallowed, asks>>
    /\ UNCHANGED <<token, opened, minted, gaze, thread, tracker>>
MutCapturedAsking ==
    /\ Reading /\ Advance /\ focused # NoPoint
    /\ \/ LastDone
       \/ NextGroup
       \/ /\ ~GroupDone
          /\ calibrated' = calibrated \cup {focused} /\ focused' = NoPoint
          /\ UNCHANGED <<queue, phase, group, requested, attempt, swallowed, asks>>
    /\ UNCHANGED <<token, opened, minted, gaze, thread, tracker>>

Captured ==
    /\ Reading /\ Advance /\ focused # NoPoint
    /\ \/ LastDone
       \/ NextGroup
       \/ /\ ~GroupDone
          /\ calibrated' = calibrated \cup {focused} /\ focused' = NoPoint /\ requested' = FALSE
          /\ UNCHANGED <<queue, phase, group, attempt, swallowed, asks>>
    /\ UNCHANGED <<token, opened, minted, gaze, thread, tracker>>

Unattributable ==
    /\ Reading /\ Advance /\ focused = NoPoint
    /\ swallowed' = swallowed + 1
    /\ UNCHANGED <<phase, token, group, calibrated, focused, requested, attempt, opened, minted, asks,
                   queue, gaze, thread, tracker>>

(* closest_focused_point: a lone point's zone is the whole screen. *)
RawFocus ==
    LET live == Groups[group] \ calibrated IN
    IF gaze \in live THEN gaze
    ELSE IF gaze # NoPoint /\ Cardinality(Groups[group]) = 1 /\ live # {}
    THEN CHOOSE p \in live : TRUE ELSE NoPoint

Dwelling == Reading /\ ~Advance

(* A collect that has not been answered. *)
Outstanding == dev = "collect" \/ \E i \in DOMAIN queue : queue[i][1] = "collect"
GivesUp == Prompt => ~Outstanding

(* resolve_group_focus: at once from no focus, after a while from another.   *)
Focus ==
    /\ Dwelling
    /\ IF ~requested /\ RawFocus # NoPoint
       THEN focused' \in {RawFocus} \cup ({focused} \ {NoPoint})
       ELSE UNCHANGED focused
    /\ UNCHANGED <<phase, token, group, calibrated, requested, attempt, swallowed, opened, minted, asks,
                   queue, gaze, thread, tracker>>

(* Fault: the discard goes out whatever the fresh read says.                 *)
MutLostFocus ==
    /\ Dwelling /\ requested /\ RawFocus # focused /\ GivesUp
    /\ Send("discard", focused)
    /\ requested' = FALSE
    /\ UNCHANGED <<phase, token, group, calibrated, focused, attempt, swallowed, opened, minted, asks,
                   gaze, thread, tracker>>

(* Gaze left the point being sampled: unless a fresh read shows its ack, the *)
(* sample is to be thrown away, and the point dwelled on anew.               *)
LostFocus ==
    /\ Dwelling /\ requested /\ RawFocus # focused /\ GivesUp
    /\ IF cal.collected > accounted THEN UNCHANGED queue ELSE Send("discard", focused)
    /\ requested' = FALSE
    /\ UNCHANGED <<phase, token, group, calibrated, focused, attempt, swallowed, opened, minted, asks,
                   gaze, thread, tracker>>

Settled ==
    /\ Dwelling /\ ~requested /\ focused # NoPoint /\ RawFocus = focused /\ asks < MaxAsks
    /\ Send("collect", focused)
    /\ requested' = TRUE /\ asks' = asks + 1
    /\ UNCHANGED <<phase, token, group, calibrated, focused, attempt, swallowed, opened, minted,
                   gaze, thread, tracker>>

Deadline ==
    /\ Dwelling /\ GivesUp
    /\ \/ Reshow /\ UNCHANGED queue
       \/ GiveUp
    /\ UNCHANGED <<gaze, thread, tracker>>

-----------------------------------------------------------------------------
(* Phase::Computing. *)
Computed ==
    /\ ticking /\ phase = "computing" /\ snap.token = token /\ snap.finished # "none"
    /\ Finished(IF snap.finished = "ok" THEN "ok" ELSE "failed") /\ EndTick
    /\ UNCHANGED <<queue, cal, gaze, thread, tracker>>

ComputeTimeout ==
    /\ ticking /\ phase = "computing" /\ snap.token = token /\ snap.finished = "none"
    /\ Send("abort", 0) /\ Finished("failed") /\ EndTick
    /\ UNCHANGED <<cal, gaze, thread, tracker>>

-----------------------------------------------------------------------------
(* The device thread.  Nothing wants the tracker: DeviceState::default.      *)
IdleReset ==
    /\ dev = "closed" /\ phase = "closed" /\ queue = <<>>
    /\ cal' = NoCal /\ open' = FALSE /\ gaze' = NoPoint
    /\ UNCHANGED <<flow, tick, queue, dev, arg, taken, drops, tracker>>

(* stand_by takes what is queued; the tracker opens or does not. *)
TryOpen ==
    /\ dev = "closed" /\ (phase # "closed" \/ queue # <<>>)
    /\ dev' = "opening" /\ taken' = Len(queue)
    /\ UNCHANGED <<flow, tick, queue, cal, gaze, arg, open, drops, tracker>>

OpenOk ==
    /\ dev = "opening"
    /\ \E a \in Outcomes("apply") : model' = IF Blob /\ a.done THEN "saved" ELSE "none"
    /\ open' = FALSE /\ dev' = "drain" /\ taken' = 0
    /\ UNCHANGED <<flow, tick, queue, cal, gaze, arg, drops, realm, held, disk>>

OpenFails ==
    /\ dev = "opening" /\ dev' = "failing"
    /\ UNCHANGED <<flow, tick, queue, cal, gaze, arg, taken, open, drops, tracker>>

(* fail_queued_command. *)
FailQueued ==
    /\ dev = "failing" /\ taken > 0
    /\ cal' = IF Head(queue)[1] = "begin" THEN on_finish(begin(Head(queue)[2]), "err") ELSE cal
    /\ queue' = Tail(queue) /\ taken' = taken - 1
    /\ UNCHANGED <<flow, tick, gaze, dev, arg, open, drops, tracker>>
BackOff ==
    /\ dev = "failing" /\ taken = 0 /\ dev' = "closed"
    /\ UNCHANGED <<flow, tick, queue, cal, gaze, arg, taken, open, drops, tracker>>

(* device_tick: every command in the queue, then the notifications. *)
Dequeue ==
    /\ dev = "drain" /\ queue # <<>>
    /\ dev' = Head(queue)[1] /\ arg' = Head(queue)[2] /\ queue' = Tail(queue)
    /\ cal' = IF dev' = "begin" THEN begin(arg') ELSE cal
    /\ UNCHANGED <<flow, tick, gaze, taken, open, drops, tracker>>
Drained ==
    /\ dev = "drain" /\ queue = <<>> /\ dev' = "read"
    /\ UNCHANGED <<flow, tick, queue, cal, gaze, arg, taken, open, drops, tracker>>
Read ==
    /\ dev = "read" /\ dev' = "drain"
    /\ gaze' \in Points \cup {NoPoint}
    /\ UNCHANGED <<flow, tick, queue, cal, arg, taken, open, drops, tracker>>

(* The session ends and the tracker reboots: silence outside a calibration,  *)
(* or nothing wanted it for LINGER.                                          *)
CloseSession ==
    /\ dev = "read" /\ dev' = "closed"
    /\ realm' = FALSE /\ held' = {} /\ model' = "none"
    /\ UNCHANGED <<flow, tick, queue, cal, gaze, arg, taken, open, disk>>
Watchdog == ~cal.active /\ drops < MaxDrops /\ drops' = drops + 1 /\ CloseSession
LingerOver == phase = "closed" /\ queue = <<>> /\ UNCHANGED drops /\ CloseSession

-----------------------------------------------------------------------------
(* apply_command. *)
Ran == dev' = "drain" /\ arg' = 0 /\ UNCHANGED <<flow, tick, queue, gaze, taken, drops>>

(* CalBegin: start, clear, and for an improvement the old model back. *)
CalBegin ==
    /\ dev = "begin"
    /\ \E s \in Outcomes("start"), c \in Outcomes("clear"), seeded \in BOOLEAN :
         LET cleared == s.acked /\ c.done
             ok      == s.acked /\ c.acked
         IN /\ realm' = (realm \/ s.done)
            /\ held' = IF cleared THEN {} ELSE held
            /\ model' = IF cleared /\ ~(ok /\ seeded) THEN "none" ELSE model
            /\ cal' = IF ok THEN [cal EXCEPT !.started = TRUE] ELSE on_finish(cal, "err")
    /\ open' = TRUE
    /\ Ran /\ UNCHANGED disk

CalCollect ==
    /\ dev = "collect"
    /\ \E a \in Outcomes("add") :
         /\ held' = IF a.done /\ realm THEN held \cup {arg} ELSE held
         /\ cal' = on_collect(cal, a.acked)
    /\ Ran /\ UNCHANGED <<open, realm, model, disk>>

CalDiscard ==
    /\ dev = "discard"
    /\ \E d \in Outcomes("discard") : held' = IF d.done THEN held \ {arg} ELSE held
    /\ Ran /\ UNCHANGED <<cal, open, realm, model, disk>>

CalComputeGroup ==
    /\ dev = "compute"
    /\ \E c \in Outcomes("group") :
         /\ model' = IF c.done THEN "session" ELSE model
         /\ cal' = IF c.acked THEN cal ELSE on_finish(cal, "err")
    /\ Ran /\ UNCHANGED <<open, realm, held, disk>>

(* Faults: a stop that was sent is taken for a stop that was answered; a     *)
(* finish reports well before it has saved; an abort leaves the old          *)
(* calibration cleared, or the session marked as running.                    *)
MutCalFinish ==
    /\ dev = "finish"
    /\ \E c \in Outcomes("compute"), s \in Outcomes("stop"), r \in Outcomes("retrieve"), w \in Outcomes("save") :
         LET ok == c.acked /\ r.acked /\ w.acked
         IN /\ realm' = (realm /\ ~s.done)
            /\ open' = FALSE
            /\ model' = IF ok THEN "saved" ELSE IF c.done THEN "session" ELSE model
            /\ disk' = IF ok THEN [run |-> cal.token, points |-> held] ELSE disk
            /\ cal' = on_finish(cal, IF ok THEN "ok" ELSE "err")
    /\ Ran /\ UNCHANGED held
MutFinishEarly ==
    /\ dev = "finish"
    /\ \E c \in Outcomes("compute"), s \in Outcomes("stop"), r \in Outcomes("retrieve"), w \in Outcomes("save") :
         LET ok == c.acked /\ r.acked /\ w.acked
         IN /\ realm' = (realm /\ ~s.done)
            /\ open' = (open /\ ~s.acked)
            /\ model' = IF ok THEN "saved" ELSE IF c.done THEN "session" ELSE model
            /\ disk' = IF ok THEN [run |-> cal.token, points |-> held] ELSE disk
            /\ cal' = on_finish(cal, IF c.acked THEN "ok" ELSE "err")
    /\ Ran /\ UNCHANGED held
MutCalAbort ==
    /\ dev = "abort"
    /\ \E s \in Outcomes("stop") :
         /\ realm' = (realm /\ ~(open /\ s.done))
         /\ open' = (open /\ ~s.acked)
    /\ cal' = NoCal
    /\ Ran /\ UNCHANGED <<held, model, disk>>
MutAbortActive ==
    /\ dev = "abort"
    /\ \E s \in Outcomes("stop"), a \in Outcomes("apply") :
         /\ realm' = (realm /\ ~(open /\ s.done))
         /\ open' = (open /\ ~s.acked)
         /\ model' = IF open /\ Blob /\ a.done THEN "saved" ELSE model
    /\ Ran /\ UNCHANGED <<cal, held, disk>>

(* finish_calibration: compute, stop whatever came of it, retrieve, save.    *)
CalFinish ==
    /\ dev = "finish"
    /\ \E c \in Outcomes("compute"), s \in Outcomes("stop"), r \in Outcomes("retrieve"), w \in Outcomes("save") :
         LET ok == c.acked /\ r.acked /\ w.acked
         IN /\ realm' = (realm /\ ~s.done)
            /\ open' = (open /\ ~s.acked)
            /\ model' = IF ok THEN "saved" ELSE IF c.done THEN "session" ELSE model
            /\ disk' = IF ok THEN [run |-> cal.token, points |-> held] ELSE disk
            /\ cal' = on_finish(cal, IF ok THEN "ok" ELSE "err")
    /\ Ran /\ UNCHANGED held

(* CalAbort: stop a realm that may be open, and put the saved blob back.     *)
CalAbort ==
    /\ dev = "abort"
    /\ \E s \in Outcomes("stop"), a \in Outcomes("apply") :
         /\ realm' = (realm /\ ~(open /\ s.done))
         /\ open' = (open /\ ~s.acked)
         /\ model' = IF open /\ Blob /\ a.done THEN "saved" ELSE model
    /\ cal' = NoCal
    /\ Ran /\ UNCHANGED <<held, disk>>

-----------------------------------------------------------------------------
Tick ==
    \/ Snapshot \/ StartTimeout \/ Started \/ StartFailed \/ Wait
    \/ SessionFailed \/ Rejected \/ Captured \/ Unattributable
    \/ Focus \/ LostFocus \/ Settled \/ Deadline \/ Computed \/ ComputeTimeout

Device ==
    \/ IdleReset \/ TryOpen \/ OpenOk \/ OpenFails \/ FailQueued \/ BackOff
    \/ Dequeue \/ Drained \/ Read
    \/ CalBegin \/ CalCollect \/ CalDiscard \/ CalComputeGroup \/ CalFinish \/ CalAbort

Next == Launch \/ Begin \/ Close \/ Tick \/ Device \/ Watchdog \/ LingerOver

Spec == Init /\ [][Next]_vars

(* The timeout source fires every 33 ms and the device thread runs on; a     *)
(* timeout counts ticks, so it comes if its ticks come again and again.      *)
FairSpec ==
    /\ Spec
    /\ WF_vars(Tick) /\ WF_vars(Device)
    /\ SF_vars(StartTimeout) /\ SF_vars(Deadline) /\ SF_vars(ComputeTimeout)

-----------------------------------------------------------------------------
Messages ==
    ({"begin"} \X (1..MaxRuns)) \cup ({"collect", "discard"} \X Points)
    \cup ({"compute", "finish", "abort"} \X {0})
Commands == {"begin", "collect", "discard", "compute", "finish", "abort"}
Down == {"closed", "opening", "failing"}
Cals == [token : 0..MaxRuns, active : BOOLEAN, started : BOOLEAN, collected : Nat,
         error : BOOLEAN, finished : {"none", "ok", "err"}]

FlowOK ==
    /\ phase \in {"closed", "preview", "starting", "collecting", "computing", "ok", "failed"}
    /\ opened \in 0..MaxRuns /\ minted \in 0..MaxRuns /\ token \in 0..minted /\ asks \in 0..MaxAsks
    /\ group \in DOMAIN Groups /\ calibrated \subseteq Points /\ focused \in Points \cup {NoPoint}
    /\ requested \in BOOLEAN /\ attempt \in 0..(MaxAttempts - 1) /\ swallowed \in Nat
SharedOK ==
    /\ snap \in Cals /\ ticking \in BOOLEAN /\ cal \in Cals
    /\ queue \in Seq(Messages) /\ gaze \in Points \cup {NoPoint}
DeviceOK ==
    /\ dev \in Commands \cup Down \cup {"drain", "read"} /\ arg \in Nat
    /\ dev \in Commands => <<dev, arg>> \in Messages
    /\ taken \in 0..Len(queue) /\ (dev \notin Down => taken = 0)
    /\ open \in BOOLEAN /\ drops \in 0..MaxDrops
TrackerOK ==
    /\ realm \in BOOLEAN /\ held \subseteq Points /\ model \in {"none", "session", "saved"}
    /\ disk \in [run : 0..MaxRuns, points : SUBSET Points]
TypeOK == FlowOK /\ SharedOK /\ DeviceOK /\ TrackerOK

(* A point is on its way only with a focus to charge it to: the mid-collect  *)
(* discard's expect("requested implies focused is set") does not panic.      *)
RequestedIsFocused == requested => focused # NoPoint

(* While the flow collects or computes, the CalPhase in place is of its own  *)
(* session: `Phase::Starting` waits for its token, and nothing the flow or a *)
(* lost connection leaves behind replaces it ("only reachable if a second    *)
(* flow window ever opened").                                                *)
OwnSession == phase \in {"collecting", "computing"} => cal.token = token

(* No ack is charged twice: the flow accounts for no more acks than landed,  *)
(* and the point in focus, which the next one is charged to, is not one that *)
(* is captured already.                                                      *)
AcksAccounted ==
    phase = "collecting" => accounted <= cal.collected /\ focused \notin calibrated

(* The flow acts on its own session's progress, and charges no ack twice.    *)
FlowTracks == OwnSession /\ AcksAccounted

(* A tracker in a calibration realm is known to be: cal_session_open, which  *)
(* alone lets an abort stop it, is never cleared too early.                  *)
RealmKnown == realm => open
(* Inductive: there is no realm without a session. *)
RealmInSession == realm => dev \notin Down
CalInv == TypeOK /\ RequestedIsFocused /\ RealmKnown /\ RealmInSession

(* Success is reported of a calibration that is on disk, and is this         *)
(* session's.                                                                *)
OkIsSaved == phase = "ok" => disk.run = token

(* A run reported as complete was fitted to every point.                     *)
CompleteRun == phase = "ok" => disk.points = Points

(* With the flow closed and its commands run, the tracker is out of the      *)
(* realm and back on the saved calibration ("nothing else puts the           *)
(* calibration back", CalAbort).                                             *)
Restored ==
    phase = "closed" /\ queue = <<>> /\ dev \in {"drain", "read"} =>
        ~realm /\ (Blob => model = "saved")

(* Why the flow follows its own session: its `begin` is still to come, behind *)
(* every other session's commands, and nothing seen so far has its token; or *)
(* it has been taken, and nothing is queued that would replace its CalPhase. *)
ToCome ==
    /\ \E i \in DOMAIN queue :
         /\ queue[i] = <<"begin", token>>
         /\ \A j \in DOMAIN queue : queue[j][1] \in {"begin", "abort"} => j <= i
         /\ \A j \in DOMAIN queue : j # i /\ queue[j][1] = "begin" => queue[j][2] < token
    /\ cal.token < token /\ snap.token < token
TakenUp ==
    /\ \A i \in DOMAIN queue : queue[i][1] \notin {"begin", "abort"}
    /\ dev # "abort" /\ cal.token = token
    /\ snap.token = token => snap.collected <= cal.collected
    /\ snap.token = token /\ snap.finished = "ok" => disk.run = token
Tokens ==
    /\ token = minted /\ cal.token <= minted /\ (~ticking => snap = NoCal)
    /\ \A i \in DOMAIN queue : queue[i][1] = "begin" => queue[i][2] <= minted
    /\ cal.finished = "ok" => disk.run = cal.token
SessionInv ==
    /\ Tokens
    /\ phase = "starting" => ToCome \/ TakenUp
    /\ phase \in {"collecting", "computing", "ok"} => TakenUp
    /\ AcksAccounted /\ OkIsSaved

(* Why a complete run has every point, when the tracker answers a collect     *)
(* before the flow gives up on it.  Nothing is queued between a session's     *)
(* begin and its first group, and the tracker starts it with no samples; ... *)
NoFinish == dev # "finish" /\ \A i \in DOMAIN queue : queue[i][1] # "finish"
Idle == queue = <<>> /\ dev \in {"drain", "read"}
Fresh ==
    /\ cal.active /\ cal.finished = "none" /\ cal.collected = 0 /\ ~cal.error
    /\ realm /\ held = {} /\ dev \in {"drain", "read"}
Starting ==
    \/ cal.token # token /\ queue # <<>> /\ queue[Len(queue)] = <<"begin", token>>
    \/ /\ cal.token = token /\ queue = <<>> /\ dev \in Down \cup {"begin", "drain", "read"}
       /\ dev = "begin" => cal = begin(token)
       /\ cal.started => Fresh
       /\ snap.token = token /\ snap.started => cal.started

(* ... while it collects, the tracker has what the flow has captured; an ack  *)
(* the flow has not seen is of the point in focus, and nothing else is on its *)
(* way; a collect is the last thing queued, and a discard is of a point that  *)
(* is not captured; ...                                                      *)
Landed == cal.collected = Cardinality(calibrated) + 1
Tracked ==
    /\ cal.active /\ realm /\ dev \notin Down /\ swallowed = 0 /\ calibrated \subseteq held
    /\ \A g \in 1..(group - 1) : Groups[g] \subseteq calibrated
    /\ cal.collected = Cardinality(calibrated) \/ Landed
    /\ Landed => focused \in held /\ Idle /\ ~cal.error /\ (~requested /\ ticking => snap.collected = cal.collected)
    /\ Outstanding => requested /\ ~Landed /\ ~cal.error
    /\ cal.error => requested /\ ~Outstanding
    /\ dev = "collect" => queue = <<>> /\ arg = focused
    /\ dev = "discard" => arg \notin calibrated
    /\ \A i \in DOMAIN queue :
         /\ queue[i][1] = "collect" => i = Len(queue) /\ queue[i][2] = focused
         /\ queue[i][1] = "discard" => queue[i][2] \notin calibrated
(* ... a session whose group could not be computed captures nothing more; ... *)
Doomed ==
    cal.finished = "err" /\ (snap.token = token /\ snap.finished # "err" => snap.collected <= accounted)

(* ... and the finish is the only thing queued behind the last point.        *)
FinishComes ==
    /\ \/ dev = "finish" /\ queue = <<>>
       \/ dev \in {"drain", "read"} /\ queue = <<<<"finish", 0>>>>
    /\ cal.active /\ cal.finished = "none" /\ Points \subseteq held
    /\ snap.token = token => snap.finished = "none"
FinishIsDone ==
    /\ NoFinish /\ queue = <<>>
    /\ cal.finished = "ok" => disk.points = Points
    /\ snap.token = token /\ snap.finished = "ok" => disk.points = Points

CompleteInv ==
    /\ phase = "starting" => Starting
    /\ phase = "collecting" => NoFinish /\ dev # "begin" /\ (Doomed \/ (cal.finished = "none" /\ Tracked))
    /\ phase = "computing" => FinishComes \/ FinishIsDone
    /\ phase = "ok" => NoFinish /\ disk.points = Points

(* Why a closed flow has put the tracker back: its abort is the last thing     *)
(* queued, or it has been run; a compute runs in a session that is known to be *)
(* open; and with none known, the tracker is on the saved calibration.       *)
ComputeIsOpen ==
    /\ \A i \in DOMAIN queue : queue[i][1] = "compute" => i = 1 /\ dev \in {"drain", "read"} /\ cal.active /\ open
    /\ dev = "compute" => open
AbortIsLast ==
    phase = "closed" =>
        \/ queue # <<>> /\ queue[Len(queue)] = <<"abort", 0>>
        \/ queue = <<>> /\ (dev \in Down \cup {"abort"} \/ (~open /\ dev \in {"drain", "read"}))
OnSaved == dev \notin Down /\ ~open => ~Blob \/ model = "saved"
RestoredInv == ComputeIsOpen /\ AbortIsLast /\ OnSaved

(* What it takes: the requests that put the calibration back are answered.   *)
Answered == {"stop", "apply", "compute", "retrieve", "save"} \cap Unanswered = {}

(* Every session ends, by itself or by a timeout. *)
Underway == phase \in {"starting", "collecting", "computing"}
Ended == phase \in {"ok", "failed", "closed"}
FlowEnds == Underway ~> Ended

(* A closed flow leaves neither a realm open nor the watchdog suppressed.    *)
Closed == phase = "closed"
LetGo == phase # "closed" \/ (~realm /\ ~cal.active)
LetsGo == Closed ~> LetGo
=============================================================================
