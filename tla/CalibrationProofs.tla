------------------------- MODULE CalibrationProofs -------------------------
(***************************************************************************)
(* For every grouping of the points, every set of requests the tracker may *)
(* leave unanswered, and any number of sessions, attempts and lost         *)
(* connections: the types, no panic in the mid-collect discard, a realm    *)
(* that is always known to be open, a flow that follows its own session    *)
(* and charges no ack twice, and a reported success that is on disk; with  *)
(* a tracker that answers a collect in time, a complete run that has every *)
(* point; and, if it answers what ends a session too, a tracker put back.  *)
(***************************************************************************)
EXTENDS Calibration, FiniteSetTheorems, TLAPS

(* The points are the members of the groups, and none of them is NoPoint. *)
LEMMA PointsAre ==
    /\ Points \subseteq Nat \ {NoPoint}
    /\ \A g \in DOMAIN Groups : Groups[g] \subseteq Points
    /\ 1 \in DOMAIN Groups /\ DOMAIN Groups = 1..Len(Groups) /\ Len(Groups) \in Nat
BY CalibrationAssumption DEF Points, NoPoint, CalibrationAssumption

(* Zero is within every bound. *)
LEMMA Zeros ==
    /\ 0 \in 0..MaxRuns /\ 0 \in 0..MaxAsks /\ 0 \in 0..(MaxAttempts - 1)
    /\ MaxRuns \in Nat /\ MaxAsks \in Nat /\ MaxDrops \in Nat /\ MaxAttempts \in Nat \ {0}
BY CalibrationAssumption DEF CalibrationAssumption

(* CalPhase and its methods stay within CalPhase. *)
LEMMA CalPhaseTyped ==
    /\ NoCal \in Cals
    /\ \A t \in 0..MaxRuns : begin(t) \in Cals
    /\ \A c \in Cals, r \in {"none", "ok", "err"} :
         on_finish(c, r) \in Cals /\ on_finish(c, r).token = c.token
    /\ \A c \in Cals, a \in BOOLEAN : on_collect(c, a) \in Cals
<1>1. NoCal \in Cals
  BY CalibrationAssumption DEF NoCal, Cals, CalibrationAssumption
<1>2. \A t \in 0..MaxRuns : begin(t) \in Cals
  BY CalibrationAssumption DEF begin, NoCal, Cals, CalibrationAssumption
<1>3. \A c \in Cals, r \in {"none", "ok", "err"} :
         on_finish(c, r) \in Cals /\ on_finish(c, r).token = c.token
  BY DEF on_finish, Cals
<1>4. ASSUME NEW c \in Cals, NEW a \in BOOLEAN PROVE on_collect(c, a) \in Cals
  <2>0. c.collected + 1 \in Nat
    BY DEF Cals
  <2>1. [c EXCEPT !.collected = c.collected + 1, !.error = FALSE] \in Cals
    BY <2>0 DEF Cals
  <2>2. [c EXCEPT !.error = TRUE] \in Cals
    BY DEF Cals
  <2> QED
    BY <2>1, <2>2 DEF on_collect
<1> QED
  BY <1>1, <1>2, <1>3, <1>4

(* A command sent is one more in the queue. *)
LEMMA Sent ==
    ASSUME queue \in Seq(Messages), NEW op, NEW a, <<op, a>> \in Messages, Send(op, a)
    PROVE  queue' \in Seq(Messages) /\ Len(queue') = Len(queue) + 1
BY DEF Send

(* The commands without an argument, and those of a point or a session. *)
LEMMA MessagesAre ==
    /\ \A op \in {"compute", "finish", "abort"} : <<op, 0>> \in Messages
    /\ \A op \in {"collect", "discard"}, p \in Points : <<op, p>> \in Messages
    /\ \A t \in 1..MaxRuns : <<"begin", t>> \in Messages
    /\ \A m \in Messages : /\ m[1] \in Commands /\ m[2] \in Nat /\ m = <<m[1], m[2]>>
                           /\ m[1] = "begin" => m[2] \in 1..MaxRuns
                           /\ m[1] \in {"collect", "discard"} => m[2] \in Points
<1>1. \A op \in {"compute", "finish", "abort"} : <<op, 0>> \in Messages
  BY DEF Messages
<1>2. \A op \in {"collect", "discard"}, p \in Points : <<op, p>> \in Messages
  BY DEF Messages
<1>3. \A t \in 1..MaxRuns : <<"begin", t>> \in Messages
  BY DEF Messages
<1>4. ASSUME NEW m \in Messages
      PROVE  /\ m[1] \in Commands /\ m[2] \in Nat /\ m = <<m[1], m[2]>>
             /\ m[1] = "begin" => m[2] \in 1..MaxRuns
             /\ m[1] \in {"collect", "discard"} => m[2] \in Points
  <2>1. CASE m \in {"begin"} \X (1..MaxRuns)
    BY <2>1, Zeros DEF Commands
  <2>2. CASE m \in {"collect", "discard"} \X Points
    <3>1. m[2] \in Points /\ m[1] \in {"collect", "discard"} /\ m = <<m[1], m[2]>>
      BY <2>2
    <3>2. m[2] \in Nat
      BY <3>1, PointsAre
    <3> QED
      BY <3>1, <3>2 DEF Commands
  <2>3. CASE m \in {"compute", "finish", "abort"} \X {0}
    BY <2>3 DEF Commands
  <2> QED
    BY <2>1, <2>2, <2>3 DEF Messages
<1> QED
  BY <1>1, <1>2, <1>3, <1>4

(* A phase that is left takes what it carried with it. *)
LEMMA LeaveTyped ==
    ASSUME FlowOK, NEW next \in {"closed", "preview", "starting", "computing", "ok", "failed"},
           Leave(next), opened' \in 0..MaxRuns, minted' \in 0..MaxRuns, token' \in 0..minted'
    PROVE  FlowOK' /\ RequestedIsFocused'
BY PointsAre, Zeros DEF Leave, FlowOK, RequestedIsFocused

-----------------------------------------------------------------------------
(* What the flow owes: its own types, and no message the device thread       *)
(* cannot read; the device thread and the tracker are left alone.            *)
FlowStep ==
    /\ FlowOK' /\ RequestedIsFocused' /\ SharedOK'
    /\ UNCHANGED <<thread, tracker>> /\ Len(queue') >= Len(queue)

LEMMA FlowKeeps ==
    ASSUME CalInv, UNCHANGED <<thread, tracker>>, FlowStep
    PROVE  CalInv'
BY DEF CalInv, TypeOK, FlowStep, SharedOK, DeviceOK, TrackerOK, RealmKnown, RealmInSession,
       thread, tracker

(* The steps of the window. *)
LEMMA WindowSteps ==
    ASSUME CalInv, Launch \/ Begin \/ Close
    PROVE  FlowStep
<1> USE DEF CalInv, TypeOK, SharedOK, FlowStep
<1>1. CASE Launch
  <2>1. opened' \in 0..MaxRuns /\ minted' \in 0..MaxRuns /\ token' \in 0..minted'
    BY <1>1, Zeros DEF Launch, FlowOK
  <2> QED
    BY <1>1, <2>1, LeaveTyped DEF Launch, tick
<1>2. CASE Begin
  <2>1. /\ opened' \in 0..MaxRuns /\ minted' \in 0..MaxRuns /\ token' \in 0..minted'
        /\ token' \in 1..MaxRuns
    BY <1>2, Zeros DEF Begin, FlowOK
  <2>2. queue' \in Seq(Messages) /\ Len(queue') = Len(queue) + 1
    BY <1>2, <2>1, Sent, MessagesAre DEF Begin
  <2> QED
    BY <1>2, <2>1, <2>2, LeaveTyped DEF Begin, tick
<1>3. CASE Close
  <2>1. queue' \in Seq(Messages) /\ Len(queue') = Len(queue) + 1
    BY <1>3, Sent, MessagesAre DEF Close
  <2> QED
    BY <1>3, <2>1, LeaveTyped DEF Close, tick, FlowOK
<1> QED
  BY <1>1, <1>2, <1>3

(* The end of a tick, and the errors it takes. *)
LEMMA TickTyped ==
    ASSUME SharedOK
    PROVE  /\ EndTick => snap' \in Cals /\ ticking' \in BOOLEAN
           /\ take_last_error => cal' \in Cals
<1>1. EndTick => snap' \in Cals /\ ticking' \in BOOLEAN
  BY CalPhaseTyped DEF EndTick
<1>2. take_last_error => cal' \in Cals
  BY DEF take_last_error, SharedOK, Cals
<1> QED
  BY <1>1, <1>2

(* A session that is over, with an abort behind it or without one. *)
LEMMA Over ==
    ASSUME CalInv, NEW result \in {"ok", "failed"}, Finished(result)
    PROVE  FlowOK' /\ RequestedIsFocused'
BY LeaveTyped DEF Finished, CalInv, TypeOK, FlowOK

(* The point in sight is one of the group's. *)
LEMMA RawFocusIsPoint ==
    ASSUME FlowOK, SharedOK
    PROVE  RawFocus \in Points \cup {NoPoint}
<1> DEFINE live == Groups[group] \ calibrated
<1>1. live \subseteq Points
  BY PointsAre DEF FlowOK
<1>2. ASSUME live # {} PROVE (CHOOSE p \in live : TRUE) \in live
  BY <1>2
<1> QED
  BY <1>1, <1>2 DEF RawFocus, SharedOK

LEMMA ReshowTyped ==
    ASSUME CalInv, Reshow
    PROVE  FlowOK' /\ RequestedIsFocused'
<1>1. attempt' \in 0..(MaxAttempts - 1)
  BY Zeros DEF Reshow, CalInv, TypeOK, FlowOK
<1> QED
  BY <1>1 DEF Reshow, CalInv, TypeOK, FlowOK, RequestedIsFocused

(* The tick. *)
LEMMA TickSteps ==
    ASSUME CalInv, Tick
    PROVE  FlowStep
<1> USE DEF CalInv, TypeOK, FlowStep
<1>a. Send("abort", 0) => queue' \in Seq(Messages) /\ Len(queue') >= Len(queue)
  BY Sent, MessagesAre DEF SharedOK
<1>f. ASSUME focused # NoPoint, NEW op \in {"collect", "discard"}, Send(op, focused)
      PROVE  queue' \in Seq(Messages) /\ Len(queue') >= Len(queue)
  <2>1. <<op, focused>> \in Messages
    BY <1>f, MessagesAre DEF FlowOK
  <2> QED
    BY <1>f, <2>1, Sent DEF SharedOK
<1>t. /\ EndTick => snap' \in Cals /\ ticking' \in BOOLEAN
      /\ take_last_error => cal' \in Cals
  BY TickTyped
<1>q. queue \in Seq(Messages) /\ Len(queue) \in Nat /\ cal \in Cals /\ gaze \in Points \cup {NoPoint}
  BY DEF SharedOK
<1>1. CASE Snapshot
  BY <1>1 DEF Snapshot, SharedOK, FlowOK, flow, RequestedIsFocused
<1>2. CASE StartTimeout
  BY <1>2, <1>a, <1>t, <1>q, Over DEF StartTimeout, SharedOK
<1>3. CASE Started
  <2>1. FlowOK' /\ RequestedIsFocused'
    BY <1>3, PointsAre, Zeros DEF Started, Collecting, FlowOK, RequestedIsFocused
  <2> QED
    BY <1>3, <2>1, <1>t, <1>q DEF Started, SharedOK
<1>4. CASE StartFailed
  BY <1>4, <1>a, <1>t, <1>q, Over DEF StartFailed, SharedOK
<1>5. CASE Wait
  BY <1>5, <1>t, <1>q DEF Wait, SharedOK, FlowOK, flow, RequestedIsFocused
<1>6. CASE SessionFailed
  BY <1>6, <1>a, <1>t, <1>q, Over DEF SessionFailed, CollectingTick, SharedOK
<1>7. CASE Rejected
  <2>1. focused # NoPoint
    BY <1>7 DEF Rejected, Rejection, RequestedIsFocused
  <2>2. CASE Reshow /\ Send("discard", focused)
    BY <1>7, <2>1, <2>2, <1>f, <1>t, <1>q, ReshowTyped DEF Rejected, CollectingTick, SharedOK
  <2>3. CASE GiveUp
    BY <1>7, <2>3, <1>a, <1>t, <1>q, Over DEF Rejected, GiveUp, CollectingTick, SharedOK
  <2> QED
    BY <1>7, <2>2, <2>3 DEF Rejected
<1>8. CASE Captured
  <2>s. snap' \in Cals /\ ticking' \in BOOLEAN /\ cal' \in Cals /\ focused \in Points
    BY <1>8, <1>t DEF Captured, Reading, CollectingTick, FlowOK
  <2>1. CASE LastDone
    <3>1. FlowOK' /\ RequestedIsFocused'
      BY <1>8, <2>1, LeaveTyped DEF Captured, LastDone, FlowOK
    <3>2. queue' \in Seq(Messages) /\ Len(queue') >= Len(queue)
      BY <2>1, <1>q, Sent, MessagesAre DEF LastDone
    <3> QED
      BY <1>8, <2>s, <3>1, <3>2, <1>q DEF Captured, SharedOK
  <2>2. CASE NextGroup
    <3>0. group' \in DOMAIN Groups /\ calibrated' \subseteq Points
      BY <2>2, <2>s, PointsAre DEF NextGroup, Collecting, FlowOK
    <3>1. FlowOK' /\ RequestedIsFocused'
      BY <1>8, <2>2, <3>0, Zeros
      DEF Captured, NextGroup, Collecting, FlowOK, RequestedIsFocused
    <3>2. queue' \in Seq(Messages) /\ Len(queue') >= Len(queue)
      BY <2>2, <1>q, Sent, MessagesAre DEF NextGroup
    <3> QED
      BY <1>8, <2>s, <3>1, <3>2, <1>q DEF Captured, SharedOK
  <2>3. CASE /\ ~GroupDone
             /\ calibrated' = calibrated \cup {focused} /\ focused' = NoPoint /\ requested' = FALSE
             /\ UNCHANGED <<queue, phase, group, attempt, swallowed, asks>>
    <3>1. FlowOK' /\ RequestedIsFocused'
      BY <1>8, <2>3, <2>s DEF Captured, FlowOK, RequestedIsFocused
    <3> QED
      BY <1>8, <2>3, <2>s, <3>1, <1>q DEF Captured, SharedOK
  <2> QED
    BY <1>8, <2>1, <2>2, <2>3 DEF Captured
<1>9. CASE Unattributable
  <2>1. FlowOK' /\ RequestedIsFocused'
    BY <1>9 DEF Unattributable, FlowOK, RequestedIsFocused
  <2> QED
    BY <1>9, <2>1, <1>t, <1>q DEF Unattributable, Reading, CollectingTick, SharedOK
<1>10. CASE Focus
  <2>1. focused' \in Points \cup {NoPoint} /\ (requested => focused' = focused)
    BY <1>10, RawFocusIsPoint DEF Focus, FlowOK
  <2>2. FlowOK' /\ RequestedIsFocused'
    BY <1>10, <2>1 DEF Focus, FlowOK, RequestedIsFocused
  <2> QED
    BY <1>10, <2>2, <1>t, <1>q DEF Focus, Dwelling, Reading, CollectingTick, SharedOK
<1>11. CASE LostFocus
  <2>1. FlowOK' /\ RequestedIsFocused'
    BY <1>11 DEF LostFocus, FlowOK, RequestedIsFocused
  <2>2. queue' \in Seq(Messages) /\ Len(queue') >= Len(queue)
    BY <1>11, <1>f, <1>q DEF LostFocus, RequestedIsFocused
  <2> QED
    BY <1>11, <2>1, <2>2, <1>t, <1>q DEF LostFocus, Dwelling, Reading, CollectingTick, SharedOK
<1>12. CASE Settled
  <2>1. FlowOK' /\ RequestedIsFocused'
    BY <1>12, Zeros DEF Settled, FlowOK, RequestedIsFocused
  <2>2. queue' \in Seq(Messages) /\ Len(queue') >= Len(queue)
    BY <1>12, <1>f DEF Settled
  <2> QED
    BY <1>12, <2>1, <2>2, <1>t, <1>q DEF Settled, Dwelling, Reading, CollectingTick, SharedOK
<1>13. CASE Deadline
  <2>1. CASE Reshow /\ UNCHANGED queue
    BY <1>13, <2>1, <1>t, <1>q, ReshowTyped DEF Deadline, Dwelling, Reading, CollectingTick, SharedOK
  <2>2. CASE GiveUp
    BY <1>13, <2>2, <1>a, <1>t, <1>q, Over
    DEF Deadline, GiveUp, Dwelling, Reading, CollectingTick, SharedOK
  <2> QED
    BY <1>13, <2>1, <2>2 DEF Deadline
<1>14. CASE Computed
  BY <1>14, <1>t, <1>q, Over DEF Computed, SharedOK
<1>15. CASE ComputeTimeout
  BY <1>15, <1>a, <1>t, <1>q, Over DEF ComputeTimeout, SharedOK
<1> QED
  BY <1>1, <1>2, <1>3, <1>4, <1>5, <1>6, <1>7, <1>8, <1>9, <1>10, <1>11, <1>12, <1>13,
     <1>14, <1>15 DEF Tick

-----------------------------------------------------------------------------
(* What the device thread owes: the flow and its tick are left alone.        *)
DeviceStep ==
    /\ UNCHANGED <<flow, tick>>
    /\ queue' \in Seq(Messages) /\ cal' \in Cals /\ gaze' \in Points \cup {NoPoint}
    /\ DeviceOK' /\ TrackerOK' /\ RealmKnown' /\ RealmInSession'

LEMMA DeviceKeeps ==
    ASSUME CalInv, DeviceStep
    PROVE  CalInv'
BY DEF CalInv, TypeOK, DeviceStep, FlowOK, SharedOK, RequestedIsFocused, flow, tick

(* A request that is acked was done. *)
LEMMA OutcomesAre ==
    ASSUME NEW r, NEW o \in Outcomes(r)
    PROVE  o.done \in BOOLEAN /\ o.acked \in BOOLEAN /\ (o.acked => o.done)
<1>1. CASE o = Ack
  BY <1>1 DEF Ack
<1>2. CASE o \in [done : BOOLEAN, acked : {FALSE}]
  BY <1>2
<1> QED
  BY <1>1, <1>2 DEF Outcomes

(* A queue that is not empty has a first message, and a shorter rest. *)
LEMMA HeadTail ==
    ASSUME queue \in Seq(Messages), queue # <<>>
    PROVE  /\ Head(queue) \in Messages /\ Tail(queue) \in Seq(Messages)
           /\ Len(Tail(queue)) = Len(queue) - 1 /\ Len(queue) \in Nat \ {0}
OBVIOUS

(* Opening and closing the session. *)
LEMMA SessionSteps ==
    ASSUME CalInv,
           \/ IdleReset \/ TryOpen \/ OpenOk \/ OpenFails \/ FailQueued \/ BackOff
           \/ Dequeue \/ Drained \/ Read \/ Watchdog \/ LingerOver
    PROVE  DeviceStep
<1> USE DEF CalInv, TypeOK, SharedOK, DeviceStep, RealmKnown, RealmInSession
<1>q. Len(queue) \in Nat
  OBVIOUS
<1>1. CASE IdleReset
  BY <1>1, CalPhaseTyped DEF IdleReset, DeviceOK, TrackerOK, tracker, Down
<1>2. CASE TryOpen
  BY <1>2, <1>q DEF TryOpen, DeviceOK, TrackerOK, tracker, Down, Commands
<1>3. CASE OpenOk
  <2>1. ~realm' /\ TrackerOK'
    BY <1>3 DEF OpenOk, TrackerOK, Down
  <2>2. taken' = 0 /\ taken' \in 0..Len(queue')
    BY <1>3, <1>q DEF OpenOk
  <2>3. DeviceOK'
    BY <1>3, <2>2 DEF OpenOk, DeviceOK, Down, Commands
  <2> QED
    BY <1>3, <2>1, <2>3 DEF OpenOk
<1>4. CASE OpenFails
  BY <1>4 DEF OpenFails, DeviceOK, TrackerOK, tracker, Down, Commands
<1>5. CASE FailQueued
  <2>1. queue # <<>> /\ Len(Tail(queue)) = Len(queue) - 1 /\ queue' \in Seq(Messages)
    BY <1>5, HeadTail DEF FailQueued, DeviceOK
  <2>2. cal' \in Cals
    <3>1. Head(queue)[1] = "begin" => Head(queue)[2] \in 0..MaxRuns
      BY <2>1, HeadTail, MessagesAre, Zeros
    <3> QED
      BY <1>5, <3>1, CalPhaseTyped DEF FailQueued
  <2>3. taken' \in 0..Len(queue')
    BY <1>5, <2>1, <1>q DEF FailQueued, DeviceOK
  <2> QED
    BY <1>5, <2>1, <2>2, <2>3 DEF FailQueued, DeviceOK, TrackerOK, tracker, Down, Commands
<1>6. CASE BackOff
  BY <1>6 DEF BackOff, DeviceOK, TrackerOK, tracker, Down, Commands
<1>7. CASE Dequeue
  <2>1. /\ Head(queue) \in Messages /\ queue' \in Seq(Messages) /\ Len(queue') \in Nat
    BY <1>7, HeadTail DEF Dequeue
  <2>2. /\ dev' \in Commands /\ arg' \in Nat /\ <<dev', arg'>> \in Messages
        /\ dev' = "begin" => arg' \in 0..MaxRuns
    <3> DEFINE m == Head(queue)
    <3>0. /\ m[1] \in Commands /\ m[2] \in Nat /\ m = <<m[1], m[2]>>
          /\ m[1] = "begin" => m[2] \in 1..MaxRuns
      BY <2>1, MessagesAre
    <3>1. /\ <<m[1], m[2]>> \in Messages
          /\ m[1] = "begin" => m[2] \in 0..MaxRuns
      BY <2>1, <3>0, Zeros
    <3> QED
      BY <1>7, <3>0, <3>1 DEF Dequeue
  <2>3. cal' \in Cals
    BY <1>7, <2>2, CalPhaseTyped DEF Dequeue
  <2>4. dev' \notin Down /\ taken' = 0
    BY <1>7, <2>2 DEF Dequeue, DeviceOK, Down, Commands
  <2> QED
    BY <1>7, <2>1, <2>2, <2>3, <2>4 DEF Dequeue, DeviceOK, TrackerOK, tracker
<1>8. CASE Drained
  BY <1>8 DEF Drained, DeviceOK, TrackerOK, tracker, Down, Commands
<1>9. CASE Read
  BY <1>9 DEF Read, DeviceOK, TrackerOK, tracker, Down, Commands
<1>10. CASE Watchdog \/ LingerOver
  <2>1. CloseSession /\ drops' \in 0..MaxDrops
    BY <1>10, Zeros DEF Watchdog, LingerOver, DeviceOK
  <2> QED
    BY <2>1 DEF CloseSession, DeviceOK, TrackerOK, Down, Commands
<1> QED
  BY <1>1, <1>2, <1>3, <1>4, <1>5, <1>6, <1>7, <1>8, <1>9, <1>10

(* The commands.  Each leaves the session up; only an acked stop, with a     *)
(* realm that is closed by it, lets the flag go.                             *)
LEMMA CommandSteps ==
    ASSUME CalInv,
           CalBegin \/ CalCollect \/ CalDiscard \/ CalComputeGroup \/ CalFinish \/ CalAbort
    PROVE  DeviceStep
<1> USE DEF CalInv, TypeOK, SharedOK, DeviceStep
<1>r. ASSUME Ran, dev \in Commands, open' \in BOOLEAN PROVE DeviceOK' /\ dev' \notin Down
  BY <1>r DEF Ran, DeviceOK, Down, Commands
<1>d. dev \in Commands => dev \notin Down
  BY DEF Commands, Down
<1>1. CASE CalBegin
  <2>1. PICK s \in Outcomes("start"), c \in Outcomes("clear"), seeded \in BOOLEAN :
          LET cleared == s.acked /\ c.done
              ok      == s.acked /\ c.acked
          IN /\ realm' = (realm \/ s.done)
             /\ held' = IF cleared THEN {} ELSE held
             /\ model' = IF cleared /\ ~(ok /\ seeded) THEN "none" ELSE model
             /\ cal' = IF ok THEN [cal EXCEPT !.started = TRUE] ELSE on_finish(cal, "err")
    BY <1>1 DEF CalBegin
  <2>2. [cal EXCEPT !.started = TRUE] \in Cals
    BY DEF Cals
  <2>3. cal' \in Cals
    BY <2>1, <2>2, CalPhaseTyped
  <2>4. realm' \in BOOLEAN
    BY <2>1
  <2>5. TrackerOK'
    BY <1>1, <2>1, <2>4 DEF CalBegin, TrackerOK
  <2> QED
    BY <1>1, <2>3, <2>5, <1>r DEF CalBegin, Ran, Commands, RealmKnown, RealmInSession
<1>2. CASE CalCollect
  <2>1. PICK a \in Outcomes("add") :
          /\ held' = IF a.done /\ realm THEN held \cup {arg} ELSE held
          /\ cal' = on_collect(cal, a.acked)
    BY <1>2 DEF CalCollect
  <2>2. arg \in Points
    BY <1>2, MessagesAre DEF CalCollect, DeviceOK, Commands
  <2>3. cal' \in Cals
    BY <2>1, CalPhaseTyped, OutcomesAre
  <2>4. TrackerOK'
    BY <1>2, <2>1, <2>2 DEF CalCollect, TrackerOK
  <2> QED
    BY <1>2, <2>3, <2>4, <1>r DEF CalCollect, Ran, Commands, RealmKnown, RealmInSession, DeviceOK
<1>3. CASE CalDiscard
  <2>1. TrackerOK'
    BY <1>3 DEF CalDiscard, TrackerOK
  <2> QED
    BY <1>3, <2>1, <1>r DEF CalDiscard, Ran, Commands, RealmKnown, RealmInSession, DeviceOK
<1>4. CASE CalComputeGroup
  <2>1. TrackerOK'
    BY <1>4 DEF CalComputeGroup, TrackerOK
  <2>2. cal' \in Cals
    BY <1>4, CalPhaseTyped DEF CalComputeGroup
  <2> QED
    BY <1>4, <2>1, <2>2, <1>r
    DEF CalComputeGroup, Ran, Commands, RealmKnown, RealmInSession, DeviceOK
<1>5. CASE CalFinish
  <2>1. PICK c \in Outcomes("compute"), s \in Outcomes("stop"), r \in Outcomes("retrieve"),
             w \in Outcomes("save") :
          LET ok == c.acked /\ r.acked /\ w.acked
          IN /\ realm' = (realm /\ ~s.done)
             /\ open' = (open /\ ~s.acked)
             /\ model' = IF ok THEN "saved" ELSE IF c.done THEN "session" ELSE model
             /\ disk' = IF ok THEN [run |-> cal.token, points |-> held] ELSE disk
             /\ cal' = on_finish(cal, IF ok THEN "ok" ELSE "err")
    BY <1>5 DEF CalFinish
  <2>2. cal' \in Cals /\ cal.token \in 0..MaxRuns
    BY <2>1, CalPhaseTyped DEF Cals
  <2>3. [run |-> cal.token, points |-> held] \in [run : 0..MaxRuns, points : SUBSET Points]
    BY <2>2 DEF TrackerOK
  <2>4. realm' \in BOOLEAN /\ open' \in BOOLEAN
    BY <2>1
  <2>5. TrackerOK'
    BY <1>5, <2>1, <2>3, <2>4 DEF CalFinish, TrackerOK
  <2>6. s.acked => s.done
    BY OutcomesAre
  <2>7. RealmKnown'
    BY <2>1, <2>6 DEF RealmKnown
  <2> QED
    BY <1>5, <2>2, <2>4, <2>5, <2>7, <1>r DEF CalFinish, Ran, Commands, RealmInSession
<1>6. CASE CalAbort
  <2>1. PICK s \in Outcomes("stop"), a \in Outcomes("apply") :
          /\ realm' = (realm /\ ~(open /\ s.done))
          /\ open' = (open /\ ~s.acked)
          /\ model' = IF open /\ Blob /\ a.done THEN "saved" ELSE model
    BY <1>6 DEF CalAbort
  <2>2. realm' \in BOOLEAN /\ open' \in BOOLEAN
    BY <2>1
  <2>3. TrackerOK'
    BY <1>6, <2>1, <2>2 DEF CalAbort, TrackerOK
  <2>4. s.acked => s.done
    BY OutcomesAre
  <2>5. RealmKnown'
    BY <2>1, <2>4 DEF RealmKnown
  <2> QED
    BY <1>6, <2>2, <2>3, <2>5, <1>r, CalPhaseTyped DEF CalAbort, Ran, Commands, RealmInSession
<1> QED
  BY <1>1, <1>2, <1>3, <1>4, <1>5, <1>6

-----------------------------------------------------------------------------
LEMMA InitInv == Init => CalInv
<1> SUFFICES ASSUME Init PROVE CalInv
  OBVIOUS
<1>1. /\ phase = "closed" /\ token = 0 /\ group = 1 /\ calibrated = {} /\ focused = NoPoint
      /\ requested = FALSE /\ attempt = 0 /\ swallowed = 0 /\ opened = 0 /\ minted = 0 /\ asks = 0
  BY DEF Init
<1>2. FlowOK /\ RequestedIsFocused
  <2>1. token \in 0..minted /\ group \in DOMAIN Groups
    BY <1>1, PointsAre
  <2>2. opened \in 0..MaxRuns /\ minted \in 0..MaxRuns /\ asks \in 0..MaxAsks
        /\ attempt \in 0..(MaxAttempts - 1)
    BY <1>1, Zeros
  <2> QED
    BY <1>1, <2>1, <2>2 DEF FlowOK, RequestedIsFocused
<1>3. SharedOK /\ queue = <<>>
  <2>1. queue = <<>> /\ snap = NoCal /\ cal = NoCal /\ ticking = FALSE /\ gaze = NoPoint
    BY DEF Init
  <2>2. <<>> \in Seq(Messages)
    OBVIOUS
  <2> QED
    BY <2>1, <2>2, CalPhaseTyped DEF SharedOK
<1>4. DeviceOK
  <2>1. dev = "closed" /\ arg = 0 /\ taken = 0 /\ open = FALSE /\ drops = 0
    BY DEF Init
  <2>2. taken \in 0..Len(queue) /\ drops \in 0..MaxDrops
    BY <1>3, <2>1, Zeros
  <2> QED
    BY <2>1, <2>2 DEF DeviceOK, Down, Commands
<1>5. TrackerOK
  BY Zeros DEF Init, TrackerOK
<1> QED
  BY <1>2, <1>3, <1>4, <1>5 DEF Init, CalInv, TypeOK, RealmKnown, RealmInSession

LEMMA NextInv == CalInv /\ [Next]_vars => CalInv'
<1> SUFFICES ASSUME CalInv, [Next]_vars PROVE CalInv'
  OBVIOUS
<1>1. CASE Launch \/ Begin \/ Close
  BY <1>1, WindowSteps, FlowKeeps DEF FlowStep
<1>2. CASE Tick
  BY <1>2, TickSteps, FlowKeeps DEF FlowStep
<1>3. CASE Device \/ Watchdog \/ LingerOver
  BY <1>3, SessionSteps, CommandSteps, DeviceKeeps DEF Device
<1>4. CASE UNCHANGED vars
  BY <1>4 DEF vars, flow, tick, thread, tracker, CalInv, TypeOK, FlowOK, SharedOK, DeviceOK,
              TrackerOK, RequestedIsFocused, RealmKnown, RealmInSession
<1> QED
  BY <1>1, <1>2, <1>3, <1>4 DEF Next

(* The inductive invariant holds of every behaviour of flow, device thread   *)
(* and tracker.                                                              *)
THEOREM CalInvHolds == Spec => []CalInv
BY InitInv, NextInv, PTL DEF Spec

(* Every command the flow queues is one apply_command can run, and every     *)
(* counter stays within its bound: the retry budget is never overdrawn.      *)
THEOREM CalTyped == Spec => []TypeOK
BY CalInvHolds, PTL DEF CalInv

(* The mid-collect discard always has a point to discard: the `expect` of    *)
(* calibrate_flow.rs does not panic.                                         *)
THEOREM CalNoPanic == Spec => []RequestedIsFocused
BY CalInvHolds, PTL DEF CalInv

(* cal_session_open is true whenever the tracker is in a calibration realm,  *)
(* whichever requests went unanswered: an abort always tries to stop it.     *)
THEOREM CalRealmKnown == Spec => []RealmKnown
BY CalInvHolds, PTL DEF CalInv

-----------------------------------------------------------------------------
(* The flow and its own session.  What is sent goes behind what is queued.   *)
LEMMA QueueGrows ==
    ASSUME queue \in Seq(Messages), NEW op, NEW a, <<op, a>> \in Messages, Send(op, a)
    PROVE  /\ Len(queue) \in Nat /\ DOMAIN queue = 1..Len(queue) /\ DOMAIN queue' = 1..(Len(queue) + 1)
           /\ \A i \in 1..Len(queue) : queue'[i] = queue[i]
           /\ queue'[Len(queue) + 1] = <<op, a>>
BY DEF Send

LEMMA QueueShrinks ==
    ASSUME queue \in Seq(Messages), queue # <<>>, queue' = Tail(queue)
    PROVE  /\ Len(queue) \in Nat \ {0} /\ DOMAIN queue = 1..Len(queue) /\ DOMAIN queue' = 1..(Len(queue) - 1)
           /\ \A i \in 1..(Len(queue) - 1) : queue'[i] = queue[i + 1]
           /\ Head(queue) = queue[1]
BY DEF Messages

(* A tick leaves the session's commands as they are, and only its own        *)
(* snapshot can have told it that the session has begun.                     *)
SessionStays ==
    /\ UNCHANGED <<token, minted, thread, tracker>>
    /\ cal' \in {cal, [cal EXCEPT !.error = FALSE]}
    /\ \/ queue' = queue
       \/ \E op \in {"collect", "discard", "compute", "finish"}, a \in Nat :
            <<op, a>> \in Messages /\ Send(op, a)

LEMMA QueuedStays ==
    ASSUME CalInv, SessionStays
    PROVE  /\ \A i \in DOMAIN queue : i \in DOMAIN queue' /\ queue'[i] = queue[i]
           /\ \A i \in DOMAIN queue' :
                i \in DOMAIN queue \/ queue'[i][1] \in {"collect", "discard", "compute", "finish"}
<1>1. queue \in Seq(Messages)
  BY DEF CalInv, TypeOK, SharedOK
<1>2. CASE queue' = queue
  BY <1>2
<1>3. ASSUME NEW op \in {"collect", "discard", "compute", "finish"}, NEW a \in Nat,
             <<op, a>> \in Messages, Send(op, a)
      PROVE  /\ \A i \in DOMAIN queue : i \in DOMAIN queue' /\ queue'[i] = queue[i]
             /\ \A i \in DOMAIN queue' :
                  i \in DOMAIN queue \/ queue'[i][1] \in {"collect", "discard", "compute", "finish"}
  BY <1>1, <1>3, QueueGrows
<1> QED BY <1>2, <1>3 DEF SessionStays

LEMMA CalStays ==
    ASSUME CalInv, cal' \in {cal, [cal EXCEPT !.error = FALSE]}
    PROVE  cal'.token = cal.token /\ cal'.collected = cal.collected /\ cal'.finished = cal.finished
BY DEF CalInv, TypeOK, SharedOK, Cals

LEMMA TokensStay ==
    ASSUME CalInv, Tokens, SessionStays, ~ticking' => snap' = NoCal
    PROVE  Tokens'
<1>1. cal'.token = cal.token /\ cal'.finished = cal.finished
  BY CalStays DEF SessionStays
<1>2. \A i \in DOMAIN queue' : queue'[i][1] = "begin" => queue'[i][2] <= minted'
  BY QueuedStays DEF Tokens, SessionStays
<1> QED BY <1>1, <1>2 DEF Tokens, SessionStays, tracker

LEMMA TakenUpStays ==
    ASSUME CalInv, Tokens, TakenUp, SessionStays, snap' \in {snap, cal, NoCal}
    PROVE  TakenUp'
<1>1. cal'.token = cal.token /\ cal'.collected = cal.collected
  BY CalStays DEF SessionStays
<1>2. \A i \in DOMAIN queue' : queue'[i][1] \notin {"begin", "abort"}
  BY QueuedStays DEF TakenUp
<1>3. snap'.token = token => snap'.collected <= cal.collected
  <2>1. cal.collected \in Nat /\ NoCal.collected = 0
    BY DEF CalInv, TypeOK, SharedOK, Cals, NoCal
  <2> QED BY <2>1 DEF TakenUp
<1>4. snap'.token = token /\ snap'.finished = "ok" => disk.run = token
  BY DEF TakenUp, Tokens, NoCal
<1> QED BY <1>1, <1>2, <1>3, <1>4 DEF TakenUp, SessionStays, thread, tracker

LEMMA ToComeStays ==
    ASSUME CalInv, Tokens, ToCome, SessionStays, snap' \in {snap, cal, NoCal}
    PROVE  ToCome'
<1>1. cal'.token = cal.token /\ cal.token \in Nat /\ NoCal.token = 0 /\ token \in Nat
  BY CalStays, Zeros DEF SessionStays, CalInv, TypeOK, SharedOK, FlowOK, Cals, NoCal
<1>2. PICK i \in DOMAIN queue :
         /\ queue[i] = <<"begin", token>>
         /\ \A j \in DOMAIN queue : queue[j][1] \in {"begin", "abort"} => j <= i
         /\ \A j \in DOMAIN queue : j # i /\ queue[j][1] = "begin" => queue[j][2] < token
  BY DEF ToCome
<1>3. i \in DOMAIN queue' /\ queue'[i] = <<"begin", token>>
  BY <1>2, QueuedStays
<1>4. /\ \A j \in DOMAIN queue' : queue'[j][1] \in {"begin", "abort"} => j <= i
      /\ \A j \in DOMAIN queue' : j # i /\ queue'[j][1] = "begin" => queue'[j][2] < token
  BY <1>2, QueuedStays
<1>5. cal'.token < token' /\ snap'.token < token' /\ token' = token
  BY <1>1 DEF ToCome, SessionStays
<1> QED BY <1>3, <1>4, <1>5 DEF ToCome

(* A session that goes on. *)
LEMMA GoesOn ==
    ASSUME CalInv, SessionInv, SessionStays, snap' \in {snap, cal, NoCal}, ~ticking' => snap' = NoCal,
           phase' \in {"starting", "collecting", "computing"},
           phase' = "starting" => phase = "starting", phase' # "starting" => TakenUp, AcksAccounted'
    PROVE  SessionInv'
<1>1. Tokens'
  BY TokensStay DEF SessionInv
<1>2. phase' = "starting" => ToCome' \/ TakenUp'
  BY ToComeStays, TakenUpStays DEF SessionInv
<1>3. phase' # "starting" => TakenUp'
  BY TakenUpStays DEF SessionInv
<1> QED BY <1>1, <1>2, <1>3 DEF SessionInv, OkIsSaved

(* A session that is given up, with an abort behind it or without one. *)
LEMMA IsLeft ==
    ASSUME CalInv, SessionInv, phase' \in {"closed", "preview", "failed"},
           UNCHANGED <<token, minted, thread, tracker>>,
           cal' \in {cal, [cal EXCEPT !.error = FALSE]}, queue' = queue \/ Send("abort", 0),
           ~ticking' => snap' = NoCal
    PROVE  SessionInv'
<1>1. cal'.token = cal.token /\ cal'.finished = cal.finished
  BY CalStays
<1>2. \A i \in DOMAIN queue' : queue'[i][1] = "begin" => queue'[i][2] <= minted
  <2>1. CASE queue' = queue
    BY <2>1 DEF SessionInv, Tokens
  <2>2. CASE Send("abort", 0)
    BY <2>2, QueueGrows, MessagesAre DEF SessionInv, Tokens, CalInv, TypeOK, SharedOK
  <2> QED BY <2>1, <2>2
<1>3. Tokens'
  BY <1>1, <1>2 DEF SessionInv, Tokens, tracker
<1> QED BY <1>3 DEF SessionInv, AcksAccounted, OkIsSaved

LEMMA WindowSession ==
    ASSUME CalInv, SessionInv, Launch \/ Begin \/ Close
    PROVE  SessionInv'
<1>1. CASE Launch
  BY <1>1, IsLeft DEF Launch, Leave, tick, SessionInv, Tokens
<1>2. CASE Close
  BY <1>2, IsLeft DEF Close, Leave, tick, SessionInv, Tokens
<1>3. CASE Begin
  <2>1. /\ token' = minted + 1 /\ minted' = minted + 1 /\ phase' = "starting" /\ minted \in Nat
        /\ cal' = cal /\ snap' = NoCal /\ ticking' = ticking /\ disk' = disk /\ Send("begin", token')
        /\ token' \in 1..MaxRuns
    BY <1>3, Zeros DEF Begin, Leave, tick, tracker, SessionInv, Tokens, CalInv, TypeOK, FlowOK
  <2>2. queue \in Seq(Messages) /\ cal.token \in Nat /\ NoCal.token = 0
    BY DEF CalInv, TypeOK, SharedOK, Cals, NoCal
  <2>3. /\ Len(queue) \in Nat /\ DOMAIN queue = 1..Len(queue) /\ DOMAIN queue' = 1..(Len(queue) + 1)
        /\ \A i \in 1..Len(queue) : queue'[i] = queue[i]
        /\ queue'[Len(queue) + 1] = <<"begin", token'>>
    BY <2>1, <2>2, QueueGrows, MessagesAre
  <2>4. \A i \in 1..Len(queue) : queue[i][2] \in Nat /\ (queue[i][1] = "begin" => queue[i][2] <= minted)
    BY <2>2, <2>3, MessagesAre DEF SessionInv, Tokens
  <2>5. Tokens'
    BY <2>1, <2>2, <2>3, <2>4 DEF SessionInv, Tokens
  <2>6. ToCome'
    <3>1. Len(queue) + 1 \in DOMAIN queue'
      BY <2>3
    <3>2. cal'.token < token' /\ snap'.token < token'
      BY <2>1, <2>2 DEF SessionInv, Tokens
    <3>3. \A j \in DOMAIN queue' : j <= Len(queue) + 1
      BY <2>3
    <3>4. \A j \in DOMAIN queue' : j # Len(queue) + 1 /\ queue'[j][1] = "begin" => queue'[j][2] < token'
      BY <2>1, <2>3, <2>4
    <3> QED BY <2>3, <3>1, <3>2, <3>3, <3>4 DEF ToCome
  <2> QED BY <2>1, <2>5, <2>6 DEF SessionInv, AcksAccounted, OkIsSaved
<1> QED BY <1>1, <1>2, <1>3

(* A captured point is one more to account for. *)
LEMMA OneMore ==
    ASSUME CalInv, TakenUp, snap.token = token, Advance, focused # NoPoint
    PROVE  /\ Cardinality(calibrated \cup {focused}) + swallowed <= cal.collected
           /\ accounted + 1 <= cal.collected /\ accounted \in Nat
<1>1. IsFiniteSet(calibrated) /\ Cardinality(calibrated) \in Nat /\ swallowed \in Nat
  BY CalibrationAssumption, FS_Subset, FS_CardinalityType DEF CalibrationAssumption, CalInv, TypeOK, FlowOK
<1>2. Cardinality(calibrated \cup {focused}) \in {Cardinality(calibrated), Cardinality(calibrated) + 1}
  BY <1>1, FS_AddElement
<1>3. snap.collected \in Nat /\ cal.collected \in Nat /\ snap.collected <= cal.collected
  BY DEF CalInv, TypeOK, SharedOK, Cals, TakenUp
<1> QED BY <1>1, <1>2, <1>3 DEF Advance, accounted

(* The point in sight is one that is not captured yet. *)
LEMMA RawFocusIsNew ==
    ASSUME CalInv
    PROVE  RawFocus \notin calibrated /\ NoPoint \notin calibrated
<1> DEFINE live == Groups[group] \ calibrated
<1>1. NoPoint \notin calibrated
  BY PointsAre DEF CalInv, TypeOK, FlowOK
<1>2. ASSUME live # {} PROVE (CHOOSE p \in live : TRUE) \in live
  BY <1>2
<1> QED BY <1>1, <1>2 DEF RawFocus

(* The tick. *)
LEMMA TickSession ==
    ASSUME CalInv, SessionInv, Tick
    PROVE  SessionInv'
<1>t. /\ EndTick => snap' = NoCal
      /\ take_last_error => cal' \in {cal, [cal EXCEPT !.error = FALSE]}
  BY DEF EndTick, take_last_error
<1>f. ASSUME focused # NoPoint PROVE focused \in Points /\ focused \in Nat
  BY <1>f, PointsAre DEF CalInv, TypeOK, FlowOK
<1>m. /\ \A op \in {"compute", "finish"} : <<op, 0>> \in Messages
      /\ \A op \in {"collect", "discard"}, p \in Points : <<op, p>> \in Messages
  BY MessagesAre
<1>1. CASE Snapshot
  BY <1>1, GoesOn DEF Snapshot, SessionStays, flow, SessionInv, AcksAccounted, accounted
<1>2. CASE StartTimeout \/ StartFailed \/ ComputeTimeout
  BY <1>2, <1>t, IsLeft DEF StartTimeout, StartFailed, ComputeTimeout, Finished, Leave
<1>3. CASE Started
  <2>1. phase = "starting" /\ phase' = "collecting" /\ calibrated' = {} /\ swallowed' = 0
        /\ focused' = NoPoint /\ snap.token = token
    BY <1>3 DEF Started, Collecting, NotStarted
  <2>2. TakenUp
    <3>1. ~ToCome
      BY <2>1 DEF ToCome, CalInv, TypeOK, FlowOK, SharedOK, Cals
    <3> QED BY <2>1, <3>1 DEF SessionInv
  <2>3. AcksAccounted'
    <3>1. cal' = cal /\ cal.collected \in Nat
      BY <1>3 DEF Started, CalInv, TypeOK, SharedOK, Cals
    <3>2. accounted' = 0
      BY <2>1, FS_EmptySet DEF accounted
    <3> QED BY <2>1, <3>1, <3>2 DEF AcksAccounted
  <2> QED BY <1>3, <1>t, <2>1, <2>2, <2>3, GoesOn DEF Started, SessionStays
<1>4. CASE Wait
  BY <1>4, <1>t, GoesOn DEF Wait, SessionStays, flow, SessionInv, AcksAccounted
<1>5. CASE SessionFailed
  BY <1>5, <1>t, IsLeft DEF SessionFailed, CollectingTick, Finished, Leave
<1>6. ASSUME phase = "collecting", UNCHANGED <<phase, calibrated, swallowed>>, focused' \notin calibrated,
             SessionStays, snap' = NoCal
      PROVE  SessionInv'
  <2>1. AcksAccounted'
    BY <1>6, CalStays DEF SessionInv, AcksAccounted, accounted, SessionStays
  <2> QED BY <1>6, <2>1, GoesOn DEF SessionInv
<1>7. CASE Rejected
  <2>1. CASE GiveUp
    BY <1>7, <1>t, <2>1, IsLeft DEF Rejected, GiveUp, CollectingTick, Finished, Leave
  <2>2. CASE Reshow /\ Send("discard", focused)
    <3>1. focused # NoPoint /\ focused \notin calibrated /\ phase = "collecting"
      BY <1>7 DEF Rejected, Rejection, CollectingTick, CalInv, RequestedIsFocused, SessionInv, AcksAccounted
    <3>2. SessionStays
      BY <1>7, <1>t, <1>f, <1>m, <2>2, <3>1 DEF Rejected, Reshow, CollectingTick, SessionStays
    <3> QED BY <1>6, <1>7, <1>t, <2>2, <3>1, <3>2 DEF Rejected, Reshow, CollectingTick
  <2> QED BY <1>7, <2>1, <2>2 DEF Rejected
<1>8. CASE Captured
  <2>1. /\ phase = "collecting" /\ TakenUp /\ snap.token = token /\ Advance /\ focused # NoPoint
        /\ snap' = NoCal /\ cal' \in {cal, [cal EXCEPT !.error = FALSE]}
        /\ UNCHANGED <<token, minted, thread, tracker>>
    BY <1>8, <1>t DEF Captured, Reading, CollectingTick, SessionInv
  <2>2. cal'.collected = cal.collected
    BY <2>1, CalStays
  <2>3. CASE LastDone
    <3>1. SessionStays
      BY <1>m, <2>1, <2>3 DEF LastDone, SessionStays
    <3> QED BY <2>1, <2>3, <3>1, GoesOn DEF LastDone, Leave, AcksAccounted
  <2>4. ASSUME phase' = "collecting", calibrated' = calibrated \cup {focused}, swallowed' = swallowed,
               focused' = NoPoint, SessionStays
        PROVE  SessionInv'
    <3>1. accounted' = Cardinality(calibrated \cup {focused}) + swallowed
      BY <2>4 DEF accounted
    <3>2. NoPoint \notin calibrated'
      BY <2>1, <2>4, RawFocusIsNew
    <3>3. AcksAccounted'
      BY <2>1, <2>2, <2>4, <3>1, <3>2, OneMore DEF AcksAccounted
    <3> QED BY <2>1, <2>4, <3>3, GoesOn
  <2>5. CASE NextGroup
    <3>1. SessionStays
      BY <1>m, <2>1, <2>5 DEF NextGroup, SessionStays
    <3> QED BY <2>4, <2>5, <3>1 DEF NextGroup, Collecting
  <2>6. CASE /\ ~GroupDone
             /\ calibrated' = calibrated \cup {focused} /\ focused' = NoPoint /\ requested' = FALSE
             /\ UNCHANGED <<queue, phase, group, attempt, swallowed, asks>>
    <3>1. SessionStays
      BY <2>1, <2>6 DEF SessionStays
    <3> QED BY <2>1, <2>4, <2>6, <3>1
  <2> QED BY <1>8, <2>3, <2>5, <2>6 DEF Captured
<1>9. CASE Unattributable
  <2>1. /\ phase = "collecting" /\ phase' = phase /\ snap.token = token /\ Advance /\ focused' = focused
        /\ calibrated' = calibrated /\ swallowed' = swallowed + 1 /\ TakenUp /\ snap' = NoCal /\ SessionStays
    BY <1>9, <1>t DEF Unattributable, Reading, CollectingTick, SessionInv, SessionStays
  <2>2. accounted' <= cal'.collected
    <3>1. cal'.collected = cal.collected /\ snap.collected \in Nat /\ cal.collected \in Nat
          /\ snap.collected <= cal.collected
      BY <2>1, CalStays DEF CalInv, TypeOK, SharedOK, Cals, TakenUp, SessionStays
    <3>2. Cardinality(calibrated) \in Nat /\ swallowed \in Nat
      BY CalibrationAssumption, FS_Subset, FS_CardinalityType
      DEF CalibrationAssumption, CalInv, TypeOK, FlowOK
    <3>3. accounted' = Cardinality(calibrated) + (swallowed + 1)
      BY <2>1 DEF accounted
    <3> QED BY <2>1, <3>1, <3>2, <3>3 DEF Advance, accounted
  <2>3. AcksAccounted'
    BY <2>1, <2>2 DEF SessionInv, AcksAccounted
  <2> QED BY <2>1, <2>3, GoesOn
<1>10. CASE Focus
  <2>1. focused' \notin calibrated
    BY <1>10, RawFocusIsNew DEF Focus, Dwelling, Reading, CollectingTick, SessionInv, AcksAccounted
  <2>2. SessionStays
    BY <1>10, <1>t DEF Focus, Dwelling, Reading, CollectingTick, SessionStays
  <2> QED BY <1>6, <1>10, <1>t, <2>1, <2>2 DEF Focus, Dwelling, Reading, CollectingTick
<1>11. CASE LostFocus
  <2>1. focused # NoPoint /\ focused \notin calibrated
    BY <1>11 DEF LostFocus, Dwelling, Reading, CollectingTick, CalInv, RequestedIsFocused, SessionInv,
                 AcksAccounted
  <2>2. SessionStays
    BY <1>11, <1>t, <1>f, <1>m, <2>1 DEF LostFocus, Dwelling, Reading, CollectingTick, SessionStays
  <2> QED BY <1>6, <1>11, <1>t, <2>1, <2>2 DEF LostFocus, Dwelling, Reading, CollectingTick
<1>12. CASE Settled
  <2>1. focused # NoPoint /\ focused \notin calibrated
    BY <1>12 DEF Settled, Dwelling, Reading, CollectingTick, SessionInv, AcksAccounted
  <2>2. SessionStays
    BY <1>12, <1>t, <1>f, <1>m, <2>1 DEF Settled, Dwelling, Reading, CollectingTick, SessionStays
  <2> QED BY <1>6, <1>12, <1>t, <2>1, <2>2 DEF Settled, Dwelling, Reading, CollectingTick
<1>13. CASE Deadline
  <2>1. CASE GiveUp
    BY <1>13, <1>t, <2>1, IsLeft DEF Deadline, GiveUp, Dwelling, Reading, CollectingTick, Finished, Leave
  <2>2. CASE Reshow /\ UNCHANGED queue
    <3>1. focused \notin calibrated /\ phase = "collecting" /\ SessionStays /\ snap' = NoCal
      BY <1>13, <1>t, <2>2 DEF Deadline, Reshow, Dwelling, Reading, CollectingTick, SessionStays, SessionInv,
                               AcksAccounted
    <3> QED BY <1>6, <2>2, <3>1 DEF Reshow
  <2> QED BY <1>13, <2>1, <2>2 DEF Deadline
<1>14. CASE Computed
  <2>1. CASE snap.finished = "ok"
    <3>1. /\ SessionStays /\ snap' = NoCal /\ phase' = "ok" /\ TakenUp /\ disk.run = token
          /\ UNCHANGED <<token, disk>>
      BY <1>14, <1>t, <2>1 DEF Computed, Finished, Leave, SessionStays, SessionInv, TakenUp, tracker
    <3>2. Tokens' /\ TakenUp'
      BY <3>1, TokensStay, TakenUpStays DEF SessionInv
    <3> QED BY <3>1, <3>2 DEF SessionInv, AcksAccounted, OkIsSaved
  <2>2. CASE snap.finished # "ok"
    BY <1>14, <1>t, <2>2, IsLeft DEF Computed, Finished, Leave
  <2> QED BY <2>1, <2>2
<1> QED BY <1>1, <1>2, <1>3, <1>4, <1>5, <1>7, <1>8, <1>9, <1>10, <1>11, <1>12, <1>13, <1>14 DEF Tick

-----------------------------------------------------------------------------
(* The device thread between two commands, and at one that leaves the        *)
(* session's CalPhase in place.                                              *)
LEMMA ThreadStays ==
    ASSUME CalInv, SessionInv, UNCHANGED <<flow, tick, queue>>, dev' # "abort",
           cal'.token = cal.token, cal'.collected \in Nat, cal'.collected >= cal.collected,
           cal'.finished = "ok" => disk'.run = cal.token,
           disk' = disk \/ disk'.run = cal.token
    PROVE  SessionInv'
<1>1. UNCHANGED <<phase, token, minted, calibrated, focused, swallowed, snap, ticking, queue>>
  BY DEF flow, tick
<1>2. Tokens'
  BY <1>1 DEF SessionInv, Tokens
<1>3. TakenUp => TakenUp' /\ (disk.run = token => disk'.run = token)
  <2>1. snap.collected \in Nat /\ cal.collected \in Nat
    BY DEF CalInv, TypeOK, SharedOK, Cals
  <2> QED BY <1>1, <2>1 DEF TakenUp
<1>4. ToCome => ToCome'
  BY <1>1 DEF ToCome
<1>5. AcksAccounted'
  <2>1. cal.collected \in Nat /\ accounted' = accounted
    BY <1>1 DEF CalInv, TypeOK, SharedOK, Cals, accounted
  <2>2. phase = "collecting" => accounted \in Nat
    BY CalibrationAssumption, FS_Subset, FS_CardinalityType
    DEF CalibrationAssumption, CalInv, TypeOK, FlowOK, accounted
  <2> QED BY <1>1, <2>1, <2>2 DEF SessionInv, AcksAccounted
<1> QED BY <1>1, <1>2, <1>3, <1>4, <1>5 DEF SessionInv, OkIsSaved

(* A command is taken off the queue, to be run or to be failed. *)
LEMMA TakesOne ==
    ASSUME CalInv, SessionInv, UNCHANGED <<flow, tick, disk>>, queue # <<>>, queue' = Tail(queue),
           Head(queue)[1] = "begin" => cal'.token = Head(queue)[2] /\ cal'.finished # "ok",
           Head(queue)[1] # "begin" => cal' = cal,
           dev' = "abort" => Head(queue)[1] = "abort"
    PROVE  SessionInv'
<1>1. UNCHANGED <<phase, token, minted, calibrated, focused, swallowed, snap, ticking>>
  BY DEF flow, tick
<1>2. /\ Len(queue) \in Nat \ {0} /\ DOMAIN queue = 1..Len(queue) /\ DOMAIN queue' = 1..(Len(queue) - 1)
      /\ \A i \in 1..(Len(queue) - 1) : queue'[i] = queue[i + 1]
      /\ Head(queue) = queue[1]
  BY QueueShrinks DEF CalInv, TypeOK, SharedOK
<1>3. \A i \in 1..(Len(queue) - 1) : i + 1 \in 1..Len(queue)
  BY <1>2
<1>4. 1 \in DOMAIN queue
  BY <1>2
<1>5. Tokens'
  <2>1. \A i \in DOMAIN queue' : queue'[i][1] = "begin" => queue'[i][2] <= minted
    BY <1>2, <1>3 DEF SessionInv, Tokens
  <2>2. cal'.token <= minted /\ (cal'.finished = "ok" => disk.run = cal'.token)
    BY <1>2, <1>4 DEF SessionInv, Tokens
  <2> QED BY <1>1, <2>1, <2>2 DEF SessionInv, Tokens
<1>6. TakenUp => TakenUp' /\ cal' = cal
  <2> SUFFICES ASSUME TakenUp PROVE TakenUp' /\ cal' = cal
    OBVIOUS
  <2>1. cal' = cal /\ dev' # "abort"
    BY <1>2, <1>4 DEF TakenUp
  <2>2. \A i \in DOMAIN queue' : queue'[i][1] \notin {"begin", "abort"}
    BY <1>2, <1>3 DEF TakenUp
  <2> QED BY <1>1, <2>1, <2>2 DEF TakenUp
<1>7. ASSUME phase = "starting", ToCome PROVE ToCome' \/ TakenUp'
  <2>1. PICK i \in DOMAIN queue :
           /\ queue[i] = <<"begin", token>>
           /\ \A j \in DOMAIN queue : queue[j][1] \in {"begin", "abort"} => j <= i
           /\ \A j \in DOMAIN queue : j # i /\ queue[j][1] = "begin" => queue[j][2] < token
    BY <1>7 DEF ToCome
  <2>2. i \in 1..Len(queue)
    BY <1>2, <2>1
  <2>3. CASE i = 1
    <3>1. cal'.token = token
      BY <1>2, <2>1, <2>3
    <3>2. \A j \in DOMAIN queue' : queue'[j][1] \notin {"begin", "abort"}
      <4> TAKE j \in DOMAIN queue'
      <4>1. j \in 1..(Len(queue) - 1) /\ j + 1 \in DOMAIN queue /\ queue'[j] = queue[j + 1] /\ ~(j + 1 <= 1)
        BY <1>2, <1>3
      <4> QED BY <2>1, <2>3, <4>1
    <3>3. snap.token # token
      BY <1>7 DEF ToCome, CalInv, TypeOK, FlowOK, SharedOK, Cals
    <3>4. CASE dev' # "abort"
      BY <1>1, <3>1, <3>2, <3>3, <3>4 DEF TakenUp
    <3>5. CASE dev' = "abort"
      BY <1>2, <2>1, <2>3, <3>5
    <3> QED BY <3>4, <3>5
  <2>4. CASE i # 1
    <3>1. i - 1 \in DOMAIN queue' /\ queue'[i - 1] = <<"begin", token>>
      BY <1>2, <2>1, <2>2, <2>4
    <3>2. /\ \A j \in DOMAIN queue' : queue'[j][1] \in {"begin", "abort"} => j <= i - 1
          /\ \A j \in DOMAIN queue' : j # i - 1 /\ queue'[j][1] = "begin" => queue'[j][2] < token
      <4> SUFFICES ASSUME NEW j \in DOMAIN queue'
                   PROVE  /\ queue'[j][1] \in {"begin", "abort"} => j <= i - 1
                          /\ j # i - 1 /\ queue'[j][1] = "begin" => queue'[j][2] < token
        OBVIOUS
      <4>1. j \in 1..(Len(queue) - 1) /\ j + 1 \in DOMAIN queue /\ queue'[j] = queue[j + 1]
        BY <1>2, <1>3
      <4>2. (j + 1 <= i => j <= i - 1) /\ (j # i - 1 => j + 1 # i)
        BY <2>2, <4>1
      <4> QED BY <2>1, <4>1, <4>2
    <3>3. cal'.token < token
      BY <1>2, <1>4, <1>7, <2>1, <2>4 DEF ToCome
    <3>4. snap'.token < token'
      BY <1>1, <1>7 DEF ToCome
    <3> QED BY <1>1, <3>1, <3>2, <3>3, <3>4 DEF ToCome
  <2> QED BY <2>3, <2>4
<1>8. AcksAccounted' /\ OkIsSaved'
  BY <1>1, <1>6 DEF SessionInv, AcksAccounted, OkIsSaved, accounted
<1> QED BY <1>1, <1>5, <1>6, <1>7, <1>8 DEF SessionInv

LEMMA DeviceSession ==
    ASSUME CalInv, SessionInv, Device \/ Watchdog \/ LingerOver
    PROVE  SessionInv'
<1>c. cal \in Cals /\ cal.collected \in Nat /\ (cal.finished = "ok" => disk.run = cal.token)
  BY DEF CalInv, TypeOK, SharedOK, Cals, SessionInv, Tokens
<1>q. queue # <<>> => Head(queue) \in Messages /\ Head(queue)[2] \in Nat
  BY HeadTail, MessagesAre DEF CalInv, TypeOK, SharedOK
<1>1. ASSUME UNCHANGED <<flow, tick, queue, cal, disk>>, dev' # "abort"
      PROVE  SessionInv'
  BY <1>c, <1>1, ThreadStays
<1>2. CASE TryOpen \/ OpenOk \/ OpenFails \/ BackOff \/ Drained \/ Read \/ Watchdog \/ LingerOver
  BY <1>1, <1>2 DEF TryOpen, OpenOk, OpenFails, BackOff, Drained, Read, Watchdog, LingerOver, CloseSession,
                    tracker
<1>3. CASE CalDiscard
  BY <1>1, <1>3 DEF CalDiscard, Ran
<1>4. CASE IdleReset
  <2>1. phase = "closed" /\ queue' = <<>> /\ cal' = NoCal /\ UNCHANGED <<flow, tick, disk>>
    BY <1>4 DEF IdleReset, tracker
  <2>2. NoCal.token = 0 /\ NoCal.finished = "none" /\ minted \in Nat
    BY DEF NoCal, CalInv, TypeOK, FlowOK
  <2>3. Tokens'
    BY <2>1, <2>2 DEF SessionInv, Tokens, flow, tick
  <2> QED BY <2>1, <2>3 DEF SessionInv, AcksAccounted, OkIsSaved, flow
<1>5. CASE FailQueued
  <2>1. queue # <<>> /\ dev' = "failing"
    BY <1>5 DEF FailQueued, CalInv, TypeOK, DeviceOK, SharedOK
  <2>2. Head(queue)[1] = "begin" => cal'.token = Head(queue)[2] /\ cal'.finished # "ok"
    BY <1>5 DEF FailQueued, begin, on_finish, NoCal
  <2> QED BY <1>5, <2>1, <2>2, TakesOne DEF FailQueued, tracker
<1>6. CASE Dequeue
  <2>1. Head(queue)[1] = "begin" => cal'.token = Head(queue)[2] /\ cal'.finished # "ok"
    BY <1>6 DEF Dequeue, begin, NoCal
  <2> QED BY <1>6, <2>1, TakesOne DEF Dequeue, tracker
<1>o. \A r \in {"ok", "err"} : /\ on_finish(cal, r).token = cal.token
                               /\ on_finish(cal, r).collected = cal.collected
                               /\ on_finish(cal, r).finished = r
  BY <1>c DEF on_finish, Cals
<1>7. CASE CalBegin
  <2>1. cal' = [cal EXCEPT !.started = TRUE] \/ cal' = on_finish(cal, "err")
    BY <1>7 DEF CalBegin
  <2>2. cal'.token = cal.token /\ cal'.collected = cal.collected /\ (cal'.finished = "ok" => disk.run = cal.token)
    BY <1>c, <1>o, <2>1 DEF Cals
  <2> QED BY <1>7, <1>c, <2>2, ThreadStays DEF CalBegin, Ran
<1>8. CASE CalCollect
  <2>1. PICK a \in Outcomes("add") : cal' = on_collect(cal, a.acked)
    BY <1>8 DEF CalCollect
  <2>2. /\ cal'.token = cal.token /\ cal'.collected \in {cal.collected, cal.collected + 1}
        /\ cal'.finished = cal.finished
    BY <1>c, <2>1 DEF on_collect, Cals
  <2> QED BY <1>8, <1>c, <2>2, ThreadStays DEF CalCollect, Ran
<1>9. CASE CalComputeGroup
  <2>1. cal' = cal \/ cal' = on_finish(cal, "err")
    BY <1>9 DEF CalComputeGroup
  <2> QED BY <1>9, <1>c, <1>o, <2>1, ThreadStays DEF CalComputeGroup, Ran
<1>10. CASE CalFinish
  <2>1. \/ cal' = on_finish(cal, "ok") /\ disk' = [run |-> cal.token, points |-> held]
        \/ cal' = on_finish(cal, "err") /\ disk' = disk
    BY <1>10 DEF CalFinish
  <2>2. /\ cal'.token = cal.token /\ cal'.collected = cal.collected
        /\ cal'.finished = "ok" => disk'.run = cal.token
        /\ disk' = disk \/ disk'.run = cal.token
    BY <1>o, <2>1
  <2> QED BY <1>10, <1>c, <2>2, ThreadStays DEF CalFinish, Ran
<1>11. CASE CalAbort
  <2>1. /\ cal' = NoCal /\ dev = "abort" /\ UNCHANGED <<flow, tick, queue, disk>>
    BY <1>11 DEF CalAbort, Ran
  <2>2. NoCal.token = 0 /\ NoCal.finished = "none" /\ minted \in Nat /\ token \in Nat /\ cal.token \in Nat
    BY <1>c DEF NoCal, CalInv, TypeOK, FlowOK, Cals
  <2>3. ~TakenUp
    BY <2>1 DEF TakenUp
  <2>4. Tokens'
    BY <2>1, <2>2 DEF SessionInv, Tokens, flow, tick
  <2>5. ToCome => ToCome'
    <3>1. ToCome => 0 < token
      BY <2>2 DEF ToCome
    <3> QED BY <2>1, <2>2, <3>1 DEF ToCome, flow, tick
  <2>6. phase' = phase
    BY <2>1 DEF flow
  <2> QED BY <2>3, <2>4, <2>5, <2>6 DEF SessionInv, AcksAccounted, OkIsSaved
<1> QED BY <1>2, <1>3, <1>4, <1>5, <1>6, <1>7, <1>8, <1>9, <1>10, <1>11 DEF Device

LEMMA SessionInit == Init => SessionInv
<1> SUFFICES ASSUME Init PROVE SessionInv
  OBVIOUS
<1>1. Tokens
  BY DEF Init, Tokens, NoCal
<1> QED BY <1>1 DEF Init, SessionInv, AcksAccounted, OkIsSaved

LEMMA SessionNext == CalInv /\ SessionInv /\ [Next]_vars => SessionInv'
<1> SUFFICES ASSUME CalInv, SessionInv, [Next]_vars PROVE SessionInv'
  OBVIOUS
<1>1. CASE UNCHANGED vars
  BY <1>1 DEF vars, flow, tick, thread, tracker, SessionInv, Tokens, ToCome, TakenUp, AcksAccounted, OkIsSaved,
              accounted
<1> QED BY <1>1, WindowSession, TickSession, DeviceSession DEF Next

(* The inductive invariant of the flow and its session.                      *)
THEOREM CalSessionHolds == Spec => []SessionInv
BY SessionInit, SessionNext, CalInvHolds, PTL DEF Spec

(* The flow acts on the progress of its own session only and charges no ack  *)
(* twice, whatever windows are closed and opened again, commands wait, and   *)
(* requests go unanswered (`tick` of calibrate_flow.rs, `CalPhase`).         *)
THEOREM CalFlowTracks == Spec => []FlowTracks
<1>1. SessionInv => FlowTracks
  BY DEF SessionInv, FlowTracks, OwnSession, TakenUp
<1> QED BY <1>1, CalSessionHolds, PTL

(* A session reported as a success is the one on disk (`finish_calibration`  *)
(* saves before it reports).                                                 *)
THEOREM CalOkIsSaved == Spec => []OkIsSaved
<1>1. SessionInv => OkIsSaved
  BY DEF SessionInv
<1> QED BY <1>1, CalSessionHolds, PTL

-----------------------------------------------------------------------------
(* What is known of the flow, and of its session, while it collects.         *)
LEMMA WhileCollecting ==
    ASSUME CalInv, SessionInv, phase = "collecting"
    PROVE  /\ TakenUp /\ cal.token = token /\ cal.collected \in Nat /\ snap.collected \in Nat
           /\ Cardinality(calibrated) \in Nat /\ swallowed \in Nat /\ accounted \in Nat
           /\ accounted = Cardinality(calibrated) + swallowed
           /\ focused \notin calibrated
           /\ queue \in Seq(Messages) /\ Len(queue) \in Nat /\ DOMAIN queue = 1..Len(queue)
<1>1. TakenUp /\ focused \notin calibrated
  BY DEF SessionInv, AcksAccounted
<1>2. Cardinality(calibrated) \in Nat /\ swallowed \in Nat
  BY CalibrationAssumption, FS_Subset, FS_CardinalityType DEF CalibrationAssumption, CalInv, TypeOK, FlowOK
<1>3. accounted = Cardinality(calibrated) + swallowed /\ accounted \in Nat
  BY <1>2 DEF accounted
<1> QED BY <1>1, <1>2, <1>3 DEF TakenUp, CalInv, TypeOK, SharedOK, Cals

(* A tick takes the error of its session, and nothing else. *)
LEMMA ErrorTaken ==
    ASSUME CalInv, take_last_error
    PROVE  /\ cal'.token = cal.token /\ cal'.active = cal.active /\ cal'.started = cal.started
           /\ cal'.collected = cal.collected /\ cal'.finished = cal.finished
           /\ cal.token = token => ~cal'.error
BY DEF take_last_error, CalInv, TypeOK, SharedOK, Cals

(* A tick that captures nothing: the queue is left alone, or gets a discard   *)
(* or a collect of the point in focus; and, while no group has failed, none    *)
(* of it with a collect or an ack on its way.                                *)
AsksOrWaits ==
    /\ UNCHANGED <<phase, group, calibrated, swallowed, token, thread, tracker>>
    /\ take_last_error /\ EndTick
    /\ \/ queue' = queue
       \/ /\ focused # NoPoint /\ focused' = focused
          /\ Send("discard", focused) \/ (Send("collect", focused) /\ requested')
OneAtATime ==
    /\ Landed => UNCHANGED <<queue, focused>>
    /\ Outstanding => UNCHANGED <<queue, focused, requested>>

LEMMA CollectingStays ==
    ASSUME CalInv, SessionInv, CompleteInv, phase = "collecting", AsksOrWaits,
           cal.finished = "none" /\ Tracked => OneAtATime
    PROVE  CompleteInv'
<1> DEFINE Q == Len(queue)
<1>c. /\ TakenUp /\ cal.token = token /\ accounted \in Nat /\ focused \notin calibrated
      /\ queue \in Seq(Messages) /\ Q \in Nat /\ DOMAIN queue = 1..Q
  BY WhileCollecting
<1>e. /\ cal'.token = cal.token /\ cal'.active = cal.active
      /\ cal'.collected = cal.collected /\ cal'.finished = cal.finished /\ ~cal'.error
  BY <1>c, ErrorTaken DEF AsksOrWaits
<1>u. /\ phase' = "collecting" /\ UNCHANGED <<group, calibrated, swallowed, token, dev, arg, realm, held>>
      /\ snap' = NoCal /\ ~ticking'
  BY DEF AsksOrWaits, EndTick, thread, tracker
<1>q. \/ queue' = queue
      \/ /\ focused \in Points /\ focused' = focused
         /\ DOMAIN queue' = 1..(Q + 1) /\ Len(queue') = Q + 1 /\ \A i \in 1..Q : queue'[i] = queue[i]
         /\ \/ queue'[Q + 1] = <<"discard", focused>>
            \/ queue'[Q + 1] = <<"collect", focused>> /\ requested'
  <2>1. ASSUME focused # NoPoint, NEW op \in {"discard", "collect"}, Send(op, focused)
        PROVE  /\ DOMAIN queue' = 1..(Q + 1) /\ Len(queue') = Q + 1 /\ \A i \in 1..Q : queue'[i] = queue[i]
               /\ queue'[Q + 1] = <<op, focused>> /\ focused \in Points
    <3>1. focused \in Points
      BY <2>1 DEF CalInv, TypeOK, FlowOK
    <3>2. <<op, focused>> \in Messages
      BY <3>1, MessagesAre
    <3> QED BY <1>c, <2>1, <3>1, <3>2, QueueGrows, Sent
  <2> QED BY <2>1 DEF AsksOrWaits
<1>n. NoFinish' /\ dev' # "begin"
  BY <1>q, <1>u, <1>c DEF CompleteInv, NoFinish
<1>1. CASE Doomed
  <2>1. accounted' = accounted /\ NoCal.collected = 0
    BY <1>u DEF accounted, NoCal
  <2>2. Doomed'
    BY <1>1, <1>e, <1>u, <1>c, <2>1 DEF Doomed
  <2> QED BY <1>n, <1>u, <2>2 DEF CompleteInv
<1>2. CASE cal.finished = "none" /\ Tracked
  <2>1. Landed' <=> Landed
    BY <1>e, <1>u DEF Landed
  <2>2. Landed => focused' \in held' /\ Idle'
    BY <1>2, <1>u DEF Tracked, Idle, OneAtATime
  <2>3. \A i \in DOMAIN queue :
           /\ queue[i][1] = "collect" => i = Q /\ queue[i][2] = focused
           /\ queue[i][1] = "discard" => queue[i][2] \notin calibrated
    BY <1>2 DEF Tracked
  <2>4. CASE queue' = queue
    <3>1. Outstanding' <=> Outstanding
      BY <1>u, <2>4 DEF Outstanding
    <3>2. Outstanding => focused' = focused /\ requested' = requested
      BY <1>2 DEF OneAtATime
    <3>3. Outstanding' => requested' /\ ~Landed' /\ ~cal'.error
      BY <1>2, <1>e, <2>1, <3>1, <3>2 DEF Tracked
    <3>4. dev' = "collect" => queue' = <<>> /\ arg' = focused'
      BY <1>2, <1>u, <2>4, <3>1, <3>2 DEF Tracked, Outstanding
    <3>5. \A i \in DOMAIN queue' :
            /\ queue'[i][1] = "collect" => i = Len(queue') /\ queue'[i][2] = focused'
            /\ queue'[i][1] = "discard" => queue'[i][2] \notin calibrated'
      BY <1>u, <2>3, <2>4, <3>2 DEF Outstanding
    <3>6. Tracked'
      BY <1>2, <1>e, <1>u, <2>1, <2>2, <3>3, <3>4, <3>5 DEF Tracked, Landed
    <3> QED BY <1>n, <1>e, <1>u, <1>2, <3>6 DEF CompleteInv
  <2>5. CASE queue' # queue
    <3>1. /\ ~Outstanding /\ focused' = focused /\ ~Landed
          /\ DOMAIN queue' = 1..(Q + 1) /\ Len(queue') = Q + 1 /\ \A i \in 1..Q : queue'[i] = queue[i]
          /\ \/ queue'[Q + 1] = <<"discard", focused>>
             \/ queue'[Q + 1] = <<"collect", focused>> /\ requested'
      BY <1>2, <1>q, <2>5 DEF OneAtATime
    <3>2. dev # "collect" /\ \A i \in 1..Q : queue[i][1] # "collect"
      BY <1>c, <3>1 DEF Outstanding
    <3>3. \A i \in DOMAIN queue' :
            /\ queue'[i][1] = "collect" => i = Len(queue') /\ queue'[i][2] = focused' /\ requested'
            /\ queue'[i][1] = "discard" => queue'[i][2] \notin calibrated'
      <4> SUFFICES ASSUME NEW i \in DOMAIN queue'
                   PROVE  /\ queue'[i][1] = "collect" => i = Len(queue') /\ queue'[i][2] = focused' /\ requested'
                          /\ queue'[i][1] = "discard" => queue'[i][2] \notin calibrated'
        OBVIOUS
      <4>1. CASE i \in 1..Q
        BY <1>c, <1>u, <2>3, <3>1, <3>2, <4>1
      <4>2. CASE i = Q + 1
        BY <1>c, <1>u, <3>1, <4>2
      <4> QED BY <1>c, <3>1, <4>1, <4>2
    <3>4. Outstanding' => requested' /\ ~Landed' /\ ~cal'.error
      BY <1>e, <1>u, <2>1, <3>1, <3>2, <3>3 DEF Outstanding
    <3>5. Tracked'
      BY <1>2, <1>e, <1>u, <2>1, <2>2, <3>1, <3>2, <3>3, <3>4 DEF Tracked, Landed
    <3> QED BY <1>n, <1>e, <1>u, <1>2, <3>5 DEF CompleteInv
  <2> QED BY <2>4, <2>5
<1> QED BY <1>c, <1>1, <1>2, <1>u DEF CompleteInv

(* A point is captured with its ack, which the tracker has the samples of. *)
LEMMA CapturedIs ==
    ASSUME CalInv, SessionInv, CompleteInv, Captured
    PROVE  /\ phase = "collecting" /\ cal.finished = "none" /\ Tracked /\ NoFinish /\ dev # "begin"
           /\ Landed /\ focused \in held /\ queue = <<>> /\ dev \in {"drain", "read"} /\ swallowed = 0
           /\ take_last_error /\ snap' = NoCal /\ ~ticking' /\ focused # NoPoint
           /\ UNCHANGED <<token, thread, tracker>>
<1>c. /\ phase = "collecting" /\ snap.token = token /\ snap.finished # "err" /\ snap.collected > accounted
      /\ take_last_error /\ snap' = NoCal /\ ~ticking' /\ focused # NoPoint
      /\ UNCHANGED <<token, thread, tracker>>
  BY DEF Captured, Reading, CollectingTick, Advance, EndTick
<1>w. /\ cal.collected \in Nat /\ snap.collected \in Nat /\ Cardinality(calibrated) \in Nat
      /\ accounted = Cardinality(calibrated) + swallowed /\ accounted \in Nat /\ snap.collected <= cal.collected
  BY <1>c, WhileCollecting DEF TakenUp
<1>1. cal.finished = "none" /\ Tracked /\ NoFinish /\ dev # "begin"
  BY <1>c, <1>w DEF CompleteInv, Doomed
<1>2. /\ Landed /\ focused \in held /\ queue = <<>> /\ dev \in {"drain", "read"} /\ swallowed = 0
  BY <1>1, <1>c, <1>w DEF Tracked, Landed, Idle
<1> QED BY <1>1, <1>2, <1>c

(* The next group has all of this one behind it, and the finish all of them. *)
LEMMA CapturedComplete ==
    ASSUME CalInv, SessionInv, CompleteInv, Captured
    PROVE  CompleteInv'
<1>c. /\ phase = "collecting" /\ take_last_error /\ snap' = NoCal /\ ~ticking' /\ focused # NoPoint
      /\ UNCHANGED <<token, dev, arg, realm, held, disk>>
  BY CapturedIs DEF thread, tracker
<1>w. /\ TakenUp /\ cal.token = token /\ Cardinality(calibrated) \in Nat
      /\ accounted = Cardinality(calibrated) + swallowed
      /\ focused \notin calibrated /\ queue \in Seq(Messages)
  BY <1>c, WhileCollecting
<1>1. cal.finished = "none" /\ Tracked /\ NoFinish /\ dev # "begin"
  BY CapturedIs
<1>2. /\ Landed /\ focused \in held /\ queue = <<>> /\ dev \in {"drain", "read"} /\ swallowed = 0
  BY CapturedIs
<1>e. /\ cal'.token = cal.token /\ cal'.active = cal.active
      /\ cal'.collected = cal.collected /\ cal'.finished = cal.finished /\ ~cal'.error
  BY <1>c, <1>w, ErrorTaken
<1>m. \A op \in {"compute", "finish"} : Send(op, 0) => queue' = <<<<op, 0>>>>
  BY <1>2 DEF Send
<1>3. CASE LastDone
  <2>1. Points \subseteq held
    <3> SUFFICES ASSUME NEW p \in Points PROVE p \in held
      OBVIOUS
    <3>1. PICK g \in DOMAIN Groups : p \in Groups[g]
      BY DEF Points
    <3>2. g \in 1..Len(Groups) /\ Len(Groups) \in Nat
      BY <3>1, PointsAre
    <3>3. CASE g = Len(Groups)
      BY <1>1, <1>2, <1>3, <3>1, <3>3 DEF LastDone, GroupDone, Tracked
    <3>4. CASE g # Len(Groups)
      <4>1. g \in 1..(group - 1)
        BY <1>3, <3>2, <3>4 DEF LastDone
      <4> QED BY <1>1, <3>1, <4>1 DEF Tracked
    <3> QED BY <3>3, <3>4
  <2>2. queue' = <<<<"finish", 0>>>> /\ phase' = "computing"
    BY <1>3, <1>m DEF LastDone, Leave
  <2>3. FinishComes'
    BY <1>1, <1>2, <1>c, <1>e, <2>1, <2>2 DEF FinishComes, Tracked, NoCal
  <2> QED BY <2>2, <2>3 DEF CompleteInv
<1>4. ASSUME phase' = "collecting", calibrated' = calibrated \cup {focused}, swallowed' = swallowed,
             focused' = NoPoint, requested' = FALSE, queue' \in {<<>>, <<<<"compute", 0>>>>},
             \A g \in 1..(group' - 1) : Groups[g] \subseteq calibrated'
      PROVE  CompleteInv'
  <2>1. Cardinality(calibrated') = Cardinality(calibrated) + 1
    BY <1>4, <1>w, CalibrationAssumption, FS_Subset, FS_AddElement
    DEF CalibrationAssumption, CalInv, TypeOK, FlowOK
  <2>2. ~Landed' /\ cal'.collected = Cardinality(calibrated')
    BY <1>2, <1>e, <1>w, <2>1 DEF Landed
  <2>3. ~Outstanding' /\ NoFinish'
    BY <1>2, <1>4, <1>c DEF Outstanding, NoFinish
  <2>4. calibrated' \subseteq held'
    BY <1>1, <1>2, <1>4, <1>c DEF Tracked
  <2>5. \A i \in DOMAIN queue' : queue'[i][1] \notin {"collect", "discard"}
    BY <1>4
  <2>6. Tracked'
    BY <1>1, <1>2, <1>4, <1>c, <1>e, <2>2, <2>3, <2>4, <2>5 DEF Tracked, Down
  <2> QED BY <1>1, <1>4, <1>c, <1>e, <2>3, <2>6 DEF CompleteInv
<1>5. CASE NextGroup
  <2>1. \A g \in 1..(group' - 1) : Groups[g] \subseteq calibrated'
    <3> SUFFICES ASSUME NEW g \in 1..(group' - 1) PROVE Groups[g] \subseteq calibrated'
      OBVIOUS
    <3>1. group \in Nat /\ group' = group + 1 /\ calibrated' = calibrated \cup {focused}
      BY <1>5, PointsAre DEF NextGroup, Collecting, CalInv, TypeOK, FlowOK
    <3>2. CASE g = group
      BY <1>5, <3>1, <3>2 DEF NextGroup, GroupDone
    <3>3. CASE g # group
      <4>1. g \in 1..(group - 1)
        BY <3>1, <3>3
      <4> QED BY <1>1, <3>1, <4>1 DEF Tracked
    <3> QED BY <3>2, <3>3
  <2> QED BY <1>4, <1>5, <1>m, <2>1 DEF NextGroup, Collecting
<1>6. CASE /\ ~GroupDone
           /\ calibrated' = calibrated \cup {focused} /\ focused' = NoPoint /\ requested' = FALSE
           /\ UNCHANGED <<queue, phase, group, attempt, swallowed, asks>>
  <2>1. \A g \in 1..(group' - 1) : Groups[g] \subseteq calibrated'
    BY <1>1, <1>6 DEF Tracked
  <2> QED BY <1>2, <1>4, <1>6, <1>c, <2>1
<1> QED BY <1>3, <1>5, <1>6 DEF Captured

(* An ack that nobody asked for does not come. *)
LEMMA NoneSwallowed ==
    ASSUME CalInv, SessionInv, CompleteInv, Unattributable
    PROVE  FALSE
<1>c. /\ phase = "collecting" /\ snap.token = token /\ snap.finished # "err" /\ snap.collected > accounted
      /\ focused = NoPoint
  BY DEF Unattributable, Reading, CollectingTick, Advance
<1>w. /\ TakenUp /\ cal.collected \in Nat /\ snap.collected \in Nat
      /\ Cardinality(calibrated) \in Nat /\ accounted = Cardinality(calibrated) + swallowed
      /\ snap.collected <= cal.collected
  BY <1>c, WhileCollecting DEF TakenUp
<1>1. Tracked
  BY <1>c, <1>w DEF CompleteInv, Doomed
<1>2. focused \in held
  BY <1>1, <1>c, <1>w DEF Tracked, Landed
<1> QED BY <1>2, <1>c, PointsAre DEF CalInv, TypeOK, TrackerOK

(* The window and the tick. *)
LEMMA WindowComplete ==
    ASSUME CalInv, SessionInv, CompleteInv, Launch \/ Begin \/ Close
    PROVE  CompleteInv'
<1>1. CASE Launch \/ Close
  BY <1>1 DEF Launch, Close, Leave, CompleteInv
<1>2. CASE Begin
  <2>1. /\ token' = minted + 1 /\ minted \in Nat /\ cal' = cal /\ cal.token \in Nat /\ cal.token <= minted
        /\ Send("begin", token') /\ token' \in 1..MaxRuns /\ phase' = "starting" /\ queue \in Seq(Messages)
    BY <1>2, Zeros DEF Begin, Leave, SessionInv, Tokens, CalInv, TypeOK, FlowOK, SharedOK, Cals
  <2>2. queue' # <<>> /\ queue'[Len(queue')] = <<"begin", token'>>
    <3>1. Len(queue') = Len(queue) + 1 /\ queue'[Len(queue) + 1] = <<"begin", token'>> /\ Len(queue) \in Nat
      BY <2>1, QueueGrows, Sent, MessagesAre
    <3> QED BY <3>1
  <2> QED BY <2>1, <2>2 DEF CompleteInv, Starting
<1> QED BY <1>1, <1>2

LEMMA TickComplete ==
    ASSUME Prompt, CalInv, SessionInv, CompleteInv, Tick
    PROVE  CompleteInv'
<1>0. ASSUME phase' \in {"closed", "preview", "failed"} PROVE CompleteInv'
  BY <1>0 DEF CompleteInv
<1>n. NoCal.token = 0 /\ ~NoCal.started /\ NoCal.finished = "none" /\ NoCal.collected = 0
  BY DEF NoCal
<1>t. phase = "starting" /\ snap.token = token => cal.token = token
  BY DEF SessionInv, ToCome, TakenUp, CalInv, TypeOK, FlowOK, SharedOK, Cals
<1>1. CASE Snapshot
  <2>1. /\ UNCHANGED <<phase, token, queue, cal, dev, arg, realm, held, disk, group, calibrated, focused,
                       requested, swallowed>>
        /\ snap' = cal
    BY <1>1 DEF Snapshot, flow, thread, tracker
  <2>2. phase = "starting" => Starting'
    BY <2>1 DEF CompleteInv, Starting, Fresh
  <2>3. Doomed => Doomed'
    BY <2>1 DEF Doomed
  <2>4. Tracked => Tracked'
    BY <2>1 DEF Tracked, Landed, Outstanding, Idle
  <2>5. NoFinish => NoFinish'
    BY <2>1 DEF NoFinish
  <2>6. FinishComes \/ FinishIsDone => FinishComes' \/ FinishIsDone'
    BY <2>1 DEF FinishComes, FinishIsDone, NoFinish
  <2> QED BY <2>1, <2>2, <2>3, <2>4, <2>5, <2>6 DEF CompleteInv
<1>2. CASE StartTimeout \/ StartFailed \/ SessionFailed \/ ComputeTimeout
  BY <1>0, <1>2 DEF StartTimeout, StartFailed, SessionFailed, ComputeTimeout, Finished, Leave
<1>3. CASE Started
  <2>1. /\ phase = "starting" /\ snap.token = token /\ snap.started /\ phase' = "collecting" /\ group' = 1
        /\ focused' = NoPoint /\ ~requested' /\ calibrated' = {} /\ swallowed' = 0
        /\ UNCHANGED <<token, queue, cal, dev, arg, realm, held>>
    BY <1>3 DEF Started, NotStarted, Collecting, thread, tracker
  <2>2. Fresh /\ queue = <<>>
    BY <1>t, <2>1 DEF CompleteInv, Starting
  <2>3. Cardinality(calibrated') = 0 /\ 1..(group' - 1) = {}
    BY <2>1, FS_EmptySet
  <2>4. ~Landed' /\ ~Outstanding' /\ NoFinish'
    BY <2>1, <2>2, <2>3 DEF Landed, Outstanding, NoFinish, Fresh
  <2>5. Tracked'
    BY <2>1, <2>2, <2>3, <2>4 DEF Tracked, Fresh, Down
  <2> QED BY <2>1, <2>2, <2>4, <2>5 DEF CompleteInv, Fresh
<1>4. CASE Wait
  <2>1. /\ UNCHANGED <<phase, token, queue, cal, dev, arg, realm, held, disk>>
        /\ snap' = NoCal /\ phase \in {"starting", "computing"}
    BY <1>4 DEF Wait, EndTick, flow, thread, tracker
  <2>2. phase = "starting" => Starting'
    BY <1>n, <2>1 DEF CompleteInv, Starting, Fresh
  <2>3. FinishComes \/ FinishIsDone => FinishComes' \/ FinishIsDone'
    BY <1>n, <2>1 DEF FinishComes, FinishIsDone, NoFinish
  <2> QED BY <2>1, <2>2, <2>3 DEF CompleteInv
<1>5. CASE Rejected
  <2>1. CASE GiveUp
    BY <1>0, <2>1 DEF GiveUp, Finished, Leave
  <2>2. CASE Reshow /\ Send("discard", focused)
    <3>1. phase = "collecting" /\ cal.error /\ requested /\ focused # NoPoint
      BY <1>5 DEF Rejected, Rejection, CollectingTick, CalInv, RequestedIsFocused
    <3>2. AsksOrWaits
      BY <1>5, <2>2, <3>1 DEF Rejected, Reshow, CollectingTick, AsksOrWaits
    <3>3. Tracked => OneAtATime
      BY <3>1 DEF Tracked, OneAtATime
    <3> QED BY <3>1, <3>2, <3>3, CollectingStays
  <2> QED BY <1>5, <2>1, <2>2 DEF Rejected
<1>6. CASE Captured
  BY <1>6, CapturedComplete
<1>7. CASE Unattributable
  BY <1>7, NoneSwallowed
<1>8. ASSUME Dwelling
      PROVE  /\ phase = "collecting" /\ take_last_error /\ EndTick
             /\ Tracked => /\ ~requested => ~Landed /\ ~Outstanding
                           /\ cal.collected > accounted <=> Landed
  <2>1. /\ phase = "collecting" /\ take_last_error /\ EndTick /\ ticking /\ ~(snap.collected > accounted)
    BY <1>8 DEF Dwelling, Reading, CollectingTick, Advance
  <2>2. /\ cal.collected \in Nat /\ snap.collected \in Nat /\ Cardinality(calibrated) \in Nat
        /\ accounted = Cardinality(calibrated) + swallowed
    BY <2>1, WhileCollecting
  <2>3. Tracked => (cal.collected > accounted <=> Landed)
    BY <2>2 DEF Tracked, Landed
  <2>4. Tracked /\ ~requested => ~Landed /\ ~Outstanding
    BY <2>1, <2>2 DEF Tracked, Landed
  <2> QED BY <2>1, <2>3, <2>4
<1>9. CASE Focus
  <2>1. AsksOrWaits
    BY <1>8, <1>9 DEF Focus, AsksOrWaits
  <2>2. Tracked => OneAtATime
    BY <1>8, <1>9 DEF Focus, OneAtATime
  <2> QED BY <1>8, <1>9, <2>1, <2>2, CollectingStays DEF Focus
<1>10. CASE LostFocus
  <2>1. AsksOrWaits
    BY <1>8, <1>10 DEF LostFocus, AsksOrWaits, CalInv, RequestedIsFocused
  <2>2. Tracked => OneAtATime
    BY <1>8, <1>10 DEF LostFocus, OneAtATime, GivesUp
  <2> QED BY <1>8, <1>10, <2>1, <2>2, CollectingStays DEF LostFocus
<1>11. CASE Settled
  <2>1. AsksOrWaits
    BY <1>8, <1>11 DEF Settled, AsksOrWaits
  <2>2. Tracked => OneAtATime
    BY <1>8, <1>11 DEF Settled, OneAtATime
  <2> QED BY <1>8, <1>11, <2>1, <2>2, CollectingStays DEF Settled
<1>12. CASE Deadline
  <2>1. CASE GiveUp
    BY <1>0, <2>1 DEF GiveUp, Finished, Leave
  <2>2. CASE Reshow /\ UNCHANGED queue
    <3>1. AsksOrWaits
      BY <1>8, <1>12, <2>2 DEF Deadline, Reshow, AsksOrWaits
    <3>2. Tracked => OneAtATime
      BY <1>12, <2>2 DEF Deadline, Reshow, OneAtATime, GivesUp
    <3> QED BY <1>8, <1>12, <3>1, <3>2, CollectingStays DEF Deadline
  <2> QED BY <1>12, <2>1, <2>2 DEF Deadline
<1>13. CASE Computed
  <2>1. CASE snap.finished = "ok"
    <3>1. phase = "computing" /\ snap.token = token /\ phase' = "ok" /\ UNCHANGED <<dev, queue, disk>>
      BY <1>13, <2>1 DEF Computed, Finished, Leave, thread, tracker
    <3>2. FinishIsDone
      BY <2>1, <3>1 DEF CompleteInv, FinishComes
    <3> QED BY <2>1, <3>1, <3>2 DEF CompleteInv, FinishIsDone, NoFinish
  <2>2. CASE snap.finished # "ok"
    BY <1>0, <1>13, <2>2 DEF Computed, Finished, Leave
  <2> QED BY <2>1, <2>2
<1> QED BY <1>1, <1>2, <1>3, <1>4, <1>5, <1>6, <1>7, <1>9, <1>10, <1>11, <1>12, <1>13 DEF Tick

-----------------------------------------------------------------------------
(* The device thread takes the session's begin off the queue, to run it or to *)
(* fail it, and starts the tracker with nothing held.                        *)
LEMMA StartingKept ==
    ASSUME CalInv, SessionInv, CompleteInv, phase = "starting", Device \/ Watchdog \/ LingerOver
    PROVE  Starting'
<1>s. Starting
  BY DEF CompleteInv
<1>u. UNCHANGED <<phase, token, snap, ticking>>
  BY DEF Device, IdleReset, TryOpen, OpenOk, OpenFails, FailQueued, BackOff, Dequeue, Drained, Read, Watchdog,
         LingerOver, CloseSession, CalBegin, CalCollect, CalDiscard, CalComputeGroup, CalFinish, CalAbort, Ran,
         flow, tick
<1>q. /\ queue \in Seq(Messages) /\ cal \in Cals /\ cal.token \in Nat /\ token \in Nat
      /\ taken \in 0..Len(queue)
  BY DEF CalInv, TypeOK, SharedOK, DeviceOK, FlowOK, Cals
<1>b. \A t : begin(t).token = t /\ ~begin(t).started /\ begin(t).active /\ begin(t).finished = "none"
             /\ begin(t).collected = 0 /\ ~begin(t).error
  BY DEF begin, NoCal
<1>o. \A c \in Cals, r \in {"ok", "err"} : on_finish(c, r).token = c.token /\ on_finish(c, r).started = c.started
  BY DEF on_finish, Cals
<1>1. CASE cal.token # token
  <2>1. ToCome
    BY <1>1 DEF SessionInv, TakenUp
  <2>2. queue # <<>> /\ queue[Len(queue)] = <<"begin", token>>
    BY <1>1, <1>s DEF Starting
  <2>3. ASSUME UNCHANGED queue, cal'.token \in {cal.token, 0} PROVE Starting'
    <3>1. cal'.token # token
      BY <2>1, <2>3, <1>q DEF ToCome
    <3> QED BY <2>2, <2>3, <3>1, <1>u DEF Starting
  <2>4. ASSUME queue' = Tail(queue), Head(queue)[1] # "begin" => cal' = cal,
               Head(queue)[1] = "begin" => cal'.token = Head(queue)[2] /\ ~cal'.started,
               Head(queue)[1] = "begin" => \/ dev' = "begin" /\ cal' = begin(Head(queue)[2])
                                           \/ dev' = "failing"
        PROVE  Starting'
    <3>1. /\ Len(queue) \in Nat \ {0} /\ DOMAIN queue = 1..Len(queue) /\ DOMAIN queue' = 1..(Len(queue) - 1)
          /\ \A i \in 1..(Len(queue) - 1) : queue'[i] = queue[i + 1]
          /\ Head(queue) = queue[1] /\ Len(queue') = Len(queue) - 1 /\ queue' \in Seq(Messages)
      BY <1>q, <2>2, <2>4, QueueShrinks, HeadTail
    <3>2. PICK i \in DOMAIN queue :
             /\ queue[i] = <<"begin", token>>
             /\ \A j \in DOMAIN queue : j # i /\ queue[j][1] = "begin" => queue[j][2] < token
      BY <2>1 DEF ToCome
    <3>3. i = Len(queue)
      BY <2>2, <3>1, <3>2, <1>q
    <3>4. CASE Len(queue) = 1
      <4>1. queue' = <<>> /\ Head(queue) = <<"begin", token>>
        BY <3>1, <3>2, <3>3, <3>4
      <4>2. cal'.token = token /\ ~cal'.started /\ dev' \in Down \cup {"begin"}
            /\ (dev' = "begin" => cal' = begin(token))
        BY <2>4, <4>1 DEF Down
      <4>3. snap.token # token
        BY <2>1, <1>q DEF ToCome, CalInv, TypeOK, SharedOK, Cals
      <4> QED BY <4>1, <4>2, <4>3, <1>u DEF Starting
    <3>5. CASE Len(queue) # 1
      <4>1. queue' # <<>> /\ queue'[Len(queue')] = <<"begin", token>>
        BY <2>2, <3>1, <3>5
      <4>2. cal'.token # token
        BY <1>1, <2>4, <3>1, <3>2, <3>3, <3>5, <1>q
      <4> QED BY <4>1, <4>2, <1>u DEF Starting
    <3> QED BY <3>4, <3>5
  <2>5. CASE Dequeue
    <3>1. Head(queue)[1] = "begin" => cal' = begin(Head(queue)[2]) /\ dev' = "begin"
      BY <2>5 DEF Dequeue
    <3>2. Head(queue)[1] # "begin" => cal' = cal
      BY <2>5 DEF Dequeue
    <3> QED BY <2>4, <2>5, <3>1, <3>2, <1>b DEF Dequeue
  <2>6. CASE FailQueued
    <3>1. Head(queue)[1] = "begin" => cal'.token = Head(queue)[2] /\ ~cal'.started
      BY <2>6 DEF FailQueued, begin, on_finish, NoCal
    <3> QED BY <2>4, <2>6, <3>1 DEF FailQueued
  <2>7. CASE IdleReset
    BY <1>u, <2>7 DEF IdleReset
  <2>8. CASE CalBegin \/ CalCollect \/ CalComputeGroup \/ CalFinish
    <3>1. cal'.token = cal.token /\ UNCHANGED queue
      <4>1. \/ cal' \in {cal, [cal EXCEPT !.started = TRUE], on_finish(cal, "err"), on_finish(cal, "ok")}
            \/ \E a \in Outcomes("add") : cal' = on_collect(cal, a.acked)
        BY <2>8 DEF CalBegin, CalCollect, CalComputeGroup, CalFinish
      <4>2. cal'.token = cal.token
        BY <4>1, <1>q, <1>o DEF on_collect, Cals
      <4>3. UNCHANGED queue
        BY <2>8 DEF CalBegin, CalCollect, CalComputeGroup, CalFinish, Ran
      <4> QED BY <4>2, <4>3
    <3> QED BY <2>3, <3>1
  <2>9. CASE CalAbort
    BY <2>3, <2>9 DEF CalAbort, Ran, NoCal
  <2>10. CASE TryOpen \/ OpenOk \/ OpenFails \/ BackOff \/ Drained \/ Read \/ Watchdog \/ LingerOver \/ CalDiscard
    BY <2>3, <2>10 DEF TryOpen, OpenOk, OpenFails, BackOff, Drained, Read, Watchdog, LingerOver, CloseSession,
                       CalDiscard, Ran
  <2> QED BY <2>5, <2>6, <2>7, <2>8, <2>9, <2>10 DEF Device
<1>2. CASE cal.token = token
  <2>s. /\ queue = <<>> /\ dev \in Down \cup {"begin", "drain", "read"}
        /\ dev = "begin" => cal = begin(token)
        /\ cal.started => Fresh
        /\ snap.token = token /\ snap.started => cal.started
    BY <1>2, <1>s DEF Starting
  <2>1. ASSUME UNCHANGED <<queue, cal, realm, held>>, dev' \in {"drain", "read"}
        PROVE  Starting'
    BY <1>2, <1>u, <2>1, <2>s DEF Starting, Fresh
  <2>2. ASSUME UNCHANGED <<queue, cal>>, dev' \in Down, ~cal.started
        PROVE  Starting'
    BY <1>2, <1>u, <2>2, <2>s DEF Starting, Down
  <2>3. dev \in Down => ~cal.started
    BY <2>s DEF Fresh, Down
  <2>4. CASE TryOpen \/ OpenFails \/ BackOff
    BY <2>2, <2>3, <2>4 DEF TryOpen, OpenFails, BackOff, Down
  <2>5. CASE OpenOk \/ Drained \/ Read
    BY <2>1, <2>5 DEF OpenOk, Drained, Read, tracker
  <2>6. CASE Watchdog
    BY <2>2, <2>6, <2>s DEF Watchdog, CloseSession, Fresh, Down
  <2>7. CASE IdleReset \/ LingerOver
    BY <2>7 DEF IdleReset, LingerOver
  <2>8. CASE FailQueued \/ Dequeue
    BY <2>8, <2>s, <1>q DEF FailQueued, Dequeue
  <2>9. CASE CalBegin
    <3>1. cal = begin(token) /\ dev' = "drain" /\ UNCHANGED queue
      BY <2>9, <2>s DEF CalBegin, Ran
    <3>2. PICK s \in Outcomes("start"), c \in Outcomes("clear") :
             LET cleared == s.acked /\ c.done
                 ok      == s.acked /\ c.acked
             IN /\ realm' = (realm \/ s.done)
                /\ held' = IF cleared THEN {} ELSE held
                /\ cal' = IF ok THEN [cal EXCEPT !.started = TRUE] ELSE on_finish(cal, "err")
      BY <2>9 DEF CalBegin
    <3>3. (s.acked => s.done) /\ (c.acked => c.done)
      BY OutcomesAre
    <3>4. CASE s.acked /\ c.acked
      <4>1. realm' /\ held' = {} /\ cal' = [cal EXCEPT !.started = TRUE]
        BY <3>2, <3>3, <3>4
      <4>2. /\ cal'.token = token /\ cal'.started /\ cal'.active /\ cal'.finished = "none" /\ cal'.collected = 0
            /\ ~cal'.error
        BY <4>1, <3>1, <1>b, <1>q DEF Cals
      <4>3. Fresh'
        BY <4>1, <4>2, <3>1 DEF Fresh
      <4> QED BY <4>2, <4>3, <3>1, <2>s, <1>u DEF Starting
    <3>5. CASE ~(s.acked /\ c.acked)
      <4>1. cal' = on_finish(cal, "err")
        BY <3>2, <3>5
      <4>2. cal'.token = token /\ ~cal'.started
        BY <4>1, <3>1, <1>b, <1>o, <1>q
      <4> QED BY <4>2, <3>1, <2>s, <1>b, <1>u DEF Starting
    <3> QED BY <3>4, <3>5
  <2>10. CASE CalCollect \/ CalDiscard \/ CalComputeGroup \/ CalFinish \/ CalAbort
    BY <2>10, <2>s DEF CalCollect, CalDiscard, CalComputeGroup, CalFinish, CalAbort, Down
  <2> QED BY <2>4, <2>5, <2>6, <2>7, <2>8, <2>9, <2>10 DEF Device
<1> QED BY <1>1, <1>2

(* A group that could not be computed stays so until the session is over.    *)
LEMMA CollectingKept ==
    ASSUME CalInv, SessionInv, CompleteInv, phase = "collecting", Device \/ Watchdog \/ LingerOver
    PROVE  CompleteInv'
<1>u. UNCHANGED <<phase, token, snap, ticking, group, calibrated, focused, requested, swallowed>>
  BY DEF Device, IdleReset, TryOpen, OpenOk, OpenFails, FailQueued, BackOff, Dequeue, Drained, Read, Watchdog,
         LingerOver, CloseSession, CalBegin, CalCollect, CalDiscard, CalComputeGroup, CalFinish, CalAbort, Ran,
         flow, tick
<1>w. /\ TakenUp /\ cal.token = token /\ cal.collected \in Nat /\ snap.collected \in Nat
      /\ Cardinality(calibrated) \in Nat /\ accounted = Cardinality(calibrated) + swallowed
      /\ queue \in Seq(Messages) /\ Len(queue) \in Nat /\ DOMAIN queue = 1..Len(queue) /\ cal \in Cals
      /\ dev # "abort" /\ \A i \in DOMAIN queue : queue[i][1] \notin {"begin", "abort"}
  BY WhileCollecting DEF TakenUp, CalInv, TypeOK, SharedOK
<1>c. NoFinish /\ dev # "begin" /\ (Doomed \/ (cal.finished = "none" /\ Tracked))
  BY DEF CompleteInv
<1>a. accounted' = accounted
  BY <1>u DEF accounted
<1>o. \A c \in Cals, r \in {"ok", "err"} : on_finish(c, r).finished = r
  BY DEF on_finish, Cals
<1>h. ASSUME queue # <<>>, queue' = Tail(queue)
      PROVE  /\ DOMAIN queue' = 1..(Len(queue) - 1) /\ Len(queue') = Len(queue) - 1
             /\ \A i \in 1..(Len(queue) - 1) : i + 1 \in DOMAIN queue /\ queue'[i] = queue[i + 1]
             /\ 1 \in DOMAIN queue /\ Head(queue) = queue[1] /\ queue' \in Seq(Messages)
             /\ Head(queue)[1] \in {"collect", "discard", "compute"} /\ Len(queue) \in Nat \ {0}
  <2>1. Head(queue)[1] \in Commands
    BY <1>h, <1>w, HeadTail, MessagesAre
  <2> QED BY <1>h, <1>w, <1>c, <2>1, QueueShrinks, HeadTail DEF Commands, NoFinish
<1>1. NoFinish' /\ dev' # "begin"
  <2>1. CASE queue' = Tail(queue) /\ queue # <<>> /\ dev' \in {Head(queue)[1], "failing"}
    BY <2>1, <1>h, <1>c DEF NoFinish
  <2>2. CASE queue' = queue /\ dev' \notin {"finish", "begin"}
    BY <2>2, <1>c DEF NoFinish
  <2>3. CASE Dequeue \/ FailQueued
    BY <2>1, <2>3, <1>w DEF Dequeue, FailQueued, CalInv, TypeOK, DeviceOK
  <2>4. CASE IdleReset
    BY <2>4 DEF IdleReset
  <2> QED BY <2>2, <2>3, <2>4 DEF Device, TryOpen, OpenOk, OpenFails, BackOff, Drained, Read, Watchdog,
             LingerOver, CloseSession, CalBegin, CalCollect, CalDiscard, CalComputeGroup, CalFinish, CalAbort, Ran
<1>2. cal'.finished \in {cal.finished, "err"}
  <2>1. CASE Dequeue \/ FailQueued
    BY <2>1, <1>h DEF Dequeue, FailQueued, CalInv, TypeOK, DeviceOK
  <2>2. CASE CalCollect
    BY <2>2, <1>w DEF CalCollect, on_collect, Cals
  <2>3. CASE CalComputeGroup
    BY <2>3, <1>w, <1>o DEF CalComputeGroup
  <2>4. CASE CalBegin \/ CalFinish \/ CalAbort
    BY <2>4, <1>w, <1>c DEF CalBegin, CalFinish, CalAbort, NoFinish
  <2>5. CASE IdleReset
    BY <2>5 DEF IdleReset
  <2> QED BY <2>1, <2>2, <2>3, <2>4, <2>5 DEF Device, TryOpen, OpenOk, OpenFails, BackOff, Drained, Read, Watchdog,
             LingerOver, CloseSession, CalDiscard, Ran
<1>3. CASE Doomed
  BY <1>3, <1>1, <1>2, <1>u, <1>a DEF Doomed, CompleteInv
<1>4. CASE cal.finished = "none" /\ Tracked
  <2> USE <1>4
  <2>t. /\ cal.active /\ realm /\ dev \notin Down /\ swallowed = 0 /\ calibrated \subseteq held
        /\ \A g \in 1..(group - 1) : Groups[g] \subseteq calibrated
        /\ cal.collected = Cardinality(calibrated) \/ Landed
        /\ Landed => focused \in held /\ Idle /\ ~cal.error
                     /\ (~requested /\ ticking => snap.collected = cal.collected)
        /\ Outstanding => requested /\ ~Landed /\ ~cal.error
        /\ cal.error => requested /\ ~Outstanding
        /\ dev = "collect" => queue = <<>> /\ arg = focused
        /\ dev = "discard" => arg \notin calibrated
        /\ \A i \in DOMAIN queue :
             /\ queue[i][1] = "collect" => i = Len(queue) /\ queue[i][2] = focused
             /\ queue[i][1] = "discard" => queue[i][2] \notin calibrated
    BY DEF Tracked
  <2>0. ASSUME Tracked', cal'.finished = "none" PROVE CompleteInv'
    BY <1>1, <1>u, <2>0 DEF CompleteInv
  <2>1. ASSUME UNCHANGED <<queue, cal, realm, held>>, dev \in {"drain", "read"}, dev' \in {"drain", "read"}
        PROVE  CompleteInv'
    <3>1. (Landed' <=> Landed) /\ (Outstanding' <=> Outstanding) /\ (Idle => Idle')
      BY <1>u, <2>1 DEF Landed, Outstanding, Idle
    <3>2. Tracked'
      BY <1>u, <2>t, <2>1, <3>1 DEF Tracked, Landed, Down
    <3> QED BY <2>0, <2>1, <3>2
  <2>2. CASE Drained \/ Read
    BY <2>1, <2>2 DEF Drained, Read, tracker
  <2>3. CASE IdleReset \/ TryOpen \/ OpenOk \/ OpenFails \/ FailQueued \/ BackOff \/ LingerOver
    BY <2>3, <2>t DEF IdleReset, TryOpen, OpenOk, OpenFails, FailQueued, BackOff, LingerOver, Down
  <2>4. CASE Watchdog
    BY <2>4, <2>t DEF Watchdog
  <2>5. CASE Dequeue
    <3>1. /\ queue # <<>> /\ queue' = Tail(queue) /\ dev' = Head(queue)[1] /\ arg' = Head(queue)[2]
          /\ dev = "drain" /\ UNCHANGED <<realm, held>>
      BY <2>5 DEF Dequeue, tracker
    <3>2. cal' = cal /\ ~Landed
      BY <2>5, <3>1, <1>h, <2>t DEF Dequeue, Idle
    <3>3. ~Landed' /\ (Outstanding' => Outstanding)
      BY <3>1, <3>2, <1>h, <1>u DEF Landed, Outstanding
    <3>4. dev' = "collect" => queue' = <<>> /\ arg' = focused'
      <4>1. dev' = "collect" => Len(queue') = 0
        BY <3>1, <1>h, <2>t
      <4> QED BY <4>1, <3>1, <1>h, <2>t, <1>u
    <3>5. dev' = "discard" => arg' \notin calibrated'
      BY <3>1, <1>h, <2>t, <1>u
    <3>6. \A i \in DOMAIN queue' :
             /\ queue'[i][1] = "collect" => i = Len(queue') /\ queue'[i][2] = focused'
             /\ queue'[i][1] = "discard" => queue'[i][2] \notin calibrated'
      BY <3>1, <1>h, <2>t, <1>u
    <3>7. dev' \notin Down
      BY <3>1, <1>h DEF Down
    <3>8. Tracked'
      BY <1>u, <2>t, <3>1, <3>2, <3>3, <3>4, <3>5, <3>6, <3>7 DEF Tracked, Landed
    <3> QED BY <2>0, <3>2, <3>8
  <2>6. CASE CalCollect
    <3>1. PICK a \in Outcomes("add") :
            /\ held' = IF a.done /\ realm THEN held \cup {arg} ELSE held
            /\ cal' = on_collect(cal, a.acked)
      BY <2>6 DEF CalCollect
    <3>2. /\ dev = "collect" /\ dev' = "drain" /\ queue = <<>> /\ queue' = <<>> /\ arg = focused /\ realm' = realm
          /\ requested /\ ~Landed /\ ~cal.error /\ calibrated \subseteq held' /\ ~Outstanding'
      BY <2>6, <2>t, <3>1 DEF CalCollect, Ran, Outstanding
    <3>3. CASE a.acked
      <4>1. focused \in held'
        BY <3>1, <3>2, <3>3, <2>t, OutcomesAre
      <4>2. cal' = [cal EXCEPT !.collected = cal.collected + 1, !.error = FALSE]
        BY <3>1, <3>3 DEF on_collect
      <4>3. cal'.collected = cal.collected + 1 /\ ~cal'.error /\ cal'.active /\ cal'.finished = "none"
        BY <4>2, <2>t, <1>w DEF Cals
      <4>4. Landed' /\ Idle'
        BY <4>3, <3>2, <2>t, <1>u DEF Landed, Idle
      <4>5. Tracked'
        BY <4>1, <4>3, <4>4, <3>2, <2>t, <1>u DEF Tracked, Down
      <4> QED BY <4>3, <4>5, <2>0
    <3>4. CASE ~a.acked
      <4>1. cal' = [cal EXCEPT !.error = TRUE]
        BY <3>1, <3>4 DEF on_collect
      <4>2. cal'.collected = cal.collected /\ cal'.active /\ cal'.finished = "none"
        BY <4>1, <2>t, <1>w DEF Cals
      <4>3. ~Landed'
        BY <4>2, <3>2, <1>u DEF Landed
      <4>4. Tracked'
        BY <4>2, <4>3, <3>2, <2>t, <1>u DEF Tracked, Down, Landed
      <4> QED BY <4>2, <4>4, <2>0
    <3> QED BY <3>3, <3>4
  <2>7. CASE CalDiscard
    <3>1. /\ dev = "discard" /\ dev' = "drain" /\ UNCHANGED <<queue, cal, realm>> /\ ~Landed
          /\ arg \notin calibrated /\ held' \in {held, held \ {arg}}
      BY <2>7, <2>t DEF CalDiscard, Ran, Idle
    <3>2. ~Landed' /\ (Outstanding' <=> Outstanding) /\ calibrated' \subseteq held'
      BY <3>1, <1>u, <2>t DEF Landed, Outstanding
    <3>3. Tracked'
      BY <1>u, <2>t, <3>1, <3>2 DEF Tracked, Down, Landed
    <3> QED BY <2>0, <3>1, <3>3
  <2>8. CASE CalComputeGroup
    <3>1. /\ dev = "compute" /\ dev' = "drain" /\ UNCHANGED <<queue, realm, held>> /\ ~Landed
          /\ cal' \in {cal, on_finish(cal, "err")}
      BY <2>8, <2>t DEF CalComputeGroup, Ran, Idle
    <3>2. CASE cal' = cal
      <4>1. ~Landed' /\ (Outstanding' <=> Outstanding)
        BY <3>1, <3>2, <1>u DEF Landed, Outstanding
      <4>2. Tracked'
        BY <1>u, <2>t, <3>1, <3>2, <4>1 DEF Tracked, Down, Landed
      <4> QED BY <2>0, <3>2, <4>2
    <3>3. CASE cal' = on_finish(cal, "err")
      <4>1. cal'.finished = "err"
        BY <3>3, <1>o, <1>w
      <4>2. snap.token = token => snap.collected <= accounted
        BY <3>1, <2>t, <1>w DEF TakenUp
      <4>3. Doomed'
        BY <4>1, <4>2, <1>u, <1>a DEF Doomed
      <4> QED BY <4>3, <1>1, <1>u DEF CompleteInv
    <3> QED BY <3>1, <3>2, <3>3
  <2>9. CASE CalBegin \/ CalFinish \/ CalAbort
    BY <2>9, <1>w, <1>c DEF CalBegin, CalFinish, CalAbort, NoFinish
  <2> QED BY <2>2, <2>3, <2>4, <2>5, <2>6, <2>7, <2>8, <2>9 DEF Device
<1> QED BY <1>c, <1>3, <1>4

(* The finish is run on what the tracker holds, and is run once. *)
LEMMA FinishKept ==
    ASSUME CalInv, SessionInv, CompleteInv, phase \in {"computing", "ok"}, Device \/ Watchdog \/ LingerOver
    PROVE  CompleteInv'
<1>u. UNCHANGED <<phase, token, snap>>
  BY DEF Device, IdleReset, TryOpen, OpenOk, OpenFails, FailQueued, BackOff, Dequeue, Drained, Read, Watchdog,
         LingerOver, CloseSession, CalBegin, CalCollect, CalDiscard, CalComputeGroup, CalFinish, CalAbort, Ran,
         flow, tick
<1>w. /\ TakenUp /\ dev # "abort" /\ cal \in Cals /\ queue \in Seq(Messages) /\ held \subseteq Points
      /\ taken \in 0..Len(queue)
  BY DEF SessionInv, TakenUp, CalInv, TypeOK, SharedOK, TrackerOK, DeviceOK
<1>o. \A c \in Cals, r \in {"ok", "err"} : on_finish(c, r).finished = r
  BY DEF on_finish, Cals
<1>1. CASE phase = "computing" /\ FinishComes
  <2>f. /\ (dev = "finish" /\ queue = <<>>) \/ (dev \in {"drain", "read"} /\ queue = <<<<"finish", 0>>>>)
        /\ cal.active /\ cal.finished = "none" /\ Points \subseteq held
        /\ snap.token = token => snap.finished = "none"
    BY <1>1 DEF FinishComes
  <2>1. CASE Dequeue
    <3>1. dev' = "finish" /\ queue' = <<>> /\ UNCHANGED <<cal, held>>
      <4>1. queue = <<<<"finish", 0>>>> /\ dev' = Head(queue)[1] /\ queue' = Tail(queue)
        BY <2>1, <2>f DEF Dequeue
      <4>2. Head(queue)[1] = "finish" /\ Tail(queue) = <<>>
        BY <4>1
      <4> QED BY <2>1, <4>1, <4>2 DEF Dequeue, tracker
    <3> QED BY <3>1, <2>f, <1>1, <1>u DEF CompleteInv, FinishComes
  <2>2. CASE Drained \/ Read
    <3>1. dev' \in {"drain", "read"} /\ UNCHANGED <<queue, cal, held>> /\ dev \in {"drain", "read"}
      BY <2>2 DEF Drained, Read, tracker
    <3> QED BY <3>1, <2>f, <1>1, <1>u DEF CompleteInv, FinishComes
  <2>3. CASE CalFinish
    <3>1. /\ dev' = "drain" /\ queue' = <<>>
          /\ \/ cal' = on_finish(cal, "ok") /\ disk' = [run |-> cal.token, points |-> held]
             \/ cal' = on_finish(cal, "err") /\ disk' = disk
      BY <2>3, <2>f DEF CalFinish, Ran
    <3>2. cal'.finished = "ok" => disk'.points = Points
      <4>1. held = Points /\ on_finish(cal, "err").finished = "err"
        BY <2>f, <1>o, <1>w
      <4>2. CASE cal' = on_finish(cal, "ok") /\ disk' = [run |-> cal.token, points |-> held]
        BY <4>1, <4>2
      <4> QED BY <3>1, <4>1, <4>2
    <3>3. FinishIsDone'
      BY <3>1, <3>2, <2>f, <1>u DEF FinishIsDone, NoFinish
    <3> QED BY <3>3, <1>1, <1>u DEF CompleteInv
  <2>4. CASE Watchdog \/ LingerOver \/ IdleReset
    BY <1>1, <2>4, <2>f DEF Watchdog, LingerOver, IdleReset
  <2> QED BY <2>1, <2>2, <2>3, <2>4, <2>f DEF Device, TryOpen, OpenOk, OpenFails, FailQueued, BackOff, CalBegin,
             CalCollect, CalDiscard, CalComputeGroup, CalAbort
<1>2. CASE phase = "computing" /\ FinishIsDone
  <2>f. dev # "finish" /\ queue = <<>> /\ NoFinish
    BY <1>2 DEF FinishIsDone, NoFinish
  <2>1. ASSUME UNCHANGED <<queue, disk>>, dev' # "finish", cal'.finished \in {cal.finished, "err", "none"}
        PROVE  CompleteInv'
    <3>1. FinishIsDone'
      BY <1>2, <1>u, <2>f, <2>1 DEF FinishIsDone, NoFinish
    <3> QED BY <1>2, <1>u, <3>1 DEF CompleteInv
  <2>2. CASE Dequeue \/ FailQueued \/ CalFinish \/ CalAbort \/ IdleReset \/ LingerOver
    BY <1>2, <2>2, <2>f, <1>w DEF Dequeue, FailQueued, CalFinish, CalAbort, IdleReset, LingerOver
  <2>3. CASE CalBegin
    <3>1. /\ cal' = [cal EXCEPT !.started = TRUE] \/ cal' = on_finish(cal, "err")
          /\ UNCHANGED <<queue, disk>> /\ dev' = "drain"
      BY <2>3 DEF CalBegin, Ran
    <3>2. cal'.finished \in {cal.finished, "err"}
      BY <3>1, <1>o, <1>w DEF Cals
    <3> QED BY <2>1, <3>1, <3>2
  <2>4. CASE CalCollect
    <3>1. cal'.finished = cal.finished
      BY <2>4, <1>w DEF CalCollect, on_collect, Cals
    <3> QED BY <2>1, <2>4, <3>1 DEF CalCollect, Ran
  <2>5. CASE CalComputeGroup
    <3>1. cal'.finished \in {cal.finished, "err"}
      BY <2>5, <1>o, <1>w DEF CalComputeGroup
    <3> QED BY <2>1, <2>5, <3>1 DEF CalComputeGroup, Ran
  <2>6. CASE TryOpen \/ OpenOk \/ OpenFails \/ BackOff \/ Drained \/ Read \/ Watchdog \/ CalDiscard
    BY <2>1, <2>6 DEF TryOpen, OpenOk, OpenFails, BackOff, Drained, Read, Watchdog, CloseSession, CalDiscard, Ran,
                      tracker
  <2> QED BY <2>2, <2>3, <2>4, <2>5, <2>6 DEF Device
<1>3. CASE phase = "ok"
  <2>1. NoFinish /\ disk.points = Points
    BY <1>3 DEF CompleteInv
  <2>2. disk' = disk
    BY <1>3, <2>1 DEF NoFinish, Device, IdleReset, TryOpen, OpenOk, OpenFails, FailQueued, BackOff, Dequeue, Drained,
         Read, Watchdog, LingerOver, CloseSession, CalBegin, CalCollect, CalDiscard, CalComputeGroup, CalFinish,
         CalAbort, Ran, tracker
  <2>3. CASE queue # <<>> /\ queue' = Tail(queue) /\ dev' \in {Head(queue)[1], "failing"}
    <3>1. /\ DOMAIN queue = 1..Len(queue) /\ DOMAIN queue' = 1..(Len(queue) - 1) /\ Len(queue) \in Nat \ {0}
          /\ \A i \in 1..(Len(queue) - 1) : queue'[i] = queue[i + 1]
          /\ Head(queue) = queue[1]
      BY <1>w, <2>3, QueueShrinks
    <3>2. NoFinish'
      BY <2>1, <2>3, <3>1 DEF NoFinish
    <3> QED BY <1>3, <1>u, <2>1, <2>2, <3>2 DEF CompleteInv
  <2>4. CASE queue' = queue /\ dev' # "finish"
    <3>1. NoFinish'
      BY <2>1, <2>4 DEF NoFinish
    <3> QED BY <1>3, <1>u, <2>1, <2>2, <3>1 DEF CompleteInv
  <2>5. CASE Dequeue \/ FailQueued
    BY <1>w, <2>3, <2>5 DEF Dequeue, FailQueued, CalInv, TypeOK, DeviceOK
  <2>6. CASE IdleReset
    BY <1>3, <2>6 DEF IdleReset
  <2> QED BY <2>4, <2>5, <2>6 DEF Device, TryOpen, OpenOk, OpenFails, BackOff, Drained, Read, Watchdog, LingerOver,
             CloseSession, CalBegin, CalCollect, CalDiscard, CalComputeGroup, CalFinish, CalAbort, Ran
<1> QED BY <1>1, <1>2, <1>3 DEF CompleteInv

LEMMA CompleteNext == Prompt /\ CalInv /\ SessionInv /\ CompleteInv /\ [Next]_vars => CompleteInv'
<1> SUFFICES ASSUME Prompt, CalInv, SessionInv, CompleteInv, [Next]_vars PROVE CompleteInv'
  OBVIOUS
<1>1. CASE Launch \/ Begin \/ Close
  BY <1>1, WindowComplete
<1>2. CASE Tick
  BY <1>2, TickComplete
<1>3. CASE Device \/ Watchdog \/ LingerOver
  <2>1. phase' = phase
    BY <1>3 DEF Device, IdleReset, TryOpen, OpenOk, OpenFails, FailQueued, BackOff, Dequeue, Drained, Read, Watchdog,
         LingerOver, CloseSession, CalBegin, CalCollect, CalDiscard, CalComputeGroup, CalFinish, CalAbort, Ran, flow
  <2>2. CASE phase = "starting"
    BY <1>3, <2>1, <2>2, StartingKept DEF CompleteInv
  <2> QED BY <1>3, <2>1, <2>2, CollectingKept, FinishKept DEF CompleteInv
<1>4. CASE UNCHANGED vars
  BY <1>4 DEF vars, flow, tick, thread, tracker, CompleteInv, Starting, Fresh, NoFinish, Doomed, accounted, Tracked,
              Landed, Idle, Outstanding, FinishComes, FinishIsDone
<1> QED BY <1>1, <1>2, <1>3, <1>4 DEF Next

(* With a tracker that answers a collect before the flow gives up on it, and   *)
(* whatever else it leaves unanswered, a run reported as complete was fitted   *)
(* to every point: none was lost to a discard sent late, and no ack was        *)
(* charged to a point it is not of (`resolve_group_focus`, `read_advance`).    *)
THEOREM CalCompleteRun ==
    ASSUME Prompt
    PROVE  Spec => []CompleteRun
<1>1. Init => CompleteInv
  BY DEF Init, CompleteInv
<1>2. CalInv /\ SessionInv /\ CompleteInv /\ [Next]_vars => CompleteInv'
  BY CompleteNext
<1>3. CompleteInv => CompleteRun
  BY DEF CompleteInv, CompleteRun
<1> QED BY <1>1, <1>2, <1>3, CalInvHolds, CalSessionHolds, PTL DEF Spec

-----------------------------------------------------------------------------
LEMMA AnsweredIsAcked ==
    ASSUME Answered, NEW r \in {"stop", "apply", "compute", "retrieve", "save"}, NEW o \in Outcomes(r)
    PROVE  o.done /\ o.acked
<1>1. r \notin Unanswered
  BY DEF Answered
<1>2. o = Ack
  BY <1>1 DEF Outcomes
<1> QED BY <1>2 DEF Ack

(* What the flow sends goes behind a compute, and is one only when the thread  *)
(* has nothing else to do in a session that is open.                         *)
LEMMA FlowRestored ==
    ASSUME CalInv, SessionInv, CompleteInv, RestoredInv, Launch \/ Begin \/ Close \/ Tick
    PROVE  RestoredInv'
<1>q. queue \in Seq(Messages) /\ Len(queue) \in Nat /\ cal \in Cals /\ DOMAIN queue = 1..Len(queue)
  BY DEF CalInv, TypeOK, SharedOK
<1>u. UNCHANGED <<dev, open, model, disk>> /\ cal'.active = cal.active
  <2>1. cal' = cal \/ take_last_error
    BY DEF Launch, Begin, Close, Tick, Snapshot, StartTimeout, Started, StartFailed, Wait, SessionFailed, Rejected,
           Captured, Unattributable, Focus, LostFocus, Settled, Deadline, Computed, ComputeTimeout, Reading,
           Dwelling, CollectingTick
  <2>2. UNCHANGED <<thread, tracker>>
    BY DEF Launch, Begin, Close, Tick, Snapshot, StartTimeout, Started, StartFailed, Wait, SessionFailed, Rejected,
           Captured, Unattributable, Focus, LostFocus, Settled, Deadline, Computed, ComputeTimeout
  <2> QED BY <2>1, <2>2, ErrorTaken DEF thread, tracker
<1>1. OnSaved'
  BY <1>u DEF RestoredInv, OnSaved, Blob
<1>2. ComputeIsOpen'
  <2>1. ASSUME UNCHANGED queue PROVE ComputeIsOpen'
    BY <1>u, <2>1 DEF RestoredInv, ComputeIsOpen
  <2>2. ASSUME NEW op, NEW a, op # "compute", <<op, a>> \in Messages, Send(op, a) PROVE ComputeIsOpen'
    BY <1>q, <1>u, <2>2, QueueGrows DEF RestoredInv, ComputeIsOpen
  <2>3. CASE Captured
    <3>1. queue = <<>> /\ dev \in {"drain", "read"} /\ cal.active /\ realm
      BY <2>3, CapturedIs DEF Tracked
    <3>2. queue' \in {<<>>, <<<<"finish", 0>>>>, <<<<"compute", 0>>>>}
      BY <2>3, <3>1 DEF Captured, LastDone, NextGroup, Send
    <3>3. open
      BY <3>1 DEF CalInv, RealmKnown
    <3> QED BY <1>u, <3>1, <3>2, <3>3 DEF RestoredInv, ComputeIsOpen
  <2>4. CASE Rejected \/ LostFocus \/ Settled
    <3>1. focused \in Points
      BY <2>4 DEF Rejected, Rejection, LostFocus, Settled, CalInv, TypeOK, FlowOK, RequestedIsFocused
    <3>2. <<"discard", focused>> \in Messages /\ <<"collect", focused>> \in Messages /\ <<"abort", 0>> \in Messages
      BY <3>1, MessagesAre
    <3> QED BY <2>1, <2>2, <2>4, <3>2 DEF Rejected, GiveUp, LostFocus, Settled
  <2>5. CASE Begin
    <3>1. token' \in 1..MaxRuns
      BY <2>5, Zeros DEF Begin, CalInv, TypeOK, FlowOK
    <3> QED BY <2>2, <2>5, <3>1, MessagesAre DEF Begin
  <2>6. CASE Close \/ StartTimeout \/ StartFailed \/ SessionFailed \/ Deadline \/ ComputeTimeout
    BY <2>1, <2>2, <2>6, MessagesAre DEF Close, StartTimeout, StartFailed, SessionFailed, Deadline, GiveUp,
                                         ComputeTimeout
  <2> QED BY <2>1, <2>3, <2>4, <2>5, <2>6 DEF Launch, Tick, Snapshot, Started, Wait, Unattributable, Focus, Computed
<1>3. AbortIsLast'
  <2>1. CASE Close
    <3>1. Len(queue') = Len(queue) + 1 /\ queue'[Len(queue) + 1] = <<"abort", 0>>
      BY <1>q, <2>1, QueueGrows, Sent, MessagesAre DEF Close
    <3> QED BY <1>q, <3>1 DEF AbortIsLast
  <2>2. CASE ~Close
    <3>1. phase' # "closed"
      BY <2>2 DEF Launch, Begin, Leave, Tick, Snapshot, StartTimeout, Started, StartFailed, Wait, SessionFailed,
             Rejected, Captured, LastDone, NextGroup, Collecting, Unattributable, Focus, LostFocus, Settled,
             Deadline, Computed, ComputeTimeout, Finished, Reshow, GiveUp, flow, Reading, Dwelling, CollectingTick
    <3> QED BY <3>1 DEF AbortIsLast
  <2> QED BY <2>1, <2>2
<1> QED BY <1>1, <1>2, <1>3 DEF RestoredInv

LEMMA DeviceRestored ==
    ASSUME Answered, CalInv, RestoredInv, Device \/ Watchdog \/ LingerOver
    PROVE  RestoredInv'
<1>q. queue \in Seq(Messages) /\ Len(queue) \in Nat /\ cal \in Cals /\ DOMAIN queue = 1..Len(queue)
      /\ taken \in 0..Len(queue)
  BY DEF CalInv, TypeOK, SharedOK, DeviceOK
<1>u. UNCHANGED phase
  BY DEF Device, IdleReset, TryOpen, OpenOk, OpenFails, FailQueued, BackOff, Dequeue, Drained, Read, Watchdog,
         LingerOver, CloseSession, CalBegin, CalCollect, CalDiscard, CalComputeGroup, CalFinish, CalAbort, Ran,
         flow
<1>i. /\ \A i \in DOMAIN queue : queue[i][1] = "compute" => i = 1 /\ dev \in {"drain", "read"} /\ cal.active /\ open
      /\ dev = "compute" => open
      /\ phase = "closed" => \/ queue # <<>> /\ queue[Len(queue)] = <<"abort", 0>>
                             \/ queue = <<>> /\ (dev \in Down \cup {"abort"} \/ (~open /\ dev \in {"drain", "read"}))
      /\ dev \notin Down /\ ~open => ~Blob \/ model = "saved"
  BY DEF RestoredInv, ComputeIsOpen, AbortIsLast, OnSaved
<1>1. ASSUME dev' \in Down, UNCHANGED queue,
             \A i \in DOMAIN queue : queue[i][1] # "compute"
      PROVE  RestoredInv'
  BY <1>1, <1>i, <1>u DEF RestoredInv, ComputeIsOpen, AbortIsLast, OnSaved, Down
<1>2. CASE IdleReset \/ TryOpen \/ OpenFails \/ BackOff \/ Watchdog \/ LingerOver
  <2>1. \A i \in DOMAIN queue : queue[i][1] # "compute"
    BY <1>2, <1>i DEF IdleReset, TryOpen, OpenFails, BackOff, Watchdog, LingerOver, Down
  <2>2. dev' \in Down /\ UNCHANGED queue
    BY <1>2 DEF IdleReset, TryOpen, OpenFails, BackOff, Watchdog, LingerOver, CloseSession, Down
  <2> QED BY <1>1, <2>1, <2>2
<1>3. CASE OpenOk
  <2>1. PICK a \in Outcomes("apply") : model' = IF Blob /\ a.done THEN "saved" ELSE "none"
    BY <1>3 DEF OpenOk
  <2>2. a.done
    BY AnsweredIsAcked
  <2>3. dev = "opening" /\ dev' = "drain" /\ ~open' /\ UNCHANGED <<queue, disk>>
    BY <1>3 DEF OpenOk
  <2>4. \A i \in DOMAIN queue : queue[i][1] # "compute"
    BY <1>i, <2>3
  <2> QED BY <1>i, <1>u, <2>1, <2>2, <2>3, <2>4 DEF RestoredInv, ComputeIsOpen, AbortIsLast, OnSaved, Blob
<1>4. CASE Drained \/ Read
  <2>1. dev \in {"drain", "read"} /\ dev' \in {"drain", "read"} /\ UNCHANGED <<queue, cal, open, model, disk>>
    BY <1>4 DEF Drained, Read, tracker
  <2> QED BY <1>i, <1>u, <2>1 DEF RestoredInv, ComputeIsOpen, AbortIsLast, OnSaved, Blob, Down
<1>5. CASE Dequeue \/ FailQueued
  <2>1. /\ queue # <<>> /\ queue' = Tail(queue) /\ UNCHANGED <<open, model, disk>>
        /\ \/ dev = "drain" /\ dev' = Head(queue)[1]
           \/ dev' = "failing"
    BY <1>5, <1>q DEF Dequeue, FailQueued, tracker
  <2>2. /\ DOMAIN queue' = 1..(Len(queue) - 1) /\ Len(queue') = Len(queue) - 1 /\ Head(queue) = queue[1]
        /\ \A i \in 1..(Len(queue) - 1) : queue'[i] = queue[i + 1]
        /\ Len(queue) \in Nat \ {0} /\ queue' \in Seq(Messages)
    BY <1>q, <2>1, QueueShrinks, HeadTail
  <2>3. \A i \in DOMAIN queue' : queue'[i][1] # "compute"
    <3> SUFFICES ASSUME NEW i \in DOMAIN queue' PROVE queue'[i][1] # "compute"
      OBVIOUS
    <3>1. i \in 1..(Len(queue) - 1) /\ i + 1 \in DOMAIN queue /\ i + 1 # 1 /\ queue'[i] = queue[i + 1]
      BY <1>q, <2>2
    <3> QED BY <1>i, <3>1
  <2>4. dev' = "compute" => open
    BY <1>i, <1>q, <2>1, <2>2
  <2>5. AbortIsLast'
    <3>1. CASE Len(queue) = 1
      <4>1. phase = "closed" => Head(queue) = <<"abort", 0>>
        BY <1>i, <2>1, <2>2, <3>1
      <4>2. queue' = <<>>
        BY <2>2, <3>1
      <4> QED BY <1>u, <2>1, <4>1, <4>2 DEF AbortIsLast, Down
    <3>2. CASE Len(queue) # 1
      <4>1. queue' # <<>> /\ queue'[Len(queue')] = queue[Len(queue)]
        BY <2>2, <3>2
      <4> QED BY <1>i, <1>u, <2>1, <4>1 DEF AbortIsLast
    <3> QED BY <3>1, <3>2
  <2>6. OnSaved'
    BY <1>i, <2>1 DEF OnSaved, Blob, Down
  <2> QED BY <2>1, <2>3, <2>4, <2>5, <2>6 DEF RestoredInv, ComputeIsOpen
<1>6. ASSUME Ran, dev \in Commands, OnSaved', dev = "abort" => ~open'
      PROVE  RestoredInv'
  <2>1. dev' = "drain" /\ queue' = queue
    BY <1>6 DEF Ran
  <2>2. \A i \in DOMAIN queue : queue[i][1] # "compute"
    BY <1>6, <1>i DEF Commands
  <2>3. AbortIsLast'
    BY <1>6, <1>i, <1>u, <2>1 DEF AbortIsLast, Commands, Down
  <2> QED BY <1>6, <2>1, <2>2, <2>3 DEF RestoredInv, ComputeIsOpen
<1>7. CASE CalBegin
  BY <1>6, <1>7 DEF CalBegin, Commands, OnSaved
<1>8. CASE CalCollect \/ CalDiscard
  BY <1>6, <1>8, <1>i DEF CalCollect, CalDiscard, Commands, OnSaved, Blob, Down
<1>9. CASE CalComputeGroup
  BY <1>6, <1>9, <1>i DEF CalComputeGroup, Commands, OnSaved
<1>10. CASE CalFinish
  <2>1. PICK c \in Outcomes("compute"), r \in Outcomes("retrieve"), w \in Outcomes("save") :
          c.acked /\ r.acked /\ w.acked => model' = "saved"
    BY <1>10 DEF CalFinish
  <2>2. model' = "saved"
    BY <2>1, AnsweredIsAcked
  <2> QED BY <1>6, <1>10, <2>2 DEF CalFinish, Commands, OnSaved
<1>11. CASE CalAbort
  <2>1. PICK s \in Outcomes("stop"), a \in Outcomes("apply") :
          open' = (open /\ ~s.acked) /\ model' = IF open /\ Blob /\ a.done THEN "saved" ELSE model
    BY <1>11 DEF CalAbort
  <2>2. s.acked /\ a.done
    BY AnsweredIsAcked
  <2>3. OnSaved'
    BY <1>11, <1>i, <2>1, <2>2 DEF CalAbort, OnSaved, Blob, Down
  <2> QED BY <1>6, <1>11, <2>1, <2>2, <2>3 DEF CalAbort, Commands
<1> QED BY <1>2, <1>3, <1>4, <1>5, <1>7, <1>8, <1>9, <1>10, <1>11 DEF Device

(* ... and when the requests that end a session are answered as well, a flow  *)
(* that is closed has left the tracker out of the realm and on the saved       *)
(* calibration, whichever session was lost or given up (`CalAbort`).          *)
THEOREM CalRestored ==
    ASSUME Prompt, Answered
    PROVE  Spec => []Restored
<1>1. Init => RestoredInv /\ CompleteInv
  BY DEF Init, CompleteInv, RestoredInv, ComputeIsOpen, AbortIsLast, OnSaved, Down
<1>2. CalInv /\ SessionInv /\ CompleteInv /\ [Next]_vars => CompleteInv'
  BY CompleteNext
<1>3. CalInv /\ SessionInv /\ CompleteInv /\ RestoredInv /\ [Next]_vars => RestoredInv'
  <2> SUFFICES ASSUME CalInv, SessionInv, CompleteInv, RestoredInv, [Next]_vars PROVE RestoredInv'
    OBVIOUS
  <2>1. CASE UNCHANGED vars
    BY <2>1 DEF vars, flow, tick, thread, tracker, RestoredInv, ComputeIsOpen, AbortIsLast, OnSaved, Blob
  <2> QED BY <2>1, FlowRestored, DeviceRestored DEF Next
<1>4. CalInv /\ RestoredInv => Restored
  BY DEF CalInv, RealmKnown, RestoredInv, AbortIsLast, OnSaved, Restored, Down
<1> QED BY <1>1, <1>2, <1>3, <1>4, CalInvHolds, CalSessionHolds, PTL DEF Spec
=============================================================================
