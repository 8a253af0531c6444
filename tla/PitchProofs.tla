----------------------------- MODULE PitchProofs -----------------------------
(* The head: how it is followed and the two measurements of it.  PitchZero    *)
(* for any number of runs, leases and unpluggings: its types, and that what   *)
(* is measured, saved and shown is the run's own.  Recentre for any postures, *)
(* sessions and requests: that what is applied was held, and that a           *)
(* measurement ends in time.  HeadTracker for any pictures and frames.        *)
EXTENDS PitchZero, Recentre, HeadTracker, FiniteSetTheorems, WellFoundedInduction, TLAPS

LEMMA TailQueue ==
    ASSUME NEW S, NEW q \in Seq(S), q # <<>>
    PROVE  /\ Tail(q) \in Seq(S) /\ Head(q) \in S /\ In(q, Head(q))
           /\ \A t : In(Tail(q), t) => In(q, t)
           /\ Once(q) => Once(Tail(q)) /\ \A t : t # Reload /\ t = Head(q) => ~In(Tail(q), t)
<1>1. /\ Len(q) \in Nat /\ Len(q) >= 1 /\ Tail(q) \in Seq(S) /\ Head(q) \in S /\ Head(q) = q[1]
      /\ DOMAIN q = 1..Len(q) /\ DOMAIN Tail(q) = 1..(Len(q) - 1)
      /\ \A i \in DOMAIN Tail(q) : Tail(q)[i] = q[i + 1] /\ i + 1 \in DOMAIN q /\ i + 1 # 1
  OBVIOUS
<1>2. In(q, Head(q))
  BY <1>1 DEF In
<1>3. \A t : In(Tail(q), t) => In(q, t)
  BY <1>1 DEF In
<1>4. ASSUME Once(q) PROVE Once(Tail(q))
  <2> SUFFICES ASSUME NEW i \in DOMAIN Tail(q), NEW j \in DOMAIN Tail(q), Tail(q)[i] = Tail(q)[j], Tail(q)[i] # Reload
               PROVE  i = j
    BY DEF Once
  <2>1. i + 1 = j + 1
    BY <1>1, <1>4 DEF Once
  <2> QED BY <1>1, <2>1
<1>5. ASSUME Once(q), Head(q) # Reload PROVE ~In(Tail(q), Head(q))
  <2> SUFFICES ASSUME NEW i \in DOMAIN Tail(q), Tail(q)[i] = Head(q) PROVE FALSE
    BY DEF In
  <2>1. 1 \in DOMAIN q /\ q[1] = q[i + 1] /\ q[1] # Reload
    BY <1>1, <1>5
  <2> QED BY <1>1, <1>5, <2>1 DEF Once
<1> QED BY <1>1, <1>2, <1>3, <1>4, <1>5

LEMMA AppendQueue ==
    ASSUME NEW S, NEW q \in Seq(S), NEW a \in S
    PROVE  /\ Append(q, a) \in Seq(S)
           /\ \A t : In(Append(q, a), t) <=> In(q, t) \/ t = a
           /\ Once(q) /\ (a = Reload \/ ~In(q, a)) => Once(Append(q, a))
<1>1. /\ Len(q) \in Nat /\ DOMAIN q = 1..Len(q) /\ DOMAIN Append(q, a) = 1..(Len(q) + 1)
      /\ Append(q, a)[Len(q) + 1] = a /\ \A i \in 1..Len(q) : Append(q, a)[i] = q[i]
      /\ Append(q, a) \in Seq(S)
  OBVIOUS
<1>2. \A i \in 1..(Len(q) + 1) : i \in 1..Len(q) \/ i = Len(q) + 1
  BY <1>1
<1>3. 1..Len(q) \subseteq 1..(Len(q) + 1) /\ Len(q) + 1 \in 1..(Len(q) + 1)
  BY <1>1
<1>4. \A t : In(Append(q, a), t) <=> In(q, t) \/ t = a
  BY <1>1, <1>2, <1>3 DEF In
<1>5. ASSUME Once(q), a = Reload \/ ~In(q, a) PROVE Once(Append(q, a))
  BY <1>1, <1>2, <1>3, <1>5 DEF Once, In
<1> QED BY <1>1, <1>4, <1>5

LEMMA JoinedQueues ==
    ASSUME NEW S, NEW q \in Seq(S), NEW r \in Seq(S)
    PROVE  /\ q \o r \in Seq(S)
           /\ \A t : In(q \o r, t) <=> In(q, t) \/ In(r, t)
           /\ Once(q) /\ Once(r) /\ (\A t \in S : In(q, t) /\ In(r, t) => t = Reload) => Once(q \o r)
<1>1. /\ Len(q) \in Nat /\ Len(r) \in Nat /\ DOMAIN q = 1..Len(q) /\ DOMAIN r = 1..Len(r)
      /\ DOMAIN (q \o r) = 1..(Len(q) + Len(r)) /\ q \o r \in Seq(S)
  OBVIOUS
<1>2. \A i \in 1..(Len(q) + Len(r)) :
         \/ i \in DOMAIN q /\ (q \o r)[i] = q[i]
         \/ i - Len(q) \in DOMAIN r /\ (q \o r)[i] = r[i - Len(q)]
  <2> SUFFICES ASSUME NEW i \in 1..(Len(q) + Len(r))
               PROVE \/ i \in DOMAIN q /\ (q \o r)[i] = q[i]
                     \/ i - Len(q) \in DOMAIN r /\ (q \o r)[i] = r[i - Len(q)]
    OBVIOUS
  <2>1. CASE i <= Len(q)
    BY <1>1, <2>1
  <2>2. CASE i > Len(q)
    BY <1>1, <2>2
  <2> QED BY <1>1, <2>1, <2>2
<1>3. /\ \A i \in DOMAIN q : i \in 1..(Len(q) + Len(r)) /\ (q \o r)[i] = q[i]
      /\ \A i \in DOMAIN r : i + Len(q) \in 1..(Len(q) + Len(r)) /\ (q \o r)[i + Len(q)] = r[i]
  BY <1>1
<1>0. \A i \in DOMAIN q : q[i] \in S
  OBVIOUS
<1>4. \A t : In(q \o r, t) <=> In(q, t) \/ In(r, t)
  BY <1>1, <1>2, <1>3 DEF In
<1>5. ASSUME Once(q), Once(r), \A t \in S : In(q, t) /\ In(r, t) => t = Reload PROVE Once(q \o r)
  <2> SUFFICES ASSUME NEW i \in 1..(Len(q) + Len(r)), NEW j \in 1..(Len(q) + Len(r)),
                      (q \o r)[i] = (q \o r)[j], (q \o r)[i] # Reload
               PROVE  i = j
    BY <1>1 DEF Once
  <2>1. CASE i \in DOMAIN q /\ (q \o r)[i] = q[i]
    <3>1. CASE j \in DOMAIN q /\ (q \o r)[j] = q[j]
      BY <1>5, <2>1, <3>1 DEF Once
    <3>2. CASE j - Len(q) \in DOMAIN r /\ (q \o r)[j] = r[j - Len(q)]
      <4>1. q[i] = r[j - Len(q)] /\ q[i] \in S /\ q[i] # Reload
        BY <1>0, <2>1, <3>2
      <4>2. In(q, q[i]) /\ In(r, r[j - Len(q)])
        BY <2>1, <3>2 DEF In
      <4> QED BY <1>5, <4>1, <4>2
    <3> QED BY <1>2, <3>1, <3>2
  <2>2. CASE i - Len(q) \in DOMAIN r /\ (q \o r)[i] = r[i - Len(q)]
    <3>1. CASE j \in DOMAIN q /\ (q \o r)[j] = q[j]
      <4>1. q[j] = r[i - Len(q)] /\ q[j] \in S /\ q[j] # Reload
        BY <1>0, <2>2, <3>1
      <4>2. In(q, q[j]) /\ In(r, r[i - Len(q)])
        BY <2>2, <3>1 DEF In
      <4> QED BY <1>5, <4>1, <4>2
    <3>2. CASE j - Len(q) \in DOMAIN r /\ (q \o r)[j] = r[j - Len(q)]
      <4>1. i - Len(q) = j - Len(q)
        BY <1>5, <2>2, <3>2 DEF Once
      <4> QED BY <1>1, <4>1
    <3> QED BY <1>2, <3>1, <3>2
  <2> QED BY <1>2, <2>1, <2>2
<1> QED BY <1>1, <1>4, <1>5

-----------------------------------------------------------------------------
LEMMA NoneQueued == \A t : ~In(<<>>, t) /\ Once(<<>>)
BY DEF In, Once

(* The types in three parts: what is true or false, what counts, who is where. *)
Flags ==
    /\ win \in BOOLEAN /\ go \in BOOLEAN /\ focus \in BOOLEAN /\ lease \in BOOLEAN
    /\ reachable \in BOOLEAN /\ others \in BOOLEAN
States == [token : Tokens, active : BOOLEAN, result : {"none", "ok", "err"}]
Numbers ==
    /\ minted \in Tokens /\ sending \in Tokens /\ poll \in Tokens /\ run \in Tokens
    /\ pc \in States
    /\ rx \in Seq(Tokens) /\ taken \in Seq(Tokens)
    /\ leases \in Nat /\ unplugs \in Nat
    /\ savedRuns \subseteq Tokens /\ dropped \subseteq Tokens
Places ==
    /\ dev \in {"drain", "decide", "reset", "open", "fail", "apply", "loop", "tick",
                "measure", "save", "finish"}
    /\ back \in {"drain", "apply", "tick"}
    /\ status \in {"idle", "connecting", "connected", "error"}
    /\ idle \in {"none", "running", "over"} /\ outcome \in {"none", "ok", "err"}

LEMMA TypeParts == PitchTypeOK <=> Flags /\ Numbers /\ Places
BY DEF PitchTypeOK, Flags, Numbers, Places, States

LEMMA StateEnds ==
    ASSUME NEW p \in States, NEW r \in {"none", "ok", "err"}
    PROVE  [p EXCEPT !.active = FALSE] \in States /\ [p EXCEPT !.active = FALSE, !.result = r] \in States
BY DEF States

LEMMA PitchInvInit == ASSUME PitchAssumption, PitchInit PROVE PitchInv
<1>1. PitchTypeOK
  <2>1. Flags
    BY DEF PitchAssumption, PitchInit, Flags
  <2>2. Numbers /\ Places
    BY DEF PitchAssumption, PitchInit, Numbers, Places, Tokens, NoRun, States
  <2> QED BY <2>1, <2>2, TypeParts
<1>2. OneQueue
  BY NoneQueued DEF PitchInit, OneQueue, Queued
<1>3. OwnRun /\ PitchRunIsOwn
  BY DEF PitchInit, OwnRun, PitchRunIsOwn, DroppedNeverSaves, ResultIsOwn, NoRun
<1> QED BY <1>1, <1>2, <1>3 DEF PitchInv

(* A command that is taken off a queue is measured now or passed over.       *)
LEMMA Taken ==
    ASSUME NEW t, NEW from, Take(t, from)
    PROVE  /\ run' = run \/ (run' = t /\ t # Reload /\ current_run(t))
           /\ dev' = from \/ (dev' = "measure" /\ run' = t /\ t # Reload)
<1>1. CASE t # Reload /\ current_run(t)
  BY <1>1, Zenon DEF Take
<1>2. CASE ~(t # Reload /\ current_run(t))
  <2>1. dev' = from /\ UNCHANGED <<run, back>>
    BY <1>2, Zenon DEF Take
  <2>2. dev' = from /\ run' = run
    BY <2>1
  <2> QED BY <2>2
<1> QED BY <1>1, <1>2

LEMMA PitchNextTyped == ASSUME PitchAssumption, PitchTypeOK, [PitchNext]_pitchVars PROVE PitchTypeOK'
<1> USE TypeParts DEF ui, world, thread, past
<1>t. PitchTypeOK' <=> Flags' /\ Numbers' /\ Places'
  BY DEF PitchTypeOK, Flags, Numbers, Places, States
<1>0. CASE UNCHANGED pitchVars
  <2>1. Flags' /\ Places'
    BY <1>0 DEF pitchVars, Flags, Places
  <2>2. Numbers'
    BY <1>0 DEF pitchVars, Numbers
  <2> QED BY <2>1, <2>2, <1>t
<1> SUFFICES ASSUME PitchNext PROVE PitchTypeOK'
  BY <1>0
<1>1. Flags'
  <2> USE DEF Flags
  <2>1. CASE OpenDialog \/ HubTick \/ LeaseTaken \/ LeaseEnds
    BY <2>1 DEF OpenDialog, HubTick, LeaseTaken, LeaseEnds
  <2>2. CASE Unplug \/ Replug \/ LingerElapses
    BY <2>2 DEF Unplug, Replug, LingerElapses
  <2>3. CASE Start \/ Send \/ Poll \/ Close
    BY <2>3 DEF Start, Send, Poll, Close
  <2>4. CASE Drain \/ DecideSession \/ Reset \/ OpenOk \/ OpenFails \/ BackOff \/ Loop \/ FailQueued
    BY <2>4 DEF Drain, DecideSession, Reset, OpenOk, OpenFails, BackOff, Loop, FailQueued
  <2>5. CASE ApplyPending \/ Tick
    BY <2>5 DEF ApplyPending, Tick
  <2>6. CASE Cancelled \/ MeasureFails \/ Measured \/ Save \/ Finish
    BY <2>6 DEF Cancelled, MeasureFails, Measured, Save, Finish
  <2> QED BY <2>1, <2>2, <2>3, <2>4, <2>5, <2>6 DEF PitchNext, DevStep
<1>2. Places'
  <2> USE DEF Places
  <2>1. CASE OpenDialog \/ HubTick \/ LeaseTaken \/ LeaseEnds \/ Unplug \/ Replug \/ Start \/ Send \/ Poll \/ Close
    BY <2>1 DEF OpenDialog, HubTick, LeaseTaken, LeaseEnds, Unplug, Replug, Start, Send, Poll, Close
  <2>2. CASE LingerElapses \/ Drain \/ DecideSession \/ Reset \/ OpenOk \/ OpenFails \/ BackOff
    BY <2>2 DEF LingerElapses, Drain, DecideSession, Reset, OpenOk, OpenFails, BackOff
  <2>3. CASE Loop \/ FailQueued
    BY <2>3 DEF Loop, FailQueued
  <2>4. CASE ApplyPending \/ Tick
    BY <2>4 DEF ApplyPending, Tick, Take
  <2>5. CASE Cancelled \/ MeasureFails \/ Measured \/ Save \/ Finish
    BY <2>5 DEF Cancelled, MeasureFails, Measured, Save, Finish
  <2> QED BY <2>1, <2>2, <2>3, <2>4, <2>5 DEF PitchNext, DevStep
<1>3. Numbers'
  <2> USE DEF Numbers, PitchAssumption, Tokens, Reload
  <2>0. CASE UNCHANGED <<minted, sending, poll, run, pc, rx, taken, savedRuns, dropped>> /\ leases' \in Nat /\ unplugs' \in Nat
    BY <2>0
  <2>1. CASE OpenDialog \/ HubTick \/ LingerElapses
    BY <2>0, <2>1 DEF OpenDialog, HubTick, LingerElapses
  <2>13. CASE LeaseTaken \/ LeaseEnds
    BY <2>0, <2>13 DEF LeaseTaken, LeaseEnds
  <2>14. CASE Unplug \/ Replug
    BY <2>0, <2>14 DEF Unplug, Replug
  <2>2. CASE Start
    BY <2>2 DEF Start, States
  <2>3. CASE Send
    BY <2>3, AppendQueue DEF Send
  <2>4. CASE Poll
    <3>1. /\ poll' = 0 /\ rx' \in {rx, Append(rx, 0)}
          /\ UNCHANGED <<minted, sending, run, pc, taken, leases, unplugs, savedRuns, dropped>>
      BY <2>4 DEF Poll
    <3>2. Append(rx, 0) \in Seq(Tokens) /\ 0 \in Tokens
      BY AppendQueue
    <3> QED BY <3>1, <3>2
  <2>5. CASE Close
    <3>1. /\ poll' = 0 /\ pc' = [pc EXCEPT !.active = FALSE] /\ dropped' \subseteq dropped \cup 1..MaxRuns
          /\ UNCHANGED <<minted, sending, run, rx, taken, leases, unplugs, savedRuns>>
      BY <2>5 DEF Close
    <3>2. pc' \in States
      BY <3>1, StateEnds
    <3>3. dropped' \subseteq Tokens
      BY <3>1
    <3> QED BY <3>1, <3>2, <3>3
  <2>6. CASE Drain
    BY <2>6, JoinedQueues DEF Drain
  <2>7. CASE DecideSession \/ OpenOk \/ OpenFails \/ BackOff \/ Loop
    BY <2>0, <2>7 DEF DecideSession, OpenOk, OpenFails, BackOff, Loop
  <2>12. CASE Reset
    BY <2>12 DEF Reset, NoRun, States
  <2>8. CASE FailQueued
    BY <2>8, TailQueue DEF FailQueued, States
  <2>9. CASE ApplyPending \/ Tick
    <3>1. UNCHANGED <<minted, sending, poll, pc, leases, unplugs, savedRuns, dropped>>
      BY <2>9 DEF ApplyPending, Tick
    <3>2. /\ rx' = rx \/ (rx # <<>> /\ rx' = Tail(rx))
          /\ taken' = taken \/ (taken # <<>> /\ taken' = Tail(taken))
          /\ run' = run \/ (rx # <<>> /\ run' = Head(rx)) \/ (taken # <<>> /\ run' = Head(taken))
      <4>1. CASE ApplyPending
        <5>1. rx' = rx /\ (taken = <<>> => UNCHANGED <<taken, run>>)
          BY <4>1 DEF ApplyPending
        <5>2. taken # <<>> => taken' = Tail(taken) /\ Take(Head(taken), "apply")
          BY <4>1 DEF ApplyPending
        <5> QED BY <5>1, <5>2, Taken
      <4>2. CASE Tick
        <5>1. taken' = taken /\ (rx = <<>> => UNCHANGED <<rx, run>>)
          BY <4>2 DEF Tick
        <5>2. rx # <<>> => rx' = Tail(rx) /\ Take(Head(rx), "tick")
          BY <4>2 DEF Tick
        <5> QED BY <5>1, <5>2, Taken
      <4> QED BY <2>9, <4>1, <4>2
    <3>3. /\ rx # <<>> => Tail(rx) \in Seq(Tokens) /\ Head(rx) \in Tokens
          /\ taken # <<>> => Tail(taken) \in Seq(Tokens) /\ Head(taken) \in Tokens
      BY TailQueue
    <3> QED BY <3>1, <3>2, <3>3
  <2>10. CASE Cancelled \/ MeasureFails \/ Measured \/ Save
    BY <2>10 DEF Cancelled, MeasureFails, Measured, Save
  <2>11. CASE Finish
    <3>1. /\ pc' \in {pc, [pc EXCEPT !.active = FALSE, !.result = outcome]} /\ run' = 0
          /\ UNCHANGED <<minted, sending, poll, rx, taken, leases, unplugs, savedRuns, dropped>>
      BY <2>11 DEF Finish
    <3>2. outcome \in {"none", "ok", "err"}
      BY DEF Places
    <3>3. pc' \in States
      BY <3>1, <3>2, StateEnds
    <3> QED BY <3>1, <3>3
  <2> QED BY <2>1, <2>2, <2>3, <2>4, <2>5, <2>6, <2>7, <2>8, <2>9, <2>10, <2>11, <2>12, <2>13, <2>14 DEF PitchNext, DevStep
<1> QED BY <1>t, <1>1, <1>2, <1>3

LEMMA PitchNextQueue ==
    ASSUME PitchAssumption, PitchInv, [PitchNext]_pitchVars
    PROVE  OneQueue'
<1>1. /\ PitchTypeOK /\ OneQueue /\ OwnRun /\ rx \in Seq(Tokens) /\ taken \in Seq(Tokens)
      /\ minted \in Nat /\ \A t \in Tokens : t \in Nat
      /\ \A t \in Tokens : t <= minted => t # minted + 1 /\ t <= minted + 1
  BY DEF PitchInv, PitchTypeOK, PitchAssumption, Tokens
<1> USE DEF ui, world, thread, past
<1>2. CASE UNCHANGED <<minted, sending, rx, taken, run, savedRuns>>
  BY <1>1, <1>2 DEF OneQueue, Queued
<1>3. CASE \/ OpenDialog \/ HubTick \/ LeaseTaken \/ LeaseEnds \/ Unplug \/ Replug \/ LingerElapses \/ Close
           \/ DecideSession \/ Reset \/ OpenOk \/ OpenFails \/ BackOff \/ Loop \/ MeasureFails \/ Measured \/ UNCHANGED pitchVars
  BY <1>2, <1>3 DEF OpenDialog, HubTick, LeaseTaken, LeaseEnds, Unplug, Replug, LingerElapses, Close,
     DecideSession, Reset, OpenOk, OpenFails, BackOff, Loop, MeasureFails, Measured, pitchVars
<1>4. CASE Start
  <2>1. minted' = minted + 1 /\ sending' = minted + 1 /\ UNCHANGED <<rx, taken, run, savedRuns>>
    BY <1>4 DEF Start
  <2> QED BY <1>1, <2>1 DEF OneQueue, Queued
<1>5. CASE Send
  <2>1. /\ sending # 0 /\ rx' = Append(rx, sending) /\ sending' = 0 /\ UNCHANGED <<minted, taken, run, savedRuns>>
        /\ sending \in Tokens
    BY <1>1, <1>5 DEF Send, PitchTypeOK
  <2>2. /\ sending = minted /\ sending # Reload /\ sending \notin savedRuns /\ sending # run
        /\ ~In(rx, sending) /\ ~In(taken, sending)
    BY <1>1, <2>1 DEF OneQueue, Queued, OwnRun, Reload
  <2>3. Once(rx') /\ \A t : In(rx', t) <=> In(rx, t) \/ t = sending
    BY <1>1, <2>1, <2>2, AppendQueue DEF OneQueue
  <2> QED BY <1>1, <2>1, <2>2, <2>3 DEF OneQueue, Queued, Reload
<1>6. CASE Poll
  <2>1. UNCHANGED <<minted, sending, taken, run, savedRuns>> /\ rx' \in {rx, Append(rx, Reload)}
    BY <1>6 DEF Poll
  <2>2. Once(rx') /\ \A t : In(rx', t) => In(rx, t) \/ t = Reload
    <3>1. Reload \in Tokens
      BY DEF Reload, Tokens, PitchAssumption
    <3>2. Once(Append(rx, Reload)) /\ \A t : In(Append(rx, Reload), t) => In(rx, t) \/ t = Reload
      BY <1>1, <3>1, AppendQueue DEF OneQueue
    <3> QED BY <1>1, <2>1, <3>2 DEF OneQueue
  <2> QED BY <1>1, <2>1, <2>2 DEF OneQueue, Queued
<1>7. CASE Drain
  <2>1. taken' = taken \o rx /\ rx' = <<>> /\ UNCHANGED <<minted, sending, run, savedRuns>>
    BY <1>7 DEF Drain
  <2>2. Once(taken') /\ \A t : In(taken', t) <=> In(taken, t) \/ In(rx, t)
    BY <1>1, <2>1, JoinedQueues DEF OneQueue
  <2> QED BY <1>1, <2>1, <2>2, NoneQueued DEF OneQueue, Queued
<1>8. CASE FailQueued
  <2>1. taken # <<>> /\ taken' = Tail(taken) /\ UNCHANGED <<rx, minted, sending, run, savedRuns>>
    BY <1>8 DEF FailQueued
  <2>2. Once(taken') /\ \A t : In(taken', t) => In(taken, t)
    BY <1>1, <2>1, TailQueue DEF OneQueue
  <2> QED BY <1>1, <2>1, <2>2 DEF OneQueue, Queued
<1>9. CASE ApplyPending
  <2>1. UNCHANGED <<rx, minted, sending, savedRuns>>
    BY <1>9 DEF ApplyPending
  <2>2. CASE taken = <<>>
    BY <1>2, <1>9, <2>1, <2>2 DEF ApplyPending
  <2>3. CASE taken # <<>>
    <3>1. taken' = Tail(taken) /\ Take(Head(taken), "apply") /\ Head(taken) \in Tokens
      BY <1>1, <1>9, <2>3, TailQueue DEF ApplyPending
    <3>2. /\ Once(taken') /\ \A t : In(taken', t) => In(taken, t)
          /\ \A t : t # Reload /\ t = Head(taken) => ~In(taken', t)
          /\ In(taken, Head(taken))
      BY <1>1, <2>3, <3>1, TailQueue DEF OneQueue
    <3>3. run' \in {run, Head(taken)}
      BY <3>1, Taken
    <3> QED BY <1>1, <2>1, <3>1, <3>2, <3>3 DEF OneQueue, Queued
  <2> QED BY <2>2, <2>3
<1>10. CASE Tick
  <2>1. UNCHANGED <<taken, minted, sending, savedRuns>>
    BY <1>10 DEF Tick
  <2>2. CASE rx = <<>>
    BY <1>2, <1>10, <2>1, <2>2 DEF Tick
  <2>3. CASE rx # <<>>
    <3>1. rx' = Tail(rx) /\ Take(Head(rx), "tick") /\ Head(rx) \in Tokens
      BY <1>1, <1>10, <2>3, TailQueue DEF Tick
    <3>2. /\ Once(rx') /\ \A t : In(rx', t) => In(rx, t)
          /\ \A t : t # Reload /\ t = Head(rx) => ~In(rx', t)
          /\ In(rx, Head(rx))
      BY <1>1, <2>3, <3>1, TailQueue DEF OneQueue
    <3>3. run' \in {run, Head(rx)}
      BY <3>1, Taken
    <3> QED BY <1>1, <2>1, <3>1, <3>2, <3>3 DEF OneQueue, Queued
  <2> QED BY <2>2, <2>3
<1>11. CASE Cancelled \/ Finish
  <2>1. UNCHANGED <<rx, taken, minted, sending, savedRuns>> /\ run' = 0
    BY <1>11 DEF Cancelled, Finish
  <2> QED BY <1>1, <2>1 DEF OneQueue, Queued, Reload
<1>12. CASE Save
  <2>1. UNCHANGED <<rx, taken, minted, sending, run>> /\ savedRuns' = savedRuns \cup {run}
    BY <1>12 DEF Save
  <2> QED BY <1>1, <2>1 DEF OneQueue, Queued
<1> QED
  BY <1>3, <1>4, <1>5, <1>6, <1>7, <1>8, <1>9, <1>10, <1>11, <1>12 DEF PitchNext, DevStep

(* Who saves, reports and shows a result: never a run that was dropped.      *)
LEMMA PitchNextOwn ==
    ASSUME PitchAssumption, PitchInv, [PitchNext]_pitchVars
    PROVE  OwnRun' /\ PitchRunIsOwn'
<1> DEFINE Kept == OwnRun' /\ PitchRunIsOwn'
<1>1. /\ OneQueue /\ OwnRun /\ DroppedNeverSaves /\ ResultIsOwn
      /\ rx \in Seq(Tokens) /\ taken \in Seq(Tokens) /\ pc \in States
      /\ minted \in Nat /\ sending \in Nat /\ run \in Nat /\ pc.token \in Nat
      /\ savedRuns \subseteq Nat /\ dropped \subseteq Nat /\ \A t \in Tokens : t \in Nat
  BY TypeParts DEF PitchInv, PitchRunIsOwn, Numbers, States, Tokens, PitchAssumption
<1>2. \A t \in Nat : t <= minted => t # minted + 1 /\ t <= minted + 1
  BY <1>1
<1> USE DEF ui, world, thread, past
<1>3. CASE /\ UNCHANGED <<minted, sending, run, pc, savedRuns, dropped, outcome>>
           /\ dev' = dev \/ (dev # "finish" /\ dev' \notin {"measure", "save", "finish"})
  BY <1>1, <1>3 DEF OwnRun, PitchRunIsOwn, DroppedNeverSaves, ResultIsOwn, current_run
<1>4. CASE \/ OpenDialog \/ Poll \/ HubTick \/ LeaseTaken \/ LeaseEnds \/ Unplug \/ Replug \/ LingerElapses
           \/ UNCHANGED pitchVars
  BY <1>3, <1>4 DEF OpenDialog, Poll, HubTick, LeaseTaken, LeaseEnds, Unplug, Replug, LingerElapses, pitchVars
<1>5. CASE Drain \/ DecideSession \/ OpenOk \/ OpenFails \/ BackOff \/ Loop
  BY <1>3, <1>5 DEF Drain, DecideSession, OpenOk, OpenFails, BackOff, Loop
<1>6. CASE Start
  <2>1. /\ minted' = minted + 1 /\ sending' = minted + 1
        /\ pc' = [token |-> minted + 1, active |-> TRUE, result |-> "none"]
        /\ UNCHANGED <<run, savedRuns, dropped, outcome, dev>>
    BY <1>6 DEF Start
  <2> QED BY <1>1, <1>2, <2>1 DEF OwnRun, PitchRunIsOwn, DroppedNeverSaves, ResultIsOwn, current_run
<1>7. CASE Send
  <2>1. sending' = 0 /\ UNCHANGED <<minted, run, pc, savedRuns, dropped, outcome, dev>>
    BY <1>7 DEF Send
  <2> QED BY <1>1, <2>1 DEF OwnRun, PitchRunIsOwn, DroppedNeverSaves, ResultIsOwn, current_run
<1>8. CASE Close
  <2>1. /\ sending = 0 /\ sending' = 0 /\ pc' = [pc EXCEPT !.active = FALSE]
        /\ UNCHANGED <<minted, run, savedRuns, outcome, dev>>
    BY <1>8 DEF Close
  <2>2. \A t \in dropped' : t \in dropped \/ (t \in Tokens /\ Queued(t))
    BY <1>8 DEF Close, Queued, In, Tokens, Reload, PitchAssumption
  <2>3. \A t \in dropped' : t # 0 /\ t <= minted /\ t # run /\ t \notin savedRuns
    BY <1>1, <2>2 DEF OneQueue, OwnRun, DroppedNeverSaves, Queued, Reload
  <2>4. pc'.token = pc.token /\ ~pc'.active /\ pc'.result = pc.result
    BY <1>1, <2>1 DEF States
  <2> QED BY <1>1, <2>1, <2>3, <2>4 DEF OwnRun, PitchRunIsOwn, DroppedNeverSaves, ResultIsOwn, current_run
<1>9. CASE Reset
  <2>1. /\ pc' = pc \/ (pc'.token = 0 /\ ~pc'.active /\ pc'.result = "none") 
        /\ dev = "reset" /\ dev' = "drain" /\ UNCHANGED <<minted, sending, run, savedRuns, dropped, outcome>>
    BY <1>9 DEF Reset, NoRun
  <2> QED BY <1>1, <2>1 DEF OwnRun, PitchRunIsOwn, DroppedNeverSaves, ResultIsOwn, current_run
<1>10. CASE FailQueued
  <2>1. /\ taken # <<>> /\ dev = "fail" /\ UNCHANGED <<minted, sending, run, savedRuns, dropped, outcome, dev>>
        /\ \/ pc' = pc
           \/ Head(taken) # Reload /\ pc' = [token |-> Head(taken), active |-> FALSE, result |-> "err"]
    BY <1>10 DEF FailQueued
  <2>2. Head(taken) \in Tokens /\ In(taken, Head(taken))
    BY <1>1, <2>1, TailQueue
  <2>3. Head(taken) # Reload => Head(taken) <= minted
    BY <1>1, <2>2 DEF OneQueue, Queued
  <2> QED BY <1>1, <2>1, <2>3 DEF OwnRun, PitchRunIsOwn, DroppedNeverSaves, ResultIsOwn, current_run
<1>11. ASSUME NEW t \in Tokens, NEW from \in {"apply", "tick"}, dev # "finish", Take(t, from), In(rx, t) \/ In(taken, t),
              UNCHANGED <<minted, sending, pc, savedRuns, dropped, outcome>>
       PROVE  Kept
  <2>1. /\ run' = run \/ (run' = t /\ t # Reload /\ current_run(t))
        /\ dev' = from \/ (dev' = "measure" /\ run' = t /\ t # Reload)
    BY <1>11, Taken
  <2>2. CASE run' = run /\ dev' = from
    BY <1>1, <1>11, <2>2 DEF OwnRun, PitchRunIsOwn, DroppedNeverSaves, ResultIsOwn, current_run
  <2>3. CASE run' = t /\ t # Reload
    <3>1. t <= minted /\ t # sending /\ t \notin savedRuns
      BY <1>1, <1>11, <2>3 DEF OneQueue, Queued
    <3>2. t \notin dropped /\ outcome # "ok"
      BY <1>1, <1>11, <2>1, <2>3 DEF OwnRun
    <3> QED BY <1>1, <1>11, <2>1, <2>3, <3>1, <3>2 DEF OwnRun, PitchRunIsOwn, DroppedNeverSaves, ResultIsOwn, current_run, Reload
  <2> QED BY <2>1, <2>2, <2>3
<1>12. CASE ApplyPending
  <2>1. dev = "apply" /\ UNCHANGED <<minted, sending, pc, savedRuns, dropped, outcome>>
    BY <1>12 DEF ApplyPending
  <2>2. CASE taken = <<>>
    BY <1>3, <1>12, <2>1, <2>2 DEF ApplyPending
  <2>3. CASE taken # <<>>
    <3>1. Take(Head(taken), "apply")
      BY <1>12, <2>3 DEF ApplyPending
    <3> QED BY <1>1, <1>11, <2>1, <2>3, <3>1, TailQueue
  <2> QED BY <2>2, <2>3
<1>13. CASE Tick
  <2>1. dev = "tick" /\ UNCHANGED <<minted, sending, pc, savedRuns, dropped, outcome>>
    BY <1>13 DEF Tick
  <2>2. CASE rx = <<>>
    BY <1>3, <1>13, <2>1, <2>2 DEF Tick
  <2>3. CASE rx # <<>>
    <3>1. Take(Head(rx), "tick")
      BY <1>13, <2>3 DEF Tick
    <3> QED BY <1>1, <1>11, <2>1, <2>3, <3>1, TailQueue
  <2> QED BY <2>2, <2>3
<1>14. CASE Cancelled
  <2>1. /\ dev = "measure" /\ dev' \notin {"measure", "save", "finish"} /\ run' = 0
        /\ UNCHANGED <<minted, sending, pc, savedRuns, dropped, outcome>>
    BY <1>14, TypeParts DEF Cancelled, PitchInv, Places
  <2> QED BY <1>1, <2>1 DEF OwnRun, PitchRunIsOwn, DroppedNeverSaves, ResultIsOwn, current_run
<1>15. CASE MeasureFails
  <2>1. /\ dev = "measure" /\ dev' = "finish" /\ outcome' = "err"
        /\ UNCHANGED <<minted, sending, pc, savedRuns, dropped, run>>
    BY <1>15 DEF MeasureFails
  <2> QED BY <1>1, <2>1 DEF OwnRun, PitchRunIsOwn, DroppedNeverSaves, ResultIsOwn, current_run
<1>16. CASE Measured
  <2>1. dev = "measure" /\ dev' = "save" /\ UNCHANGED <<minted, sending, pc, savedRuns, dropped, run, outcome>>
    BY <1>16 DEF Measured
  <2> QED BY <1>1, <2>1 DEF OwnRun, PitchRunIsOwn, DroppedNeverSaves, ResultIsOwn, current_run
<1>17. CASE Save
  <2>1. /\ dev = "save" /\ dev' = "finish" /\ savedRuns' = savedRuns \cup {run}
        /\ UNCHANGED <<minted, sending, pc, dropped, run>>
    BY <1>17 DEF Save
  <2> QED BY <1>1, <2>1 DEF OwnRun, PitchRunIsOwn, DroppedNeverSaves, ResultIsOwn, current_run
<1>18. CASE Finish
  <2>1. /\ dev = "finish" /\ dev' \notin {"measure", "save", "finish"} /\ run' = 0 /\ outcome' = "none"
        /\ pc' = IF pc.token = run THEN [pc EXCEPT !.active = FALSE, !.result = outcome] ELSE pc
        /\ UNCHANGED <<minted, sending, savedRuns, dropped>>
    BY <1>18, TypeParts DEF Finish, PitchInv, Places
  <2>2. pc' = pc \/ (pc.token = run /\ pc'.token = run /\ ~pc'.active /\ pc'.result = outcome)
    BY <1>1, <2>1 DEF States
  <2> QED BY <1>1, <2>1, <2>2 DEF OwnRun, PitchRunIsOwn, DroppedNeverSaves, ResultIsOwn, current_run
<1> QED
  BY <1>4, <1>5, <1>6, <1>7, <1>8, <1>9, <1>10, <1>12, <1>13, <1>14, <1>15, <1>16, <1>17, <1>18 DEF PitchNext, DevStep

-----------------------------------------------------------------------------
LEMMA PitchInvKept == PitchAssumption /\ PitchInv /\ [PitchNext]_pitchVars => PitchInv'
BY PitchNextTyped, PitchNextQueue, PitchNextOwn DEF PitchInv

(* However often the dialog is opened, closed and started again, whoever      *)
(* borrows the tracker and whenever it is unplugged: a run that was cancelled *)
(* in a queue saves nothing over the good zero, and a result that is shown as *)
(* saved is of the run that was saved.                                        *)
THEOREM PitchRunsAreOwn == ASSUME PitchAssumption PROVE PitchSpec => []PitchRunIsOwn
<1>1. PitchInit => PitchInv
  BY PitchInvInit
<1>2. PitchInv /\ [PitchNext]_pitchVars => PitchInv'
  BY PitchInvKept
<1>3. PitchInv => PitchRunIsOwn
  BY DEF PitchInv
<1> QED BY <1>1, <1>2, <1>3, PTL DEF PitchSpec

-----------------------------------------------------------------------------
(* At most three rotations of before are still to come. *)
LEMMA StaleAtMost == \A p, since : StaleLeft(p, since) \in 0..3
<1> SUFFICES ASSUME NEW p, NEW since PROVE StaleLeft(p, since) \in 0..3
  OBVIOUS
<1> QED BY DEF StaleLeft, One

(* One more pose: of a posture held since, or of before, and then one fewer   *)
(* of those is to come.                                                      *)
RunShape == {"age", "poses", "seen", "since"}
LEMMA PushedNow ==
    ASSUME RecentreAssumption, NEW r, DOMAIN r = RunShape,
           IsFiniteSet(r.seen), r.poses \in Nat, r.poses > 0 <=> r.seen # {},
           NEW q, NEW before \in 0..3, NEW after \in 0..3,
           \A x \in r.seen \ r.since : r.seen = {x} => r.poses + before <= 3,
           (q \in r.since /\ after <= before) \/ after + 1 <= before
    PROVE  LET s == Pushed(r, q) IN
           /\ DOMAIN s = RunShape /\ s.since = r.since /\ s.age = r.age
           /\ IsFiniteSet(s.seen) /\ s.poses \in Nat /\ (s.poses > 0 <=> s.seen # {})
           /\ \A x \in s.seen \ s.since : s.seen = {x} => s.poses + after <= 3
<1> DEFINE s == Pushed(r, q)
<1>1. /\ DOMAIN s = RunShape /\ s.since = r.since /\ s.age = r.age
      /\ s.poses = (IF r.poses < MinPoses THEN r.poses + 1 ELSE r.poses) /\ s.seen = r.seen \cup {q}
  BY DEF Pushed, RunShape
<1>2. IsFiniteSet(s.seen)
  BY <1>1, FS_AddElement
<1>3. s.poses \in Nat /\ s.poses > 0 /\ s.seen # {}
  BY <1>1 DEF RecentreAssumption
<1>4. ASSUME NEW x \in s.seen \ s.since, s.seen = {x} PROVE s.poses + after <= 3
  <2>1. q = x /\ (r.seen = {} \/ r.seen = {x}) /\ x \notin r.since
    BY <1>1, <1>4
  <2>2. after + 1 <= before
    BY <2>1
  <2>3. CASE r.seen = {}
    <3>1. r.poses = 0
      BY <2>3
    <3> QED BY <1>1, <2>2, <3>1 DEF RecentreAssumption
  <2>4. CASE r.seen = {x}
    <3>1. r.poses + before <= 3
      BY <2>1, <2>4
    <3> QED BY <1>1, <2>2, <3>1 DEF RecentreAssumption
  <2> QED BY <2>1, <2>3, <2>4
<1> QED BY <1>1, <1>2, <1>3, <1>4

(* What settles as the middle is a posture held since. *)
LEMMA SettledNow ==
    ASSUME RecentreAssumption, NEW r, IsFiniteSet(r.seen), r.poses \in Nat, r.poses > 0 <=> r.seen # {},
           NEW left \in 0..3,
           \A x \in r.seen \ r.since : r.seen = {x} => r.poses + left <= 3,
           Settle(r) = "applied"
    PROVE  Median(r) \in r.since
<1>1. r.poses >= MinPoses /\ ~Spread(r)
  BY DEF Settle, RecentreAssumption
<1>2. r.poses > 3 /\ r.seen # {}
  BY <1>1 DEF RecentreAssumption
<1>3. Median(r) \in r.seen
  BY <1>2 DEF Median
<1>4. \E x : r.seen = {x}
  <2>1. Cardinality(r.seen) \in Nat /\ Cardinality(r.seen) # 0
    BY <1>2, FS_CardinalityType, FS_EmptySet
  <2>2. Cardinality(r.seen) = 1
    BY <1>1, <2>1 DEF Spread
  <2> QED BY <2>2, FS_Singleton
<1> QED BY <1>2, <1>3, <1>4

(* What a measurement has seen is of now, with `left' stale rotations to come.*)
SeenOfNow(r, left) ==
    /\ DOMAIN r = RunShape
    /\ IsFiniteSet(r.seen) /\ r.poses \in Nat /\ (r.poses > 0 <=> r.seen # {})
    /\ \A q \in r.seen \ r.since : r.seen = {q} => r.poses + left <= 3

LEMMA FewerLeft ==
    ASSUME NEW r, NEW m \in 0..3, NEW n \in 0..m, SeenOfNow(r, m)
    PROVE  SeenOfNow(r, n)
BY DEF SeenOfNow

(* One pose in a measurement: it goes on, or ends with a posture held since.  *)
LEMMA RereferenceNow ==
    ASSUME RecentreAssumption, NEW p, NEW raw, NEW held \in BOOLEAN,
           DOMAIN p = DOMAIN NewPipeline,
           \A r \in p.run : r.age \in Nat /\ \E before \in 0..3 :
              /\ SeenOfNow(r, before) /\ StaleLeft(p, r.since)' <= before
              /\ ~held => raw.rot \in r.since \/ StaleLeft(p, r.since)' + 1 <= before,
           NEW a, a = Rereference(p, raw, held)
    PROVE  /\ DOMAIN a.p = DOMAIN NewPipeline /\ a.p.last_tracked = p.last_tracked
           /\ a.p.last_rotation = p.last_rotation
           /\ \A r \in a.p.run :
                /\ SeenOfNow(r, StaleLeft(p, r.since)') /\ r.age \in Nat /\ r.age < Window
                /\ \E x \in p.run : x.since = r.since
           /\ \A x \in a.ref : x.rot \in x.since
<1>1. CASE p.run = {}
  <2>1. a = [p |-> p, outcome |-> {}, ref |-> {}]
    BY <1>1 DEF Rereference
  <2> QED BY <1>1, <2>1
<1>2. CASE p.run # {}
  <2> DEFINE r0 == CHOOSE x \in p.run : TRUE
             r == IF Counts(p, raw, held) THEN Pushed(r0, raw.rot) ELSE r0
             o == Settle(r)
             rot == IF o = "applied" THEN {Median(r)} ELSE {}
  <2>1. r0 \in p.run
    BY <1>2
  <2> DEFINE after == StaleLeft(p, r0.since)'
  <2>2. PICK before \in 0..3 :
           /\ SeenOfNow(r0, before) /\ after <= before
           /\ ~held => raw.rot \in r0.since \/ after + 1 <= before
    BY <2>1
  <2>3. after \in 0..3 /\ r0.age \in Nat
    <3>1. after \in 0..3
      BY DEF StaleLeft, One
    <3> QED BY <2>1, <3>1
  <2>4. SeenOfNow(r, after) /\ r.since = r0.since /\ r.age = r0.age
    <3>1. CASE held
      <4>1. r = r0
        BY <3>1 DEF Counts
      <4>2. after \in 0..before
        BY <2>2, <2>3
      <4> HIDE DEF after, r0
      <4> QED BY <2>2, <2>3, <4>1, <4>2, FewerLeft
    <3>2. CASE ~held
      <4>1. r = Pushed(r0, raw.rot)
        BY <3>2 DEF Counts
      <4>2. (raw.rot \in r0.since /\ after <= before) \/ after + 1 <= before
        BY <2>2, <3>2
      <4>3. after \in 0..3 /\ SeenOfNow(r0, before)
        BY <2>2, <2>3
      <4> HIDE DEF after, r0
      <4>4. /\ DOMAIN Pushed(r0, raw.rot) = RunShape /\ Pushed(r0, raw.rot).since = r0.since
            /\ Pushed(r0, raw.rot).age = r0.age
            /\ SeenOfNow(Pushed(r0, raw.rot), after)
        BY <4>2, <4>3, PushedNow DEF SeenOfNow
      <4> QED BY <4>1, <4>4
    <3> QED BY <3>1, <3>2
  <2>5. CASE r.age < Window
    <3>1. a = [p |-> [p EXCEPT !.run = {r}], outcome |-> {}, ref |-> {}]
      BY <1>2, <2>5 DEF Rereference
    <3>2. a.p.run = {r} /\ DOMAIN a.p = DOMAIN NewPipeline /\ a.p.last_tracked = p.last_tracked
          /\ a.p.last_rotation = p.last_rotation /\ a.ref = {}
      BY <3>1 DEF NewPipeline
    <3> HIDE DEF r, r0
    <3> QED BY <2>1, <2>2, <2>4, <2>5, <3>2
  <2>6. CASE ~(r.age < Window)
    <3>1. a = [p |-> [p EXCEPT !.run = {}], outcome |-> {o}, ref |-> {[rot |-> q, since |-> r.since] : q \in rot}]
      BY <1>2, <2>6 DEF Rereference
    <3>2. a.p.run = {} /\ DOMAIN a.p = DOMAIN NewPipeline /\ a.p.last_tracked = p.last_tracked
          /\ a.p.last_rotation = p.last_rotation
      BY <3>1 DEF NewPipeline
    <3>3. \A x \in a.ref : x.rot = Median(r) /\ x.since = r.since /\ Settle(r) = "applied"
      BY <3>1
    <3> HIDE DEF r, r0
    <3>4. Settle(r) = "applied" => Median(r) \in r.since
      BY <2>3, <2>4, SettledNow DEF SeenOfNow
    <3> QED BY <3>2, <3>3, <3>4
  <2> QED BY <2>5, <2>6
<1> QED BY <1>1, <1>2

LEMMA RunIsMeasured ==
    ASSUME NEW p, NEW r
    PROVE  DOMAIN r = RunShape /\ RunIsOfNow(p, r) <=> posture \in r.since /\ SeenOfNow(r, StaleLeft(p, r.since))
BY DEF RunIsOfNow, SeenOfNow, RunShape

LEMMA RunIsMeasuredNext ==
    ASSUME NEW p, NEW r
    PROVE  (DOMAIN r = RunShape /\ RunIsOfNow(p, r)') <=> (posture' \in r.since /\ SeenOfNow(r, StaleLeft(p, r.since)'))
BY DEF RunIsOfNow, SeenOfNow, RunShape

(* A frame in the pipeline, the request taken first.                         *)
LEMMA OfferNow ==
    ASSUME RecentreAssumption, RecentreInv, NEW p \in pipe, NEW eyes, NEW supplied,
           supplied = {} \/ supplied = head_pose',
           head_pose' = head_pose \/ \A h \in head_pose' : h.rot = posture,
           model => head_pose' = head_pose, model \in BOOLEAN,
           ~model => \A h \in head_pose' : h.rot = posture,
           UNCHANGED <<posture, inflight, late>>, ~quiet', frames' \in Nat,
           NEW a, a = OutputOffer(p, eyes, supplied)
    PROVE  PipelineOK(a.p)' /\ \A x \in a.ref : x.rot \in x.since
<1>a. PICK p0 : p0 = IF Takes THEN BeginRecentre(p) ELSE p
  OBVIOUS
<1>b. PICK p1 : p1 = [p0 EXCEPT !.pair = PairAfter(p0, eyes), !.one_eye_run = OneEyeRun(p0, eyes),
                                !.last_rotation = IF supplied # {} THEN "current" ELSE @]
  OBVIOUS
<1>c. PICK p2 : p2 = [p1 EXCEPT !.last_tracked = 0]
  OBVIOUS
<1> DEFINE again == model /\ p.last_rotation = "current"
           geometric == PoseFromSample(p0, eyes)
           incoming == IF supplied # {} THEN supplied ELSE geometric
<1>d. PICK raw : raw = CHOOSE x \in incoming : TRUE
  OBVIOUS
<1>e. PICK held \in BOOLEAN :
        held <=> (IF supplied # {} THEN again ELSE \E g \in geometric : g.source = "one")
  OBVIOUS
<1>1. a = IF incoming # {} THEN Rereference(p2, raw, held)
          ELSE IF p1.last_tracked >= LossReset THEN Lost(p1)
          ELSE [p |-> p1, outcome |-> {}, ref |-> {}]
  <2>1. held = IF supplied # {} THEN again ELSE \E g \in geometric : g.source = "one"
    BY <1>e
  <2> QED BY <1>a, <1>b, <1>c, <1>d, <2>1 DEF OutputOffer, PipelineOffer
<1>2. PipelineOK(p) /\ (asked_at # {} => posture \in heldSince)
  BY DEF RecentreInv
<1>3. /\ DOMAIN p0 = DOMAIN NewPipeline /\ p0.last_tracked \in 0..LossReset
      /\ p0.last_rotation = p.last_rotation
      /\ \A r \in p0.run :
           /\ posture \in r.since /\ SeenOfNow(r, StaleLeft(p0, r.since)) /\ r.age \in Nat
           /\ p0.last_tracked < LossReset => r.age <= Window - 1 + p0.last_tracked
  <2>1. CASE Takes
    <3> DEFINE r0 == [age |-> 0, poses |-> 0, seen |-> {}, since |-> heldSince]
    <3>1. p0 = [p EXCEPT !.run = {r0}]
      BY <1>a, <2>1 DEF BeginRecentre
    <3>2. /\ DOMAIN p0 = DOMAIN NewPipeline /\ p0.last_tracked = p.last_tracked
          /\ p0.last_rotation = p.last_rotation /\ p0.run = {r0}
      BY <1>2, <3>1 DEF PipelineOK, NewPipeline
    <3>3. posture \in heldSince
      BY <1>2, <2>1 DEF Takes
    <3>4. IsFiniteSet({})
      BY FS_EmptySet
    <3>5. SeenOfNow(r0, StaleLeft(p0, r0.since))
      BY <3>4 DEF SeenOfNow, RunShape
    <3>6. 0 <= Window - 1 /\ p.last_tracked \in 0..LossReset
      BY <1>2 DEF PipelineOK, RecentreAssumption
    <3> QED BY <3>2, <3>3, <3>5, <3>6 DEF RecentreAssumption
  <2>2. CASE ~Takes
    <3>1. p0 = p
      BY <1>a, <2>2
    <3>2. ASSUME NEW r \in p.run
          PROVE  /\ posture \in r.since /\ SeenOfNow(r, StaleLeft(p, r.since)) /\ r.age \in Nat
                 /\ p.last_tracked < LossReset => r.age <= Window - 1 + p.last_tracked
      <4>1. DOMAIN r = RunShape /\ RunIsOfNow(p, r) /\ RunEnds(p, r)
        BY <1>2, <3>2 DEF PipelineOK, RunShape
      <4>2. posture \in r.since /\ SeenOfNow(r, StaleLeft(p, r.since))
        BY <4>1, RunIsMeasured
      <4> QED BY <1>2, <4>1, <4>2 DEF RunEnds, One, PipelineOK, RecentreAssumption
    <3> QED BY <1>2, <3>1, <3>2 DEF PipelineOK
  <2> QED BY <2>1, <2>2
<1>4. /\ DOMAIN p1 = DOMAIN NewPipeline /\ p1.run = p0.run /\ p1.last_tracked = p0.last_tracked
      /\ p1.last_rotation = IF supplied # {} THEN "current" ELSE p.last_rotation
  BY <1>b, <1>3 DEF NewPipeline
<1>5. /\ DOMAIN p2 = DOMAIN NewPipeline /\ p2.run = p0.run /\ p2.last_tracked = 0
      /\ p2.last_rotation = p1.last_rotation
  BY <1>c, <1>3, <1>4 DEF NewPipeline
<1>6. ASSUME NEW since, posture \in since
      PROVE  StaleLeft(p1, since)' <= StaleLeft(p0, since) /\ StaleLeft(p2, since)' <= StaleLeft(p0, since)
  <2>1. \/ p1.last_rotation = "current"
        \/ /\ p1.last_rotation = p0.last_rotation
           /\ (\E h \in head_pose' : h.rot \notin since) => (\E h \in head_pose : h.rot \notin since)
    BY <1>3, <1>4, <1>6
  <2>2. inflight' = inflight /\ late' = late
    OBVIOUS
  <2> QED BY <1>5, <2>1, <2>2 DEF StaleLeft, One
<1>7. ASSUME incoming # {}, ~held, NEW since, posture \in since
      PROVE  raw.rot \in since \/ StaleLeft(p2, since)' + 1 <= StaleLeft(p0, since)
  <2>1. raw \in incoming
    BY <1>d, <1>7
  <2>2. CASE supplied = {}
    <3>1. raw \in geometric /\ raw.source # "one"
      BY <1>e, <1>7, <2>1, <2>2
    <3>2. raw.rot = posture
      BY <3>1 DEF PoseFromSample
    <3> QED BY <1>7, <3>2
  <2>3. CASE supplied # {}
    <3>1. raw \in head_pose'
      BY <2>1, <2>3
    <3>2. CASE raw.rot = posture
      BY <1>7, <3>2
    <3>3. CASE raw.rot # posture
      <4>1. model /\ head_pose' = head_pose
        BY <3>1, <3>3
      <4>2. p0.last_rotation # "current" /\ p2.last_rotation = "current"
        BY <1>e, <1>3, <1>4, <1>5, <1>7, <2>3, <4>1
      <4>3. CASE raw.rot \notin since
        BY <3>1, <4>1, <4>2, <4>3 DEF StaleLeft, One
      <4> QED BY <4>3
    <3> QED BY <3>2, <3>3
  <2> QED BY <2>2, <2>3
<1>8. CASE incoming # {}
  <2>1. a = Rereference(p2, raw, held)
    BY <1>1, <1>8
  <2>2. held \in BOOLEAN
    OBVIOUS
  <2>3. \A r \in p2.run :
          r.age \in Nat /\ \E before \in 0..3 :
             /\ SeenOfNow(r, before) /\ StaleLeft(p2, r.since)' <= before
             /\ ~held => raw.rot \in r.since \/ StaleLeft(p2, r.since)' + 1 <= before
    BY <1>3, <1>5, <1>6, <1>7, <1>8, StaleAtMost
  <2> HIDE DEF incoming
  <2>4. /\ DOMAIN a.p = DOMAIN NewPipeline /\ a.p.last_tracked = p2.last_tracked
        /\ a.p.last_rotation = p2.last_rotation
        /\ \A r \in a.p.run :
             /\ SeenOfNow(r, StaleLeft(p2, r.since)') /\ r.age \in Nat /\ r.age < Window
             /\ \E x \in p2.run : x.since = r.since
        /\ \A x \in a.ref : x.rot \in x.since
    BY <1>5, <2>1, <2>2, <2>3, RereferenceNow
  <2>5. ASSUME NEW r \in a.p.run PROVE DOMAIN r = RunShape /\ RunIsOfNow(a.p, r)' /\ RunEnds(a.p, r)'
    <3>1. posture' \in r.since
      BY <1>3, <1>5, <2>4, <2>5
    <3>2. StaleLeft(a.p, r.since)' = StaleLeft(p2, r.since)'
      BY <2>4 DEF StaleLeft
    <3>3. SeenOfNow(r, StaleLeft(a.p, r.since)')
      BY <2>4, <2>5, <3>2
    <3>4. DOMAIN r = RunShape /\ RunIsOfNow(a.p, r)'
      BY <3>1, <3>3, RunIsMeasuredNext
    <3>5. a.p.last_tracked = 0 /\ r.age \in Nat /\ r.age < Window
      BY <1>5, <2>4, <2>5
    <3> QED BY <3>4, <3>5 DEF RunEnds, One, RecentreAssumption
  <2>6. PipelineOK(a.p)'
    BY <1>5, <2>4, <2>5 DEF PipelineOK, RunShape, RecentreAssumption, NewPipeline
  <2> QED BY <2>4, <2>6
<1>9. CASE incoming = {} /\ p1.last_tracked >= LossReset
  <2> HIDE DEF incoming
  <2>1. a = Lost(p1)
    BY <1>1, <1>9
  <2>2. a.p = [p1 EXCEPT !.pair = {}, !.one_eye_run = 0, !.run = {}] /\ a.ref = {}
    BY <2>1 DEF Lost
  <2>3. a.p.run = {} /\ DOMAIN a.p = DOMAIN NewPipeline /\ a.p.last_tracked = p1.last_tracked /\ a.ref = {}
    BY <1>4, <2>2 DEF NewPipeline
  <2> QED BY <1>3, <1>4, <2>3 DEF PipelineOK, NewPipeline
<1>10. CASE incoming = {} /\ ~(p1.last_tracked >= LossReset)
  <2> HIDE DEF incoming
  <2>0. a = [p |-> p1, outcome |-> {}, ref |-> {}]
    BY <1>1, <1>10, Zenon
  <2>1. a.p = p1 /\ a.ref = {}
    BY <2>0
  <2>2. p1.last_tracked \in 0..LossReset /\ p1.last_tracked < LossReset
    BY <1>3, <1>4, <1>10 DEF RecentreAssumption
  <2>3. ASSUME NEW r \in p1.run PROVE DOMAIN r = RunShape /\ RunIsOfNow(p1, r)' /\ RunEnds(p1, r)'
    <3>1. posture \in r.since /\ SeenOfNow(r, StaleLeft(p0, r.since)) /\ r.age \in Nat
          /\ r.age <= Window - 1 + p1.last_tracked
      BY <1>3, <1>4, <2>2, <2>3
    <3>2. StaleLeft(p1, r.since)' <= StaleLeft(p0, r.since)
      BY <1>6, <3>1
    <3>3. StaleLeft(p1, r.since)' \in 0..StaleLeft(p0, r.since) /\ StaleLeft(p0, r.since) \in 0..3
      <4>1. StaleLeft(p1, r.since)' \in 0..3
        BY DEF StaleLeft, One
      <4> QED BY <3>2, <4>1, StaleAtMost
    <3>4. SeenOfNow(r, StaleLeft(p1, r.since)')
      BY <3>1, <3>3, FewerLeft
    <3>5. DOMAIN r = RunShape /\ RunIsOfNow(p1, r)'
      BY <3>1, <3>4, RunIsMeasuredNext
    <3> QED BY <2>2, <3>1, <3>5 DEF RunEnds, One, RecentreAssumption
  <2> QED BY <1>4, <2>1, <2>2, <2>3 DEF PipelineOK, RunShape, NewPipeline
<1> QED BY <1>8, <1>9, <1>10

-----------------------------------------------------------------------------
LEMMA RecentreInitInv == ASSUME RecentreAssumption, RecentreInit PROVE RecentreInv
BY DEF RecentreInit, RecentreInv, RefIsHeld

LEMMA FrameInv == ASSUME RecentreAssumption, RecentreInv, NEW eyes, Frame(eyes) PROVE RecentreInv'
<1>1. /\ frames' = frames + 1 /\ ~quiet' /\ quiet' \in BOOLEAN /\ connected
      /\ UNCHANGED <<posture, connected, model, inflight, late>>
  BY DEF Frame
<1>2. /\ frames \in Nat /\ model \in BOOLEAN /\ (asked_at # {} => posture \in heldSince) /\ RefIsHeld
  BY DEF RecentreInv
<1>3. PICK geometric, published, at, supplied :
        /\ geometric = IF eyes = "both" THEN {[rot |-> posture]} ELSE {}
        /\ published = IF model THEN head_pose ELSE geometric
        /\ supplied = IF PoseIsFresh(at) THEN published ELSE {}
        /\ head_pose' = published
        /\ IF pipe = {}
           THEN UNCHANGED <<asked_at, pipe, heldSince, refs>>
           ELSE LET a == OutputOffer(CHOOSE p \in pipe : TRUE, eyes, supplied)
                IN  asked_at' = {} /\ pipe' = {a.p} /\ refs' = a.ref /\ heldSince' = {}
  BY DEF Frame
<1>4. CASE pipe = {}
  BY <1>1, <1>2, <1>3, <1>4 DEF RecentreInv, RefIsHeld
<1>5. CASE pipe # {}
  <2>1. PICK p \in pipe : p = CHOOSE x \in pipe : TRUE
    BY <1>5
  <2>2. PICK a : a = OutputOffer(p, eyes, supplied)
    OBVIOUS
  <2>3. asked_at' = {} /\ pipe' = {a.p} /\ refs' = a.ref
    BY <1>3, <1>5, <2>1, <2>2
  <2>4. /\ supplied = {} \/ supplied = head_pose'
        /\ model => head_pose' = head_pose
        /\ ~model => \A h \in head_pose' : h.rot = posture
    BY <1>3
  <2>5. head_pose' = head_pose \/ \A h \in head_pose' : h.rot = posture
    BY <1>2, <2>4
  <2>6. PipelineOK(a.p)' /\ \A x \in a.ref : x.rot \in x.since
    BY <1>1, <1>2, <2>2, <2>4, <2>5, OfferNow
  <2>7. \A x \in pipe' : PipelineOK(x)'
    BY <2>3, <2>6
  <2> QED BY <1>1, <1>2, <2>3, <2>6, <2>7 DEF RecentreInv, RefIsHeld
<1> QED BY <1>4, <1>5

(* A pipeline that only learns of another thread's rotations.                *)
LEMMA RunKept ==
    ASSUME NEW p, NEW q, PipelineOK(p), DOMAIN q = DOMAIN NewPipeline,
           q.last_tracked = p.last_tracked, q.run = p.run,
           UNCHANGED <<posture, frames, quiet>>,
           \A since : posture \in since => StaleLeft(q, since)' <= StaleLeft(p, since)
    PROVE  PipelineOK(q)'
<1>1. ASSUME NEW r \in q.run PROVE DOMAIN r = RunShape /\ RunIsOfNow(q, r)' /\ RunEnds(q, r)'
  <2>1. DOMAIN r = RunShape /\ RunIsOfNow(p, r) /\ RunEnds(p, r)
    BY <1>1 DEF PipelineOK, RunShape
  <2>2. posture \in r.since /\ SeenOfNow(r, StaleLeft(p, r.since))
    BY <2>1, RunIsMeasured
  <2>3. StaleLeft(q, r.since)' \in 0..StaleLeft(p, r.since) /\ StaleLeft(p, r.since) \in 0..3
    <3>1. StaleLeft(q, r.since)' \in 0..3
      BY DEF StaleLeft, One
    <3> QED BY <2>2, <3>1, StaleAtMost
  <2>4. SeenOfNow(r, StaleLeft(q, r.since)')
    BY <2>2, <2>3, FewerLeft
  <2>5. DOMAIN r = RunShape /\ RunIsOfNow(q, r)'
    BY <2>2, <2>4, RunIsMeasuredNext
  <2> QED BY <2>1, <2>5 DEF RunEnds
<1> QED BY <1>1 DEF PipelineOK, RunShape, NewPipeline

(* ... with nothing new for it. *)
LEMMA SameRun ==
    ASSUME NEW p, PipelineOK(p), UNCHANGED <<posture, frames, quiet, head_pose, late>>,
           inflight' = inflight \/ inflight' = {} \/ inflight' = {posture}
    PROVE  PipelineOK(p)'
<1>1. ASSUME NEW since, posture \in since PROVE StaleLeft(p, since)' <= StaleLeft(p, since)
  BY <1>1 DEF StaleLeft, One
<1>2. DOMAIN p = DOMAIN NewPipeline
  BY DEF PipelineOK
<1> QED BY <1>1, <1>2, RunKept

LEMMA PublishedInv ==
    ASSUME RecentreInv, NEW rot, Published(rot), UNCHANGED <<person, asked_at, heldSince, refs>>,
           \/ rot \in inflight /\ inflight' = {} /\ UNCHANGED late
           \/ rot \in late /\ late' = {} /\ UNCHANGED inflight
    PROVE  RecentreInv'
<1>1. ASSUME NEW q \in pipe' PROVE PipelineOK(q)'
  <2>1. PICK p \in pipe : q = [p EXCEPT !.last_rotation = "other"]
    BY <1>1 DEF Published
  <2>2. PipelineOK(p)
    BY DEF RecentreInv
  <2>3. /\ DOMAIN q = DOMAIN NewPipeline /\ q.last_tracked = p.last_tracked /\ q.run = p.run
        /\ q.last_rotation = "other"
    BY <2>1, <2>2 DEF PipelineOK, NewPipeline
  <2>4. ASSUME NEW since PROVE StaleLeft(q, since)' <= StaleLeft(p, since)
    <3>1. head_pose' = {[rot |-> rot]}
      BY DEF Published
    <3>2. (\E h \in head_pose' : h.rot \notin since) <=> rot \notin since
      BY <3>1
    <3> QED BY <2>3, <3>2 DEF StaleLeft, One
  <2> QED BY <2>2, <2>3, <2>4, RunKept DEF person
<1>2. pipe' # {} => pipe # {}
  BY DEF Published
<1> QED BY <1>1, <1>2 DEF RecentreInv, RefIsHeld, person

LEMMA WorkersInv ==
    ASSUME RecentreInv, CameraFrame \/ WorkerPublishes \/ LatePublishes
    PROVE  RecentreInv'
<1>1. CASE CameraFrame
  <2>1. \A p \in pipe : PipelineOK(p)'
    BY <1>1, SameRun DEF RecentreInv, CameraFrame, person
  <2> QED BY <1>1, <2>1 DEF RecentreInv, RefIsHeld, CameraFrame, person
<1>2. CASE WorkerPublishes
  <2>1. CASE UNCHANGED <<head_pose, head_pose_at, pipe>>
    <3>1. \A p \in pipe : PipelineOK(p)'
      BY <1>2, <2>1, SameRun DEF RecentreInv, WorkerPublishes, person
    <3> QED BY <1>2, <2>1, <3>1 DEF RecentreInv, RefIsHeld, WorkerPublishes, person
  <2>2. CASE Published(CHOOSE q \in inflight : TRUE)
    <3>1. PICK rot \in inflight : rot = CHOOSE q \in inflight : TRUE
      BY <1>2 DEF WorkerPublishes
    <3>2. Published(rot)
      BY <2>2, <3>1
    <3> QED BY <1>2, <3>1, <3>2, PublishedInv DEF WorkerPublishes
  <2> QED BY <1>2, <2>1, <2>2 DEF WorkerPublishes
<1>3. CASE LatePublishes
  <2>1. PICK rot \in late : rot = CHOOSE q \in late : TRUE
    BY <1>3 DEF LatePublishes
  <2>2. Published(rot)
    BY <1>3, <2>1 DEF LatePublishes
  <2> QED BY <1>3, <2>1, <2>2, PublishedInv DEF LatePublishes
<1> QED BY <1>1, <1>2, <1>3

(* A new pipeline measures nothing. *)
LEMMA NewIsOK == RecentreAssumption => PipelineOK(NewPipeline)'
BY DEF PipelineOK, NewPipeline, RecentreAssumption

LEMMA SessionsInv ==
    ASSUME RecentreAssumption, RecentreInv, SessionStarts \/ SessionEnds \/ Reconfigures
    PROVE  RecentreInv'
<1>1. \A p \in pipe' : p = NewPipeline
  BY DEF SessionStarts, SessionEnds, Reconfigures
<1>2. \A p \in pipe' : PipelineOK(p)'
  <2>1. NewPipeline' = NewPipeline
    BY DEF NewPipeline
  <2> QED BY <1>1, <2>1, NewIsOK
<1>3. frames \in Nat /\ quiet \in BOOLEAN /\ model \in BOOLEAN
  BY DEF RecentreInv
<1>4. CASE SessionStarts
  BY <1>2, <1>3, <1>4 DEF RecentreInv, RefIsHeld, SessionStarts, pose
<1>5. CASE SessionEnds
  BY <1>2, <1>3, <1>5 DEF RecentreInv, RefIsHeld, SessionEnds
<1>6. CASE Reconfigures
  BY <1>2, <1>3, <1>6 DEF RecentreInv, RefIsHeld, Reconfigures, person
<1> QED BY <1>4, <1>5, <1>6

LEMMA AsksInv == ASSUME RecentreInv, Asks PROVE RecentreInv'
<1>1. \A p \in pipe : PipelineOK(p)'
  BY SameRun DEF RecentreInv, Asks, person, pose
<1> QED BY <1>1 DEF RecentreInv, RefIsHeld, Asks, RecentreRequest, person

(* Where the head goes next counts as held, too. *)
LEMMA MovesInv == ASSUME RecentreInv, NEW at, Moves(at) PROVE RecentreInv'
<1>1. /\ posture' = at /\ UNCHANGED <<connected, model, frames, quiet, head_pose, inflight, late, asked_at, refs>>
      /\ heldSince' = IF asked_at = {} THEN {} ELSE heldSince \cup {at}
      /\ pipe' = {[p EXCEPT !.run = {[r EXCEPT !.since = @ \cup {at}] : r \in p.run}] : p \in pipe}
  BY DEF Moves, pose
<1>2. ASSUME NEW q \in pipe' PROVE PipelineOK(q)'
  <2>1. PICK p \in pipe : q = [p EXCEPT !.run = {[r EXCEPT !.since = @ \cup {at}] : r \in p.run}]
    BY <1>1, <1>2
  <2>2. PipelineOK(p)
    BY DEF RecentreInv
  <2>3. /\ DOMAIN q = DOMAIN NewPipeline /\ q.last_tracked = p.last_tracked
        /\ q.run = {[r EXCEPT !.since = @ \cup {at}] : r \in p.run} /\ q.last_rotation = p.last_rotation
    BY <2>1, <2>2 DEF PipelineOK, NewPipeline
  <2>4. ASSUME NEW r \in q.run PROVE DOMAIN r = RunShape /\ RunIsOfNow(q, r)' /\ RunEnds(q, r)'
    <3>1. PICK r0 \in p.run : r = [r0 EXCEPT !.since = @ \cup {at}]
      BY <2>3, <2>4
    <3>2. DOMAIN r0 = RunShape /\ RunIsOfNow(p, r0) /\ RunEnds(p, r0)
      BY <2>2, <3>1 DEF PipelineOK, RunShape
    <3>3. /\ DOMAIN r = RunShape /\ r.since = r0.since \cup {at} /\ r.age = r0.age
          /\ r.seen = r0.seen /\ r.poses = r0.poses
      BY <3>1, <3>2 DEF RunShape
    <3>4. SeenOfNow(r0, StaleLeft(p, r0.since))
      BY <3>2, RunIsMeasured
    <3>5. StaleLeft(q, r.since)' \in 0..StaleLeft(p, r0.since) /\ StaleLeft(p, r0.since) \in 0..3
      <4>1. StaleLeft(q, r.since)' \in 0..3
        BY DEF StaleLeft, One
      <4>2. StaleLeft(q, r.since)' <= StaleLeft(p, r0.since)
        BY <1>1, <2>3, <3>3 DEF StaleLeft, One
      <4> QED BY <4>1, <4>2, StaleAtMost
    <3>6. SeenOfNow(r, StaleLeft(p, r0.since))
      BY <3>3, <3>4 DEF SeenOfNow
    <3>7. SeenOfNow(r, StaleLeft(q, r.since)')
      BY <3>5, <3>6, FewerLeft
    <3>8. DOMAIN r = RunShape /\ RunIsOfNow(q, r)'
      BY <1>1, <3>3, <3>7, RunIsMeasuredNext
    <3> QED BY <1>1, <2>3, <3>2, <3>3, <3>8 DEF RunEnds
  <2> QED BY <2>2, <2>3, <2>4 DEF PipelineOK, RunShape, NewPipeline
<1>3. pipe' # {} => pipe # {}
  BY <1>1
<1> QED BY <1>1, <1>2, <1>3 DEF RecentreInv, RefIsHeld

(* A unit passes: without a pose the measurement ages with the loss, and once *)
(* the head is lost the next frame ends it, which is at most a unit away.     *)
LEMMA PassesInv == ASSUME RecentreAssumption, RecentreInv, Passes PROVE RecentreInv'
<1>1. /\ frames' = 0 /\ quiet' = (connected /\ frames = 0) /\ (connected /\ frames = 0 => ~quiet)
      /\ UNCHANGED <<posture, connected, model, head_pose, inflight, late, heldSince, refs>>
      /\ asked_at' # {} => asked_at # {}
  BY DEF Passes
<1>2. ASSUME NEW q \in pipe' PROVE PipelineOK(q)' /\ connected
  <2>1. PICK p \in pipe :
          q = [p EXCEPT !.last_tracked = Older(@, LossReset),
                        !.pair = {[x EXCEPT !.age = @ + 1] : x \in {m \in p.pair : m.age < ReconAge}},
                        !.run = {[x EXCEPT !.age = Older(@, MessageAge)] : x \in p.run}]
    BY <1>2 DEF Passes
  <2>2. PipelineOK(p) /\ connected /\ quiet \in BOOLEAN
    BY <2>1 DEF RecentreInv
  <2>3. /\ DOMAIN q = DOMAIN NewPipeline /\ q.last_tracked = Older(p.last_tracked, LossReset)
        /\ q.run = {[x EXCEPT !.age = Older(@, MessageAge)] : x \in p.run}
        /\ q.last_rotation = p.last_rotation
    BY <2>1, <2>2 DEF PipelineOK, NewPipeline
  <2>4. p.last_tracked \in 0..LossReset /\ q.last_tracked \in 0..LossReset
    BY <2>2, <2>3 DEF PipelineOK, Older, RecentreAssumption
  <2>5. ASSUME NEW r \in q.run PROVE DOMAIN r = RunShape /\ RunIsOfNow(q, r)' /\ RunEnds(q, r)'
    <3>1. PICK x \in p.run : r = [x EXCEPT !.age = Older(@, MessageAge)]
      BY <2>3, <2>5
    <3>2. DOMAIN x = RunShape /\ RunIsOfNow(p, x) /\ RunEnds(p, x)
      BY <2>2, <3>1 DEF PipelineOK, RunShape
    <3>3. /\ DOMAIN r = RunShape /\ r.age = Older(x.age, MessageAge)
          /\ r.since = x.since /\ r.seen = x.seen /\ r.poses = x.poses
      BY <3>1, <3>2 DEF RunShape
    <3>4. posture \in r.since /\ SeenOfNow(x, StaleLeft(p, x.since))
      BY <3>2, <3>3, RunIsMeasured
    <3>5. StaleLeft(q, r.since)' = StaleLeft(p, x.since)
      BY <1>1, <2>3, <3>3 DEF StaleLeft
    <3>6. SeenOfNow(r, StaleLeft(q, r.since)')
      BY <3>3, <3>4, <3>5 DEF SeenOfNow
    <3>7. DOMAIN r = RunShape /\ RunIsOfNow(q, r)'
      BY <1>1, <3>4, <3>6, RunIsMeasuredNext
    <3>8. r.age \in Nat /\ r.age <= x.age + 1
      BY <3>2, <3>3 DEF RunEnds, Older, RecentreAssumption
    <3>9. RunEnds(q, r)'
      <4>1. CASE p.last_tracked < LossReset
        <5>1. x.age <= Window - 1 + p.last_tracked /\ x.age \in Nat
          BY <2>4, <3>2, <4>1 DEF RunEnds, One, RecentreAssumption
        <5>2. q.last_tracked = p.last_tracked + 1
          BY <2>3, <4>1 DEF Older
        <5>3. r.age <= Window - 1 + q.last_tracked
          BY <2>4, <3>8, <5>1, <5>2 DEF RecentreAssumption
        <5> QED BY <1>1, <2>4, <3>8, <5>3 DEF RunEnds, One, RecentreAssumption
      <4>2. CASE ~(p.last_tracked < LossReset)
        <5>1. p.last_tracked = LossReset /\ q.last_tracked = LossReset
          BY <2>3, <2>4, <4>2 DEF Older, RecentreAssumption
        <5>2. frames = 0 /\ ~quiet
          BY <1>1, <2>2, <3>2, <5>1 DEF RunEnds
        <5>3. x.age <= Window - 1 + LossReset /\ x.age \in Nat
          BY <3>2, <5>1, <5>2 DEF RunEnds, One, RecentreAssumption
        <5>4. quiet'
          BY <1>1, <2>2, <5>2
        <5> QED BY <1>1, <3>8, <5>1, <5>3, <5>4 DEF RunEnds, One, RecentreAssumption
      <4> QED BY <4>1, <4>2
    <3> QED BY <3>7, <3>9
  <2> QED BY <2>2, <2>3, <2>4, <2>5 DEF PipelineOK, RunShape, NewPipeline
<1> QED BY <1>1, <1>2 DEF RecentreInv, RefIsHeld

LEMMA RecentreNextInv ==
    ASSUME RecentreAssumption, RecentreInv, [RecentreNext]_recentreVars PROVE RecentreInv'
<1>1. CASE \E eyes \in {"both", "one", "none"} : Frame(eyes)
  BY <1>1, FrameInv
<1>2. CASE CameraFrame \/ WorkerPublishes \/ LatePublishes
  BY <1>2, WorkersInv
<1>3. CASE SessionStarts \/ SessionEnds \/ Reconfigures
  BY <1>3, SessionsInv
<1>4. CASE Asks
  BY <1>4, AsksInv
<1>5. CASE \E q \in Postures \cup {NoOne} : Moves(q)
  BY <1>5, MovesInv
<1>6. CASE Passes
  BY <1>6, PassesInv
<1>7. CASE UNCHANGED recentreVars
  <2>1. UNCHANGED <<posture, connected, model, frames, quiet, head_pose, inflight, late, asked_at,
                    pipe, heldSince, refs>>
    BY <1>7 DEF recentreVars, person, pose
  <2>2. \A p \in pipe : PipelineOK(p)'
    BY <2>1, SameRun DEF RecentreInv
  <2> QED BY <2>1, <2>2 DEF RecentreInv, RefIsHeld
<1> QED BY <1>1, <1>2, <1>3, <1>4, <1>5, <1>6, <1>7 DEF RecentreNext

LEMMA RecentreInvariant == ASSUME RecentreAssumption PROVE RecentreSpec => []RecentreInv
<1>1. RecentreInit => RecentreInv
  BY RecentreInitInv
<1>2. RecentreInv /\ [RecentreNext]_recentreVars => RecentreInv'
  BY RecentreNextInv
<1> QED BY <1>1, <1>2, PTL DEF RecentreSpec

(* The neutral that is applied is a posture somebody held while it was being  *)
(* measured (settle, apply_reference), with the rotations of a worker, or of  *)
(* an earlier session's worker, published at any moment.                     *)
THEOREM RecentreRefIsHeld == ASSUME RecentreAssumption PROVE RecentreSpec => []RefIsHeld
<1>1. RecentreInv => RefIsHeld
  BY DEF RecentreInv
<1> QED BY <1>1, RecentreInvariant, PTL

(* A measurement is over before the line that says it is being made goes      *)
(* (rereference, the loss branch of offer, the session's watchdog).          *)
THEOREM RecentreAnswered == ASSUME RecentreAssumption PROVE RecentreSpec => []AnsweredInTime
<1>1. RecentreInv => AnsweredInTime
  <2> SUFFICES ASSUME RecentreInv, NEW p \in pipe, NEW r \in p.run PROVE r.age < MessageAge
    BY DEF AnsweredInTime
  <2>1. RunEnds(p, r) /\ p.last_tracked \in 0..LossReset
    BY DEF RecentreInv, PipelineOK
  <2>2. r.age \in Nat /\ r.age <= Window + LossReset
    BY <2>1 DEF RunEnds, One, RecentreAssumption
  <2> QED BY <2>2 DEF RecentreAssumption
<1> QED BY <1>1, RecentreInvariant, PTL

(* The two together: what the run asks of a measurement of the neutral. *)
THEOREM RecentreRight == ASSUME RecentreAssumption PROVE RecentreSpec => []RecentreIsRight
<1>1. RefIsHeld /\ AnsweredInTime => RecentreIsRight
  BY DEF RecentreIsRight
<1> QED BY <1>1, RecentreRefIsHeld, RecentreAnswered, PTL

-----------------------------------------------------------------------------
(* HeadTracker: the head that is followed. *)

LEMMA BelowIsWellFounded ==
    \A R : R = {ss \in Nat \X Nat : ss[1] < ss[2]} => IsWellFoundedOn(R, Nat)
BY NatLessThanWellFounded, Zenon DEF OpToRel

LEMMA LeastOf ==
    ASSUME NEW S, S \subseteq Nat, S # {}
    PROVE  Min(S) \in S /\ \A y \in S : Min(S) <= y
<1> DEFINE R == {ss \in Nat \X Nat : ss[1] < ss[2]}
<1>1. PICK x \in S : \A y \in S : ~(<<y, x>> \in R)
  <2>1. IsWellFoundedOn(R, Nat)
    BY BelowIsWellFounded
  <2> HIDE DEF R
  <2> QED BY <2>1, WFMin, Zenon
<1>2. \A y \in S : x <= y
  <2> SUFFICES ASSUME NEW y \in S PROVE x <= y
    OBVIOUS
  <2>1. ~(<<y, x>> \in R)
    BY <1>1
  <2> QED BY <2>1
<1> QED BY <1>2 DEF Min

LEMMA GreatestOf ==
    ASSUME NEW S, S \subseteq Nat, S # {}, NEW n \in Nat, \A y \in S : y <= n
    PROVE  Max(S) \in S /\ \A y \in S : Max(S) >= y
<1> DEFINE U == {m \in Nat : \A y \in S : y <= m}
           m == Min(U)
<1>1. m \in U /\ \A k \in U : m <= k
  BY LeastOf
<1>2. m \in S
  <2> SUFFICES ASSUME m \notin S PROVE FALSE
    OBVIOUS
  <2> HIDE DEF m
  <2>1. PICK y \in S : TRUE
    OBVIOUS
  <2>2. y <= m /\ y # m /\ y \in Nat /\ m \in Nat
    BY <1>1
  <2>3. m - 1 \in Nat
    BY <2>2
  <2>4. \A z \in S : z <= m - 1
    <3> SUFFICES ASSUME NEW z \in S PROVE z <= m - 1
      OBVIOUS
    <3>1. z <= m /\ z # m /\ z \in Nat
      BY <1>1
    <3> QED BY <2>2, <3>1
  <2>5. m - 1 \in U
    BY <2>3, <2>4
  <2>6. m <= m - 1
    BY <1>1, <2>5
  <2> QED BY <2>2, <2>6
<1>3. \A y \in S : m >= y
  BY <1>1, <1>2
<1> HIDE DEF m
<1> QED BY <1>2, <1>3 DEF Max

LEMMA MinOfTwo == ASSUME NEW a \in Nat, NEW b \in Nat PROVE Min({a, b}) = IF a <= b THEN a ELSE b
<1>1. Min({a, b}) \in {a, b} /\ \A y \in {a, b} : Min({a, b}) <= y
  BY LeastOf
<1> QED BY <1>1

(* A box of pixels of a picture that is w wide and h high. *)
BoxIn(b, w, h) ==
    /\ b.x0 \in Nat /\ b.x1 \in Nat /\ b.y0 \in Nat /\ b.y1 \in Nat
    /\ b.x0 < b.x1 /\ b.x1 <= w /\ b.y0 < b.y1 /\ b.y1 <= h

LEMMA FaceIsBoxIn ==
    ASSUME NEW f, f.w \in Nat \ {0}, f.h \in Nat \ {0}, NEW b \in FaceBBox(f)
    PROVE  BoxIn(b, f.w, f.h)
<1> DEFINE n == f.w * f.h
           sum == PixelSum(f)
           var == n * SquareSum(f) - sum * sum
           above(p) == p * n - sum >= 0 /\ 4 * (p * n - sum) * (p * n - sum) >= 9 * var
           lit == {s \in Spots(f) : above(Pixel(f, s[1], s[2]))}
           lefts == {s[1] : s \in lit}
           tops == {s[2] : s \in lit}
           rights == {s[1] + 1 : s \in lit}
           ends == {s[2] + 1 : s \in lit}
<1>1. /\ b = [x0 |-> Min(lefts), y0 |-> Min(tops), x1 |-> Max(rights), y1 |-> Max(ends)]
      /\ lit # {}
  BY DEF FaceBBox
<1>2. \A s \in lit : s[1] \in 0 .. f.w - 1 /\ s[2] \in 0 .. f.h - 1
  <2> SUFFICES ASSUME NEW s \in lit PROVE s[1] \in 0 .. f.w - 1 /\ s[2] \in 0 .. f.h - 1
    OBVIOUS
  <2>1. s \in Spots(f)
    OBVIOUS
  <2> QED BY <2>1 DEF Spots
<1>3. PICK one \in lit : TRUE
  BY <1>1
<1> HIDE DEF lit
<1>4. /\ Min(lefts) \in lefts /\ Min(tops) \in tops /\ \A y \in lefts : Min(lefts) <= y /\ \A z \in tops : Min(tops) <= z
  <2>1. lefts \subseteq Nat /\ tops \subseteq Nat /\ lefts # {} /\ tops # {}
    BY <1>2, <1>3
  <2> HIDE DEF lefts, tops
  <2> QED BY <2>1, LeastOf
<1>5. /\ Max(rights) \in rights /\ Max(ends) \in ends
      /\ (\A y \in rights : Max(rights) >= y) /\ (\A z \in ends : Max(ends) >= z)
  <2>1. rights \subseteq Nat /\ ends \subseteq Nat /\ rights # {} /\ ends # {}
    BY <1>2, <1>3
  <2>2. (\A y \in rights : y <= f.w) /\ (\A z \in ends : z <= f.h)
    BY <1>2
  <2> HIDE DEF rights, ends
  <2> QED BY <2>1, <2>2, GreatestOf
<1>6. /\ one[1] \in lefts /\ one[2] \in tops /\ one[1] + 1 \in rights /\ one[2] + 1 \in ends
  BY <1>3
<1>7. /\ \A y \in lefts : y \in 0 .. f.w - 1
      /\ \A y \in tops : y \in 0 .. f.h - 1
      /\ \A y \in rights : y \in 1 .. f.w
      /\ \A y \in ends : y \in 1 .. f.h
  BY <1>2
<1> HIDE DEF lefts, tops, rights, ends
<1>8. one[1] \in 0 .. f.w - 1 /\ one[2] \in 0 .. f.h - 1
  BY <1>6, <1>7
<1>9. /\ b.x0 = Min(lefts) /\ b.y0 = Min(tops) /\ b.x1 = Max(rights) /\ b.y1 = Max(ends)
  BY <1>1
<1>10. b.x0 \in 0 .. f.w - 1 /\ b.x0 <= one[1] /\ b.x1 \in 1 .. f.w /\ one[1] + 1 <= b.x1
  BY <1>4, <1>5, <1>6, <1>7, <1>9
<1>11. b.y0 \in 0 .. f.h - 1 /\ b.y0 <= one[2] /\ b.y1 \in 1 .. f.h /\ one[2] + 1 <= b.y1
  BY <1>4, <1>5, <1>6, <1>7, <1>9
<1> QED BY <1>8, <1>10, <1>11 DEF BoxIn

LEMMA PaddedIsBoxIn ==
    ASSUME NEW w \in Nat, NEW h \in Nat, NEW b, BoxIn(b, w, h), NEW pad \in Nat
    PROVE  BoxIn(Padded(b, pad, w, h), w, h)
<1>1. /\ Min({b.x1 + pad, w}) = (IF b.x1 + pad <= w THEN b.x1 + pad ELSE w)
      /\ Min({b.y1 + pad, h}) = (IF b.y1 + pad <= h THEN b.y1 + pad ELSE h)
  BY MinOfTwo DEF BoxIn
<1> QED BY <1>1 DEF BoxIn, Padded, Monus

(* A square may have no width, at a pixel of the picture all the same. *)
SquareIn(b, w, h) ==
    /\ b.x0 \in 0 .. w - 1 /\ b.y0 \in 0 .. h - 1
    /\ b.x1 \in b.x0 .. w /\ b.y1 \in b.y0 .. h

LEMMA SquareSide ==
    ASSUME NEW w \in Nat, NEW lo \in Nat, NEW hi \in Nat, NEW half \in Nat, lo < hi, hi <= w
    PROVE  LET c == (lo + hi) \div 2
           IN  /\ Monus(c, half) \in 0 .. w - 1
               /\ Min({c + half, w}) \in Monus(c, half) .. w
<1> DEFINE c == (lo + hi) \div 2
<1>1. c \in Nat /\ c < w
  OBVIOUS
<1> HIDE DEF c
<1>2. Min({c + half, w}) = IF c + half <= w THEN c + half ELSE w
  BY <1>1, MinOfTwo
<1>3. Monus(c, half) \in 0 .. w - 1 /\ Min({c + half, w}) \in Monus(c, half) .. w
  BY <1>1, <1>2 DEF Monus
<1> QED BY <1>3 DEF c

LEMMA SquaredIsIn ==
    ASSUME NEW w \in Nat, NEW h \in Nat, NEW b, BoxIn(b, w, h)
    PROVE  SquareIn(Squared(b, w, h), w, h)
<1>1. Longer(Width(b), Height(b)) \div 2 \in Nat
  BY DEF BoxIn, Longer, Width, Height, Monus
<1> DEFINE half == Longer(Width(b), Height(b)) \div 2
<1>2. half \in Nat
  BY <1>1
<1>3. /\ Squared(b, w, h).x0 = Monus((b.x0 + b.x1) \div 2, half)
      /\ Squared(b, w, h).x1 = Min({(b.x0 + b.x1) \div 2 + half, w})
      /\ Squared(b, w, h).y0 = Monus((b.y0 + b.y1) \div 2, half)
      /\ Squared(b, w, h).y1 = Min({(b.y0 + b.y1) \div 2 + half, h})
  BY DEF Squared
<1> HIDE DEF half
<1>4. /\ Monus((b.x0 + b.x1) \div 2, half) \in 0 .. w - 1
      /\ Min({(b.x0 + b.x1) \div 2 + half, w}) \in Monus((b.x0 + b.x1) \div 2, half) .. w
  BY <1>2, SquareSide DEF BoxIn
<1>5. /\ Monus((b.y0 + b.y1) \div 2, half) \in 0 .. h - 1
      /\ Min({(b.y0 + b.y1) \div 2 + half, h}) \in Monus((b.y0 + b.y1) \div 2, half) .. h
  BY <1>2, SquareSide DEF BoxIn
<1> QED BY <1>3, <1>4, <1>5 DEF SquareIn

LEMMA ThirdsOf ==
    ASSUME NEW lo \in Nat, NEW hi \in Nat, NEW w \in Nat, lo < w, lo <= hi, hi <= w, NEW i \in 0 .. 2
    PROVE  lo + (i * Longer(Monus(hi, lo), 1)) \div 3 \in 0 .. w - 1
<1> DEFINE l == Longer(Monus(hi, lo), 1)
<1>1. l \in Nat /\ l >= 1 /\ lo + l <= w
  BY DEF Longer, Monus
<1> HIDE DEF l
<1>2. (i * l) \div 3 \in 0 .. l - 1
  <2>1. CASE i = 0
    BY <1>1, <2>1
  <2>2. CASE i = 1
    BY <1>1, <2>2
  <2>3. CASE i = 2
    BY <1>1, <2>3
  <2> QED BY <2>1, <2>2, <2>3
<1>3. lo + (i * l) \div 3 \in 0 .. w - 1
  BY <1>1, <1>2
<1> QED BY <1>3 DEF l

LEMMA CropIsIn ==
    ASSUME NEW f, f.w \in Nat, f.h \in Nat, NEW b, SquareIn(b, f.w, f.h)
    PROVE  CropResize(b, 3) \subseteq Spots(f)
<1> SUFFICES ASSUME NEW i \in 0 .. 2, NEW j \in 0 .. 2
             PROVE  <<b.x0 + (i * Longer(Width(b), 1)) \div 3, b.y0 + (j * Longer(Height(b), 1)) \div 3>>
                        \in Spots(f)
  BY DEF CropResize
<1>1. /\ b.x0 \in Nat /\ b.x1 \in Nat /\ b.x0 < f.w /\ b.x0 <= b.x1 /\ b.x1 <= f.w
      /\ b.y0 \in Nat /\ b.y1 \in Nat /\ b.y0 < f.h /\ b.y0 <= b.y1 /\ b.y1 <= f.h
  BY DEF SquareIn
<1>2. b.x0 + (i * Longer(Width(b), 1)) \div 3 \in 0 .. f.w - 1
  BY <1>1, ThirdsOf DEF Width
<1>3. b.y0 + (j * Longer(Height(b), 1)) \div 3 \in 0 .. f.h - 1
  BY <1>1, ThirdsOf DEF Height
<1> QED BY <1>2, <1>3 DEF Spots

LEMMA CropsAreIn == ASSUME HeadAssumption, frame \in Pictures PROVE CropInFrame
<1>1. frame.w \in Nat \ {0} /\ frame.h \in Nat \ {0}
  BY DEF HeadAssumption
<1> SUFFICES ASSUME NEW pad \in {0, 25}, NEW b \in FaceBBox(frame)
             PROVE  CropResize(Squared(Padded(b, (Longer(Width(b), Height(b)) * pad) \div 100, frame.w, frame.h),
                                       frame.w, frame.h), 3) \subseteq Spots(frame)
  BY DEF CropInFrame, Preprocess
<1> DEFINE rim == (Longer(Width(b), Height(b)) * pad) \div 100
<1>2. BoxIn(b, frame.w, frame.h)
  BY <1>1, FaceIsBoxIn
<1>3. rim \in Nat
  <2>1. Longer(Width(b), Height(b)) \in Nat
    BY <1>2 DEF BoxIn, Longer, Width, Height, Monus
  <2> QED BY <2>1
<1> HIDE DEF rim
<1>4. BoxIn(Padded(b, rim, frame.w, frame.h), frame.w, frame.h)
  BY <1>1, <1>2, <1>3, PaddedIsBoxIn
<1>5. SquareIn(Squared(Padded(b, rim, frame.w, frame.h), frame.w, frame.h), frame.w, frame.h)
  BY <1>1, <1>4, SquaredIsIn
<1>6. CropResize(Squared(Padded(b, rim, frame.w, frame.h), frame.w, frame.h), 3) \subseteq Spots(frame)
  BY <1>1, <1>5, CropIsIn
<1> QED BY <1>6 DEF rim

-----------------------------------------------------------------------------
ShownHeads == [pose : SUBSET [rot : Nat, pos : Nat], sigma : BOOLEAN, at : Nat]

(* What is on show after a frame without an answer: a rotation that was on    *)
(* show, or the eyes' own, and no confidence.                                *)
LEMMA HeldPose ==
    ASSUME NEW shown \in SUBSET [rot : Nat, pos : Nat], NEW eyes \in BOOLEAN, NEW n \in Nat
    PROVE  /\ Held(shown, eyes, n) \in SUBSET [rot : Nat, pos : Nat]
           /\ \A p \in Held(shown, eyes, n) : p.rot = 0 \/ \E q \in shown : q.rot = p.rot
<1>1. CASE ~eyes
  BY <1>1 DEF Held
<1>2. CASE eyes /\ shown = {}
  BY <1>2 DEF Held
<1>3. CASE eyes /\ shown # {}
  <2>1. Held(shown, eyes, n) = {[p EXCEPT !.pos = n] : p \in shown}
    BY <1>3 DEF Held
  <2>2. \A p \in shown : /\ [p EXCEPT !.pos = n] \in [rot : Nat, pos : Nat]
                         /\ [p EXCEPT !.pos = n].rot = p.rot
    OBVIOUS
  <2> QED BY <2>1, <2>2
<1> QED BY <1>1, <1>2, <1>3

LEMMA HeldState ==
    ASSUME HeadTypeOK, HeldIsNotFresh, NEW eyes \in BOOLEAN, frameNo' = frameNo + 1,
           headState' = [headState EXCEPT !.sigma = KeepSigma(headState),
                                          !.pose = Held(@, eyes, frameNo')]
    PROVE  headState' \in ShownHeads /\ HeldIsNotFresh'
<1>1. headState \in ShownHeads /\ frameNo' \in Nat
  BY DEF HeadTypeOK, ShownHeads
<1>2. /\ headState.pose \in SUBSET [rot : Nat, pos : Nat] /\ headState.at \in Nat
      /\ headState'.pose = Held(headState.pose, eyes, frameNo')
      /\ headState'.sigma = FALSE /\ headState'.at = headState.at
      /\ headState' = [pose |-> Held(headState.pose, eyes, frameNo'), sigma |-> FALSE, at |-> headState.at]
  BY <1>1 DEF ShownHeads, KeepSigma
<1>3. /\ Held(headState.pose, eyes, frameNo') \in SUBSET [rot : Nat, pos : Nat]
      /\ \A p \in Held(headState.pose, eyes, frameNo') :
            p.rot = 0 \/ \E q \in headState.pose : q.rot = p.rot
  BY <1>1, <1>2, HeldPose
<1>4. headState' \in ShownHeads
  BY <1>2, <1>3 DEF ShownHeads
<1>5. \A p \in headState'.pose : p.rot > 0 => headState'.at = p.rot
  BY <1>2, <1>3 DEF HeldIsNotFresh
<1> QED BY <1>2, <1>4, <1>5 DEF HeldIsNotFresh

(* A miss: the region is given up, or one more is counted.                   *)
LEMMA MissedNow ==
    ASSUME HeadAssumption, misses \in Nat, misses < Reseed, NEW r
    PROVE  /\ Missed(r)[2] \in Nat /\ Missed(r)[2] < Reseed
           /\ Missed(r)[1] # {} => Missed(r)[2] = misses + 1
BY DEF HeadAssumption, Missed

(* A fresh seed that reaches a face finds it.                                *)
LEMMA SeedFinds ==
    ASSUME HeadAssumption, NEW f \in Pictures, NEW r, \E b \in f.face : InPatch(b, r),
           NEW raw \in Answers(f, r)
    PROVE  FinishFrame(f, raw).found
<1>1. PICK b \in f.face : raw = [box |-> b, sure |-> TRUE]
  BY DEF Answers
<1>2. Plausible(NextRoi(b, f), f)
  BY DEF HeadAssumption
<1>3. NextRoi(raw.box, f) = NextRoi(b, f) /\ raw.sure = TRUE
  BY <1>1
<1>4. NextRoi(b, f) \in {x \in {NextRoi(raw.box, f)} : Plausible(x, f)}
  BY <1>2, <1>3
<1> QED BY <1>3, <1>4 DEF FinishFrame

LEMMA EstimateInv ==
    ASSUME HeadAssumption, HeadInv, NEW f \in Pictures, NEW eyes \in BOOLEAN, Estimate(f, eyes)
    PROVE  HeadInv'
<1>1. PICK raw \in Answers(f, RoiFor(f)) :
         /\ roi' = FinishFrame(f, raw).state[1]
         /\ misses' = FinishFrame(f, raw).state[2]
         /\ dark' = IF FinishFrame(f, raw).found \/ ~\E b \in f.face : InPatch(b, SeedRoi(f)) THEN 0 ELSE dark + 1
         /\ headState' = IF FinishFrame(f, raw).found
                         THEN [pose |-> Fuse(eyes, frameNo'), sigma |-> TRUE, at |-> frameNo']
                         ELSE [headState EXCEPT !.sigma = KeepSigma(headState),
                                                !.pose = Held(@, eyes, frameNo')]
  BY DEF Estimate
<1>2. /\ frameNo' = frameNo + 1 /\ frame' = f /\ frameNo' \in Nat
      /\ misses \in Nat /\ dark \in Nat /\ misses < Reseed /\ dark <= Reseed /\ Reseed \in Nat /\ Reseed > 0
      /\ roi # {} => dark <= misses
  BY DEF Estimate, HeadInv, HeadTypeOK, HeadAssumption
<1>3. CASE FinishFrame(f, raw).found
  <2>1. misses' = 0 /\ dark' = 0
    BY <1>1, <1>3 DEF FinishFrame
  <2>2. headState' = [pose |-> {[rot |-> frameNo', pos |-> frameNo']}, sigma |-> TRUE, at |-> frameNo']
    BY <1>1, <1>3 DEF Fuse
  <2>3. headState' \in ShownHeads /\ HeldIsNotFresh'
    BY <1>2, <2>2 DEF ShownHeads, HeldIsNotFresh
  <2> QED BY <1>2, <2>1, <2>3 DEF HeadInv, HeadTypeOK, ShownHeads
<1>4. CASE ~FinishFrame(f, raw).found
  <2> DEFINE next == {r \in {NextRoi(raw.box, f)} : Plausible(r, f)}
  <2>1. roi' = Missed(next)[1] /\ misses' = Missed(next)[2]
    BY <1>1, <1>4 DEF FinishFrame
  <2> HIDE DEF next
  <2>2. misses' \in Nat /\ misses' < Reseed /\ (roi' # {} => misses' = misses + 1)
    BY <1>2, <2>1, MissedNow
  <2>3. dark' = 0 \/ (dark' = dark + 1 /\ roi # {})
    <3>1. CASE ~\E b \in f.face : InPatch(b, SeedRoi(f))
      BY <1>1, <3>1
    <3>2. CASE (\E b \in f.face : InPatch(b, SeedRoi(f))) /\ roi = {}
      <4>1. RoiFor(f) = SeedRoi(f)
        BY <3>2 DEF RoiFor
      <4> QED BY <1>1, <1>4, <3>2, <4>1, SeedFinds
    <3>3. CASE (\E b \in f.face : InPatch(b, SeedRoi(f))) /\ roi # {}
      BY <1>1, <1>4, <3>3
    <3> QED BY <3>1, <3>2, <3>3
  <2>4. dark' \in Nat /\ dark' <= Reseed /\ (roi' # {} => dark' <= misses')
    BY <1>2, <2>2, <2>3
  <2>5. headState' \in ShownHeads /\ HeldIsNotFresh'
    BY <1>1, <1>2, <1>4, HeldState DEF HeadInv
  <2> QED BY <1>2, <2>2, <2>4, <2>5 DEF HeadInv, HeadTypeOK, ShownHeads
<1> QED BY <1>3, <1>4

LEMMA RunFailsInv ==
    ASSUME HeadAssumption, HeadInv, NEW f \in Pictures, NEW eyes \in BOOLEAN, RunFails(f, eyes)
    PROVE  HeadInv'
<1>1. /\ frameNo' = frameNo + 1 /\ frame' = f /\ frameNo' \in Nat /\ dark' = 0
      /\ misses \in Nat /\ misses < Reseed /\ Reseed \in Nat
      /\ roi' = Missed(roi)[1] /\ misses' = Missed(roi)[2]
  BY DEF RunFails, HeadInv, HeadTypeOK, HeadAssumption
<1>2. misses' \in Nat /\ misses' < Reseed
  BY <1>1, MissedNow
<1>3. headState' \in ShownHeads /\ HeldIsNotFresh'
  BY <1>1, HeldState DEF HeadInv, RunFails
<1> QED BY <1>1, <1>2, <1>3 DEF HeadInv, HeadTypeOK, ShownHeads

LEMMA HeadInvInit == ASSUME HeadAssumption, HeadInit PROVE HeadInv
BY DEF HeadAssumption, HeadInit, HeadInv, HeadTypeOK, HeldIsNotFresh

LEMMA HeadInvKept == ASSUME HeadAssumption, HeadInv, [HeadNext]_headVars PROVE HeadInv'
<1>1. CASE UNCHANGED headVars
  BY <1>1 DEF headVars, HeadInv, HeadTypeOK, HeldIsNotFresh
<1>2. CASE HeadNext
  BY <1>2, EstimateInv, RunFailsInv DEF HeadNext
<1> QED BY <1>1, <1>2

(* The head is followed (onnx.rs and the worker of device.rs), whatever the   *)
(* pictures and however often it is lost: a face a fresh seed would reach is  *)
(* answered for within Reseed frames, a rotation that is held never passes    *)
(* for a measured one, and no crop reads a pixel outside its picture.         *)
THEOREM HeadFollowed == ASSUME HeadAssumption PROVE HeadSpec => []HeadIsFollowed
<1>1. HeadInit => HeadInv
  BY HeadInvInit
<1>2. HeadInv /\ [HeadNext]_headVars => HeadInv'
  BY HeadInvKept
<1>3. HeadInv => HeadIsFollowed
  BY CropsAreIn DEF HeadInv, HeadTypeOK, HeadIsFollowed, LostIsFound
<1> QED BY <1>1, <1>2, <1>3, PTL DEF HeadSpec
=============================================================================
