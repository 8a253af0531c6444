--------------------------- MODULE LeaseHubProofs ---------------------------
(* LeaseHub for every number of programs, consumers and commands: its types, *)
(* the hand-over of the device, that it keeps TrackerOwner's promise, and    *)
(* the order of the commands.                                                *)
EXTENDS LeaseHub, TLAPS

-----------------------------------------------------------------------------
LEMMA SeqType ==
    ASSUME NEW S, NEW s \in Seq(S), s # <<>>
    PROVE  Head(s) \in S /\ Tail(s) \in Seq(S)
  OBVIOUS

LEMMA NextNat == \A n \in Nat : n + 1 \in Nat
  OBVIOUS

(* One more message at the end of one queue of many. *)
LEMMA AppendType ==
    ASSUME NEW S, NEW D, NEW q \in [D -> Seq(S)], NEW d \in D, NEW a \in S
    PROVE  [q EXCEPT ![d] = Append(@, a)] \in [D -> Seq(S)]
<1>1. Append(q[d], a) \in Seq(S)
  OBVIOUS
<1> QED BY <1>1

(* A lease is free exactly when nobody is named in it. *)
LEMMA LeaseShape ==
    ASSUME NEW l \in Leases
    PROVE  /\ l.st \in {"free", "requested", "held"} /\ l.by \in Clients \cup {NoOne}
           /\ (l = Free <=> l.by = NoOne) /\ (l = Free <=> l.st = "free")
           /\ l.st = "requested" => announce_release(l) = Held(l.by)
           /\ l.st # "requested" => announce_release(l) = l
  BY HubAssumption DEF Leases, Free, Requested, Held, announce_release

LEMMA InitTyped == ASSUME Init PROVE TypeOK
<1>1. lease \in Leases /\ usb \in Clients \cup {Hub, NoOne}
  BY DEF Init, Leases
<1>2. /\ wire \in [Clients -> Seq({"hello", "acquire", "release"})]
      /\ replies \in [Clients -> Seq({"yes", "no"})] /\ cli \in [Clients -> Programs]
      /\ open \in [Clients -> BOOLEAN] /\ alive \in [Clients -> BOOLEAN]
  BY DEF Init, Programs
<1>3. srv \in [Clients -> {"none", "backlog", "spawned", "listed"}]
  BY DEF Init
<1>4. dev \in Session \cup Standby
  BY DEF Init, Session, Standby
<1>5. /\ rx \in Seq(Nat) /\ pending \in Seq(Nat)
      /\ batch \in Seq(Messages) /\ inbox \in Seq(Messages)
  BY DEF Init
<1> QED BY <1>1, <1>2, <1>3, <1>4, <1>5 DEF Init, TypeOK

LEMMA StepTyped == ASSUME TypeOK, [Next]_vars PROVE TypeOK'
<1> USE HubAssumption DEF TypeOK, devVars, sockVars, netVars, cliVars, world,
        others, offSock, offNet, offCli, offGui
<1>1. ASSUME Drain PROVE TypeOK'
  BY <1>1 DEF Drain, Session, Standby
<1>2. ASSUME Announce PROVE TypeOK'
  BY <1>2 DEF Announce, announce_release, Leases, Held, Free, Requested, Session, Standby
<1>3. ASSUME SampleDemand PROVE TypeOK'
  BY <1>3 DEF SampleDemand, active, Session, Standby
<1>4. ASSUME Decide PROVE TypeOK'
  BY <1>4 DEF Decide, Session, Standby
<1>5. ASSUME OpenOk PROVE TypeOK'
  BY <1>5 DEF OpenOk, Session, Standby
<1>6. ASSUME ConnectOk PROVE TypeOK'
  BY <1>6 DEF ConnectOk, Session, Standby
<1>7. ASSUME SessionFails PROVE TypeOK'
  BY <1>7 DEF SessionFails, Session, Standby
<1>8. ASSUME ApplyPending PROVE TypeOK'
  <2>1. pending # <<>> => Tail(pending) \in Seq(Nat)
    BY SeqType
  <2>2. CASE pending = <<>>
    BY <1>8, <2>2 DEF ApplyPending, Session
  <2>3. CASE pending # <<>>
    <3>1. pending' \in Seq(Nat)
      BY <1>8, <2>1, <2>3 DEF ApplyPending
    <3>2. done' \in Nat
      BY <1>8, <2>3, NextNat DEF ApplyPending
    <3> QED BY <1>8, <2>3, <3>1, <3>2 DEF ApplyPending
  <2> QED BY <2>2, <2>3
<1>9. ASSUME Linger PROVE TypeOK'
  BY <1>9 DEF Linger, Session, Standby
<1>10. ASSUME CheckLease PROVE TypeOK'
  BY <1>10 DEF CheckLease, Session, Standby
<1>11. ASSUME Tick PROVE TypeOK'
  BY <1>11 DEF Tick, Session, Standby
<1>12. ASSUME CloseConn PROVE TypeOK'
  BY <1>12 DEF CloseConn, Session, Standby
<1>13. ASSUME AnnounceRelease PROVE TypeOK'
  BY <1>13 DEF AnnounceRelease, announce_release, Leases, Held, Free, Requested, Session, Standby
<1>14. ASSUME LingerElapses PROVE TypeOK'
  BY <1>14 DEF LingerElapses, Session, Standby
<1>15. ASSUME Poll PROVE TypeOK'
  BY <1>15 DEF Poll, Session, Standby
<1>16. ASSUME HandleHello PROVE TypeOK'
  <2>1. Head(batch) \in Messages /\ Tail(batch) \in Seq(Messages)
    BY <1>16, SeqType DEF HandleHello
  <2>2. Head(batch).from \in Clients
    BY <2>1 DEF Messages
  <2> QED BY <1>16, <2>1, <2>2 DEF HandleHello
<1>17. ASSUME HandleLease PROVE TypeOK'
  <2>1. Head(batch) \in Messages /\ Tail(batch) \in Seq(Messages)
    BY <1>17, SeqType DEF HandleLease
  <2>2. Head(batch).from \in Clients
    BY <2>1 DEF Messages
  <2> DEFINE c == Head(batch).from
  <2>3. Requested(c) \in Leases /\ Free \in Leases
    BY <2>2 DEF Leases
  <2>4. lease' \in Leases /\ awaiting' \subseteq Clients
    BY <1>17, <2>2, <2>3 DEF HandleLease
  <2>5. replies' \in [Clients -> Seq({"yes", "no"})]
    <3>1. \A a \in {"yes", "no"} :
             [replies EXCEPT ![c] = Append(@, a)] \in [Clients -> Seq({"yes", "no"})]
      BY <2>2, AppendType
    <3>2. \/ replies' = replies
          \/ \E a \in {"yes", "no"} : replies' = [replies EXCEPT ![c] = Append(@, a)]
      BY <1>17 DEF HandleLease, send_to
    <3>3. CASE replies' = replies
      BY <3>3
    <3>4. ASSUME NEW a \in {"yes", "no"}, replies' = [replies EXCEPT ![c] = Append(@, a)]
          PROVE  replies' \in [Clients -> Seq({"yes", "no"})]
      BY <3>1, <3>4, Zenon
    <3> QED BY <3>2, <3>3, <3>4, Zenon
  <2> QED BY <1>17, <2>1, <2>4, <2>5 DEF HandleLease
<1>18. ASSUME ReapHolds PROVE TypeOK'
  BY <1>18 DEF ReapHolds, Session, Standby
<1>19. ASSUME TakeBack PROVE TypeOK'
  BY <1>19 DEF TakeBack, Leases, Session, Standby
<1>20. ASSUME RetainAwaiting PROVE TypeOK'
  BY <1>20 DEF RetainAwaiting, Session, Standby
<1>21. ASSUME Answer PROVE TypeOK'
  <2>1. lease.by \in Clients => [replies EXCEPT ![lease.by] = Append(@, "yes")]
                                 \in [Clients -> Seq({"yes", "no"})]
    BY AppendType
  <2>2. replies' \in [Clients -> Seq({"yes", "no"})]
    <3>1. replies' \in {replies, [replies EXCEPT ![lease.by] = Append(@, "yes")]}
          /\ (replies' # replies => lease.by \in Clients)
      BY <1>21 DEF Answer, send_to
    <3> QED BY <2>1, <3>1
  <2> QED BY <1>21, <2>2 DEF Answer
<1>22. ASSUME SendCommand PROVE TypeOK'
  BY <1>22 DEF SendCommand, Session, Standby
<1>23. ASSUME Unplug PROVE TypeOK'
  <2>1. unplugs' \in Nat
    BY <1>23, NextNat DEF Unplug
  <2> QED BY <1>23, <2>1 DEF Unplug
<1>24. ASSUME Replug PROVE TypeOK'
  BY <1>24 DEF Replug, Session, Standby
<1>25. ASSUME NEW o \in Watchers \cup Flows, Claim(o) PROVE TypeOK'
  BY <1>25 DEF Claim
<1>26. ASSUME NEW c \in Clients, Accept(c) PROVE TypeOK'
  BY <1>26 DEF Accept, Programs, Asking, Messages
<1>27. ASSUME NEW c \in Clients, Register(c) PROVE TypeOK'
  BY <1>27 DEF Register, Programs, Asking, Messages
<1>28. ASSUME NEW c \in Clients, ReadMsg(c) PROVE TypeOK'
  BY <1>28 DEF ReadMsg, Programs, Asking, Messages
<1>29. ASSUME NEW c \in Clients, MarkDead(c) PROVE TypeOK'
  BY <1>29 DEF MarkDead, Programs, Asking, Messages
<1>30. ASSUME NEW c \in Clients, Connect(c) PROVE TypeOK'
  <2>1. <<"acquire">> \in Seq({"hello", "acquire", "release"})
        /\ <<"hello">> \in Seq({"hello", "acquire", "release"})
    OBVIOUS
  <2>2. wire' \in [Clients -> Seq({"hello", "acquire", "release"})]
    BY <1>30, <2>1 DEF Connect
  <2>3. cli' \in [Clients -> Programs]
    BY <1>30 DEF Connect, Programs
  <2> QED BY <1>30, <2>2, <2>3 DEF Connect
<1>31. ASSUME NEW c \in Clients, AskAgain(c) PROVE TypeOK'
  BY <1>31 DEF AskAgain, Programs, Asking, Messages
<1>32. ASSUME NEW c \in Clients, HearYes(c) PROVE TypeOK'
  BY <1>32 DEF HearYes, Programs, Asking, Messages
<1>33. ASSUME NEW c \in Clients, HearNo(c) PROVE TypeOK'
  BY <1>33 DEF HearNo, Programs, Asking, Messages
<1>34. ASSUME NEW c \in Clients, GiveUp(c) PROVE TypeOK'
  BY <1>34 DEF GiveUp, Programs, Asking, Messages
<1>35. ASSUME NEW c \in Clients, OpenUsb(c) PROVE TypeOK'
  BY <1>35 DEF OpenUsb, Programs, Asking, Messages
<1>36. ASSUME NEW c \in Clients, OpenFails(c) PROVE TypeOK'
  BY <1>36 DEF OpenFails, Programs, Asking, Messages
<1>37. ASSUME NEW c \in Clients, CloseUsb(c) PROVE TypeOK'
  BY <1>37 DEF CloseUsb, Programs, Asking, Messages
<1>38. ASSUME NEW c \in Clients, DropLease(c) PROVE TypeOK'
  BY <1>38 DEF DropLease, Programs, Asking, Messages
<1>39. ASSUME NEW c \in Clients, Kill(c) PROVE TypeOK'
  BY <1>39 DEF Kill, Programs, Asking, Messages
<1>40. ASSUME NEW c \in Clients, KernelClosesSocket(c) PROVE TypeOK'
  BY <1>40 DEF KernelClosesSocket, Programs, Asking, Messages
<1>41. ASSUME NEW c \in Clients, KernelClosesUsb(c) PROVE TypeOK'
  BY <1>41 DEF KernelClosesUsb, Programs, Asking, Messages
<1>42. ASSUME UNCHANGED vars PROVE TypeOK'
  BY <1>42 DEF vars
<1> QED
  BY <1>1, <1>2, <1>3, <1>4, <1>5, <1>6, <1>7, <1>8, <1>9, <1>10, <1>11, <1>12, <1>13, <1>14,
     <1>15, <1>16, <1>17, <1>18, <1>19, <1>20, <1>21, <1>22, <1>23, <1>24, <1>25, <1>26, <1>27,
     <1>28, <1>29, <1>30, <1>31, <1>32, <1>33, <1>34, <1>35, <1>36, <1>37, <1>38, <1>39, <1>40,
     <1>41, <1>42
     DEF Next, DevStep, SockStep, NetStep, CliStep

(* Every variable of the hub, its socket and its clients keeps its type.     *)
THEOREM LeaseTyped == Spec => []TypeOK
<1>1. Init => TypeOK
  BY InitTyped
<1>2. TypeOK /\ [Next]_vars => TypeOK'
  BY StepTyped
<1> QED BY <1>1, <1>2, PTL DEF Spec

-----------------------------------------------------------------------------
LEMMA TailItem ==
    ASSUME NEW S, NEW s \in Seq(S), s # <<>>, NEW i \in DOMAIN Tail(s)
    PROVE  \E j \in DOMAIN s : Tail(s)[i] = s[j]
  OBVIOUS

LEMMA AppendItem ==
    ASSUME NEW S, NEW s \in Seq(S), NEW a, NEW i \in DOMAIN Append(s, a)
    PROVE  Append(s, a)[i] = a \/ \E j \in DOMAIN s : Append(s, a)[i] = s[j]
  OBVIOUS

(* What one pass through handle_lease leaves behind for client c: a request,  *)
(* a refusal (or nothing), or a lease given up by a program that is gone.     *)
LeaseHandled(c) ==
    /\ batch # <<>> /\ batch' = Tail(batch)
    /\ UNCHANGED <<cli, open, srv, alive, list, live, sock, usb, dev, wire, inbox>>
    /\ \/ lease' = Requested(c) /\ lease.by \in {NoOne, c} /\ replies' = replies
       \/ /\ lease' = lease
          /\ replies' = replies \/ (replies' = [replies EXCEPT ![c] = Append(@, "no")] /\ c \in list)
       \/ /\ lease' = Free /\ lease.by = c /\ cli[c] = "gone"
          /\ replies' = replies \/ (replies' = [replies EXCEPT ![c] = Append(@, "yes")] /\ c \in list)

LEMMA HandledLease ==
    ASSUME TypeOK, ReleaseIsLast, HandleLease
    PROVE  \E c \in Clients : LeaseHandled(c)
<1>1. batch # <<>> /\ batch' = Tail(batch) /\ batch[1] = Head(batch) /\ 1 \in DOMAIN batch
  BY DEF HandleLease, TypeOK
<1>2. PICK c \in Clients, act \in {"hello", "acquire", "release"} :
           Head(batch) = [from |-> c, msg |-> act]
  <2>1. Head(batch) \in Messages
    BY <1>1, SeqType DEF TypeOK
  <2> QED BY <2>1 DEF Messages
<1>3. act = "release" => cli[c] = "gone"
  BY <1>1, <1>2 DEF ReleaseIsLast
<1>4. Head(batch).from = c /\ Head(batch).msg = act
  BY <1>2
<1> DEFINE decision == lease_decision(lease, c, act)
<1>5. decision = "grant" => lease.by \in {NoOne, c}
  BY DEF lease_decision
<1>6. decision = "released" => lease.by = c /\ act # "acquire"
  BY DEF lease_decision
<1>7. /\ act \in {"acquire", "release"}
      /\ \/ decision = "grant" /\ lease' = Requested(c) /\ replies' = replies
         \/ lease' = lease /\ (send_to(c, "no") \/ replies' = replies)
         \/ decision = "released" /\ lease' = Free /\ send_to(c, "yes")
  BY <1>4, Zenon DEF HandleLease
<1>8. UNCHANGED <<cli, open, srv, alive, list, live, sock, usb, dev, wire, inbox>>
  BY DEF HandleLease, offSock, netVars, devVars
<1>9. LeaseHandled(c)
  BY <1>1, <1>3, <1>5, <1>6, <1>7, <1>8 DEF LeaseHandled, send_to
<1> QED BY <1>2, <1>9

LEMMA InitInv == ASSUME Init PROVE LeaseInv
<1>1. TypeOK
  BY InitTyped
<1>2. HeldMeansReleased /\ Owners
  BY HubAssumption DEF Init, HeldMeansReleased, Owners, Free, Session
<1>3. Connections /\ ReleaseIsLast /\ HolderIsKept
  BY DEF Init, Connections, ReleaseIsLast, HolderIsKept, Promised, Granted, YesOnItsWay, Asking
<1> QED BY <1>1, <1>2, <1>3 DEF LeaseInv

LEMMA StepInv == ASSUME LeaseInv, [Next]_vars PROVE LeaseInv'
<1> DEFINE Kept == HeldMeansReleased /\ Owners /\ Connections /\ ReleaseIsLast /\ HolderIsKept
<1> USE HubAssumption
    DEF LeaseInv, TypeOK, HeldMeansReleased, Owners, Connections, ReleaseIsLast, HolderIsKept,
        Promised, Granted, YesOnItsWay, Asking,
        devVars, sockVars, netVars, cliVars, world, others, offSock, offNet, offCli, offGui
<1>1. ASSUME Drain PROVE Kept'
  BY <1>1 DEF Drain, Session
<1>2. ASSUME Announce PROVE Kept'
  BY <1>2 DEF Announce, Session, Leases, Free, Held, Requested, announce_release
<1>3. ASSUME SampleDemand PROVE Kept'
  BY <1>3 DEF SampleDemand, Session
<1>4. ASSUME Decide PROVE Kept'
  BY <1>4 DEF Decide, Session, must_wait, hub_must_not_open, Leases, Free, Held, Requested
<1>5. ASSUME OpenOk PROVE Kept'
  BY <1>5 DEF OpenOk, Session
<1>6. ASSUME ConnectOk PROVE Kept'
  BY <1>6 DEF ConnectOk, Session
<1>7. ASSUME SessionFails PROVE Kept'
  BY <1>7 DEF SessionFails, Session
<1>8. ASSUME ApplyPending PROVE Kept'
  BY <1>8 DEF ApplyPending, Session
<1>9. ASSUME Linger PROVE Kept'
  BY <1>9 DEF Linger, Session
<1>10. ASSUME CheckLease PROVE Kept'
  BY <1>10 DEF CheckLease, Session
<1>11. ASSUME Tick PROVE Kept'
  BY <1>11 DEF Tick, Session
<1>12. ASSUME CloseConn PROVE Kept'
  BY <1>12 DEF CloseConn, Session
<1>13. ASSUME AnnounceRelease PROVE Kept'
  BY <1>13 DEF AnnounceRelease, Session, Leases, Free, Held, Requested, announce_release
<1>14. ASSUME LingerElapses PROVE Kept'
  BY <1>14 DEF LingerElapses, Session
<1>15. ASSUME Poll PROVE Kept'
  BY <1>15 DEF Poll
<1>16. ASSUME HandleHello PROVE Kept'
  BY <1>16 DEF HandleHello
<1>17. ASSUME HandleLease PROVE Kept'
  <2>1. PICK c \in Clients : LeaseHandled(c)
    BY <1>17, HandledLease
  <2>2. HeldMeansReleased' /\ Owners'
    BY <2>1 DEF LeaseHandled, Free, Requested
  <2>3. Connections'
    BY <2>1 DEF LeaseHandled
  <2>4. ReleaseIsLast'
    BY <2>1, TailItem DEF LeaseHandled
  <2>5. HolderIsKept'
    <3>1. ASSUME NEW d \in Clients, Promised(d)' PROVE Promised(d)
      <4>1. CASE replies' = replies
        BY <2>1, <3>1, <4>1 DEF LeaseHandled
      <4>2. CASE \E a \in {"no", "yes"} : /\ replies' = [replies EXCEPT ![c] = Append(@, a)]
                                          /\ a = "yes" => cli[c] = "gone"
        BY <2>1, <3>1, <4>2, AppendItem DEF LeaseHandled
      <4> QED BY <2>1, <4>1, <4>2 DEF LeaseHandled
    <3>2. ASSUME NEW d \in Clients, Promised(d) PROVE lease'.by = d
      BY <2>1, <3>2 DEF LeaseHandled, Free, Requested
    <3> HIDE DEF Promised
    <3> QED BY <2>1, <3>1, <3>2 DEF LeaseHandled
  <2> QED BY <2>2, <2>3, <2>4, <2>5
<1>18. ASSUME ReapHolds PROVE Kept'
  BY <1>18 DEF ReapHolds
<1>19. ASSUME TakeBack PROVE Kept'
  BY <1>19 DEF TakeBack, Free
<1>20. ASSUME RetainAwaiting PROVE Kept'
  BY <1>20 DEF RetainAwaiting
<1>21. ASSUME Answer PROVE Kept'
  BY <1>21 DEF Answer, send_to
<1>22. ASSUME SendCommand PROVE Kept'
  BY <1>22 DEF SendCommand
<1>23. ASSUME Unplug PROVE Kept'
  BY <1>23 DEF Unplug
<1>24. ASSUME Replug PROVE Kept'
  BY <1>24 DEF Replug
<1>25. ASSUME NEW o \in Watchers \cup Flows, Claim(o) PROVE Kept'
  BY <1>25 DEF Claim
<1>26. ASSUME NEW c \in Clients, Accept(c) PROVE Kept'
  BY <1>26 DEF Accept
<1>27. ASSUME NEW c \in Clients, Register(c) PROVE Kept'
  BY <1>27 DEF Register
<1>28. ASSUME NEW c \in Clients, ReadMsg(c) PROVE Kept'
  <2> DEFINE m == [from |-> c, msg |-> Head(wire[c])]
  <2>1. /\ wire[c] # <<>> /\ inbox' = Append(inbox, m) /\ wire' = [wire EXCEPT ![c] = Tail(@)]
        /\ UNCHANGED <<cli, open, srv, alive, list, live, sock, usb, dev, batch, replies, lease>>
    BY <1>28 DEF ReadMsg
  <2>2. HeldMeansReleased' /\ Owners' /\ Connections' /\ HolderIsKept'
    BY <2>1
  <2>3. ReleaseIsLast'
    <3>1. \A d \in Clients : \A i \in DOMAIN wire'[d] : \E j \in DOMAIN wire[d] : wire'[d][i] = wire[d][j]
      <4>1. ASSUME NEW i \in DOMAIN Tail(wire[c])
            PROVE  \E j \in DOMAIN wire[c] : Tail(wire[c])[i] = wire[c][j]
        BY <2>1, TailItem
      <4> QED BY <2>1, <4>1
    <3>2. m.msg = wire[c][1] /\ 1 \in DOMAIN wire[c]
      BY <2>1
    <3>3. \A i \in DOMAIN inbox' : inbox'[i] = m \/ \E j \in DOMAIN inbox : inbox'[i] = inbox[j]
      <4>1. inbox \in Seq(Messages) /\ inbox' = Append(inbox, m)
        BY <2>1
      <4> HIDE DEF m, LeaseInv, TypeOK, HeldMeansReleased, Owners, Connections, ReleaseIsLast, HolderIsKept
      <4> QED BY <4>1, AppendItem, SMTT(20)
    <3>4. ASSUME NEW d \in Clients, cli[d] # "gone" PROVE m # [from |-> d, msg |-> "release"]
      BY <2>1, <3>2, <3>4
    <3> HIDE DEF m
    <3> QED BY <2>1, <3>1, <3>3, <3>4
  <2> QED BY <2>2, <2>3
<1>29. ASSUME NEW c \in Clients, MarkDead(c) PROVE Kept'
  BY <1>29 DEF MarkDead
<1>30. ASSUME NEW c \in Clients, Connect(c) PROVE Kept'
  BY <1>30 DEF Connect
<1>31. ASSUME NEW c \in Clients, AskAgain(c) PROVE Kept'
  BY <1>31 DEF AskAgain
<1>32. ASSUME NEW c \in Clients, HearYes(c) PROVE Kept'
  BY <1>32 DEF HearYes
<1>33. ASSUME NEW c \in Clients, HearNo(c) PROVE Kept'
  BY <1>33 DEF HearNo
<1>34. ASSUME NEW c \in Clients, GiveUp(c) PROVE Kept'
  BY <1>34 DEF GiveUp
<1>35. ASSUME NEW c \in Clients, OpenUsb(c) PROVE Kept'
  BY <1>35 DEF OpenUsb
<1>36. ASSUME NEW c \in Clients, OpenFails(c) PROVE Kept'
  BY <1>36 DEF OpenFails
<1>37. ASSUME NEW c \in Clients, CloseUsb(c) PROVE Kept'
  BY <1>37 DEF CloseUsb
<1>38. ASSUME NEW c \in Clients, DropLease(c) PROVE Kept'
  BY <1>38 DEF DropLease
<1>39. ASSUME NEW c \in Clients, Kill(c) PROVE Kept'
  BY <1>39 DEF Kill
<1>40. ASSUME NEW c \in Clients, KernelClosesSocket(c) PROVE Kept'
  BY <1>40 DEF KernelClosesSocket
<1>41. ASSUME NEW c \in Clients, KernelClosesUsb(c) PROVE Kept'
  BY <1>41 DEF KernelClosesUsb
<1>42. ASSUME UNCHANGED vars PROVE Kept'
  BY <1>42 DEF vars
<1>43. TypeOK'
  BY StepTyped
<1>44. Kept'
  <2> HIDE DEF Kept
  <2> QED
    BY <1>1, <1>2, <1>3, <1>4, <1>5, <1>6, <1>7, <1>8, <1>9, <1>10, <1>11, <1>12, <1>13, <1>14,
       <1>15, <1>16, <1>17, <1>18, <1>19, <1>20, <1>21, <1>22, <1>23, <1>24, <1>25, <1>26,
       <1>27, <1>28, <1>29, <1>30, <1>31, <1>32, <1>33, <1>34, <1>35, <1>36, <1>37, <1>38,
       <1>39, <1>40, <1>41, <1>42
       DEF Next, DevStep, SockStep, NetStep, CliStep
<1> QED BY <1>43, <1>44

(* The invariant that explains the lease holds in every reachable state.     *)
THEOREM LeaseInvHolds == Spec => []LeaseInv
<1>1. Init => LeaseInv
  BY InitInv
<1>2. LeaseInv /\ [Next]_vars => LeaseInv'
  BY StepInv
<1> QED BY <1>1, <1>2, PTL DEF Spec

(* `Held` is announced only with the hub's hands off the device              *)
(* (announce_release runs after the connection is dropped), and stays true.  *)
THEOREM LeaseReleased == Spec => []HeldMeansReleased
<1>1. LeaseInv => HeldMeansReleased
  BY DEF LeaseInv
<1> QED BY <1>1, LeaseInvHolds, PTL

(* A program told yes keeps the lease, and the hub stays off the device,     *)
(* until the program itself is done with it.                                 *)
THEOREM LeaseGrantHolds == Spec => []GrantHolds
<1>1. LeaseInv => GrantHolds
  BY DEF LeaseInv, GrantHolds, HolderIsKept, Promised, Granted, Owners
<1> QED BY <1>1, LeaseInvHolds, PTL

(* Serving::tick never sends a yes to anybody but the holder.                *)
THEOREM LeaseYesIsForTheHolder == Spec => []YesIsForTheHolder
<1>1. LeaseInv => YesIsForTheHolder
  BY DEF LeaseInv, YesIsForTheHolder, HolderIsKept, Promised
<1> QED BY <1>1, LeaseInvHolds, PTL

-----------------------------------------------------------------------------
(* A program that stops acting on the hub's word, whether it has closed the   *)
(* device or leaves that to the kernel.                                       *)
LEMMA LeaveStep ==
    ASSUME NEW c \in Clients, lease' = lease, ~Promised(c)',
           \A d \in Clients \ {c} : cli'[d] = cli[d] /\ replies'[d] = replies[d],
           usb' = usb \/ (usb = c /\ usb' = NoOne)
    PROVE  Promise!Leave(c)
<1>1. Granted' = Granted \ {c}
  BY DEF Promised, Granted
<1>2. \A d \in Clients \ {c} : (Promised(d)' <=> Promised(d))
  BY DEF Promised, Granted, YesOnItsWay
<1>3. LetGoFor' = LetGoFor \/ (LetGoFor = c /\ LetGoFor' = NoOne)
  BY <1>2 DEF LetGoFor, Promised
<1> QED BY <1>1, <1>3 DEF Promise!Leave

(* Nothing that LetGoFor and Granted look at has changed. *)
LEMMA SameGrant ==
    ASSUME UNCHANGED <<lease, cli, replies>>
    PROVE  LetGoFor' = LetGoFor /\ Granted' = Granted
  BY DEF LetGoFor, Granted, YesOnItsWay, Asking

(* The release is announced: the hub gives its word, unless it stands.        *)
LEMMA AnnounceStep ==
    ASSUME TypeOK, HolderIsKept, lease' = announce_release(lease),
           UNCHANGED <<usb, cli, replies>>, usb # Hub
    PROVE  Promise!Next \/ UNCHANGED <<usb, LetGoFor, Granted>>
<1>1. CASE lease.st # "requested"
  BY <1>1, SameGrant DEF announce_release
<1>2. CASE lease.st = "requested"
  <2>1. lease.by \in Clients /\ lease' = Held(lease.by)
    BY <1>2, LeaseShape DEF TypeOK, Free
  <2>2. Granted' = Granted
    BY DEF Granted
  <2>3. LetGoFor' = lease.by
    BY <2>1 DEF LetGoFor, Held
  <2>4. LetGoFor \in {lease.by, NoOne}
    BY DEF LetGoFor
  <2>5. LetGoFor = NoOne => Promise!Grant(lease.by)
    BY <2>2, <2>3 DEF Promise!Grant
  <2> QED BY <2>1, <2>2, <2>3, <2>4, <2>5 DEF Promise!Next
<1> QED BY <1>1, <1>2

(* A request, a refusal or a release leaves the hub's word to whoever acts on *)
(* it, or takes it back from somebody who does not.                           *)
LEMMA HandleStep ==
    ASSUME LeaseInv, NEW c \in Clients, LeaseHandled(c)
    PROVE  Promise!Next \/ UNCHANGED <<usb, LetGoFor, Granted>>
<1>1. usb' = usb /\ Granted' = Granted
  BY DEF LeaseHandled, Granted
<1>2. \A d \in Clients : (Promised(d)' <=> Promised(d))
  <2>1. \A d \in Clients \ {c} : (Promised(d)' <=> Promised(d))
    BY DEF LeaseHandled, LeaseInv, TypeOK, Promised, Granted, YesOnItsWay
  <2>2. cli[c] = "gone" => ~Promised(c) /\ ~Promised(c)'
    BY DEF LeaseHandled, Promised, Granted, YesOnItsWay, Asking
  <2>3. replies' = replies => (Promised(c)' <=> Promised(c))
    BY DEF LeaseHandled, Promised, Granted, YesOnItsWay
  <2>4. replies' = [replies EXCEPT ![c] = Append(@, "no")] => (Promised(c)' <=> Promised(c))
    <3>1. Append(replies[c], "no") \in Seq({"yes", "no"}) /\ replies[c] \in Seq({"yes", "no"})
      BY DEF LeaseInv, TypeOK
    <3>2. (\E i \in DOMAIN Append(replies[c], "no") : Append(replies[c], "no")[i] = "yes")
          <=> \E i \in DOMAIN replies[c] : replies[c][i] = "yes"
      BY <3>1
    <3> QED BY <3>2 DEF LeaseHandled, LeaseInv, TypeOK, Promised, Granted, YesOnItsWay
  <2> QED BY <2>1, <2>2, <2>3, <2>4 DEF LeaseHandled
<1>3. CASE lease' = lease
  BY <1>1, <1>2, <1>3 DEF LetGoFor, Promised
<1>4. CASE lease' = Requested(c) /\ lease.by \in {NoOne, c}
  <2>1. LetGoFor' = IF Promised(c) THEN c ELSE NoOne
    BY <1>2, <1>4, HubAssumption DEF LetGoFor, Promised, Requested
  <2>2. Promised(c) => lease.by = c /\ LetGoFor = c
    BY DEF LeaseInv, HolderIsKept, LetGoFor, Promised
  <2>3. LetGoFor # NoOne /\ ~Promised(c) => Promise!Withdraw
    BY <1>1, <1>4, <2>1 DEF Promise!Withdraw, LetGoFor, Promised
  <2> QED BY <1>1, <2>1, <2>2, <2>3 DEF Promise!Next
<1>5. CASE lease' = Free /\ lease.by = c /\ cli[c] = "gone"
  <2>1. LetGoFor' = NoOne
    BY <1>5, HubAssumption DEF LetGoFor, Free
  <2>2. LetGoFor \in {c, NoOne} /\ c \notin Granted /\ NoOne \notin Granted
    BY <1>5, HubAssumption DEF LetGoFor, Granted
  <2>3. Promise!Withdraw
    BY <1>1, <2>1, <2>2 DEF Promise!Withdraw
  <2> QED BY <2>3 DEF Promise!Next
<1> QED BY <1>3, <1>4, <1>5 DEF LeaseHandled

(* Every step of the hub, the socket, the programs and the kernel is a step   *)
(* of TrackerOwner, or none.                                                  *)
LEMMA PromiseStep == ASSUME LeaseInv, [Next]_vars PROVE [Promise!Next]_(Promise!vars)
<1> DEFINE Implemented == Promise!Next \/ UNCHANGED <<usb, LetGoFor, Granted>>
<1> USE DEF devVars, sockVars, netVars, cliVars, world, others, offSock, offNet, offCli, offGui
<1>1. ASSUME UNCHANGED <<lease, usb, cli, replies>> PROVE Implemented
  BY <1>1, SameGrant
<1>2. ASSUME Drain \/ SampleDemand \/ Decide \/ ConnectOk \/ ApplyPending PROVE Implemented
  BY <1>1, <1>2 DEF Drain, SampleDemand, Decide, ConnectOk, ApplyPending
<1>3. ASSUME Linger \/ CheckLease \/ Tick \/ LingerElapses PROVE Implemented
  BY <1>1, <1>3 DEF Linger, CheckLease, Tick, LingerElapses
<1>4. ASSUME Poll \/ HandleHello \/ ReapHolds \/ RetainAwaiting PROVE Implemented
  BY <1>1, <1>4 DEF Poll, HandleHello, ReapHolds, RetainAwaiting
<1>5. ASSUME SendCommand \/ Unplug \/ Replug \/ \E o \in Watchers \cup Flows : Claim(o)
      PROVE  Implemented
  BY <1>1, <1>5 DEF SendCommand, Unplug, Replug, Claim
<1>6. ASSUME NEW c \in Clients, NetStep(c) \/ KernelClosesSocket(c) PROVE Implemented
  BY <1>1, <1>6 DEF NetStep, Accept, Register, ReadMsg, MarkDead, KernelClosesSocket
<1>7. ASSUME Announce \/ AnnounceRelease PROVE Implemented
  <2>1. usb # Hub
    BY <1>7 DEF Announce, AnnounceRelease, LeaseInv, Owners, Session
  <2> QED BY <1>7, <2>1, AnnounceStep DEF Announce, AnnounceRelease, LeaseInv
<1>8. ASSUME OpenOk PROVE Implemented
  <2>1. LetGoFor = NoOne
    BY <1>8 DEF OpenOk, LetGoFor, LeaseInv, HeldMeansReleased, HolderIsKept, Promised, Session
  <2>2. Promise!HubTakes
    BY <1>8, <2>1, SameGrant DEF OpenOk, Promise!HubTakes
  <2> QED BY <2>2 DEF Promise!Next
<1>9. ASSUME SessionFails \/ CloseConn PROVE Implemented
  <2>1. usb' = usb \/ (usb = Hub /\ usb' = NoOne)
    BY <1>9 DEF SessionFails, CloseConn, LeaseInv, Owners, Session
  <2> QED BY <1>9, <2>1, SameGrant DEF SessionFails, CloseConn, Promise!Next, Promise!HubLetsGo
<1>10. ASSUME HandleLease PROVE Implemented
  BY <1>10, HandledLease, HandleStep DEF LeaseInv
<1>11. ASSUME TakeBack PROVE Implemented
  <2>1. CASE lease' = lease
    BY <1>1, <1>11, <2>1 DEF TakeBack
  <2>2. CASE lease' = Free /\ lease.by \notin live
    <3>1. LetGoFor' = NoOne /\ Granted' = Granted /\ usb' = usb
      BY <1>11, <2>2, HubAssumption DEF TakeBack, LetGoFor, Free, Granted
    <3>2. LetGoFor \notin Granted
      BY <1>11, <2>2, HubAssumption
      DEF TakeBack, LetGoFor, LeaseInv, HolderIsKept, Promised, Granted
    <3> QED BY <3>1, <3>2 DEF Promise!Next, Promise!Withdraw
  <2> QED BY <1>11, <2>1, <2>2 DEF TakeBack
<1>12. ASSUME Answer PROVE Implemented
  <2>1. CASE lease.st = "held"
    BY <1>12, <2>1 DEF Answer, LetGoFor, Granted
  <2>2. CASE lease.st # "held"
    BY <1>1, <1>12, <2>2 DEF Answer
  <2> QED BY <2>1, <2>2
<1>13. ASSUME NEW c \in Clients, HearYes(c) PROVE Implemented
  <2>1. Promised(c) /\ Granted' = Granted \cup {c} /\ lease' = lease /\ usb' = usb
    BY <1>13 DEF HearYes, Promised, YesOnItsWay, Granted, LeaseInv, TypeOK
  <2>2. LetGoFor = c /\ LetGoFor' = c
    BY <2>1 DEF LetGoFor, LeaseInv, HolderIsKept, Promised
  <2> QED BY <2>1, <2>2 DEF Promise!Next, Promise!Trust
<1>14. ASSUME NEW c \in Clients, OpenUsb(c) PROVE Implemented
  <2>1. Granted' = Granted /\ lease' = lease
    BY <1>14 DEF OpenUsb, Granted, LeaseInv, TypeOK
  <2>2. \A d \in Clients : (YesOnItsWay(d)' <=> YesOnItsWay(d))
    BY <1>14 DEF OpenUsb, YesOnItsWay, Asking, LeaseInv, TypeOK
  <2>3. LetGoFor' = LetGoFor
    BY <2>1, <2>2 DEF LetGoFor
  <2> QED BY <1>14, <2>1, <2>3 DEF OpenUsb, Promise!Next, Promise!Take
<1>15. ASSUME NEW c \in Clients, Connect(c) \/ AskAgain(c) \/ DropLease(c) PROVE Implemented
  <2>1. Granted' = Granted /\ lease' = lease /\ usb' = usb
    BY <1>15 DEF Connect, AskAgain, DropLease, Granted, LeaseInv, TypeOK
  <2>2. \A d \in Clients : (YesOnItsWay(d)' <=> YesOnItsWay(d))
    BY <1>15 DEF Connect, AskAgain, DropLease, YesOnItsWay, Asking, LeaseInv, TypeOK, Connections
  <2> QED BY <2>1, <2>2 DEF LetGoFor
<1>16. ASSUME NEW c \in Clients,
              \/ HearNo(c) \/ GiveUp(c) \/ OpenFails(c) \/ CloseUsb(c)
              \/ Kill(c) \/ KernelClosesUsb(c)
       PROVE  Implemented
  <2>1. lease' = lease
    BY <1>16 DEF HearNo, GiveUp, OpenFails, CloseUsb, Kill, KernelClosesUsb
  <2>2. usb' = usb \/ (usb = c /\ usb' = NoOne)
    BY <1>16 DEF HearNo, GiveUp, OpenFails, CloseUsb, Kill, KernelClosesUsb, LeaseInv, Owners
  <2>3. ~Promised(c)'
    BY <1>16 DEF HearNo, GiveUp, OpenFails, CloseUsb, Kill, KernelClosesUsb, LeaseInv, TypeOK,
                 Promised, Granted, YesOnItsWay, Asking
  <2>4. \A d \in Clients \ {c} : cli'[d] = cli[d] /\ replies'[d] = replies[d]
    BY <1>16 DEF HearNo, GiveUp, OpenFails, CloseUsb, Kill, KernelClosesUsb, LeaseInv, TypeOK
  <2>5. Promise!Leave(c)
    BY <2>1, <2>2, <2>3, <2>4, LeaveStep
  <2> QED BY <2>5 DEF Promise!Next
<1>17. ASSUME UNCHANGED vars PROVE Implemented
  BY <1>1, <1>17 DEF vars
<1>18. Implemented
  <2> HIDE DEF Implemented
  <2> QED
    BY <1>2, <1>3, <1>4, <1>5, <1>6, <1>7, <1>8, <1>9, <1>10, <1>11, <1>12, <1>13, <1>14,
       <1>15, <1>16, <1>17 DEF Next, DevStep, SockStep, CliStep
<1> QED BY <1>18 DEF Promise!vars

(* The threads, the messages and the programs together implement              *)
(* TrackerOwner: one owner, and a word that is kept.                          *)
THEOREM LeaseKeepsPromise == Spec => KeepsPromise
<1>1. Init => Promise!Init
  BY HubAssumption DEF Init, Promise!Init, LetGoFor, Granted, YesOnItsWay, Asking, Free
<1>2. LeaseInv /\ [Next]_vars => [Promise!Next]_(Promise!vars)
  BY PromiseStep
<1> QED BY <1>1, <1>2, LeaseInvHolds, PTL DEF Spec, KeepsPromise, Promise!Spec

-----------------------------------------------------------------------------
(* Queues of consecutive numbers: what is sent, drained and applied.         *)
LEMMA NothingQueued == \A n \in Nat : Consecutive(<<>>, n)
BY DEF Consecutive

LEMMA OneMoreQueued ==
    ASSUME NEW q \in Seq(Nat), NEW from \in Nat, Consecutive(q, from)
    PROVE  /\ Consecutive(Append(q, from + Len(q) + 1), from)
           /\ Len(Append(q, from + Len(q) + 1)) = Len(q) + 1
BY DEF Consecutive

LEMMA QueuesJoined ==
    ASSUME NEW q \in Seq(Nat), NEW r \in Seq(Nat), NEW from \in Nat,
           Consecutive(q, from), Consecutive(r, from + Len(q))
    PROVE  Consecutive(q \o r, from) /\ Len(q \o r) = Len(q) + Len(r)
<1>1. Len(q \o r) = Len(q) + Len(r) /\ Len(q) \in Nat /\ Len(r) \in Nat
  OBVIOUS
<1>2. ASSUME NEW i \in 1..(Len(q) + Len(r)) PROVE (q \o r)[i] = from + i
  <2>1. CASE i <= Len(q)
    BY <2>1, <1>1 DEF Consecutive
  <2>2. CASE i > Len(q)
    <3>1. i - Len(q) \in DOMAIN r /\ (q \o r)[i] = r[i - Len(q)]
      BY <1>1, <2>2
    <3> QED BY <1>1, <3>1 DEF Consecutive
  <2> QED BY <1>1, <2>1, <2>2
<1> QED BY <1>1, <1>2 DEF Consecutive

LEMMA OneLessQueued ==
    ASSUME NEW q \in Seq(Nat), q # <<>>, NEW from \in Nat, Consecutive(q, from)
    PROVE  Consecutive(Tail(q), from + 1) /\ Len(Tail(q)) = Len(q) - 1 /\ Tail(q) \in Seq(Nat)
BY DEF Consecutive

LEMMA QueuesInit == ASSUME Init PROVE QueuesInv
BY NothingQueued DEF Init, QueuesInv

LEMMA QueuesStep == ASSUME TypeOK, QueuesInv, [Next]_vars PROVE QueuesInv'
<1>1. /\ rx \in Seq(Nat) /\ pending \in Seq(Nat) /\ done \in Nat /\ sent \in Nat
      /\ Len(rx) \in Nat /\ Len(pending) \in Nat /\ Len(<<>>) = 0
  BY DEF TypeOK
<1>2. CASE Drain
  <2>1. dev' = "announce" /\ pending' = pending \o rx /\ rx' = <<>> /\ sent' = sent /\ done' = done
    BY <1>2 DEF Drain, others
  <2>2. Consecutive(pending', done) /\ Len(pending') = Len(pending) + Len(rx)
    BY <1>1, <2>1, QueuesJoined DEF QueuesInv
  <2> QED BY <1>1, <2>1, <2>2, NothingQueued DEF QueuesInv
<1>3. CASE SendCommand
  <2>1. /\ sent' = sent + 1 /\ rx' = Append(rx, done + Len(pending) + Len(rx) + 1)
        /\ UNCHANGED <<dev, pending, done>>
    BY <1>1, <1>3 DEF SendCommand, QueuesInv, offGui, devVars
  <2>2. Consecutive(rx', done + Len(pending)) /\ Len(rx') = Len(rx) + 1
    BY <1>1, <2>1, OneMoreQueued DEF QueuesInv
  <2> QED BY <1>1, <2>1, <2>2 DEF QueuesInv
<1>4. CASE SessionFails
  <2>1. /\ pending' = <<>> /\ done' = done + Len(pending)
        /\ UNCHANGED <<rx, sent>>
    BY <1>4 DEF SessionFails, others
  <2> QED BY <1>1, <2>1, NothingQueued DEF QueuesInv
<1>5. CASE ApplyPending
  <2>1. UNCHANGED <<rx, sent>>
    BY <1>5 DEF ApplyPending, others
  <2>2. CASE pending = <<>>
    BY <1>5, <2>1, <2>2 DEF ApplyPending, QueuesInv
  <2>3. CASE pending # <<>>
    <3>1. pending' = Tail(pending) /\ done' = done + 1 /\ dev' = "apply"
      BY <1>5, <2>3 DEF ApplyPending
    <3>2. Consecutive(pending', done + 1) /\ Len(pending') = Len(pending) - 1
      BY <1>1, <2>3, <3>1, OneLessQueued DEF QueuesInv
    <3>3. done' + Len(pending') = done + Len(pending)
      <4> DEFINE k == Len(pending)
                 m == Len(pending')
      <4>1. done' = done + 1 /\ m = k - 1 /\ k \in Nat /\ done \in Nat
        BY <1>1, <3>1, <3>2
      <4> HIDE DEF k, m
      <4>2. done' + m = done + k
        BY <4>1
      <4> QED BY <4>2 DEF k, m
    <3> QED BY <1>1, <2>1, <3>1, <3>2, <3>3 DEF QueuesInv
  <2> QED BY <2>2, <2>3
<1>6. CASE Tick
  <2>1. /\ dev = "tick" /\ rx' = <<>> /\ done' = done + Len(rx)
        /\ UNCHANGED <<pending, sent>>
    BY <1>6 DEF Tick, others
  <2>2. pending = <<>>
    BY <2>1 DEF QueuesInv
  <2> QED BY <1>1, <2>1, <2>2, NothingQueued DEF QueuesInv
<1>7. CASE /\ UNCHANGED <<rx, sent, pending, done>>
           /\ \/ dev' \notin {"linger", "lease", "tick", "close"}
              \/ dev \in {"linger", "lease", "tick", "close"}
  BY <1>7 DEF QueuesInv
<1>8. CASE Announce \/ SampleDemand \/ Decide \/ OpenOk \/ ConnectOk \/ CloseConn \/ AnnounceRelease
  BY <1>7, <1>8 DEF Announce, SampleDemand, Decide, OpenOk, ConnectOk, CloseConn, AnnounceRelease, others
<1>9. CASE Linger \/ CheckLease
  BY <1>7, <1>9 DEF Linger, CheckLease, others
<1>10. CASE /\ UNCHANGED <<rx, sent, pending, done, dev>>
  BY <1>7, <1>10
<1>11. CASE LingerElapses \/ SockStep \/ Unplug \/ Replug \/ \E o \in Watchers \cup Flows : Claim(o)
  BY <1>10, <1>11 DEF LingerElapses, SockStep, Unplug, Replug, Claim, others, devVars, offSock, offNet, offGui, Poll,
     HandleHello, HandleLease, ReapHolds, TakeBack, RetainAwaiting, Answer
<1>12. ASSUME NEW c \in Clients, \/ NetStep(c) \/ CliStep(c) \/ Connect(c) \/ Kill(c)
                                 \/ AskAgain(c) \/ GiveUp(c) \/ CloseUsb(c)
       PROVE  UNCHANGED <<rx, sent, pending, done, dev>>
  BY <1>12 DEF NetStep, CliStep, Accept, Register, ReadMsg, MarkDead, HearYes, HearNo, OpenUsb, OpenFails, DropLease,
     KernelClosesSocket, KernelClosesUsb, Connect, Kill, AskAgain, GiveUp, CloseUsb, devVars, offSock, offNet, offCli
<1>13. CASE UNCHANGED vars
  BY <1>10, <1>13 DEF vars, devVars
<1> QED
  BY <1>2, <1>3, <1>4, <1>5, <1>6, <1>8, <1>9, <1>10, <1>11, <1>12, <1>13 DEF Next, DevStep

(* QueuesInv holds of every behaviour of the hub. *)
LEMMA QueuesHold == Spec => []QueuesInv
<1>1. Init => QueuesInv
  BY QueuesInit
<1>2. TypeOK /\ QueuesInv /\ [Next]_vars => QueuesInv'
  BY QueuesStep
<1> QED BY <1>1, <1>2, LeaseTyped, PTL DEF Spec

(* However the window, the device thread and the programs interleave, and    *)
(* wherever sessions fail: commands are applied or failed once each, in the  *)
(* order they were sent.                                                     *)
THEOREM CommandsStayInOrder == Spec => []CommandsInOrder
<1>1. ASSUME TypeOK, QueuesInv PROVE CommandsInOrder
  <2>1. /\ rx \in Seq(Nat) /\ pending \in Seq(Nat) /\ done \in Nat /\ sent \in Nat
        /\ Len(rx) \in Nat /\ Len(pending) \in Nat
    BY <1>1 DEF TypeOK
  <2>2. Consecutive(pending \o rx, done) /\ Len(pending \o rx) = sent - done
    BY <1>1, <2>1, QueuesJoined DEF QueuesInv
  <2>3. pending \o rx \in Seq(Nat)
    BY <2>1
  <2>4. DOMAIN (pending \o rx) = 1..(sent - done)
    BY <2>2, <2>3
  <2>5. \A q \in Seq(Nat) : q = [i \in DOMAIN q |-> q[i]]
    OBVIOUS
  <2>6. \A i \in 1..(sent - done) : (pending \o rx)[i] = done + i
    BY <2>2, <2>4 DEF Consecutive
  <2> QED BY <2>3, <2>4, <2>5, <2>6 DEF CommandsInOrder
<1> QED BY <1>1, LeaseTyped, QueuesHold, PTL
=============================================================================
