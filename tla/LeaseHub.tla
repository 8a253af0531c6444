------------------------------ MODULE LeaseHub ------------------------------
(***************************************************************************)
(* The hub (device thread, socket thread, window) and the programs that    *)
(* borrow the tracker from it: `tobii headpose`, which asks the hub to let *)
(* go of the device and opens it itself (tobii-cli `lease_from`,           *)
(* `HubLease`), and `tobii game`, which only keeps the hub's own session   *)
(* alive.  Programs may be killed at any moment, and `tobii headpose`      *)
(* gives up waiting and opens the device unasked.                          *)
(***************************************************************************)
EXTENDS HubThreads, TLC

offCli == <<lease, claims, rx, sent, world, devVars, sockVars>>
offGui == <<lease, usb, world, devVars, sockVars, netVars, cliVars>>

Init ==
    /\ lease = Free /\ claims = {} 
    /\ rx = <<>> /\ sent = 0 /\ usb = NoOne
    /\ reachable = TRUE /\ unplugs = 0
    /\ dev = "drain" /\ pending = <<>> /\ wants = FALSE /\ idle = "none" /\ done = 0
    /\ sock = "poll" /\ batch = <<>> /\ live = {} /\ awaiting = {} 
    /\ srv = [c \in Clients |-> "none"] /\ wire = [c \in Clients |-> <<>>]
    /\ open = [c \in Clients |-> FALSE] /\ alive = [c \in Clients |-> FALSE]
    /\ list = {} /\ inbox = <<>> /\ early = {}
    /\ cli = [c \in Clients |-> "out"] /\ replies = [c \in Clients |-> <<>>]

-----------------------------------------------------------------------------
(* The hub's window: a consumer takes or drops its guard ... *)
Claim(o) ==
    /\ claims' = IF o \in claims THEN claims \ {o} ELSE claims \cup {o}
    /\ UNCHANGED <<rx, sent, offGui>>

(* ... or sends a command down the channel. *)
SendCommand ==
    /\ sent < MaxCommands
    /\ sent' = sent + 1 /\ rx' = Append(rx, sent')
    /\ UNCHANGED <<claims, offGui>>

(* The tracker is unplugged, or rebooting, and comes back. *)
Unplug ==
    /\ reachable /\ unplugs < MaxUnplugs
    /\ reachable' = FALSE /\ unplugs' = unplugs + 1
    /\ UNCHANGED <<lease, claims, rx, sent, usb, devVars, sockVars, netVars, cliVars>>

Replug ==
    /\ ~reachable
    /\ reachable' = TRUE
    /\ UNCHANGED <<lease, claims, rx, sent, usb, unplugs,
                   devVars, sockVars, netVars, cliVars>>

-----------------------------------------------------------------------------
(* Client::connect_at says hello; lease_from then asks for the device. *)
Connect(c) ==
    /\ cli[c] = "out"
    /\ cli' = [cli EXCEPT ![c] = IF c \in Leasers THEN "asking" ELSE "playing"]
    /\ wire' = [wire EXCEPT ![c] = IF c \in Leasers THEN <<"acquire">>
                                                    ELSE <<"hello">>]
    /\ srv' = [srv EXCEPT ![c] = "backlog"]
    /\ open' = [open EXCEPT ![c] = TRUE]
    /\ UNCHANGED <<alive, list, inbox, early, replies, usb, offCli>>

(* The protocol lets a client that missed its reply ask again (once, here). *)
AskAgain(c) ==
    /\ c \in Askers /\ cli[c] = "asking"
    /\ cli' = [cli EXCEPT ![c] = "asking2"]
    /\ wire' = [wire EXCEPT ![c] = Append(@, "acquire")]
    /\ UNCHANGED <<srv, open, alive, list, inbox, early, replies, usb, offCli>>

Asking == {"asking", "asking2"}

(* lease_answer: yes, the device can be opened ... *)
HearYes(c) ==
    /\ cli[c] \in Asking /\ replies[c] # <<>> /\ Head(replies[c]) = "yes"
    /\ cli' = [cli EXCEPT ![c] = "granted"]
    /\ replies' = [replies EXCEPT ![c] = <<>>]
    /\ UNCHANGED <<netVars, usb, offCli>>

(* ... no, so the command fails, dropping the connection ... *)
HearNo(c) ==
    /\ cli[c] \in Asking /\ replies[c] # <<>> /\ Head(replies[c]) = "no"
    /\ cli' = [cli EXCEPT ![c] = "gone"]
    /\ replies' = [replies EXCEPT ![c] = <<>>]
    /\ open' = [open EXCEPT ![c] = FALSE]
    /\ UNCHANGED <<srv, wire, alive, list, inbox, early, usb, offCli>>

(* ... or nothing within LEASE_WAIT: opened anyway, without a lease. *)
GiveUp(c) ==
    /\ cli[c] \in Asking
    /\ cli' = [cli EXCEPT ![c] = "alone"]
    /\ replies' = [replies EXCEPT ![c] = <<>>]
    /\ open' = [open EXCEPT ![c] = FALSE]
    /\ UNCHANGED <<srv, wire, alive, list, inbox, early, usb, offCli>>

(* headpose opens the device, with a lease or without. *)
OpenUsb(c) ==
    /\ cli[c] \in {"granted", "alone"} /\ usb = NoOne /\ reachable
    /\ usb' = c
    /\ cli' = [cli EXCEPT ![c] = IF @ = "granted" THEN "using" ELSE "usingalone"]
    /\ UNCHANGED <<netVars, replies, offCli>>

(* Busy or absent: the command fails, with the lease still to drop. *)
OpenFails(c) ==
    /\ cli[c] \in {"granted", "alone"} /\ (usb # NoOne \/ ~reachable)
    /\ cli' = [cli EXCEPT ![c] = IF @ = "granted" THEN "closed" ELSE "gone"]
    /\ UNCHANGED <<netVars, replies, usb, offCli>>

(* The command ends: its connection is dropped before the lease is. *)
CloseUsb(c) ==
    /\ cli[c] \in {"using", "usingalone"}
    /\ usb' = NoOne
    /\ cli' = [cli EXCEPT ![c] = IF @ = "using" THEN "closed" ELSE "gone"]
    /\ UNCHANGED <<netVars, replies, offCli>>

(* Drop for HubLease: release, then the socket goes. *)
DropLease(c) ==
    /\ cli[c] = "closed"
    /\ wire' = [wire EXCEPT ![c] = Append(@, "release")]
    /\ open' = [open EXCEPT ![c] = FALSE]
    /\ cli' = [cli EXCEPT ![c] = "gone"]
    /\ UNCHANGED <<srv, alive, list, inbox, early, replies, usb, offCli>>

(* A game ends, or any program is killed: the kernel closes what it held, in *)
(* either order.                                                             *)
Kill(c) ==
    /\ cli[c] \notin {"out", "dying", "gone"}
    /\ cli' = [cli EXCEPT ![c] = "dying"]
    /\ replies' = [replies EXCEPT ![c] = <<>>]
    /\ UNCHANGED <<netVars, usb, offCli>>

KernelClosesSocket(c) ==
    /\ cli[c] = "dying" /\ open[c]
    /\ open' = [open EXCEPT ![c] = FALSE]
    /\ UNCHANGED <<srv, wire, alive, list, inbox, early, cliVars, usb, offCli>>

KernelClosesUsb(c) ==
    /\ cli[c] = "dying" /\ usb = c
    /\ usb' = NoOne
    /\ UNCHANGED <<netVars, cliVars, offCli>>

CliStep(c) ==
    \/ HearYes(c) \/ HearNo(c) \/ OpenUsb(c) \/ OpenFails(c) \/ DropLease(c)
    \/ KernelClosesSocket(c) \/ KernelClosesUsb(c)

NetStep(c) == Accept(c) \/ Register(c) \/ ReadMsg(c) \/ MarkDead(c)

Next ==
    \/ DevStep \/ LingerElapses \/ SockStep
    \/ \E o \in Watchers \cup Flows : Claim(o)
    \/ SendCommand \/ Unplug \/ Replug
    \/ \E c \in Clients :
          \/ NetStep(c) \/ CliStep(c) \/ Connect(c) \/ Kill(c)
          \/ AskAgain(c) \/ GiveUp(c) \/ CloseUsb(c)

Spec == Init /\ [][Next]_vars

(* Both threads of the hub loop for ever and never block on the other while  *)
(* holding a lock; readers, the accept thread and the linger clock progress. *)
(* A program acts on what it is told and the kernel cleans up after it, but  *)
(* nothing makes a user start it, stop it or plug the tracker back in.       *)
Fairness ==
    /\ WF_vars(DevStep) /\ WF_vars(SockStep) /\ WF_vars(LingerElapses)
    /\ \A c \in Clients : WF_vars(NetStep(c)) /\ WF_vars(CliStep(c))

FairSpec == Spec /\ Fairness

-----------------------------------------------------------------------------
Programs == {"out", "asking", "asking2", "granted", "using", "closed",
             "alone", "usingalone", "playing", "dying", "gone"}
Messages == [from : Clients, msg : {"hello", "acquire", "release"}]

TypeOK ==
    /\ lease \in Leases /\ claims \subseteq Watchers \cup Flows \cup Clients
    /\ rx \in Seq(Nat) /\ pending \in Seq(Nat) /\ sent \in Nat /\ done \in Nat
    /\ usb \in Clients \cup {Hub, NoOne}
    /\ reachable \in BOOLEAN /\ unplugs \in Nat
    /\ dev \in Session \cup Standby /\ wants \in BOOLEAN
    /\ idle \in {"none", "running", "over"}
    /\ sock \in {"poll", "handle", "takeback", "await", "answer"}
    /\ batch \in Seq(Messages) /\ inbox \in Seq(Messages)
    /\ live \subseteq Clients /\ awaiting \subseteq Clients
    /\ list \subseteq Clients /\ early \subseteq Clients
    /\ srv \in [Clients -> {"none", "backlog", "spawned", "listed"}]
    /\ wire \in [Clients -> Seq({"hello", "acquire", "release"})]
    /\ open \in [Clients -> BOOLEAN] /\ alive \in [Clients -> BOOLEAN]
    /\ cli \in [Clients -> Programs] /\ replies \in [Clients -> Seq({"yes", "no"})]

Granted == {c \in Clients : cli[c] \in {"granted", "using"}}

(* The lease is `Held` only when the hub really has no hands on the device:  *)
(* not its interface, and not a session already on its way to opening it     *)
(* (enum Lease: the middle state is that gap).                               *)
HeldMeansReleased == lease.st = "held" => usb # Hub /\ dev \notin Session

(* A program told "yes" has the lease for as long as it acts on it, and the  *)
(* hub stays off the device that whole time: no message, death or re-asking  *)
(* of anybody gives the device back under it.                                *)
GrantHolds ==
    \A c \in Granted : lease.by = c /\ usb # Hub /\ dev \notin Session

(* Told yes, and not yet read it. *)
YesOnItsWay(c) == cli[c] \in Asking /\ \E i \in DOMAIN replies[c] : replies[c][i] = "yes"

(* A yes is only ever on its way to the client the hub let go for: somebody  *)
(* else's lease never answers a stale entry of `awaiting` (Serving::tick),   *)
(* and no entry is answered before the device thread has let go.             *)
YesIsForTheHolder ==
    \A c \in Clients : YesOnItsWay(c) => lease.by = c /\ dev \notin Session

(* Commands are applied or failed once each and in the order they were sent, *)
(* whichever of the two queues they sit in when the session opens or fails.  *)
CommandsInOrder ==
    pending \o rx = [i \in 1..(sent - done) |-> done + i]

(* Whom the hub has let go for, as TrackerOwner sees it: a second request of *)
(* the same client moves the lease back to `Requested`, not the device.      *)
LetGoFor ==
    IF lease.st = "held" \/ (lease.by \in Clients /\ (lease.by \in Granted \/ YesOnItsWay(lease.by)))
    THEN lease.by ELSE NoOne

Promise == INSTANCE TrackerOwner WITH owner <- usb, grant <- LetGoFor, trusting <- Granted

(* The threads, the messages and the programs together keep that promise.    *)
KeepsPromise == Promise!Spec

-----------------------------------------------------------------------------
(* Why the lease holds, as an inductive invariant.  The hub has the device    *)
(* from a successful open until the connection is dropped, a program from its *)
(* own open until it closes it.                                               *)
Owners ==
    /\ usb = Hub <=> dev \in Session \ {"open"}
    /\ \A c \in Clients : cli[c] \in {"using", "usingalone"} => usb = c

(* A connection whose program has not closed it is alive from the moment it   *)
(* is accepted; only accepted connections are on the list.                    *)
Connections ==
    /\ \A c \in Clients : open[c] /\ srv[c] \in {"spawned", "listed"} => alive[c]
    /\ \A c \in Clients : cli[c] \in Asking \cup {"granted", "using"} => open[c]
    /\ \A c \in list : srv[c] = "listed"
    /\ \A c \in Clients : cli[c] = "out" => srv[c] = "none" /\ replies[c] = <<>>

(* A release is the last thing a program says. *)
ReleaseIsLast ==
    \A c \in Clients :
        \/ cli[c] = "gone"
        \/ /\ \A i \in DOMAIN wire[c] : wire[c][i] # "release"
           /\ \A i \in DOMAIN inbox : inbox[i] # [from |-> c, msg |-> "release"]
           /\ \A i \in DOMAIN batch : batch[i] # [from |-> c, msg |-> "release"]

(* Whoever was told yes, read or not, is the holder, is on the list, and is   *)
(* in the view of the list a pass of the socket thread decides on.            *)
Promised(c) == c \in Granted \/ YesOnItsWay(c)
HolderIsKept ==
    \A c \in Clients : Promised(c) =>
        /\ lease.by = c /\ dev \notin Session /\ c \in list
        /\ sock \in {"takeback", "await", "answer"} => c \in live

(* Together with HeldMeansReleased it is inductive: no action of any thread,  *)
(* program or kernel leads out of it.                                         *)
LeaseInv ==
    TypeOK /\ HeldMeansReleased /\ Owners /\ Connections /\ ReleaseIsLast /\ HolderIsKept

(* Why commands stay in order: the two queues hold consecutive numbers, the    *)
(* channel's after the thread's own, which is empty while a session runs.     *)
Consecutive(q, from) == \A i \in DOMAIN q : q[i] = from + i
QueuesInv ==
    /\ sent = done + Len(pending) + Len(rx)
    /\ Consecutive(pending, done) /\ Consecutive(rx, done + Len(pending))
    /\ dev \in {"linger", "lease", "tick", "close"} => pending = <<>>

-----------------------------------------------------------------------------
(* A lease asked for is not left hanging: the device thread lets go and says *)
(* so, wherever it was, or the request is taken back.                        *)
RequestSettles == lease.st = "requested" ~> lease.st # "requested"

(* Everybody the hub has promised an answer gets it or is dropped. *)
AwaitingDrains == \A c \in Clients : c \in awaiting ~> c \notin awaiting

(* A queued command keeps neither the device nor the queue for ever: once no *)
(* lease is in the way it is applied, or failed with the attempt to open.    *)
CommandsSettle == <>[](lease = Free) => <>[](rx = <<>> /\ pending = <<>>)

(* Nobody wants the tracker: it goes dark, and stays dark. *)
GoesDark == <>[]~active => <>[](usb # Hub)

(* Somebody wants it, and nothing else has it: the hub gets it and keeps it. *)
LightsUp ==
    <>[](active /\ lease = Free /\ reachable /\ usb \in {Hub, NoOne})
        => <>[](usb = Hub  /\ dev \notin {"connect", "close"})

(* The tracker's light follows what stand_by and device_session are told to  *)
(* want: both of the above.                                                   *)
FollowsDemand == GoesDark /\ LightsUp

(* The lease of a program that is gone is taken back for good, also when its *)
(* last messages are read after its connection was dropped.                  *)
DeadLeaseFreed ==
    \A c \in Clients : <>[](cli[c] \in {"gone", "dying"}) => <>[](lease.by # c)

(* A program that subscribed holds the tracker on for as long as it runs,    *)
(* unless its hello was drained before its connection was on the list.       *)
SubscriberLights ==
    \A c \in Players :
        <>[](cli[c] = "playing") => <>[](c \in claims) \/ <>(c \in early)

(* outputs.rs, "a client that connects lights the tracker", as it stands.    *)
ClientLights ==
    \A c \in Players : <>[](cli[c] = "playing") => <>[](c \in claims)

-----------------------------------------------------------------------------
(* One program that leases is like another. *)
LeaserSymmetry == Permutations(Leasers)
=============================================================================
