----------------------------- MODULE HubThreads -----------------------------
(***************************************************************************)
(* The hub's two threads that share the device lease, what they share with *)
(* the tracking socket and the programs that borrow the tracker, and the   *)
(* pure decisions of the lease (crates/tobii-gtk/src/device.rs).           *)
(*                                                                         *)
(* The ET5 can be opened by one process at a time: `usb` is that process.  *)
(* `claims` is the set of consumers holding a DemandGuard; the map of      *)
(* counts that implements it is module Demand.  DeviceState, which the     *)
(* device thread publishes and nothing here decides on, is left out, and   *)
(* with it the status broadcast that only reads it.                        *)
(*                                                                         *)
(* The device thread: device.rs `spawn`, `stand_by` and `device_session`.  *)
(* One action per stretch of code between two points at which another      *)
(* thread can be seen: every lock of the lease, of the demand, of the      *)
(* state, and every call that changes who has the device.                  *)
(*                                                                         *)
(* The tracking socket: the accept and reader threads of tobii-ipc's       *)
(* Server, and the socket thread, whose pass is outputs.rs `Serving::tick`.*)
(***************************************************************************)
EXTENDS Naturals, Sequences

CONSTANTS
    Leasers,     \* connections of `tobii headpose`: they ask for the device
    Askers,      \* the leasers that may ask a second time
    Players,     \* connections of `tobii game`: they subscribe to poses
    Watchers,    \* consumers inside the hub that may be interrupted
    Flows,       \* consumers whose reason is EXCLUSIVE
    MaxCommands, \* how many DeviceCommands the hub's window sends
    MaxUnplugs,  \* how many times the tracker stops answering
    Hub,         \* the hub process, as the owner of the USB interface
    NoOne

Clients == Leasers \cup Players

ASSUME HubAssumption ==
    /\ Askers \subseteq Leasers
    /\ Leasers \cap Players = {} /\ Hub \notin Clients /\ NoOne \notin Clients
    /\ Hub # NoOne /\ Clients \cap (Watchers \cup Flows) = {}
    /\ Watchers \cap Flows = {}
    /\ MaxCommands \in Nat /\ MaxUnplugs \in Nat

VARIABLES
    \* shared under mutexes, or by the outside world
    lease,     \* Arc<Mutex<Lease>>
    claims,    \* Demand: the owners of a live guard
    rx,        \* the DeviceCommand channel into the device thread
    sent,      \* how many commands were ever sent
    usb,       \* who has the libusb interface
    reachable, \* the tracker is plugged in and streaming
    unplugs,   \* how often it stopped
    \* the device thread
    dev,       \* where the thread is
    pending,   \* commands taken off the channel, not yet applied
    wants,     \* demand.active() as stand_by sampled it
    idle,      \* idle_since: "none", "running" or "over" (LINGER elapsed)
    done,      \* how many commands were applied or failed
    \* the socket thread (Serving)
    sock,      \* where the thread is
    batch,     \* messages of this pass not handled yet
    live,      \* the client list as this pass saw it
    awaiting,  \* clients told nothing yet, to be answered when Held
    \* the tracking socket (tobii-ipc)
    srv,       \* per connection: "none", "backlog", "spawned" or "listed"
    wire,      \* bytes in the socket, towards the hub
    open,      \* the client has not closed its end
    alive,     \* Client.alive
    list,      \* Server.clients
    inbox,     \* the mpsc channel of Incoming
    early,     \* history: a message was drained before its sender was listed
    \* the programs
    cli,       \* per connection: where the program is
    replies    \* lease replies towards the program

devVars  == <<dev, pending, wants, idle, done>>
sockVars == <<sock, batch, live, awaiting>>
netVars  == <<srv, wire, open, alive, list, inbox, early>>
cliVars  == <<cli, replies>>
world    == <<reachable, unplugs>>
vars     == <<lease, claims, rx, sent, usb, world,
              devVars, sockVars, netVars, cliVars>>

-----------------------------------------------------------------------------
(* enum Lease *)
Free         == [st |-> "free", by |-> NoOne]
Requested(c) == [st |-> "requested", by |-> c]
Held(c)      == [st |-> "held", by |-> c]
Leases == {Free} \cup {Requested(c) : c \in Clients} \cup {Held(c) : c \in Clients}

(* Lease::hub_must_not_open *)
hub_must_not_open == lease # Free

(* Demand::active and wants_exclusive, on the set of owners. *)
active == claims # {}
wants_exclusive == claims \cap Flows # {}

(* Faults the properties must notice; the specification uses none of them:   *)
(* a lease nobody asked for is announced; the lease no longer overrides the  *)
(* demand.                                                                   *)
MutAnnounceAlways(l) == Held(l.by)
MutDemandWins(demand_active, pending_empty, lease_blocks) ==
    ~demand_active /\ (pending_empty \/ lease_blocks)

(* lease_decision *)
lease_decision(l, from, action) ==
    IF action = "acquire"
    THEN IF l.by \in {NoOne, from} THEN "grant" ELSE "refuse"
    ELSE IF l.by = from THEN "released" ELSE "notheld"

(* announce_release, on the lease its caller locks *)
announce_release(l) == IF l.st = "requested" THEN Held(l.by) ELSE l

(* must_wait *)
must_wait(demand_active, pending_empty, lease_blocks) ==
    (~demand_active /\ pending_empty) \/ lease_blocks

-----------------------------------------------------------------------------

(* The thread is inside device_session and has not dropped its connection. *)
Session == {"open", "connect", "apply", "linger", "lease", "tick", "close"}
Standby == {"drain", "announce", "sample", "decide", "released"}

others == <<sent, world, sockVars, netVars, cliVars>>

-----------------------------------------------------------------------------
(* Faults: an idle hub does not answer a lease; the linger clock restarts on *)
(* every pass; only exclusive reasons open the device; the queue is applied  *)
(* from its end, or carried over a failed attempt.                           *)
MutIdleSilent ==
    /\ dev = "announce" /\ dev' = "sample"
    /\ UNCHANGED <<lease, claims, rx, usb, pending, wants, idle, done, others>>
MutLingerRestarts ==
    /\ dev = "linger" /\ dev' = "lease"
    /\ idle' = IF active THEN "none" ELSE "running"
    /\ UNCHANGED <<lease, claims, rx, usb, pending, wants, done, others>>
MutSampleExclusive ==
    /\ dev = "sample" /\ wants' = wants_exclusive /\ dev' = "decide"
    /\ UNCHANGED <<lease, claims, rx, usb, pending, idle, done, others>>
MutApplyPops ==
    /\ dev = "apply"
    /\ IF pending = <<>>
       THEN dev' = "linger" /\ UNCHANGED <<pending, done>>
       ELSE /\ pending' = SubSeq(pending, 1, Len(pending) - 1)
            /\ done' = done + 1 /\ dev' = dev
    /\ UNCHANGED <<lease, claims, rx, usb, wants, idle, others>>
MutFailCarries ==
    /\ \/ dev = "open" /\ (~reachable \/ usb # NoOne)
       \/ dev = "connect" /\ ~reachable
    /\ usb' = IF dev = "connect" THEN NoOne ELSE usb
    /\ dev' = "released"
    /\ UNCHANGED <<lease, claims, rx, pending, done, wants, idle, others>>
(* The release is announced while the connection is still open. *)
MutAnnounceOnCheck ==
    /\ dev = "lease"
    /\ dev' = IF hub_must_not_open THEN "close" ELSE "tick"
    /\ lease' = announce_release(lease)
    /\ UNCHANGED <<claims, rx, usb, pending, wants, idle, done, others>>

(* stand_by, run before every session and on every idle tick: the queue is  *)
(* drained first, ...                                                       *)
Drain ==
    /\ dev = "drain"
    /\ pending' = pending \o rx /\ rx' = <<>>
    /\ dev' = "announce"
    /\ UNCHANGED <<lease, claims, usb, wants, idle, done, others>>

(* ... then a lease asked of a hub that holds nothing is honoured, ...      *)
Announce ==
    /\ dev = "announce"
    /\ lease' = announce_release(lease)
    /\ dev' = "sample"
    /\ UNCHANGED <<claims, rx, usb, pending, wants, idle, done, others>>

(* ... then must_wait's arguments are evaluated in turn: the demand, ...    *)
SampleDemand ==
    /\ dev = "sample"
    /\ wants' = active
    /\ dev' = "decide"
    /\ UNCHANGED <<lease, claims, rx, usb, pending, idle, done, others>>

(* ... and the lease, under its own lock.  The idle wait goes round again.  *)
Decide ==
    /\ dev = "decide"
    /\ dev' = IF must_wait(wants, pending = <<>>, hub_must_not_open)
              THEN "drain" ELSE "open"
    /\ wants' = FALSE
    /\ UNCHANGED <<lease, claims, rx, usb, pending, idle, done, others>>

-----------------------------------------------------------------------------
(* device_session: UsbTransport::open claims the interface, ... *)
OpenOk ==
    /\ dev = "open" /\ reachable /\ usb = NoOne
    /\ usb' = Hub
    /\ dev' = "connect"
    /\ UNCHANGED <<lease, claims, rx, pending, wants, idle, done, others>>

(* ... Connection::connect shakes hands, the saved settings are re-applied. *)
ConnectOk ==
    /\ dev = "connect" /\ reachable
    /\ dev' = "apply"
    /\ UNCHANGED <<lease, claims, rx, usb, pending, wants, idle, done, others>>

(* Either failing ends the session: the queue is failed rather than carried, *)
(* so a command that can never be applied does not keep the thread trying.   *)
SessionFails ==
    /\ \/ dev = "open" /\ (~reachable \/ usb # NoOne)
       \/ dev = "connect" /\ ~reachable
    /\ usb' = IF dev = "connect" THEN NoOne ELSE usb
    /\ done' = done + Len(pending) /\ pending' = <<>>
    /\ dev' = "released"
    /\ UNCHANGED <<lease, claims, rx, wants, idle, others>>

(* Commands queued while the tracker was off, one conversation each. *)
ApplyPending ==
    /\ dev = "apply"
    /\ IF pending = <<>>
       THEN dev' = "linger" /\ UNCHANGED <<pending, done>>
       ELSE pending' = Tail(pending) /\ done' = done + 1 /\ dev' = dev
    /\ UNCHANGED <<lease, claims, rx, usb, wants, idle, others>>

(* The session loop.  The demand: a quiet one is given LINGER to come back. *)
Linger ==
    /\ dev = "linger"
    /\ dev' = IF ~active /\ idle = "over" THEN "close" ELSE "lease"
    /\ idle' = IF active THEN "none" ELSE IF idle = "none" THEN "running" ELSE idle
    /\ UNCHANGED <<lease, claims, rx, usb, pending, wants, done, others>>

(* since.elapsed() >= LINGER *)
LingerElapses ==
    /\ idle = "running"
    /\ idle' = "over"
    /\ UNCHANGED <<lease, claims, rx, usb, dev, pending, wants, done, others>>

(* The lease: asked for, so let go. *)
CheckLease ==
    /\ dev = "lease"
    /\ dev' = IF hub_must_not_open THEN "close" ELSE "tick"
    /\ UNCHANGED <<lease, claims, rx, usb, pending, wants, idle, done, others>>

(* device_tick drains the channel, applying what it finds, and reads frames. *)
(* A tracker that streams keeps the session; one that went silent may keep   *)
(* it until the two-second watchdog gives up.                                *)
Tick ==
    /\ dev = "tick"
    /\ done' = done + Len(rx) /\ rx' = <<>>
    /\ dev' \in IF reachable THEN {"linger"} ELSE {"linger", "close"}
    /\ UNCHANGED <<lease, claims, usb, pending, wants, idle, others>>

(* Leaving the arm drops `conn`, and with it the interface ... *)
CloseConn ==
    /\ dev = "close"
    /\ usb' = NoOne /\ idle' = "none"
    /\ dev' = "released"
    /\ UNCHANGED <<lease, claims, rx, pending, wants, done, others>>

(* ... and only then does the drop guard announce it. *)
AnnounceRelease ==
    /\ dev = "released"
    /\ lease' = announce_release(lease)
    /\ dev' = "drain"
    /\ UNCHANGED <<claims, rx, usb, pending, wants, idle, done, others>>

DevStep ==
    \/ Drain \/ Announce \/ SampleDemand \/ Decide
    \/ OpenOk \/ ConnectOk \/ SessionFails \/ ApplyPending
    \/ Linger \/ CheckLease \/ Tick \/ CloseConn \/ AnnounceRelease

-----------------------------------------------------------------------------
(* The tracking socket. *)
offSock == <<rx, sent, usb, world, devVars>>
offNet  == <<lease, claims, offSock, sockVars, cliVars>>

-----------------------------------------------------------------------------
(* The accept thread: one connection at a time, whose reader thread is      *)
(* running ...                                                              *)
Accept(c) ==
    /\ srv[c] = "backlog"
    /\ \A d \in Clients : srv[d] # "spawned"
    /\ srv' = [srv EXCEPT ![c] = "spawned"]
    /\ alive' = [alive EXCEPT ![c] = TRUE]
    /\ UNCHANGED <<wire, open, list, inbox, early, offNet>>

(* ... before the connection is pushed onto the client list.                *)
Register(c) ==
    /\ srv[c] = "spawned"
    /\ srv' = [srv EXCEPT ![c] = "listed"]
    /\ list' = list \cup {c}
    /\ UNCHANGED <<wire, open, alive, inbox, early, offNet>>

(* spawn_reader: one decoded message goes into the channel. *)
ReadMsg(c) ==
    /\ srv[c] \in {"spawned", "listed"} /\ wire[c] # <<>>
    /\ inbox' = Append(inbox, [from |-> c, msg |-> Head(wire[c])])
    /\ wire' = [wire EXCEPT ![c] = Tail(@)]
    /\ UNCHANGED <<srv, open, alive, list, early, offNet>>

(* End of file in the reader, or a failed write: the connection is marked.   *)
(* The writer can notice first, with messages of the client still unread.    *)
MarkDead(c) ==
    /\ srv[c] \in {"spawned", "listed"} /\ alive[c] /\ ~open[c]
    /\ alive' = [alive EXCEPT ![c] = FALSE]
    /\ UNCHANGED <<srv, wire, open, list, inbox, early, offNet>>

-----------------------------------------------------------------------------
(* Server::poll drains the channel and drops the connections marked dead. *)
Poll ==
    /\ sock = "poll"
    /\ batch' = inbox /\ inbox' = <<>>
    /\ list' = {c \in list : alive[c]}
    /\ early' = early \cup {c \in Clients \ list : \E i \in DOMAIN inbox : inbox[i].from = c}
    /\ sock' = "handle"
    /\ UNCHANGED <<live, awaiting, srv, wire, open, alive,
                   lease, claims, offSock, cliVars>>

(* Server::send_to: nothing is sent to a client that is not on the list. *)
send_to(c, answer) ==
    replies' = IF c \in list THEN [replies EXCEPT ![c] = Append(@, answer)] ELSE replies

(* Faults: a grant answered on the spot; holds of the clients that ARE live  *)
(* reaped; a dead holder kept; stale entries of `awaiting` kept.             *)
MutAnswerAtOnce ==
    /\ sock = "handle" /\ batch # <<>>
    /\ LET c == Head(batch).from
           decision == lease_decision(lease, c, Head(batch).msg)
       IN /\ Head(batch).msg \in {"acquire", "release"}
          /\ lease' = CASE decision = "grant" -> Requested(c)
                       [] decision = "released" -> Free
                       [] OTHER -> lease
          /\ send_to(c, IF decision \in {"grant", "released"} THEN "yes" ELSE "no")
    /\ batch' = Tail(batch)
    /\ UNCHANGED <<claims, sock, live, awaiting, cli, offSock, netVars>>
MutReapLive ==
    /\ sock = "handle" /\ batch = <<>>
    /\ live' = list /\ claims' = claims \ list /\ sock' = "takeback"
    /\ UNCHANGED <<lease, batch, awaiting, offSock, netVars, cliVars>>
MutKeepDeadLease ==
    /\ sock = "takeback" /\ sock' = "await"
    /\ UNCHANGED <<lease, claims, batch, live, awaiting, offSock, netVars, cliVars>>
MutKeepAwaiting ==
    /\ sock = "await" /\ sock' = "answer"
    /\ UNCHANGED <<lease, claims, batch, live, awaiting, offSock, netVars, cliVars>>

(* Holds::hello.  (A leaser subscribes to nothing: its hello changes nothing *)
(* here and is left out.)                                                    *)
HandleHello ==
    /\ sock = "handle" /\ batch # <<>>
    /\ Head(batch).msg = "hello"
    /\ claims' = claims \cup {Head(batch).from}
    /\ batch' = Tail(batch)
    /\ UNCHANGED <<lease, sock, live, awaiting, offSock, netVars, cliVars>>

(* handle_lease, a single critical section of the lease.  A grant is NOT     *)
(* answered here.                                                            *)
HandleLease ==
    /\ sock = "handle" /\ batch # <<>>
    /\ LET c == Head(batch).from
           decision == lease_decision(lease, c, Head(batch).msg)
       IN /\ Head(batch).msg \in {"acquire", "release"}
          /\ \/ /\ decision = "grant" /\ ~wants_exclusive
                /\ lease' = Requested(c)
                /\ awaiting' = awaiting \cup {c}
                /\ UNCHANGED replies
             \/ /\ (decision = "grant" /\ wants_exclusive) \/ decision = "refuse"
                /\ send_to(c, "no")
                /\ UNCHANGED <<lease, awaiting>>
             \/ /\ decision = "released"
                /\ lease' = Free
                /\ send_to(c, "yes")
                /\ UNCHANGED awaiting
             \/ /\ decision = "notheld"
                /\ UNCHANGED <<lease, awaiting, replies>>
    /\ batch' = Tail(batch)
    /\ UNCHANGED <<claims, sock, live, cli, offSock, netVars>>

(* The client list is read once per pass, and the holds reconciled with it.  *)
ReapHolds ==
    /\ sock = "handle" /\ batch = <<>>
    /\ live' = list
    /\ claims' = claims \ (Clients \ list)
    /\ sock' = "takeback"
    /\ UNCHANGED <<lease, batch, awaiting, offSock, netVars, cliVars>>

(* A lease whose holder is gone is taken back. *)
TakeBack ==
    /\ sock = "takeback"
    /\ lease' = IF lease # Free /\ lease.by \notin live THEN Free ELSE lease
    /\ sock' = "await"
    /\ UNCHANGED <<claims, batch, live, awaiting, offSock, netVars, cliVars>>

(* Whoever is waiting for a lease that is no longer theirs stops waiting. *)
RetainAwaiting ==
    /\ sock = "await"
    /\ awaiting' = {c \in awaiting : c \in live /\ lease.by = c}
    /\ sock' = "answer"
    /\ UNCHANGED <<lease, claims, batch, live, offSock, netVars, cliVars>>

(* The device thread has let go: answer the client it let go for. *)
Answer ==
    /\ sock = "answer"
    /\ IF lease.st = "held" /\ lease.by \in awaiting
       THEN send_to(lease.by, "yes") /\ awaiting' = awaiting \ {lease.by}
       ELSE UNCHANGED <<replies, awaiting>>
    /\ sock' = "poll" /\ live' = {}
    /\ UNCHANGED <<lease, claims, batch, cli, offSock, netVars>>

SockStep ==
    \/ Poll \/ HandleHello \/ HandleLease \/ ReapHolds
    \/ TakeBack \/ RetainAwaiting \/ Answer
=============================================================================
