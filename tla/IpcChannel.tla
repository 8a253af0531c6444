------------------------------ MODULE IpcChannel ------------------------------
(***************************************************************************)
(* The tracking socket underneath the lease protocol: how a hub comes to    *)
(* own the socket path (tobii-ipc server.rs bind_at, path.rs), the framing  *)
(* of messages on the stream (codec.rs), the bounded queue and the two      *)
(* threads each connection has, and the client's end (client.rs).           *)
(* HubThreads models what the hub does with the messages.                   *)
(*                                                                          *)
(* A message on the stream is its header and then its payload, one unit     *)
(* each; a read takes any number of the units that have arrived.  A client  *)
(* of another build may send a frame the hub cannot decode.                 *)
(***************************************************************************)
EXTENDS Naturals, Sequences, FiniteSets, SequencesExt

CONSTANTS Hubs,         \* hub processes
          Diagnostic,   \* those run with --accuracy, beside any other hub
          StartsTogether, \* may two of them start at the same moment
          Clients,      \* client processes
          Stopped,      \* those of them that stop reading for good (SIGSTOP)
          Depth,        \* QUEUE_DEPTH, in messages
          Buffer,       \* what the kernel buffers per direction, in units
          MaxSent       \* how often the hub has something to say

VARIABLES path,         \* who the socket file belongs to: {}, {"corpse"} or {h}
          hub,          \* h -> where it stands
          conn,         \* c -> the hub it is connected to, {} or {h}
          queue,        \* c -> SyncSender<Vec<u8>>: messages queued for it
          writing,      \* c -> what write_all has still to put on the socket
          pipe,         \* c -> units the kernel holds for it
          buf,          \* c -> units its reader has read
          handed,       \* c -> messages its channel was handed
          dropped,      \* c -> Client::dropped
          alive,        \* c -> the connection as the server sees it: "no", "yes",
                        \*      "marked" dead by a thread, "reaped" from the list
          said          \* c -> messages the hub wanted it to have

ipcVars == <<path, hub, conn, queue, writing, pipe, buf, handed, dropped, alive, said>>
streamVars == <<queue, writing, pipe, buf, handed, dropped, alive, said>>

(***************************************************************************)
(* Framing.                                                                 *)
(***************************************************************************)
\* codec::encode, and the two halves of a frame
Encode(n) == <<[of |-> n, part |-> "header"], [of |-> n, part |-> "payload"]>>

\* codec::decode: a message, "incomplete" with nothing consumed, or an error
Decode(units) ==
    IF Len(units) < 2 THEN [is |-> "incomplete"]
    ELSE IF units[1].part # "header" \/ units[2] # [of |-> units[1].of, part |-> "payload"]
         THEN [is |-> "error"]
         ELSE [is |-> "message", of |-> units[1].of, used |-> 2]

\* a header that has arrived is read as a message before its payload has
MutDecoded(units) ==
    IF units = <<>> THEN [msgs |-> <<>>, rest |-> <<>>, broken |-> FALSE]
    ELSE [msgs |-> <<units[1].of>>, rest |-> Tail(units), broken |-> FALSE]

\* the inner loop of a reader thread: every whole message in the buffer
Decoded(units) ==
    LET n == Len(units) \div 2
        whole == \A i \in 1..n : Decode(SubSeq(units, 2 * i - 1, 2 * i)).is = "message"
    IN  [ msgs   |-> IF whole THEN [i \in 1..n |-> units[2 * i].of] ELSE <<>>,
          rest   |-> SubSeq(units, 2 * n + 1, Len(units)),
          broken |-> ~whole ]

(***************************************************************************)
(* Who owns the path.                                                       *)
(***************************************************************************)
Listening(h) == hub[h] \in {"serving", "quitting"}

\* every path already taken is taken for a leftover
MutStaleSocketAction(probed) == "unlink"

StaleSocketAction(probed) == IF probed THEN "already running" ELSE "unlink"

Starting(h) == hub[h] \in {"starting", "probing", "unlinking", "binding again"}

\* GApplication is single-instance: the next hub starts when the one before
\* has given its name up, which it does before its process has ended.  The
\* accuracy diagnostic is NON_UNIQUE and serves the socket like any hub.
HubStarts(h) ==
    /\ hub[h] = "off"
    /\ StartsTogether \/ \A g \in Hubs : ~Starting(g)
    /\ h \in Diagnostic \/ \A g \in Hubs \ Diagnostic : ~Starting(g) /\ hub[g] \notin {"serving", "deaf"}
    /\ hub' = [hub EXCEPT ![h] = "starting"]
    /\ UNCHANGED <<path, conn, streamVars>>

Bind(h) ==
    /\ hub[h] = "starting"
    /\ IF path = {} THEN path' = {h} /\ hub' = [hub EXCEPT ![h] = "serving"]
                    ELSE hub' = [hub EXCEPT ![h] = "probing"] /\ UNCHANGED path
    /\ UNCHANGED <<conn, streamVars>>

Probe(h) ==
    /\ hub[h] = "probing"
    /\ LET probed == \E g \in Hubs : path = {g} /\ Listening(g)
       IN  hub' = [hub EXCEPT ![h] = IF StaleSocketAction(probed) = "unlink" THEN "unlinking" ELSE "deaf"]
    /\ UNCHANGED <<path, conn, streamVars>>

Unlink(h) ==
    /\ hub[h] = "unlinking"
    /\ path' = {} /\ hub' = [hub EXCEPT ![h] = "binding again"]
    /\ UNCHANGED <<conn, streamVars>>

BindAgain(h) ==
    /\ hub[h] = "binding again"
    /\ IF path = {} THEN path' = {h} /\ hub' = [hub EXCEPT ![h] = "serving"]
                    ELSE hub' = [hub EXCEPT ![h] = "deaf"] /\ UNCHANGED path
    /\ UNCHANGED <<conn, streamVars>>

HubQuits(h) ==
    /\ hub[h] \in {"serving", "deaf"}
    /\ hub' = [hub EXCEPT ![h] = IF hub[h] = "serving" THEN "quitting" ELSE "off"]
    /\ UNCHANGED <<path, conn, streamVars>>

\* the process ends: its connections are closed by the kernel, and the socket
\* thread's Server is not dropped, so its socket file stays
HubEnds(h) ==
    /\ hub[h] = "quitting"
    /\ hub' = [hub EXCEPT ![h] = "gone"]
    /\ path' = IF path = {h} THEN {"corpse"} ELSE path
    /\ conn' = [c \in Clients |-> IF conn[c] = {h} THEN {} ELSE conn[c]]
    /\ alive' = [c \in Clients |-> IF conn[c] = {h} THEN "no" ELSE alive[c]]
    /\ queue' = [c \in Clients |-> IF conn[c] = {h} THEN <<>> ELSE queue[c]]
    /\ writing' = [c \in Clients |-> IF conn[c] = {h} THEN <<>> ELSE writing[c]]
    /\ UNCHANGED <<pipe, buf, handed, dropped, said>>

(***************************************************************************)
(* A connection.                                                            *)
(***************************************************************************)
\* Client::connect_at: the path must lead to somebody who listens.  One
\* connection per client process.
Connect(c) ==
    /\ conn[c] = {} /\ said[c] = <<>>
    /\ \E h \in Hubs : path = {h} /\ hub[h] = "serving" /\ conn' = [conn EXCEPT ![c] = {h}]
    /\ alive' = [alive EXCEPT ![c] = "yes"]
    /\ UNCHANGED <<path, hub, queue, writing, pipe, buf, handed, dropped, said>>

\* on the server's client list
Listed(c) == conn[c] # {} /\ alive[c] \in {"yes", "marked"}

HasRoom(c) == Len(queue[c]) < Depth

\* push: send, which waits for room
MutCanSay(c) == HasRoom(c)

\* push: try_send, which never waits
CanSay(c) == TRUE

\* Server::broadcast, and send_to when cs is one client: one critical section
\* of the client list
Say(cs) ==
    /\ cs # {}
    /\ \A c \in cs : Listed(c) /\ Len(said[c]) < MaxSent
    /\ \E h \in Hubs : hub[h] = "serving" /\ \A c \in cs : conn[c] = {h}
    /\ \A c \in cs : CanSay(c)
    /\ said' = [c \in Clients |-> IF c \in cs THEN Append(said[c], Len(said[c]) + 1) ELSE said[c]]
    /\ queue' = [c \in Clients |-> IF c \in cs /\ HasRoom(c) THEN Append(queue[c], Len(said[c]) + 1)
                                   ELSE queue[c]]
    /\ dropped' = [c \in Clients |-> IF c \in cs /\ ~HasRoom(c) THEN dropped[c] + 1 ELSE dropped[c]]
    /\ UNCHANGED <<path, hub, conn, writing, pipe, buf, handed, alive>>

\* spawn_writer: the next message, a unit at a time, as the kernel has room
Take(c) ==
    /\ conn[c] # {} /\ writing[c] = <<>> /\ queue[c] # <<>>
    /\ writing' = [writing EXCEPT ![c] = Encode(Head(queue[c]))]
    /\ queue' = [queue EXCEPT ![c] = Tail(@)]
    /\ UNCHANGED <<path, hub, conn, pipe, buf, handed, dropped, alive, said>>

Write(c) ==
    /\ conn[c] # {} /\ writing[c] # <<>> /\ Len(pipe[c]) < Buffer
    /\ pipe' = [pipe EXCEPT ![c] = Append(@, Head(writing[c]))]
    /\ writing' = [writing EXCEPT ![c] = Tail(@)]
    /\ UNCHANGED <<path, hub, conn, queue, buf, handed, dropped, alive, said>>

\* the client's reader thread: one read of what has arrived, and every whole
\* message in its buffer handed on
Reads(c) ==
    /\ c \notin Stopped /\ pipe[c] # <<>>
    /\ \E n \in 1..Len(pipe[c]) :
         LET d == Decoded(buf[c] \o SubSeq(pipe[c], 1, n))
         IN  /\ pipe' = [pipe EXCEPT ![c] = SubSeq(@, n + 1, Len(@))]
             /\ buf' = [buf EXCEPT ![c] = d.rest]
             /\ handed' = [handed EXCEPT ![c] = @ \o d.msgs]
    /\ UNCHANGED <<path, hub, conn, queue, writing, dropped, alive, said>>

\* spawn_reader: a frame that does not decode marks the connection dead ...
Garbles(c) ==
    /\ alive[c] = "yes"
    /\ alive' = [alive EXCEPT ![c] = "marked"]
    /\ UNCHANGED <<path, hub, conn, queue, writing, pipe, buf, handed, dropped, said>>

\* ... Server::poll takes it off the list, which ends its queue ...
Reap(c) ==
    /\ alive[c] = "marked"
    /\ alive' = [alive EXCEPT ![c] = "reaped"]
    /\ UNCHANGED <<path, hub, conn, queue, writing, pipe, buf, handed, dropped, said>>

\* ... and its writer shuts the socket down once the queue is written out
Shutdown(c) ==
    /\ alive[c] = "reaped" /\ queue[c] = <<>> /\ writing[c] = <<>>
    /\ alive' = [alive EXCEPT ![c] = "no"] /\ conn' = [conn EXCEPT ![c] = {}]
    /\ UNCHANGED <<path, hub, queue, writing, pipe, buf, handed, dropped, said>>

\* drop(Client) shuts the socket down; the server's threads see it end
Leaves(c) ==
    /\ conn[c] # {} /\ conn' = [conn EXCEPT ![c] = {}]
    /\ alive' = [alive EXCEPT ![c] = "no"]
    /\ queue' = [queue EXCEPT ![c] = <<>>] /\ writing' = [writing EXCEPT ![c] = <<>>]
    /\ UNCHANGED <<path, hub, pipe, buf, handed, dropped, said>>

(***************************************************************************)
(* The specification.                                                       *)
(***************************************************************************)
IpcInit ==
    /\ path \in {{}, {"corpse"}}
    /\ hub = [h \in Hubs |-> "off"]
    /\ conn = [c \in Clients |-> {}] /\ alive = [c \in Clients |-> "no"]
    /\ queue = [c \in Clients |-> <<>>] /\ writing = queue /\ pipe = queue /\ buf = queue
    /\ handed = queue /\ said = queue /\ dropped = [c \in Clients |-> 0]

IpcNext ==
    \/ \E h \in Hubs : HubStarts(h) \/ Bind(h) \/ Probe(h) \/ Unlink(h) \/ BindAgain(h) \/ HubQuits(h) \/ HubEnds(h)
    \/ \E c \in Clients : Connect(c) \/ Take(c) \/ Write(c) \/ Reads(c) \/ Leaves(c)
                           \/ Garbles(c) \/ Reap(c) \/ Shutdown(c)
    \/ \E cs \in SUBSET Clients : Say(cs)

\* Threads run; nothing is asked of a client that has stopped, and a hub says
\* something to everybody who is connected often enough.
SaysAll == Say({c \in Clients : Listed(c) /\ Len(said[c]) < MaxSent})
IpcFair ==
    /\ \A c \in Clients : WF_ipcVars(Take(c)) /\ WF_ipcVars(Write(c)) /\ WF_ipcVars(Reads(c))
    /\ WF_ipcVars(SaysAll)

IpcSpec == IpcInit /\ [][IpcNext]_ipcVars /\ IpcFair

(***************************************************************************)
(* Properties.                                                              *)
(***************************************************************************)
\* A hub that serves is the one the path leads to: its socket file is never
\* taken for the leftover of a hub that died.
LiveKept == \A h \in Hubs : hub[h] = "serving" => path = {h}

\* What a client was handed are whole messages in the order they were said,
\* none twice; and while the connection lasts every message that is missing is
\* either still on its way or counted as dropped.
WholeInOrder ==
    \A c \in Clients :
        /\ \A i, j \in DOMAIN handed[c] : i < j => handed[c][i] < handed[c][j]
        /\ \A i \in DOMAIN handed[c] : handed[c][i] \in ToSet(said[c])
        /\ conn[c] # {} =>
             Len(said[c]) = Len(handed[c]) + Len(queue[c]) + dropped[c]
                            + ((Len(writing[c]) + Len(pipe[c]) + Len(buf[c])) \div 2)

\* A client that has stopped reading harms nobody else: while a client stays
\* on the list of a serving hub, it is told all there is to say, whoever else
\* has stopped.
Served(c) == Listed(c) /\ \E h \in Hubs : conn[c] = {h} /\ hub[h] = "serving"

ToldAll(c) == Len(said[c]) = MaxSent \/ ~Served(c)
Unblocked == \A c \in Clients \ Stopped : Served(c) ~> ToldAll(c)

\* Why: at most one hub is starting at a time; it unlinks the path only while
\* no hub serves, because it has probed the path of any that did.
OneStarts == \A g, h \in Hubs : Starting(g) /\ Starting(h) => g = h
UnlinksNobody == \A h \in Hubs : hub[h] = "unlinking" => \A g \in Hubs : hub[g] # "serving"
PathInv == DOMAIN hub = Hubs /\ OneStarts /\ UnlinksNobody /\ LiveKept

\* Why: what is on its way to a client are whole frames, but for the last one
\* of a connection that was cut, ...
OnWay(c) == (buf[c] \o pipe[c]) \o writing[c]
Unit(n) == [of : 1..n, part : {"header", "payload"}]
Framed(u) ==
    \A i \in DOMAIN u :
        /\ u[i].part = IF i % 2 = 1 THEN "header" ELSE "payload"
        /\ i % 2 = 0 => u[i].of = u[i - 1].of
Rising(u) == \A i, j \in DOMAIN u : i < j => u[i].of < u[j].of \/ (j = i + 1 /\ j % 2 = 0)
Ordered(s) == \A i, j \in DOMAIN s : i < j => s[i] < s[j]

\* ... and what it was handed, what is on its way and what is queued for it are
\* one line of numbers that rises.
Line(g, u, q, n) ==
    /\ g \in Seq(1..n) /\ u \in Seq(Unit(n)) /\ q \in Seq(1..n)
    /\ Ordered(g) /\ Framed(u) /\ Rising(u) /\ Ordered(q)
    /\ \A i \in DOMAIN g, j \in DOMAIN u : g[i] < u[j].of
    /\ \A i \in DOMAIN g, j \in DOMAIN q : g[i] < q[j]
    /\ \A i \in DOMAIN u, j \in DOMAIN q : u[i].of < q[j]

ChannelOK(c) ==
    /\ said[c] \in Seq(Nat) /\ \A i \in DOMAIN said[c] : said[c][i] = i
    /\ dropped[c] \in 0..Len(said[c])
    /\ \A s \in {buf[c], pipe[c], writing[c]} : s \in Seq(Unit(Len(said[c])))
    /\ Line(handed[c], OnWay(c), queue[c], Len(said[c]))
    /\ conn[c] # {} =>
         /\ Len(OnWay(c)) % 2 = 0
         /\ Len(said[c]) = Len(handed[c]) + Len(queue[c]) + dropped[c] + (Len(OnWay(c)) \div 2)
ChannelsInv ==
    /\ DOMAIN conn = Clients /\ DOMAIN queue = Clients /\ DOMAIN writing = Clients
    /\ DOMAIN pipe = Clients /\ DOMAIN buf = Clients /\ DOMAIN handed = Clients
    /\ DOMAIN dropped = Clients /\ DOMAIN said = Clients
    /\ \A c \in Clients : ChannelOK(c)
================================================================================
