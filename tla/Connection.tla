----------------------------- MODULE Connection -----------------------------
(***************************************************************************)
(* The conversation with the tracker (tobii-usb's connection.rs and        *)
(* transport.rs over tobii-protocol's parser.rs and handshake.rs): a       *)
(* handshake whose answers are not matched, then requests whose answers    *)
(* are matched by op and sequence number, read out of one stream of        *)
(* transfers that also carries gaze.  An answer may come after its request *)
(* has given up, or never.                                                 *)
(*                                                                         *)
(* A transfer is a chunk as `recv` hands it over: the rest of a frame that *)
(* the one before began, whole frames, and the beginning of another.       *)
(***************************************************************************)
EXTENDS Integers, Sequences, SequencesExt

CONSTANTS
    Wrap,       \* sequence numbers are counted modulo this (2^32)
    Ops,          \* what is requested after the handshake
    LargeOps,     \* those whose frame takes several transfers out
    MaxRequests,  \* how many requests are made, the handshake's too
    MaxGaze,      \* how many gaze notifications the tracker sends
    SoakCap       \* how many transfers `pending` may hold

Steps == {"hello", "query", "open", "auth", "subscribe"}

ASSUME ConnectionAssumption ==
    /\ Wrap \in Nat /\ Wrap > 2
    /\ LargeOps \subseteq Ops /\ "subscribe" \in Ops /\ Ops \cap Steps = {"subscribe"}
    /\ MaxRequests \in Nat /\ MaxGaze \in Nat /\ SoakCap \in Nat
    \* of requests of one kind, fewer than there are sequence numbers
    /\ MaxRequests <= Wrap + 2

(* A frame of the tracker's: an answer, with what it answers (`id`, which is *)
(* not on the wire), or a gaze sample.                                       *)
Answer(r) == [magic |-> "rsp", op |-> r.op, seq |-> r.seq, id |-> r.id]
Gaze(n) == [magic |-> "notify", op |-> "gaze", seq |-> 0, id |-> n]
NoFrame == [magic |-> "none", op |-> "none", seq |-> 0, id |-> 0]
NoRequest == [op |-> "none", seq |-> 0, id |-> 0]

VARIABLES
    \* the tracker (external), and the two directions of the wire
    realm,      \* [type, open, authorised, streaming]
    inbox,      \* the requests that have reached it
    partial,    \* it holds the beginning of a frame that was abandoned
    bus,        \* transfers on their way to the host
    sent,       \* gaze samples sent
    \* UsbTransport and Parser
    pending,    \* transfers read during a large send
    acc,        \* the frame in progress
    desync,     \* a chunk did not continue the frame in progress
    \* Handshake and Connection
    hs,         \* the step that awaits its answer; "new", "done", "failed"
    resp,       \* Handshake::resp
    realm_type, \* Handshake::realm_type
    seq,        \* the next sequence number
    at,         \* "poll", "drain", "ready", "sending", "waiting", "closed"
    req,        \* the request under way, or the last one
    got,        \* its answer
    ids,        \* requests made, the handshake's too
    gaze_queue, \* samples routed and not asked for yet
    delivered,  \* the samples next_gaze has returned
    \* whether the program reads by next_gaze or by read_notifications
    by_queue

device == <<realm, inbox, partial, bus, sent>>
wire   == <<pending, acc, desync>>
shake  == <<hs, resp, realm_type>>
client == <<at, req, got, ids>>
gaze   == <<gaze_queue, delivered, by_queue>>
connVars   == <<device, wire, shake, seq, client, gaze>>

ConnInit ==
    /\ \E type \in {0, 1} :
         realm = [type |-> type, open |-> FALSE, authorised |-> FALSE, streaming |-> FALSE]
    /\ inbox = <<>> /\ partial = FALSE /\ bus = <<>> /\ sent = 0
    /\ pending = <<>> /\ acc = NoFrame /\ desync = FALSE
    /\ hs = "new" /\ resp = NoFrame /\ realm_type = 0 /\ seq = 1
    /\ at = "poll" /\ req = NoRequest /\ got = NoFrame /\ ids = 0
    /\ gaze_queue = <<>> /\ delivered = <<>> /\ by_queue \in BOOLEAN

-----------------------------------------------------------------------------
(* The tracker.  It sends a frame in a transfer of its own, behind another   *)
(* in the last one, or in two.                                               *)
Transfer(tail, frames, head) == [tail |-> tail, frames |-> frames, head |-> head]

Emit(f) ==
    \/ bus' = Append(bus, Transfer(NoFrame, <<f>>, NoFrame))
    \/ /\ bus # <<>>
       /\ bus' = [bus EXCEPT ![Len(bus)].frames = Append(@, f)]
    \/ bus' = bus \o <<Transfer(NoFrame, <<>>, f), Transfer(f, <<>>, NoFrame)>>
    \/ /\ bus # <<>>
       /\ bus' = Append([bus EXCEPT ![Len(bus)].head = f], Transfer(f, <<>>, NoFrame))

(* It carries out a request and answers it; an open realm lets a             *)
(* subscription through if it needs no authorisation or has had it.          *)
Serve ==
    /\ inbox # <<>>
    /\ LET r == Head(inbox)
           allowed == realm.open /\ (realm.type = 0 \/ realm.authorised)
       IN /\ realm' = [realm EXCEPT
                         !.open = @ \/ r.op = "open",
                         !.authorised = @ \/ (r.op = "auth" /\ realm.open),
                         !.streaming = @ \/ (r.op = "subscribe" /\ allowed)]
          /\ Emit(Answer(r))
    /\ inbox' = Tail(inbox)
    /\ UNCHANGED <<partial, sent, wire, shake, seq, client, gaze>>

(* It does not know the op, or does not answer. *)
Ignore ==
    /\ inbox # <<>> /\ ~(Head(inbox).op = "subscribe" /\ ~realm.streaming)
    /\ inbox' = Tail(inbox)
    /\ UNCHANGED <<realm, partial, bus, sent, wire, shake, seq, client, gaze>>

SendGaze ==
    /\ realm.streaming /\ sent < MaxGaze
    /\ sent' = sent + 1 /\ Emit(Gaze(sent'))
    /\ UNCHANGED <<realm, inbox, partial, wire, shake, seq, client, gaze>>

-----------------------------------------------------------------------------
(* Faults: what trails the answer in its chunk is dropped; an answer is      *)
(* matched by its op alone; what was read during a send waits for what was   *)
(* read since; a sequence number does not wrap.                              *)
MutRest(frames, i) == SubSeq(frames, 1, i - 1)
MutMatches(f) == f.magic = "rsp" /\ f.op = req.op
MutSoaked == pending # <<>> /\ bus = <<>>
MutAfter(s) == s + 1

(* next_seq: u32::wrapping_add, and zero is stepped over. *)
After(s) == IF (s + 1) % Wrap = 0 THEN 1 ELSE (s + 1) % Wrap

(* UsbTransport::recv: what was soaked up first, one transfer per call. *)
Soaked == pending # <<>>
Incoming == pending \o bus
Chunk == IF Soaked THEN Head(pending) ELSE Head(bus)
TakeOne ==
    IF Soaked THEN pending' = Tail(pending) /\ UNCHANGED bus
              ELSE bus' = Tail(bus) /\ UNCHANGED pending

(* Parser::feed: the frames of a chunk that continues the one in progress;   *)
(* anything else is a framing error and loses them all.                      *)
Continues == Chunk.tail = acc
ChunkFrames(t) == (IF t.tail = NoFrame THEN <<>> ELSE <<t.tail>>) \o t.frames
Frames == IF Continues THEN ChunkFrames(Chunk) ELSE <<>>
Feed ==
    /\ Incoming # <<>> /\ TakeOne
    /\ acc' = IF Continues THEN Chunk.head ELSE NoFrame
    /\ desync' = (desync \/ ~Continues)

(* Connection::route, of every frame of a sequence. *)
IsGaze(f) == f.magic = "notify"
IsAnswer(f) == f.magic = "rsp"
Samples(frames) ==
    FlattenSeq([i \in DOMAIN frames |-> IF IsGaze(frames[i]) THEN <<frames[i].id>> ELSE <<>>])
Queue(frames) == gaze_queue' = gaze_queue \o Samples(frames)

(* A request on its way out; a tracker that holds part of another frame may  *)
(* take it for the rest of that one.                                         *)
Arrive(r) ==
    \/ inbox' = Append(inbox, r)
    \/ partial /\ UNCHANGED inbox

-----------------------------------------------------------------------------
(* Handshake::poll: the first request, or the next once an answer, any       *)
(* answer, has come; an open realm that needs no authorisation goes on to    *)
(* subscribe, which is not awaited.  A `query` answer that is not one reads  *)
(* as type 0; an `open` answer may be short, or carry no challenge.          *)
NextStep ==
    CASE hs = "new"   -> "hello"
      [] hs = "hello" -> "query"
      [] hs = "query" -> "open"
      [] hs = "open"  -> IF realm_type = 0 THEN "subscribe" ELSE "auth"
      [] hs = "auth"  -> "subscribe"
Answered == hs = "new" \/ resp # NoFrame
Authorising == hs = "open" /\ realm_type # 0

PollSend ==
    LET r == [op |-> NextStep, seq |-> seq, id |-> ids + 1] IN
    /\ at = "poll" /\ hs \notin {"done", "failed"} /\ Answered
    /\ Authorising => resp.op = "open"
    /\ realm_type' = IF hs = "query" THEN (IF resp.op = "query" THEN realm.type ELSE 0) ELSE realm_type
    /\ hs' = IF NextStep = "subscribe" THEN "done" ELSE NextStep
    /\ resp' = IF NextStep = "subscribe" THEN resp ELSE NoFrame
    /\ req' = r /\ ids' = ids + 1 /\ seq' = After(seq)
    /\ inbox' = Append(inbox, r) /\ at' = "drain"
    /\ UNCHANGED <<realm, partial, bus, sent, wire, got, gaze>>

PollFails ==
    /\ at = "poll" /\ resp # NoFrame /\ Authorising
    /\ hs' = "failed" /\ at' = "closed"
    /\ UNCHANGED <<device, wire, resp, realm_type, seq, req, got, ids, gaze>>

PollRecv ==
    /\ at = "poll" /\ hs \notin {"done", "failed"} /\ ~Answered
    /\ at' = "drain"
    /\ UNCHANGED <<device, wire, shake, seq, req, got, ids, gaze>>

(* Connection::drain during the handshake: the last answer is kept. *)
HsDrain ==
    /\ at = "drain" /\ Feed /\ Queue(Frames)
    /\ \/ resp' = resp /\ \A i \in DOMAIN Frames : ~IsAnswer(Frames[i])
       \/ \E i \in DOMAIN Frames :
            /\ IsAnswer(Frames[i]) /\ \A j \in DOMAIN Frames : IsAnswer(Frames[j]) => j <= i
            /\ resp' = Frames[i]
    /\ at' = "poll"
    /\ UNCHANGED <<realm, inbox, partial, sent, hs, realm_type, seq, req, got, ids, delivered, by_queue>>
HsQuiet ==
    /\ at = "drain" /\ at' = "poll"
    /\ UNCHANGED <<device, wire, shake, seq, req, got, ids, gaze>>

(* HANDSHAKE_STEP_CAP. *)
HsGivesUp ==
    /\ at = "poll" /\ hs # "done"
    /\ hs' = "failed" /\ at' = "closed"
    /\ UNCHANGED <<device, wire, resp, realm_type, seq, req, got, ids, gaze>>

Connected ==
    /\ at = "poll" /\ hs = "done" /\ at' = "ready"
    /\ UNCHANGED <<device, wire, shake, seq, req, got, ids, gaze>>

-----------------------------------------------------------------------------
(* request_until: the frame goes out, in one transfer or in several. *)
Request(op) ==
    LET r == [op |-> op, seq |-> seq, id |-> ids + 1] IN
    /\ at = "ready" /\ ids < MaxRequests
    /\ req' = r /\ got' = NoFrame /\ ids' = ids + 1 /\ seq' = After(seq)
    /\ IF op \in LargeOps THEN at' = "sending" /\ UNCHANGED <<inbox, partial>>
       ELSE Arrive(r) /\ partial' = FALSE /\ at' = "waiting"
    /\ UNCHANGED <<realm, bus, sent, wire, shake, gaze>>

(* soak_incoming, between two transfers out. *)
Soak ==
    /\ at = "sending" /\ bus # <<>> /\ Len(pending) < SoakCap
    /\ pending' = Append(pending, Head(bus)) /\ bus' = Tail(bus)
    /\ UNCHANGED <<realm, inbox, partial, sent, acc, desync, shake, seq, client, gaze>>

SendDone ==
    /\ at = "sending" /\ Arrive(req) /\ partial' = FALSE /\ at' = "waiting"
    /\ UNCHANGED <<realm, bus, sent, wire, shake, seq, req, got, ids, gaze>>

(* A transfer out fails: the request ends, and the frame stays half sent. *)
SendFails ==
    /\ at = "sending" /\ partial' = TRUE /\ at' = "ready"
    /\ UNCHANGED <<realm, inbox, bus, sent, wire, shake, seq, req, got, ids, gaze>>

(* A chunk: the first answer of this op and sequence number ends the wait,   *)
(* and everything else in the chunk is routed.                               *)
Matches(f) == f.magic = "rsp" /\ f.op = req.op /\ f.seq = req.seq
Rest(frames, i) == RemoveAt(frames, i)
Matched ==
    /\ at = "waiting" /\ Feed
    /\ \E i \in DOMAIN Frames :
         /\ Matches(Frames[i]) /\ \A j \in 1..(i - 1) : ~Matches(Frames[j])
         /\ got' = Frames[i] /\ Queue(Rest(Frames, i))
    /\ at' = "ready"
    /\ UNCHANGED <<realm, inbox, partial, sent, shake, seq, req, ids, delivered, by_queue>>

NotMatched ==
    /\ at = "waiting" /\ Feed
    /\ \A i \in DOMAIN Frames : ~Matches(Frames[i])
    /\ Queue(Frames)
    /\ UNCHANGED <<realm, inbox, partial, sent, shake, seq, client, delivered, by_queue>>

RequestTimeout ==
    /\ at = "waiting" /\ at' = "ready"
    /\ UNCHANGED <<device, wire, shake, seq, req, got, ids, gaze>>

-----------------------------------------------------------------------------
(* next_gaze: from the queue, or after one more chunk. *)
NextGazeQueued ==
    /\ at = "ready" /\ by_queue /\ gaze_queue # <<>>
    /\ delivered' = Append(delivered, Head(gaze_queue)) /\ gaze_queue' = Tail(gaze_queue)
    /\ UNCHANGED <<device, wire, shake, seq, client, by_queue>>
NextGazeRead ==
    /\ at = "ready" /\ by_queue /\ gaze_queue = <<>> /\ Feed
    /\ IF Samples(Frames) = <<>> THEN UNCHANGED <<gaze_queue, delivered>>
       ELSE /\ delivered' = Append(delivered, Head(Samples(Frames)))
            /\ gaze_queue' = Tail(Samples(Frames))
    /\ UNCHANGED <<realm, inbox, partial, sent, shake, seq, client, by_queue>>

(* read_notifications: the chunk's own, whatever the queue holds. *)
ReadNotifications ==
    /\ at = "ready" /\ ~by_queue /\ Feed
    /\ delivered' = delivered \o Samples(Frames)
    /\ UNCHANGED <<realm, inbox, partial, sent, shake, seq, client, gaze_queue, by_queue>>

ConnNext ==
    \/ Serve \/ Ignore \/ SendGaze
    \/ PollSend \/ PollFails \/ PollRecv \/ HsDrain \/ HsQuiet \/ HsGivesUp \/ Connected
    \/ (\E op \in Ops : Request(op)) \/ Soak \/ SendDone \/ SendFails
    \/ Matched \/ NotMatched \/ RequestTimeout
    \/ NextGazeQueued \/ NextGazeRead \/ ReadNotifications

ConnSpec == ConnInit /\ [][ConnNext]_connVars

-----------------------------------------------------------------------------
Kinds == Ops \cup Steps
FrameType == [magic : {"rsp", "notify"}, op : Kinds \cup {"gaze"}, seq : 0..(Wrap - 1), id : Nat]
Transfers ==
    [tail : FrameType \cup {NoFrame}, frames : Seq(FrameType), head : FrameType \cup {NoFrame}]
Requests == [op : Kinds, seq : 1..(Wrap - 1), id : Nat]
ConnTypeOK ==
    /\ realm \in [type : {0, 1}, open : BOOLEAN, authorised : BOOLEAN, streaming : BOOLEAN]
    /\ inbox \in Seq(Requests) /\ req \in Requests \cup {NoRequest}
    /\ partial \in BOOLEAN /\ desync \in BOOLEAN /\ by_queue \in BOOLEAN
    /\ bus \in Seq(Transfers) /\ pending \in Seq(Transfers) /\ Len(pending) <= SoakCap
    /\ acc \in FrameType \cup {NoFrame} /\ resp \in FrameType \cup {NoFrame}
    /\ got \in FrameType \cup {NoFrame}
    /\ hs \in Steps \cup {"new", "done", "failed"} /\ realm_type \in {0, 1}
    /\ seq \in 1..(Wrap - 1) /\ sent \in 0..MaxGaze /\ ids \in Nat
    /\ at \in {"poll", "drain", "ready", "sending", "waiting", "closed"}
    /\ gaze_queue \in Seq(Nat) /\ delivered \in Seq(Nat)

(* Whatever was soaked up, timed out or left over, every chunk continues the *)
(* frame the one before it began ("every chunk begins where a device         *)
(* transfer began"): the parser never meets bytes it must throw away.        *)
Framing == ~desync

(* No sample is lost, doubled or overtaken between the tracker and a program *)
(* that reads by next_gaze, whatever requests it makes in between.           *)
Unpacked(transfers) == FlattenSeq([i \in DOMAIN transfers |-> ChunkFrames(transfers[i])])
OnTheWay == Unpacked(Incoming)
GazeKept ==
    by_queue => delivered \o gaze_queue \o Samples(OnTheWay) = [i \in 1..sent |-> i]

(* An answer is the answer of the request it is taken for: those of requests *)
(* that timed out, of the subscription nobody waits for and of the handshake *)
(* are passed over, and the handshake takes each for the step it is at.      *)
OwnAnswer ==
    /\ got # NoFrame => got.id = req.id
    /\ hs \in Steps /\ resp # NoFrame => resp.id = req.id

(* The USB stream: all of these, whatever times out. *)
StreamIsKept == ConnTypeOK /\ Framing /\ GazeKept /\ OwnAnswer

-----------------------------------------------------------------------------
(* Why: the transfers still to be read continue one another and end with a    *)
(* whole frame; the handshake is at the request its number says; one of its   *)
(* requests or answers exists at a time; and what was asked is numbered in    *)
(* order, so that two requests of one kind differ in their sequence numbers.  *)
Chained(transfers, begun, left) ==
    /\ transfers = <<>> => begun = left
    /\ transfers # <<>> => transfers[1].tail = begun /\ transfers[Len(transfers)].head = left
    /\ \A i \in 1..(Len(transfers) - 1) : transfers[i + 1].tail = transfers[i].head
Unbroken == Chained(Incoming, acc, NoFrame)
StepAt ==
    /\ hs = "new" => ids = 0 /\ seq = 1
    /\ hs = "hello" => ids = 1
    /\ hs = "query" => ids = 2
    /\ hs = "open" => ids = 3
    /\ hs = "auth" => ids = 4
    /\ hs = "done" => ids >= 4
    /\ hs # "subscribe"
    /\ hs \in Steps \cup {"new"} => at \in {"poll", "drain"}
    /\ hs = "failed" => at = "closed"
    /\ at \in {"poll", "drain"} => got = NoFrame
    /\ at \in {"sending", "waiting"} => ids <= MaxRequests /\ req # NoRequest /\ req.op \in Ops
OneAsked ==
    /\ hs = "new" => resp = NoFrame
    /\ hs \in Steps \cup {"new"} =>
         LET answers == {i \in DOMAIN OnTheWay : IsAnswer(OnTheWay[i])} IN
         /\ resp # NoFrame => inbox = <<>> /\ answers = {}
         /\ inbox # <<>> => answers = {} /\ Len(inbox) = 1 /\ inbox[1].id = req.id
         /\ \A i \in answers : OnTheWay[i].id = req.id /\ \A j \in answers : i = j
Asked(m) ==
    /\ m.id \in 1..ids
    /\ m.op \in Ops => m.id >= 4
    /\ LET d == ids + 1 - m.id IN d <= Wrap - 1 => m.seq + d \in {seq, seq + Wrap - 1}
Numbered ==
    /\ ids > 0 => req.id = ids /\ Asked(req)
    /\ \A i \in DOMAIN inbox : Asked(inbox[i])
    /\ \A i \in DOMAIN OnTheWay : IsAnswer(OnTheWay[i]) => Asked(OnTheWay[i])
ConnInv == StreamIsKept /\ Unbroken /\ StepAt /\ OneAsked /\ Numbered
=============================================================================
