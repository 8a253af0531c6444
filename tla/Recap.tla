--------------------------------- MODULE Recap ---------------------------------
(***************************************************************************)
(* tobii-recap: the decoder of usbmon captures (crates/tobii-recap: pcap.rs, *)
(* usbmon.rs, out_parser.rs, decode.rs, catalog.rs, main.rs), with the       *)
(* inbound reassembler it shares with the driver (parser.rs).                *)
(*                                                                           *)
(* Bytes come in cells of eight: an envelope, a frame's header, a cell of    *)
(* payload.  "z" is payload that begins with four zero bytes, as an outbound *)
(* envelope does; "t" payload that begins 01 00 00 00, as an inbound one     *)
(* does; "d" any other.  Every transfer is two records, the one that submits *)
(* it and the one that completes it; only one of the two carries the bytes.  *)
(***************************************************************************)
EXTENDS Naturals, Sequences, FiniteSets, SequencesExt, FiniteSetsExt

CONSTANTS Ops, Known,     \* op codes, and the ones with a name
          OutPayloads,    \* payloads the host may send
          InPayloads,     \* payloads the device may send
          MaxFrames

VARIABLES hostSent, devSent,   \* the frames of each direction, as they were sent
          file,                \* the records of the capture
          sealed,              \* "no", "whole", "cut" (inside the last record)
          at,                  \* the record decode() is at
          accIn, accOut,       \* the two reassemblers
          timeline, errors

recapVars == <<hostSent, devSent, file, sealed, at, accIn, accOut, timeline, errors>>

Env(n) == [k |-> "env", n |-> n, op |-> 0]            \* outbound: zeroes, then the length
In(n) == [k |-> "in", n |-> n, op |-> 0]              \* inbound: the run it announces, itself included
Hdr(op, n) == [k |-> "hdr", n |-> n, op |-> op]
Data(p) == [i \in DOMAIN p |-> [k |-> p[i], n |-> 0, op |-> 0]]

\* build_out_frame
OutFrame(f) == <<Env(1 + Len(f.payload)), Hdr(f.op, Len(f.payload))>> \o Data(f.payload)
InFrame(f) == <<In(2 + Len(f.payload)), Hdr(f.op, Len(f.payload))>> \o Data(f.payload)

(***************************************************************************)
(* Reassembly.  [acc, frames, ok]                                           *)
(***************************************************************************)
Missing(acc) == IF Len(acc) < 2 THEN 0 ELSE IF acc[2].k # "hdr" \/ Len(acc) >= 2 + acc[2].n THEN 0
                ELSE 2 + acc[2].n - Len(acc)

\* OutParser::feed: any chunk that begins with four zero bytes
OutContinues(src) == src # <<>> /\ src[1].k \in {"env", "z"}

\* parser.rs looks_like_continuation: the announced run must fit what is missing
InContinues(src, missing) == src # <<>> /\ src[1].k = "in" /\ src[1].n > 1 /\ src[1].n - 1 <= missing

\* drain_one, until it has no more; `first` is how a frame may begin
Drain(acc, first) ==
    LET left[i \in 0..Len(acc)] ==
          IF i = 0 THEN [acc |-> acc, frames |-> <<>>, ok |-> TRUE, more |-> TRUE]
          ELSE LET s == left[i - 1]
               IN  IF ~s.ok \/ ~s.more \/ s.acc = <<>> THEN [s EXCEPT !.more = FALSE]
                   ELSE IF s.acc[1].k \notin first THEN [s EXCEPT !.ok = FALSE, !.acc = <<>>]
                   ELSE IF Len(s.acc) < 2 THEN [s EXCEPT !.more = FALSE]
                   ELSE IF s.acc[2].k # "hdr" THEN [s EXCEPT !.ok = FALSE, !.acc = <<>>]
                   ELSE IF Missing(s.acc) > 0 THEN [s EXCEPT !.more = FALSE]
                   ELSE LET n == s.acc[2].n
                        IN  [s EXCEPT !.frames = Append(@, [op |-> s.acc[2].op, payload |-> [i2 \in 1..n |-> s.acc[2 + i2].k]]),
                                      !.acc = SubSeq(@, 3 + n, Len(@))]
    IN  left[Len(acc)]

FeedOut(acc, src) ==
    Drain(acc \o (IF Missing(acc) > 0 /\ OutContinues(src) THEN Tail(src) ELSE src), {"env", "z"})

FeedIn(acc, src) ==
    Drain(acc \o (IF Missing(acc) > 0 /\ InContinues(src, Missing(acc)) THEN Tail(src) ELSE src), {"in"})

(***************************************************************************)
(* The conversation, as usbmon records it.                                  *)
(***************************************************************************)
Submit(in, data) == [event |-> "S", xfer |-> "bulk", in |-> in, data |-> data]
Complete(in, data) == [event |-> "C", xfer |-> "bulk", in |-> in, data |-> data]
OutUrb(data) == <<Submit(FALSE, data), Complete(FALSE, <<>>)>>
InUrb(data) == <<Submit(TRUE, <<>>), Complete(TRUE, data)>>

RecapInit ==
    /\ hostSent = <<>> /\ devSent = <<>> /\ file = <<>> /\ sealed = "no"
    /\ at = 0 /\ accIn = <<>> /\ accOut = <<>> /\ timeline = <<>> /\ errors = 0

Recording == sealed = "no" /\ Len(hostSent) + Len(devSent) < MaxFrames

\* a request, in one transfer or two; the second may repeat the envelope
HostSends ==
    /\ Recording
    /\ \E op \in Ops, payload \in OutPayloads :
         LET f == [op |-> op, payload |-> payload]
             cells == OutFrame(f)
         IN  /\ hostSent' = Append(hostSent, f)
             /\ \/ file' = file \o OutUrb(cells)
                \/ \E j \in 2..(Len(cells) - 1), again \in BOOLEAN :
                     LET rest == SubSeq(cells, j + 1, Len(cells))
                     IN  file' = file \o OutUrb(SubSeq(cells, 1, j))
                                      \o OutUrb(IF again THEN <<Env(Len(rest))>> \o rest ELSE rest)
    /\ UNCHANGED <<devSent, sealed, at, accIn, accOut, timeline, errors>>

\* a reply, in one transfer, or with a run of its own announced at the start of
\* a later transfer and carried on without an envelope
DeviceSends ==
    /\ Recording
    /\ \E op \in Ops, payload \in InPayloads :
         LET f == [op |-> op, payload |-> payload]
             cells == InFrame(f)
         IN  /\ devSent' = Append(devSent, f)
             /\ \/ file' = file \o InUrb(cells)
                \/ \E j \in 2..(Len(cells) - 1) :
                     LET rest == SubSeq(cells, j + 1, Len(cells))
                     IN  \/ file' = file \o InUrb(SubSeq(cells, 1, j)) \o InUrb(<<In(1 + Len(rest))>> \o rest)
                         \/ file' = file \o InUrb(SubSeq(cells, 1, j)) \o InUrb(<<In(1 + Len(rest))>>) \o InUrb(rest)
    /\ UNCHANGED <<hostSent, sealed, at, accIn, accOut, timeline, errors>>

\* a control transfer, whose bytes are nobody's frame
Control ==
    /\ sealed = "no" /\ \A i \in DOMAIN file : i = Len(file) => file[i].xfer = "bulk"
    /\ file' = Append(file, [event |-> "C", xfer |-> "control", in |-> TRUE, data |-> <<In(2)>>])
    /\ UNCHANGED <<hostSent, devSent, sealed, at, accIn, accOut, timeline, errors>>

\* the capture is stopped, and may end inside its last record
Seal ==
    /\ sealed = "no" /\ file # <<>> /\ sealed' \in {"whole", "cut"} /\ at' = 1
    /\ UNCHANGED <<hostSent, devSent, file, accIn, accOut, timeline, errors>>

(***************************************************************************)
(* decode()                                                                 *)
(***************************************************************************)
\* a transfer is read when it completes, whichever way it went
MutCarries(ev) == ev.xfer = "bulk" /\ ev.data # <<>> /\ ev.event = "C"

\* carries_payload
Carries(ev) == ev.xfer = "bulk" /\ ev.data # <<>> /\ (IF ev.in THEN ev.event = "C" ELSE ev.event = "S")

\* the record reader loses the framing inside a cut record, and stops there
Framed(i) == i < Len(file) \/ sealed = "whole"

Placed(frames, in) == [i \in DOMAIN frames |-> [in |-> in, frame |-> frames[i]]]

DecodeRecord ==
    /\ at \in 1..Len(file)
    /\ LET ev  == file[at]
           fed == IF ev.in THEN FeedIn(accIn, ev.data) ELSE FeedOut(accOut, ev.data)
       IN  IF ~Framed(at) THEN errors' = errors + 1 /\ UNCHANGED <<accIn, accOut, timeline>>
           ELSE IF ~Carries(ev) THEN UNCHANGED <<accIn, accOut, timeline, errors>>
           ELSE /\ IF ev.in THEN accIn' = fed.acc /\ UNCHANGED accOut ELSE accOut' = fed.acc /\ UNCHANGED accIn
                \* an error discards the frames of the chunk it is in
                /\ timeline' = IF fed.ok THEN timeline \o Placed(fed.frames, ev.in) ELSE timeline
                /\ errors' = IF fed.ok THEN errors ELSE errors + 1
    /\ at' = at + 1
    /\ UNCHANGED <<hostSent, devSent, file, sealed>>

RecapNext == HostSends \/ DeviceSends \/ Control \/ Seal \/ DecodeRecord

RecapSpec == RecapInit /\ [][RecapNext]_recapVars

(***************************************************************************)
(* The report.                                                              *)
(***************************************************************************)
\* catalog::build: one line per op, the unknown ones first
OpStat(op) ==
    LET mine == {i \in DOMAIN timeline : timeline[i].frame.op = op}
        lens == {Len(timeline[i].frame.payload) : i \in mine}
    IN  [op |-> op, count |-> Cardinality(mine), min |-> Min(lens), max |-> Max(lens),
         out |-> \E i \in mine : ~timeline[i].in, in |-> \E i \in mine : timeline[i].in]

Catalog ==
    LET seen == {timeline[i].frame.op : i \in DOMAIN timeline}
        lines(named) == SetToSortSeq({OpStat(op) : op \in {o \in seen : (o \in Known) = named}}, LAMBDA a, b : a.op < b.op)
    IN  lines(FALSE) \o lines(TRUE)

(***************************************************************************)
(* Properties.                                                              *)
(***************************************************************************)
Done == sealed # "no" /\ at > Len(file)
Side(in) == LET mine == SelectSeq(timeline, LAMBDA f : f.in = in) IN [i \in DOMAIN mine |-> mine[i].frame]

\* A capture is read as what was said: each direction's frames, in order, each
\* once, however they were split over transfers; one cut short loses at most
\* the frame that was under way, and the catalog counts what the timeline has.
TimelineIsSaid ==
    Done =>
      /\ IF sealed = "whole" THEN Side(FALSE) = hostSent /\ Side(TRUE) = devSent /\ errors = 0
         ELSE /\ IsPrefix(Side(FALSE), hostSent) /\ IsPrefix(Side(TRUE), devSent)
              /\ Len(timeline) >= Len(hostSent) + Len(devSent) - 1
      /\ \A i \in DOMAIN timeline : \E l \in DOMAIN Catalog :
            /\ Catalog[l].op = timeline[i].frame.op /\ Catalog[l].min <= Len(timeline[i].frame.payload)
            /\ Len(timeline[i].frame.payload) <= Catalog[l].max
      /\ \A l1, l2 \in DOMAIN Catalog : l1 < l2 => (Catalog[l1].op \in Known => Catalog[l2].op \in Known)
================================================================================
