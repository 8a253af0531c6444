-------------------------------- MODULE Capture --------------------------------
(***************************************************************************)
(* Recording a session and replaying it without the device                  *)
(* (crates/tobii-usb/src/capture.rs): the recording transport, the text     *)
(* file, what a person may do to it by hand, its reader, and the replaying   *)
(* transport.                                                                *)
(*                                                                           *)
(* A file is a sequence of lines: the magic with its version, a header of a  *)
(* key and a value, a transfer, a blank line, or anything else.  A note is a *)
(* sequence of the lines it was given with.                                  *)
(***************************************************************************)
EXTENDS Naturals, Sequences, SequencesExt

CONSTANTS Notes,       \* notes a session may be recorded with
          Bytes,       \* what a transfer may carry
          MaxEvents

VARIABLES note, events, file, read, replay, heard, exhausted

capVars == <<note, events, file, read, replay, heard, exhausted>>

FormatVersion == 1

Magic(v) == [kind |-> "magic", a |-> v, b |-> ""]
Header(k, v) == [kind |-> "header", a |-> k, b |-> v]
Transfer(dir, bytes) == [kind |-> dir, a |-> bytes, b |-> ""]
Blank == [kind |-> "blank", a |-> "", b |-> ""]
Junk == [kind |-> "junk", a |-> "", b |-> ""]

\* the note as it was given, line breaks and all
MutOneLine(text) == text

\* one_line: the line breaks of a value become spaces
OneLine(text) == <<FlattenSeq(text)>>

\* a header's value goes out as it is: a second line of it stands on its own
HeaderLines(k, text) ==
    <<Header(k, text[1])>>
    \o [i \in 1..(Len(text) - 1) |-> IF text[i + 1][1] \in {">", "<"} THEN Transfer(text[i + 1][1], "injected") ELSE Junk]

\* to_text
ToText(n, evs) ==
    <<Magic(FormatVersion)>> \o HeaderLines("note", OneLine(n)) \o [i \in DOMAIN evs |-> Transfer(evs[i].dir, evs[i].bytes)]

\* parse: an unknown header is kept, an unknown line or version refuses the file
NotACapture == [ok |-> FALSE, headers |-> <<>>, events |-> <<>>]
Parse(lines) ==
    LET solid == SelectSeq(lines, LAMBDA l : l.kind # "blank")
    IN  IF solid = <<>> THEN NotACapture
        ELSE IF solid[1].kind # "magic" THEN NotACapture
        ELSE IF \E i \in DOMAIN solid : solid[i].kind = "junk" \/ (solid[i].kind = "magic" /\ solid[i].a # FormatVersion)
             THEN NotACapture
        ELSE [ok |-> TRUE,
              headers |-> SelectSeq(solid, LAMBDA l : l.kind = "header"),
              events |-> LET moved == SelectSeq(solid, LAMBDA l : l.kind \in {">", "<"})
                         IN  [i \in DOMAIN moved |-> [dir |-> moved[i].kind, bytes |-> moved[i].a]]]

Received(evs) == SelectSeq(evs, LAMBDA e : e.dir = "<")

CaptureInit ==
    /\ note \in Notes /\ events = <<>> /\ file = <<>> /\ read = NotACapture
    /\ replay = <<>> /\ heard = <<>> /\ exhausted = 0

Recording == file = <<>> /\ Len(events) < MaxEvents

\* RecordTransport::send, recorded before it is tried, and so when it fails
RecordSend ==
    /\ Recording /\ \E b \in Bytes : events' = Append(events, [dir |-> ">", bytes |-> b])
    /\ UNCHANGED <<note, file, read, replay, heard, exhausted>>

\* RecordTransport::recv; a timeout records nothing
RecordRecv ==
    /\ Recording /\ \E b \in Bytes : events' = Append(events, [dir |-> "<", bytes |-> b])
    /\ UNCHANGED <<note, file, read, replay, heard, exhausted>>

\* write_file
Save ==
    /\ file = <<>> /\ file' = ToText(note, events)
    /\ UNCHANGED <<note, events, read, replay, heard, exhausted>>

\* a person adds a blank line, a comment or a stray line
Edit ==
    /\ file # <<>> /\ ~read.ok /\ Len(file) <= Len(ToText(note, events))
    /\ \E i \in 0..Len(file), line \in {Blank, Junk, Header("by", <<"me">>)} : file' = InsertAt(file, i + 1, line)
    /\ UNCHANGED <<note, events, read, replay, heard, exhausted>>

Load ==
    /\ file # <<>> /\ ~read.ok /\ read' = Parse(file) /\ read'.ok
    /\ replay' = Received(read'.events)
    /\ UNCHANGED <<note, events, file, heard, exhausted>>

\* ReplayTransport::recv
ReplayRecv ==
    /\ read.ok /\ replay # <<>>
    /\ heard' = Append(heard, Head(replay)) /\ replay' = Tail(replay)
    /\ UNCHANGED <<note, events, file, read, exhausted>>

Exhausted ==
    /\ read.ok /\ replay = <<>> /\ exhausted = 0 /\ exhausted' = 1
    /\ UNCHANGED <<note, events, file, read, replay, heard>>

CaptureNext == RecordSend \/ RecordRecv \/ Save \/ Edit \/ Load \/ ReplayRecv \/ Exhausted

CaptureSpec == CaptureInit /\ [][CaptureNext]_capVars

\* A replay is the session that was recorded: whatever the note says and
\* whatever a person added around it, a file that loads delivers the replies
\* the device gave, in order, and none it never sent.
ReplayIsSession ==
    read.ok => /\ read.events = events
               /\ heard \o replay = Received(events)
               /\ exhausted = 1 => heard = Received(events)
================================================================================
