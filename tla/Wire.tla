---------------------------------- MODULE Wire ----------------------------------
(***************************************************************************)
(* The payloads of the tracker's protocol (crates/tobii-protocol: tlv.rs,    *)
(* gaze.rs, camera.rs, display.rs, commands.rs): what the device writes, and *)
(* what the driver's decoders make of it when a field arrives damaged, the   *)
(* end is missing, or a column is one this build does not know.              *)
(*                                                                           *)
(* A payload is a sequence of TLV fields [type, size, val] after its two-byte *)
(* prefix.  A field that is cut short is one no read succeeds on.  Numbers   *)
(* stand for multiples of the field's own resolution (2^-42 or 2^-16), which *)
(* the fixed-point codec returns exactly.                                    *)
(***************************************************************************)
EXTENDS Integers, Sequences, FiniteSets, SequencesExt, TLC

CONSTANTS Rows,       \* gaze rows the device may send: sequences of columns
          Frames,     \* camera frames
          Catalogs,   \* stream catalogs
          Corners,    \* display areas
          EyeWords    \* words of the enabled-eye reply

VARIABLES sent,       \* {} or the one message on its way
          wire,       \* its payload, as it arrives
          hurt,       \* the first field that was damaged, 0 if none
          got         \* {} or what the decoders said of it

wireVars == <<sent, wire, hurt, got>>

(***************************************************************************)
(* Fields and the reader.                                                   *)
(***************************************************************************)
U32 == 2      Fixed16 == 3      Q42 == 4      Tag == 5      S64 == 6      Text == 20      Blob == 21

Size(type) == IF type \in {Q42, S64} THEN 8 ELSE 4

Field(type, val) == [type |-> type, size |-> Size(type), val |-> val]

\* a tag packs a count over a type
TagOf(count, id) == Field(Tag, <<count, id>>)
SplitTag(val) == [count |-> val[1], id |-> val[2]]

RowId == "row"     ColumnId == "column"     Point2dId == "point2d"     Point3dId == "point3d"

\* string: the count is the authority, the size must agree with it
TextField(text) == [type |-> Text, size |-> Len(text) + 4, val |-> [count |-> Len(text), text |-> text]]

\* a reader position after a read, or a failed one
Fail == [ok |-> FALSE, at |-> 0, val |-> <<>>]
Read(fields, at, type) ==
    IF at <= Len(fields) /\ fields[at].type = type /\ fields[at].size = Size(type)
    THEN [ok |-> TRUE, at |-> at + 1, val |-> <<fields[at].val>>]
    ELSE Fail

ReadString(fields, at) ==
    IF at <= Len(fields) /\ fields[at].type = Text /\ fields[at].size = fields[at].val.count + 4
    THEN [ok |-> TRUE, at |-> at + 1, val |-> <<fields[at].val.text>>]
    ELSE Fail

\* n reads of one type, all or none
ReadMany(fields, at, type, n) ==
    IF \A i \in 0..(n - 1) : Read(fields, at + i, type).ok
    THEN [ok |-> TRUE, at |-> at + n, val |-> [i \in 1..n |-> fields[at + i - 1].val]]
    ELSE Fail

\* read_point2d, read_point3d: the tag, then the coordinates
ReadPoint(fields, at, id, n) ==
    LET tag == Read(fields, at, Tag)
    IN  IF ~tag.ok THEN Fail
        ELSE IF tag.val[1] # <<n, id>> THEN Fail
        ELSE ReadMany(fields, at + 1, Q42, n)

WritePoint(coords) ==
    LET n == Len(coords)
    IN  <<TagOf(n, IF n = 3 THEN Point3dId ELSE Point2dId)>> \o [i \in 1..n |-> Field(Q42, coords[i])]

(***************************************************************************)
(* Gaze rows.                                                               *)
(***************************************************************************)
\* column_kind: none for a column this build does not know
ColumnKind(col) ==
    CASE col = 1                                      -> "s64"
      [] col \in {2, 3, 4, 8, 9, 10, 23, 24, 34, 36, 37, 39} -> "point3d"
      [] col \in {5, 11, 28, 32, 25, 26}              -> "point2d"
      [] col \in {6, 12, 41, 43}                      -> "fixed"
      [] col \in {7, 13, 14, 17, 20, 21, 22, 27, 29, 30, 31, 33, 35, 38, 40, 42, 44} -> "u32"
      [] OTHER                                        -> "none"

\* the columns decode keeps; the other known ones it reads and drops
Modelled == {1, 2, 3, 4, 5, 6, 7, 8, 9, 10, 11, 12, 13, 20, 23, 24, 28, 32}

\* what the device writes for a column
ColumnFields(c) ==
    CASE ColumnKind(c.id) = "s64"                  -> <<Field(S64, c.val[1])>>
      [] ColumnKind(c.id) = "u32"                  -> <<Field(U32, c.val[1])>>
      [] ColumnKind(c.id) = "fixed"                -> <<Field(Fixed16, c.val[1])>>
      [] ColumnKind(c.id) \in {"point2d", "point3d"} -> WritePoint(c.val)
      [] OTHER                                     -> <<Field(Blob, c.val)>>

RowFields(row) ==
    <<TagOf(Len(row), RowId)>>
    \o FlattenSeq([i \in DOMAIN row |-> <<TagOf(2, ColumnId), Field(U32, row[i].id)>> \o ColumnFields(row[i])])

ReadKind(fields, at, kind) ==
    CASE kind = "s64"     -> Read(fields, at, S64)
      [] kind = "u32"     -> Read(fields, at, U32)
      [] kind = "fixed"   -> Read(fields, at, Fixed16)
      [] kind = "point2d" -> ReadPoint(fields, at, Point2dId, 2)
      [] kind = "point3d" -> ReadPoint(fields, at, Point3dId, 3)
      [] OTHER            -> Fail

\* read_xds_column: the tag and the id
ReadColumnId(fields, at) ==
    LET tag == Read(fields, at, Tag)
    IN  IF ~tag.ok THEN Fail ELSE IF tag.val[1] # <<2, ColumnId>> THEN Fail ELSE Read(fields, at + 1, U32)

\* a column whose value does not read is passed over and the row goes on
MutColumnStop(id, value) == ~id.ok

\* one turn of the loop: where a damaged or unknown column ends it
ColumnStop(id, value) == ~id.ok \/ ~value.ok

\* column_inventory: every column up to the first that does not read
Columns(fields) ==
    LET row == Read(fields, 1, Tag)
        read[i \in 0..SplitTag(row.val[1]).count] ==
          IF i = 0 THEN [at |-> 2, cols |-> <<>>, stop |-> FALSE]
          ELSE LET before == read[i - 1]
                   id     == ReadColumnId(fields, before.at)
                   value  == IF id.ok THEN ReadKind(fields, id.at, ColumnKind(id.val[1])) ELSE Fail
               IN  IF before.stop \/ before.at > Len(fields) THEN before
                   ELSE IF ColumnStop(id, value) THEN [before EXCEPT !.stop = TRUE]
                   ELSE [before EXCEPT !.at = IF value.ok THEN value.at ELSE id.at + 1,
                                       !.cols = IF value.ok THEN Append(@, [id |-> id.val[1], val |-> value.val]) ELSE @]
    IN  IF ~row.ok THEN [ok |-> FALSE, cols |-> <<>>]
        ELSE IF SplitTag(row.val[1]).id # RowId THEN [ok |-> FALSE, cols |-> <<>>]
        ELSE [ok |-> TRUE, cols |-> read[SplitTag(row.val[1]).count].cols]

\* GazeSample::decode: the columns it models, the latest of a repeated one
Sample(fields) ==
    LET known == SelectSeq(Columns(fields).cols, LAMBDA c : c.id \in Modelled)
    IN  [id \in {known[i].id : i \in DOMAIN known} |->
           known[CHOOSE i \in DOMAIN known : known[i].id = id /\ \A j \in DOMAIN known : known[j].id = id => j <= i].val]

(***************************************************************************)
(* Camera frames.                                                           *)
(***************************************************************************)
FrameFields(f) ==
    LET col(id, field) == <<TagOf(2, ColumnId), Field(U32, id), field>>
    IN  <<TagOf(5, RowId)>> \o col(1, Field(S64, f.ts)) \o col(2, Field(U32, f.depth)) \o col(3, Field(U32, f.width))
        \o col(4, Field(U32, f.height)) \o col(5, [type |-> Blob, size |-> f.pixels + 4, val |-> f.pixels])

\* the smallest side a picture may have
MinSide == 8

\* the last pair whose product is the pixel count, in whichever order
MutFindDims(vals, pixels) ==
    {<<vals[a], vals[b]>> : a, b \in {i \in DOMAIN vals : vals[i] >= MinSide /\ \E j \in DOMAIN vals : vals[i] * vals[j] = pixels}}

\* find_dims: a width, downwards, whose height is the value of a later field
FindDims(vals, pixels) ==
    LET last(v)  == {b \in DOMAIN vals : vals[b] = v /\ \A c \in DOMAIN vals : vals[c] = v => c <= b}
        widths   == {a \in DOMAIN vals : /\ vals[a] >= MinSide /\ pixels > 0 /\ pixels % vals[a] = 0
                                         /\ pixels \div vals[a] >= MinSide
                                         /\ \E b \in last(pixels \div vals[a]) : b > a}
    IN  {<<vals[a], pixels \div vals[a]>> : a \in {x \in widths : \A y \in widths : y <= x}}

\* decode_camera_frame: any element is walked over, only a cut one ends the walk
CameraStep(s, field) ==
    IF s.stop \/ field.type = 0 THEN [s EXCEPT !.stop = TRUE]
    ELSE IF field.type = Tag THEN [s EXCEPT !.id = @ \/ SplitTag(field.val).id \in {ColumnId, RowId}]
    ELSE IF s.id /\ field.type = U32 THEN [s EXCEPT !.id = FALSE]
    ELSE CASE field.type = S64 -> [s EXCEPT !.ts = field.val]
           [] field.type = U32 -> [s EXCEPT !.vals = Append(@, field.val)]
           [] field.type = Blob -> [s EXCEPT !.blob = {field.size - 4}]
           [] OTHER -> s

CameraFrame(fields) ==
    LET end == FoldLeft(CameraStep, [stop |-> FALSE, id |-> FALSE, ts |-> 0, vals |-> <<>>, blob |-> {}], fields)
    IN  {[ts |-> end.ts, width |-> d[1], height |-> d[2], pixels |-> p,
          depth |-> LET other == {i \in DOMAIN end.vals : end.vals[i] \notin {d[1], d[2]} /\ end.vals[i] <= 32}
                    IN  IF other = {} THEN 8 ELSE end.vals[CHOOSE i \in other : \A j \in other : i <= j]]
         : <<d, p>> \in UNION {FindDims(end.vals, size) \X {size} : size \in end.blob}}

(***************************************************************************)
(* Replies to requests.                                                     *)
(***************************************************************************)
CatalogFields(entries) ==
    <<TagOf(Len(entries) + 1, "catalog"), Field(U32, 5001)>>
    \o FlattenSeq([i \in DOMAIN entries |->
         <<TagOf(4, "stream"), Field(U32, entries[i].id), TextField(entries[i].name), TextField(<<>>), Field(U32, 0)>>])

\* parse_stream_catalog: a malformed tail truncates the list
StreamCatalog(fields) ==
    LET tag == Read(fields, 1, Tag)
        read[i \in 0..(SplitTag(tag.val[1]).count - 1)] ==
          IF i = 0 THEN [at |-> 3, out |-> <<>>, stop |-> FALSE]
          ELSE LET s == read[i - 1]
                   whole == /\ Read(fields, s.at, Tag).ok /\ Read(fields, s.at + 1, U32).ok
                            /\ ReadString(fields, s.at + 2).ok /\ ReadString(fields, s.at + 3).ok
                            /\ Read(fields, s.at + 4, U32).ok
               IN  IF s.stop \/ ~whole THEN [s EXCEPT !.stop = TRUE]
                   ELSE [s EXCEPT !.at = @ + 5,
                                  !.out = Append(@, [id |-> Read(fields, s.at + 1, U32).val[1],
                                                     name |-> ReadString(fields, s.at + 2).val[1]])]
    IN  IF ~tag.ok \/ ~Read(fields, 2, U32).ok THEN <<>>
        ELSE read[SplitTag(tag.val[1]).count - 1].out

\* set_display_area_corners_payload, from a rectangle: TL, TR, BL
AreaFields(a) ==
    WritePoint(<<a.x, a.y + a.h, a.z>>) \o WritePoint(<<a.x + a.w, a.y + a.h, a.z>>) \o WritePoint(<<a.x, a.y, a.z>>)
    \o <<TagOf(1, "area"), Field(U32, 12345)>>

\* DisplayCorners::decode: all three corners or nothing
DisplayCorners(fields) ==
    LET corner(i) == ReadPoint(fields, 1 + 4 * i, Point3dId, 3)
    IN  IF \A i \in 0..2 : corner(i).ok
        THEN {[tl |-> corner(0).val, tr |-> corner(1).val, bl |-> corner(2).val]}
        ELSE {}

\* EnabledEye::from_wire
FromWire(word) == CASE word = 1 -> {"left"} [] word = 2 -> {"right"} [] word = 3 -> {"both"} [] OTHER -> {}

\* parse_enabled_eye
EnabledEye(fields) == LET word == Read(fields, 1, U32) IN IF word.ok THEN FromWire(word.val[1]) ELSE {}

(***************************************************************************)
(* The messages, on their way.                                              *)
(***************************************************************************)
Messages ==
    [kind : {"gaze"}, body : Rows] \cup [kind : {"camera"}, body : Frames] \cup [kind : {"catalog"}, body : Catalogs]
    \cup [kind : {"area"}, body : Corners] \cup [kind : {"eye"}, body : EyeWords]

Written(msg) ==
    CASE msg.kind = "gaze"    -> RowFields(msg.body)
      [] msg.kind = "camera"  -> FrameFields(msg.body)
      [] msg.kind = "catalog" -> CatalogFields(msg.body)
      [] msg.kind = "area"    -> AreaFields(msg.body)
      [] OTHER                -> <<Field(U32, msg.body)>>

Decoded(msg, fields) ==
    CASE msg.kind = "gaze"    -> [cols |-> Columns(fields).cols, sample |-> Sample(fields)]
      [] msg.kind = "camera"  -> [frames |-> CameraFrame(fields)]
      [] msg.kind = "catalog" -> [streams |-> StreamCatalog(fields)]
      [] msg.kind = "area"    -> [corners |-> DisplayCorners(fields)]
      [] OTHER                -> [eye |-> EnabledEye(fields)]

WireInit == sent = {} /\ wire = <<>> /\ hurt = 0 /\ got = {}

Send ==
    /\ sent = {}
    /\ \E msg \in Messages : sent' = {msg} /\ wire' = Written(msg)
    /\ hurt' = 0 /\ got' = {}

\* the payload ends inside a field: what is left of it reads as nothing
CutShort ==
    /\ sent # {} /\ hurt = 0 /\ got = {}
    /\ \E k \in DOMAIN wire : hurt' = k /\ wire' = Append(SubSeq(wire, 1, k - 1), [type |-> 0, size |-> 0, val |-> 0])
    /\ UNCHANGED <<sent, got>>

\* a field of a type the decoder does not expect there
Unexpected ==
    /\ sent # {} /\ hurt = 0 /\ got = {}
    /\ \E k \in DOMAIN wire : hurt' = k /\ wire' = [wire EXCEPT ![k] = [type |-> 19, size |-> 4, val |-> 0]]
    /\ UNCHANGED <<sent, got>>

Receive ==
    /\ sent # {} /\ got = {}
    /\ \E msg \in sent : got' = {Decoded(msg, wire)}
    /\ UNCHANGED <<sent, wire, hurt>>

Ready == got # {} /\ sent' = {} /\ wire' = <<>> /\ hurt' = 0 /\ got' = {}

WireNext == Send \/ CutShort \/ Unexpected \/ Receive \/ Ready

WireSpec == WireInit /\ [][WireNext]_wireVars

(***************************************************************************)
(* Properties.                                                              *)
(***************************************************************************)
\* the columns that arrived whole before the damage and before any column
\* this build does not know
Whole(row) ==
    {n \in 0..Len(row) :
       /\ \A i \in 1..n : ColumnKind(row[i].id) # "none"
       /\ hurt = 0 \/ Len(RowFields(SubSeq(row, 1, n))) < hurt}
WholeColumns(row) == SubSeq(row, 1, CHOOSE n \in Whole(row) : \A k \in Whole(row) : k <= n)

\* A damaged gaze row costs the columns from the damage on and nothing else:
\* the decoder keeps every column that arrived whole, with the values it was
\* sent with, invents none, and shows as much as the inventory does.
RowSurvives ==
    \A msg \in sent, d \in got : msg.kind = "gaze" =>
       LET good == IF hurt = 1 THEN <<>> ELSE WholeColumns(msg.body)
       IN  /\ d.cols = good
           /\ \A i \in DOMAIN good : good[i].id \in Modelled /\ (\A j \in DOMAIN good : good[j].id = good[i].id => j <= i)
                                       => d.sample[good[i].id] = good[i].val
           /\ DOMAIN d.sample = {good[i].id : i \in DOMAIN good} \cap Modelled

\* A camera frame is either the picture that was sent, in its own shape, or
\* none: a damaged one is never read at another width.
PictureOrNone ==
    \A msg \in sent, d \in got : msg.kind = "camera" =>
       /\ Cardinality(d.frames) <= 1
       /\ \A f \in d.frames : f.width = msg.body.width /\ f.height = msg.body.height /\ f.pixels = msg.body.pixels
       /\ hurt = 0 => d.frames = {msg.body}

\* A reply says what was sent or nothing: the area is all three corners as
\* they were set, the catalog a prefix of the streams, the eye its word.
ReplyOrNothing ==
    \A msg \in sent, d \in got :
       CASE msg.kind = "area" ->
              LET a == msg.body
                  whole == {[tl |-> <<a.x, a.y + a.h, a.z>>, tr |-> <<a.x + a.w, a.y + a.h, a.z>>, bl |-> <<a.x, a.y, a.z>>]}
              IN  IF hurt = 0 \/ hurt > 12 THEN d.corners = whole ELSE d.corners = {}
         [] msg.kind = "catalog" ->
              /\ IsPrefix(d.streams, msg.body)
              /\ hurt = 0 => d.streams = msg.body
              /\ hurt > 2 => Len(d.streams) = (hurt - 3) \div 5
         [] msg.kind = "eye" -> d.eye = IF hurt = 0 THEN FromWire(msg.body) ELSE {}
         [] OTHER -> TRUE

\* What a decoder says is what the device sent, up to the damage.
DecodedIsSent == RowSurvives /\ PictureOrNone /\ ReplyOrNothing
================================================================================
