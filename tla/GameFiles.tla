------------------------------ MODULE GameFiles ------------------------------
(***************************************************************************)
(* What the page of a game says about the game's own settings: the XML     *)
(* reader and the two formats built on it (tobii-gameconf: xml.rs,         *)
(* attrs.rs, binds.rs), and the rows the page makes of the answers         *)
(* (game_setup.rs: run_check).  The game is another process and saves      *)
(* these files whenever it likes; a reading is a listing and then one file *)
(* after another.                                                          *)
(*                                                                         *)
(* A document is its sequence of constructs: tags, text, and what a reader *)
(* passes over.  A construct that is cut short ends the reading, so a file *)
(* half written is a prefix of its document.                               *)
(***************************************************************************)
EXTENDS Integers, Sequences, SequencesExt, FiniteSetsExt

CONSTANTS
    Documents,    \* [file name -> the documents the game may save there]
    Setting, Wants,  \* the profile's check: what it reads and what that should be
    Formats,      \* the formats a check names
    Cases,        \* words that differ only in case, in pairs
    MaxSaves,     \* files the game saves
    MaxChecks     \* times the page looks

VARIABLES
    disk,      \* [file name -> what is in it: {} or {document, how far}]
    saving,    \* the files the game is writing
    reader,    \* the page's reading, and where it is
    rows,      \* what the page says
    saves, checks,
    had        \* history: what was on disk, whole, since this reading began

fileVars == <<disk, saving, reader, rows, saves, checks, had>>

-----------------------------------------------------------------------------
(* Lookup: not there, there, or there and not to be shown. *)
Absent == [is |-> "Absent", text |-> ""]
Text(v) == [is |-> "Text", text |-> v]
Rejected == [is |-> "Rejected", text |-> ""]

(* attributes: no name twice; each is a name and a value, and a value with   *)
(* an entity or a character nobody can show is rejected where it is asked.   *)
GoodAttributes(as) == \A i, j \in DOMAIN as : as[i].name = as[j].name => i = j
Decode(raw) == IF raw = "&" THEN Rejected ELSE Text(raw)
Attribute(e, name) ==
    LET hits == SelectSeq(e.attrs, LAMBDA a : a.name = name)
    IN IF hits = <<>> THEN Absent ELSE Decode(hits[1].value)

(* xml::parse, one construct at a time: `open` are the tags to be closed.    *)
Fresh == [ok |-> TRUE, open |-> <<>>, root |-> {}, children |-> <<>>, closed |-> FALSE]
Wrong(st) == [st EXCEPT !.ok = FALSE]
StartTag(st, c) ==
    IF ~GoodAttributes(c.attrs) \/ (st.open = <<>> /\ (st.root # {} \/ st.closed)) THEN Wrong(st)
    ELSE [st EXCEPT
            !.root = IF st.open = <<>> THEN {c} ELSE @,
            !.children = IF Len(st.open) = 1 THEN Append(@, c) ELSE @,
            !.open = IF c.empty THEN @ ELSE Append(@, c.name),
            !.closed = @ \/ (c.empty /\ st.open = <<>>)]
EndTag(st, c) ==
    IF st.open = <<>> \/ Last(st.open) # c.name THEN Wrong(st)
    ELSE [st EXCEPT !.open = Front(@), !.closed = @ \/ Len(st.open) = 1]
Skipped(st, c) == IF c.name \in {"comment", "utf-8", "doctype"} THEN st ELSE Wrong(st)
Construct(st, c) ==
    IF ~st.ok THEN st
    ELSE CASE c.is = "start" -> StartTag(st, c)
           [] c.is = "end" -> EndTag(st, c)
           [] c.is = "skip" -> Skipped(st, c)
           [] c.is = "text" -> IF st.open = <<>> THEN Wrong(st) ELSE st
           [] OTHER -> Wrong(st)

(* A fault: an element that is never closed goes unnoticed. *)
MutWhole(st) == st.ok /\ st.root # {}

Whole(st) == st.ok /\ st.open = <<>> /\ st.root # {}
XmlParse(doc) ==
    LET st == FoldLeft(Construct, Fresh, doc) IN
    IF Whole(st) THEN {[root |-> CHOOSE r \in st.root : TRUE, children |-> st.children]} ELSE {}

-----------------------------------------------------------------------------
(* attrs::parse: pairs under <Attributes>. *)
SameBarCase(a, b) == {a, b} \in Cases
AttrsValue(document, setting) ==
    LET pairs == SelectSeq(document.children, LAMBDA e : e.name = "Attr")
        names == [i \in DOMAIN pairs |-> Attribute(pairs[i], "name")]
        exact == {i \in DOMAIN pairs : names[i] = Text(setting)}
    IN IF \E i \in DOMAIN pairs : names[i].is # "Text" THEN Rejected
       ELSE IF exact = {}
       THEN IF \E i \in DOMAIN pairs : SameBarCase(names[i].text, setting) THEN Rejected ELSE Absent
       ELSE IF Cardinality(exact) > 1 THEN Rejected
       ELSE LET v == Attribute(pairs[CHOOSE i \in exact : TRUE], "value")
            IN IF v = Absent THEN Rejected ELSE v
AttrsParse(doc, setting) ==
    LET d == XmlParse(doc) IN
    IF \A x \in d : x.root.name # "Attributes" THEN Rejected
    ELSE AttrsValue(CHOOSE x \in d : TRUE, setting)

(* binds::parse: the preset's own name, and the setting under <Root>. *)
BindsValue(document, setting) ==
    LET found == SelectSeq(document.children, LAMBDA e : e.name = setting)
    IN IF found = <<>> THEN Absent
       ELSE IF Len(found) > 1 \/ Attribute(found[1], "Value") = Absent THEN Rejected
       ELSE Attribute(found[1], "Value")
BindsParse(doc, setting) ==
    LET d == XmlParse(doc) IN
    IF d = {} THEN [name |-> Rejected, setting |-> Rejected]
    ELSE LET x == CHOOSE y \in d : TRUE IN
         [name |-> Attribute(x.root, "PresetName"),
          setting |-> IF x.root.name = "Root" THEN BindsValue(x, setting) ELSE Rejected]

(* start: the names a StartPreset file holds, once each, in their order. *)
StartNames(lines) ==
    LET names == SelectSeq([i \in DOMAIN lines |-> lines[i].name], LAMBDA n : n # "")
        once == FoldLeft(LAMBDA out, n : IF Contains(out, n) THEN out ELSE Append(out, n), <<>>, names)
    IN IF Contains(names, "/") THEN <<>> ELSE once

-----------------------------------------------------------------------------
(* A directory's names: a start file has a schema (0 for none), a preset and *)
(* anything else have not.                                                   *)
Files == DOMAIN Documents
Starts(names) == {f \in names : f.kind = "start"}
Presets(names) == {f \in names : f.kind = "binds"}
NewestStart(names) == {f \in Starts(names) : \A g \in Starts(names) : g.schema <= f.schema}

There == {f \in Files : disk[f] # {}}
Now(f) == LET x == CHOOSE y \in disk[f] : TRUE IN SubSeq(x.doc, 1, x.upto)
Idle == [at |-> "idle", start |-> {}, names |-> <<>>, todo |-> {}, docs |-> {}]

FilesInit ==
    /\ disk \in [Files -> {{}}] \cup
         {[f \in Files |-> {[doc |-> d[f], upto |-> Len(d[f])]}] :
             d \in {g \in [Files -> UNION {Documents[f] : f \in Files}] :
                      \A f \in Files : g[f] \in Documents[f]}}
    /\ saving = {} /\ reader = Idle /\ rows = {} /\ saves = 0 /\ checks = 0 /\ had = {}

(* What a file says of the setting while it is whole. *)
Says(f, doc) ==
    IF f.kind = "binds" THEN BindsParse(doc, Setting).setting
    ELSE IF f.kind = "attributes" THEN AttrsParse(doc, Setting) ELSE Absent
WholeNow == {<<f, Says(f, Now(f))>> : f \in There \ saving}

-----------------------------------------------------------------------------
(* The game saves a file: emptied, and filled a construct at a time. *)
GameOpens(f) ==
    /\ saves < MaxSaves /\ saves' = saves + 1 /\ f \notin saving
    /\ \E d \in Documents[f] : disk' = [disk EXCEPT ![f] = {[doc |-> d, upto |-> 0]}]
    /\ saving' = saving \cup {f}
    /\ UNCHANGED <<reader, rows, checks, had>>
GameWrites(f) ==
    /\ f \in saving
    /\ LET x == CHOOSE y \in disk[f] : TRUE
           n == x.upto + 1
       IN /\ disk' = [disk EXCEPT ![f] = {[x EXCEPT !.upto = n]}]
          /\ saving' = IF n = Len(x.doc) THEN saving \ {f} ELSE saving
          /\ had' = IF n = Len(x.doc) /\ reader.at # "idle" THEN had \cup {<<f, Says(f, x.doc)>>} ELSE had
    /\ UNCHANGED <<reader, rows, saves, checks>>

-----------------------------------------------------------------------------
(* run_check. *)
Row(preset, answer, text) == [preset |-> preset, answer |-> answer, text |-> text]
FromLookup(l) == IF l.is = "Rejected" THEN "NotReadBack" ELSE l.is
Ends(rs) == rows' = rs /\ reader' = Idle
StartCheck ==
    /\ reader.at = "idle" /\ checks < MaxChecks /\ checks' = checks + 1
    /\ had' = WholeNow
    /\ \/ Ends({Row("", "NoPrefix", "")})
       \/ \E format \in Formats :
            IF format \notin {"attributes", "binds"} THEN Ends({Row("", "UnknownFormat", "")})
            ELSE rows' = {} /\ reader' = [Idle EXCEPT !.at = format]
    /\ UNCHANGED <<disk, saving, saves>>

(* attrs::read *)
ReadAttributes ==
    /\ reader.at = "attributes"
    /\ LET f == CHOOSE g \in Files : g.kind = "attributes" IN
       IF disk[f] = {} THEN Ends({Row("", "Unwritten", "")})
       ELSE LET v == AttrsParse(Now(f), Setting)
            IN Ends({Row("", FromLookup(v), v.text)})
    /\ UNCHANGED <<disk, saving, saves, checks, had>>

(* binds::read: the listing, ... *)
ListDirectory ==
    /\ reader.at = "binds"
    /\ IF Starts(There) = {} /\ Presets(There) = {} THEN Ends({Row("", "Unwritten", "")})
       ELSE IF Cardinality(NewestStart(There)) > 1 THEN Ends({Row("", "Unreadable", "")})
       ELSE /\ reader' = [at |-> IF Starts(There) = {} THEN "presets" ELSE "start",
                          start |-> NewestStart(There), names |-> <<>>,
                          todo |-> Presets(There), docs |-> {}]
            /\ UNCHANGED rows
    /\ UNCHANGED <<disk, saving, saves, checks, had>>
(* ... the start file that was listed, ... *)
ReadStart ==
    /\ reader.at = "start"
    /\ LET f == CHOOSE g \in reader.start : TRUE
           names == StartNames(Now(f))
       IN IF names = <<>> THEN Ends({Row("", "Unreadable", "")})
          ELSE reader' = [reader EXCEPT !.at = "presets", !.names = names] /\ UNCHANGED rows
    /\ UNCHANGED <<disk, saving, saves, checks, had>>
(* ... each preset, in the order of the names ... *)
ReadDocument ==
    /\ reader.at = "presets" /\ reader.todo # {}
    /\ LET f == CHOOSE g \in reader.todo : \A h \in reader.todo : g.order <= h.order
           preset == BindsParse(Now(f), Setting)
       IN IF preset.name.is # "Text" THEN Ends({Row("", "Unreadable", "")})
          ELSE /\ reader' = [reader EXCEPT !.todo = @ \ {f},
                                !.docs = @ \cup {[file |-> f, name |-> preset.name.text,
                                                  setting |-> preset.setting]}]
               /\ UNCHANGED rows
    /\ UNCHANGED <<disk, saving, saves, checks, had>>
(* ... and a row for each name in use, or for each preset that is shipped.   *)
Found(name) ==
    LET matches == {d \in reader.docs : d.name = name} IN
    IF matches = {}
    THEN Row(name, IF \E d \in reader.docs : SameBarCase(d.name, name) THEN "Unreadable" ELSE "Unwritten", "")
    ELSE IF Cardinality(matches) > 1 THEN Row(name, "Unreadable", "")
    ELSE LET d == CHOOSE e \in matches : TRUE IN Row(name, FromLookup(d.setting), d.setting.text)
Bindings ==
    /\ reader.at = "presets" /\ reader.todo = {}
    /\ Ends(IF reader.start = {}
            THEN {Row(d.name, FromLookup(d.setting), d.setting.text) : d \in reader.docs}
            ELSE {Found(n) : n \in ToSet(reader.names)})
    /\ UNCHANGED <<disk, saving, saves, checks, had>>

(* row_text, verdict: what a row says of the setting. *)
Verdict(r) ==
    IF r.answer # "Text" THEN r.answer
    ELSE IF r.text = Wants THEN "Matches"
    ELSE IF SameBarCase(r.text, Wants) THEN "OnlyCase" ELSE "Differs"

FilesNext ==
    \/ \E f \in Files : GameOpens(f) \/ GameWrites(f)
    \/ StartCheck \/ ReadAttributes \/ ListDirectory \/ ReadStart \/ ReadDocument \/ Bindings
FilesSpec == FilesInit /\ [][FilesNext]_fileVars

-----------------------------------------------------------------------------
(* A row that says what a setting is, or that it is not set, says what a     *)
(* whole file said while the page was looking: a game that saves meanwhile   *)
(* costs the answer, never its truth.                                        *)
RowsWereTrue ==
    \A r \in rows :
        CASE Verdict(r) \in {"Matches", "OnlyCase", "Differs"} -> \E h \in had : h[2] = Text(r.text)
          [] Verdict(r) = "Absent" -> \E h \in had : h[2] = Absent
          [] OTHER -> TRUE
=============================================================================
