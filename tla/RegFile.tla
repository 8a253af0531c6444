------------------------------- MODULE RegFile --------------------------------
(***************************************************************************)
(* A prefix's user.reg read without running wine:                           *)
(* crates/tobii-config/src/userreg.rs, held against what wine itself loads  *)
(* from the same file.                                                      *)
(*                                                                          *)
(* The file is a sequence of lines.  A section line names a key: ours, ours *)
(* with one trailing separator, another one, or one that cannot be decoded. *)
(* A value line has a name, a form and the characters between its quotes,   *)
(* still escaped.  Wine writes some of the lines and its user writes others *)
(* by hand, so the lines are appended in any order.                         *)
(*                                                                          *)
(* A character is one of: BS (a backslash), QT (a quote), "a" (a hex digit),*)
(* "0" (an octal digit), "z" (neither), "u" (u-umlaut, U+00FC), "nl" (a     *)
(* line break) and "bell" (another control character).                      *)
(***************************************************************************)
EXTENDS Naturals, Sequences, FiniteSets, SequencesExt

CONSTANTS Values,       \* the values wine may be asked to store, as characters
          HandMade,     \* value bodies only a person would write
          Forms,        \* how a hand-made value line is spelled
          MaxLines

VARIABLES header,       \* is the first line wine's own
          lines,
          asked         \* what the last lookup answered, {} or one record

regVars == <<header, lines, asked>>

BS == "bs"
QT == "qt"

HexDigits == {"a", "0", "f", "c"}

OctalDigits == {"0"}

(***************************************************************************)
(* What wine writes.                                                        *)
(***************************************************************************)
\* one character, escaped; `next` is the character after it or "end"
EscapedChar(ch, next) ==
    CASE ch = BS     -> <<BS, BS>>
      [] ch = QT     -> <<BS, QT>>
      [] ch = "nl"   -> <<BS, "n">>
      [] ch = "bell" -> <<BS, "b">>
      [] ch = "u"    -> <<BS, "x">> \o (IF next \in HexDigits THEN <<"0", "0", "f", "c">> ELSE <<"f", "c">>)
      [] OTHER       -> <<ch>>

Escape(text) ==
    FoldLeft(LAMBDA out, i : out \o EscapedChar(text[i], IF i < Len(text) THEN text[i + 1] ELSE "end"),
             <<>>, [i \in DOMAIN text |-> i])

(***************************************************************************)
(* Reading it back.                                                         *)
(***************************************************************************)
\* where `end` first stands in b without a backslash in front of it
EndOfUnescaped(b, end) ==
    LET escaped(i) == Cardinality({j \in 1..(i - 1) : b[j] = BS
                                      /\ \A k \in j..(i - 1) : b[k] = BS}) % 2 = 1
        ends == {i \in DOMAIN b : b[i] = end /\ ~escaped(i)}
    IN  {i \in ends : \A j \in ends : i <= j}

Plain == {BS, QT, "n", "b"}

Meaning(ch) == CASE ch = "n" -> "nl" [] ch = "b" -> "bell" [] OTHER -> ch

\* digits as a number, no leading zeros
Stripped(digits) == SelectInSeq(digits, LAMBDA d : d # "0")

CodePoint(digits) ==
    LET first == Stripped(digits)
        num   == IF first = 0 THEN <<>> ELSE SubSeq(digits, first, Len(digits))
    IN  CASE num = <<"f", "c">> -> "u"
          [] num = <<>>         -> "nul"
          [] OTHER              -> "other"

\* at most three digits, so an escape padded to four runs on into the text
MutMost(radix) == 3

\* how many digits an escape of this radix may hold
Most(radix) == IF radix = 16 THEN 4 ELSE 3

Digits(radix) == IF radix = 16 THEN HexDigits ELSE OctalDigits

\* escape_digits: the digits of a numeric escape beginning at i
Greedy(s, i, radix) ==
    LET n == Most(radix)
        runs == {k \in 0..n : i + k - 1 <= Len(s) /\ \A j \in i..(i + k - 1) : s[j] \in Digits(radix)}
    IN  CHOOSE k \in runs : \A l \in runs : l <= k

\* unescape: [ok, text]
Unescape(s) ==
    LET step[i \in 1..(Len(s) + 5)] ==
          IF i > Len(s) THEN [ok |-> TRUE, text |-> <<>>]
          ELSE LET Then(ch, j) == LET rest == step[j] IN [rest EXCEPT !.text = <<ch>> \o @]
               IN  CASE s[i] # BS -> Then(s[i], i + 1)
                     [] s[i] = BS /\ i = Len(s) -> [ok |-> FALSE, text |-> <<>>]
                     [] s[i] = BS /\ i < Len(s) /\ s[i + 1] \in Plain -> Then(Meaning(s[i + 1]), i + 2)
                     [] s[i] = BS /\ i < Len(s) /\ s[i + 1] = "x" ->
                          LET k == Greedy(s, i + 2, 16)
                          IN  IF k = 0 THEN [ok |-> FALSE, text |-> <<>>]
                              ELSE Then(CodePoint(SubSeq(s, i + 2, i + 1 + k)), i + 2 + k)
                     [] s[i] = BS /\ i < Len(s) /\ s[i + 1] \in OctalDigits ->
                          LET k == Greedy(s, i + 1, 8)
                          IN  Then(CodePoint(SubSeq(s, i + 1, i + k)), i + 1 + k)
                     [] OTHER -> [ok |-> FALSE, text |-> <<>>]
    IN  step[1]

Absent == [is |-> "absent", text |-> <<>>]

Rejected == [is |-> "rejected", text |-> <<>>]

Control == {"nl", "bell", "nul"}

\* read_string: the body after its opening quote, to the end of the line
ReadString(body) ==
    LET close == EndOfUnescaped(body, QT)
    IN  IF close = {} THEN Rejected
        ELSE LET i == CHOOSE i \in close : TRUE
                 value == Unescape(SubSeq(body, 1, i - 1))
             IN  IF \/ \E j \in (i + 1)..Len(body) : body[j] # "space"
                    \/ ~value.ok \/ value.text = <<>>
                    \/ \E j \in DOMAIN value.text : value.text[j] \in Control
                 THEN Rejected ELSE [is |-> "text", text |-> value.text]

\* read_assignment: str(1) is a string spelled the long way; every other type
\* is a value this program never writes
ReadAssignment(line) == IF line.form \in {"string", "str(1)"} THEN ReadString(line.body) ELSE Rejected

KeyNamesMatch(key) == key \in {"ours", "ours with a trailing separator"}

\* the scan: [inside, found]
AfterLine(at, line) ==
    CASE line.is = "section" -> [at EXCEPT !.inside = KeyNamesMatch(line.key)]
      [] line.is = "value" /\ ~at.inside -> at
      [] line.is = "value" /\ at.inside ->
           CASE at.stop                  -> at
             [] ~at.stop /\ line.name = "garbled" -> [at EXCEPT !.stop = TRUE, !.found = Rejected]
             [] ~at.stop /\ line.name = "ours"    -> [at EXCEPT !.found = ReadAssignment(line)]
             [] OTHER -> at

Scanned(all) == FoldLeft(AfterLine, [inside |-> FALSE, stop |-> FALSE, found |-> Absent], all)

Lookup(all) == IF ~header THEN Rejected ELSE Scanned(all).found

(***************************************************************************)
(* What the game gets: wine's loader applies the file top to bottom, so the *)
(* last assignment stands.  `holds` is what the line means to wine: {} when *)
(* the line assigns nothing wine can load.                                  *)
(***************************************************************************)
WineLoads(all) ==
    LET InOurs(i) == LET s == {j \in 1..(i - 1) : all[j].is = "section"}
                     IN  s # {} /\ KeyNamesMatch(all[CHOOSE j \in s : \A k \in s : k <= j].key)
        ours == {i \in DOMAIN all : all[i].is = "value" /\ all[i].name = "ours" /\ InOurs(i)
                                      /\ all[i].holds # {}}
    IN  IF ~header \/ ours = {} THEN {} ELSE all[CHOOSE i \in ours : \A j \in ours : j <= i].holds

(***************************************************************************)
(* The steps.                                                               *)
(***************************************************************************)
Section(key) == [is |-> "section", key |-> key]

Value(name, form, body, holds) ==
    [is |-> "value", name |-> name, form |-> form, body |-> body, holds |-> holds]

RegInit == header \in BOOLEAN /\ lines = <<>> /\ asked = {}

Add(line) ==
    /\ Len(lines) < MaxLines
    /\ lines' = Append(lines, line)
    /\ asked' = {}
    /\ UNCHANGED header

AddSection == \E key \in {"ours", "ours with a trailing separator", "another", "garbled"} : Add(Section(key))

\* wine stores a string, or a value of another type
WineStores ==
    \/ \E v \in Values : Add(Value("ours", "string", Escape(v) \o <<QT>>, {v}))
    \/ \E form \in {"dword", "hex", "str(2)"} : Add(Value("ours", form, <<>>, {<<"of another type">>}))
    \/ Add(Value("another", "string", <<"z", QT>>, {<<"z">>}))

\* a person edits the file: what wine makes of the line is only claimed for
\* the spellings that differ from wine's own in nothing but space
PersonEdits ==
    \/ \E v \in Values : Add(Value("ours", "str(1)", Escape(v) \o <<QT, "space">>, {v}))
    \/ \E b \in HandMade, form \in Forms : Add(Value("ours", form, b, {<<"unclaimed">>}))
    \/ Add(Value("garbled", "string", <<"z", QT>>, {<<"unclaimed">>}))

Look == asked = {} /\ asked' = {Lookup(lines)} /\ UNCHANGED <<header, lines>>

RegNext == AddSection \/ WineStores \/ PersonEdits \/ Look

RegSpec == RegInit /\ [][RegNext]_regVars

(***************************************************************************)
(* Properties.                                                              *)
(***************************************************************************)
\* A value the game gets out of the prefix is never reported as an absence,
\* and a value that is reported is, to the last character, the one the game
\* gets: an escape that runs on, a second assignment further down or a key
\* spelled with a trailing separator never makes it another one.
ReadsWhatWineReads ==
    \A a \in asked :
        /\ a.is = "absent" => WineLoads(lines) = {}
        /\ (a.is = "text" /\ WineLoads(lines) # {<<"unclaimed">>}) => WineLoads(lines) = {a.text}
================================================================================
