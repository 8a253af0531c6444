------------------------------- MODULE Autostart ------------------------------
(***************************************************************************)
(* Starting at login: the switch (crates/tobii-gtk/src/autostart.rs, lib.rs  *)
(* autostart_switch), the entry it writes and the reader that takes the      *)
(* program back out of it (crates/tobii-config/src/autostart.rs), while an   *)
(* updater replaces the running program, its file is removed, and the        *)
(* desktop's own settings edit the entry.                                    *)
(*                                                                           *)
(* A path is a sequence of characters, each one of: "a" (an ordinary one),   *)
(* "space", "$" (for the reserved $, ` and a quote's company), "dq" (a       *)
(* double quote), "%", "bs" (a backslash), "#" (reserved outside quotes).    *)
(***************************************************************************)
EXTENDS Naturals, Sequences, SequencesExt

CONSTANTS Programs,     \* where a copy of the program may be installed
          MaxOutside

VARIABLES exe,          \* where the running program's file is, as installed
          image,        \* "there", "replaced" or "removed" at that path
          files,        \* the paths a program can be started from
          entry,        \* the autostart entry: {} or one record
          scratch,      \* the temporary beside it: {} or one record
          switch,       \* where the switch stands
          wanted,       \* what the last save that succeeded asked for: {} or {b}
          events

autoVars == <<exe, image, files, entry, scratch, switch, wanted, events>>

(***************************************************************************)
(* Exec: quoting and reading back.                                          *)
(***************************************************************************)
\* a path written as it is, with the quotes around it and nothing else
MutQuoted(ch) == <<ch>>

\* quote_exec, one character: the argument's escape, and each backslash of it
\* doubled because the line is a desktop-entry value
Quoted(ch) ==
    CASE ch = "bs"          -> <<"bs", "bs", "bs", "bs">>
      [] ch \in {"dq", "$"} -> <<"bs", "bs", ch>>
      [] ch = "%"           -> <<"%", "%">>
      [] OTHER              -> <<ch>>

QuoteExec(path) == <<"dq">> \o FlattenSeq([i \in DOMAIN path |-> Quoted(path[i])]) \o <<"dq">>

Undefined == [ok |-> FALSE, args |-> <<>>]

\* unescape_value: a backslash pairs with the character after it; only the
\* escapes of the character set in use appear here
UnescapeValue(v) ==
    LET read[i \in 1..(Len(v) + 2)] ==
          IF i > Len(v) THEN [ok |-> TRUE, text |-> <<>>]
          ELSE LET Then(ch, j) == LET rest == read[j] IN [rest EXCEPT !.text = <<ch>> \o @]
               IN  IF v[i] # "bs" THEN Then(v[i], i + 1)
                   ELSE IF i < Len(v) /\ v[i + 1] = "bs" THEN Then("bs", i + 2)
                   ELSE [ok |-> FALSE, text |-> <<>>]
    IN  read[1]

\* split_arguments: the state after each character; `skip` is the character a
\* backslash inside quotes escapes
Split(s, ch) ==
    CASE ~s.ok -> s
      [] s.ok /\ s.escape ->
           IF ch \in {"dq", "$", "bs"} THEN [s EXCEPT !.arg = Append(@, ch), !.escape = FALSE]
           ELSE [s EXCEPT !.ok = FALSE]
      [] s.ok /\ ~s.escape ->
           CASE ch = "dq"                     -> [s EXCEPT !.quoted = ~@, !.open = TRUE]
             [] ch = "bs" /\ s.quoted         -> [s EXCEPT !.escape = TRUE]
             [] ch = "$" /\ s.quoted          -> [s EXCEPT !.ok = FALSE]
             [] ch \in {"bs", "$", "#"} /\ ~s.quoted -> [s EXCEPT !.ok = FALSE]
             [] ch = "space" /\ ~s.quoted     -> IF s.open THEN [s EXCEPT !.args = Append(@, s.arg), !.arg = <<>>, !.open = FALSE]
                                                 ELSE s
             [] OTHER                         -> [s EXCEPT !.arg = Append(@, ch), !.open = TRUE]

\* arg.replace("%%", "%")
Percent(arg) ==
    LET read[i \in 1..(Len(arg) + 2)] ==
          IF i > Len(arg) THEN <<>>
          ELSE IF arg[i] = "%" /\ i < Len(arg) /\ arg[i + 1] = "%" THEN <<"%">> \o read[i + 2]
          ELSE <<arg[i]>> \o read[i + 1]
    IN  read[1]

SplitArguments(v) ==
    LET end == FoldLeft(Split, [ok |-> TRUE, args |-> <<>>, arg |-> <<>>, quoted |-> FALSE, open |-> FALSE, escape |-> FALSE],
                        v \o <<"space">>)
    IN  IF ~end.ok \/ end.quoted \/ end.escape \/ end.args = <<>> THEN Undefined
        ELSE IF end.args[1] = <<>> THEN Undefined
        ELSE [ok |-> TRUE, args |-> [i \in DOMAIN end.args |-> Percent(end.args[i])]]

\* exec_arguments of an entry's one Exec line
ExecArguments(exec) ==
    LET value == UnescapeValue(exec) IN IF value.ok THEN SplitArguments(value.text) ELSE Undefined

\* entry_text: the Exec line, and the desktop's own on/off
EntryText(path) == [exec |-> QuoteExec(path) \o <<"space", "a">>, off |-> FALSE]

(***************************************************************************)
(* The switch.                                                              *)
(***************************************************************************)
\* what current_exe reads is what the entry runs, ` (deleted)` and all
MutEntryExec == IF image = "there" THEN {exe} ELSE {exe \o <<"space", "#">>}

\* entry_exec: a running copy that was replaced names the path it was replaced
\* at, one that was removed is refused
EntryExec == IF image = "removed" THEN {} ELSE {exe}

IsEnabled == \E e \in entry : ~e.off

AutoInit ==
    /\ exe \in Programs /\ image = "there" /\ files = Programs
    /\ entry = {} /\ scratch = {} /\ switch = IsEnabled /\ wanted = {} /\ events = 0

\* set_enabled(true): written beside the entry ...
TurnOn ==
    /\ ~switch /\ scratch = {} /\ EntryExec # {}
    /\ scratch' = {EntryText(path) : path \in EntryExec}
    /\ UNCHANGED <<exe, image, files, entry, switch, wanted, events>>

\* ... and renamed over it
EntryRenamed ==
    /\ scratch # {} /\ entry' = scratch /\ scratch' = {}
    /\ switch' = TRUE /\ wanted' = {TRUE}
    /\ UNCHANGED <<exe, image, files, events>>

\* a save that fails: the home is read-only, or the program was removed; the
\* switch stays where it was
SaveFails ==
    /\ ~switch /\ scratch' = {}
    /\ scratch # {} \/ EntryExec = {}
    /\ UNCHANGED <<exe, image, files, entry, switch, wanted, events>>

TurnOff ==
    /\ switch /\ scratch = {}
    /\ entry' = {} /\ switch' = FALSE /\ wanted' = {FALSE}
    /\ UNCHANGED <<exe, image, files, scratch, events>>

Outside == events < MaxOutside /\ events' = events + 1

\* the desktop's autostart page edits the entry
DesktopEdits ==
    /\ Outside /\ entry # {}
    /\ entry' = {[e EXCEPT !.off = ~@] : e \in entry}
    /\ wanted' = {}
    /\ UNCHANGED <<exe, image, files, scratch, switch>>

\* the updater renames a new copy over the running one, or it is removed (not
\* between the two steps of a save, which are microseconds apart)
Replace ==
    /\ Outside /\ image # "removed" /\ image' = "replaced"
    /\ UNCHANGED <<exe, files, entry, scratch, switch, wanted>>

RemoveProgram ==
    /\ Outside /\ scratch = {} /\ image' = "removed" /\ files' = files \ {exe}
    /\ wanted' = IF wanted = {TRUE} THEN {} ELSE wanted
    /\ UNCHANGED <<exe, entry, scratch, switch>>

\* the hub is closed and another copy started
Restart ==
    /\ Outside /\ files # {} /\ exe' \in files /\ image' = "there"
    /\ scratch' = {} /\ switch' = IsEnabled
    /\ UNCHANGED <<files, entry, wanted>>

AutoNext ==
    \/ TurnOn \/ EntryRenamed \/ SaveFails \/ TurnOff
    \/ DesktopEdits \/ Replace \/ RemoveProgram \/ Restart

AutoSpec == AutoInit /\ [][AutoNext]_autoVars

(***************************************************************************)
(* Properties.                                                              *)
(***************************************************************************)
\* What a login would do is what the switch was last told, until the desktop
\* or a removal says otherwise: an entry it wrote starts a program that is
\* there, spelled however its path may be, and off starts nothing.
LoginDoesAsTold ==
    /\ wanted = {TRUE} =>
         \E e \in entry : LET read == ExecArguments(e.exec)
                          IN  ~e.off /\ read.ok /\ Len(read.args) = 2 /\ read.args[1] \in files
    /\ wanted = {FALSE} => entry = {}

(***************************************************************************)
(* Why the switch is right: a running copy that was not removed is where it *)
(* was started from, what is about to become the entry is its path, and     *)
(* what was asked for last is what the entry says.                          *)
(***************************************************************************)
StillThere == files \subseteq Programs /\ (image # "removed" => exe \in files)
AboutToBe == scratch # {} => exe \in files /\ scratch = {EntryText(exe)}
EntryIsAsTold ==
    /\ wanted = {TRUE} => \E path \in files : entry = {EntryText(path)}
    /\ wanted = {FALSE} => entry = {}
AutoInv == StillThere /\ AboutToBe /\ EntryIsAsTold

\* what was quoted is read back: of each path, whichever characters it has
AutoAssumption ==
    \A path \in Programs :
        LET read == ExecArguments(EntryText(path).exec)
        IN  read.ok /\ Len(read.args) = 2 /\ read.args[1] = path
================================================================================
