---------------------------- MODULE Diagnostics ----------------------------
(***************************************************************************)
(* The log and the report an issue asks for: tobii-diagnostics/src/log.rs  *)
(* (write_line, append, recent, tail_file, utc_now), lib.rs (report and    *)
(* what it says), the hub's two buttons (tobii-gtk/src/lib.rs) and `tobii  *)
(* debug` (tobii-cli/src/main.rs). Several threads of the hub log; the     *)
(* command line only reports.                                              *)
(*                                                                         *)
(* A log line is its number, a text a sequence of words, a path's prefix   *)
(* one word; a line counts one towards the size of the file.               *)
(***************************************************************************)
EXTENDS Integers, Sequences, FiniteSets, SequencesExt

CONSTANTS Threads,     \* the hub's threads that log
          Ring,        \* RING, the lines kept in memory
          Cap,         \* MAX_FILE_BYTES
          Keep,        \* KEEP of recent_log
          Texts,       \* the texts a line may carry
          Home,        \* the spelling of $HOME, as words
          Setups,      \* the settings and machines a report may be about: [config, measured]
          Days,        \* days since 1970 a line may be written on
          Reporters,   \* processes that may ask for a report at the same time
          MaxLines     \* bound on the lines logged

VARIABLES file,     \* the log file: line numbers; 0 is a notice, -1 bytes that are no text
          ring,     \* RECENT
          logger,   \* per thread: where write_line is, its line, what it read
          text,     \* history: the text of each line
          salt,     \* the report's salt file: {} when absent or too short, else {the salt}
          asker,    \* per reporter: where report is, and the salt it has
          report,   \* the last report: {} or {a record}
          ids,      \* history: the salts the monitor was hashed with
          day       \* today

diagVars == <<file, ring, logger, text, salt, asker, report, ids, day>>
Last2(s, n) == SubSeq(s, IF Len(s) > n THEN Len(s) - n + 1 ELSE 1, Len(s))
-----------------------------------------------------------------------------
(* utc_now: the civil date of a day, by eras of 400 years from March 1st. *)
UtcNow(days) ==
    LET z == days + 719468
        era == z \div 146097
        doe == z % 146097
        yoe == (doe - (doe \div 1460) + (doe \div 36524) - (doe \div 146096)) \div 365
        doy == doe - (365 * yoe + (yoe \div 4) - (yoe \div 100))
        mp == (5 * doy + 2) \div 153
        m == IF mp < 10 THEN mp + 3 ELSE mp - 9
    IN  [d |-> doy - ((153 * mp + 2) \div 5) + 1, m |-> m,
         y |-> yoe + era * 400 + (IF m <= 2 THEN 1 ELSE 0)]

(* The calendar itself, to hold utc_now against. *)
Leap(y) == (y % 4 = 0 /\ y % 100 # 0) \/ y % 400 = 0
MonthLength(y, m) == CASE m = 2 -> IF Leap(y) THEN 29 ELSE 28
                       [] m \in {4, 6, 9, 11} -> 30
                       [] OTHER -> 31
DayAfter(t) == CASE t.d < MonthLength(t.y, t.m) -> [t EXCEPT !.d = @ + 1]
                 [] t.d >= MonthLength(t.y, t.m) /\ t.m < 12 -> [y |-> t.y, m |-> t.m + 1, d |-> 1]
                 [] OTHER -> [y |-> t.y + 1, m |-> 1, d |-> 1]

(* tilde: every spelling of the home it can name, wherever it appears, and *)
(* then whatever is shaped like a home (fold_home_shaped).                 *)
HomePrefixes == {"/home/", "/var/home/", "/media/", "/run/media/"}
Stops == {"/", " "}
HomeAt(t, i) == i + Len(Home) - 1 <= Len(t) /\ SubSeq(t, i, i + Len(Home) - 1) = Home
Renamed(t) ==
    LET f[i \in 1 .. Len(t) + 1] ==
          IF i > Len(t) THEN <<>>
          ELSE IF HomeAt(t, i) THEN <<"~">> \o f[i + Len(Home)]
          ELSE <<t[i]>> \o f[i + 1]
    IN  f[1]
EndOfName(t, i) == CHOOSE j \in i .. Len(t) + 1 :
                      /\ j = Len(t) + 1 \/ t[j] \in Stops
                      /\ \A k \in i .. j - 1 : t[k] \notin Stops
FoldHomeShaped(t) ==
    LET f[i \in 1 .. Len(t) + 1] ==
          IF i > Len(t) THEN <<>>
          ELSE IF t[i] \in HomePrefixes /\ EndOfName(t, i + 1) > i + 1
               THEN <<"~">> \o f[EndOfName(t, i + 1)]
          ELSE <<t[i]>> \o f[i + 1]
    IN  f[1]
MutTilde(t) == IF HomeAt(t, 1) THEN <<"~">> \o SubSeq(t, Len(Home) + 1, Len(t)) ELSE t
Tilde(t) == FoldHomeShaped(Renamed(t))

(* can_wake_now and its remedy, over what was measured. *)
Ways(c, m) == {w \in {"keep awake", "listener", "joystick"} :
                 \/ w = "keep awake" /\ c.keep_awake
                 \/ w = "listener" /\ c.enabled /\ c.wake_for_opentrack /\ m.listening = "yes"
                 \/ w = "joystick" /\ c.enabled /\ c.joystick /\ c.wake_for_joystick /\ m.uinput}
MutRemedy(c, m) == IF ~c.enabled THEN "keep awake" ELSE "wake for joystick"
Remedy(c, m) == CASE ~c.enabled -> "keep awake"
                  [] c.enabled /\ ~m.uinput -> "keep awake"
                  [] c.enabled /\ m.uinput /\ ~c.joystick -> "joystick"
                  [] OTHER -> "wake for joystick"
Applied(c, r) == CASE r = "keep awake" -> [c EXCEPT !.keep_awake = TRUE]
                   [] r = "joystick" -> [c EXCEPT !.joystick = TRUE, !.wake_for_joystick = TRUE]
                   [] OTHER -> [c EXCEPT !.wake_for_joystick = TRUE]
CanWakeNow(c, m) == IF Ways(c, m) # {} THEN [ways |-> Ways(c, m), remedy |-> "none"]
                    ELSE [ways |-> {}, remedy |-> Remedy(c, m)]

(* wake_settings: what is said of the address; Listening's own words, but  *)
(* a port of the ephemeral range may be the hub's own sender.              *)
AtOpentrack(m) == IF m.listening = "yes" /\ m.ephemeral THEN "may be ours" ELSE m.listening

(* uinput_message and udev_rule: which sentence. *)
UinputMessage(m) == CASE ~m.node -> "missing" [] m.node /\ m.uinput -> "writable"
                      [] OTHER -> IF m.rules = "old" THEN "reinstall" ELSE "install and log in again"
UdevRule(m) == CASE m.rules = "none" -> "not installed" [] m.rules = "old" -> "no uinput line"
                 [] OTHER -> "installed"
-----------------------------------------------------------------------------
Idle == [at |-> "idle", line |-> 0, read |-> <<>>]

DiagInit == /\ file = <<>> /\ ring = <<>> /\ text = <<>>
            /\ logger = [t \in Threads |-> Idle]
            /\ salt = {} /\ report = {} /\ ids = {}
            /\ asker = [p \in Reporters |-> [at |-> "idle", salt |-> {}]]
            /\ day \in Days

(* write_line: the line goes to stderr and, under the lock, into the ring. *)
WriteLine(t) == /\ logger[t].at = "idle" /\ Len(text) < MaxLines
                /\ \E w \in Texts : text' = Append(text, w)
                /\ ring' = Last2(Append(ring, Len(text')), Ring)
                /\ logger' = [logger EXCEPT ![t] = [at |-> "stat", line |-> Len(text'), read |-> <<>>]]
                /\ UNCHANGED <<file, salt, asker, report, ids, day>>

(* append: the size decides whether the oldest half goes first. *)
TooLong(f) == Len(f) > Cap
Stat(t) == /\ logger[t].at = "stat"
           /\ logger' = [logger EXCEPT ![t].at = IF TooLong(file) THEN "read" ELSE "append"]
           /\ UNCHANGED <<file, ring, text, salt, asker, report, ids, day>>

(* read_to_string, the kept half; a file that is no text is dropped whole. *)
Trimmed(f) == IF \E i \in 1 .. Len(f) : f[i] = -1 THEN <<0>>
              ELSE <<0>> \o SubSeq(f, (Len(f) \div 2) + 1, Len(f))
ReadLog(t) == /\ logger[t].at = "read"
              /\ logger' = [logger EXCEPT ![t].at = "truncate", ![t].read = Trimmed(file)]
              /\ UNCHANGED <<file, ring, text, salt, asker, report, ids, day>>

(* std::fs::write: the file is emptied, then written from its start. *)
Truncate(t) == /\ logger[t].at = "truncate"
               /\ file' = <<>>
               /\ logger' = [logger EXCEPT ![t].at = "put"]
               /\ UNCHANGED <<ring, text, salt, asker, report, ids, day>>
Put(t) == /\ logger[t].at = "put"
          /\ LET kept == logger[t].read
             IN  file' = kept \o SubSeq(file, Len(kept) + 1, Len(file))
          /\ logger' = [logger EXCEPT ![t].at = "append"]
          /\ UNCHANGED <<ring, text, salt, asker, report, ids, day>>

(* The line itself; a state directory that cannot be written loses it. *)
AppendLine(t) == /\ logger[t].at = "append"
                 /\ \/ file' = Append(file, logger[t].line)
                    \/ UNCHANGED file
                 /\ logger' = [logger EXCEPT ![t] = Idle]
                 /\ UNCHANGED <<ring, text, salt, asker, report, ids, day>>

(* A lost block, or a TOBII_LOG_FILE that is something else. *)
Garble == /\ file # <<>> /\ \A i \in 1 .. Len(file) : file[i] # -1
          /\ file' = [file EXCEPT ![1] = -1]
          /\ UNCHANGED <<ring, logger, text, salt, asker, report, ids, day>>

(* recent_log: the file's tail, and what only this process's ring has. *)
Recent(p) == IF p = "hub" THEN Last2(ring, Keep) ELSE <<>>
RecentLog(p) ==
    LET tail == Last2(file, Keep)
        missing == SelectSeq(Recent(p), LAMBDA l : \A i \in 1 .. Len(tail) : tail[i] # l)
    IN  Last2(tail \o missing, Keep)
Shown(l) == IF l > 0 THEN Tilde(text[l]) ELSE <<"notice">>
-----------------------------------------------------------------------------
(* report: the salt is looked up, made if there is none, ... *)
AskReport(p) == /\ asker[p].at = "idle"
                /\ IF salt # {}
                   THEN asker' = [asker EXCEPT ![p] = [at |-> "write", salt |-> salt]]
                   ELSE asker' = [asker EXCEPT ![p] = [at |-> "make", salt |-> {}]]
                /\ UNCHANGED <<file, ring, logger, text, salt, report, ids, day>>

(* report_salt: 32 random bytes, used only once they are on disk. *)
FreshSalt(p) == {<<p, Len(text)>>}
MutUsedSalt(p, ok) == FreshSalt(p)
UsedSalt(p, ok) == IF ok THEN FreshSalt(p) ELSE {}
MakeSalt(p) == /\ asker[p].at = "make"
               /\ \E ok \in BOOLEAN :
                     /\ salt' = IF ok THEN FreshSalt(p) ELSE {}
                     /\ asker' = [asker EXCEPT ![p] = [at |-> "write", salt |-> UsedSalt(p, ok)]]
               /\ UNCHANGED <<file, ring, logger, text, report, ids, day>>

(* ... and the sections are written. Under sudo the configuration and the  *)
(* monitor are not read at all; the closing line says how the monitor was  *)
(* hidden, from the same answer as the monitor line itself.                *)
Closing(elevated, used) == CASE elevated -> "not read" [] ~elevated /\ used # {} -> "salted"
                             [] OTHER -> "see the warning"
WriteReport(p) ==
    /\ asker[p].at = "write"
    /\ \E elevated \in BOOLEAN, s \in Setups :
          /\ report' = {[closing |-> Closing(elevated, asker[p].salt), log |-> RecentLog(p),
                         game |-> IF elevated THEN {}
                                  ELSE {[config |-> s.config, measured |-> s.measured,
                                         wake |-> CanWakeNow(s.config, s.measured),
                                         settings |-> AtOpentrack(s.measured),
                                         device |-> <<UdevRule(s.measured), UinputMessage(s.measured)>>]}]}
          /\ ids' = IF elevated THEN ids ELSE ids \cup asker[p].salt
    /\ asker' = [asker EXCEPT ![p] = [at |-> "idle", salt |-> {}]]
    /\ UNCHANGED <<file, ring, logger, text, salt, day>>

Midnight == /\ day + 1 \in Days
            /\ day' = day + 1
            /\ UNCHANGED <<file, ring, logger, text, salt, asker, report, ids>>

Logs(t) == WriteLine(t) \/ Stat(t) \/ ReadLog(t) \/ Truncate(t) \/ Put(t) \/ AppendLine(t)
Reports(p) == AskReport(p) \/ MakeSalt(p) \/ WriteReport(p)
DiagNext == (\E t \in Threads : Logs(t)) \/ Garble \/ (\E p \in Reporters : Reports(p)) \/ Midnight
DiagSpec == DiagInit /\ [][DiagNext]_diagVars
-----------------------------------------------------------------------------
(* The report names nobody: no line of the log comes out with a user's name *)
(* in it, in whichever place and spelling the path stood.                   *)
NamesNobody == \A r \in report : \A i \in 1 .. Len(r.log) :
                  {"me", "other"} \cap Range(Shown(r.log[i])) = {}

(* Two reports of one machine carry the same id for its screen: once a salt *)
(* was used, every later report uses it.                                    *)
SameId == Cardinality(ids) <= 1

(* When nothing can wake the tracker, what the report says to do about it   *)
(* does make something wake it.                                             *)
RemedyWorks == \A r \in report : \A g \in r.game :
                  g.wake.remedy # "none" => Ways(Applied(g.config, g.wake.remedy), g.measured) # {}

(* A line is stamped with the date a calendar would give it.                *)
CalendarAgrees == UtcNow(day + 1) = DayAfter(UtcNow(day))

(* append's own claim: the file never exceeds the cap, even briefly.        *)
NeverOverCap == Len(file) <= Cap
=============================================================================
