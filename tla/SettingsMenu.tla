----------------------------- MODULE SettingsMenu -----------------------------
(***************************************************************************)
(* The hub's cogwheel (crates/tobii-gtk/src/lib.rs: settings_list and its    *)
(* rows): the keep-awake switch and the badge it shares with the header, the *)
(* text size, the update check, and the diagnostics report.                  *)
(*                                                                           *)
(* The popover is built once, with the window.  The switch, the games card   *)
(* and `tobii games set` each read games.toml, change one setting and write  *)
(* the file back, with no lock: what another wrote in between is undone.     *)
(* Each has a file in hand only while it edits; the hub is one thread, and   *)
(* does nothing else meanwhile.  Text sizes are tenths; any write may fail.  *)
(***************************************************************************)
EXTENDS Naturals, Sequences, FiniteSets, FiniteSetsExt

CONSTANTS Sizes,        \* the stylesheet's font sizes, px
          ForcedOff,    \* TOBII_NO_UPDATE_CHECK
          HintTime,     \* how long the hint stays
          MaxActs

Editors  == {"hub", "cli"}      \* programs that edit games.toml
GameKeys == {"awake", "other"}  \* keep_awake, and any other setting of that file

VARIABLES open,                      \* a hub window exists
          disk,                      \* [games, text, check]: what the files say
          edit,                      \* per editor, at most one edit that is read and not written
          awakeSwitch, pill, read,   \* the switch, the badge, and what the tick read
          current, drawn, ends,      \* the text size held, the sizes on screen, buttons that work
          checkSwitch, asked,        \* and whether GitHub was asked
          hint, clock, timers,       \* the line under the buttons, and the timers it set
          dialog, reportOnDisk,             \* the report a save dialog holds; the one on disk
          chosen, undone,             \* what each setting was last set to, and those an overtaken edit undid
          pressed,                    \* where the text buttons were pressed to
          acts

menuVars == <<open, disk, edit, awakeSwitch, pill, read, current, drawn, ends, checkSwitch, asked,
              hint, clock, timers, dialog, reportOnDisk, chosen, undone, pressed, acts>>
textVars == <<current, drawn, ends, pressed>>
awakeVars == <<awakeSwitch, pill, read>>
gamesVars == <<edit, chosen, undone>>
checkVars == <<checkSwitch, asked>>
reportVars == <<hint, clock, timers, dialog, reportOnDisk>>

TextMin == 8
TextMax == 16

\* text_scale_at: out of range, or not a number, is the normal size
TextScale(t) == IF t \in TextMin..TextMax THEN t ELSE 10
stepped(t, up) == IF up THEN Min({t + 1, TextMax}) ELSE Max({t - 1, TextMin})

\* scaled_css: whole pixels, at least one
scaled_css(t) == {Max({1, (px * t + 5) \div 10}) : px \in Sizes}

\* refresh of text_size_row: a button that cannot help is greyed
Ends(t) == {b \in {"minus", "plus"} : IF b = "minus" THEN t > TextMin ELSE t < TextMax}

Act == acts < MaxActs /\ acts' = acts + 1
HubFree == read = {} /\ edit["hub"] = {}
Tried(d) == {disk, d}   \* a write that may fail

MenuInit ==
    /\ open = FALSE
    /\ disk \in [games : {[k \in GameKeys |-> k = "awake" /\ on] : on \in BOOLEAN},
                 text : {10, TextMax, 40}, check : BOOLEAN]
    /\ edit = [p \in Editors |-> {}]
    /\ awakeSwitch = FALSE /\ pill = FALSE /\ read = {}
    /\ current = TextScale(disk.text) /\ drawn = scaled_css(TextScale(disk.text)) /\ ends = {}
    /\ checkSwitch = FALSE /\ asked = FALSE
    /\ hint = {} /\ clock = 0 /\ timers = {} /\ dialog = {} /\ reportOnDisk = {}
    /\ chosen = disk.games /\ undone = {} /\ pressed = TextScale(disk.text) /\ acts = 0

\* settings_list, update_check_switch, and the check when the window opens
Open ==
    /\ ~open /\ open' = TRUE
    /\ awakeSwitch' = disk.games["awake"]
    /\ current' = TextScale(disk.text) /\ ends' = Ends(TextScale(disk.text)) /\ pressed' = TextScale(disk.text)
    /\ drawn' = scaled_css(TextScale(disk.text))
    /\ checkSwitch' = disk.check
    /\ asked' = (disk.check /\ ~ForcedOff)
    /\ UNCHANGED <<disk, pill, read, gamesVars, hint, clock, timers, dialog, reportOnDisk, acts>>

\* quit_row, and a new start
Quit ==
    /\ Act /\ open /\ HubFree /\ open' = FALSE
    /\ hint' = {} /\ timers' = {} /\ dialog' = {} /\ pill' = FALSE
    /\ UNCHANGED <<disk, awakeSwitch, read, gamesVars, textVars, checkVars, clock, reportOnDisk>>

(***************************************************************************)
(* Keep awake, and the file it shares with the rest.                        *)
(***************************************************************************)
\* load_output_config_from; a fault: the defaults are changed, not what is in the file
MutLoadedConfig == [k \in GameKeys |-> FALSE]
LoadedConfig == disk.games

\* the first half of save_keep_awake_to and its like: read, and change one setting
Reads(p, k, on) ==
    /\ Act /\ edit[p] = {}
    /\ edit' = [edit EXCEPT ![p] =
         {[key |-> k, games |-> [LoadedConfig EXCEPT ![k] = on], missed |-> {}]}]
    /\ UNCHANGED <<open, disk, pill, read, textVars, checkVars, reportVars, chosen, undone>>

\* the second half: the whole file is written, with all that it said when it was read
Writes(p) ==
    \E e \in edit[p] :
      /\ disk' = [disk EXCEPT !.games = e.games]
      /\ edit' = [q \in Editors |->
           IF q = p THEN {} ELSE {[f EXCEPT !.missed = @ \cup {e.key}] : f \in edit[q]}]
      /\ chosen' = [chosen EXCEPT ![e.key] = e.games[e.key]]
      /\ undone' = (undone \cup e.missed) \ {e.key}
      /\ UNCHANGED <<open, awakeVars, textVars, checkVars, reportVars, acts>>

\* or nothing is written, which is logged
WriteFails(p) ==
    /\ edit[p] # {} /\ edit' = [edit EXCEPT ![p] = {}]
    /\ UNCHANGED <<open, disk, awakeVars, textVars, checkVars, reportVars, chosen, undone, acts>>

ClickAwake ==
    /\ open /\ HubFree /\ Reads("hub", "awake", ~awakeSwitch)
    /\ awakeSwitch' = ~awakeSwitch

\* edit_config, from the games card
ClickCard(on) ==
    /\ open /\ HubFree /\ Reads("hub", "other", on)
    /\ UNCHANGED awakeSwitch

\* `tobii games set`, in a terminal
CliSets(k, on) == Reads("cli", k, on) /\ UNCHANGED awakeSwitch

\* the tick: keep_awake_enabled, one read for the badge and the switch
TickReads ==
    /\ open /\ HubFree /\ read' = {disk.games["awake"]}
    /\ UNCHANGED <<open, disk, awakeSwitch, pill, gamesVars, textVars, checkVars, reportVars, acts>>

\* KeepAwakeSwitch::refresh: setting the switch runs its handler, which `seeding` holds back
MutSavedByRefresh(on) == IF awakeSwitch # on THEN [disk EXCEPT !.games["awake"] = on] ELSE disk
SavedByRefresh(on) == disk

TickApplies ==
    \E on \in read :
      /\ pill' = on /\ awakeSwitch' = on /\ read' = {}
      /\ disk' = SavedByRefresh(on)
      /\ UNCHANGED <<open, gamesVars, textVars, checkVars, reportVars, acts>>

(***************************************************************************)
(* Text size, and the update check.                                         *)
(***************************************************************************)
\* bump: applied, then saved, then said
Press(up) ==
    LET t == stepped(current, up)
    IN  /\ Act /\ open /\ HubFree /\ (IF up THEN "plus" ELSE "minus") \in ends
        /\ current' = t /\ drawn' = scaled_css(t) /\ ends' = Ends(t)
        /\ disk' \in Tried([disk EXCEPT !.text = t])
        /\ pressed' = IF up THEN pressed + 1 ELSE pressed - 1
        /\ UNCHANGED <<open, awakeVars, gamesVars, checkVars, reportVars>>

ClickCheck ==
    /\ Act /\ open /\ HubFree /\ ~ForcedOff
    /\ checkSwitch' = ~checkSwitch
    /\ disk' \in Tried([disk EXCEPT !.check = ~checkSwitch])
    /\ UNCHANGED <<open, awakeVars, gamesVars, textVars, asked, reportVars>>

(***************************************************************************)
(* The report.                                                              *)
(***************************************************************************)
\* say: a timer of its own for every message
Copy ==
    /\ Act /\ open /\ HubFree
    /\ hint' = {clock} /\ timers' = timers \cup {clock}
    /\ UNCHANGED <<open, disk, awakeVars, gamesVars, textVars, checkVars, clock, dialog, reportOnDisk>>

\* the generation it was set for: only the newest message is taken down
MutExpired(t) == {}
Expired(t) == IF hint = {t} THEN {} ELSE hint

Second ==
    /\ timers # {} /\ clock < 2 * HintTime + 1
    /\ \A t \in timers : clock < t + HintTime
    /\ clock' = clock + 1
    /\ UNCHANGED <<open, disk, awakeVars, gamesVars, textVars, checkVars, hint, timers, dialog, reportOnDisk, acts>>
Timer(t) ==
    /\ t \in timers /\ clock >= t + HintTime /\ HubFree
    /\ timers' = timers \ {t} /\ hint' = Expired(t)
    /\ UNCHANGED <<open, disk, awakeVars, gamesVars, textVars, checkVars, clock, dialog, reportOnDisk, acts>>

\* diagnostics_row, Save: the report is of when it was asked for
AskSave ==
    /\ Act /\ open /\ HubFree /\ dialog = {} /\ dialog' = {disk}
    /\ UNCHANGED <<open, disk, awakeVars, gamesVars, textVars, checkVars, hint, clock, timers, reportOnDisk>>
Chosen ==
    /\ dialog # {} /\ HubFree /\ dialog' = {} /\ reportOnDisk' \in {reportOnDisk, dialog}
    /\ UNCHANGED <<open, disk, awakeVars, gamesVars, textVars, checkVars, hint, clock, timers, acts>>

MenuNext ==
    \/ Open \/ Quit \/ ClickAwake \/ TickReads \/ TickApplies \/ ClickCheck
    \/ Copy \/ Second \/ AskSave \/ Chosen
    \/ \E on \in BOOLEAN : Press(on) \/ ClickCard(on) \/ \E k \in GameKeys : CliSets(k, on)
    \/ \E p \in Editors : Writes(p) \/ WriteFails(p)
    \/ \E t \in timers : Timer(t)
MenuSpec == MenuInit /\ [][MenuNext]_menuVars

(***************************************************************************)
(* What was last chosen stands, whatever the tick was in the middle of: a    *)
(* setting of games.toml is what it was last set to, by whichever program,    *)
(* unless an edit that had read the file before that wrote it back after, and *)
(* then until it is set again (save_keep_awake_to: a copy is held no longer,  *)
(* KeepAwakeSwitch::refresh: what was read is not written back); the text is  *)
(* as many steps from where it was as it was pressed, saved or not            *)
(* (text_size_row); and a hint younger than its timer is not taken down by an *)
(* older one's (say).                                                        *)
(***************************************************************************)
ChoiceStands ==
    /\ \A k \in GameKeys \ undone : disk.games[k] = chosen[k]
    /\ open => current = pressed /\ drawn = scaled_css(pressed)
    /\ \A t \in timers : hint # {} /\ (\A u \in timers : u <= t) => t \in hint
    /\ (open /\ timers # {}) => hint # {}

(***************************************************************************)
(* Why it stands: the tick never writes, and an edit in hand carries what     *)
(* every setting was last set to, but for those set since it read the file;  *)
(* a button moves what is held and what is pressed alike and is not there at *)
(* an end; and no time passes over a timer that is due, so that the newest   *)
(* message's timer goes last.                                                *)
(***************************************************************************)
GameSettings == [GameKeys -> BOOLEAN]
MenuFiles == [games : GameSettings, text : Nat, check : BOOLEAN]
GameEdits == [key : GameKeys, games : GameSettings, missed : SUBSET GameKeys]
MenuTypeOK ==
    /\ disk \in MenuFiles /\ chosen \in GameSettings /\ undone \subseteq GameKeys
    /\ edit \in [Editors -> SUBSET GameEdits]
    /\ checkSwitch \in BOOLEAN /\ awakeSwitch \in BOOLEAN /\ read \subseteq BOOLEAN
EditInv ==
    /\ \A k \in GameKeys \ undone : disk.games[k] = chosen[k]
    /\ \A p \in Editors : \A e \in edit[p] :
         \A k \in GameKeys \ (undone \cup e.missed \cup {e.key}) : e.games[k] = chosen[k]
TextInv ==
    /\ current \in TextMin..TextMax
    /\ open => current = pressed /\ drawn = scaled_css(pressed) /\ ends = Ends(current)
HintInv ==
    /\ clock \in Nat /\ timers \subseteq Nat
    /\ \A t \in timers : t <= clock /\ clock <= t + HintTime
    /\ timers # {} => \E t \in timers : hint = {t} /\ \A u \in timers : u <= t
MenuInv == MenuTypeOK /\ EditInv /\ TextInv /\ HintInv

MenuAssumption == HintTime \in Nat
================================================================================
