------------------------------ MODULE GameSetup ------------------------------
(***************************************************************************)
(* The hub's Games tab (tobii-gtk game_setup.rs): a list of the games Steam *)
(* knows and of the folders added by hand (tobii-config custom_games.rs), a *)
(* page about the one picked, and one child process, `tobii bridge ...`,    *)
(* which outlives the selection it was started from.                       *)
(*                                                                         *)
(* What the widgets show is what `refresh` put there last: the state `page` *)
(* is that picture, and a button is pressed only if the picture offers it.  *)
(***************************************************************************)
EXTENDS Naturals, FiniteSets

CONSTANTS
    Apps,        \* what Steam lists
    Folders,     \* what can be added by hand
    Hashed,      \* folders whose name begins with a `#`
    Measured,    \* games seen to refuse our client
    MaxJobs, MaxOutside    \* jobs started, and changes made by others

Games == Apps \cup Folders
NoGame == "no_game"

(* No game is called what nothing picked is called.                            *)
SetupAssumption == NoGame \notin Games

VARIABLES
    \* on disk
    pfx,        \* each game's prefix: "none", "absent", "files", "stamped"
    listed,     \* the lines of custom-games.tsv
    output,     \* games.toml, and the joystick's state
    \* of the page
    \* (a slot is empty, or holds one thing)
    sel, working, outcome, report, rows, query, only, placeholder, page,
    dialogs,    \* file choosers that are open, with the game they are for
    alive,      \* cleared by the quit path
    tobii,      \* the command-line program was found
    \* elsewhere
    procs,      \* child processes
    \* of the properties
    touched,    \* prefixes others changed since the rows were read
    last,       \* the game whose job's result was taken last
    added,      \* folders whose adding was reported as done
    jobs, others

diskVars == <<pfx, listed, output>>
slotVars == <<sel, working, outcome, report>>
listVars == <<rows, query, only, placeholder>>
ghosts   == <<touched, last, added>>
setupVars == <<diskVars, slotVars, listVars, page, dialogs, alive, tobii, procs, ghosts, jobs, others>>

-----------------------------------------------------------------------------
(* bridge_state: a stat of the prefix.  A folder that is gone reads as a      *)
(* prefix without the files; only an app can have no prefix.                 *)
BridgeState(g, p) ==
    IF p[g] = "none" THEN IF g \in Apps THEN "noprefix" ELSE "absent" ELSE p[g]
HasFiles(state) == state \in {"files", "stamped"}

(* RowBridge::of *)
RowBridge(g, p) ==
    LET s == BridgeState(g, p)
    IN  IF s = "noprefix" THEN "never_launched" ELSE IF HasFiles(s) THEN "installed" ELSE "no_bridge"
SetUp(row) == row = "installed"

(* custom_games parse: a line that begins with `#` is a comment. *)
ListFrom(file) == file \ Hashed

(* add, remove, and render: the header, and a line for each game read. *)
Already(f) == f \in ListFrom(listed)
SavedWith(f) == ListFrom(listed) \cup {f}
SavedWithout(f) == ListFrom(listed) \ {f}

(* read_catalog, Catalog::new: a row for each app and for each folder listed. *)
ReadCatalog(p, file) ==
    [g \in Games |-> IF g \in Apps \/ g \in ListFrom(file) THEN RowBridge(g, p) ELSE "off"]
Rows(r) == {g \in Games : r[g] # "off"}

(* keeps, and the list's filter function *)
Keeps(r, q, o) == {g \in Rows(r) : (o => SetUp(r[g])) /\ g \in q}

(* The sentence under the list, when nothing is in it. *)
NothingShowing(r, q, o) ==
    IF Keeps(r, q, o) # {} THEN "none"
    ELSE IF q = Games THEN IF o THEN "none_set_up" ELSE "no_games"
    ELSE IF o THEN "not_among_the_set_up" ELSE "no_such_game"

-----------------------------------------------------------------------------
(* What a finished run is said to have come to.  An exit code is a claim: an  *)
(* install is called one only with the file in the prefix.  The same words    *)
(* are used of an uninstall, which fills the same slot.                      *)
Results == {"ok", "usage", "refused", "failed", "killed"}
Ok(o) == o \in {"ok", "usage"}
TooOld(o) == o = "usage"
OffersWine(o) == ~Ok(o) /\ o = "refused"
OutcomeText(o, state) ==
    IF Ok(o) /\ TooOld(o) THEN "no_such_command"
    ELSE IF Ok(o) THEN IF HasFiles(state) THEN "installed" ELSE "not_called_an_install"
    ELSE IF o = "killed" THEN "stopped_before_a_result" ELSE "stopped"

(* job_view: of the three slots only what is this game's. *)
Mine(slot, g) == \E s \in slot : s.game = g
JobView(g, run, out, rep, state) ==
    [text    |-> IF Mine(run, g) THEN "running"
                 ELSE IF Mine(out, g) THEN OutcomeText((CHOOSE o \in out : TRUE).result, state) ELSE "none",
     busy    |-> run # {} /\ ~Mine(run, g),
     enabled |-> run = {},
     wine    |-> ~Mine(run, g) /\ \E o \in out : o.game = g /\ OffersWine(o.result),
     report  |-> Mine(rep, g)]

(* actions, bridge_action *)
BridgeAction(state) ==
    CASE state = "noprefix" -> "none" [] state = "absent" -> "install" [] OTHER -> "reinstall"
FolderGone(g, p) == g \in Folders /\ p[g] = "none"
Blocked(g, p) == FolderGone(g, p) \/ BridgeState(g, p) = "noprefix" \/ ~tobii
Actions(g, p, job) ==
    LET state == BridgeState(g, p)
        forget == IF g \in Folders THEN {"forget"} ELSE {}
    IN  IF Blocked(g, p) THEN forget
        ELSE forget \cup ({BridgeAction(state)} \ {"none"}) \cup {"details"}
             \cup (IF HasFiles(state) THEN {"uninstall"} ELSE {})
             \cup (IF job.wine THEN {"wine"} ELSE {})
             \cup (IF g \in Measured THEN {"other"} ELSE {})

(* The line to paste into Steam's launch options: for an app, and only if the *)
(* bridge there can start a game.                                            *)
LaunchLine(g, state) ==
    IF g \notin Apps \/ ~HasFiles(state) THEN "none"
    ELSE IF state = "stamped" THEN "copy" ELSE "reinstall_first"

(* destinations, settings_block *)
Destinations(c) ==
    (IF c.joystick /\ c.status # "failed" THEN {"joystick"} ELSE {})
    \cup (IF c.bridge THEN {"bridge"} ELSE {})
SettingsBlock(c) ==
    [on      |-> c.enabled, to |-> Destinations(c),
     trouble |-> c.joystick /\ c.status = "failed",
     nothing_to_change |-> c.enabled /\ c.joystick /\ c.status # "failed"]

View(g, run, out, rep, p, c) ==
    LET state == BridgeState(g, p)
        job == JobView(g, run, out, rep, state)
    IN  [game |-> g, state |-> state, job |-> job, buttons |-> Actions(g, p, job),
         launch |-> LaunchLine(g, state), settings |-> SettingsBlock(c)]

(* refresh: with nothing picked it returns at once. *)
Refreshed(g, run, out, rep, p) ==
    IF g = NoGame THEN page ELSE {View(g, run, out, rep, p, output)}

(* rebuild, restate *)
Restated(r, q, o) ==
    /\ rows' = r /\ query' = q /\ only' = o
    /\ placeholder' = NothingShowing(r, q, o)
Reread(p, file) ==
    /\ Restated(ReadCatalog(p, file), query, only)
    /\ touched' = {}

-----------------------------------------------------------------------------
(* start_job: one at a time, whichever game it is for.  The rest of the       *)
(* handler is the same for every button that runs something.                 *)
StartJob(g, verb) ==
    IF working # {}
    THEN UNCHANGED <<working, procs, jobs>>
    ELSE /\ jobs < MaxJobs /\ jobs' = jobs + 1
         /\ working' = {[game |-> g, verb |-> verb]}
         /\ procs' = procs \cup {[game |-> g, verb |-> verb, result |-> "none", id |-> jobs]}

(* The choosers.  The folder choosers are modal; behind the one for a wine    *)
(* the page goes on, and another game may be picked before it is answered.   *)
Modal(d) == d.kind \in {"other", "add"}
NoModal == \A d \in dialogs : ~Modal(d)

Offered(b) == \E v \in page : b \in v.buttons /\ v.job.enabled

(* Install or Reinstall, and Uninstall: the same slot, cleared first. *)
PressRun(verb) ==
    /\ alive /\ NoModal /\ tobii /\ sel # NoGame
    /\ \/ verb = "install" /\ (Offered("install") \/ Offered("reinstall"))
       \/ verb = "uninstall" /\ Offered("uninstall")
    /\ outcome' = {}
    /\ StartJob(sel, verb)
    /\ page' = Refreshed(sel, working', {}, report, pfx)
    /\ UNCHANGED <<diskVars, sel, report, listVars, dialogs, alive, tobii, ghosts, others>>

PressDetails ==
    /\ alive /\ NoModal /\ tobii /\ sel # NoGame /\ Offered("details")
    /\ StartJob(sel, "status")
    /\ page' = Refreshed(sel, working', outcome, report, pfx)
    /\ UNCHANGED <<diskVars, sel, outcome, report, listVars, dialogs, alive, tobii, ghosts, others>>

PressChooser(kind) ==
    /\ alive /\ NoModal /\ tobii /\ sel # NoGame /\ Offered(kind)
    /\ dialogs' = dialogs \cup {[kind |-> kind, game |-> sel]}
    /\ UNCHANGED <<diskVars, slotVars, listVars, page, alive, tobii, procs, ghosts, jobs, others>>

Chosen(d) ==
    /\ alive /\ d.kind \in {"other", "wine"}
    /\ dialogs' = dialogs \ {d}
    /\ outcome' = {}
    /\ StartJob(d.game, "install")
    /\ page' = Refreshed(sel, working', {}, report, pfx)
    /\ UNCHANGED <<diskVars, sel, report, listVars, alive, tobii, ghosts, others>>

Dismissed(d) ==
    /\ dialogs' = dialogs \ {d}
    /\ UNCHANGED <<diskVars, slotVars, listVars, page, alive, tobii, procs, ghosts, jobs, others>>

(* The child, here only by what it leaves: a prefix, and a result. *)
Leaves_(verb, p) ==
    IF p = "none" \/ verb = "status" THEN {<<p, r>> : r \in {"ok", "usage", "failed"}}
    ELSE IF verb = "install"
    THEN {<<"stamped", "ok">>, <<"files", "failed">>, <<p, "usage">>, <<p, "refused">>, <<p, "killed">>}
    ELSE {<<"absent", "ok">>, <<p, "failed">>, <<p, "usage">>}

ChildEnds(c) ==
    /\ c.result = "none"
    /\ \E e \in Leaves_(c.verb, pfx[c.game]) :
          /\ pfx' = [pfx EXCEPT ![c.game] = e[1]]
          /\ procs' = (procs \ {c}) \cup {[c EXCEPT !.result = e[2]]}
    /\ UNCHANGED <<listed, output, slotVars, listVars, page, dialogs, alive, tobii, ghosts, jobs, others>>

(* A fault: the answer is filed under the game on the page. *)
MutFiled(c) == [game |-> IF sel = NoGame THEN c.game ELSE sel, result |-> c.result]

(* The poll's closure writes the id it was started with beside the answer. *)
Filed(c) == [game |-> c.game, result |-> c.result]

(* A fault: only the page is drawn again after a job. *)
MutTakeJob(c) ==
    /\ outcome' = {Filed(c)} /\ last' = c.game
    /\ page' = Refreshed(sel, {}, {Filed(c)}, report, pfx)
    /\ UNCHANGED <<report, listVars, touched>>

(* done, of a job that may have changed the prefix: recheck *)
TakeJob(c) ==
    /\ outcome' = {Filed(c)} /\ last' = c.game
    /\ Reread(pfx, listed)
    /\ page' = Refreshed(sel, {}, {Filed(c)}, report, pfx)
    /\ UNCHANGED report

(* done, of the report: it changes nothing, so only the page is drawn again. *)
TakeReport(c) ==
    /\ report' = {[game |-> c.game, text |-> IF TooOld(c.result) THEN "too_old" ELSE "said"]}
    /\ page' = Refreshed(sel, {}, outcome, report', pfx)
    /\ UNCHANGED <<outcome, listVars, touched, last>>

Poll(c) ==
    /\ alive /\ c.result # "none"
    /\ procs' = procs \ {c} /\ working' = {}
    /\ IF c.verb = "status" THEN TakeReport(c) ELSE TakeJob(c)
    /\ UNCHANGED <<diskVars, sel, dialogs, alive, tobii, added, jobs, others>>

-----------------------------------------------------------------------------
(* A row: what was said of another game is not said of this one. *)
RowActivated(g) ==
    /\ alive /\ NoModal /\ g \in Keeps(rows, query, only)
    /\ sel' = g /\ outcome' = {} /\ report' = {}
    /\ page' = Refreshed(g, working, {}, {}, pfx)
    /\ UNCHANGED <<diskVars, working, listVars, dialogs, alive, tobii, procs, ghosts, jobs, others>>

(* The search box, and the button beside it. *)
Search(q) ==
    /\ alive /\ NoModal /\ q # query
    /\ Restated(rows, q, only)
    /\ UNCHANGED <<diskVars, slotVars, page, dialogs, alive, tobii, procs, ghosts, jobs, others>>

SetUpOnly ==
    /\ alive /\ NoModal
    /\ Restated(rows, query, ~only)
    /\ UNCHANGED <<diskVars, slotVars, page, dialogs, alive, tobii, procs, ghosts, jobs, others>>

(* Add a game by folder: custom_games::add refuses what is listed already;    *)
(* the file may not take it.                                                 *)
PressAdd ==
    /\ alive /\ NoModal
    /\ dialogs' = dialogs \cup {[kind |-> "add", game |-> NoGame]}
    /\ UNCHANGED <<diskVars, slotVars, listVars, page, alive, tobii, procs, ghosts, jobs, others>>

AddChosen(d, f) ==
    /\ alive /\ d.kind = "add" /\ dialogs' = dialogs \ {d}
    /\ IF Already(f)
       THEN UNCHANGED <<listed, added, touched, listVars, page>>
       ELSE \/ /\ listed' = SavedWith(f)
               /\ added' = added \cup {f}
               /\ Reread(pfx, listed')
               /\ page' = Refreshed(sel, working, outcome, report, pfx)
            \/ UNCHANGED <<listed, added, touched, listVars, page>>
    /\ UNCHANGED <<pfx, output, slotVars, alive, tobii, procs, last, jobs, others>>

(* Remove from this list: the page goes, and with it every button on it. *)
PressForget ==
    /\ alive /\ NoModal /\ Offered("forget")
    /\ \/ /\ Already(sel)
          /\ listed' = SavedWithout(sel) /\ added' = added \ {sel}
          /\ sel' = NoGame /\ page' = {}
          /\ Reread(pfx, listed')
       \/ UNCHANGED <<listed, added, sel, page, listVars, touched>>   \* not saved
    /\ UNCHANGED <<pfx, output, working, outcome, report, dialogs, alive, tobii, procs, last, jobs, others>>

(* The tab comes into view. *)
Mapped ==
    /\ alive
    /\ Reread(pfx, listed)
    /\ page' = Refreshed(sel, working, outcome, report, pfx)
    /\ UNCHANGED <<diskVars, slotVars, dialogs, alive, tobii, procs, last, added, jobs, others>>

(* The quit path: the polls stop; the children do not. *)
Quit ==
    /\ alive /\ alive' = FALSE
    /\ UNCHANGED <<diskVars, slotVars, listVars, page, dialogs, tobii, procs, ghosts, jobs, others>>

-----------------------------------------------------------------------------
(* A game run for the first time, a drive that comes or goes, the same        *)
(* commands in a terminal, and the Tracker tab.                              *)
Outside(g, v) ==
    /\ others < MaxOutside /\ others' = others + 1 /\ v # pfx[g]
    /\ g \in Apps => v # "none"
    /\ pfx' = [pfx EXCEPT ![g] = v] /\ touched' = touched \cup {g}
    /\ UNCHANGED <<listed, output, slotVars, listVars, page, dialogs, alive, tobii, procs, last, added, jobs>>

TrackerTab(c) ==
    /\ others < MaxOutside /\ others' = others + 1 /\ c # output
    /\ output' = c
    /\ UNCHANGED <<pfx, listed, slotVars, listVars, page, dialogs, alive, tobii, procs, ghosts, jobs>>

ToldTo == [enabled : {TRUE}, joystick : BOOLEAN, bridge : {TRUE}, status : {"off", "failed"}]

SetupInit ==
    /\ pfx \in [Games -> {"none", "absent"}] /\ listed = {}
    /\ output = [enabled |-> FALSE, joystick |-> FALSE, bridge |-> TRUE, status |-> "off"]
    /\ sel = NoGame /\ working = {} /\ outcome = {} /\ report = {}
    /\ rows = [g \in Games |-> "off"] /\ query = Games /\ only = FALSE
    /\ placeholder = "none" /\ page = {} /\ dialogs = {}
    /\ alive = TRUE /\ tobii \in BOOLEAN /\ procs = {}
    /\ touched = {} /\ last = NoGame /\ added = {}
    /\ jobs = 0 /\ others = 0

SetupNext ==
    \/ (\E verb \in {"install", "uninstall"} : PressRun(verb))
    \/ PressDetails
    \/ (\E kind \in {"other", "wine"} : PressChooser(kind))
    \/ (\E d \in dialogs : Chosen(d) \/ Dismissed(d) \/ \E f \in Folders : AddChosen(d, f))
    \/ (\E c \in procs : ChildEnds(c) \/ Poll(c))
    \/ (\E g \in Games : RowActivated(g))
    \/ (\E q \in {Games, Folders} : Search(q))
    \/ SetUpOnly \/ PressAdd \/ PressForget \/ Mapped \/ Quit
    \/ (\E g \in Games, v \in {"none", "absent", "files"} : Outside(g, v))
    \/ (\E c \in ToldTo : TrackerTab(c))

SetupSpec == SetupInit /\ [][SetupNext]_setupVars

-----------------------------------------------------------------------------
(* "whose answer is this?": what a page says of a job is said of a job of its *)
(* own game, it is what the slots hold now, its buttons work exactly when no  *)
(* job runs, and there is one child at a time; whichever game was picked, and *)
(* whatever was chosen in a dialog opened for another.                       *)
PageIsOwn ==
    /\ Cardinality(procs) <= 1
    /\ \A v \in page :
         /\ v.game = sel
         /\ v.job.enabled <=> working = {}
         /\ v.job.text = "running" <=> \E c \in procs : c.game = sel
         /\ v.job.text \notin {"none", "running"} => last = sel

(* The rows, the filter over them and the sentence under them agree with the  *)
(* prefixes, unless somebody else changed one: "the game you had just set up  *)
(* was hidden" is not so after a job.                                        *)
RowsAgree ==
    alive /\ working = {} /\ Rows(rows) # {} =>
      /\ \A g \in Rows(rows) \ touched : rows[g] = RowBridge(g, pfx)
      /\ placeholder = NothingShowing(rows, query, only)

(* "What this writes, it reads back": a folder whose adding was not refused   *)
(* is in the list.                                                           *)
AddedIsListed == added \subseteq Rows(rows)

(* The page, the report under it and the rows are about the game that is      *)
(* selected, whichever job ends when, and what was added is among them.       *)
SetupIsOwn == PageIsOwn /\ RowsAgree /\ AddedIsListed
=============================================================================
