----------------------------- MODULE Uninstall -----------------------------
(***************************************************************************)
(* `tobii uninstall` (tobii-cli uninstall.rs): everything is decided in a   *)
(* plan made from what the file system, the package managers and /proc     *)
(* answer; then the user is asked, running copies are stopped, and the     *)
(* plan is carried out, any step of which may fail or be the last.         *)
(*                                                                         *)
(* A directory is described by what those questions answer about it; a     *)
(* binary by what the checks of its file answer.  Symbolic links are       *)
(* resolved: a name here is the one a removal unlinks.                     *)
(***************************************************************************)
EXTENDS Naturals

CONSTANTS
    Dirs,     \* directories an install may be in
    Sites,    \* what the directories may answer, of type [Dirs -> Site]
    Entries,  \* what a desktop entry may run, of type Entry
    Procs     \* running programs

Binaries == {"tobii", "tobii-gtk"}
Paths    == Dirs \X Binaries
Nowhere  == <<"nowhere", "none">>
Of(names) == {<<"home", n>> : n \in names}   \* the other files, of a user or of root

(* What is found under a binary's name: nothing, a name that cannot be       *)
(* looked at, a program that answers --version as this one, a program that   *)
(* answers something else, a script, or what another account owns or writes. *)
Finds == {"absent", "hidden", "ours", "stranger", "script", "foreign"}

Site == [listed   : BOOLEAN,  \* in this mode's install manifest
         system   : BOOLEAN,  \* in the system manifest, seen by a user
         inferred : BOOLEAN,  \* ~/.local/bin, or given as --bindir
         tree     : BOOLEAN,  \* a build tree or an unpacked archive
         rooted   : BOOLEAN,  \* nobody but root can change what is there
         cargo    : SUBSET Binaries, \* what Cargo's record lists
         owner    : {"none", "package", "unknown"},
         writable : BOOLEAN,
         bin      : [Binaries -> Finds]]

(* A desktop entry: absent, unreadable, or an Exec that names programs: one  *)
(* by its path, or those PATH finds for a bare name.                         *)
Entry == [kind : {"absent", "unread", "path", "bare"}, runs : SUBSET (Paths \cup {Nowhere})]

UninstallAssumption == Sites \subseteq [Dirs -> Site] /\ Entries \subseteq Entry

VARIABLES
    place,    \* the world as the plan finds it: site, entry, mode, purge, me, exe
    disk,     \* the names that exist
    manifest, \* the bindir= lines of the install manifest
    running,  \* the processes that are running
    plan,     \* Plan
    step,     \* where `run` is
    failed    \* Outcome::failed

uninstallVars == <<place, disk, manifest, running, plan, step, failed>>

Names == {"menu", "autostart"}
Purgeable == {"settings", "profile"}    \* written by this program
Foreign   == {"note"}                   \* beside it, and not

NoPlan == [remove |-> {}, self |-> Nowhere, drop |-> {}, stop |-> {}, orphans |-> {}, others |-> {}]

-----------------------------------------------------------------------------
(* The plan.  `site` and `entry` are what it reads. *)
site  == place.site
entry == place.entry
root  == place.mode = "system"

There(p) == p \in Paths /\ site[p[1]].bin[p[2]] \notin {"absent", "hidden"}
Present(d) == {b \in Binaries : There(<<d, b>>)}

(* exec_target says where to look only when it is an absolute path. *)
ExecDirs(e) == IF entry[e].kind = "path" THEN {p[1] : p \in entry[e].runs \ {Nowhere}} ELSE {}

(* Where to look: the manifests, the entries' programs, where this program   *)
(* runs from, the default directory, --bindir; as root only the manifest and *)
(* --bindir.                                                                 *)
Found ==
    {d \in Dirs : site[d].listed \/ site[d].inferred}
      \cup IF root THEN {}
           ELSE {d \in Dirs : site[d].system} \cup UNION {ExecDirs(e) : e \in Names}
                  \cup (Dirs \cap {place.me[1]})

(* not_an_install; only the manifest says otherwise. *)
NotAnInstall(d) == ~site[d].listed /\ site[d].tree

(* A system install is root's to remove, where root will. *)
RootsToRemove(d) == ~root /\ site[d].system /\ site[d].rooted

(* A fault: what Cargo installed for this user is not asked about. *)
MutCargoListed(d) == IF site[d].listed \/ site[d].rooted THEN {} ELSE site[d].cargo \cap Present(d)

(* cargo_listed: what is Cargo's is left to it, and as root the record is    *)
(* not opened where somebody else could have written it.                     *)
CargoListed(d) ==
    IF site[d].listed \/ (root /\ ~site[d].rooted) THEN {} ELSE site[d].cargo \cap Present(d)

(* Not looked at any further. *)
LeftAlone(d) ==
    \/ NotAnInstall(d) \/ Present(d) = {} \/ RootsToRemove(d)
    \/ CargoListed(d) = Present(d)

(* A package manager that cannot be asked stops everything. *)
Refused == \E d \in Found : ~LeftAlone(d) /\ site[d].owner = "unknown"

(* listed_check: of a listed directory, a program of ours or root's. *)
ListedCheck(p) ==
    /\ root => site[p[1]].rooted
    /\ site[p[1]].bin[p[2]] \in {"ours", "stranger"}

(* Fs::vet, and then the binary is asked: of a directory found by inference, *)
(* a program nobody else could have put there, that says what it is.         *)
Vetted(p) ==
    /\ root => site[p[1]].rooted
    /\ site[p[1]].bin[p[2]] = "ours"

Judged(p) ==
    /\ p[2] \notin CargoListed(p[1])
    /\ IF site[p[1]].listed THEN ListedCheck(p) ELSE Vetted(p)

Removing ==
    {p \in Found \X Binaries :
        /\ ~LeftAlone(p[1]) /\ site[p[1]].owner = "none" /\ site[p[1]].writable
        /\ There(p) /\ Judged(p)}

(* Directories whose manifest lines can go: emptied by this run, or empty.   *)
(* One that cannot be looked at is not known to be.                          *)
Cleared ==
    {d \in Found \ {x \in Dirs : NotAnInstall(x)} :
        \/ \A b \in Binaries : site[d].bin[b] = "absent"
        \/ Present(d) # {} /\ \A b \in Present(d) : <<d, b>> \in Removing}

(* A fault: a bare name is judged by the first copy it finds. *)
MutEntryGoes(e) ==
    \/ /\ entry[e].kind = "path"
       /\ \A p \in entry[e].runs : p = Nowhere \/ site[p[1]].bin[p[2]] = "absent" \/ p \in Removing
    \/ entry[e].kind = "bare" /\ entry[e].runs \cap Removing # {}

(* entry_decision: an entry goes when what it runs is gone or going. *)
EntryGoes(e) ==
    \/ /\ entry[e].kind = "path"
       /\ \A p \in entry[e].runs : p = Nowhere \/ site[p[1]].bin[p[2]] = "absent" \/ p \in Removing
    \/ /\ entry[e].kind = "bare"
       /\ entry[e].runs # {} /\ entry[e].runs \subseteq Removing

(* The icon goes with the menu entry, and stays with it. *)
IconGoes == Of({"icon"}) \subseteq disk /\ (entry["menu"].kind # "absent" => EntryGoes("menu"))

(* purge_dir: the names this program writes, and nothing else. *)
Purges == IF place.purge THEN Of(Purgeable) \cap disk ELSE {}

(* Running copies of what goes are stopped first; a hub whose program was    *)
(* deleted is offered; one that stays is left.                               *)
Stop    == {q \in running : place.exe[q] \in Removing}
Orphans == {q \in running : ~root /\ place.exe[q] = Nowhere}
Others  == {q \in running : place.exe[q] \in Paths \ Removing /\ place.exe[q][2] = "tobii-gtk"}

(* In this order: binaries, whichever of them first, the menu entry and its   *)
(* icon, start-at-login, and the settings, subdirectories first.             *)
Order == [menu |-> 1, icon |-> 2, autostart |-> 3, profile |-> 4, settings |-> 5]
Turn(x) == IF x \in Paths THEN 0 ELSE Order[x[2]]
Firsts(s) == {x \in s : \A y \in s : Turn(x) <= Turn(y)}

ToRemove ==
    (Removing \ {place.me}) \cup Purges
      \cup Of({e \in Names : EntryGoes(e) /\ ~(root /\ e = "autostart")})
      \cup (IF IconGoes THEN Of({"icon"}) ELSE {})

MakePlan ==
    [remove  |-> ToRemove,
     self    |-> IF place.me \in Removing THEN place.me ELSE Nowhere,
     drop    |-> Cleared \cap manifest,
     stop    |-> Stop, orphans |-> Orphans, others |-> Others]

(* Plan::is_empty *)
NothingToDo(p) == p.remove = {} /\ p.self = Nowhere /\ p.drop = {} /\ ~place.purge

-----------------------------------------------------------------------------
(* A fault: the manifest's lines go as planned, whatever is left. *)
MutEmptied(d) == d \in plan.drop

(* Refused before anything is read: root has no settings to purge. *)
Guarded == root /\ place.purge

(* `run`: the plan is made and shown. *)
Plan ==
    /\ step = "start"
    /\ \/ /\ Guarded \/ Refused
          /\ step' = "end" /\ UNCHANGED plan
       \/ /\ ~Guarded /\ ~Refused
          /\ plan' = MakePlan
          /\ step' \in {"end", "stop"}                 \* a dry run, or a no, ends here
    /\ UNCHANGED <<place, disk, manifest, running, failed>>

(* A process ends by itself, or because the hub was asked to quit. *)
Exits(q) ==
    /\ q \in running /\ step \in {"start", "stop", "term", "wait"}
    /\ running' = running \ {q}
    /\ UNCHANGED <<place, disk, manifest, plan, step, failed>>

ToStop == plan.stop \cup plan.orphans
Stopping == running \cap ToStop    \* still_running, of those

(* stop_running: none left, or the user will not have them asked; then the   *)
(* run goes on only if none of them is ours.                                 *)
StopNone ==
    /\ step = "stop"
    /\ Stopping = {} \/ plan.stop = {}
    /\ step' = IF NothingToDo(plan) THEN "nothing" ELSE "remove"
    /\ UNCHANGED <<place, disk, manifest, running, plan, failed>>

StopDeclined ==
    /\ step \in {"stop", "term"} /\ running \cap plan.stop # {}
    /\ step' = "end"
    /\ UNCHANGED <<place, disk, manifest, running, plan, failed>>

(* wait_gone, then SIGTERM to those that are still who they were, ... *)
StopAsked ==
    /\ step = "stop" /\ Stopping # {}
    /\ step' = "term"
    /\ UNCHANGED <<place, disk, manifest, running, plan, failed>>

StopTerm ==
    /\ step = "term" /\ Stopping # {}
    /\ step' = "wait"
    /\ UNCHANGED <<place, disk, manifest, running, plan, failed>>

(* ... and a copy of ours that runs even then ends the run. *)
StopDone ==
    /\ step = "wait" \/ (step = "term" /\ running \cap plan.stop = {})
    /\ step' = IF running \cap plan.stop # {} THEN "end"
               ELSE IF NothingToDo(plan) THEN "nothing" ELSE "remove"
    /\ UNCHANGED <<place, disk, manifest, running, plan, failed>>

-----------------------------------------------------------------------------
(* execute: each removal succeeds, fails, or finds nothing there. *)
RemoveOne ==
    /\ step = "remove"
    /\ \E x \in Firsts(plan.remove) :
         /\ plan' = [plan EXCEPT !.remove = @ \ {x}]
         /\ \/ disk' = disk \ {x} /\ UNCHANGED failed
            \/ x \in disk /\ failed' = failed \cup {x} /\ UNCHANGED disk
    /\ UNCHANGED <<place, manifest, running, step>>

(* apply_manifest: decided again, against what is left. *)
SelfGoing == IF failed = {} THEN plan.self ELSE Nowhere
MayBeThere(p) == p \in disk \/ site[p[1]].bin[p[2]] = "hidden"
Emptied(d) ==
    d \in plan.drop /\ \A b \in Binaries : MayBeThere(<<d, b>>) => <<d, b>> = SelfGoing

ApplyManifest ==
    /\ step = "remove" /\ plan.remove = {}
    /\ \/ manifest' = {d \in manifest : ~Emptied(d)} /\ UNCHANGED failed
       \/ plan.drop # {} /\ failed' = failed \cup Of({"manifest"}) /\ UNCHANGED manifest
    /\ step' = "rmdir"
    /\ UNCHANGED <<place, disk, running, plan>>

(* remove_dir, each only if it is empty by then: profiles, and then config. *)
EmptyDirs ==
    IF ~place.purge \/ Of({"profile", "note"}) \cap disk # {} THEN {}
    ELSE IF Of({"settings"}) \subseteq disk THEN Of({"profiles"}) ELSE Of({"profiles", "config"})
RemoveDirs ==
    /\ step = "rmdir"
    /\ disk' = disk \ EmptyDirs
    /\ step' = "icons"
    /\ UNCHANGED <<place, manifest, running, plan, failed>>

(* refresh_icon_cache: the tool deletes a cache that has no icon left. *)
RefreshIcons ==
    /\ step = "icons"
    /\ disk' \in {disk, IF Of({"icon"}) \subseteq disk THEN disk ELSE disk \ Of({"cache"})}
    /\ step' = "self"
    /\ UNCHANGED <<place, manifest, running, plan, failed>>

(* This program goes last, and only if nothing has failed. *)
RemoveSelf ==
    /\ step = "self" /\ plan.self # Nowhere /\ failed = {}
    /\ \/ disk' = disk \ {plan.self} /\ UNCHANGED failed
       \/ failed' = {plan.self} /\ UNCHANGED disk
    /\ step' = "done"
    /\ UNCHANGED <<place, manifest, running, plan>>

SelfKept ==
    /\ step = "self" /\ (plan.self = Nowhere \/ failed # {})
    /\ step' = "done"
    /\ UNCHANGED <<place, disk, manifest, running, plan, failed>>

(* run_udev, also when there is nothing else to do: asked, and any of its    *)
(* commands may be the last.                                                 *)
RunUdev ==
    /\ step \in {"done", "nothing"} /\ Of({"rule"}) \subseteq disk
    /\ disk' \in {disk, disk \ Of({"rule"})}
    /\ step' = IF step = "done" THEN "over" ELSE "end"
    /\ UNCHANGED <<place, manifest, running, plan, failed>>

(* Stopped anywhere.  It is run again by what is left. *)
Interrupted ==
    /\ step \in {"stop", "remove", "rmdir", "icons", "self"}
    /\ step' = "end"
    /\ UNCHANGED <<place, disk, manifest, running, plan, failed>>

UninstallNext ==
    \/ Plan \/ StopNone \/ StopDeclined \/ StopAsked \/ StopTerm \/ StopDone
    \/ (\E q \in Procs : Exits(q)) \/ RemoveOne
    \/ ApplyManifest \/ RemoveDirs \/ RefreshIcons \/ RemoveSelf \/ SelfKept \/ RunUdev
    \/ Interrupted

-----------------------------------------------------------------------------
(* A world: what runs is there, and this program is where it says it is. *)
World(w) ==
    /\ w.me # Nowhere => w.site[w.me[1]].bin["tobii"] = "ours"
    /\ \A q \in Procs : w.exe[q] \in Paths => w.site[w.exe[q][1]].bin[w.exe[q][2]] # "absent"
    /\ w.mode = "system" => \A d \in Dirs : ~w.site[d].system

AtFirst ==
    {p \in Paths : There(p)} \cup Of({e \in Names : entry[e].kind # "absent"})
      \cup Of({"icon", "cache", "settings", "profile", "profiles", "config", "rule"})

UninstallInit ==
    /\ \E s \in Sites, e \in [Names -> Entries], m \in {"user", "system"},
          p \in BOOLEAN, me \in (Dirs \X {"tobii"}) \cup {Nowhere},
          x \in [Procs -> (Dirs \X {"tobii-gtk"}) \cup {Nowhere}] :
          place = [site |-> s, entry |-> e, mode |-> m, purge |-> p, me |-> me, exe |-> x]
    /\ World(place)
    /\ disk = AtFirst
    /\ manifest = {d \in Dirs : site[d].listed}
    /\ running = Procs /\ plan = NoPlan /\ step = "start" /\ failed = {}

UninstallSpec == UninstallInit /\ [][UninstallNext]_uninstallVars

Gone(p) == There(p) /\ p \notin disk

(* Whatever fails and wherever it is stopped, the next run finds what is     *)
(* left: a listed directory keeps its line while a binary is in it, unless   *)
(* that is the very program to run again, which is kept to the end.          *)
LinesStay ==
    \A d \in Dirs \ manifest : site[d].listed =>
        \A b \in Binaries : MayBeThere(<<d, b>>) => <<d, b>> = place.me
Retryable == LinesStay /\ (Gone(place.me) => failed = {} /\ plan.remove = {})

(* "What it never does": a binary that is gone was this program's by the     *)
(* manifest or by its own word, no package manager's, no cargo's, and, for   *)
(* root, nothing that another account could have swapped.                    *)
OnlyOurs ==
    \A p \in Paths : Gone(p) =>
        /\ site[p[1]].owner = "none" /\ site[p[1]].bin[p[2]] \notin {"script", "foreign"}
        /\ site[p[1]].listed \/ (site[p[1]].bin[p[2]] = "ours" /\ ~site[p[1]].tree /\ p[2] \notin site[p[1]].cargo)
        /\ root => site[p[1]].rooted

(* An uninstall that says it succeeded switched nothing off: an entry that   *)
(* is gone ran nothing that is still there, and none of the copies that are  *)
(* gone was running.                                                         *)
SwitchesNothingOff ==
    /\ step \in {"done", "over"} /\ failed = {} =>
         \A e \in Names : entry[e].kind # "absent" /\ Of({e}) \cap disk = {} => entry[e].runs \cap disk = {}
    /\ \A q \in running : Gone(place.exe[q]) => q \notin plan.stop

(* The three of them: an uninstall that failed can be run again and will      *)
(* find what it left, takes nothing it did not put there, and does not take   *)
(* away what an install that stays needs.                                     *)
UninstallIsSafe == Retryable /\ OnlyOurs /\ SwitchesNothingOff

(* Why: what is planned is what was judged, and this program is not in the    *)
(* list; what is gone was planned; ...                                       *)
PlanIsJudged ==
    /\ DOMAIN plan = DOMAIN NoPlan
    /\ plan.remove \cap Paths \subseteq Removing \ {place.me}
    /\ \A e \in Names : <<"home", e>> \in plan.remove => EntryGoes(e)
    /\ plan.self # Nowhere => plan.self = place.me /\ plan.self \in Removing
GoneIsJudged ==
    /\ disk \subseteq AtFirst
    /\ \A p \in Paths : Gone(p) => p \in Removing
    /\ \A e \in Names : <<"home", e>> \in AtFirst \ disk => EntryGoes(e)

(* ... nothing goes before the copies that were to be stopped have stopped;   *)
(* then each of what was judged has gone, has failed, or is still to come;    *)
(* and this program goes when all that is over.                              *)
Deciding == {"start", "stop", "term", "wait"}
Acting == {"remove", "rmdir", "icons", "self"}
StoppedFirst ==
    /\ step \in Deciding => disk = AtFirst /\ failed = {}
    /\ step \in Acting \cup {"done", "over", "nothing"} \/ disk # AtFirst => running \cap plan.stop = {}
AllIsDone ==
    /\ step \in (Deciding \ {"start"}) \cup Acting => Removing \cap disk \subseteq plan.remove \cup failed \cup {plan.self}
    /\ step \in (Acting \ {"remove"}) \cup {"done", "over"} => plan.remove = {}
    /\ step \in {"done", "over"} /\ failed = {} => Removing \cap disk = {}
SelfLast == Gone(place.me) => failed = {} /\ plan.remove = {} /\ step \in {"done", "over"}

PlaceOK == place.site \in [Dirs -> Site] /\ place.entry \in [Names -> Entry]
UninstallInv ==
    /\ PlaceOK /\ PlanIsJudged /\ GoneIsJudged /\ StoppedFirst /\ AllIsDone /\ SelfLast
    /\ Retryable
=============================================================================
