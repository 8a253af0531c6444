------------------------------- MODULE Install -------------------------------
(***************************************************************************)
(* The updater (tobii-update, install.rs): a run sweeps the install        *)
(* directory, downloads and unpacks a release into a scratch directory,    *)
(* stages a copy of every installed binary beside it, runs each copy once, *)
(* and swaps them in with a hard link to the old one, or puts everything   *)
(* back.  Nothing keeps the hub's banner and `tobii update --install` from *)
(* running at once, or either from being killed at any point.              *)
(*                                                                         *)
(* A file is an inode: who made it and whether it starts.  A step is one   *)
(* change another process can see; removals that come in a row are one.    *)
(***************************************************************************)
EXTENDS Integers

CONSTANTS
    Pids,         \* processes that update, and the pids in their file names
    NBinaries,    \* BINARIES, in order
    MaxInstalls,  \* how often an update is started
    MaxKills      \* how many of them are killed

ASSUME InstallAssumption ==
    NBinaries \in Nat /\ MaxInstalls \in Nat /\ MaxKills \in Nat

Bins == 1..NBinaries

(* `by` is the run that wrote the file, 0 what was there before; it is good  *)
(* when `--version` answers here, broken when it does not, torn while (or    *)
(* because) the copy is incomplete.                                          *)
Files == [by : Nat, state : {"none", "torn", "broken", "good"}]
NoFile == [by |-> 0, state |-> "none"]
Original == [by |-> 0, state |-> "good"]
Exists(f) == f.state # "none"

VARIABLES
    target,    \* what the name of each binary leads to
    staging,   \* .<bin>.new-<pid>
    backup,    \* .<bin>.old-<pid>
    work,      \* .tobii-update-<pid>: nothing, an archive, an unpacked tree
    at,        \* where each process is
    run,       \* which run it is on
    archive,   \* the binaries its archive carries, and those that start here
    cur,       \* the binary it is at
    staged, missing, done,  \* the locals of the same names
    result, restored,       \* what it reports
    installs, kills,
    \* history
    before,    \* the binaries as they were when its run began
    alone      \* no other run was under way at any moment of this one

files    == <<target, staging, backup, work>>
locals   == <<archive, cur, staged, missing, done, result, restored>>
counters == <<run, installs, kills, before, alone>>
installVars == <<files, at, locals, counters>>

Live(p) == at[p] # "idle"
Installed == {b \in Bins : Exists(target[b])}
Empty == [b \in Bins |-> NoFile]

InstallInit ==
    /\ \E here \in SUBSET Bins :
         target = [b \in Bins |-> IF b \in here THEN Original ELSE NoFile]
    /\ staging = [p \in Pids |-> Empty] /\ backup = [p \in Pids |-> Empty]
    /\ work = [p \in Pids |-> "none"]
    /\ at = [p \in Pids |-> "idle"] /\ run = [p \in Pids |-> 0]
    /\ archive = [p \in Pids |-> [carries |-> {}, works |-> {}]]
    /\ cur = [p \in Pids |-> 0]
    /\ staged = [p \in Pids |-> {}] /\ missing = [p \in Pids |-> {}]
    /\ done = [p \in Pids |-> {}]
    /\ result = [p \in Pids |-> "none"] /\ restored = [p \in Pids |-> TRUE]
    /\ installs = 0 /\ kills = 0
    /\ before = [p \in Pids |-> target] /\ alone = [p \in Pids |-> TRUE]

Go(p, there) == at' = [at EXCEPT ![p] = there]
Report(p, r) == result' = [result EXCEPT ![p] = r]

(* Faults the properties must notice; the specification uses none of them:   *)
(* the old binary is moved aside instead of linked; the sweep takes rollback *)
(* links too; a failed swap stops without undoing the others; an empty       *)
(* release counts as installed.                                              *)
MutLinked(p) ==
    LET b == cur[p] IN
    /\ at[p] = "link" /\ b \in staged[p] /\ Exists(target[b])
    /\ backup' = [backup EXCEPT ![p][b] = target[b]]
    /\ target' = [target EXCEPT ![b] = NoFile]
    /\ Go(p, "rename")
    /\ UNCHANGED <<staging, work, locals, counters>>
MutNotComplete(p) ==
    /\ at[p] = "stage" /\ cur[p] \notin Bins /\ (staged[p] = {} \/ missing[p] # {})
    /\ Report(p, IF staged[p] = {} THEN "ok" ELSE "failed")
    /\ Go(p, IF staged[p] = {} THEN "cleanup" ELSE "unstage")
    /\ UNCHANGED <<files, archive, cur, staged, missing, done, restored, counters>>
MutSweep(p) ==
    /\ at[p] = "sweep"
    /\ staging' = [q \in Pids |-> IF q = p THEN staging[q] ELSE Empty]
    /\ backup' = [q \in Pids |-> IF q = p THEN backup[q] ELSE Empty]
    /\ work' = [q \in Pids |-> IF q = p THEN work[q] ELSE "none"]
    /\ Go(p, "mkdir")
    /\ UNCHANGED <<target, locals, counters>>
MutSwapFails(p) ==
    LET b == cur[p] IN
    /\ at[p] \in {"link", "rename"} /\ b \in staged[p]
    /\ backup' = [backup EXCEPT ![p][b] = NoFile]
    /\ Report(p, "rolledback") /\ Go(p, "unstage")
    /\ UNCHANGED <<target, staging, work, archive, cur, staged, missing, done, restored, counters>>

-----------------------------------------------------------------------------
(* install_release, past its refusals. *)
Begin(p) ==
    /\ ~Live(p) /\ installs < MaxInstalls
    /\ installs' = installs + 1 /\ run' = [run EXCEPT ![p] = installs']
    /\ before' = [before EXCEPT ![p] = target]
    /\ alone' = [q \in Pids |->
                   IF q = p THEN \A o \in Pids : ~Live(o)
                   ELSE alone[q] /\ ~Live(q)]
    /\ cur' = [cur EXCEPT ![p] = 0]
    /\ staged' = [staged EXCEPT ![p] = {}] /\ missing' = [missing EXCEPT ![p] = {}]
    /\ done' = [done EXCEPT ![p] = {}] /\ restored' = [restored EXCEPT ![p] = TRUE]
    /\ Report(p, "none") /\ Go(p, "sweep")
    /\ UNCHANGED <<files, archive, kills>>

(* sweep_stale_scratch: by name, whoever is still using it, but for rollback *)
(* links and this process's own files.                                       *)
Sweep(p) ==
    /\ at[p] = "sweep"
    /\ staging' = [q \in Pids |-> IF q = p THEN staging[q] ELSE Empty]
    /\ work' = [q \in Pids |-> IF q = p THEN work[q] ELSE "none"]
    /\ Go(p, "mkdir")
    /\ UNCHANGED <<target, backup, locals, counters>>

(* The scratch directory, anew. *)
MakeWork(p) ==
    /\ at[p] = "mkdir"
    /\ work' = [work EXCEPT ![p] = "empty"] /\ Go(p, "download")
    /\ UNCHANGED <<target, staging, backup, locals, counters>>

(* install_inner and the digest check; then tar. *)
Download(p) ==
    /\ at[p] = "download" /\ work[p] # "none"
    /\ work' = [work EXCEPT ![p] = "archive"]
    /\ \E carries \in SUBSET Bins : \E works \in SUBSET carries :
         archive' = [archive EXCEPT ![p] = [carries |-> carries, works |-> works]]
    /\ Go(p, "unpack")
    /\ UNCHANGED <<target, staging, backup, cur, staged, missing, done, result, restored, counters>>

Unpack(p) ==
    /\ at[p] = "unpack" /\ work[p] = "archive"
    /\ work' = [work EXCEPT ![p] = "unpacked"]
    /\ cur' = [cur EXCEPT ![p] = 1] /\ Go(p, "stage")
    /\ UNCHANGED <<target, staging, backup, archive, staged, missing, done, result, restored, counters>>

(* No network, a digest that does not match, no tar, no room, no directory. *)
FetchFails(p) ==
    /\ at[p] \in {"mkdir", "download", "unpack"}
    /\ Report(p, "failed") /\ Go(p, "cleanup")
    /\ UNCHANGED <<files, archive, cur, staged, missing, done, restored, counters>>

(* The staging loop, one binary at a time: only what is installed here, and  *)
(* what the archive does not carry is remembered.                            *)
PassOver(p) ==
    LET b == cur[p] IN
    /\ at[p] = "stage" /\ b \in Bins
    /\ ~Exists(target[b]) \/ b \notin archive[p].carries \/ work[p] # "unpacked"
    /\ missing' = [missing EXCEPT ![p] = IF Exists(target[b]) THEN @ \cup {b} ELSE @]
    /\ cur' = [cur EXCEPT ![p] = b + 1]
    /\ UNCHANGED <<files, at, archive, staged, done, result, restored, counters>>

Stage(p) ==
    LET b == cur[p] IN
    /\ at[p] = "stage" /\ b \in Bins
    /\ Exists(target[b]) /\ b \in archive[p].carries /\ work[p] = "unpacked"
    /\ staging' = [staging EXCEPT ![p][b] = [by |-> run[p], state |-> "torn"]]
    /\ staged' = [staged EXCEPT ![p] = @ \cup {b}] /\ Go(p, "copy")
    /\ UNCHANGED <<target, backup, work, archive, cur, missing, done, result, restored, counters>>

(* fs::copy and set_executable, on a file that is still there. *)
Copied(p) ==
    LET b == cur[p] IN
    /\ at[p] = "copy" /\ Exists(staging[p][b])
    /\ staging' = [staging EXCEPT ![p][b].state =
                     IF b \in archive[p].works THEN "good" ELSE "broken"]
    /\ Go(p, "probe")
    /\ UNCHANGED <<target, backup, work, locals, counters>>

(* probe: the copy is run, and answers; swept while it runs, it still does;  *)
Probed(p) ==
    /\ at[p] = "probe" /\ cur[p] \in archive[p].works
    /\ staging[p][cur[p]].state \in {"good", "none"}
    /\ cur' = [cur EXCEPT ![p] = @ + 1] /\ Go(p, "stage")
    /\ UNCHANGED <<files, archive, staged, missing, done, result, restored, counters>>

(* or a copy fails half way, cannot be started, hangs or exits with an error.*)
StagingFails(p) ==
    /\ at[p] \in {"copy", "probe"}
    /\ Report(p, "failed") /\ Go(p, "unstage")
    /\ UNCHANGED <<files, archive, cur, staged, missing, done, restored, counters>>

(* Nothing to install, an incomplete release, or everything is ready. *)
StagingDone(p) ==
    /\ at[p] = "stage" /\ cur[p] \notin Bins /\ staged[p] # {} /\ missing[p] = {}
    /\ cur' = [cur EXCEPT ![p] = 1] /\ Go(p, "link")
    /\ UNCHANGED <<files, archive, staged, missing, done, result, restored, counters>>
NotComplete(p) ==
    /\ at[p] = "stage" /\ cur[p] \notin Bins /\ (staged[p] = {} \/ missing[p] # {})
    /\ Report(p, "failed") /\ Go(p, IF staged[p] = {} THEN "cleanup" ELSE "unstage")
    /\ UNCHANGED <<files, archive, cur, staged, missing, done, restored, counters>>

(* remove_staged *)
Unstage(p) ==
    /\ at[p] = "unstage"
    /\ staging' = [staging EXCEPT ![p] = [b \in Bins |->
                     IF b \in staged[p] THEN NoFile ELSE staging[p][b]]]
    /\ Go(p, "cleanup")
    /\ UNCHANGED <<target, backup, work, locals, counters>>

-----------------------------------------------------------------------------
(* swap_in: a hard link to the old binary, then the rename over it. *)
Skip(p) ==
    /\ at[p] = "link" /\ cur[p] \in Bins \ staged[p]
    /\ cur' = [cur EXCEPT ![p] = @ + 1]
    /\ UNCHANGED <<files, at, archive, staged, missing, done, result, restored, counters>>

Linked(p) ==
    LET b == cur[p] IN
    /\ at[p] = "link" /\ b \in staged[p] /\ Exists(target[b])
    /\ backup' = [backup EXCEPT ![p][b] = target[b]]
    /\ Go(p, "rename")
    /\ UNCHANGED <<target, staging, work, locals, counters>>

Renamed(p) ==
    LET b == cur[p] IN
    /\ at[p] = "rename" /\ Exists(staging[p][b])
    /\ target' = [target EXCEPT ![b] = staging[p][b]]
    /\ staging' = [staging EXCEPT ![p][b] = NoFile]
    /\ done' = [done EXCEPT ![p] = @ \cup {b}]
    /\ cur' = [cur EXCEPT ![p] = b + 1] /\ Go(p, "link")
    /\ UNCHANGED <<backup, work, archive, staged, missing, result, restored, counters>>

(* Either call fails: this entry only loses its link, ... *)
SwapFails(p) ==
    LET b == cur[p] IN
    /\ at[p] \in {"link", "rename"} /\ b \in staged[p]
    /\ backup' = [backup EXCEPT ![p][b] = NoFile]
    /\ cur' = [cur EXCEPT ![p] = b - 1]
    /\ Report(p, "rolledback") /\ Go(p, "undo")
    /\ UNCHANGED <<target, staging, work, archive, staged, missing, done, restored, counters>>

(* ... and those that landed are put back, newest first.  A rename between   *)
(* two links of one inode succeeds and does nothing.                         *)
Undo(p) ==
    LET b == cur[p] IN
    /\ at[p] = "undo" /\ b \in done[p] /\ Exists(backup[p][b]) /\ backup[p][b] # target[b]
    /\ target' = [target EXCEPT ![b] = backup[p][b]]
    /\ backup' = [backup EXCEPT ![p][b] = NoFile]
    /\ done' = [done EXCEPT ![p] = @ \ {b}] /\ cur' = [cur EXCEPT ![p] = b - 1]
    /\ UNCHANGED <<staging, work, at, archive, staged, missing, result, restored, counters>>

UndoIsNothing(p) ==
    LET b == cur[p] IN
    /\ at[p] = "undo" /\ b \in done[p] /\ backup[p][b] = target[b]
    /\ done' = [done EXCEPT ![p] = @ \ {b}] /\ cur' = [cur EXCEPT ![p] = b - 1]
    /\ UNCHANGED <<files, at, archive, staged, missing, result, restored, counters>>

UndoFails(p) ==
    /\ at[p] = "undo" /\ cur[p] \in done[p]
    /\ restored' = [restored EXCEPT ![p] = FALSE]
    /\ cur' = [cur EXCEPT ![p] = @ - 1]
    /\ UNCHANGED <<files, at, archive, staged, missing, done, result, counters>>

UndoNext(p) ==
    /\ at[p] = "undo" /\ cur[p] \notin done[p] /\ cur[p] > 0
    /\ cur' = [cur EXCEPT ![p] = @ - 1]
    /\ UNCHANGED <<files, at, archive, staged, missing, done, result, restored, counters>>

UndoDone(p) ==
    /\ at[p] = "undo" /\ cur[p] = 0
    /\ Go(p, "unstage")
    /\ UNCHANGED <<files, archive, cur, staged, missing, done, result, restored, counters>>

(* Everything landed: the links go. *)
SwapDone(p) ==
    /\ at[p] = "link" /\ cur[p] \notin Bins
    /\ backup' = [backup EXCEPT ![p] = [b \in Bins |->
                    IF b \in done[p] THEN NoFile ELSE backup[p][b]]]
    /\ Report(p, "ok") /\ Go(p, "cleanup")
    /\ UNCHANGED <<target, staging, work, archive, cur, staged, missing, done, restored, counters>>

(* The scratch directory goes whatever happened, and the run is over. *)
Cleanup(p) ==
    /\ at[p] = "cleanup"
    /\ work' = [work EXCEPT ![p] = "none"] /\ Go(p, "idle")
    /\ UNCHANGED <<target, staging, backup, locals, counters>>

(* The process is killed; its files stay, and its pid may come again. *)
Killed(p) ==
    /\ Live(p) /\ kills < MaxKills
    /\ kills' = kills + 1
    /\ Report(p, IF at[p] = "cleanup" THEN result[p] ELSE "killed") /\ Go(p, "idle")
    /\ UNCHANGED <<files, archive, cur, staged, missing, done, restored, run, installs, before, alone>>

InstallStep(p) ==
    \/ Begin(p) \/ Sweep(p) \/ MakeWork(p) \/ Download(p) \/ Unpack(p) \/ FetchFails(p)
    \/ PassOver(p) \/ Stage(p) \/ Copied(p) \/ Probed(p) \/ StagingFails(p)
    \/ StagingDone(p) \/ NotComplete(p) \/ Unstage(p)
    \/ Skip(p) \/ Linked(p) \/ Renamed(p) \/ SwapFails(p)
    \/ Undo(p) \/ UndoIsNothing(p) \/ UndoFails(p) \/ UndoNext(p) \/ UndoDone(p)
    \/ SwapDone(p) \/ Cleanup(p) \/ Killed(p)

InstallNext == \E p \in Pids : InstallStep(p)
InstallSpec == InstallInit /\ [][InstallNext]_installVars

-----------------------------------------------------------------------------
InstallTypeOK ==
    /\ target \in [Bins -> Files]
    /\ staging \in [Pids -> [Bins -> Files]] /\ backup \in [Pids -> [Bins -> Files]]
    /\ work \in [Pids -> {"none", "empty", "archive", "unpacked"}]
    /\ at \in [Pids -> {"idle", "sweep", "mkdir", "download", "unpack", "stage", "copy",
                        "probe", "unstage", "link", "rename", "undo", "cleanup"}]
    /\ run \in [Pids -> Nat] /\ cur \in [Pids -> Nat]
    /\ archive \in [Pids -> [carries : SUBSET Bins, works : SUBSET Bins]]
    /\ staged \in [Pids -> SUBSET Bins] /\ missing \in [Pids -> SUBSET Bins]
    /\ done \in [Pids -> SUBSET Bins]
    /\ result \in [Pids -> {"none", "failed", "rolledback", "ok", "killed"}]
    /\ restored \in [Pids -> BOOLEAN] /\ alone \in [Pids -> BOOLEAN]
    /\ installs \in Nat /\ kills \in Nat
    /\ before \in [Pids -> [Bins -> Files]]

(* Whatever was installed stays there and starts, at every moment, whichever *)
(* updater was killed where, and however many of them there were: "there is  *)
(* never a moment when the path does not exist", and nothing that was not    *)
(* run once takes its place.                                                 *)
AlwaysRunnable ==
    \A b \in Bins :
        /\ target[b].state \in {"none", "good"}
        /\ \A p \in Pids : Exists(before[p][b]) => Exists(target[b])

(* A run nobody interfered with ends with every installed binary replaced by *)
(* its own, or with every one as it was, unless it reports that it could not *)
(* put one back: never a mismatched pair.                                    *)
AllOrNothing ==
    \A p \in Pids : at[p] = "cleanup" /\ alone[p] /\ restored[p] =>
        IF result[p] = "ok" THEN \A b \in Installed : target[b].by = run[p]
        ELSE target = before[p]

(* A run that replaced binaries and neither finished nor put them back       *)
(* (killed in between, or unable to) leaves each previous one under its      *)
(* rollback link, which no later run's sweep takes.                          *)
OldReachable ==
    \A p \in Pids : ~Live(p) /\ alone[p] /\ result[p] # "ok" =>
        \A b \in done[p] : before[p][b] \in {target[b], backup[p][b]}

(* A run of the updater nobody interfered with replaces every binary or none *)
(* (AllOrNothing), and one that was cut short leaves each previous binary    *)
(* under its rollback link (OldReachable).                                   *)
UpdateIsWhole == AllOrNothing /\ OldReachable

-----------------------------------------------------------------------------
(* Why every name leads to a binary that starts: what is about to be renamed *)
(* was run, or has been swept; what is about to be put back was in place.    *)
StagedWereRun ==
    \A p \in Pids : \A b \in staged[p] :
        \/ staging[p][b].state \in {"none", "good"}
        \/ at[p] \in {"copy", "probe"} /\ b = cur[p]
        \/ at[p] \notin {"stage", "copy", "probe", "link", "rename"}
LinksWereInPlace ==
    \A p \in Pids : \A b \in Bins : backup[p][b].state \in {"none", "good"}
AtStaged == \A p \in Pids : at[p] \in {"copy", "probe", "rename"} => cur[p] \in staged[p]
NoneStagedYet == \A p \in Pids : at[p] \in {"sweep", "mkdir", "download", "unpack"} => staged[p] = {}
InstallInv ==
    InstallTypeOK /\ AlwaysRunnable /\ StagedWereRun /\ LinksWereInPlace /\ AtStaged /\ NoneStagedYet

(* Why a run nobody interfered with is whole: its copies are its own, its     *)
(* links are to what was there before, and `done` is what it has changed.     *)
OwnCopies(p) ==
    \A b \in staged[p] : Exists(staging[p][b]) => staging[p][b].by = run[p]
LinksToBefore(p) ==
    alone[p] /\ result[p] # "ok" => \A b \in done[p] : backup[p][b] = before[p][b]
RunsAlone(p) == Live(p) /\ alone[p]
AloneIsOne == \A p, q \in Pids : RunsAlone(p) /\ Live(q) => q = p

ChangedIsDone(p) ==
    \A b \in Bins : IF b \in done[p] THEN target[b].by = run[p] ELSE target[b] = before[p][b]
Passed(p) ==
    /\ at[p] \in {"stage", "copy", "probe"} =>
         cur[p] # 0 /\ \A b \in Installed : b < cur[p] => b \in staged[p] \cup missing[p]
    /\ at[p] \in {"link", "rename"} =>
         /\ Installed \subseteq staged[p]
         /\ \A b \in staged[p] : b < cur[p] <=> b \in done[p]
         /\ done[p] \subseteq staged[p] /\ cur[p] # 0
    /\ at[p] = "rename" => backup[p][cur[p]] = before[p][cur[p]]
    /\ at[p] = "undo" /\ restored[p] => \A b \in done[p] : b <= cur[p]
Ends(p) ==
    /\ at[p] \notin {"link", "rename", "undo", "unstage", "cleanup"} => done[p] = {}
    /\ at[p] \in {"unstage", "cleanup"} /\ restored[p] /\ result[p] # "ok" => done[p] = {}
    /\ result[p] = "ok" => at[p] = "cleanup" /\ Installed \subseteq done[p]
WholeAt(p) ==
    OwnCopies(p) /\ LinksToBefore(p) /\ (RunsAlone(p) => ChangedIsDone(p) /\ Passed(p) /\ Ends(p))
WholeInv == AloneIsOne /\ \A p \in Pids : WholeAt(p)
=============================================================================
