---------------------------- MODULE InstallProofs ----------------------------
(***************************************************************************)
(* For any number of updaters, of binaries, of updates and of kills: the   *)
(* types; that every installed name leads, at every moment, to a binary    *)
(* that was run; and that a run nobody interfered with replaces every      *)
(* binary or none, and leaves what it replaced within reach.  Then, for    *)
(* any directories, entries and running programs, what an uninstall that   *)
(* fails or is stopped anywhere leaves, and what it never removes.  Last,  *)
(* what a download the banner calls saved, or failed, has left: for any    *)
(* releases, places, folders and accounts, and whatever others do          *)
(* meanwhile.                                                              *)
(***************************************************************************)
EXTENDS Install, Uninstall, UpdateFlow, TLAPS

(* What the two files that every directory starts from are. *)
LEMMA FilesAre ==
    /\ NoFile \in Files /\ Original \in Files
    /\ ~Exists(NoFile) /\ Exists(Original)
    /\ Empty \in [Bins -> Files]
    /\ \A b \in Bins : Empty[b] = NoFile
    /\ NoFile.state = "none" /\ Original.state = "good"
BY DEF NoFile, Original, Files, Exists, Empty

(* A binary is a positive number. *)
LEMMA BinsAre == Bins \subseteq Nat /\ 0 \notin Bins /\ \A b \in Bins : b - 1 \in Nat
BY InstallAssumption DEF Bins, InstallAssumption

(* One file changes hands; one flag changes. *)
LEMMA OneFile ==
    ASSUME NEW f \in [Pids -> [Bins -> Files]], NEW p \in Pids, NEW b \in Bins, NEW x \in Files
    PROVE  [f EXCEPT ![p][b] = x] \in [Pids -> [Bins -> Files]]
OBVIOUS
LEMMA OneFlag ==
    ASSUME NEW f \in [Pids -> BOOLEAN], NEW p \in Pids
    PROVE  /\ [f EXCEPT ![p] = TRUE] \in [Pids -> BOOLEAN]
           /\ [f EXCEPT ![p] = FALSE] \in [Pids -> BOOLEAN]
BY Zenon

(* The initial states satisfy the inductive invariant: nothing is staged,    *)
(* nothing is under way and what is installed starts.                        *)
LEMMA InstallInitInv == InstallInit => InstallInv
<1> SUFFICES ASSUME InstallInit PROVE InstallInv
  OBVIOUS
<1>1. PICK here \in SUBSET Bins :
        target = [b \in Bins |-> IF b \in here THEN Original ELSE NoFile]
  BY DEF InstallInit
<1>2. target \in [Bins -> Files] /\ \A b \in Bins : target[b].state \in {"none", "good"}
  BY <1>1, FilesAre
<1>3. InstallTypeOK
  BY <1>2, FilesAre DEF InstallInit, InstallTypeOK
<1>4. AlwaysRunnable
  BY <1>2 DEF InstallInit, AlwaysRunnable
<1>5. StagedWereRun /\ AtStaged /\ NoneStagedYet
  BY DEF InstallInit, StagedWereRun, AtStaged, NoneStagedYet
<1>6. LinksWereInPlace
  BY FilesAre DEF InstallInit, LinksWereInPlace
<1> QED
  BY <1>3, <1>4, <1>5, <1>6 DEF InstallInv

(* Every step keeps the types. *)
LEMMA InstallNextTyped ==
    ASSUME InstallTypeOK, AtStaged, [InstallNext]_installVars
    PROVE  InstallTypeOK'
<1>0. CASE UNCHANGED installVars
  BY <1>0 DEF installVars, files, locals, counters, InstallTypeOK
<1> SUFFICES ASSUME NEW p \in Pids, InstallStep(p) PROVE InstallTypeOK'
  BY <1>0 DEF InstallNext
<1>1. CASE Begin(p)
  <2>1. alone' \in [Pids -> BOOLEAN]
    <3> DEFINE a(q) == IF q = p THEN \A o \in Pids : ~Live(o) ELSE alone[q] /\ ~Live(q)
    <3>1. alone' = [q \in Pids |-> a(q)]
      BY <1>1, Zenon DEF Begin
    <3>2. \A q \in Pids : a(q) \in BOOLEAN
      BY Zenon DEF Live
    <3> QED
      BY <3>1, <3>2, Zenon
  <2>2. restored' \in [Pids -> BOOLEAN]
    BY <1>1, OneFlag, Zenon DEF Begin, InstallTypeOK
  <2>3. before' \in [Pids -> [Bins -> Files]]
    BY <1>1 DEF Begin, InstallTypeOK
  <2>4. installs' \in Nat /\ run' \in [Pids -> Nat] /\ cur' \in [Pids -> Nat]
    BY <1>1 DEF Begin, InstallTypeOK
  <2>5. staged' \in [Pids -> SUBSET Bins] /\ missing' \in [Pids -> SUBSET Bins]
        /\ done' \in [Pids -> SUBSET Bins]
    BY <1>1 DEF Begin, InstallTypeOK
  <2> QED
    BY <1>1, <2>1, <2>2, <2>3, <2>4, <2>5 DEF Begin, InstallTypeOK, Go, Report, files
<1>2. CASE Sweep(p)
  BY <1>2, FilesAre DEF Sweep, InstallTypeOK, Go, locals, counters
<1>3. CASE MakeWork(p)
  BY <1>3 DEF MakeWork, InstallTypeOK, Go, locals, counters
<1>4. CASE Download(p)
  BY <1>4 DEF Download, InstallTypeOK, Go, counters
<1>5. CASE Unpack(p)
  BY <1>5 DEF Unpack, InstallTypeOK, Go, counters
<1>6. CASE FetchFails(p)
  BY <1>6 DEF FetchFails, InstallTypeOK, Go, Report, files, counters
<1>7. CASE PassOver(p)
  <2>1. cur[p] \in Bins /\ cur[p] + 1 \in Nat
    BY <1>7 DEF PassOver, InstallTypeOK
  <2>2. missing' \in [Pids -> SUBSET Bins]
    BY <1>7, <2>1 DEF PassOver, InstallTypeOK
  <2> QED
    BY <1>7, <2>1, <2>2 DEF PassOver, InstallTypeOK, files, counters
<1>8. CASE Stage(p)
  <2>1. cur[p] \in Bins /\ [by |-> run[p], state |-> "torn"] \in Files
    BY <1>8 DEF Stage, InstallTypeOK, Files
  <2>2. staging' \in [Pids -> [Bins -> Files]]
    BY <1>8, <2>1, OneFile DEF Stage, InstallTypeOK
  <2> QED
    BY <1>8, <2>1, <2>2 DEF Stage, InstallTypeOK, Go, counters
<1>9. CASE Copied(p)
  <2>1. cur[p] \in Bins
    BY <1>9 DEF Copied, AtStaged, InstallTypeOK
  <2>2. PICK s \in {"good", "broken"} : staging' = [staging EXCEPT ![p][cur[p]].state = s]
    BY <1>9 DEF Copied
  <2>3. staging[p][cur[p]] \in Files
    BY <2>1 DEF InstallTypeOK
  <2>4. [staging[p][cur[p]] EXCEPT !.state = s] \in Files
    BY <2>3 DEF Files
  <2>5. staging' = [staging EXCEPT ![p][cur[p]] = [staging[p][cur[p]] EXCEPT !.state = s]]
    BY <2>2
  <2>6. staging' \in [Pids -> [Bins -> Files]]
    BY <2>1, <2>4, <2>5, OneFile DEF InstallTypeOK
  <2> QED
    BY <1>9, <2>6 DEF Copied, InstallTypeOK, Go, locals, counters
<1>10. CASE Probed(p)
  BY <1>10 DEF Probed, InstallTypeOK, Go, files, counters
<1>11. CASE StagingFails(p)
  BY <1>11 DEF StagingFails, InstallTypeOK, Go, Report, files, counters
<1>12. CASE StagingDone(p)
  BY <1>12 DEF StagingDone, InstallTypeOK, Go, files, counters
<1>13. CASE NotComplete(p)
  BY <1>13 DEF NotComplete, InstallTypeOK, Go, Report, files, counters
<1>14. CASE Unstage(p)
  BY <1>14, FilesAre DEF Unstage, InstallTypeOK, Go, locals, counters
<1>15. CASE Skip(p)
  BY <1>15 DEF Skip, InstallTypeOK, files, counters
<1>16. CASE Linked(p)
  <2>1. cur[p] \in Bins /\ target[cur[p]] \in Files
    BY <1>16 DEF Linked, InstallTypeOK
  <2>2. backup' \in [Pids -> [Bins -> Files]]
    BY <1>16, <2>1, OneFile DEF Linked, InstallTypeOK
  <2> QED
    BY <1>16, <2>2 DEF Linked, InstallTypeOK, Go, locals, counters
<1>17. CASE Renamed(p)
  <2>1. cur[p] \in Bins /\ staging[p][cur[p]] \in Files
    BY <1>17 DEF Renamed, AtStaged, InstallTypeOK
  <2>2. staging' \in [Pids -> [Bins -> Files]]
    BY <1>17, <2>1, OneFile, FilesAre DEF Renamed, InstallTypeOK
  <2>3. target' \in [Bins -> Files]
    BY <1>17, <2>1 DEF Renamed, InstallTypeOK
  <2> QED
    BY <1>17, <2>1, <2>2, <2>3 DEF Renamed, InstallTypeOK, Go, counters
<1>18. CASE SwapFails(p)
  <2>1. cur[p] \in Bins /\ cur[p] - 1 \in Nat
    BY <1>18, BinsAre DEF SwapFails, InstallTypeOK
  <2>2. backup' \in [Pids -> [Bins -> Files]]
    BY <1>18, <2>1, OneFile, FilesAre DEF SwapFails, InstallTypeOK
  <2> QED
    BY <1>18, <2>1, <2>2 DEF SwapFails, InstallTypeOK, Go, Report, counters
<1>19. CASE Undo(p)
  <2>1. cur[p] \in Bins /\ cur[p] - 1 \in Nat /\ backup[p][cur[p]] \in Files
    BY <1>19, BinsAre DEF Undo, InstallTypeOK
  <2>2. target' \in [Bins -> Files]
    BY <1>19, <2>1 DEF Undo, InstallTypeOK
  <2>3. backup' \in [Pids -> [Bins -> Files]]
    BY <1>19, <2>1, OneFile, FilesAre DEF Undo, InstallTypeOK
  <2> QED
    BY <1>19, <2>1, <2>2, <2>3 DEF Undo, InstallTypeOK, counters
<1>20. CASE UndoIsNothing(p)
  <2>1. cur[p] \in Bins /\ cur[p] - 1 \in Nat
    BY <1>20, BinsAre DEF UndoIsNothing, InstallTypeOK
  <2> QED
    BY <1>20, <2>1 DEF UndoIsNothing, InstallTypeOK, files, counters
<1>21. CASE UndoFails(p)
  <2>1. cur[p] \in Bins /\ cur[p] - 1 \in Nat
    BY <1>21, BinsAre DEF UndoFails, InstallTypeOK
  <2>2. restored' \in [Pids -> BOOLEAN]
    BY <1>21, OneFlag, Zenon DEF UndoFails, InstallTypeOK
  <2> QED
    BY <1>21, <2>1, <2>2 DEF UndoFails, InstallTypeOK, files, counters
<1>22. CASE UndoNext(p)
  BY <1>22 DEF UndoNext, InstallTypeOK, files, counters
<1>23. CASE UndoDone(p)
  BY <1>23 DEF UndoDone, InstallTypeOK, Go, files, counters
<1>24. CASE SwapDone(p)
  BY <1>24, FilesAre DEF SwapDone, InstallTypeOK, Go, Report, counters
<1>25. CASE Cleanup(p)
  BY <1>25 DEF Cleanup, InstallTypeOK, Go, locals, counters
<1>26. CASE Killed(p)
  BY <1>26 DEF Killed, InstallTypeOK, Go, Report, files
<1> QED
  BY <1>1, <1>2, <1>3, <1>4, <1>5, <1>6, <1>7, <1>8, <1>9, <1>10, <1>11, <1>12, <1>13,
     <1>14, <1>15, <1>16, <1>17, <1>18, <1>19, <1>20, <1>21, <1>22, <1>23, <1>24, <1>25,
     <1>26 DEF InstallStep

(* Every step keeps every installed name on a binary that was run: only a    *)
(* staged copy that was run, or a link to what was in place, takes a name.   *)
LEMMA InstallNextRunnable ==
    ASSUME InstallInv, InstallTypeOK', [InstallNext]_installVars
    PROVE  AlwaysRunnable'
<1>0. CASE UNCHANGED installVars
  BY <1>0 DEF installVars, files, counters, InstallInv, AlwaysRunnable
<1> SUFFICES ASSUME NEW p \in Pids, InstallStep(p) PROVE AlwaysRunnable'
  BY <1>0 DEF InstallNext
<1>1. CASE Begin(p)
  <2>1. target' = target /\ before' = [before EXCEPT ![p] = target]
    BY <1>1 DEF Begin, files
  <2> QED
    BY <2>1 DEF InstallInv, InstallTypeOK, AlwaysRunnable
<1>2. CASE Renamed(p)
  <2>1. cur[p] \in Bins /\ Exists(staging[p][cur[p]]) /\ before' = before
        /\ target' = [target EXCEPT ![cur[p]] = staging[p][cur[p]]]
    BY <1>2 DEF Renamed, counters, InstallInv, AtStaged, InstallTypeOK
  <2>2. staging[p][cur[p]].state = "good"
    BY <1>2, <2>1 DEF Renamed, InstallInv, AtStaged, StagedWereRun, Exists
  <2> QED
    BY <2>1, <2>2 DEF InstallInv, InstallTypeOK, AlwaysRunnable, Exists
<1>3. CASE Undo(p)
  <2>1. cur[p] \in Bins /\ Exists(backup[p][cur[p]]) /\ before' = before
        /\ target' = [target EXCEPT ![cur[p]] = backup[p][cur[p]]]
    BY <1>3 DEF Undo, counters, InstallInv, InstallTypeOK
  <2>2. backup[p][cur[p]].state = "good"
    BY <2>1 DEF InstallInv, LinksWereInPlace, Exists
  <2> QED
    BY <2>1, <2>2 DEF InstallInv, InstallTypeOK, AlwaysRunnable, Exists
<1>4. CASE target' = target /\ before' = before
  BY <1>4 DEF InstallInv, AlwaysRunnable
<1> QED
  BY <1>1, <1>2, <1>3, <1>4 DEF InstallStep, files, counters, Sweep, MakeWork, Download, Unpack,
     FetchFails, PassOver, Stage, Copied, Probed, StagingFails, StagingDone, NotComplete, Unstage,
     Skip, Linked, SwapFails, UndoIsNothing, UndoFails, UndoNext, UndoDone, SwapDone, Cleanup,
     Killed

(* Every step keeps rollback links on what was in place. *)
LEMMA InstallNextLinks ==
    ASSUME InstallInv, InstallTypeOK', [InstallNext]_installVars
    PROVE  LinksWereInPlace'
<1>0. CASE UNCHANGED installVars
  BY <1>0 DEF installVars, files, InstallInv, LinksWereInPlace
<1> SUFFICES ASSUME NEW p \in Pids, InstallStep(p) PROVE LinksWereInPlace'
  BY <1>0 DEF InstallNext
<1>1. CASE Linked(p)
  <2>1. cur[p] \in Bins /\ backup' = [backup EXCEPT ![p][cur[p]] = target[cur[p]]]
    BY <1>1 DEF Linked, InstallInv, InstallTypeOK
  <2> QED
    BY <2>1 DEF InstallInv, InstallTypeOK, AlwaysRunnable, LinksWereInPlace
<1>2. CASE SwapFails(p) \/ Undo(p)
  <2>1. cur[p] \in Bins /\ backup' = [backup EXCEPT ![p][cur[p]] = NoFile]
    BY <1>2 DEF SwapFails, Undo, InstallInv, InstallTypeOK
  <2> QED
    BY <2>1, FilesAre DEF InstallInv, InstallTypeOK, LinksWereInPlace
<1>3. CASE SwapDone(p)
  <2>1. backup' = [backup EXCEPT ![p] = [b \in Bins |->
                    IF b \in done[p] THEN NoFile ELSE backup[p][b]]]
    BY <1>3 DEF SwapDone
  <2> QED
    BY <2>1, FilesAre DEF InstallInv, InstallTypeOK, LinksWereInPlace
<1>4. CASE backup' = backup
  BY <1>4 DEF InstallInv, LinksWereInPlace
<1> QED
  BY <1>1, <1>2, <1>3, <1>4 DEF InstallStep, files, Begin, Sweep, MakeWork, Download, Unpack,
     FetchFails, PassOver, Stage, Copied, Probed, StagingFails, StagingDone, NotComplete, Unstage,
     Skip, Renamed, UndoIsNothing, UndoFails, UndoNext, UndoDone, Cleanup, Killed

(* Every step keeps a process that copies, runs or renames at a binary it    *)
(* recorded before it made the copy, and one that has not got there without  *)
(* any.                                                                      *)
LEMMA InstallNextAtStaged ==
    ASSUME InstallInv, InstallTypeOK', [InstallNext]_installVars
    PROVE  AtStaged' /\ NoneStagedYet'
<1>0. CASE UNCHANGED installVars
  BY <1>0 DEF installVars, locals, InstallInv, AtStaged, NoneStagedYet
<1> SUFFICES ASSUME NEW p \in Pids, InstallStep(p) PROVE AtStaged' /\ NoneStagedYet'
  BY <1>0 DEF InstallNext
<1>1. CASE Begin(p)
  BY <1>1 DEF Begin, Go, InstallInv, InstallTypeOK, AtStaged, NoneStagedYet
<1>2. CASE Sweep(p)
  BY <1>2 DEF Sweep, Go, locals, InstallInv, InstallTypeOK, AtStaged, NoneStagedYet
<1>3. CASE MakeWork(p)
  BY <1>3 DEF MakeWork, Go, locals, InstallInv, InstallTypeOK, AtStaged, NoneStagedYet
<1>4. CASE Download(p)
  BY <1>4 DEF Download, Go, InstallInv, InstallTypeOK, AtStaged, NoneStagedYet
<1>5. CASE Unpack(p)
  BY <1>5 DEF Unpack, Go, InstallInv, InstallTypeOK, AtStaged, NoneStagedYet
<1>6. CASE FetchFails(p)
  BY <1>6 DEF FetchFails, Go, InstallInv, InstallTypeOK, AtStaged, NoneStagedYet
<1>7. CASE PassOver(p)
  BY <1>7 DEF PassOver, InstallInv, InstallTypeOK, AtStaged, NoneStagedYet
<1>8. CASE Stage(p)
  BY <1>8 DEF Stage, Go, InstallInv, InstallTypeOK, AtStaged, NoneStagedYet
<1>9. CASE Copied(p)
  BY <1>9 DEF Copied, Go, locals, InstallInv, InstallTypeOK, AtStaged, NoneStagedYet
<1>10. CASE Probed(p)
  BY <1>10 DEF Probed, Go, InstallInv, InstallTypeOK, AtStaged, NoneStagedYet
<1>11. CASE StagingFails(p)
  BY <1>11 DEF StagingFails, Go, InstallInv, InstallTypeOK, AtStaged, NoneStagedYet
<1>12. CASE StagingDone(p)
  BY <1>12 DEF StagingDone, Go, InstallInv, InstallTypeOK, AtStaged, NoneStagedYet
<1>13. CASE NotComplete(p)
  BY <1>13 DEF NotComplete, Go, InstallInv, InstallTypeOK, AtStaged, NoneStagedYet
<1>14. CASE Unstage(p)
  BY <1>14 DEF Unstage, Go, locals, InstallInv, InstallTypeOK, AtStaged, NoneStagedYet
<1>15. CASE Skip(p)
  BY <1>15 DEF Skip, InstallInv, InstallTypeOK, AtStaged, NoneStagedYet
<1>16. CASE Linked(p)
  BY <1>16 DEF Linked, Go, locals, InstallInv, InstallTypeOK, AtStaged, NoneStagedYet
<1>17. CASE Renamed(p)
  BY <1>17 DEF Renamed, Go, InstallInv, InstallTypeOK, AtStaged, NoneStagedYet
<1>18. CASE SwapFails(p)
  BY <1>18 DEF SwapFails, Go, InstallInv, InstallTypeOK, AtStaged, NoneStagedYet
<1>19. CASE Undo(p)
  BY <1>19 DEF Undo, InstallInv, InstallTypeOK, AtStaged, NoneStagedYet
<1>20. CASE UndoIsNothing(p)
  BY <1>20 DEF UndoIsNothing, InstallInv, InstallTypeOK, AtStaged, NoneStagedYet
<1>21. CASE UndoFails(p)
  BY <1>21 DEF UndoFails, InstallInv, InstallTypeOK, AtStaged, NoneStagedYet
<1>22. CASE UndoNext(p)
  BY <1>22 DEF UndoNext, InstallInv, InstallTypeOK, AtStaged, NoneStagedYet
<1>23. CASE UndoDone(p)
  BY <1>23 DEF UndoDone, Go, InstallInv, InstallTypeOK, AtStaged, NoneStagedYet
<1>24. CASE SwapDone(p)
  BY <1>24 DEF SwapDone, Go, InstallInv, InstallTypeOK, AtStaged, NoneStagedYet
<1>25. CASE Cleanup(p)
  BY <1>25 DEF Cleanup, Go, locals, InstallInv, InstallTypeOK, AtStaged, NoneStagedYet
<1>26. CASE Killed(p)
  BY <1>26 DEF Killed, Go, InstallInv, InstallTypeOK, AtStaged, NoneStagedYet
<1> QED
  BY <1>1, <1>2, <1>3, <1>4, <1>5, <1>6, <1>7, <1>8, <1>9, <1>10, <1>11, <1>12, <1>13,
     <1>14, <1>15, <1>16, <1>17, <1>18, <1>19, <1>20, <1>21, <1>22, <1>23, <1>24, <1>25,
     <1>26 DEF InstallStep

(* Every step keeps what a process is about to rename a copy that was run.   *)
LEMMA InstallNextStaged ==
    ASSUME InstallInv, InstallTypeOK', [InstallNext]_installVars
    PROVE  StagedWereRun'
<1>0. CASE UNCHANGED installVars
  BY <1>0 DEF installVars, files, locals, InstallInv, StagedWereRun
<1> SUFFICES ASSUME NEW p \in Pids, InstallStep(p) PROVE StagedWereRun'
  BY <1>0 DEF InstallNext
<1>1. CASE Begin(p)
  BY <1>1 DEF Begin, Go, files, InstallInv, InstallTypeOK, StagedWereRun
<1>2. CASE Sweep(p)
  BY <1>2, FilesAre DEF Sweep, Go, locals, InstallInv, InstallTypeOK, StagedWereRun
<1>3. CASE MakeWork(p)
  BY <1>3 DEF MakeWork, Go, locals, InstallInv, InstallTypeOK, StagedWereRun
<1>4. CASE Download(p)
  BY <1>4 DEF Download, Go, InstallInv, InstallTypeOK, StagedWereRun
<1>5. CASE Unpack(p)
  BY <1>5 DEF Unpack, Go, InstallInv, InstallTypeOK, StagedWereRun, NoneStagedYet
<1>6. CASE FetchFails(p)
  BY <1>6 DEF FetchFails, Go, files, InstallInv, InstallTypeOK, StagedWereRun
<1>7. CASE PassOver(p)
  BY <1>7 DEF PassOver, files, InstallInv, InstallTypeOK, StagedWereRun
<1>8. CASE Stage(p)
  BY <1>8 DEF Stage, Go, InstallInv, InstallTypeOK, StagedWereRun, AtStaged
<1>9. CASE Copied(p)
  BY <1>9 DEF Copied, Go, locals, InstallInv, InstallTypeOK, StagedWereRun, AtStaged
<1>10. CASE Probed(p)
  BY <1>10 DEF Probed, Go, files, InstallInv, InstallTypeOK, StagedWereRun, AtStaged
<1>11. CASE StagingFails(p)
  BY <1>11 DEF StagingFails, Go, files, InstallInv, InstallTypeOK, StagedWereRun
<1>12. CASE StagingDone(p)
  BY <1>12 DEF StagingDone, Go, files, InstallInv, InstallTypeOK, StagedWereRun
<1>13. CASE NotComplete(p)
  BY <1>13 DEF NotComplete, Go, files, InstallInv, InstallTypeOK, StagedWereRun
<1>14. CASE Unstage(p)
  BY <1>14, FilesAre DEF Unstage, Go, locals, InstallInv, InstallTypeOK, StagedWereRun
<1>15. CASE Skip(p)
  BY <1>15 DEF Skip, files, InstallInv, InstallTypeOK, StagedWereRun
<1>16. CASE Linked(p)
  BY <1>16 DEF Linked, Go, locals, InstallInv, InstallTypeOK, StagedWereRun
<1>17. CASE Renamed(p)
  BY <1>17, FilesAre DEF Renamed, Go, InstallInv, InstallTypeOK, StagedWereRun, AtStaged
<1>18. CASE SwapFails(p)
  BY <1>18 DEF SwapFails, Go, InstallInv, InstallTypeOK, StagedWereRun
<1>19. CASE Undo(p)
  BY <1>19 DEF Undo, InstallInv, InstallTypeOK, StagedWereRun
<1>20. CASE UndoIsNothing(p)
  BY <1>20 DEF UndoIsNothing, files, InstallInv, InstallTypeOK, StagedWereRun
<1>21. CASE UndoFails(p)
  BY <1>21 DEF UndoFails, files, InstallInv, InstallTypeOK, StagedWereRun
<1>22. CASE UndoNext(p)
  BY <1>22 DEF UndoNext, files, InstallInv, InstallTypeOK, StagedWereRun
<1>23. CASE UndoDone(p)
  BY <1>23 DEF UndoDone, Go, files, InstallInv, InstallTypeOK, StagedWereRun
<1>24. CASE SwapDone(p)
  BY <1>24 DEF SwapDone, Go, InstallInv, InstallTypeOK, StagedWereRun
<1>25. CASE Cleanup(p)
  BY <1>25 DEF Cleanup, Go, locals, InstallInv, InstallTypeOK, StagedWereRun
<1>26. CASE Killed(p)
  BY <1>26 DEF Killed, Go, files, InstallInv, InstallTypeOK, StagedWereRun
<1> QED
  BY <1>1, <1>2, <1>3, <1>4, <1>5, <1>6, <1>7, <1>8, <1>9, <1>10, <1>11, <1>12, <1>13,
     <1>14, <1>15, <1>16, <1>17, <1>18, <1>19, <1>20, <1>21, <1>22, <1>23, <1>24, <1>25,
     <1>26 DEF InstallStep

(* InstallInv is inductive, and holds of every behaviour of the updaters.    *)
THEOREM InstallInvHolds == InstallSpec => []InstallInv
<1>1. InstallInit => InstallInv
  BY InstallInitInv
<1>2. InstallInv /\ [InstallNext]_installVars => InstallInv'
  <2> SUFFICES ASSUME InstallInv, [InstallNext]_installVars PROVE InstallInv'
    OBVIOUS
  <2>1. InstallTypeOK'
    BY InstallNextTyped DEF InstallInv
  <2> QED
    BY <2>1, InstallNextRunnable, InstallNextStaged, InstallNextLinks, InstallNextAtStaged
       DEF InstallInv
<1> QED
  BY <1>1, <1>2, PTL DEF InstallSpec

(* Type correctness of the updaters and the install directory. *)
THEOREM InstallTyped == InstallSpec => []InstallTypeOK
<1>1. InstallInv => InstallTypeOK
  BY DEF InstallInv
<1> QED
  BY <1>1, InstallInvHolds, PTL

(* Whatever updaters run, fail and are killed, in whatever number and at     *)
(* whatever point of swap_in, what was installed stays installed and starts. *)
THEOREM InstallRunnable == InstallSpec => []AlwaysRunnable
<1>1. InstallInv => AlwaysRunnable
  BY DEF InstallInv
<1> QED
  BY <1>1, InstallInvHolds, PTL

-----------------------------------------------------------------------------
(* A step of one updater leaves what another one knows as it was; a sweep    *)
(* takes its copies, and a run that begins ends its being alone.             *)
LEMMA OthersKeep ==
    ASSUME InstallTypeOK, NEW p \in Pids, InstallStep(p), NEW q \in Pids, q # p
    PROVE  /\ at'[q] = at[q] /\ run'[q] = run[q] /\ staged'[q] = staged[q] /\ done'[q] = done[q]
           /\ result'[q] = result[q] /\ backup'[q] = backup[q] /\ before'[q] = before[q]
           /\ staging'[q] \in {staging[q], Empty}
           /\ alone'[q] => alone[q] /\ (at[p] = "idle" => ~Live(q))
<1> USE DEF InstallTypeOK, Go, Report, files, locals, counters, Live
<1>1. CASE Begin(p)
  BY <1>1 DEF Begin
<1>2. CASE Sweep(p) \/ MakeWork(p) \/ Download(p) \/ Unpack(p) \/ FetchFails(p)
  BY <1>2 DEF Sweep, MakeWork, Download, Unpack, FetchFails
<1>3. CASE PassOver(p) \/ Stage(p) \/ Copied(p) \/ Probed(p) \/ StagingFails(p)
  BY <1>3 DEF PassOver, Stage, Copied, Probed, StagingFails
<1>4. CASE StagingDone(p) \/ NotComplete(p) \/ Unstage(p)
  BY <1>4 DEF StagingDone, NotComplete, Unstage
<1>5. CASE Skip(p) \/ Linked(p) \/ Renamed(p) \/ SwapFails(p)
  BY <1>5 DEF Skip, Linked, Renamed, SwapFails
<1>6. CASE Undo(p) \/ UndoIsNothing(p) \/ UndoFails(p) \/ UndoNext(p) \/ UndoDone(p)
  BY <1>6 DEF Undo, UndoIsNothing, UndoFails, UndoNext, UndoDone
<1>7. CASE SwapDone(p) \/ Cleanup(p) \/ Killed(p)
  BY <1>7 DEF SwapDone, Cleanup, Killed
<1> QED BY <1>1, <1>2, <1>3, <1>4, <1>5, <1>6, <1>7 DEF InstallStep

(* Who runs alone after a step is the one who took it, and was alone before. *)
LEMMA AloneIsIt ==
    ASSUME InstallTypeOK, AloneIsOne, NEW p \in Pids, InstallStep(p), NEW q \in Pids, RunsAlone(q)'
    PROVE  /\ q = p
           /\ Begin(p) => \A o \in Pids : ~Live(o)
           /\ ~Begin(p) => RunsAlone(p) /\ UNCHANGED <<run, before, alone>>
<1>1. ~Begin(p) => Live(p) /\ UNCHANGED <<run, before, alone>>
  BY DEF InstallStep, Live, counters, Sweep, MakeWork, Download, Unpack, FetchFails, PassOver, Stage, Copied,
         Probed, StagingFails, StagingDone, NotComplete, Unstage, Skip, Linked, Renamed, SwapFails, Undo,
         UndoIsNothing, UndoFails, UndoNext, UndoDone, SwapDone, Cleanup, Killed
<1>2. Begin(p) => at[p] = "idle"
  BY DEF Begin, Live
<1>3. q = p
  <2> SUFFICES ASSUME q # p PROVE FALSE
    OBVIOUS
  <2>1. RunsAlone(q) /\ (at[p] = "idle" => ~Live(q))
    BY OthersKeep DEF RunsAlone, Live
  <2> QED BY <1>1, <1>2, <2>1 DEF AloneIsOne, RunsAlone
<1>4. Begin(p) => \A o \in Pids : ~Live(o)
  <2> SUFFICES ASSUME Begin(p) PROVE \A o \in Pids : ~Live(o)
    OBVIOUS
  <2>1. alone'[p] = \A o \in Pids : ~Live(o)
    BY DEF Begin
  <2> QED BY <1>3, <2>1 DEF RunsAlone
<1>5. ~Begin(p) => alone[p]
  BY <1>1, <1>3 DEF RunsAlone
<1> QED BY <1>1, <1>3, <1>4, <1>5 DEF RunsAlone

LEMMA AloneKept ==
    ASSUME InstallTypeOK, AloneIsOne, NEW p \in Pids, InstallStep(p)
    PROVE  AloneIsOne'
<1> SUFFICES ASSUME NEW r \in Pids, NEW q \in Pids, RunsAlone(r)', Live(q)', q # r PROVE FALSE
  BY DEF AloneIsOne
<1>1. r = p /\ (Begin(p) => ~Live(q)) /\ (~Begin(p) => RunsAlone(p))
  BY AloneIsIt
<1>2. Live(q)
  BY <1>1, OthersKeep DEF Live
<1> QED BY <1>1, <1>2 DEF AloneIsOne

LEMMA OtherWhole ==
    ASSUME InstallTypeOK, AloneIsOne, NEW p \in Pids, InstallStep(p), NEW q \in Pids, q # p, WholeAt(q)
    PROVE  WholeAt(q)'
<1>1. ~RunsAlone(q)'
  BY AloneIsIt
<1>2. OwnCopies(q)'
  <2> SUFFICES ASSUME NEW b \in staged'[q], Exists(staging'[q][b]) PROVE staging'[q][b].by = run'[q]
    BY DEF OwnCopies, Exists
  <2>1. staged'[q] = staged[q] /\ run'[q] = run[q] /\ staging'[q] \in {staging[q], Empty} /\ b \in Bins
    BY OthersKeep DEF InstallTypeOK
  <2>2. ~Exists(Empty[b])
    BY <2>1, FilesAre
  <2>3. staging'[q] = staging[q]
    BY <2>1, <2>2 DEF Exists
  <2> QED BY <2>1, <2>3 DEF WholeAt, OwnCopies, Exists
<1>3. LinksToBefore(q)'
  BY OthersKeep DEF WholeAt, LinksToBefore
<1> QED BY <1>1, <1>2, <1>3 DEF WholeAt

(* A copy is the run's own; it is gone when it was renamed or removed. *)
LEMMA CopiesKept ==
    ASSUME InstallTypeOK, AtStaged, NEW p \in Pids, InstallStep(p), OwnCopies(p)
    PROVE  OwnCopies(p)'
<1>1. CASE Begin(p)
  <2>1. staged'[p] = {}
    BY <1>1 DEF Begin, InstallTypeOK
  <2> QED BY <2>1 DEF OwnCopies
<1>2. CASE Stage(p)
  <2>1. cur[p] \in Bins /\ run' = run /\ staged'[p] = staged[p] \cup {cur[p]}
    BY <1>2 DEF Stage, InstallTypeOK, counters
  <2>2. staging'[p] = [staging[p] EXCEPT ![cur[p]] = [by |-> run[p], state |-> "torn"]]
    BY <1>2, <2>1 DEF Stage, InstallTypeOK
  <2>3. staging'[p][cur[p]].by = run[p] /\ \A b \in Bins : b # cur[p] => staging'[p][b] = staging[p][b]
    BY <2>1, <2>2 DEF InstallTypeOK
  <2> QED BY <2>1, <2>3 DEF OwnCopies, InstallTypeOK, Exists
<1>3. CASE Copied(p)
  <2>1. cur[p] \in Bins /\ cur[p] \in staged[p] /\ run' = run /\ staged' = staged /\ Exists(staging[p][cur[p]])
    BY <1>3 DEF Copied, AtStaged, InstallTypeOK, counters, locals
  <2>2. PICK s \in {"good", "broken"} : staging' = [staging EXCEPT ![p][cur[p]].state = s]
    BY <1>3 DEF Copied
  <2>3. staging'[p] = [staging[p] EXCEPT ![cur[p]] = [staging[p][cur[p]] EXCEPT !.state = s]]
    BY <2>1, <2>2 DEF InstallTypeOK
  <2>4. staging[p][cur[p]] \in Files
    BY <2>1 DEF InstallTypeOK
  <2>5. staging'[p][cur[p]].by = staging[p][cur[p]].by
        /\ \A b \in Bins : b # cur[p] => staging'[p][b] = staging[p][b]
    BY <2>1, <2>3, <2>4 DEF InstallTypeOK, Files
  <2> QED BY <2>1, <2>5 DEF OwnCopies, InstallTypeOK, Exists
<1>4. CASE Renamed(p)
  <2>1. cur[p] \in Bins /\ run' = run /\ staged' = staged /\ staging' = [staging EXCEPT ![p][cur[p]] = NoFile]
    BY <1>4 DEF Renamed, AtStaged, InstallTypeOK, counters
  <2>2. staging'[p][cur[p]] = NoFile /\ \A b \in Bins : b # cur[p] => staging'[p][b] = staging[p][b]
    BY <2>1 DEF InstallTypeOK
  <2> QED BY <2>1, <2>2, FilesAre DEF OwnCopies, InstallTypeOK, Exists
<1>5. CASE Unstage(p)
  <2>1. \A b \in staged[p] : staging'[p][b] = NoFile
    BY <1>5 DEF Unstage, InstallTypeOK
  <2> QED BY <1>5, <2>1, FilesAre DEF Unstage, OwnCopies, locals, Exists
<1>6. CASE staging'[p] = staging[p] /\ staged'[p] = staged[p] /\ run'[p] = run[p]
  BY <1>6 DEF OwnCopies, Exists
<1>7. CASE Sweep(p) \/ MakeWork(p) \/ Download(p) \/ Unpack(p) \/ FetchFails(p) \/ PassOver(p) \/ Probed(p)
  BY <1>6, <1>7 DEF Sweep, MakeWork, Download, Unpack, FetchFails, PassOver, Probed, files, locals, counters,
                    InstallTypeOK
<1>8. CASE StagingFails(p) \/ StagingDone(p) \/ NotComplete(p) \/ Skip(p) \/ Linked(p) \/ SwapFails(p)
  BY <1>6, <1>8 DEF StagingFails, StagingDone, NotComplete, Skip, Linked, SwapFails, files, locals, counters
<1>9. CASE Undo(p) \/ UndoIsNothing(p) \/ UndoFails(p) \/ UndoNext(p) \/ UndoDone(p) \/ SwapDone(p)
           \/ Cleanup(p) \/ Killed(p)
  BY <1>6, <1>9 DEF Undo, UndoIsNothing, UndoFails, UndoNext, UndoDone, SwapDone, Cleanup, Killed, files, locals,
                    counters
<1> QED BY <1>1, <1>2, <1>3, <1>4, <1>5, <1>7, <1>8, <1>9 DEF InstallStep

(* A link stays on what was there before, until it has been put back or      *)
(* everything has landed.                                                    *)
LEMMA LinksKept ==
    ASSUME InstallTypeOK, AtStaged, NEW p \in Pids, InstallStep(p), WholeAt(p)
    PROVE  LinksToBefore(p)'
<1>1. CASE Begin(p)
  <2>1. done'[p] = {}
    BY <1>1 DEF Begin, InstallTypeOK
  <2> QED BY <2>1 DEF LinksToBefore
<1> SUFFICES ASSUME ~Begin(p), alone'[p], result'[p] # "ok",
                    NEW b \in done'[p]
             PROVE  backup'[p][b] = before'[p][b]
  BY <1>1 DEF LinksToBefore
<1>2. at[p] # "idle" /\ UNCHANGED <<alone, before>>
  BY DEF InstallStep, Live, counters, Sweep, MakeWork, Download, Unpack, FetchFails, PassOver, Stage, Copied,
         Probed, StagingFails, StagingDone, NotComplete, Unstage, Skip, Linked, Renamed, SwapFails, Undo,
         UndoIsNothing, UndoFails, UndoNext, UndoDone, SwapDone, Cleanup, Killed
<1>3. ChangedIsDone(p) /\ Passed(p) /\ Ends(p)
  BY <1>2 DEF RunsAlone, Live, WholeAt
<1>4. result[p] # "ok"
  <2>1. CASE at[p] = "cleanup"
    BY <2>1 DEF InstallStep, counters, locals, Report, Sweep, MakeWork, Download, Unpack, FetchFails, PassOver, Stage,
         Copied, Probed, StagingFails, StagingDone, NotComplete, Unstage, Skip, Linked, Renamed, SwapFails, Undo,
         UndoIsNothing, UndoFails, UndoNext, UndoDone, SwapDone, Cleanup, Killed, InstallTypeOK
  <2>2. CASE at[p] # "cleanup"
    BY <1>3, <2>2 DEF Ends
  <2> QED BY <2>1, <2>2
<1>5. \A c \in done[p] : backup[p][c] = before[p][c] /\ c \in Bins
  BY <1>2, <1>4 DEF WholeAt, LinksToBefore, InstallTypeOK
<1>6. CASE Linked(p)
  <2>1. cur[p] \in Bins /\ done' = done /\ backup' = [backup EXCEPT ![p][cur[p]] = target[cur[p]]]
    BY <1>6 DEF Linked, InstallTypeOK, locals
  <2>2. cur[p] \notin done[p]
    BY <1>3, <1>6, <2>1, BinsAre DEF Linked, Passed
  <2> QED BY <1>2, <1>5, <2>1, <2>2 DEF InstallTypeOK
<1>7. CASE Renamed(p)
  <2>1. done'[p] = done[p] \cup {cur[p]} /\ backup' = backup /\ at[p] = "rename"
    BY <1>7 DEF Renamed, InstallTypeOK
  <2> QED BY <1>2, <1>3, <1>5, <2>1 DEF Passed
<1>8. CASE SwapFails(p)
  <2>1. cur[p] \in Bins /\ done' = done /\ backup' = [backup EXCEPT ![p][cur[p]] = NoFile]
    BY <1>8 DEF SwapFails, InstallTypeOK, locals
  <2>2. cur[p] \notin done[p]
    BY <1>3, <1>8, <2>1, BinsAre DEF SwapFails, Passed
  <2> QED BY <1>2, <1>5, <2>1, <2>2 DEF InstallTypeOK
<1>9. CASE Undo(p)
  <2>1. cur[p] \in Bins /\ done'[p] = done[p] \ {cur[p]} /\ backup' = [backup EXCEPT ![p][cur[p]] = NoFile]
    BY <1>9 DEF Undo, InstallTypeOK, locals
  <2> QED BY <1>2, <1>5, <2>1 DEF InstallTypeOK
<1>10. CASE UndoIsNothing(p)
  <2>1. done'[p] = done[p] \ {cur[p]} /\ backup' = backup
    BY <1>10 DEF UndoIsNothing, InstallTypeOK, files
  <2> QED BY <1>2, <1>5, <2>1
<1>11. CASE SwapDone(p)
  <2>1. result'[p] = "ok"
    BY <1>11 DEF SwapDone, Report, InstallTypeOK
  <2> QED BY <2>1
<1>12. CASE done' = done /\ backup' = backup
  BY <1>2, <1>5, <1>12
<1> QED
  BY <1>6, <1>7, <1>8, <1>9, <1>10, <1>11, <1>12
  DEF InstallStep, files, locals, Sweep, MakeWork, Download, Unpack, FetchFails, PassOver, Stage, Copied, Probed,
      StagingFails, StagingDone, NotComplete, Unstage, Skip, UndoFails, UndoNext, UndoDone, Cleanup, Killed

(* What a run that is alone has changed is in `done`, at every point of it.  *)
LEMMA RunKept ==
    ASSUME InstallTypeOK, AtStaged, AloneIsOne, NEW p \in Pids, InstallStep(p), WholeAt(p), RunsAlone(p)'
    PROVE  ChangedIsDone(p)' /\ Passed(p)' /\ Ends(p)'
<1>b. \A b \in Bins : b \in Nat /\ b # 0 /\ b - 1 \in Nat
  BY BinsAre
<1>c. \A c \in Nat : c # 0 /\ c \notin Bins => \A b \in Bins : b < c
  BY InstallAssumption DEF Bins
<1>d. \A b \in Nat : \A c \in Nat : /\ (b < c + 1 <=> b < c \/ b = c) /\ ~(b # 0 /\ b < 1)
                               /\ (b < c => b <= c - 1) /\ (b <= c /\ b # c => b <= c - 1)
  OBVIOUS
<1>e. \A b \in Bins : \A c \in Nat : /\ (b < c + 1 <=> b < c \/ b = c) /\ ~(b < 1) /\ ~(b <= 0)
                               /\ (b < c => b <= c - 1) /\ (b <= c /\ b # c => b <= c - 1)
  BY <1>b, <1>d
<1>1. CASE Begin(p)
  <2>1. /\ before'[p] = target /\ target' = target /\ done'[p] = {} /\ at'[p] = "sweep" /\ result'[p] = "none"
    BY <1>1 DEF Begin, Go, Report, files, InstallTypeOK
  <2> QED BY <2>1 DEF ChangedIsDone, Passed, Ends
<1> SUFFICES ASSUME ~Begin(p) PROVE ChangedIsDone(p)' /\ Passed(p)' /\ Ends(p)'
  BY <1>1
<1>2. UNCHANGED <<run, before, alone>> /\ at[p] # "idle" /\ at'[p] # "idle"
      /\ ChangedIsDone(p) /\ Passed(p) /\ Ends(p) /\ OwnCopies(p) /\ LinksToBefore(p) /\ alone[p]
  BY AloneIsIt DEF WholeAt, RunsAlone, Live
<1>3. /\ target \in [Bins -> Files] /\ staged[p] \subseteq Bins /\ missing[p] \subseteq Bins /\ done[p] \subseteq Bins
      /\ cur[p] \in Nat /\ run[p] \in Nat /\ before[p] \in [Bins -> Files]
      /\ Installed = {b \in Bins : Exists(target[b])}
  BY DEF InstallTypeOK, Installed
<1>4. ASSUME target' = target, done'[p] = done[p]
      PROVE  ChangedIsDone(p)' /\ Installed' = Installed
  BY <1>2, <1>4 DEF ChangedIsDone, Installed, Exists
<1>5. CASE Sweep(p) \/ MakeWork(p) \/ Download(p) \/ FetchFails(p)
  <2>1. /\ at[p] \in {"sweep", "mkdir", "download", "unpack"} /\ at'[p] \in {"mkdir", "download", "unpack", "cleanup"}
        /\ target' = target /\ done' = done /\ result'[p] \in {result[p], "failed"}
    BY <1>5 DEF Sweep, MakeWork, Download, FetchFails, Go, Report, locals, files, InstallTypeOK
  <2> QED BY <1>2, <1>4, <2>1 DEF Passed, Ends
<1>6. CASE Unpack(p)
  <2>1. /\ at[p] = "unpack" /\ at'[p] = "stage" /\ cur'[p] = 1
        /\ target' = target /\ done' = done /\ result' = result
    BY <1>6 DEF Unpack, Go, InstallTypeOK
  <2>2. \A b \in Bins : ~(b < 1)
    BY <1>e, InstallAssumption
  <2> QED BY <1>2, <1>3, <1>4, <2>1, <2>2 DEF Passed, Ends
<1>7. CASE PassOver(p)
  <2>1. /\ at[p] = "stage" /\ cur[p] \in Bins /\ at' = at /\ cur'[p] = cur[p] + 1
        /\ target' = target /\ done' = done /\ result' = result /\ staged' = staged
        /\ missing'[p] = IF Exists(target[cur[p]]) THEN missing[p] \cup {cur[p]} ELSE missing[p]
    BY <1>7 DEF PassOver, files, InstallTypeOK
  <2>2. \A b \in Bins : b < cur[p] + 1 => b < cur[p] \/ b = cur[p]
    BY <1>3, <1>e
  <2>3. Passed(p)'
    BY <1>2, <1>3, <1>4, <2>1, <2>2 DEF Passed
  <2> QED BY <1>2, <1>4, <2>1, <2>3 DEF Ends
<1>8. CASE Stage(p)
  <2>1. /\ at[p] = "stage" /\ at'[p] = "copy" /\ cur' = cur /\ missing' = missing
        /\ target' = target /\ done' = done /\ result' = result /\ staged'[p] = staged[p] \cup {cur[p]}
    BY <1>8 DEF Stage, Go, InstallTypeOK
  <2> QED BY <1>2, <1>3, <1>4, <2>1 DEF Passed, Ends
<1>9. CASE Copied(p)
  <2>1. /\ at[p] = "copy" /\ at'[p] = "probe"
        /\ target' = target /\ UNCHANGED locals
    BY <1>9 DEF Copied, Go, InstallTypeOK
  <2> QED BY <1>2, <1>4, <2>1 DEF Passed, Ends, locals
<1>10. CASE Probed(p)
  <2>1. /\ at[p] = "probe" /\ at'[p] = "stage" /\ cur[p] \in staged[p] /\ cur'[p] = cur[p] + 1
        /\ target' = target /\ UNCHANGED <<done, result, staged, missing>>
    BY <1>10 DEF Probed, Go, files, AtStaged, InstallTypeOK
  <2>2. \A b \in Bins : b < cur[p] + 1 => b < cur[p] \/ b = cur[p]
    BY <1>3, <1>e
  <2>3. Passed(p)'
    BY <1>2, <1>3, <1>4, <2>1, <2>2 DEF Passed
  <2> QED BY <1>2, <1>4, <2>1, <2>3 DEF Ends
<1>11. CASE StagingFails(p) \/ NotComplete(p)
  <2>1. /\ at[p] \in {"stage", "copy", "probe"} /\ at'[p] \in {"unstage", "cleanup"} /\ result'[p] = "failed"
        /\ target' = target /\ done' = done
    BY <1>11 DEF StagingFails, NotComplete, Go, Report, files, InstallTypeOK
  <2> QED BY <1>2, <1>4, <2>1 DEF Passed, Ends
<1>12. CASE StagingDone(p)
  <2>1. /\ at[p] = "stage" /\ cur[p] \notin Bins /\ missing[p] = {} /\ at'[p] = "link" /\ cur'[p] = 1
        /\ target' = target /\ UNCHANGED <<done, result, staged>>
    BY <1>12 DEF StagingDone, Go, files, InstallTypeOK
  <2>2. done[p] = {} /\ \A b \in Bins : ~(b < 1)
    BY <1>2, <1>e, <1>3, <2>1 DEF Ends
  <2>3. Installed \subseteq staged[p]
    BY <1>2, <1>3, <1>c, <2>1 DEF Passed
  <2>4. Passed(p)'
    BY <1>3, <1>4, <2>1, <2>2, <2>3 DEF Passed
  <2> QED BY <1>2, <1>4, <2>1, <2>4 DEF Ends
<1>13. CASE Unstage(p)
  <2>1. /\ at[p] = "unstage" /\ at'[p] = "cleanup" /\ target' = target /\ UNCHANGED locals
    BY <1>13 DEF Unstage, Go, InstallTypeOK
  <2> QED BY <1>2, <1>4, <2>1 DEF Passed, Ends, locals
<1>14. CASE Skip(p)
  <2>1. /\ at[p] = "link" /\ at' = at /\ cur[p] \in Bins \ staged[p] /\ cur'[p] = cur[p] + 1
        /\ target' = target /\ UNCHANGED <<done, result, staged>>
    BY <1>14 DEF Skip, files, InstallTypeOK
  <2>2. \A b \in staged[p] : b < cur[p] + 1 <=> b < cur[p]
    BY <1>e, <1>3, <2>1
  <2>3. Passed(p)'
    BY <1>2, <1>3, <1>4, <2>1, <2>2 DEF Passed
  <2> QED BY <1>2, <1>4, <2>1, <2>3 DEF Ends
<1>15. CASE Linked(p)
  <2>1. /\ at[p] = "link" /\ at'[p] = "rename" /\ cur[p] \in staged[p] /\ cur[p] \in Bins /\ target' = target
        /\ UNCHANGED locals /\ backup'[p][cur[p]] = target[cur[p]]
    BY <1>15 DEF Linked, Go, InstallTypeOK
  <2>2. cur[p] \notin done[p]
    BY <1>2, <1>3, <2>1 DEF Passed
  <2>3. backup'[p][cur'[p]] = before'[p][cur'[p]]
    BY <1>2, <2>1, <2>2 DEF ChangedIsDone, locals
  <2>4. Passed(p)'
    BY <1>2, <1>4, <2>1, <2>3 DEF Passed, locals
  <2> QED BY <1>2, <1>4, <2>1, <2>4 DEF Ends, locals
<1>16. CASE Renamed(p)
  <2>1. /\ at[p] = "rename" /\ at'[p] = "link" /\ cur[p] \in staged[p] /\ cur[p] \in Bins /\ Exists(staging[p][cur[p]])
        /\ target' = [target EXCEPT ![cur[p]] = staging[p][cur[p]]]
        /\ done'[p] = done[p] \cup {cur[p]} /\ cur'[p] = cur[p] + 1 /\ UNCHANGED <<staged, result>>
    BY <1>16 DEF Renamed, Go, AtStaged, InstallTypeOK
  <2>2. target'[cur[p]].by = run[p] /\ \A b \in Bins : b # cur[p] => target'[b] = target[b]
    BY <1>2, <1>3, <2>1 DEF OwnCopies
  <2>3. ChangedIsDone(p)'
    BY <1>2, <2>1, <2>2 DEF ChangedIsDone
  <2>4. Installed' \subseteq staged[p]
    BY <1>2, <1>3, <2>1, <2>2 DEF Installed, Passed, Exists
  <2>5. \A b \in staged[p] : b < cur[p] + 1 <=> b \in done[p] \cup {cur[p]}
    BY <1>2, <1>3, <1>b, <1>e, <2>1 DEF Passed
  <2>6. Passed(p)'
    BY <1>2, <1>3, <2>1, <2>4, <2>5 DEF Passed
  <2> QED BY <1>2, <2>1, <2>3, <2>6 DEF Ends
<1>17. CASE SwapFails(p)
  <2>1. /\ at[p] \in {"link", "rename"} /\ at'[p] = "undo" /\ cur[p] \in Bins /\ cur'[p] = cur[p] - 1
        /\ target' = target /\ done' = done /\ result'[p] = "rolledback"
    BY <1>17 DEF SwapFails, Go, Report, InstallTypeOK
  <2>2. \A b \in done[p] : b <= cur[p] - 1
    BY <1>2, <1>3, <1>b, <1>e, <2>1 DEF Passed
  <2>3. Passed(p)'
    BY <2>1, <2>2 DEF Passed
  <2> QED BY <1>2, <1>4, <2>1, <2>3 DEF Ends
<1>18. CASE Undo(p) \/ UndoIsNothing(p)
  <2>1. /\ at[p] = "undo" /\ at' = at /\ cur[p] \in done[p] /\ cur'[p] = cur[p] - 1
        /\ done'[p] = done[p] \ {cur[p]} /\ UNCHANGED <<result, restored>>
    BY <1>18 DEF Undo, UndoIsNothing, files, InstallTypeOK
  <2>2. target' = [target EXCEPT ![cur[p]] = backup[p][cur[p]]]
    BY <1>18, <1>3, <2>1 DEF Undo, UndoIsNothing, files
  <2>3. backup[p][cur[p]] = before[p][cur[p]]
    BY <1>2, <2>1 DEF LinksToBefore, Ends
  <2>4. ChangedIsDone(p)'
    BY <1>2, <1>3, <2>1, <2>2, <2>3 DEF ChangedIsDone
  <2>5. restored[p] => \A b \in done'[p] : b <= cur[p] - 1
    BY <1>2, <1>3, <1>b, <1>e, <2>1 DEF Passed
  <2>6. Passed(p)'
    BY <2>1, <2>5 DEF Passed
  <2> QED BY <1>2, <2>1, <2>4, <2>6 DEF Ends
<1>19. CASE UndoFails(p)
  <2>1. /\ at[p] = "undo" /\ at' = at /\ target' = target /\ UNCHANGED <<done, result>> /\ ~restored'[p]
    BY <1>19 DEF UndoFails, files, InstallTypeOK
  <2> QED BY <1>2, <1>4, <2>1 DEF Passed, Ends
<1>20. CASE UndoNext(p)
  <2>1. /\ at[p] = "undo" /\ at' = at /\ target' = target /\ UNCHANGED <<done, result, restored>>
        /\ cur[p] \notin done[p] /\ cur[p] > 0 /\ cur'[p] = cur[p] - 1
    BY <1>20 DEF UndoNext, files, InstallTypeOK
  <2>2. \A b \in done[p] : b <= cur[p] => b <= cur[p] - 1
    BY <1>3, <1>e, <2>1
  <2>3. Passed(p)'
    BY <1>2, <2>1, <2>2 DEF Passed
  <2> QED BY <1>2, <1>4, <2>1, <2>3 DEF Ends
<1>21. CASE UndoDone(p)
  <2>1. /\ at[p] = "undo" /\ at'[p] = "unstage" /\ target' = target /\ UNCHANGED <<done, result, restored>>
        /\ cur[p] = 0
    BY <1>21 DEF UndoDone, Go, files, InstallTypeOK
  <2>2. restored[p] => done[p] = {}
    BY <1>2, <1>3, <1>b, <1>e, <2>1 DEF Passed
  <2> QED BY <1>2, <1>4, <2>1, <2>2 DEF Passed, Ends
<1>22. CASE SwapDone(p)
  <2>1. /\ at[p] = "link" /\ at'[p] = "cleanup" /\ target' = target /\ done' = done /\ cur[p] \notin Bins
    BY <1>22 DEF SwapDone, Go, InstallTypeOK
  <2>2. \A b \in staged[p] : b < cur[p]
    BY <1>2, <1>3, <1>c, <2>1 DEF Passed
  <2>3. Installed \subseteq done[p]
    BY <1>2, <2>1, <2>2 DEF Passed
  <2>4. Passed(p)' /\ (Ends(p)' <=> (result'[p] = "ok" => Installed' \subseteq done'[p]) /\
                                    (restored'[p] /\ result'[p] # "ok" => done'[p] = {}))
    BY <2>1 DEF Passed, Ends
  <2>5. result'[p] = "ok"
    BY <1>22 DEF SwapDone, Report, InstallTypeOK
  <2> QED BY <1>4, <2>1, <2>3, <2>4, <2>5
<1>23. CASE Cleanup(p) \/ Killed(p)
  <2>1. at'[p] = "idle"
    BY <1>23 DEF Cleanup, Killed, Go, InstallTypeOK
  <2> QED BY <1>2, <2>1
<1> QED
  BY <1>5, <1>6, <1>7, <1>8, <1>9, <1>10, <1>11, <1>12, <1>13, <1>14, <1>15, <1>16, <1>17, <1>18, <1>19, <1>20,
     <1>21, <1>22, <1>23 DEF InstallStep

LEMMA WholeInit == InstallInit => WholeInv
<1> SUFFICES ASSUME InstallInit PROVE WholeInv
  OBVIOUS
<1>1. \A p \in Pids : at[p] = "idle" /\ staged[p] = {} /\ done[p] = {}
  BY DEF InstallInit
<1> QED BY <1>1 DEF WholeInv, AloneIsOne, WholeAt, OwnCopies, LinksToBefore, RunsAlone, Live

LEMMA WholeNext ==
    ASSUME InstallInv, WholeInv, [InstallNext]_installVars
    PROVE  WholeInv'
<1>0. CASE UNCHANGED installVars
  BY <1>0 DEF installVars, files, locals, counters, WholeInv, AloneIsOne, WholeAt, OwnCopies, LinksToBefore, RunsAlone,
              Live, ChangedIsDone, Passed, Ends, Installed, Exists
<1> SUFFICES ASSUME NEW p \in Pids, InstallStep(p) PROVE WholeInv'
  BY <1>0 DEF InstallNext
<1>1. InstallTypeOK /\ AtStaged /\ AloneIsOne /\ \A q \in Pids : WholeAt(q)
  BY DEF InstallInv, WholeInv
<1>2. AloneIsOne'
  BY <1>1, AloneKept
<1>3. \A q \in Pids : q # p => WholeAt(q)'
  BY <1>1, OtherWhole
<1>4. OwnCopies(p)' /\ LinksToBefore(p)'
  BY <1>1, CopiesKept, LinksKept DEF WholeAt
<1>5. RunsAlone(p)' => ChangedIsDone(p)' /\ Passed(p)' /\ Ends(p)'
  BY <1>1, RunKept
<1>6. WholeAt(p)'
  BY <1>4, <1>5 DEF WholeAt
<1> QED BY <1>2, <1>3, <1>6 DEF WholeInv

(* What is changed is in `done`: all of what is installed in a run that      *)
(* reports success, nothing in one that reports otherwise and put all back.  *)
LEMMA WholeImplies ==
    ASSUME InstallTypeOK, WholeInv
    PROVE  UpdateIsWhole
<1>1. AllOrNothing
  <2> SUFFICES ASSUME NEW p \in Pids, at[p] = "cleanup", alone[p], restored[p]
               PROVE  IF result[p] = "ok" THEN \A b \in Installed : target[b].by = run[p]
                      ELSE target = before[p]
    BY DEF AllOrNothing
  <2>1. ChangedIsDone(p) /\ Ends(p)
    BY DEF WholeInv, WholeAt, RunsAlone, Live
  <2>2. CASE result[p] = "ok"
    BY <2>1, <2>2 DEF ChangedIsDone, Ends, Installed
  <2>3. CASE result[p] # "ok"
    <3>1. \A b \in Bins : target[b] = before[p][b]
      BY <2>1, <2>3 DEF ChangedIsDone, Ends
    <3> QED BY <2>3, <3>1 DEF InstallTypeOK
  <2> QED BY <2>2, <2>3
<1>2. OldReachable
  BY DEF OldReachable, WholeInv, WholeAt, LinksToBefore
<1> QED BY <1>1, <1>2 DEF UpdateIsWhole

(* WholeInv holds of every behaviour of the updaters. *)
THEOREM InstallWholeHolds == InstallSpec => []WholeInv
<1>1. InstallInv /\ WholeInv /\ [InstallNext]_installVars => WholeInv'
  BY WholeNext
<1> QED
  BY <1>1, WholeInit, InstallInvHolds, PTL DEF InstallSpec

(* However many updaters run, fail and are killed: a run nobody interfered   *)
(* with ends with every installed binary its own or every one as it was,     *)
(* unless it says it could not put one back; and one that was cut short      *)
(* leaves each previous binary in place or under its rollback link.          *)
THEOREM InstallUpdateIsWhole == InstallSpec => []UpdateIsWhole
<1>1. InstallInv /\ WholeInv => UpdateIsWhole
  BY WholeImplies DEF InstallInv
<1> QED
  BY <1>1, InstallInvHolds, InstallWholeHolds, PTL

-----------------------------------------------------------------------------
(* The uninstaller. *)

(* A binary's name is not that of another file, and neither is nowhere.      *)
LEMMA NamesApart ==
    /\ \A n : n \notin Binaries => <<"home", n>> \notin Paths
    /\ Nowhere \notin Paths /\ \A n : Nowhere # <<"home", n>>
    /\ "menu" \notin Binaries /\ "autostart" \notin Binaries
BY DEF Paths, Binaries, Nowhere

(* What is judged is there. *)
LEMMA JudgedAreThere == \A p \in Removing : p \in Paths /\ There(p)
BY DEF Removing, There

(* The plan is about the world as it was found, which nothing changes.       *)
LEMMA PlaceStays ==
    ASSUME place' = place
    PROVE  /\ Removing' = Removing /\ AtFirst' = AtFirst
           /\ \A e : EntryGoes(e)' <=> EntryGoes(e)
           /\ \A p : There(p)' <=> There(p)
           /\ site' = site /\ entry' = entry /\ (root' <=> root)
<1>1. site' = site /\ entry' = entry /\ (root' <=> root)
  BY DEF site, entry, root
<1>2. \A p : There(p)' <=> There(p)
  BY <1>1 DEF There
<1>3. \A d : Present(d)' = Present(d)
  BY <1>2 DEF Present
<1>4. \A d : CargoListed(d)' = CargoListed(d)
  BY <1>1, <1>3 DEF CargoListed
<1>5. Found' = Found
  BY <1>1 DEF Found, ExecDirs
<1>6. \A d : LeftAlone(d)' <=> LeftAlone(d)
  BY <1>1, <1>3, <1>4 DEF LeftAlone, NotAnInstall, RootsToRemove
<1>7. \A p : Judged(p)' <=> Judged(p)
  BY <1>1, <1>4 DEF Judged, ListedCheck, Vetted
<1>8. Removing' = Removing
  BY <1>1, <1>2, <1>5, <1>6, <1>7 DEF Removing
<1>9. \A e : EntryGoes(e)' <=> EntryGoes(e)
  BY <1>1, <1>8 DEF EntryGoes
<1>10. AtFirst' = AtFirst
  BY <1>1, <1>2 DEF AtFirst
<1> QED BY <1>1, <1>2, <1>8, <1>9, <1>10

-----------------------------------------------------------------------------
LEMMA RetryableIs == LinesStay /\ SelfLast => Retryable
BY DEF LinesStay, SelfLast, Retryable

LEMMA ThereAtFirst == \A p : There(p) => p \in Paths /\ p \in AtFirst
BY DEF There, AtFirst

(* A world as it is found: nothing is planned and nothing has gone.          *)
LEMMA UninstallInitInv == ASSUME UninstallAssumption, UninstallInit PROVE UninstallInv
<1>1. PlaceOK
  <2>1. PICK s \in Sites, e \in [Names -> Entries], m \in {"user", "system"},
             p \in BOOLEAN, me \in (Dirs \X {"tobii"}) \cup {Nowhere},
             x \in [Procs -> (Dirs \X {"tobii-gtk"}) \cup {Nowhere}] :
             place = [site |-> s, entry |-> e, mode |-> m, purge |-> p, me |-> me, exe |-> x]
    BY DEF UninstallInit
  <2>2. place.site = s /\ place.entry = e
    BY <2>1
  <2>3. s \in [Dirs -> Site] /\ e \in [Names -> Entry]
    BY <2>1 DEF UninstallAssumption
  <2> QED BY <2>2, <2>3 DEF PlaceOK
<1>2. plan = NoPlan /\ disk = AtFirst /\ failed = {} /\ step = "start" /\ manifest = {d \in Dirs : site[d].listed}
  BY DEF UninstallInit
<1>3. \A p : ~Gone(p)
  BY <1>2, ThereAtFirst DEF Gone
<1>4. PlanIsJudged
  BY <1>2 DEF PlanIsJudged, NoPlan
<1>5. GoneIsJudged
  BY <1>2, <1>3 DEF GoneIsJudged
<1>6. StoppedFirst
  BY <1>2 DEF StoppedFirst, NoPlan, Acting
<1>7. AllIsDone
  BY <1>2 DEF AllIsDone, Deciding, Acting
<1>8. SelfLast
  BY <1>3 DEF SelfLast
<1>9. LinesStay
  BY <1>2 DEF LinesStay
<1> QED BY <1>1, <1>4, <1>5, <1>6, <1>7, <1>8, <1>9, RetryableIs DEF UninstallInv

(* What is left of a plan is judged as the plan was.                         *)
LEMMA PlanKept ==
    ASSUME UninstallInv, place' = place, DOMAIN plan' = DOMAIN plan,
           plan'.remove \subseteq plan.remove, plan'.self = plan.self
    PROVE  PlaceOK' /\ PlanIsJudged'
<1>1. PlaceOK /\ PlanIsJudged
  BY DEF UninstallInv
<1>2. PlaceOK'
  BY <1>1 DEF PlaceOK
<1>3. PlanIsJudged'
  BY <1>1, PlaceStays DEF PlanIsJudged, NoPlan
<1> QED BY <1>2, <1>3

(* A step that removes only what was judged.                                 *)
LEMMA GoneKept ==
    ASSUME UninstallInv, place' = place, disk' \subseteq disk,
           \A p \in Paths : p \in disk \ disk' => p \in Removing,
           \A e \in Names : <<"home", e>> \in disk \ disk' => EntryGoes(e)
    PROVE  GoneIsJudged'
<1>1. GoneIsJudged
  BY DEF UninstallInv
<1>2. disk' \subseteq AtFirst'
  BY <1>1, PlaceStays DEF GoneIsJudged
<1>3. \A p \in Paths : Gone(p)' => p \in Removing'
  BY <1>1, PlaceStays DEF GoneIsJudged, Gone
<1>4. \A e \in Names : <<"home", e>> \in AtFirst' \ disk' => EntryGoes(e)'
  BY <1>1, PlaceStays DEF GoneIsJudged
<1> QED BY <1>2, <1>3, <1>4 DEF GoneIsJudged

LEMMA LinesKept ==
    ASSUME UninstallInv, place' = place, disk' \subseteq disk, manifest' = manifest
    PROVE  LinesStay'
BY PlaceStays DEF UninstallInv, Retryable, LinesStay, MayBeThere

(* Between two changes of the disk. *)
LEMMA DiskStays ==
    ASSUME UninstallInv, UNCHANGED <<place, disk, manifest, running, plan, failed>>
    PROVE  /\ PlaceOK' /\ PlanIsJudged' /\ GoneIsJudged' /\ LinesStay'
           /\ AtFirst' = AtFirst /\ Removing' = Removing /\ (Gone(place.me)' <=> Gone(place.me))
<1>1. place' = place /\ disk' = disk /\ plan' = plan /\ manifest' = manifest
  OBVIOUS
<1>2. PlaceOK' /\ PlanIsJudged'
  BY <1>1, PlanKept
<1>3. GoneIsJudged'
  BY <1>1, GoneKept
<1>4. LinesStay'
  BY <1>1, LinesKept
<1> QED BY <1>1, <1>2, <1>3, <1>4, PlaceStays DEF Gone

-----------------------------------------------------------------------------
(* The plan is made of what was judged.                                      *)
LEMMA PlanInv == ASSUME UninstallInv, Plan PROVE UninstallInv'
<1>0. UNCHANGED <<place, disk, manifest, running, failed>> /\ step = "start"
  BY DEF Plan
<1>1. disk = AtFirst /\ failed = {} /\ ~Gone(place.me)
  BY <1>0, ThereAtFirst DEF UninstallInv, StoppedFirst, Deciding, Gone
<1>2. PlaceOK' /\ GoneIsJudged' /\ LinesStay'
  <2>1. PlaceOK'
    BY <1>0 DEF UninstallInv, PlaceOK
  <2> QED BY <1>0, <2>1, GoneKept, LinesKept
<1>3. disk' = AtFirst' /\ failed' = {} /\ SelfLast'
  BY <1>0, <1>1, PlaceStays DEF SelfLast, Gone
<1>4. PlanIsJudged'
  <2>1. CASE UNCHANGED plan
    BY <1>0, <2>1, PlanKept
  <2>2. CASE plan' = MakePlan
    <3>1. /\ DOMAIN plan' = DOMAIN NoPlan
          /\ plan'.remove = ToRemove /\ plan'.self = IF place.me \in Removing THEN place.me ELSE Nowhere
      BY <2>2 DEF MakePlan, NoPlan
    <3>2. \A x \in ToRemove : x \in Paths => x \in Removing \ {place.me}
      BY NamesApart DEF ToRemove, Purges, Purgeable, IconGoes, Of, Names, Binaries
    <3>3. \A e \in Names : <<"home", e>> \in ToRemove => EntryGoes(e)
      <4> SUFFICES ASSUME NEW e \in Names, <<"home", e>> \in ToRemove PROVE EntryGoes(e)
        OBVIOUS
      <4>1. <<"home", e>> \notin Removing
        BY NamesApart, JudgedAreThere DEF Names
      <4> QED BY <4>1 DEF ToRemove, Purges, Purgeable, Of, Names
    <3> QED BY <1>0, <3>1, <3>2, <3>3, PlaceStays DEF PlanIsJudged
  <2> QED BY <2>1, <2>2 DEF Plan
<1>5. StoppedFirst' /\ AllIsDone'
  <2>1. CASE step' = "end"
    BY <1>3, <2>1 DEF StoppedFirst, AllIsDone, Deciding, Acting
  <2>2. CASE step' = "stop"
    <3>1. plan'.remove = ToRemove /\ plan'.self = IF place.me \in Removing THEN place.me ELSE Nowhere
      BY <2>2 DEF Plan, MakePlan
    <3>2. Removing' \subseteq plan'.remove \cup {plan'.self}
      BY <1>0, <3>1, PlaceStays DEF ToRemove
    <3> QED BY <1>3, <2>2, <3>2 DEF StoppedFirst, AllIsDone, Deciding, Acting
  <2> QED BY <2>1, <2>2 DEF Plan
<1> QED BY <1>2, <1>3, <1>4, <1>5, RetryableIs DEF UninstallInv, LinesStay, SelfLast, Retryable

LEMMA ExitsInv == ASSUME UninstallInv, NEW q \in Procs, Exits(q) PROVE UninstallInv'
<1>0. UNCHANGED <<place, disk, manifest, plan, step, failed>> /\ running' \subseteq running
  BY DEF Exits
<1>1. PlaceOK' /\ PlanIsJudged' /\ GoneIsJudged' /\ LinesStay'
  BY <1>0, PlanKept, GoneKept, LinesKept
<1>2. StoppedFirst' /\ AllIsDone' /\ SelfLast'
  BY <1>0, PlaceStays DEF UninstallInv, StoppedFirst, AllIsDone, SelfLast, Gone
<1> QED BY <1>1, <1>2 DEF UninstallInv, LinesStay, SelfLast, Retryable

(* The steps that ask and wait change nothing on disk.                       *)
LEMMA StoppingInv ==
    ASSUME UninstallInv, StopNone \/ StopDeclined \/ StopAsked \/ StopTerm \/ StopDone
    PROVE  UninstallInv'
<1>0. UNCHANGED <<place, disk, manifest, running, plan, failed>> /\ step \in Deciding \ {"start"}
  BY DEF StopNone, StopDeclined, StopAsked, StopTerm, StopDone, Deciding
<1>1. step' \in {"nothing", "remove"} => running \cap plan.stop = {}
  BY DEF StopNone, StopDeclined, StopAsked, StopTerm, StopDone, Stopping, ToStop
<1>2. step' \in {"nothing", "remove", "end", "term", "wait"}
  BY DEF StopNone, StopDeclined, StopAsked, StopTerm, StopDone
<1>3. StoppedFirst' /\ AllIsDone' /\ SelfLast'
  <2>1. disk = AtFirst /\ failed = {}
    BY <1>0 DEF UninstallInv, StoppedFirst
  <2>2. ~Gone(place.me)
    BY <2>1, ThereAtFirst DEF Gone
  <2>3. Removing \cap disk \subseteq plan.remove \cup failed \cup {plan.self}
    BY <1>0 DEF UninstallInv, AllIsDone
  <2>4. StoppedFirst'
    BY <1>0, <1>1, <1>2, <2>1, DiskStays DEF StoppedFirst, Acting, Deciding
  <2> QED BY <1>0, <1>2, <2>2, <2>3, <2>4, DiskStays DEF AllIsDone, SelfLast, Acting, Deciding
<1> QED BY <1>0, <1>3, DiskStays DEF UninstallInv, LinesStay, SelfLast, Retryable

(* One removal succeeds, finds nothing, or fails and is noted.               *)
LEMMA RemoveOneInv == ASSUME UninstallInv, RemoveOne PROVE UninstallInv'
<1>1. PICK x \in Firsts(plan.remove) :
         /\ plan' = [plan EXCEPT !.remove = @ \ {x}]
         /\ \/ disk' = disk \ {x} /\ UNCHANGED failed
            \/ x \in disk /\ failed' = failed \cup {x} /\ UNCHANGED disk
  BY DEF RemoveOne
<1>2. UNCHANGED <<place, manifest, running, step>> /\ step = "remove" /\ x \in plan.remove
  BY <1>1 DEF RemoveOne, Firsts
<1>3. PlanIsJudged /\ GoneIsJudged /\ StoppedFirst /\ AllIsDone /\ SelfLast
  BY DEF UninstallInv
<1>4. /\ plan'.remove = plan.remove \ {x} /\ plan'.self = plan.self /\ plan'.stop = plan.stop
      /\ DOMAIN plan' = DOMAIN plan
  BY <1>1, <1>3 DEF PlanIsJudged, NoPlan
<1>5. disk' \subseteq disk /\ disk \ disk' \subseteq {x} /\ (x \notin disk' \/ x \in failed')
  BY <1>1
<1>6. PlaceOK' /\ PlanIsJudged'
  BY <1>2, <1>4, PlanKept
<1>7. x \in Paths => x \in Removing /\ x # place.me
  BY <1>2, <1>3 DEF PlanIsJudged
<1>8. \A e \in Names : <<"home", e>> = x => EntryGoes(e)
  BY <1>2, <1>3 DEF PlanIsJudged
<1>9. GoneIsJudged' /\ LinesStay'
  BY <1>2, <1>5, <1>7, <1>8, GoneKept, LinesKept
<1>10. StoppedFirst'
  BY <1>2, <1>3, <1>4 DEF StoppedFirst, Acting, Deciding
<1>11. AllIsDone'
  <2>1. failed \subseteq failed'
    BY <1>1
  <2>2. Removing \cap disk \subseteq plan.remove \cup failed \cup {plan.self}
    BY <1>2, <1>3 DEF AllIsDone, Acting
  <2>3. Removing' \cap disk' \subseteq plan'.remove \cup failed' \cup {plan'.self}
    BY <1>2, <1>4, <1>5, <2>1, <2>2, PlaceStays
  <2> QED BY <1>2, <2>3 DEF AllIsDone, Acting
<1>12. SelfLast'
  <2>1. ~Gone(place.me)
    BY <1>2, <1>3 DEF SelfLast
  <2>2. ~Gone(place.me)'
    BY <1>2, <1>5, <1>7, <2>1, PlaceStays, ThereAtFirst DEF Gone
  <2> QED BY <2>2 DEF SelfLast
<1> QED BY <1>6, <1>9, <1>10, <1>11, <1>12 DEF UninstallInv, LinesStay, SelfLast, Retryable

(* A line goes only when nothing is left in its directory but this program,  *)
(* which is to go.                                                           *)
LEMMA ApplyManifestInv == ASSUME UninstallInv, ApplyManifest PROVE UninstallInv'
<1>0. /\ UNCHANGED <<place, disk, running, plan>> /\ step = "remove" /\ step' = "rmdir" /\ plan.remove = {}
      /\ failed \subseteq failed'
  BY DEF ApplyManifest
<1>1. PlanIsJudged /\ GoneIsJudged /\ StoppedFirst /\ AllIsDone /\ SelfLast /\ Retryable
  BY DEF UninstallInv
<1>2. PlaceOK' /\ PlanIsJudged' /\ GoneIsJudged'
  BY <1>0, PlanKept, GoneKept
<1>3. LinesStay'
  <2>1. ASSUME NEW d \in Dirs, d \notin manifest', site[d].listed, NEW b \in Binaries, MayBeThere(<<d, b>>)
        PROVE  <<d, b>> = place.me
    <3>1. CASE d \notin manifest
      BY <1>1, <2>1, <3>1 DEF Retryable, LinesStay
    <3>2. CASE d \in manifest
      <4>1. Emptied(d)
        BY <2>1, <3>2 DEF ApplyManifest
      <4>2. <<d, b>> = SelfGoing
        BY <2>1, <4>1 DEF Emptied
      <4>3. <<d, b>> # Nowhere
        BY <2>1, NamesApart DEF Paths
      <4> QED BY <1>1, <4>2, <4>3 DEF SelfGoing, PlanIsJudged
    <3> QED BY <3>1, <3>2
  <2> QED BY <1>0, <2>1, PlaceStays DEF LinesStay, MayBeThere
<1>4. StoppedFirst'
  BY <1>0, <1>1 DEF StoppedFirst, Acting, Deciding
<1>5. AllIsDone'
  BY <1>0, <1>1, PlaceStays DEF AllIsDone, Acting, Deciding
<1>6. SelfLast'
  BY <1>0, <1>1, PlaceStays DEF SelfLast, Gone
<1> QED BY <1>2, <1>3, <1>4, <1>5, <1>6 DEF UninstallInv, LinesStay, SelfLast, Retryable

(* Removing empty directories, the cache or the rule is no binary's and no    *)
(* entry's end.                                                              *)
LEMMA OthersGo ==
    ASSUME UninstallInv, UNCHANGED <<place, manifest, running, plan, failed>>,
           disk' \subseteq disk, disk \ disk' \subseteq Of({"profiles", "config", "cache", "rule"})
    PROVE  /\ PlaceOK' /\ PlanIsJudged' /\ GoneIsJudged' /\ LinesStay'
           /\ Removing' = Removing /\ AtFirst' = AtFirst
           /\ Removing' \cap disk' = Removing \cap disk /\ (Gone(place.me)' <=> Gone(place.me))
<1>1. \A p \in Paths : p \notin disk \ disk'
  BY NamesApart DEF Of, Binaries
<1>2. \A e \in Names : <<"home", e>> \notin disk \ disk'
  BY DEF Of, Names
<1>3. PlaceOK' /\ PlanIsJudged'
  BY PlanKept
<1>4. GoneIsJudged' /\ LinesStay'
  BY <1>1, <1>2, GoneKept, LinesKept
<1>5. Removing' = Removing /\ AtFirst' = AtFirst
  BY PlaceStays
<1>6. Removing' \cap disk' = Removing \cap disk
  BY <1>1, <1>5, JudgedAreThere
<1>7. Gone(place.me)' <=> Gone(place.me)
  BY <1>1, PlaceStays, ThereAtFirst DEF Gone
<1> QED BY <1>3, <1>4, <1>5, <1>6, <1>7

LEMMA RemoveDirsInv == ASSUME UninstallInv, RemoveDirs \/ RefreshIcons PROVE UninstallInv'
<1>0. /\ UNCHANGED <<place, manifest, running, plan, failed>>
      /\ step \in Acting \ {"remove"} /\ step' \in Acting \ {"remove"}
  BY DEF RemoveDirs, RefreshIcons, Acting
<1>1. disk' \subseteq disk /\ disk \ disk' \subseteq Of({"profiles", "config", "cache", "rule"})
  BY DEF RemoveDirs, RefreshIcons, EmptyDirs, Of
<1>2. /\ PlaceOK' /\ PlanIsJudged' /\ GoneIsJudged' /\ LinesStay'
      /\ Removing' = Removing /\ AtFirst' = AtFirst
      /\ Removing' \cap disk' = Removing \cap disk /\ (Gone(place.me)' <=> Gone(place.me))
  BY <1>0, <1>1, OthersGo
<1>3. StoppedFirst /\ AllIsDone /\ SelfLast
  BY DEF UninstallInv
<1>4. StoppedFirst'
  BY <1>0, <1>3 DEF StoppedFirst, Acting, Deciding
<1>5. AllIsDone'
  BY <1>0, <1>2, <1>3 DEF AllIsDone, Acting, Deciding
<1>6. SelfLast'
  BY <1>0, <1>2, <1>3 DEF SelfLast, Acting
<1> QED BY <1>2, <1>4, <1>5, <1>6 DEF UninstallInv, LinesStay, SelfLast, Retryable

LEMMA RunUdevInv == ASSUME UninstallInv, RunUdev PROVE UninstallInv'
<1>0. /\ UNCHANGED <<place, manifest, running, plan, failed>>
      /\ (step = "done" /\ step' = "over") \/ (step = "nothing" /\ step' = "end")
  BY DEF RunUdev
<1>1. disk' \subseteq disk /\ disk \ disk' \subseteq Of({"profiles", "config", "cache", "rule"})
  BY DEF RunUdev, Of
<1>2. /\ PlaceOK' /\ PlanIsJudged' /\ GoneIsJudged' /\ LinesStay'
      /\ Removing' = Removing /\ AtFirst' = AtFirst
      /\ Removing' \cap disk' = Removing \cap disk /\ (Gone(place.me)' <=> Gone(place.me))
  BY <1>0, <1>1, OthersGo
<1>3. StoppedFirst /\ AllIsDone /\ SelfLast
  BY DEF UninstallInv
<1>4. StoppedFirst'
  BY <1>0, <1>3 DEF StoppedFirst, Acting, Deciding
<1>5. AllIsDone'
  BY <1>0, <1>2, <1>3 DEF AllIsDone, Acting, Deciding
<1>6. SelfLast'
  BY <1>0, <1>2, <1>3 DEF SelfLast
<1> QED BY <1>2, <1>4, <1>5, <1>6 DEF UninstallInv, LinesStay, SelfLast, Retryable

(* This program goes when nothing has failed and nothing is left to remove.  *)
LEMMA RemoveSelfInv == ASSUME UninstallInv, RemoveSelf PROVE UninstallInv'
<1>0. /\ UNCHANGED <<place, manifest, running, plan>> /\ step = "self" /\ step' = "done"
      /\ plan.self # Nowhere /\ failed = {}
  BY DEF RemoveSelf
<1>1. PlanIsJudged /\ GoneIsJudged /\ StoppedFirst /\ AllIsDone /\ SelfLast
  BY DEF UninstallInv
<1>2. plan.self = place.me /\ place.me \in Removing /\ place.me \in Paths /\ plan.remove = {}
  BY <1>0, <1>1, JudgedAreThere DEF PlanIsJudged, AllIsDone, Acting
<1>3. disk' \subseteq disk /\ disk \ disk' \subseteq {place.me}
  BY <1>2 DEF RemoveSelf
<1>4. \A e \in Names : <<"home", e>> # place.me
  BY <1>2, NamesApart DEF Names
<1>5. PlaceOK' /\ PlanIsJudged' /\ GoneIsJudged' /\ LinesStay'
  BY <1>0, <1>2, <1>3, <1>4, PlanKept, GoneKept, LinesKept
<1>6. StoppedFirst'
  BY <1>0, <1>1 DEF StoppedFirst, Acting, Deciding
<1>7. Removing \cap disk \subseteq {place.me}
  BY <1>0, <1>1, <1>2 DEF AllIsDone, Acting
<1>8. AllIsDone' /\ SelfLast'
  <2>1. CASE disk' = disk \ {plan.self} /\ UNCHANGED failed
    <3>1. Removing' \cap disk' = {}
      BY <1>0, <1>2, <1>7, <2>1, PlaceStays
    <3> QED BY <1>0, <1>2, <2>1, <3>1 DEF AllIsDone, SelfLast, Acting, Deciding
  <2>2. CASE failed' = {plan.self} /\ UNCHANGED disk
    <3>1. ~Gone(place.me)
      BY <1>0, <1>1 DEF SelfLast
    <3> QED BY <1>0, <1>2, <2>2, <3>1, PlaceStays DEF AllIsDone, SelfLast, Gone, Acting, Deciding
  <2> QED BY <2>1, <2>2 DEF RemoveSelf
<1> QED BY <1>5, <1>6, <1>8 DEF UninstallInv, LinesStay, SelfLast, Retryable

LEMMA EndingInv == ASSUME UninstallInv, SelfKept \/ Interrupted PROVE UninstallInv'
<1>0. /\ UNCHANGED <<place, disk, manifest, running, plan, failed>>
      /\ \/ step = "self" /\ step' = "done" /\ (plan.self = Nowhere \/ failed # {})
         \/ step' = "end" /\ step \notin {"done", "over"}
  BY DEF SelfKept, Interrupted
<1>1. StoppedFirst /\ AllIsDone /\ SelfLast
  BY DEF UninstallInv
<1>2. StoppedFirst'
  BY <1>0, <1>1, DiskStays DEF StoppedFirst, Acting, Deciding
<1>3. AllIsDone'
  <2>1. CASE step' = "end"
    BY <2>1 DEF AllIsDone, Acting, Deciding
  <2>2. CASE step' = "done"
    <3>1. plan.remove = {} /\ Removing \cap disk \subseteq plan.remove \cup failed \cup {plan.self}
      BY <1>0, <1>1, <2>2 DEF AllIsDone, Acting
    <3>2. failed = {} => Removing \cap disk = {}
      BY <1>0, <2>2, <3>1, JudgedAreThere, NamesApart
    <3> QED BY <1>0, <2>2, <3>1, <3>2, DiskStays DEF AllIsDone, Acting, Deciding
  <2> QED BY <1>0, <2>1, <2>2
<1>4. SelfLast'
  BY <1>0, <1>1, DiskStays DEF SelfLast
<1> QED BY <1>0, <1>2, <1>3, <1>4, DiskStays DEF UninstallInv, LinesStay, SelfLast, Retryable

LEMMA UninstallNextInv == ASSUME UninstallInv, [UninstallNext]_uninstallVars PROVE UninstallInv'
<1>1. CASE UNCHANGED uninstallVars
  BY <1>1, DiskStays DEF uninstallVars, UninstallInv, StoppedFirst, AllIsDone, SelfLast, LinesStay, Retryable
<1>2. CASE UninstallNext
  BY <1>2, PlanInv, ExitsInv, StoppingInv, RemoveOneInv, ApplyManifestInv, RemoveDirsInv, RunUdevInv,
     RemoveSelfInv, EndingInv DEF UninstallNext
<1> QED BY <1>1, <1>2

-----------------------------------------------------------------------------
(* What is gone was this program's to remove.                                *)
LEMMA JudgedAreOurs ==
    ASSUME NEW p \in Removing
    PROVE  /\ site[p[1]].owner = "none" /\ site[p[1]].bin[p[2]] \notin {"script", "foreign"}
           /\ site[p[1]].listed \/ (site[p[1]].bin[p[2]] = "ours" /\ ~site[p[1]].tree /\ p[2] \notin site[p[1]].cargo)
           /\ root => site[p[1]].rooted
<1>1. /\ ~LeftAlone(p[1]) /\ site[p[1]].owner = "none" /\ Judged(p) /\ There(p) /\ p \in Paths
  BY DEF Removing, There
<1>2. p = <<p[1], p[2]>> /\ p[2] \in Binaries
  BY <1>1 DEF Paths
<1>3. CASE site[p[1]].listed
  BY <1>1, <1>3 DEF Judged, ListedCheck
<1>4. CASE ~site[p[1]].listed
  <2>1. Vetted(p) /\ ~site[p[1]].tree
    BY <1>1, <1>4 DEF Judged, LeftAlone, NotAnInstall
  <2>2. p[2] \in Present(p[1])
    BY <1>1, <1>2 DEF Present
  <2>3. p[2] \notin site[p[1]].cargo
    BY <1>1, <1>4, <2>1, <2>2 DEF Judged, CargoListed, Vetted
  <2> QED BY <1>1, <2>1, <2>3 DEF Vetted
<1> QED BY <1>3, <1>4

(* Nothing that another program installed, and nothing that this user or      *)
(* root could not vouch for, is ever removed (`plan_with_fs`, `execute`).     *)
THEOREM UninstallOnlyOurs ==
    ASSUME UninstallAssumption
    PROVE  UninstallSpec => []OnlyOurs
<1>1. UninstallInv => OnlyOurs
  BY JudgedAreOurs DEF UninstallInv, GoneIsJudged, OnlyOurs
<1> QED BY <1>1, UninstallInitInv, UninstallNextInv, PTL DEF UninstallSpec

(* However a run fails or is stopped, the next one finds what is left         *)
(* (`apply_manifest`, and the last removal of `execute`).                    *)
THEOREM UninstallRetryable ==
    ASSUME UninstallAssumption
    PROVE  UninstallSpec => []Retryable
<1>1. UninstallInv => Retryable
  BY DEF UninstallInv
<1> QED BY <1>1, UninstallInitInv, UninstallNextInv, PTL DEF UninstallSpec

(* Success leaves no entry without what it ran, and no running copy without   *)
(* its file (`entry_decision`, `stop_running`).                              *)
THEOREM UninstallSwitchesNothingOff ==
    ASSUME UninstallAssumption
    PROVE  UninstallSpec => []SwitchesNothingOff
<1>1. UninstallInv => SwitchesNothingOff
  <2> SUFFICES ASSUME UninstallInv PROVE SwitchesNothingOff
    OBVIOUS
  <2>1. PlaceOK /\ GoneIsJudged /\ StoppedFirst /\ AllIsDone
    BY DEF UninstallInv
  <2>2. ASSUME step \in {"done", "over"}, failed = {}, NEW e \in Names,
               entry[e].kind # "absent", Of({e}) \cap disk = {}
        PROVE  entry[e].runs \cap disk = {}
    <3>1. <<"home", e>> \in AtFirst \ disk
      BY <2>2 DEF AtFirst, Of
    <3>2. EntryGoes(e) /\ Removing \cap disk = {}
      BY <2>1, <2>2, <3>1 DEF GoneIsJudged, AllIsDone
    <3>3. ASSUME NEW p \in entry[e].runs, p \in disk PROVE FALSE
      <4>1. p \in Paths \cup {Nowhere}
        <5>1. entry[e] \in Entry
          BY <2>1 DEF PlaceOK, entry
        <5> QED BY <3>3, <5>1 DEF Entry
      <4>2. p \in AtFirst
        BY <2>1, <3>3 DEF GoneIsJudged
      <4>3. p # Nowhere
        BY <4>2, NamesApart DEF AtFirst, Of
      <4>4. There(p)
        BY <4>1, <4>2, <4>3, NamesApart DEF AtFirst, Of, Binaries, Names
      <4>5. site[p[1]].bin[p[2]] # "absent"
        BY <4>4 DEF There
      <4> QED BY <3>2, <3>3, <4>3, <4>5 DEF EntryGoes
    <3> QED BY <3>3
  <2>3. ASSUME NEW q \in running, Gone(place.exe[q]) PROVE q \notin plan.stop
    <3>1. disk # AtFirst
      BY <2>3, ThereAtFirst DEF Gone
    <3> QED BY <2>1, <3>1 DEF StoppedFirst
  <2> QED BY <2>2, <2>3 DEF SwitchesNothingOff
<1> QED BY <1>1, UninstallInitInv, UninstallNextInv, PTL DEF UninstallSpec

(* The three together: what the run asks of the uninstaller. *)
THEOREM UninstallSafe ==
    ASSUME UninstallAssumption
    PROVE  UninstallSpec => []UninstallIsSafe
<1>1. Retryable /\ OnlyOurs /\ SwitchesNothingOff => UninstallIsSafe
  BY DEF UninstallIsSafe
<1> QED BY <1>1, UninstallRetryable, UninstallOnlyOurs, UninstallSwitchesNothingOff, PTL

-----------------------------------------------------------------------------
(* What the banner says apart from where a download was saved. *)
Said == {"", "blocked", "restart", "a package manager's", "an administrator's",
         "another account's files", "a folder to fix", "available", "installing", "updated",
         "install failed", "downloading", "download failed", "vanished", "no path", "no chooser"}
LEMMA NotSaved == ASSUME NEW t \in Said PROVE ~IsSaved(t)
<1>1. \A a, c : Saved(a, c) \in {"saved: sudo install.sh --system", "saved: install.sh there",
                                "saved: apt", "saved: dnf", "saved: pacman", "saved: makepkg", "saved: install.sh"}
  BY DEF Saved
<1>2. t \notin {"saved: sudo install.sh --system", "saved: install.sh there",
               "saved: apt", "saved: dnf", "saved: pacman", "saved: makepkg", "saved: install.sh"}
  BY DEF Said
<1> QED BY <1>1, <1>2 DEF IsSaved
LEMMA SaidIs ==
    /\ "" \in Said /\ "blocked" \in Said /\ "installing" \in Said /\ "updated" \in Said
    /\ "restart" \in Said /\ "install failed" \in Said /\ "downloading" \in Said
    /\ "download failed" \in Said /\ "vanished" \in Said /\ "no path" \in Said
    /\ "no chooser" \in Said /\ \A a : Headline(a) \in Said \ {"download failed"}
  BY DEF Said, Headline
(* A worker that is none. *)
LEMMA NoJobIs == Worker(NoJob) /\ NoJob.kind = "none"
  BY DEF Worker, NoJob
LEMMA JobIs ==
    ASSUME NEW k, NEW stage
    PROVE  Worker(Job(k, stage)) /\ Job(k, stage).kind = k /\ Job(k, stage).at = stage
  BY NoJobIs DEF Job, Worker
(* What a banner shows once it is shown. *)
LEMMA BannerShown ==
    ASSUME NEW u, Banner(u), NEW t, NEW d
    PROVE  /\ Banner([u EXCEPT !.shown = TRUE, !.text = t]) /\ [u EXCEPT !.shown = TRUE, !.text = t].text = t
           /\ Banner([u EXCEPT !.shown = TRUE, !.text = t, !.button = d])
           /\ [u EXCEPT !.shown = TRUE, !.text = t, !.button = d].text = t
  BY DEF Banner
LEMMA FirstJob ==
    /\ Worker(Job("check", "fetch"))
    /\ Job("check", "fetch").kind = "check"
  BY JobIs
LEMMA NoFilesYet == DOMAIN <<>> = 1..0
  OBVIOUS

(* Where nothing of a download changes, it stays as it was called. *)
LEMMA UntouchedInTurn ==
    ASSUME InTurn, UNCHANGED <<job, offer, folderVars>> PROVE InTurn'
  BY DEF InTurn, folderVars, OwnFolder, AsNamed
LEMMA NoneInTurn == ASSUME job'.kind # "download" PROVE InTurn'
  BY DEF InTurn
LEMMA Untouched ==
    ASSUME UNCHANGED <<offer.wired.files, folderVars>>
    PROVE  AllAsNamed' = AllAsNamed /\ NothingKept' = NothingKept
  BY DEF AllAsNamed, NothingKept, OwnFolder, AsNamed, folderVars
(* Nothing is said of a download, and nothing was. *)
LEMMA QuietOutcome ==
    ASSUME \A m \in mail' : m.what # "downloaded", ui'.text \in Said \ {"download failed"}
    PROVE  OutcomeIsSo'
  BY NotSaved DEF OutcomeIsSo

LEMMA UpdateInitInv == ASSUME UpdateInit PROVE UpdateInv
<1>1. UpdateTypes
  <2>1. Banner(ui) BY DEF UpdateInit, Banner
  <2>2. Worker(job) BY NoJobIs, FirstJob DEF UpdateInit
  <2>3. DOMAIN onDisk = FileNames BY DEF UpdateInit, NoFiles
  <2>4. offer.wired.files = <<>> BY DEF UpdateInit, NoOffer, Offer
  <2>5. DOMAIN offer.wired.files \in {1..n : n \in 0..2} BY <2>4, NoFilesYet
  <2>6. mail = {} /\ touched = {} /\ latest = {} /\ placement \in Places BY DEF UpdateInit
  <2> QED BY <2>1, <2>2, <2>3, <2>5, <2>6 DEF UpdateTypes
<1>2. ui.text = "" /\ ~IsSaved(ui.text) BY NotSaved, SaidIs DEF UpdateInit
<1>3. OneWorker
  <2>1. job = NoJob \/ job.kind = "check" BY FirstJob DEF UpdateInit
  <2>2. mail = {} /\ ~ui.shown /\ ui.button = "Update" BY DEF UpdateInit
  <2> QED BY <1>2, <2>1, <2>2, NoJobIs DEF OneWorker, Checking, Busy, Ended
<1>4. InTurn BY NoJobIs, FirstJob DEF UpdateInit, InTurn
<1>5. OutcomeIsSo BY <1>2 DEF UpdateInit, OutcomeIsSo
<1> QED BY <1>1, <1>3, <1>4, <1>5 DEF UpdateInv

LEMMA CheckInv == ASSUME UpdateInv, CheckThread PROVE UpdateInv'
<1>0. job.kind = "check" /\ job' = NoJob /\ ui' = ui /\ offer' = offer /\ UNCHANGED folderVars /\ placement' = placement
  BY DEF CheckThread, uiVars
<1>1. ui.text = "" /\ ~ui.shown /\ ~IsSaved("")
  BY <1>0, NotSaved, SaidIs DEF UpdateInv, OneWorker, Checking
<1>2. \A m \in mail' : m.what = "checked" /\ Asker(m.manager) /\ (m.found = "Newer" \/ m.action = "none")
  <2>1. placement \in Places BY DEF UpdateInv, UpdateTypes
  <2> DEFINE msg(f, a, q) == [what |-> "checked", found |-> f, action |-> a, manager |-> q]
  <2>2. \E f, a, q : /\ mail' = {msg(f, a, q)} /\ q \in {"", Asked(OwnershipOf(placement.answers))}
                     /\ f = "Newer" \/ a = "none"
    BY DEF CheckThread
  <2>3. \A f, a, q : /\ msg(f, a, q).what = "checked" /\ msg(f, a, q).found = f
                       /\ msg(f, a, q).action = a /\ msg(f, a, q).manager = q
    OBVIOUS
  <2> HIDE DEF msg
  <2> PICK f, a, q : /\ mail' = {msg(f, a, q)} /\ q \in {"", Asked(OwnershipOf(placement.answers))}
                     /\ f = "Newer" \/ a = "none"
    BY <2>2
  <2>4. Asker(q) BY <2>1 DEF Asker
  <2> TAKE m \in mail'
  <2>5. m = msg(f, a, q) OBVIOUS
  <2>6. m.what = "checked" /\ m.found = f /\ m.action = a /\ m.manager = q BY <2>5 DEF msg
  <2> QED BY <2>4, <2>6
<1>3. latest' = {} \/ \E items \in Listings : latest' = ParseReleases(items)
  BY DEF CheckThread, UpdateInv, UpdateTypes
<1>4. UpdateTypes'
  BY <1>0, <1>2, <1>3, NoJobIs DEF UpdateInv, UpdateTypes, folderVars, Asker
<1>5. OneWorker'
  BY <1>0, <1>1, <1>2, NoJobIs DEF UpdateInv, OneWorker, Checking, Busy, Ended
<1>6. InTurn' BY <1>0, NoJobIs, NoneInTurn
<1>7. OutcomeIsSo' BY <1>0, <1>1, <1>2, SaidIs, QuietOutcome
<1> QED BY <1>4, <1>5, <1>6, <1>7 DEF UpdateInv

LEMMA BannerInv == ASSUME UpdateAssumption, UpdateInv, ShowBanner PROVE UpdateInv'
<1> PICK m \in mail : ShowBanner!(m)
  BY DEF ShowBanner
<1>0. /\ mail' = {} /\ job' = job /\ job = NoJob /\ UNCHANGED <<folderVars, placement, latest>>
      /\ m.what = "checked" /\ ui.text = ""
  BY DEF UpdateInv, OneWorker, Checking
<1>1. /\ Banner(ui')
      /\ ui'.text \in Said \ {"download failed"}
  <2>1. Banner(ui) BY DEF UpdateInv, UpdateTypes
  <2> DEFINE Quiet == Said \ {"download failed"}
  <2>4. ASSUME NEW v, NEW d, NEW t \in Quiet,
               \/ v = [ui EXCEPT !.shown = TRUE, !.text = t, !.button = d]
               \/ v = [ui EXCEPT !.shown = TRUE, !.text = t]
        PROVE  Banner(v) /\ v.text \in Quiet
    <3>1. CASE v = [ui EXCEPT !.shown = TRUE, !.text = t, !.button = d] BY <2>1, <3>1 DEF Banner
    <3>2. CASE v = [ui EXCEPT !.shown = TRUE, !.text = t] BY <2>1, <3>2 DEF Banner
    <3> QED BY <2>4, <3>1, <3>2
  <2>5. Headline(m.action) \in Quiet BY SaidIs
  <2>6. "" \in Quiet /\ "blocked" \in Quiet BY DEF Said
  <2>7. CASE m.found \in {"NoBuildForTarget", "NoChecksums"}
    <3>1. ui' = [ui EXCEPT !.shown = TRUE, !.text = "blocked", !.button = "none"]
      BY <2>7, <1>0 DEF UpdateInv, UpdateTypes
    <3> QED BY <3>1, <2>4, <2>6
  <2> DEFINE h == Headline(m.action)
  <2>8. CASE m.found \notin {"NoBuildForTarget", "NoChecksums"} /\ m.action \in {"Restart", "FixFolder"}
    <3>1. ui' = [ui EXCEPT !.shown = TRUE, !.text = h, !.button = "Quit"] BY <2>8
    <3> QED BY <3>1, <2>4, <2>5
  <2>9. CASE m.found \notin {"NoBuildForTarget", "NoChecksums"} /\ m.action = "Update"
    <3>1. ui' = [ui EXCEPT !.shown = TRUE, !.text = h] BY <2>9
    <3> QED BY <3>1, <2>4, <2>5
  <2>10. CASE /\ m.found \notin {"NoBuildForTarget", "NoChecksums"}
              /\ m.action \in {"DownloadPackage", "DownloadForSystem", "DownloadForHome"}
    <3>1. ui' = [ui EXCEPT !.shown = TRUE, !.text = h, !.button = IF Offered(m) = {} THEN "none" ELSE "Download"]
      BY <2>10
    <3> QED BY <3>1, <2>4, <2>5
  <2>11. CASE /\ m.found \notin {"NoBuildForTarget", "NoChecksums"}
              /\ m.action \notin {"Restart", "FixFolder", "Update", "DownloadPackage", "DownloadForSystem", "DownloadForHome"}
    <3>1. ui' = ui BY <2>11
    <3> QED BY <3>1, <2>1, <2>6, <1>0
  <2> QED BY <2>7, <2>8, <2>9, <2>10, <2>11
<1>2. DOMAIN offer'.wired.files \in {1..n : n \in 0..2}
  <2>1. CASE ui'.button = "Download" /\ Offered(m) # {}
    <3>1. offer'.wired \in Offered(m) BY <2>1
    <3>2. PICK r \in latest : offer'.wired \in OfferFor(r, IF m.action = "DownloadPackage" THEN m.manager ELSE "", Triple)
      BY <3>1 DEF Offered
    <3>3. PICK items \in Listings : r \in ParseReleases(items)
      BY <3>2 DEF UpdateInv, UpdateTypes
    <3>4. PICK p \in Places : (IF m.action = "DownloadPackage" THEN m.manager ELSE "") \in {"", Asked(OwnershipOf(p.answers))}
      BY <1>0 DEF UpdateInv, UpdateTypes, Asker
    <3> QED BY <3>2, <3>3, <3>4 DEF UpdateAssumption
  <2>2. CASE ui'.button # "Download"
    BY <2>2 DEF Offer
  <2>3. ui'.button = "Download" => Offered(m) # {}
    BY <1>0 DEF UpdateInv, UpdateTypes, OneWorker, Checking, Banner
  <2> QED BY <2>1, <2>2, <2>3
<1>3. UpdateTypes' BY <1>0, <1>1, <1>2 DEF UpdateInv, UpdateTypes, folderVars, Banner, Worker
<1>4. OneWorker'
  BY <1>0, <1>1, NotSaved, NoJobIs DEF UpdateInv, OneWorker, Checking, Busy, Ended
<1>5. InTurn' BY <1>0, NoJobIs, NoneInTurn
<1>6. OutcomeIsSo' BY <1>0, <1>1, QuietOutcome
<1> QED BY <1>3, <1>4, <1>5, <1>6 DEF UpdateInv

(* A button can be pressed while no worker runs and nothing of one waits. *)
LEMMA Pressed == ASSUME UpdateInv, NEW b, Press(b) PROVE job = NoJob /\ mail = {}
  BY DEF UpdateInv, OneWorker, Checking, Busy, Press

(* Nothing but the banner changes, between two workers. *)
LEMMA BannerOnly ==
    ASSUME UpdateInv, Banner(ui'), job = NoJob, mail = {}, ui'.text \in {ui.text} \cup (Said \ {"download failed"}),
           UNCHANGED <<latest, placement, offer, job, mail, folderVars>>
    PROVE  UpdateInv'
<1>1. UpdateTypes' BY DEF UpdateInv, UpdateTypes, folderVars, Banner, Worker
<1>2. OneWorker' BY NoJobIs DEF UpdateInv, OneWorker, Checking, Busy, Ended
<1>3. InTurn' BY NoJobIs, NoneInTurn
<1>4. OutcomeIsSo'
  <2>1. AllAsNamed' = AllAsNamed /\ NothingKept' = NothingKept BY Untouched
  <2>2. CASE ui'.text = ui.text BY <2>1, <2>2 DEF UpdateInv, OutcomeIsSo
  <2>3. CASE ui'.text \in Said \ {"download failed"} BY <2>3, QuietOutcome
  <2> QED BY <2>2, <2>3
<1> QED BY <1>1, <1>2, <1>3, <1>4 DEF UpdateInv

LEMMA DismissInv == ASSUME UpdateInv, Dismiss PROVE UpdateInv'
<1>0. /\ ui' = [ui EXCEPT !.shown = FALSE] /\ Banner(ui)
      /\ UNCHANGED <<latest, placement, offer, job, mail, folderVars>>
  BY DEF Dismiss, UpdateInv, UpdateTypes
<1>1. Banner(ui') /\ ui'.text = ui.text /\ ui'.on = ui.on /\ ui'.button = ui.button /\ ~ui'.shown
  BY <1>0 DEF Banner
<1>2. UpdateTypes' BY <1>0, <1>1 DEF UpdateInv, UpdateTypes, folderVars, Banner, Worker
<1>3. OneWorker' BY <1>0, <1>1 DEF UpdateInv, OneWorker, Checking, Busy, Ended
<1>4. InTurn' BY <1>0, UntouchedInTurn DEF UpdateInv
<1>5. OutcomeIsSo' BY <1>0, <1>1, Untouched DEF UpdateInv, OutcomeIsSo
<1> QED BY <1>2, <1>3, <1>4, <1>5 DEF UpdateInv

LEMMA QuitInv == ASSUME UpdateInv, Quit PROVE UpdateInv'
<1>0. job' = NoJob /\ mail' = {} /\ UNCHANGED <<latest, placement, ui, offer, folderVars>>
  BY DEF Quit, uiVars
<1>1. UpdateTypes' BY <1>0, NoJobIs DEF UpdateInv, UpdateTypes, folderVars, Banner, Worker
<1>2. OneWorker' BY <1>0, NoJobIs DEF UpdateInv, OneWorker, Checking, Busy, Ended
<1>3. InTurn' BY <1>0, NoJobIs, NoneInTurn
<1>4. OutcomeIsSo' BY <1>0, Untouched DEF UpdateInv, OutcomeIsSo
<1> QED BY <1>1, <1>2, <1>3, <1>4 DEF UpdateInv

LEMMA ChooserInv == ASSUME UpdateInv, ChooserFails PROVE UpdateInv'
<1>1. job = NoJob /\ mail = {} BY Pressed DEF ChooserFails
<1>2. PICK t \in {ui.text, "no path", "no chooser"} : ui' = [ui EXCEPT !.text = t]
  BY DEF ChooserFails
<1>3. Banner(ui') /\ ui'.text = t BY <1>2 DEF UpdateInv, UpdateTypes, Banner
<1>4. t \in {ui.text} \cup (Said \ {"download failed"}) BY DEF Said
<1> QED BY <1>1, <1>3, <1>4, BannerOnly DEF ChooserFails

(* An install: whatever it says is not about a download. *)
LEMMA InstallStarts == ASSUME UpdateInv, PressUpdate PROVE UpdateInv'
<1>0. /\ job' = Job("install", "refuse") /\ UNCHANGED <<latest, placement, offer, mail, folderVars>>
      /\ ui' = [ui EXCEPT !.on = FALSE, !.rest = FALSE, !.text = "installing"] /\ Banner(ui)
  BY DEF PressUpdate, UpdateInv, UpdateTypes
<1>1. mail = {} BY Pressed DEF PressUpdate
<1>2. Banner(ui') /\ ui'.text = "installing" /\ ~ui'.on BY <1>0 DEF Banner
<1>3. Worker(job') /\ job'.kind = "install" BY <1>0, JobIs
<1>4. UpdateTypes' BY <1>0, <1>2, <1>3 DEF UpdateInv, UpdateTypes, folderVars, Banner, Worker
<1>5. OneWorker' BY <1>0, <1>1, <1>2, <1>3, NotSaved, SaidIs DEF OneWorker, Checking, Busy, Ended
<1>6. InTurn' BY <1>3, NoneInTurn
<1>7. OutcomeIsSo' BY <1>0, <1>1, <1>2, SaidIs, QuietOutcome
<1> QED BY <1>4, <1>5, <1>6, <1>7 DEF UpdateInv

(* A worker ends and says so; what it says of a download is so. *)
LEMMA WorkerEnds ==
    ASSUME UpdateInv, job.kind \in {"install", "download"}, job' = NoJob,
           UNCHANGED <<latest, placement, ui, offer>>, DOMAIN onDisk' = FileNames, touched' = touched,
           \A m \in mail' : \/ m.what = "installed"
                            \/ /\ m.what = "downloaded"
                               /\ m.outcome = "Ok" => AllAsNamed'
                               /\ m.outcome = "Err" => NothingKept'
    PROVE  UpdateInv'
<1>1. Busy /\ job # NoJob BY NoJobIs DEF Busy
<1>2. ~ui.on /\ ~Ended BY <1>1 DEF UpdateInv, OneWorker
<1>3. \A m \in mail' : m.what # "checked" /\ m.what \in {"installed", "downloaded"} OBVIOUS
<1>4. UpdateTypes' BY <1>3, NoJobIs DEF UpdateInv, UpdateTypes, Banner, Worker
<1>5. OneWorker' BY <1>2, <1>3, NoJobIs DEF OneWorker, Checking, Busy, Ended
<1>6. InTurn' BY NoJobIs, NoneInTurn
<1>7. OutcomeIsSo' BY <1>2, <1>3 DEF OutcomeIsSo, Ended
<1> QED BY <1>4, <1>5, <1>6, <1>7 DEF UpdateInv

(* A worker goes on to its next step. *)
LEMMA WorkerGoes ==
    ASSUME UpdateInv, job.kind \in {"install", "download"}, NEW stage, job' = [job EXCEPT !.at = stage],
           UNCHANGED <<latest, placement, ui, offer, mail>>
    PROVE  /\ job'.kind = job.kind /\ job'.at = stage /\ job'.i = job.i /\ Worker(job')
           /\ mail' = {} /\ OneWorker' /\ OutcomeIsSo'
<1>1. Worker(job) BY DEF UpdateInv, UpdateTypes
<1>2. job'.kind = job.kind /\ job'.at = stage /\ job'.i = job.i /\ Worker(job') BY <1>1 DEF Worker
<1>3. Busy /\ job # NoJob BY NoJobIs DEF Busy
<1>4. ~ui.on /\ ~Ended /\ mail = {} BY <1>3 DEF UpdateInv, OneWorker
<1>5. OneWorker' BY <1>2, <1>4 DEF UpdateInv, OneWorker, Checking, Busy, Ended
<1>6. OutcomeIsSo' BY <1>4 DEF OutcomeIsSo, Ended
<1> QED BY <1>2, <1>4, <1>5, <1>6

LEMMA RefusedInv == ASSUME UpdateInv, InstallRefused PROVE UpdateInv'
<1>0. job.kind = "install" /\ UNCHANGED <<latest, placement, ui, offer, folderVars>>
  BY DEF InstallRefused, uiVars
<1>1. \/ job' = [job EXCEPT !.at = "work"] /\ UNCHANGED mail
      \/ \E why : job' = NoJob /\ mail' = {[what |-> "installed", outcome |-> w] : w \in why}
  BY DEF InstallRefused
<1>2. CASE job' = [job EXCEPT !.at = "work"] /\ UNCHANGED mail
  <2>1. job'.kind = "install" /\ Worker(job') /\ mail' = {} /\ OneWorker' /\ OutcomeIsSo' BY <1>0, <1>2, WorkerGoes
  <2>2. UpdateTypes' BY <1>0, <2>1 DEF UpdateInv, UpdateTypes, folderVars, Banner, Worker
  <2> QED BY <2>1, <2>2, NoneInTurn DEF UpdateInv
<1>3. CASE \E why : job' = NoJob /\ mail' = {[what |-> "installed", outcome |-> w] : w \in why}
  <2>1. \A m \in mail' : m.what = "installed" BY <1>3
  <2>2. DOMAIN onDisk' = FileNames /\ touched' = touched BY <1>0 DEF UpdateInv, UpdateTypes, folderVars
  <2> QED BY <1>0, <1>3, <2>1, <2>2, WorkerEnds
<1> QED BY <1>1, <1>2, <1>3

LEMMA InstallEndsInv == ASSUME UpdateInv, InstallEnds \/ WorkerVanishes PROVE UpdateInv'
<1>0. job.kind \in {"install", "download"} /\ job' = NoJob /\ UNCHANGED <<latest, placement, ui, offer, folderVars>>
  BY DEF InstallEnds, WorkerVanishes, uiVars
<1>1. \A m \in mail' : m.what = "installed" \/ (m.what = "downloaded" /\ m.outcome = "vanished")
  BY DEF InstallEnds, WorkerVanishes
<1>2. DOMAIN onDisk' = FileNames /\ touched' = touched BY <1>0 DEF UpdateInv, UpdateTypes, folderVars
<1> QED BY <1>0, <1>1, <1>2, WorkerEnds

LEMMA InstallFinishedInv == ASSUME UpdateInv, InstallFinished PROVE UpdateInv'
<1> PICK m \in mail : InstallFinished!(m)
  BY DEF InstallFinished
<1>0. /\ job' = job /\ job = NoJob /\ mail' = {} /\ UNCHANGED <<latest, placement, offer, folderVars>>
      /\ ui' = Finished(ui, m.outcome) /\ Banner(ui)
  BY DEF UpdateInv, UpdateTypes, OneWorker
<1>1. Banner(ui') /\ ui'.text \in {"updated", "restart", "install failed"}
  BY <1>0 DEF Finished, Banner
<1>2. ui'.text \in Said \ {"download failed"} BY <1>1 DEF Said
<1>3. UpdateTypes' BY <1>0, <1>1 DEF UpdateInv, UpdateTypes, folderVars, Banner, Worker
<1>4. OneWorker' BY <1>0, <1>2, NoJobIs, NotSaved DEF OneWorker, Checking, Busy, Ended
<1>5. InTurn' BY <1>0, NoJobIs, NoneInTurn
<1>6. OutcomeIsSo' BY <1>0, <1>2, QuietOutcome
<1> QED BY <1>3, <1>4, <1>5, <1>6 DEF UpdateInv

(* A worker goes on, whatever of it changed: it is heard of later. *)
LEMMA WorkerStays ==
    ASSUME UpdateInv, job.kind \in {"install", "download"}, job'.kind = job.kind, Worker(job'),
           UNCHANGED <<latest, placement, ui, offer, mail>>, DOMAIN onDisk' = FileNames, touched' \subseteq FileNames,
           InTurn'
    PROVE  UpdateInv'
<1>1. Busy /\ job # NoJob BY NoJobIs DEF Busy
<1>2. ~ui.on /\ ~Ended /\ mail = {} BY <1>1 DEF UpdateInv, OneWorker
<1>3. UpdateTypes' BY <1>2 DEF UpdateInv, UpdateTypes, Banner
<1>4. OneWorker' BY <1>2 DEF UpdateInv, OneWorker, Checking, Busy, Ended
<1>5. OutcomeIsSo' BY <1>2 DEF OutcomeIsSo, Ended
<1> QED BY <1>3, <1>4, <1>5 DEF UpdateInv
LEMMA WorkerFails ==
    ASSUME UpdateInv, job.kind = "download", Fails("Err"), UNCHANGED <<latest, placement, ui, offer>>,
           DOMAIN onDisk' = FileNames, touched' = touched, NothingKept'
    PROVE  UpdateInv'
<1>1. job' = NoJob /\ \A m \in mail' : m.what = "downloaded" /\ m.outcome = "Err" BY DEF Fails
<1> QED BY <1>1, WorkerEnds
LEMMA Nothing == ASSUME touched = {}, touched' = touched PROVE NothingKept'
  BY DEF NothingKept
LEMMA DownloadFilesAre ==
    ASSUME UpdateInv
    PROVE  /\ DOMAIN offer.wired.files \subseteq FileNames
           /\ DOMAIN onDisk = FileNames /\ touched \subseteq FileNames
  BY DEF UpdateInv, UpdateTypes, FileNames

LEMMA StartInv == ASSUME UpdateInv, StartDownload PROVE UpdateInv'
<1>0. /\ job' = Job("download", "names") /\ UNCHANGED <<latest, placement, offer, mail, dir, onDisk, sums>>
      /\ written' = {} /\ touched' = {}
      /\ ui' = [ui EXCEPT !.on = FALSE, !.rest = FALSE, !.button = "Downloading", !.text = "downloading"]
      /\ Banner(ui)
  BY DEF StartDownload, UpdateInv, UpdateTypes
<1>1. mail = {} BY Pressed DEF StartDownload
<1>2. Banner(ui') /\ ui'.text = "downloading" /\ ~ui'.on BY <1>0 DEF Banner
<1>3. Worker(job') /\ job'.kind = "download" /\ job'.at = "names" BY <1>0, JobIs
<1>4. UpdateTypes' BY <1>0, <1>1, <1>2, <1>3 DEF UpdateInv, UpdateTypes
<1>5. OneWorker' BY <1>0, <1>1, <1>2, <1>3, NotSaved, SaidIs DEF OneWorker, Checking, Busy, Ended
<1>6. InTurn' BY <1>0, <1>3 DEF InTurn
<1>7. OutcomeIsSo' BY <1>0, <1>1, <1>2, SaidIs, QuietOutcome
<1> QED BY <1>4, <1>5, <1>6, <1>7 DEF UpdateInv

(* Before the first file: nothing was touched. *)
LEMMA NamesInv == ASSUME UpdateInv, CheckNames PROVE UpdateInv'
<1>0. /\ job.kind = "download" /\ job.at = "names" /\ UNCHANGED <<latest, placement, ui, offer, folderVars>>
      /\ Goes("sums") \/ Fails("Err")
  BY DEF CheckNames, uiVars
<1>1. touched = {} /\ written = {} BY <1>0 DEF UpdateInv, InTurn
<1>2. DOMAIN onDisk' = FileNames /\ touched' = {} /\ written' = {} BY <1>0, <1>1, DownloadFilesAre DEF folderVars
<1>3. CASE Goes("sums")
  <2>1. job'.kind = "download" /\ job'.at = "sums" /\ Worker(job') BY <1>0, <1>3, WorkerGoes DEF Goes
  <2>2. InTurn' BY <1>2, <2>1 DEF InTurn
  <2> QED BY <1>0, <1>2, <1>3, <2>1, <2>2, WorkerStays DEF Goes
<1>4. CASE Fails("Err") BY <1>0, <1>1, <1>2, <1>4, Nothing, WorkerFails
<1> QED BY <1>0, <1>3, <1>4

LEMMA SumsInv == ASSUME UpdateInv, FetchSums PROVE UpdateInv'
<1>0. /\ job.kind = "download" /\ job.at = "sums"
      /\ UNCHANGED <<latest, placement, ui, offer, dir, onDisk, written, touched>>
      /\ Goes("folder") \/ Fails("Err")
  BY DEF FetchSums, uiVars
<1>1. touched = {} /\ written = {} BY <1>0 DEF UpdateInv, InTurn
<1>2. DOMAIN onDisk' = FileNames /\ touched' = {} /\ written' = {} BY <1>0, <1>1, DownloadFilesAre
<1>3. CASE Goes("folder")
  <2>1. job'.kind = "download" /\ job'.at = "folder" /\ Worker(job') BY <1>0, <1>3, WorkerGoes DEF Goes
  <2>2. InTurn' BY <1>2, <2>1 DEF InTurn
  <2> QED BY <1>0, <1>2, <1>3, <2>1, <2>2, WorkerStays DEF Goes
<1>4. CASE Fails("Err") BY <1>0, <1>1, <1>2, <1>4, Nothing, WorkerFails
<1> QED BY <1>0, <1>3, <1>4

LEMMA FolderInv == ASSUME UpdateInv, MakeFolder PROVE UpdateInv'
<1>0. /\ job.kind = "download" /\ job.at = "folder" /\ Worker(job)
      /\ UNCHANGED <<latest, placement, ui, offer, onDisk, written, touched>>
  BY DEF MakeFolder, uiVars, UpdateInv, UpdateTypes
<1>1. touched = {} /\ written = {} BY <1>0 DEF UpdateInv, InTurn
<1>2. DOMAIN onDisk' = FileNames /\ touched' = {} /\ written' = {} BY <1>0, <1>1, DownloadFilesAre
<1>3. \/ /\ job' = [job EXCEPT !.at = "recheck", !.made = TRUE] \/ job' = [job EXCEPT !.at = "recheck"]
         /\ UNCHANGED mail /\ dir' # {}
      \/ Fails("Err")
  BY DEF MakeFolder, Goes
<1>4. CASE /\ job' = [job EXCEPT !.at = "recheck", !.made = TRUE] \/ job' = [job EXCEPT !.at = "recheck"]
           /\ UNCHANGED mail /\ dir' # {}
  <2>1. job'.kind = "download" /\ job'.at = "recheck" /\ Worker(job') BY <1>0, <1>4 DEF Worker
  <2>2. InTurn' BY <1>2, <1>4, <2>1 DEF InTurn
  <2> QED BY <1>0, <1>2, <1>4, <2>1, <2>2, WorkerStays
<1>5. CASE Fails("Err") BY <1>0, <1>1, <1>2, <1>5, Nothing, WorkerFails
<1> QED BY <1>3, <1>4, <1>5

(* The second look leaves only a folder that is the user's. *)
LEMMA RecheckInv == ASSUME UpdateInv, Recheck PROVE UpdateInv'
<1>0. /\ job.kind = "download" /\ job.at = "recheck" /\ Worker(job) /\ dir # {}
      /\ UNCHANGED <<latest, placement, ui, offer, onDisk, sums, written, touched>>
  BY DEF Recheck, uiVars, UpdateInv, UpdateTypes, InTurn
<1>1. touched = {} /\ written = {} BY <1>0 DEF UpdateInv, InTurn
<1>2. DOMAIN onDisk' = FileNames /\ touched' = {} /\ written' = {} BY <1>0, <1>1, DownloadFilesAre
<1>3. CASE Rechecked(dir)
  <2>1. job' = [job EXCEPT !.at = "fetch", !.i = 1, !.hop = 0] /\ UNCHANGED <<mail, dir>>
    BY <1>3 DEF Recheck
  <2>2. job'.kind = "download" /\ job'.at = "fetch" /\ job'.i = 1 /\ Worker(job') BY <1>0, <2>1 DEF Worker
  <2>3. OwnFolder BY <1>0, <1>3 DEF Rechecked, PrivateFolder, ForeignWriter, OwnFolder
  <2>4. OwnFolder' BY <2>1, <2>3 DEF OwnFolder
  <2>5. \A n \in DOMAIN offer'.wired.files : ~(n < 1) BY <1>0, DownloadFilesAre DEF FileNames
  <2>6. InTurn' BY <1>2, <2>2, <2>4, <2>5 DEF InTurn
  <2> QED BY <1>0, <1>2, <2>1, <2>2, <2>6, WorkerStays
<1>4. CASE ~Rechecked(dir)
  <2>1. Fails("Err") BY <1>4 DEF Recheck
  <2> QED BY <1>0, <1>1, <1>2, <2>1, Nothing, WorkerFails
<1> QED BY <1>3, <1>4

(* While it fetches, the folder is its own. *)
LEMMA Fetching ==
    ASSUME UpdateInv, job.kind = "download", job.at \in {"fetch", "body"}
    PROVE  /\ Worker(job) /\ job.i \in Nat /\ OwnFolder /\ job.i >= 1
           /\ written \subseteq 1..(job.i - 1) /\ touched \subseteq written \cup {job.i}
           /\ \A n \in DOMAIN offer.wired.files : n < job.i => AsNamed(n)
           /\ job.at = "body" => job.i \in FileNames
           /\ job.at = "fetch" /\ job.i \in touched => onDisk[job.i] = "none"
  BY DownloadFilesAre DEF UpdateInv, UpdateTypes, Worker, InTurn

LEMMA WritesInv == ASSUME UpdateInv, FetchWrites PROVE UpdateInv'
<1>0. /\ job.kind = "download" /\ job.at = "fetch" /\ job.i \in DOMAIN offer.wired.files
      /\ onDisk' = [onDisk EXCEPT ![job.i] = "part"] /\ job' = [job EXCEPT !.at = "body"]
      /\ touched' = touched \cup {job.i}
      /\ UNCHANGED <<latest, placement, ui, offer, mail, dir, sums, written>>
  BY DEF FetchWrites, AtFetch, Goes, uiVars
<1>1. Worker(job) /\ OwnFolder /\ job.i \in FileNames /\ DOMAIN onDisk = FileNames
  BY <1>0, Fetching, DownloadFilesAre
<1>2. job'.kind = "download" /\ job'.at = "body" /\ job'.i = job.i /\ Worker(job')
  BY <1>0, <1>1 DEF Worker
<1>3. DOMAIN onDisk' = FileNames /\ touched' \subseteq FileNames BY <1>0, <1>1, DownloadFilesAre
<1>4. OwnFolder' BY <1>0, <1>1 DEF OwnFolder
<1>5. \A n \in DOMAIN offer'.wired.files : n < job'.i => AsNamed(n)'
  <2> TAKE n \in DOMAIN offer'.wired.files
  <2> HAVE n < job'.i
  <2>1. AsNamed(n) /\ n \in FileNames /\ n # job.i BY <1>0, <1>2, Fetching, DownloadFilesAre DEF FileNames
  <2> QED BY <1>0, <1>1, <2>1 DEF AsNamed
<1>6. InTurn' BY <1>0, <1>2, <1>4, <1>5, Fetching DEF InTurn
<1> QED BY <1>0, <1>2, <1>3, <1>6, WorkerStays

LEMMA RedirectedInv == ASSUME UpdateInv, Redirected PROVE UpdateInv'
<1>0. /\ job.kind = "download" /\ job.at = "body" /\ onDisk' = [onDisk EXCEPT ![job.i] = "none"]
      /\ job' = [job EXCEPT !.at = "fetch", !.hop = @ + 1]
      /\ UNCHANGED <<latest, placement, ui, offer, mail, dir, sums, written, touched>>
  BY DEF Redirected, uiVars
<1>1. Worker(job) /\ OwnFolder /\ job.i \in FileNames /\ DOMAIN onDisk = FileNames BY <1>0, Fetching, DownloadFilesAre
<1>2. job'.kind = "download" /\ job'.at = "fetch" /\ job'.i = job.i /\ Worker(job')
  BY <1>0, <1>1 DEF Worker
<1>3. DOMAIN onDisk' = FileNames /\ touched' \subseteq FileNames BY <1>0, <1>1, DownloadFilesAre
<1>4. OwnFolder' BY <1>0, <1>1 DEF OwnFolder
<1>5. \A n \in DOMAIN offer'.wired.files : n < job'.i => AsNamed(n)'
  <2> TAKE n \in DOMAIN offer'.wired.files
  <2> HAVE n < job'.i
  <2>1. AsNamed(n) /\ n \in FileNames /\ n # job.i BY <1>0, <1>2, Fetching, DownloadFilesAre DEF FileNames
  <2> QED BY <1>0, <1>1, <2>1 DEF AsNamed
<1>6. onDisk'[job.i] = "none" BY <1>0, <1>1
<1>7. InTurn' BY <1>0, <1>2, <1>4, <1>5, <1>6, Fetching DEF InTurn
<1> QED BY <1>0, <1>2, <1>3, <1>7, WorkerStays

(* What is thrown away is all that this download wrote. *)
LEMMA DiscardsAll ==
    ASSUME NEW w, NEW d, Discards(w, d), touched' = touched,
           touched \subseteq FileNames, \A n \in touched \ w : d[n] = "none"
    PROVE  DOMAIN onDisk' = FileNames /\ NothingKept'
  BY DEF Discards, NothingKept

LEMMA FetchFailsInv == ASSUME UpdateInv, TransferFails PROVE UpdateInv'
<1> DEFINE d == [onDisk EXCEPT ![job.i] = IF job.at = "body" THEN "none" ELSE @]
<1>0. /\ job.kind = "download" /\ job.at \in {"fetch", "body"} /\ Fails("Err")
      /\ Discards(written, d)
      /\ UNCHANGED <<latest, placement, ui, offer, touched>>
  BY DEF TransferFails, uiVars
<1>1. ASSUME NEW n \in touched \ written PROVE d[n] = "none"
  <2>1. n = job.i /\ n \in DOMAIN onDisk BY <1>0, <1>1, Fetching, DownloadFilesAre
  <2>2. job.at = "fetch" => onDisk[job.i] = "none" BY <1>0, <1>1, <2>1, Fetching
  <2> QED BY <1>0, <2>1, <2>2
<1> HIDE DEF d
<1>2. DOMAIN onDisk' = FileNames /\ NothingKept' BY <1>0, <1>1, DiscardsAll, DownloadFilesAre
<1> QED BY <1>0, <1>2, WorkerFails

LEMMA FetchEndsInv == ASSUME UpdateInv, FetchEnds PROVE UpdateInv'
<1>0. /\ job.kind = "download" /\ job.at = "body" /\ UNCHANGED <<latest, placement, ui, offer, sums, touched>>
  BY DEF FetchEnds, uiVars
<1>1. Worker(job) /\ OwnFolder /\ job.i \in FileNames /\ job.i \in Nat /\ DOMAIN onDisk = FileNames /\ touched \subseteq FileNames
  BY <1>0, Fetching, DownloadFilesAre
<1>2. PICK got \in {"good", "bad"} :
         IF DigestFor(sums, job.i) = {got}
         THEN /\ job' = [job EXCEPT !.at = "fetch", !.i = @ + 1, !.hop = 0] /\ UNCHANGED mail
              /\ written' = written \cup {job.i} /\ onDisk' = [onDisk EXCEPT ![job.i] = got] /\ UNCHANGED dir
         ELSE Fails("Err") /\ Discards(written \cup {job.i}, [onDisk EXCEPT ![job.i] = got])
  BY DEF FetchEnds, Written
<1>3. CASE DigestFor(sums, job.i) = {got}
  <2>1. /\ job' = [job EXCEPT !.at = "fetch", !.i = @ + 1, !.hop = 0] /\ UNCHANGED mail
        /\ written' = written \cup {job.i} /\ onDisk' = [onDisk EXCEPT ![job.i] = got] /\ UNCHANGED dir
    BY <1>2, <1>3
  <2>2. job'.kind = "download" /\ job'.at = "fetch" /\ job'.i = job.i + 1 /\ Worker(job')
    BY <1>0, <1>1, <2>1 DEF Worker
  <2>3. OwnFolder' BY <1>1, <2>1 DEF OwnFolder
  <2>4. \A n \in DOMAIN offer'.wired.files : n < job'.i => AsNamed(n)'
    <3> TAKE n \in DOMAIN offer'.wired.files
    <3> HAVE n < job'.i
    <3>1. n \in FileNames BY <1>0, DownloadFilesAre
    <3>2. CASE n = job.i BY <1>0, <1>1, <1>3, <2>1, <3>2 DEF AsNamed
    <3>3. CASE n # job.i
      <4>1. n < job.i BY <1>1, <2>2, <3>1, <3>3 DEF FileNames
      <4>2. AsNamed(n) BY <1>0, <4>1, Fetching
      <4> QED BY <1>0, <1>1, <2>1, <3>1, <3>3, <4>2 DEF AsNamed
    <3> QED BY <3>2, <3>3
  <2>5. written' \subseteq 1..job.i /\ touched' \subseteq written'
    BY <1>0, <1>1, <2>1, Fetching
  <2>6. job'.i - 1 = job.i /\ job'.i >= 1 /\ job'.i \notin touched' BY <1>1, <2>2, <2>5
  <2>7. InTurn' BY <2>2, <2>3, <2>4, <2>5, <2>6 DEF InTurn
  <2>8. DOMAIN onDisk' = FileNames /\ touched' \subseteq FileNames BY <1>0, <1>1, <2>1
  <2> QED BY <1>0, <2>1, <2>2, <2>7, <2>8, WorkerStays
<1>4. CASE DigestFor(sums, job.i) # {got}
  <2> DEFINE d == [onDisk EXCEPT ![job.i] = got]
  <2>1. Fails("Err") /\ Discards(written \cup {job.i}, d) BY <1>2, <1>4
  <2>2. touched \subseteq written \cup {job.i} BY <1>0, Fetching
  <2> HIDE DEF d
  <2>3. DOMAIN onDisk' = FileNames /\ NothingKept' BY <1>0, <1>1, <2>1, <2>2, DiscardsAll
  <2> QED BY <1>0, <2>1, <2>3, WorkerFails
<1> QED BY <1>3, <1>4

(* The last file is there, and with it all of them. *)
LEMMA DownloadEndsInv == ASSUME UpdateInv, DownloadEnds PROVE UpdateInv'
<1>0. /\ job.kind = "download" /\ job.at = "fetch" /\ job.i \notin DOMAIN offer.wired.files
      /\ Fails("Ok") /\ UNCHANGED <<latest, placement, ui, offer, folderVars>>
  BY DEF DownloadEnds, uiVars
<1>1. \A n \in DOMAIN offer.wired.files : n < job.i
  <2>1. PICK k \in 0..2 : DOMAIN offer.wired.files = 1..k BY DEF UpdateInv, UpdateTypes
  <2>2. job.i \in Nat /\ job.i >= 1 BY <1>0, Fetching
  <2> QED BY <1>0, <2>1, <2>2
<1>2. AllAsNamed BY <1>0, <1>1, Fetching DEF AllAsNamed
<1>3. AllAsNamed' BY <1>0, <1>2, Untouched
<1>4. DOMAIN onDisk' = FileNames /\ touched' = touched BY <1>0, DownloadFilesAre DEF folderVars
<1>5. job' = NoJob /\ \A m \in mail' : m.what = "downloaded" /\ m.outcome = "Ok" BY <1>0 DEF Fails
<1> QED BY <1>0, <1>3, <1>4, <1>5, WorkerEnds

(* The banner takes what a download sent. *)
LEMMA DownloadedInv == ASSUME UpdateInv, Downloaded PROVE UpdateInv'
<1> PICK m \in mail : Downloaded!(m)
  BY DEF Downloaded
<1>0. /\ job' = job /\ job = NoJob /\ mail' = {} /\ UNCHANGED <<latest, placement, offer, folderVars>>
      /\ m.what = "downloaded" /\ Banner(ui)
  BY DEF UpdateInv, UpdateTypes, OneWorker
<1>1. AllAsNamed' = AllAsNamed /\ NothingKept' = NothingKept BY <1>0, Untouched
<1>2. Banner(ui') /\ OutcomeIsSo'
  <2>1. CASE m.outcome = "Ok"
    <3> DEFINE t == Saved(offer.action, offer.wired.channel)
    <3>1. ui' = [ui EXCEPT !.text = t, !.button = "none", !.rest = TRUE] BY <2>1
    <3>2. t # "download failed" BY DEF Saved
    <3> HIDE DEF t
    <3>3. Banner(ui') /\ ui'.text = t BY <1>0, <3>1 DEF Banner
    <3>4. AllAsNamed' BY <1>0, <1>1, <2>1 DEF UpdateInv, OutcomeIsSo
    <3> QED BY <1>0, <3>2, <3>3, <3>4 DEF OutcomeIsSo
  <2>2. CASE m.outcome = "Err"
    <3>1. ui' = [ui EXCEPT !.text = "download failed", !.button = "Download", !.on = TRUE, !.rest = TRUE] BY <2>2
    <3>2. Banner(ui') /\ ui'.text = "download failed" BY <1>0, <3>1 DEF Banner
    <3>3. NothingKept' BY <1>0, <1>1, <2>2 DEF UpdateInv, OutcomeIsSo
    <3>4. ~IsSaved(ui'.text) BY <3>2, NotSaved, SaidIs
    <3> QED BY <1>0, <3>2, <3>3, <3>4 DEF OutcomeIsSo
  <2>3. CASE m.outcome # "Ok" /\ m.outcome # "Err"
    <3>1. ui' = [ui EXCEPT !.text = "vanished", !.button = "Download", !.on = TRUE, !.rest = TRUE] BY <2>3
    <3>2. Banner(ui') /\ ui'.text = "vanished" BY <1>0, <3>1 DEF Banner
    <3>3. ui'.text \in Said \ {"download failed"} BY <3>2, SaidIs
    <3> QED BY <1>0, <3>2, <3>3, QuietOutcome
  <2> QED BY <2>1, <2>2, <2>3
<1>3. UpdateTypes' BY <1>0, <1>2 DEF UpdateInv, UpdateTypes, folderVars, Worker
<1>4. OneWorker' BY <1>0, NoJobIs DEF OneWorker, Checking, Busy, Ended
<1>5. InTurn' BY <1>0, NoJobIs, NoneInTurn
<1> QED BY <1>2, <1>3, <1>4, <1>5 DEF UpdateInv

(* Others cannot come between: the folder is not theirs. *)
LEMMA PlaceInv == ASSUME UpdateInv, PlaceChanges PROVE UpdateInv'
<1>0. placement' \in Places /\ UNCHANGED <<latest, ui, offer, job, mail, folderVars>>
  BY DEF PlaceChanges, uiVars
<1>1. UpdateTypes' BY <1>0 DEF UpdateInv, UpdateTypes, folderVars, Banner, Worker
<1>2. OneWorker' BY <1>0 DEF UpdateInv, OneWorker, Checking, Busy, Ended
<1>3. InTurn' BY <1>0, UntouchedInTurn DEF UpdateInv
<1>4. OutcomeIsSo' BY <1>0, Untouched DEF UpdateInv, OutcomeIsSo
<1> QED BY <1>1, <1>2, <1>3, <1>4 DEF UpdateInv
LEMMA OthersInv ==
    ASSUME UpdateInv, ~OwnFolder, UNCHANGED <<latest, placement, ui, offer, job, mail, touched, written>>,
           dir # {} => dir' # {}, DOMAIN onDisk' = FileNames, \A n \in FileNames : onDisk'[n] \in {onDisk[n], "theirs"}
    PROVE  UpdateInv'
<1>1. UpdateTypes' BY DEF UpdateInv, UpdateTypes, Banner, Worker
<1>2. OneWorker' BY DEF UpdateInv, OneWorker, Checking, Busy, Ended
<1>3. InTurn' BY DEF UpdateInv, InTurn
<1>4. OutcomeIsSo'
  <2>1. NothingKept => NothingKept' BY DownloadFilesAre DEF NothingKept
  <2>2. ~AllAsNamed BY DEF AllAsNamed
  <2> QED BY <2>1, <2>2 DEF UpdateInv, OutcomeIsSo
<1> QED BY <1>1, <1>2, <1>3, <1>4 DEF UpdateInv
LEMMA OtherFolderInv == ASSUME UpdateInv, OtherMakesFolder PROVE UpdateInv'
<1>0. /\ ~OwnFolder /\ onDisk' = onDisk /\ dir = {}
      /\ UNCHANGED <<latest, placement, ui, offer, job, mail, touched, written>>
  BY DEF OtherMakesFolder, OwnFolder, uiVars
<1>1. DOMAIN onDisk' = FileNames /\ \A n \in FileNames : onDisk'[n] \in {onDisk[n], "theirs"} BY <1>0, DownloadFilesAre
<1> QED BY <1>0, <1>1, OthersInv
LEMMA OtherWritesInv == ASSUME UpdateInv, OtherWrites PROVE UpdateInv'
<1>0. /\ ~OwnFolder /\ dir' = dir
      /\ UNCHANGED <<latest, placement, ui, offer, job, mail, touched, written>>
  BY DEF OtherWrites, OwnFolder, uiVars, Me
<1>1. DOMAIN onDisk' = FileNames /\ \A n \in FileNames : onDisk'[n] \in {onDisk[n], "theirs"}
  BY DownloadFilesAre DEF OtherWrites
<1> QED BY <1>0, <1>1, OthersInv

LEMMA UpdateStutters == ASSUME UpdateInv, UNCHANGED updateVars PROVE UpdateInv'
<1>0. UNCHANGED <<latest, placement, ui, offer, job, mail, folderVars>> BY DEF updateVars, uiVars
<1>1. UpdateTypes' BY <1>0 DEF UpdateInv, UpdateTypes, folderVars, Banner, Worker
<1>2. OneWorker' BY <1>0 DEF UpdateInv, OneWorker, Checking, Busy, Ended
<1>3. InTurn' BY <1>0, UntouchedInTurn DEF UpdateInv
<1>4. OutcomeIsSo' BY <1>0, Untouched DEF UpdateInv, OutcomeIsSo
<1> QED BY <1>1, <1>2, <1>3, <1>4 DEF UpdateInv

LEMMA UpdateInvKept ==
    ASSUME UpdateAssumption, UpdateInv, [UpdateNext]_updateVars PROVE UpdateInv'
<1>1. CASE CheckThread \/ ShowBanner \/ Dismiss \/ Quit
  BY <1>1, CheckInv, BannerInv, DismissInv, QuitInv
<1>2. CASE PressUpdate \/ InstallRefused \/ InstallEnds \/ InstallFinished \/ WorkerVanishes
  BY <1>2, InstallStarts, RefusedInv, InstallEndsInv, InstallFinishedInv
<1>3. CASE ChooserFails \/ StartDownload \/ CheckNames \/ FetchSums \/ MakeFolder \/ Recheck
  BY <1>3, ChooserInv, StartInv, NamesInv, SumsInv, FolderInv, RecheckInv
<1>4. CASE FetchWrites \/ Redirected \/ TransferFails \/ FetchEnds \/ DownloadEnds \/ Downloaded
  BY <1>4, WritesInv, RedirectedInv, FetchFailsInv, FetchEndsInv, DownloadEndsInv, DownloadedInv
<1>5. CASE PlaceChanges \/ OtherMakesFolder \/ OtherWrites
  BY <1>5, PlaceInv, OtherFolderInv, OtherWritesInv
<1>6. CASE UNCHANGED updateVars BY <1>6, UpdateStutters
<1> QED BY <1>1, <1>2, <1>3, <1>4, <1>5, <1>6 DEF UpdateNext

LEMMA UpdateInvSaves == ASSUME UpdateInv PROVE SavedOrNothing
<1>1. OutcomeIsSo BY DEF UpdateInv
<1> QED BY <1>1 DEF OutcomeIsSo, AllAsNamed, AsNamed, NothingKept, SavedOrNothing

(* What the banner calls saved is on disk as its digests name it and stays    *)
(* so, whoever else uses the machine; of what it calls failed nothing is left *)
(* (download_release_files, make_version_folder, discard, ready_again): for   *)
(* any releases, folders, accounts and placements of the copy, any number of  *)
(* presses and redirects, and whatever others do.                             *)
THEOREM UpdateSaved == ASSUME UpdateAssumption PROVE UpdateSpec => []SavedOrNothing
<1>1. UpdateInit => UpdateInv BY UpdateInitInv
<1>2. UpdateInv /\ [UpdateNext]_updateVars => UpdateInv' BY UpdateInvKept
<1>3. UpdateInv => SavedOrNothing BY UpdateInvSaves
<1> QED BY <1>1, <1>2, <1>3, PTL DEF UpdateSpec
=============================================================================
