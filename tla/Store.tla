------------------------------- MODULE Store -------------------------------
(***************************************************************************)
(* The settings files (tobii-config store.rs): write_atomic, what the      *)
(* loaders make of what they find, and the two-file calibration.  Writers  *)
(* are the hub and the command line, which know nothing of each other; any *)
(* may be killed, and the machine may lose its power.                      *)
(*                                                                         *)
(* The file system keeps what is seen (dir, data) and what a power loss    *)
(* leaves (kept, durable): data reaches it with sync_all, a rename with     *)
(* the sync of the directory, which may be refused and is then not missed; *)
(* either may do so earlier by itself.  So there is what was reported       *)
(* saved (acked), and what of it is there after a power loss (lasting).     *)
(***************************************************************************)
EXTENDS Naturals, Sequences, FiniteSets

CONSTANTS
    Writers,   \* processes
    Saves,     \* what a process may be asked to save: sequences of file names
    Values,    \* the values saved, numbers
    Inodes,    \* files there is room for
    MaxSaves   \* saves started, in all

SettingsFiles == {"config", "blob", "meta", "update_check", "text_scale", "pitch"}
FileNames == SettingsFiles \X {"file", "tmp"}
NoInode   == 100
Junk      == 101   \* what was in a file before, and parses as nothing
Truncated == 102   \* truncated, or part of what was written
Unset     == 103   \* what a loader answers for no value

(* One process saves at a time, and what it is asked to save is a list of      *)
(* files in which the metadata come after the blob; a switch is on or off.   *)
StoreAssumption ==
    /\ \A a, b \in Writers : a = b
    /\ Saves \subseteq Seq(SettingsFiles) \ {<<>>}
    /\ \A s \in Saves : \A i \in 1..Len(s) :
         /\ s[i] = "meta" => \E j \in 1..(i - 1) : s[j] = "blob"
         /\ s[i] = "update_check" => Values \subseteq {0, 3}
    /\ Values \subseteq Nat \ {NoInode, Junk, Truncated, Unset}
    /\ NoInode \notin Inodes

VARIABLES
    dir, kept,     \* [FileNames -> Inodes or NoInode]: seen, and surviving a power loss
    data, durable, \* [Inodes -> content]: likewise
    writer,        \* what each writer does: step, the names left, the value, its inode
    acked,         \* per file, what may be read: what was last reported saved, or put there since
    lasting,       \* the same, as of the last time the directory was synced
    saves          \* how many saves were started

storeVars == <<dir, kept, data, durable, writer, acked, lasting, saves>>

Idle0 == [step |-> "idle", todo |-> <<>>, val |-> Junk, fd |-> NoInode]

Content(d, c, f) == IF d[<<f, "file">>] = NoInode THEN NoInode ELSE c[d[<<f, "file">>]]

-----------------------------------------------------------------------------
(* What the loaders answer to a file's content.  Anything that does not       *)
(* parse is what no file at all is.                                          *)
Parses(c) == c \notin {NoInode, Junk, Truncated}

Setup(c)       == IF Parses(c) THEN c ELSE Unset               \* load_from
PitchOffset(c) == IF Parses(c) THEN c ELSE Unset               \* load_pitch_offset_from
UpdateCheck(c) == IF Parses(c) /\ c = 0 THEN 0 ELSE 3          \* update_check_enabled_at: off, on
TextScale(c)   == IF Parses(c) /\ c \in 1..2 THEN c ELSE 1     \* text_scale_at
MutClamped(v)  == IF v > 2 THEN 2 ELSE v                      \* a fault
Clamped(v)     == IF v < 1 THEN 1 ELSE IF v > 2 THEN 2 ELSE v  \* save_text_scale_to

Loaded(f, c) ==
    CASE f = "text_scale"   -> TextScale(c)
      [] f = "update_check" -> UpdateCheck(c)
      [] f = "pitch"        -> PitchOffset(c)
      [] OTHER              -> Setup(c)

(* load_calibration_from: the blob as it is, with the metadata beside it, or  *)
(* without.                                                                  *)
Calibration(blob, meta) ==
    IF blob = NoInode THEN <<>> ELSE <<blob, IF Parses(meta) THEN meta ELSE Unset>>

(* What is put in a file for the value v. *)
Stored(f, v) == IF f = "text_scale" THEN Clamped(v) ELSE v

-----------------------------------------------------------------------------
Cur(w)  == Head(writer[w].todo)
Name(w) == <<Cur(w), "file">>
Tmp(w)  == <<Cur(w), "tmp">>
Put(w)  == Stored(Cur(w), writer[w].val)
StepTo(w, s) == writer' = [writer EXCEPT ![w].step = s]
Free == {i \in Inodes : \A n \in FileNames : i \notin {dir[n], kept[n]}}

BeginSave(w, s, v) ==
    /\ writer[w].step = "idle" /\ saves < MaxSaves
    /\ writer' = [writer EXCEPT ![w] = [step |-> "create", todo |-> s, val |-> v, fd |-> NoInode]]
    /\ saves' = saves + 1
    /\ UNCHANGED <<dir, kept, data, durable, acked, lasting>>

(* File::create on the temporary: a new file, or the one of that name, cut. *)
Create(w) ==
    /\ writer[w].step = "create"
    /\ \E i \in IF dir[Tmp(w)] = NoInode THEN Free ELSE {dir[Tmp(w)]} :
         /\ dir' = [dir EXCEPT ![Tmp(w)] = i]
         /\ data' = [data EXCEPT ![i] = Truncated]
         /\ durable' = [durable EXCEPT ![i] = Truncated]
         /\ writer' = [writer EXCEPT ![w].step = "write", ![w].fd = i]
    /\ UNCHANGED <<kept, acked, lasting, saves>>

(* write_all, into whatever file that is by now *)
WriteAll(w) ==
    /\ writer[w].step = "write"
    /\ data' = [data EXCEPT ![writer[w].fd] = Put(w)]
    /\ StepTo(w, "sync")
    /\ UNCHANGED <<dir, kept, durable, acked, lasting, saves>>

(* A fault: the data is not synced before the rename. *)
MutSyncAll(w) ==
    /\ writer[w].step = "sync"
    /\ StepTo(w, "rename")
    /\ UNCHANGED <<dir, kept, data, durable, acked, lasting, saves>>

SyncAll(w) ==
    /\ writer[w].step = "sync"
    /\ durable' = [durable EXCEPT ![writer[w].fd] = data[writer[w].fd]]
    /\ StepTo(w, "rename")
    /\ UNCHANGED <<dir, kept, data, acked, lasting, saves>>

Rename(w) ==
    /\ writer[w].step = "rename" /\ dir[Tmp(w)] # NoInode
    /\ dir' = [dir EXCEPT ![Name(w)] = dir[Tmp(w)], ![Tmp(w)] = NoInode]
    /\ acked' = [acked EXCEPT ![Cur(w)] = @ \cup {Put(w)}]
    /\ lasting' = [lasting EXCEPT ![Cur(w)] = @ \cup {Put(w)}]
    /\ StepTo(w, "dirsync")
    /\ UNCHANGED <<kept, data, durable, saves>>

(* Any of these may fail; the temporary goes, and with it the save. *)
SaveFails(w) ==
    /\ writer[w].step \in {"create", "write", "sync", "rename"}
    /\ dir' = IF writer[w].step = "create" THEN dir ELSE [dir EXCEPT ![Tmp(w)] = NoInode]
    /\ writer' = [writer EXCEPT ![w] = Idle0]
    /\ UNCHANGED <<kept, data, durable, acked, lasting, saves>>

NextFile(k) ==
    IF Len(k.todo) > 1 THEN [k EXCEPT !.step = "create", !.todo = Tail(k.todo)] ELSE Idle0

(* A fault: the directory is not synced. *)
MutSurviving(took) == kept

(* What survives: the names as they are, if the directory could be opened and *)
(* synced, and as they were, if not.                                         *)
Surviving(took) == IF took THEN dir ELSE kept

(* Best effort: synced or not, the next file's turn comes, or the save is     *)
(* reported done.                                                            *)
DirSync(w) ==
    /\ writer[w].step = "dirsync"
    /\ acked' = [acked EXCEPT ![Cur(w)] = {Put(w)}]
    /\ \E took \in BOOLEAN :
         kept' = Surviving(took) /\ lasting' = IF took THEN acked' ELSE lasting
    /\ writer' = [writer EXCEPT ![w] = NextFile(writer[w])]
    /\ UNCHANGED <<dir, data, durable, saves>>

(* Killed anywhere: the temporary is left. *)
Kill(w) ==
    /\ writer[w].step # "idle"
    /\ writer' = [writer EXCEPT ![w] = Idle0]
    /\ UNCHANGED <<dir, kept, data, durable, acked, lasting, saves>>

(* The disk takes a rename or some data before it is told to, in any order. *)
Flushed(f) == [n \in FileNames |-> IF n[1] = f THEN dir[n] ELSE kept[n]]
Flush ==
    /\ \/ \E f \in SettingsFiles : kept' = Flushed(f) /\ kept' # kept /\ UNCHANGED durable
       \/ \E i \in Inodes : durable[i] # data[i] /\ durable' = [durable EXCEPT ![i] = data[i]] /\ UNCHANGED kept
    /\ UNCHANGED <<dir, data, writer, acked, lasting, saves>>

PowerLoss ==
    /\ dir' = kept /\ data' = durable /\ acked' = lasting
    /\ writer' = [w \in Writers |-> Idle0]
    /\ UNCHANGED <<kept, durable, lasting, saves>>

StoreNext ==
    \/ \E w \in Writers :
         \/ (\E s \in Saves, v \in Values : BeginSave(w, s, v))
         \/ Create(w) \/ WriteAll(w) \/ SyncAll(w) \/ Rename(w) \/ SaveFails(w) \/ DirSync(w) \/ Kill(w)
    \/ Flush \/ PowerLoss

StoreInit ==
    /\ dir = [n \in FileNames |-> NoInode] /\ kept = dir
    /\ data = [i \in Inodes |-> Truncated] /\ durable = data
    /\ writer = [w \in Writers |-> Idle0]
    /\ acked = [f \in SettingsFiles |-> {NoInode}] /\ lasting = acked /\ saves = 0

StoreSpec == StoreInit /\ [][StoreNext]_storeVars

-----------------------------------------------------------------------------
Now(f)   == Content(dir, data, f)
After(f) == Content(kept, durable, f)

(* "The new name never points at a half-written file": what is under a        *)
(* file's own name is something that was saved whole, also after a power      *)
(* loss.                                                                     *)
NeverHalfWritten == \A f \in SettingsFiles : Now(f) # Truncated /\ After(f) # Truncated

Complete(blob, meta) == Len(Calibration(blob, meta)) = 2 /\ Calibration(blob, meta)[2] # Unset

(* What was last reported saved is loaded again, or what was put there       *)
(* since, and never the default; and a calibration that was reported saved    *)
(* has its blob and its metadata.  After a power loss this holds of what was  *)
(* reported when the directory was last synced: a later save, whose rename    *)
(* nothing made durable, may be undone by it, and then what was there is      *)
(* found whole.                                                              *)
SavedIsLoaded ==
    /\ \A f \in SettingsFiles :
         /\ Now(f) \in acked[f] /\ After(f) \in lasting[f]
         /\ \A c \in acked[f] \cup lasting[f] : c # NoInode => Loaded(f, c) = c
    /\ NoInode \notin acked["meta"] => Complete(Now("blob"), Now("meta"))
    /\ NoInode \notin lasting["meta"] => Complete(After("blob"), After("meta"))

(* Whatever is killed when, and whatever power is lost: a settings file is    *)
(* whole under its own name, and what was saved is what is read back, after   *)
(* a power loss as far as the directory's sync got (write_atomic).           *)
FilesAreWhole == NeverHalfWritten /\ SavedIsLoaded
=============================================================================
