------------------------------- MODULE Bridge -------------------------------
(***************************************************************************)
(* `tobii bridge` and `tobii game` (tobii-cli bridge.rs, wineserver.rs,    *)
(* proton.rs): a Wine prefix, the two registry keys by which a game finds  *)
(* its head-tracking client, and the directory this program fills.         *)
(*                                                                         *)
(* A prefix's registry is in the memory of its wineserver while one runs,  *)
(* and in user.reg once the last program on the prefix has gone.  Other    *)
(* programs register clients of their own, at any time but between a       *)
(* command's own read of a key and its write: that window is a limitation  *)
(* the code states (bridge.rs:1197).                                       *)
(***************************************************************************)
EXTENDS Naturals

CONSTANTS MaxRuns, MaxVisits    \* commands run, and registrations by others

Keys   == {"ft", "np"}
Ours   == "ours"      \* C:\tobii-bridge
Theirs == "theirs"    \* a third party's NPClient, installed on this machine
Another == "other"    \* another program's, or not a plain string
NoReg  == [k \in Keys |-> "none"]    \* no user.reg yet, or nothing noted

VARIABLES
    reg, regFile, \* the registry's two keys: as wine answers, and in user.reg
    serving,      \* a wineserver runs on the prefix
    visitor,      \* a program of somebody else runs there
    folder,       \* C:\tobii-bridge: provider, FreeTrack client, stamp
    noted,        \* registered.txt: what each key was given, or "none"
    op,           \* the command under way
    given,        \* what else than its directory this program ever put in a key
    child,        \* `bridge run`: off, on, blind (it cannot find the lock), asked to stop
    launch,       \* the game: none, waiting for the wineserver to go, going, hung
    runs, visits  \* commands and visits so far

prefixVars == <<reg, regFile, serving, visitor, folder, noted>>
bridgeVars == <<prefixVars, op, given, child, launch, runs, visits>>

NoFolder == [provider |-> "none", ft |-> FALSE, stamp |-> FALSE]
NoOp == [cmd |-> "none", step |-> "end", want |-> [k \in Keys |-> Ours], force |-> FALSE,
         built |-> {}, rec |-> [k \in Keys |-> "none"], landed |-> {}, failed |-> FALSE, copied |-> FALSE,
         refused |-> FALSE, keys |-> {}, said |-> "none"]

NoCommand == op.step = "end"
At(c, s) == op.cmd = c /\ op.step = s
OpEnds     == op' = NoOp
Leaves(s) == op' = [op EXCEPT !.step = s]

-----------------------------------------------------------------------------
(* choose_npclient: ours when told so or when there is no other. *)
NpTarget(explicit, installed) == IF explicit = "ours" \/ ~installed THEN Ours ELSE Theirs
WantFor(np) == [k \in Keys |-> IF k = "np" THEN np ELSE Ours]

(* choose_wine: whether the wine that will run is known to be the prefix's. *)
Wines == {"recorded", "named", "path"}    \* by the prefix, by the user, on PATH
SteamWineRefused(steam, wine, force) == steam /\ wine = "path" /\ ~force

(* is_ours: the directory only this program makes, or what it noted it wrote. *)
IsOurs(v, wrote) == v = Ours \/ (v = Theirs /\ v = wrote)

StopsInstall(v, wrote, want) ==
    ~(v = "absent" \/ IsOurs(v, wrote) \/ (wrote = "none" /\ v = want))

(* undo_for *)
UndoFor(v, wrote) ==
    IF v = "absent" THEN "nothing" ELSE IF IsOurs(v, wrote) THEN "remove" ELSE "leave"

(* A fault: user.reg is believed also while a wineserver runs. *)
MutSettledKeys == regFile # NoReg

(* wineserver.rs: the lock is held while a server runs; a launch that waits   *)
(* for it is seen in /proc/locks, by a command that can name the lock.        *)
LockFree == ~serving
Seeing == {"on", "blind"}
Waiter == launch = "waiting"

(* settled_keys: with the lock free user.reg is the registry.  The probe may  *)
(* also not know.                                                            *)
SettledKeys == LockFree /\ regFile # NoReg

-----------------------------------------------------------------------------
(* install: refused before anything is read, ... *)
Install(np, force, built, steam, wine) ==
    /\ NoCommand /\ runs < MaxRuns /\ runs' = runs + 1
    /\ ~SteamWineRefused(steam, wine, force)
    /\ "ft" \in built                                        \* artifact_dir
    /\ op' = [NoOp EXCEPT !.cmd = "install", !.step = "read", !.want = WantFor(np),
                          !.force = force, !.built = built, !.rec = noted]
    /\ UNCHANGED <<prefixVars, given, child, launch, visits>>

(* ... or because a key holds what is not this program's. *)
Judge(o, r) ==
    IF ~o.force /\ \E k \in Keys : StopsInstall(r[k], o.rec[k], o.want[k])
    THEN NoOp
    ELSE [o EXCEPT !.step = "provider"]

InstallReadFile ==
    /\ At("install", "read") /\ SettledKeys
    /\ op' = Judge(op, regFile)
    /\ UNCHANGED <<prefixVars, given, child, launch, runs, visits>>

InstallReadWine ==
    /\ At("install", "read")    \* served, no file, or the lock's state unknown
    /\ op' \in {Judge(op, reg), NoOp}   \* read_key may fail
    /\ serving' = TRUE
    /\ UNCHANGED <<reg, regFile, visitor, folder, noted, given, child, launch, runs, visits>>

(* The artifacts, each staged and renamed over; one that is not built is      *)
(* passed over.  The third, the TrackIR client, is left out.                 *)
NextArtifact(a) == IF a = "provider" THEN "ft" ELSE "stamp"
CopyArtifact(a) ==
    /\ At("install", a)
    /\ IF a \in op.built
       THEN \/ /\ folder' = [folder EXCEPT ![a] = IF a = "provider" THEN "new" ELSE TRUE]
               /\ op' = [op EXCEPT !.step = NextArtifact(a), !.copied = @ \/ a = "provider"]
            \/ OpEnds /\ UNCHANGED folder                      \* it cannot be written
       ELSE Leaves(NextArtifact(a)) /\ UNCHANGED folder
    /\ UNCHANGED <<reg, regFile, serving, visitor, noted, given, child, launch, runs, visits>>

(* A fault: the stamp is written whatever was copied. *)
MutStamp ==
    /\ At("install", "stamp")
    /\ folder' \in {folder, [folder EXCEPT !.stamp = TRUE]}
    /\ op' = [op EXCEPT !.step = "setft", !.built = {}, !.copied = FALSE]
    /\ UNCHANGED <<reg, regFile, serving, visitor, noted, given, child, launch, runs, visits>>

(* The stamp says that the provider beside it can launch a game. *)
Stamp ==
    /\ At("install", "stamp")
    /\ folder' \in {folder, [folder EXCEPT !.stamp = @ \/ op.copied]}
    /\ op' = [op EXCEPT !.step = "setft", !.built = {}, !.copied = FALSE]
    /\ UNCHANGED <<reg, regFile, serving, visitor, noted, given, child, launch, runs, visits>>

(* set_key: it lands, it does not, or wine cannot be run at all. *)
SetKey(k, s, next) ==
    /\ At("install", s)
    /\ \/ /\ reg' = [reg EXCEPT ![k] = op.want[k]] /\ serving' = TRUE
          /\ given' = given \cup ({<<k, op.want[k]>>} \ {<<k, Ours>>})
          /\ op' = [op EXCEPT !.step = next, !.landed = @ \cup {k}]
       \/ /\ serving' = TRUE /\ Leaves(next)
          /\ UNCHANGED <<reg, given>>
       \/ OpEnds /\ UNCHANGED <<reg, serving, given>>
    /\ UNCHANGED <<regFile, visitor, folder, noted, child, launch, runs, visits>>

(* A fault: what was asked for is noted, whether or not it landed. *)
MutRecorded == [k \in Keys |-> op.want[k]]

(* write_record: what landed over what was noted. *)
Recorded == [k \in Keys |-> IF k \in op.landed THEN op.want[k] ELSE op.rec[k]]
WriteRecord ==
    /\ At("install", "record")
    /\ noted' \in IF op.landed = {} THEN {noted} ELSE {noted, Recorded}
    /\ OpEnds
    /\ UNCHANGED <<reg, regFile, serving, visitor, folder, given, child, launch, runs, visits>>

-----------------------------------------------------------------------------
(* uninstall *)
UninstallBridge ==
    /\ NoCommand /\ runs < MaxRuns /\ runs' = runs + 1
    /\ op' = [NoOp EXCEPT !.cmd = "uninstall", !.step = "undo", !.rec = noted]
    /\ UNCHANGED <<prefixVars, given, child, launch, visits>>

(* undo_keys: nothing to take out, by the file: wine is not started. *)
NothingToUndo(r) == \A k \in Keys : UndoFor(r[k], op.rec[k]) # "remove"
UndoByFile ==
    /\ At("uninstall", "undo") /\ SettledKeys /\ NothingToUndo(regFile)
    /\ Leaves("rmdir")
    /\ UNCHANGED <<prefixVars, given, child, launch, runs, visits>>

UndoByWine ==
    /\ At("uninstall", "undo")
    /\ Leaves("undoft")
    /\ UNCHANGED <<prefixVars, given, child, launch, runs, visits>>

(* One key: read, and taken out if it is ours.  del_value may fail. *)
UndoKey(k, s, next) ==
    /\ At("uninstall", s)
    /\ serving' = TRUE
    /\ \/ /\ OpEnds          \* it cannot be read
          /\ UNCHANGED reg
       \/ /\ UndoFor(reg[k], op.rec[k]) # "remove"
          /\ Leaves(next)
          /\ UNCHANGED reg
       \/ /\ UndoFor(reg[k], op.rec[k]) = "remove"
          /\ \/ /\ reg' = [reg EXCEPT ![k] = "absent"]
                /\ Leaves(next)
             \/ /\ op' = [op EXCEPT !.step = next, !.failed = TRUE]
                /\ UNCHANGED reg
    /\ UNCHANGED <<regFile, visitor, folder, noted, given, child, launch, runs, visits>>

(* The directory goes last, and only once the registry came out right; its    *)
(* removal may stop half way.                                                *)
RemoveFolder ==
    /\ At("uninstall", "rmdir")
    /\ IF op.failed THEN UNCHANGED <<folder, noted>>
       ELSE \/ folder' = NoFolder /\ noted' = NoReg
            \/ folder' \in {[folder EXCEPT !.provider = "none"], [folder EXCEPT !.stamp = FALSE],
                            [folder EXCEPT !.ft = FALSE]}
               /\ noted' \in {noted, NoReg}
    /\ OpEnds
    /\ UNCHANGED <<reg, regFile, serving, visitor, given, child, launch, runs, visits>>

(* A command is stopped anywhere. *)
CommandKilled ==
    /\ ~NoCommand /\ OpEnds
    /\ UNCHANGED <<prefixVars, given, child, launch, runs, visits>>

-----------------------------------------------------------------------------
(* status: what is there, read without a wine, and the command it hands back. *)

(* presence: an answer may also not be had. *)
Presence(there) == {IF there THEN "yes" ELSE "no", "unknown"}

(* A fault: the keys in the way are those that are not this program's. *)
MutInTheWay(o) == {k \in Keys : \E r \in o.keys : r[k] # "absent" /\ ~IsOurs(r[k], o.rec[k])}

(* gather_status asks of each key what install would. *)
InTheWay(o) == {k \in Keys : \E r \in o.keys : StopsInstall(r[k], o.rec[k], o.want[k])}

AnythingOfOurs(o, dir) ==
    dir # "no" \/ \E k \in Keys, r \in o.keys : IsOurs(r[k], o.rec[k])

(* The last paragraph of the report.  An install line names a wine where the  *)
(* one that would run is not known to be the prefix's.                       *)
Advice(o, dir) ==
    CASE AnythingOfOurs(o, dir) -> "uninstall"
      [] ~AnythingOfOurs(o, dir) /\ InTheWay(o) # {} -> "force"
      [] OTHER -> "install"
AdvisedWine(steam, wine) == IF SteamWineRefused(steam, wine, FALSE) THEN "named" ELSE wine

Status(np, steam, wine) ==
    /\ NoCommand /\ runs < MaxRuns /\ runs' = runs + 1
    /\ op' = [NoOp EXCEPT !.cmd = "status", !.step = "record", !.want = WantFor(np),
                          !.refused = SteamWineRefused(steam, AdvisedWine(steam, wine), FALSE)]
    /\ UNCHANGED <<prefixVars, given, child, launch, visits>>

(* The record, or none where it cannot be read. *)
StatusRecord ==
    /\ At("status", "record")
    /\ \E r \in {noted, NoReg} : op' = [op EXCEPT !.step = "keys", !.rec = r]
    /\ UNCHANGED <<prefixVars, given, child, launch, runs, visits>>

(* Both keys out of user.reg, served or not; or neither. *)
StatusKeys ==
    /\ At("status", "keys")
    /\ \E ks \in {{regFile} \ {NoReg}, {}} : op' = [op EXCEPT !.step = "dir", !.keys = ks]
    /\ UNCHANGED <<prefixVars, given, child, launch, runs, visits>>

StatusSays ==
    /\ At("status", "dir")
    /\ \E dir \in Presence(folder # NoFolder \/ noted # NoReg) :
           op' = [op EXCEPT !.step = "said", !.said = Advice(op, dir)]
    /\ UNCHANGED <<prefixVars, given, child, launch, runs, visits>>

-----------------------------------------------------------------------------
(* Another program registers its client. *)
UnderDecision(k) ==
    \/ op.cmd = "install" /\ op.step \in {"provider", "ft", "stamp", "setft"}
    \/ op.cmd = "install" /\ op.step = "setnp" /\ k = "np"
    \/ At("uninstall", "rmdir")

Visit(k, v) ==
    /\ ~UnderDecision(k) /\ v # reg[k] /\ visits < MaxVisits /\ visits' = visits + 1
    /\ reg' = [reg EXCEPT ![k] = v] /\ serving' = TRUE /\ visitor' = TRUE
    /\ UNCHANGED <<regFile, folder, noted, op, given, child, launch, runs>>

VisitorLeaves ==
    /\ visitor /\ visitor' = FALSE
    /\ UNCHANGED <<reg, regFile, serving, folder, noted, op, given, child, launch, runs, visits>>

(* The wineserver writes the registry back when the last program has gone. *)
ServerExits ==
    /\ serving /\ ~visitor /\ child = "off" /\ launch # "going"
    /\ serving' = FALSE /\ regFile' = reg
    /\ UNCHANGED <<reg, visitor, folder, noted, op, given, child, launch, runs, visits>>

-----------------------------------------------------------------------------
(* `bridge run`: the provider, as a child, in a wineserver session. *)
BridgeRun ==
    /\ child = "off" /\ folder.provider # "none"
    /\ child' \in Seeing /\ serving' = TRUE
    /\ UNCHANGED <<reg, regFile, visitor, folder, noted, op, given, launch, runs, visits>>

(* supervise: a launch that waits for the wineserver has it stop, ... *)
BridgeYields ==
    /\ child = "on" /\ Waiter
    /\ child' = "asked"
    /\ UNCHANGED <<prefixVars, op, given, launch, runs, visits>>

(* ... by SIGTERM, and five seconds later by SIGKILL; or it ends by itself. *)
BridgeEnds ==
    /\ child # "off"
    /\ child' = "off"
    /\ UNCHANGED <<prefixVars, op, given, launch, runs, visits>>

(* A fault: it is asked, and not waited for or killed. *)
MutBridgeStops == FALSE /\ UNCHANGED bridgeVars

BridgeStops == child = "asked" /\ BridgeEnds

(* proton.rs plan: the launch is wrapped when a provider is there and the     *)
(* stamp says it can launch the game; an old one never starts it.            *)
Wrapped == folder.provider # "none" /\ folder.stamp

LaunchStart ==
    /\ launch = "none" /\ launch' = "waiting"
    /\ UNCHANGED <<prefixVars, op, given, child, runs, visits>>

LaunchGoes ==
    /\ launch = "waiting" /\ ~serving
    /\ launch' = IF Wrapped /\ folder.provider = "old" THEN "hung" ELSE "going"
    /\ serving' = TRUE
    /\ UNCHANGED <<reg, regFile, visitor, folder, noted, op, given, child, runs, visits>>

LaunchEnds ==
    /\ launch \in {"waiting", "going"} /\ launch' = "none"
    /\ UNCHANGED <<prefixVars, op, given, child, runs, visits>>

-----------------------------------------------------------------------------
BridgeNext ==
    \/ \E np \in {NpTarget(e, i) : e \in {"ours", "auto"}, i \in BOOLEAN}, force, steam \in BOOLEAN,
          built \in {{"ft"}, {"ft", "provider"}}, wine \in Wines : Install(np, force, built, steam, wine)
    \/ InstallReadFile \/ InstallReadWine
    \/ (\E a \in {"provider", "ft"} : CopyArtifact(a)) \/ Stamp
    \/ SetKey("ft", "setft", "setnp") \/ SetKey("np", "setnp", "record") \/ WriteRecord
    \/ UninstallBridge \/ UndoByFile \/ UndoByWine
    \/ UndoKey("ft", "undoft", "undonp") \/ UndoKey("np", "undonp", "rmdir") \/ RemoveFolder
    \/ (\E np \in {Ours, Theirs}, steam \in BOOLEAN, wine \in Wines : Status(np, steam, wine))
    \/ StatusRecord \/ StatusKeys \/ StatusSays
    \/ CommandKilled
    \/ (\E k \in Keys, v \in {Theirs, Another} : Visit(k, v))
    \/ VisitorLeaves \/ ServerExits
    \/ BridgeRun \/ BridgeYields \/ BridgeEnds \/ BridgeStops
    \/ LaunchStart \/ LaunchGoes \/ LaunchEnds

(* A prefix that is new, or was used by other programs, or holds what a       *)
(* version before the stamp and the record left.                             *)
BridgeInit ==
    /\ \/ /\ reg = [k \in Keys |-> "absent"] /\ regFile \in {NoReg, reg}
          /\ folder = NoFolder /\ given = {}
       \/ /\ reg = [k \in Keys |-> IF k = "np" THEN Theirs ELSE "absent"] /\ regFile = reg
          /\ folder = NoFolder /\ given = {}
       \/ /\ reg \in {[k \in Keys |-> Ours], [k \in Keys |-> IF k = "np" THEN Theirs ELSE Ours]}
          /\ regFile = reg /\ given = {<<k, reg[k]>> : k \in Keys} \ {<<k, Ours>> : k \in Keys}
          /\ folder = [provider |-> "old", ft |-> TRUE, stamp |-> FALSE]
    /\ serving = FALSE /\ visitor = FALSE /\ noted = NoReg
    /\ op = NoOp /\ child = "off" /\ launch = "none"
    /\ runs = 0 /\ visits = 0

(* The bridge's watch runs, and the kernel ends what is killed. *)
BridgeFair == WF_bridgeVars(BridgeYields) /\ WF_bridgeVars(BridgeStops)
BridgeSpec == BridgeInit /\ [][BridgeNext]_bridgeVars /\ BridgeFair

-----------------------------------------------------------------------------
(* "Take out what this install put in, and nothing else": a value goes only   *)
(* if this program put it there, and without --force an install replaces      *)
(* nothing that anybody else registered.                                     *)
TheirsIsKept ==
    \A k \in Keys : reg'[k] # reg[k] /\ op' # op =>
        \/ reg[k] \in {"absent", Ours} \/ <<k, reg[k]>> \in given
        \/ op.cmd = "install" /\ op.force
TheirsStay == [][TheirsIsKept]_bridgeVars

(* A key never points into a directory this program has taken away, however   *)
(* the registry was read and wherever a command was stopped.                 *)
NoKeyDangles == \A k \in Keys : reg[k] = Ours => folder.ft

(* "The one line in the report whose entire job is to be pasted back": as      *)
(* long as nobody has touched the keys that were read, the install that status *)
(* hands out is not refused over them or over the wine, and the one with       *)
(* --force would be refused without it; neither is handed out where something  *)
(* of ours is.                                                               *)
RefusedNow == \E k \in Keys : StopsInstall(reg[k], noted[k], op.want[k])
Nothing == folder = NoFolder /\ \A k \in Keys : UndoFor(reg[k], noted[k]) # "remove"
AdviceGoesThrough ==
    (At("status", "said") /\ op.keys = {reg} /\ op.said # "uninstall") =>
        Nothing /\ (op.said = "install" => ~op.refused) /\ (RefusedNow <=> op.said = "force")

(* A launch is wrapped only around a provider that can start the game.        *)
NeverHung == launch # "hung"

(* A Wine prefix: no key points into a directory that is gone, no launch is   *)
(* wrapped around a provider that cannot start it, and the command `status`   *)
(* hands back is one that goes through.                                      *)
PrefixIsSound == NoKeyDangles /\ NeverHung /\ AdviceGoesThrough

(* "stops itself and says so, so the wait can end": a bridge that a launch    *)
(* waits behind goes, also if it does not heed SIGTERM.                      *)
Waits == launch = "waiting" /\ child \in {"on", "asked"}
Freed == launch # "waiting" \/ child = "off"
LaunchNotBlocked == Waits ~> Freed
=============================================================================
