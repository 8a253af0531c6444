--------------------------- MODULE DesktopProofs ---------------------------
(***************************************************************************)
(* What the program leaves on the machine and shows on the desktop: the    *)
(* controller of a game, the pose it is sent, the saved settings, the tray *)
(* icon, the page the Wine side writes, the prefix the Wine bridge is      *)
(* installed into, and the window it is installed from.  Each part for     *)
(* every value of its constants that its assumption allows; the parts      *)
(* share no state.                                                         *)
(***************************************************************************)
EXTENDS Store, Tray, GameSide, FramePath, WineFeed, Bridge, GameSetup, FiniteSetTheorems,
        TLAPS

-----------------------------------------------------------------------------
(* GameSide: the controller. *)

(* What is known of the controller without asking it: who says it is there,    *)
(* who holds it, and that there is no output without a session.              *)
GameTypeOK == joyDev \in BOOLEAN /\ tracking \in BOOLEAN
ControllerKnown == /\ joyStatus = "present" <=> joyDev
                   /\ "joystick" \in claims => joyDev
Held == \A o \in out : o.joystick => joyDev
NoneWithout == ~tracking => out = {}
GameInv == GameTypeOK /\ ControllerKnown /\ Held /\ NoneWithout

LEMMA SessionsHold ==
    ASSUME NEW cfg, NEW joy \in BOOLEAN, NEW udp, NEW o \in ForSession(cfg, joy, udp)
    PROVE  o.joystick = joy
    BY DEF ForSession

LEMMA GameInitInv == ASSUME GameInit PROVE GameInv
    BY DEF GameInit, GameInv, GameTypeOK, ControllerKnown, Held, NoneWithout

(* Steps that leave the controller, the session and its output alone. *)
LEMMA ElsewhereKeeps ==
    ASSUME GameInv, UNCHANGED <<joyDev, joyStatus, tracking, out>>,
           "joystick" \in claims' => "joystick" \in claims
    PROVE  GameInv'
    BY DEF GameInv, GameTypeOK, ControllerKnown, Held, NoneWithout

LEMMA GameRowKeeps ==
    ASSUME GameInv,
           \/ \E f \in {"enabled", "joystick"} : RowSwitch(f)
           \/ \E s \in Strengths : RowStrength(s)
           \/ RowRefresh
           \/ \E f \in Fields, v \in BOOLEAN : GamesSet(f, v)
           \/ \E f \in {"yaw", "pitch"}, v \in Strengths : GamesSet(f, v)
           \/ World
    PROVE  GameInv'
<1>1. UNCHANGED <<joyDev, joyStatus, tracking, out, claims>>
    BY DEF RowSwitch, RowStrength, RowRefresh, GamesSet, World
<1>2. QED
    BY <1>1, ElsewhereKeeps

LEMMA PortPollKeeps == ASSUME GameInv, PortPoll PROVE GameInv'
<1>1. "joystick" \in claims' => "joystick" \in claims
    BY DEF PortPoll, Latch
<1>2. QED
    BY <1>1, ElsewhereKeeps DEF PortPoll

LEMMA GamePollKeeps == ASSUME GameInv, GamePoll PROVE GameInv'
<1>1. PICK opened \in BOOLEAN : SyncJoystick(toml, opened)
    BY DEF GamePoll
<1>2. joyDev' \in BOOLEAN /\ joyDev \in BOOLEAN /\ UNCHANGED tracking
    BY <1>1 DEF SyncJoystick, GameInv, GameTypeOK, GamePoll, WantsJoystick
<1>3. ControllerKnown'
  <2>1. joyDev' => WantsJoystick(toml)
      BY <1>1 DEF SyncJoystick
  <2>2. joyStatus' = IF ~WantsJoystick(toml) THEN "off" ELSE IF joyDev' THEN "present" ELSE "failed"
      BY <1>1 DEF SyncJoystick
  <2>3. "joystick" \in claims' => joyDev'
      BY <1>1 DEF SyncJoystick, Latch, WantsJoystickWake
  <2>4. QED
      BY <2>1, <2>2, <2>3 DEF ControllerKnown
<1>4. CASE tracking /\ Changed(toml, joyDev, joyDev')
  <2>1. PICK udp \in Ports : out' = ForSession(toml, joyDev', udp)
      BY <1>4 DEF GamePoll
  <2>2. Held' /\ NoneWithout'
      BY <1>2, <1>4, <2>1, SessionsHold DEF Held, NoneWithout
  <2>3. QED
      BY <1>2, <1>3, <2>2 DEF GameInv, GameTypeOK
<1>5. CASE ~(tracking /\ Changed(toml, joyDev, joyDev'))
  <2>1. UNCHANGED out
      BY <1>5 DEF GamePoll
  <2>2. out = {} \/ joyDev = joyDev'
      BY <1>5 DEF GameInv, NoneWithout, Changed
  <2>3. Held' /\ NoneWithout'
      BY <1>2, <2>1, <2>2 DEF GameInv, Held, NoneWithout
  <2>4. QED
      BY <1>2, <1>3, <2>3 DEF GameInv, GameTypeOK
<1>6. QED
    BY <1>4, <1>5

LEMMA SessionKeeps == ASSUME GameInv, SessionOpens \/ StandsDown \/ Breaks PROVE GameInv'
<1>1. CASE SessionOpens
  <2>1. PICK udp \in Ports : out' = ForSession(toml, joyDev, udp)
      BY <1>1 DEF SessionOpens
  <2>2. tracking' = TRUE /\ UNCHANGED <<joyDev, joyStatus, claims>>
      BY <1>1 DEF SessionOpens
  <2>3. joyDev \in BOOLEAN /\ ControllerKnown
      BY DEF GameInv, GameTypeOK
  <2>4. Held' /\ NoneWithout'
      BY <2>1, <2>2, <2>3, SessionsHold DEF Held, NoneWithout
  <2>5. QED
      BY <2>2, <2>3, <2>4 DEF GameInv, GameTypeOK, ControllerKnown
<1>2. CASE StandsDown \/ Breaks
  <2>1. tracking' = FALSE /\ out' = {} /\ UNCHANGED <<joyDev, joyStatus, claims>>
      BY <1>2 DEF StandsDown, Breaks
  <2>2. GameTypeOK' /\ ControllerKnown'
      BY <2>1 DEF GameInv, GameTypeOK, ControllerKnown
  <2>3. Held' /\ NoneWithout'
      BY <2>1 DEF Held, NoneWithout
  <2>4. QED
      BY <2>2, <2>3 DEF GameInv
<1>3. QED
    BY <1>1, <1>2

LEMMA GameStepKeeps == ASSUME GameInv, [GameNext]_gameVars PROVE GameInv'
<1>1. CASE UNCHANGED gameVars
    BY <1>1, ElsewhereKeeps DEF gameVars
<1>2. QED
    BY <1>1, GameRowKeeps, PortPollKeeps, GamePollKeeps, SessionKeeps DEF GameNext

(* A controller the hub says is gone is gone: no session's output holds it,    *)
(* and no claim is made for it, whatever is switched on and off when.        *)
THEOREM GameJoystickGone == GameSpec => []JoystickGone
<1>1. GameInv => JoystickGone
    BY DEF GameInv, GameTypeOK, ControllerKnown, Held, JoystickGone
<1>2. QED
    BY <1>1, GameInitInv, GameStepKeeps, PTL DEF GameSpec

-----------------------------------------------------------------------------
(* Store: settings and calibrations on disk. *)

Work == [step : {"idle", "create", "write", "sync", "rename", "dirsync"}, todo : Seq(SettingsFiles),
         val : Nat, fd : Inodes \cup {NoInode}]
StoreTypeOK ==
    /\ dir \in [FileNames -> Inodes \cup {NoInode}] /\ kept \in [FileNames -> Inodes \cup {NoInode}]
    /\ data \in [Inodes -> Nat] /\ durable \in [Inodes -> Nat]
    /\ writer \in [Writers -> Work]
    /\ acked \in [SettingsFiles -> SUBSET Nat] /\ lasting \in [SettingsFiles -> SUBSET Nat]

(* What is under a file's own name, as seen and as kept, may be there: its     *)
(* bytes were on the disk before it got the name.                            *)
Holds(d, c, s) == \A f \in SettingsFiles : Content(d, c, f) \in s[f]
AllWhole == Holds(dir, data, acked) /\ Holds(dir, durable, acked) /\ Holds(kept, data, lasting) /\ Holds(kept, durable, lasting)

(* No two names share an inode, seen or kept; nor is what is seen under a      *)
(* name kept under another file's, or a temporary's under its file's.        *)
OneName(d) == \A m, n \in FileNames : d[m] = d[n] /\ d[m] # NoInode => m = n
TmpApart ==
    \A m, n \in FileNames :
        dir[m] # NoInode /\ kept[n] = dir[m] => m[1] = n[1] /\ (m[2] = "tmp" => n = m)
NamesApart == OneName(dir) /\ OneName(kept) /\ TmpApart

(* What a writer has done so far.                                             *)
AtWork ==
    \A w \in Writers :
        LET k == writer[w] IN
        /\ k.step # "idle" => k.todo # <<>> /\ k.val \in Values
        /\ k.step \in {"write", "sync", "rename"} => k.fd # NoInode /\ dir[Tmp(w)] = k.fd
        /\ k.step \in {"sync", "rename"} => data[k.fd] = Put(w)
        /\ k.step = "rename" => durable[k.fd] = Put(w)
        /\ k.step = "dirsync" => Content(dir, data, Cur(w)) = Put(w) /\ Content(dir, durable, Cur(w)) = Put(w)

(* What may be there was saved whole, and after a power loss more may be; the *)
(* blob is reported before its metadata.                                     *)
SavedWhole(s) ==
    /\ \A f \in SettingsFiles : \A c \in s[f] :
         c # NoInode => (\E v \in Values : c = Stored(f, v)) /\ (f = "update_check" => Values \subseteq {0, 3})
    /\ NoInode \notin s["meta"] => NoInode \notin s["blob"]
AckedThere == SavedWhole(acked) /\ SavedWhole(lasting) /\ \A f \in SettingsFiles : acked[f] \subseteq lasting[f]
InOrder ==
    \A w \in Writers : writer[w].step # "idle" =>
        \A i \in 1..Len(writer[w].todo) :
            /\ writer[w].todo[i] = "meta" =>
                 NoInode \notin acked["blob"] \/ \E j \in 1..(i - 1) : writer[w].todo[j] = "blob"
            /\ writer[w].todo[i] = "update_check" => Values \subseteq {0, 3}

StoreInv == StoreTypeOK /\ AllWhole /\ NamesApart /\ AtWork /\ AckedThere /\ InOrder

LEMMA StoredIsANumber ==
    ASSUME StoreAssumption, NEW f \in SettingsFiles, NEW v \in Values
    PROVE  /\ Stored(f, v) \in Nat
           /\ Stored(f, v) \notin {NoInode, Junk, Truncated, Unset}
    BY DEF StoreAssumption, Stored, Clamped, NoInode, Junk, Truncated, Unset

LEMMA StoreInitInv ==
    ASSUME StoreAssumption, StoreInit
    PROVE  StoreInv
<1>1. StoreTypeOK
    BY DEF StoreInit, StoreTypeOK, Work, Idle0, Truncated, NoInode, Junk, SettingsFiles
<1>2. AllWhole /\ NamesApart
    BY DEF StoreInit, AllWhole, Holds, Content, NamesApart, OneName, TmpApart, FileNames
<1>3. AtWork /\ AckedThere /\ InOrder
    BY DEF StoreInit, AtWork, AckedThere, SavedWhole, InOrder, Idle0, SettingsFiles
<1>4. QED
    BY <1>1, <1>2, <1>3 DEF StoreInv

(* The one writer: what holds of it holds of every writer. *)
LEMMA CurIsAFile ==
    ASSUME StoreAssumption, StoreInv, NEW w \in Writers, writer[w].step # "idle"
    PROVE  /\ Cur(w) \in SettingsFiles /\ Name(w) \in FileNames /\ Tmp(w) \in FileNames
           /\ writer[w].val \in Values
           /\ Tmp(w) = <<Cur(w), "tmp">> /\ Name(w) = <<Cur(w), "file">>
           /\ Len(writer[w].todo) \in Nat /\ Len(writer[w].todo) > 0 /\ Cur(w) = writer[w].todo[1]
<1>1. writer[w].todo \in Seq(SettingsFiles) /\ writer[w].todo # <<>>
    BY DEF StoreInv, StoreTypeOK, Work, AtWork
<1>2. Cur(w) \in SettingsFiles /\ Len(writer[w].todo) > 0 /\ Cur(w) = writer[w].todo[1]
    BY <1>1 DEF Cur
<1>3. QED
    BY <1>1, <1>2 DEF Name, Tmp, FileNames, StoreInv, AtWork

LEMMA BeginKeeps ==
    ASSUME StoreAssumption, StoreInv, NEW w \in Writers, NEW s \in Saves, NEW v \in Values, BeginSave(w, s, v)
    PROVE  StoreInv'
<1> DEFINE k == [step |-> "create", todo |-> s, val |-> v, fd |-> NoInode]
<1>0. writer' = [writer EXCEPT ![w] = k] /\ k \in Work /\ s # <<>> /\ s \in Seq(SettingsFiles)
    BY DEF BeginSave, StoreAssumption, Work
<1>1. StoreTypeOK'
    BY <1>0 DEF StoreInv, StoreTypeOK, BeginSave
<1>2. (AllWhole /\ NamesApart /\ AckedThere)'
    BY DEF StoreInv, BeginSave, AllWhole, Holds, Content, NamesApart, OneName, TmpApart, AckedThere, SavedWhole
<1>3. \A u \in Writers : writer'[u] = k
    BY <1>0 DEF StoreInv, StoreTypeOK, StoreAssumption
<1>4. AtWork'
    BY <1>0, <1>3 DEF AtWork
<1>5. InOrder'
    BY <1>0, <1>3 DEF InOrder, StoreAssumption
<1>6. QED
    BY <1>1, <1>2, <1>4, <1>5 DEF StoreInv

(* The one writer: what a step makes of its record. *)
LEMMA WriterMoves ==
    ASSUME StoreAssumption, StoreTypeOK, NEW w \in Writers, NEW k,
           writer' = [writer EXCEPT ![w] = k]
    PROVE  \A u \in Writers : writer'[u] = k
    BY DEF StoreTypeOK, StoreAssumption

LEMMA FileCreateKeeps ==
    ASSUME StoreAssumption, StoreInv, NEW w \in Writers, Create(w)
    PROVE  StoreInv'
<1> DEFINE t == <<Cur(w), "tmp">>
<1>0. /\ Cur(w) \in SettingsFiles /\ t \in FileNames /\ Tmp(w) = t /\ writer[w].val \in Values
      /\ writer[w].todo # <<>> /\ writer[w].step = "create"
    BY CurIsAFile DEF Create, StoreInv, AtWork
<1>a. PICK i \in (IF dir[t] = NoInode THEN Free ELSE {dir[t]}) :
        /\ dir' = [dir EXCEPT ![t] = i]
        /\ data' = [data EXCEPT ![i] = Truncated]
        /\ durable' = [durable EXCEPT ![i] = Truncated]
        /\ writer' = [writer EXCEPT ![w].step = "write", ![w].fd = i]
    BY <1>0 DEF Create
<1>1. /\ i \in Inodes
      /\ i \in (IF dir[t] = NoInode THEN Free ELSE {dir[t]})
      /\ dir' = [dir EXCEPT ![t] = i]
      /\ data' = [data EXCEPT ![i] = Truncated]
      /\ durable' = [durable EXCEPT ![i] = Truncated]
      /\ writer' = [writer EXCEPT ![w].step = "write", ![w].fd = i]
  <2>1. CASE dir[t] = NoInode
      BY <1>a, <2>1 DEF Free
  <2>2. CASE dir[t] # NoInode
      BY <1>0, <1>a, <2>2 DEF StoreInv, StoreTypeOK
  <2>3. QED
      BY <2>1, <2>2
<1>2. i # NoInode /\ UNCHANGED <<kept, acked, lasting, saves>>
    BY <1>1 DEF StoreAssumption, Create
<1>3. \A n \in FileNames : n # t => dir[n] # i /\ kept[n] # i
    BY <1>0, <1>1, <1>2 DEF StoreInv, NamesApart, OneName, TmpApart, Free
<1>4. StoreTypeOK'
  <2> DEFINE k == [writer[w] EXCEPT !.step = "write", !.fd = i]
  <2>a. writer[w] \in Work /\ writer \in [Writers -> Work]
      BY DEF StoreInv, StoreTypeOK
  <2>b. k \in Work
      BY <1>1, <2>a DEF Work
  <2>c. writer' = [writer EXCEPT ![w] = k]
      BY <1>1, <2>a
  <2> HIDE DEF k
  <2>1. writer' \in [Writers -> Work]
      BY <2>a, <2>b, <2>c
  <2>2. dir' \in [FileNames -> Inodes \cup {NoInode}] /\ kept' \in [FileNames -> Inodes \cup {NoInode}]
      BY <1>0, <1>1, <1>2 DEF StoreInv, StoreTypeOK
  <2>3. data' \in [Inodes -> Nat] /\ durable' \in [Inodes -> Nat]
      BY <1>0, <1>1 DEF StoreInv, StoreTypeOK, Truncated
  <2>4. QED
      BY <1>2, <2>1, <2>2, <2>3 DEF StoreInv, StoreTypeOK
<1>5. AllWhole'
  <2>1. \A f \in SettingsFiles : <<f, "file">> \in FileNames /\ <<f, "file">> # t
      BY DEF FileNames
  <2>2. \A f \in SettingsFiles : /\ dir'[<<f, "file">>] = dir[<<f, "file">>] /\ dir[<<f, "file">>] # i
                                 /\ kept'[<<f, "file">>] = kept[<<f, "file">>] /\ kept[<<f, "file">>] # i
      BY <2>1, <1>1, <1>2, <1>3 DEF StoreInv, StoreTypeOK
  <2>3. \A j : j # i => data'[j] = data[j] /\ durable'[j] = durable[j]
      BY <1>1 DEF StoreInv, StoreTypeOK
  <2>4. QED
      BY <2>2, <2>3, <1>2 DEF StoreInv, AllWhole, Holds, Content
<1>6. NamesApart'
  <2>1. OneName(dir)'
      BY <1>0, <1>1, <1>3 DEF StoreInv, StoreTypeOK, NamesApart, OneName
  <2>3. TmpApart'
      BY <1>0, <1>1, <1>2, <1>3 DEF StoreInv, StoreTypeOK, NamesApart, TmpApart
  <2>4. QED
      BY <2>1, <2>3, <1>2 DEF StoreInv, NamesApart, OneName
<1>7. AtWork'
  <2>1. \A u \in Writers : u = w
      BY DEF StoreAssumption
  <2>2. /\ writer'[w].step = "write" /\ writer'[w].fd = i
        /\ writer'[w].todo = writer[w].todo /\ writer'[w].val = writer[w].val
      BY <1>1 DEF StoreInv, StoreTypeOK, Work
  <2>3. dir'[t] = i /\ Tmp(w)' = t
      BY <1>0, <1>1, <2>2 DEF StoreInv, StoreTypeOK, Tmp, Cur
  <2>4. QED
      BY <2>1, <2>2, <2>3, <1>0, <1>2 DEF AtWork
<1>8. AckedThere'
  <2>1. \A f \in SettingsFiles : <<f, "file">> \in FileNames /\ <<f, "file">> # t
      BY DEF FileNames
  <2>2. QED
      BY <2>1, <1>1, <1>2 DEF StoreInv, StoreTypeOK, AckedThere
<1>9. InOrder'
  <2>1. \A u \in Writers : u = w
      BY DEF StoreAssumption
  <2>2. writer'[w].step = "write" /\ writer'[w].todo = writer[w].todo
      BY <1>1 DEF StoreInv, StoreTypeOK, Work
  <2>3. QED
      BY <2>1, <2>2, <1>0, <1>2 DEF StoreInv, InOrder
<1>10. QED
    BY <1>4, <1>5, <1>6, <1>7, <1>8, <1>9 DEF StoreInv

(* The inode of the temporary is under no file's own name. *)
LEMMA FdIsApart ==
    ASSUME StoreAssumption, StoreInv, NEW w \in Writers, writer[w].step \in {"write", "sync", "rename"}
    PROVE  /\ writer[w].fd \in Inodes
           /\ \A f \in SettingsFiles : dir[<<f, "file">>] # writer[w].fd /\ kept[<<f, "file">>] # writer[w].fd
<1>1. Tmp(w) = <<Cur(w), "tmp">> /\ Cur(w) \in SettingsFiles /\ Tmp(w) \in FileNames
    BY CurIsAFile
<1>2. dir[Tmp(w)] = writer[w].fd /\ writer[w].fd # NoInode
    BY DEF StoreInv, AtWork
<1>3. \A f \in SettingsFiles : <<f, "file">> \in FileNames /\ <<f, "file">> # Tmp(w)
    BY <1>1 DEF FileNames
<1>4. QED
    BY <1>1, <1>2, <1>3 DEF StoreInv, StoreTypeOK, Work, NamesApart, OneName, TmpApart

LEMMA WriteAllKeeps ==
    ASSUME StoreAssumption, StoreInv, NEW w \in Writers, WriteAll(w)
    PROVE  StoreInv'
<1> DEFINE i == writer[w].fd
           v == Put(w)
<1>0. /\ writer[w].step = "write" /\ i \in Inodes /\ v \in Nat
      /\ \A f \in SettingsFiles : dir[<<f, "file">>] # i /\ kept[<<f, "file">>] # i
    BY FdIsApart, CurIsAFile, StoredIsANumber DEF WriteAll, Put
<1>1. /\ data' = [data EXCEPT ![i] = v] /\ UNCHANGED <<dir, kept, durable, acked, lasting, saves>>
      /\ writer' = [writer EXCEPT ![w].step = "sync"]
    BY DEF WriteAll, StepTo
<1>2. StoreTypeOK'
    BY <1>0, <1>1 DEF StoreInv, StoreTypeOK, Work
<1>3. /\ \A u \in Writers : u = w
      /\ writer'[w].step = "sync" /\ writer'[w].fd = i
      /\ writer'[w].todo = writer[w].todo /\ writer'[w].val = writer[w].val
      /\ data'[i] = v /\ Cur(w)' = Cur(w) /\ Tmp(w)' = Tmp(w) /\ Put(w)' = Put(w)
    BY <1>0, <1>1 DEF StoreInv, StoreTypeOK, Work, StoreAssumption, Cur, Tmp, Put
<1>4. AllWhole'
    BY <1>0, <1>1 DEF StoreInv, StoreTypeOK, AllWhole, Holds, Content
<1>5. AtWork'
    BY <1>0, <1>1, <1>3 DEF StoreInv, AtWork
<1>6. (NamesApart /\ AckedThere /\ InOrder)'
    BY <1>0, <1>1, <1>3 DEF StoreInv, NamesApart, OneName, TmpApart, AckedThere, SavedWhole, InOrder
<1>7. QED
    BY <1>2, <1>4, <1>5, <1>6 DEF StoreInv

LEMMA SyncAllKeeps ==
    ASSUME StoreAssumption, StoreInv, NEW w \in Writers, SyncAll(w)
    PROVE  StoreInv'
<1> DEFINE i == writer[w].fd
<1>0. /\ writer[w].step = "sync" /\ i \in Inodes
      /\ \A f \in SettingsFiles : dir[<<f, "file">>] # i /\ kept[<<f, "file">>] # i
    BY FdIsApart DEF SyncAll
<1>1. /\ durable' = [durable EXCEPT ![i] = data[i]] /\ UNCHANGED <<dir, kept, data, acked, lasting, saves>>
      /\ writer' = [writer EXCEPT ![w].step = "rename"]
    BY DEF SyncAll, StepTo
<1>2. StoreTypeOK'
    BY <1>0, <1>1 DEF StoreInv, StoreTypeOK, Work
<1>3. /\ \A u \in Writers : u = w
      /\ writer'[w].step = "rename" /\ writer'[w].fd = i
      /\ writer'[w].todo = writer[w].todo /\ writer'[w].val = writer[w].val
      /\ durable'[i] = data[i] /\ Cur(w)' = Cur(w) /\ Tmp(w)' = Tmp(w) /\ Put(w)' = Put(w)
    BY <1>0, <1>1 DEF StoreInv, StoreTypeOK, Work, StoreAssumption, Cur, Tmp, Put
<1>4. AllWhole'
    BY <1>0, <1>1 DEF StoreInv, StoreTypeOK, AllWhole, Holds, Content
<1>5. AtWork'
    BY <1>0, <1>1, <1>3 DEF StoreInv, AtWork
<1>6. (NamesApart /\ AckedThere /\ InOrder)'
    BY <1>0, <1>1, <1>3 DEF StoreInv, NamesApart, OneName, TmpApart, AckedThere, SavedWhole, InOrder
<1>7. QED
    BY <1>2, <1>4, <1>5, <1>6 DEF StoreInv

LEMMA RenameKeeps ==
    ASSUME StoreAssumption, StoreInv, NEW w \in Writers, Rename(w)
    PROVE  StoreInv'
<1> DEFINE i == writer[w].fd
           t == <<Cur(w), "tmp">>
           n == <<Cur(w), "file">>
           v == Put(w)
<1>0. /\ writer[w].step = "rename" /\ i \in Inodes /\ i # NoInode
      /\ Cur(w) \in SettingsFiles /\ v \in Nat /\ v # NoInode /\ Tmp(w) = t /\ Name(w) = n /\ t \in FileNames /\ n \in FileNames /\ n # t
      /\ dir[t] = i /\ data[i] = v /\ durable[i] = v
      /\ writer[w].todo # <<>> /\ writer[w].val \in Values
      /\ Cur(w) = "update_check" => Values \subseteq {0, 3}
  <2>1. /\ writer[w].step = "rename" /\ dir[t] = i /\ data[i] = v /\ durable[i] = v /\ i # NoInode
        /\ writer[w].todo # <<>>
      BY CurIsAFile DEF Rename, StoreInv, AtWork
  <2>2. 1 \in 1..Len(writer[w].todo)
      BY <2>1, CurIsAFile
  <2>3. Cur(w) = "update_check" => Values \subseteq {0, 3}
      BY <2>1, <2>2, CurIsAFile DEF StoreInv, InOrder
  <2>4. QED
      BY <2>1, <2>3, FdIsApart, CurIsAFile, StoredIsANumber DEF Put
<1>1. /\ dir' = [dir EXCEPT ![n] = i, ![t] = NoInode] /\ UNCHANGED <<kept, data, durable, saves>>
      /\ acked' = [acked EXCEPT ![Cur(w)] = @ \cup {v}] /\ lasting' = [lasting EXCEPT ![Cur(w)] = @ \cup {v}]
      /\ writer' = [writer EXCEPT ![w].step = "dirsync"]
    BY <1>0 DEF Rename, StepTo
<1>b. \A f \in SettingsFiles : /\ acked'[f] = IF f = Cur(w) THEN acked[f] \cup {v} ELSE acked[f]
                               /\ lasting'[f] = IF f = Cur(w) THEN lasting[f] \cup {v} ELSE lasting[f]
    BY <1>1 DEF StoreInv, StoreTypeOK
<1>2. StoreTypeOK'
    BY <1>0, <1>1 DEF StoreInv, StoreTypeOK, Work
<1>3. /\ \A u \in Writers : u = w
      /\ writer'[w].step = "dirsync"
      /\ writer'[w].todo = writer[w].todo /\ writer'[w].val = writer[w].val
      /\ Cur(w)' = Cur(w) /\ Put(w)' = v
    BY <1>0, <1>1 DEF StoreInv, StoreTypeOK, Work, StoreAssumption, Cur, Put
<1>4. /\ dir'[n] = i /\ dir'[t] = NoInode /\ \A m \in FileNames : m \notin {n, t} => dir'[m] = dir[m]
    BY <1>0, <1>1 DEF StoreInv, StoreTypeOK
<1>5. \A f \in SettingsFiles : <<f, "file">> \in FileNames /\ <<f, "file">> # t /\ (<<f, "file">> = n => f = Cur(w))
    BY <1>0 DEF FileNames
<1>6. \A f \in SettingsFiles : <<f, "tmp">> \in FileNames /\ <<f, "tmp">> # n
    BY <1>0 DEF FileNames
<1>7. AllWhole'
  <2>1. \A f \in SettingsFiles : \/ f = Cur(w) /\ dir'[<<f, "file">>] = i
                                 \/ dir'[<<f, "file">>] = dir[<<f, "file">>]
      BY <1>4, <1>5
  <2>2. ASSUME NEW f \in SettingsFiles
        PROVE  Content(dir, data, f)' \in acked'[f] /\ Content(dir, durable, f)' \in acked'[f]
    <3>1. Content(dir, data, f) \in acked[f] /\ Content(dir, durable, f) \in acked[f]
        BY DEF StoreInv, AllWhole, Holds
    <3>2. CASE f = Cur(w) /\ dir'[<<f, "file">>] = i
      <4>1. Content(dir, data, f)' = v /\ Content(dir, durable, f)' = v
          BY <1>0, <1>1, <3>2 DEF Content
      <4>2. v \in acked'[f]
          BY <1>b, <3>2
      <4>3. QED
          BY <4>1, <4>2
    <3>3. CASE dir'[<<f, "file">>] = dir[<<f, "file">>]
        BY <1>1, <1>b, <3>1, <3>3 DEF Content
    <3>4. QED
        BY <2>1, <3>2, <3>3
  <2>3. Holds(kept, data, lasting)' /\ Holds(kept, durable, lasting)'
      BY <1>1, <1>b DEF StoreInv, AllWhole, Holds, Content
  <2>4. QED
      BY <2>2, <2>3 DEF AllWhole, Holds
<1>8. NamesApart'
  <2>1. OneName(dir)'
      BY <1>0, <1>4 DEF StoreInv, NamesApart, OneName
  <2>2. TmpApart'
      BY <1>0, <1>1, <1>4, <1>6 DEF StoreInv, NamesApart, TmpApart
  <2>3. QED
      BY <2>1, <2>2, <1>1 DEF StoreInv, NamesApart, OneName
<1>9. AtWork'
  <2>1. Content(dir, data, Cur(w))' = v /\ Content(dir, durable, Cur(w))' = v
      BY <1>0, <1>1, <1>3, <1>4 DEF Content
  <2>2. QED
      BY <1>0, <1>3, <2>1 DEF AtWork
<1>10. AckedThere'
  <2>1. v = Stored(Cur(w), writer[w].val)
      BY DEF Put
  <2>2. SavedWhole(acked)' /\ SavedWhole(lasting)'
      BY <1>0, <1>b, <2>1 DEF StoreInv, AckedThere, SavedWhole, SettingsFiles
  <2>3. QED
      BY <2>2, <1>b DEF StoreInv, AckedThere
<1>11. InOrder'
  <2>1. NoInode \notin acked["blob"] => NoInode \notin acked'["blob"]
      BY <1>0, <1>b DEF SettingsFiles
  <2>2. \A j \in 1..Len(writer[w].todo) :
          /\ writer[w].todo[j] = "meta" =>
               NoInode \notin acked["blob"] \/ \E h \in 1..(j - 1) : writer[w].todo[h] = "blob"
          /\ writer[w].todo[j] = "update_check" => Values \subseteq {0, 3}
      BY <1>0 DEF StoreInv, InOrder
  <2>3. \A u \in Writers : writer'[u].todo = writer[w].todo
      BY <1>3
  <2>4. QED
      BY <2>1, <2>2, <2>3 DEF InOrder
<1>12. QED
    BY <1>2, <1>7, <1>8, <1>9, <1>10, <1>11 DEF StoreInv

(* A writer that does nothing any more. *)
LEMMA IdleWriters ==
    ASSUME \A u \in Writers : writer'[u] = Idle0
    PROVE  AtWork' /\ InOrder'
    BY DEF AtWork, InOrder, Idle0

LEMMA SaveFailsKeeps ==
    ASSUME StoreAssumption, StoreInv, NEW w \in Writers, SaveFails(w)
    PROVE  StoreInv'
<1> DEFINE t == <<Cur(w), "tmp">>
<1>0. Tmp(w) = t /\ t \in FileNames /\ Idle0 \in Work
    BY CurIsAFile DEF SaveFails, Idle0, Work, Junk
<1>1. /\ dir' = dir \/ dir' = [dir EXCEPT ![t] = NoInode]
      /\ writer' = [writer EXCEPT ![w] = Idle0] /\ UNCHANGED <<kept, data, durable, acked, lasting, saves>>
    BY <1>0 DEF SaveFails
<1>2. StoreTypeOK'
    BY <1>0, <1>1 DEF StoreInv, StoreTypeOK
<1>3. \A m \in FileNames : dir'[m] = dir[m] \/ (m = t /\ dir'[m] = NoInode)
    BY <1>0, <1>1 DEF StoreInv, StoreTypeOK
<1>4. \A f \in SettingsFiles : dir'[<<f, "file">>] = dir[<<f, "file">>]
    BY <1>3 DEF FileNames
<1>5. AllWhole'
    BY <1>1, <1>4 DEF StoreInv, AllWhole, Holds, Content
<1>6. \A f \in SettingsFiles : <<f, "tmp">> \in FileNames
    BY DEF FileNames
<1>7. NamesApart'
    BY <1>1, <1>3, <1>6 DEF StoreInv, NamesApart, OneName, TmpApart
<1>8. AckedThere'
    BY <1>1 DEF StoreInv, AckedThere, SavedWhole
<1>9. QED
    BY <1>1, <1>2, <1>5, <1>7, <1>8, WriterMoves, IdleWriters DEF StoreInv

LEMMA TailOfFiles ==
    ASSUME NEW q \in Seq(SettingsFiles), Len(q) > 1
    PROVE  /\ Len(Tail(q)) = Len(q) - 1 /\ Tail(q) # <<>>
           /\ \A i \in 1..Len(Tail(q)) : Tail(q)[i] = q[i + 1]
<1>1. Tail(q) \in Seq(SettingsFiles) /\ Len(Tail(q)) = Len(q) - 1
    OBVIOUS
<1>2. \A i \in 1..Len(Tail(q)) : Tail(q)[i] = q[i + 1]
    OBVIOUS
<1> DEFINE t == Tail(q)
<1> HIDE DEF t
<1>3. t \in Seq(SettingsFiles) /\ Len(t) # 0
    BY <1>1 DEF t
<1>4. t # <<>>
    BY <1>3
<1>5. QED
    BY <1>1, <1>2, <1>4 DEF t

LEMMA DirSyncKeeps ==
    ASSUME StoreAssumption, StoreInv, NEW w \in Writers, DirSync(w)
    PROVE  StoreInv'
<1> DEFINE k == writer[w]
           n == <<Cur(w), "file">>
           v == Put(w)
           l == NextFile(k)
<1>0. /\ k.step = "dirsync" /\ Cur(w) \in SettingsFiles /\ Name(w) = n /\ n \in FileNames
      /\ k.val \in Values /\ k.todo \in Seq(SettingsFiles) /\ k.todo # <<>> /\ k \in Work
      /\ Cur(w) = k.todo[1] /\ Len(k.todo) \in Nat /\ Len(k.todo) > 0
    BY CurIsAFile DEF DirSync, StoreInv, StoreTypeOK, Work, AtWork
<1>1. v \in Nat /\ v # NoInode /\ Content(dir, data, Cur(w)) = v /\ Content(dir, durable, Cur(w)) = v
    BY <1>0, StoredIsANumber DEF StoreInv, AtWork, Put
<1>2. /\ acked' = [acked EXCEPT ![Cur(w)] = {v}] /\ writer' = [writer EXCEPT ![w] = l]
      /\ \/ kept' = dir /\ lasting' = acked'
         \/ kept' = kept /\ lasting' = lasting
      /\ UNCHANGED <<dir, data, durable, saves>>
    BY <1>0 DEF DirSync, Surviving, StoreInv, StoreTypeOK
<1>b. \A f \in SettingsFiles : acked'[f] = IF f = Cur(w) THEN {v} ELSE acked[f]
    BY <1>2 DEF StoreInv, StoreTypeOK
<1>c. \A f \in SettingsFiles : acked'[f] \subseteq acked[f]
  <2>1. v \in acked[Cur(w)]
      BY <1>0, <1>1 DEF StoreInv, AllWhole, Holds
  <2>2. QED
      BY <1>b, <2>1
<1>3. l \in Work
  <2>1. Idle0 \in Work
      BY DEF Work, Idle0, Junk
  <2>2. Len(k.todo) > 1 => Tail(k.todo) \in Seq(SettingsFiles)
      BY <1>0
  <2>3. Len(k.todo) > 1 => [k EXCEPT !.step = "create", !.todo = Tail(k.todo)] \in Work
      BY <1>0, <2>2 DEF Work
  <2>4. QED
      BY <2>1, <2>3 DEF NextFile
<1>4. StoreTypeOK'
  <2>1. acked' \in [SettingsFiles -> SUBSET Nat]
      BY <1>1, <1>2 DEF StoreInv, StoreTypeOK
  <2>2. kept' \in [FileNames -> Inodes \cup {NoInode}] /\ lasting' \in [SettingsFiles -> SUBSET Nat]
      BY <1>2, <2>1 DEF StoreInv, StoreTypeOK
  <2>3. writer' \in [Writers -> Work]
      BY <1>2, <1>3 DEF StoreInv, StoreTypeOK
  <2>4. QED
      BY <1>2, <2>1, <2>2, <2>3 DEF StoreInv, StoreTypeOK
<1>5. \A u \in Writers : writer'[u] = l
    BY <1>2, WriterMoves DEF StoreInv
<1>6. AllWhole' /\ NamesApart'
  <2>1. \A f \in SettingsFiles : Content(dir, data, f) \in acked'[f] /\ Content(dir, durable, f) \in acked'[f]
      BY <1>1, <1>b DEF StoreInv, AllWhole, Holds
  <2>2. AllWhole'
      BY <1>2, <2>1 DEF StoreInv, AllWhole, Holds, Content
  <2>3. \A f \in SettingsFiles : <<f, "tmp">> \in FileNames
      BY DEF FileNames
  <2>4. NamesApart'
      BY <1>2, <2>3 DEF StoreInv, NamesApart, OneName, TmpApart
  <2>5. QED
      BY <2>2, <2>4
<1>7. AckedThere'
  <2>1. {"meta", "blob"} \subseteq SettingsFiles
      BY DEF SettingsFiles
  <2>2. 1 \in 1..Len(k.todo) /\ ~ \E j \in 1..(1 - 1) : k.todo[j] = "blob"
      BY <1>0
  <2>3. Cur(w) = "meta" => NoInode \notin acked["blob"]
      BY <1>0, <2>2 DEF StoreInv, InOrder
  <2>4. NoInode \notin acked'["meta"] => NoInode \notin acked'["blob"]
      BY <1>1, <1>b, <2>1, <2>3 DEF StoreInv, AckedThere, SavedWhole
  <2>5. SavedWhole(acked)'
      BY <1>c, <2>4 DEF StoreInv, AckedThere, SavedWhole
  <2>6. SavedWhole(lasting)'
      BY <1>2, <2>5 DEF StoreInv, AckedThere, SavedWhole
  <2>7. \A f \in SettingsFiles : acked'[f] \subseteq lasting'[f]
      BY <1>2, <1>c DEF StoreInv, AckedThere
  <2>8. QED
      BY <2>5, <2>6, <2>7 DEF AckedThere
<1>8. CASE Len(k.todo) > 1
  <2>1. /\ l.step = "create" /\ l.todo = Tail(k.todo) /\ l.val = k.val /\ l.todo # <<>>
        /\ Len(l.todo) = Len(k.todo) - 1 /\ \A i \in 1..Len(l.todo) : l.todo[i] = k.todo[i + 1]
    <3>1. l = [k EXCEPT !.step = "create", !.todo = Tail(k.todo)]
        BY <1>8 DEF NextFile
    <3>2. l.step = "create" /\ l.todo = Tail(k.todo) /\ l.val = k.val
        BY <1>0, <3>1 DEF Work
    <3>3. /\ Len(Tail(k.todo)) = Len(k.todo) - 1 /\ Tail(k.todo) # <<>>
          /\ \A i \in 1..Len(Tail(k.todo)) : Tail(k.todo)[i] = k.todo[i + 1]
        BY <1>0, <1>8, TailOfFiles
    <3>4. QED
        BY <3>2, <3>3
  <2>2. AtWork'
      BY <1>0, <1>5, <2>1 DEF AtWork
  <2>3. ASSUME NEW i \in 1..Len(l.todo)
        PROVE  /\ l.todo[i] = "meta" => NoInode \notin acked'["blob"] \/ \E j \in 1..(i - 1) : l.todo[j] = "blob"
               /\ l.todo[i] = "update_check" => Values \subseteq {0, 3}
    <3>1. i + 1 \in 1..Len(k.todo) /\ l.todo[i] = k.todo[i + 1]
        BY <1>0, <2>1
    <3>a. k.todo[i + 1] = "update_check" => Values \subseteq {0, 3}
        BY <1>0, <3>1 DEF StoreInv, InOrder
    <3>2. CASE \E j \in 1..i : k.todo[j] = "blob"
      <4>1. PICK j \in 1..i : k.todo[j] = "blob"
          BY <3>2
      <4>2. CASE j = 1
        <5>1. Cur(w) = "blob"
            BY <4>1, <4>2, <1>0
        <5>2. NoInode \notin acked'["blob"]
            BY <5>1, <1>0, <1>1, <1>b
        <5>3. QED
            BY <5>2, <3>a, <3>1
      <4>3. CASE j # 1
        <5>1. j - 1 \in 1..(i - 1) /\ j - 1 \in 1..Len(l.todo) /\ (j - 1) + 1 = j
            BY <4>3, <1>0, <2>1
        <5>2. l.todo[j - 1] = "blob"
            BY <5>1, <4>1, <2>1
        <5>3. QED
            BY <5>1, <5>2, <3>a, <3>1
      <4>4. QED
          BY <4>2, <4>3
    <3>3. CASE ~ \E j \in 1..i : k.todo[j] = "blob"
      <4>1. (i + 1) - 1 = i
          BY <1>0, <2>1
      <4>2. k.todo[i + 1] = "meta" => NoInode \notin acked["blob"]
          BY <1>0, <3>1, <3>3, <4>1 DEF StoreInv, InOrder
      <4>3. NoInode \notin acked["blob"] => NoInode \notin acked'["blob"]
          BY <1>c DEF SettingsFiles
      <4>4. QED
          BY <3>1, <3>a, <4>2, <4>3
    <3>4. QED
        BY <3>2, <3>3
  <2>4. InOrder'
      BY <1>5, <2>3 DEF InOrder
  <2>5. QED
      BY <1>4, <1>6, <1>7, <2>2, <2>4 DEF StoreInv
<1>9. CASE ~(Len(k.todo) > 1)
    BY <1>4, <1>5, <1>6, <1>7, <1>9, IdleWriters DEF StoreInv, NextFile
<1>10. QED
    BY <1>8, <1>9

LEMMA KillKeeps ==
    ASSUME StoreAssumption, StoreInv, NEW w \in Writers, Kill(w)
    PROVE  StoreInv'
<1>1. Idle0 \in Work
    BY DEF Idle0, Work, Junk
<1>2. writer' = [writer EXCEPT ![w] = Idle0] /\ UNCHANGED <<dir, kept, data, durable, acked, lasting, saves>>
    BY DEF Kill
<1>3. StoreTypeOK'
    BY <1>1, <1>2 DEF StoreInv, StoreTypeOK
<1>4. (AllWhole /\ NamesApart /\ AckedThere)'
    BY <1>2 DEF StoreInv, AllWhole, Holds, Content, NamesApart, OneName, TmpApart, AckedThere, SavedWhole
<1>5. QED
    BY <1>2, <1>3, <1>4, WriterMoves, IdleWriters DEF StoreInv

LEMMA FlushKeeps ==
    ASSUME StoreAssumption, StoreInv, Flush
    PROVE  StoreInv'
<1>1. UNCHANGED <<dir, data, writer, acked, lasting, saves>>
    BY DEF Flush
<1>2. ASSUME NEW f \in SettingsFiles, kept' = Flushed(f), UNCHANGED durable
      PROVE  StoreInv'
  <2>1. \A n \in FileNames : kept'[n] = IF n[1] = f THEN dir[n] ELSE kept[n]
      BY <1>2 DEF Flushed
  <2>2. StoreTypeOK'
      BY <1>1, <1>2 DEF StoreInv, StoreTypeOK, Flushed
  <2>3. \A g \in SettingsFiles : \/ kept'[<<g, "file">>] = kept[<<g, "file">>]
                                 \/ kept'[<<g, "file">>] = dir[<<g, "file">>]
      BY <2>1 DEF FileNames
  <2>4. AllWhole'
      BY <1>1, <1>2, <2>3 DEF StoreInv, AllWhole, Holds, Content, AckedThere
  <2>5. OneName(kept)'
      BY <2>1 DEF StoreInv, NamesApart, OneName, TmpApart
  <2>6. NamesApart'
      BY <1>1, <2>1, <2>5 DEF StoreInv, NamesApart, OneName, TmpApart
  <2>7. AckedThere' /\ AtWork' /\ InOrder'
      BY <1>1, <1>2 DEF StoreInv, AckedThere, SavedWhole, AtWork, InOrder, Cur, Tmp, Put, Content
  <2>8. QED
      BY <2>2, <2>4, <2>6, <2>7 DEF StoreInv
<1>3. ASSUME NEW i \in Inodes, durable' = [durable EXCEPT ![i] = data[i]], UNCHANGED kept
      PROVE  StoreInv'
  <2>1. StoreTypeOK'
      BY <1>1, <1>3 DEF StoreInv, StoreTypeOK
  <2>2. \A j : durable'[j] = durable[j] \/ durable'[j] = data[j]
      BY <1>3 DEF StoreInv, StoreTypeOK
  <2>3. AllWhole'
      BY <1>1, <1>3, <2>2 DEF StoreInv, AllWhole, Holds, Content
  <2>4. (NamesApart /\ AckedThere /\ InOrder)'
      BY <1>1, <1>3 DEF StoreInv, NamesApart, OneName, TmpApart, AckedThere, SavedWhole, InOrder
  <2>5. AtWork'
      BY <1>1, <1>3, <2>2 DEF StoreInv, AtWork, Cur, Tmp, Put, Content
  <2>6. QED
      BY <2>1, <2>3, <2>4, <2>5 DEF StoreInv
<1>4. QED
    BY <1>2, <1>3 DEF Flush

LEMMA PowerLossKeeps ==
    ASSUME StoreAssumption, StoreInv, PowerLoss
    PROVE  StoreInv'
<1>1. /\ dir' = kept /\ data' = durable /\ acked' = lasting /\ writer' = [w \in Writers |-> Idle0]
      /\ UNCHANGED <<kept, durable, lasting, saves>>
    BY DEF PowerLoss
<1>2. Idle0 \in Work
    BY DEF Idle0, Work, Junk
<1>3. StoreTypeOK'
    BY <1>1, <1>2 DEF StoreInv, StoreTypeOK
<1>4. \A f \in SettingsFiles : <<f, "tmp">> \in FileNames
    BY DEF FileNames
<1>5. (AllWhole /\ NamesApart /\ AckedThere)'
    BY <1>1, <1>4 DEF StoreInv, AllWhole, Holds, Content, NamesApart, OneName, TmpApart, AckedThere, SavedWhole
<1>6. QED
    BY <1>1, <1>3, <1>5, IdleWriters DEF StoreInv

LEMMA StoreStepKeeps ==
    ASSUME StoreAssumption, StoreInv, [StoreNext]_storeVars
    PROVE  StoreInv'
<1>1. CASE UNCHANGED storeVars
    BY <1>1 DEF storeVars, StoreInv, StoreTypeOK, AllWhole, Holds, NamesApart, OneName, TmpApart,
                AckedThere, AtWork, InOrder, Cur, Tmp, Put
<1>2. QED
    BY <1>1, BeginKeeps, FileCreateKeeps, WriteAllKeeps, SyncAllKeeps, RenameKeeps, SaveFailsKeeps, DirSyncKeeps,
       KillKeeps, FlushKeeps, PowerLossKeeps DEF StoreNext

LEMMA StoreInvHolds == ASSUME StoreAssumption PROVE StoreSpec => []StoreInv
    BY StoreInitInv, StoreStepKeeps, PTL DEF StoreSpec

(* No name of a file ever leads to half of one: for any files asked for, any   *)
(* values, whatever is killed and whenever the power goes.                   *)
THEOREM StoreNeverHalf ==
    ASSUME StoreAssumption
    PROVE  StoreSpec => []NeverHalfWritten
<1>1. StoreInv => NeverHalfWritten
  <2> SUFFICES ASSUME StoreInv, NEW f \in SettingsFiles
               PROVE  Now(f) # Truncated /\ After(f) # Truncated
      BY DEF NeverHalfWritten
  <2>1. Now(f) \in lasting[f] /\ After(f) \in lasting[f]
      BY DEF StoreInv, AllWhole, Holds, AckedThere, Now, After
  <2>2. \A c \in lasting[f] : c # NoInode => \E v \in Values : c = Stored(f, v)
      BY DEF StoreInv, AckedThere, SavedWhole
  <2>3. Truncated \notin lasting[f]
      BY <2>2, StoredIsANumber DEF NoInode, Truncated
  <2>4. QED
      BY <2>1, <2>3
<1>2. QED
    BY <1>1, StoreInvHolds, PTL

LEMMA StoredIsLoaded ==
    ASSUME StoreAssumption, NEW f \in SettingsFiles, NEW v \in Values, f = "update_check" => Values \subseteq {0, 3}
    PROVE  Loaded(f, Stored(f, v)) = Stored(f, v)
<1>1. Parses(Stored(f, v))
    BY StoredIsANumber DEF Parses
<1>2. CASE f = "text_scale"
    BY <1>1, <1>2 DEF Loaded, TextScale, Stored, Clamped, StoreAssumption
<1>3. CASE f = "update_check"
    BY <1>1, <1>3 DEF Loaded, UpdateCheck, Stored
<1>4. CASE f \notin {"text_scale", "update_check"}
    BY <1>1, <1>4 DEF Loaded, PitchOffset, Setup
<1>5. QED
    BY <1>2, <1>3, <1>4

(* What may be there of a calibration whose metadata is there is all of it. *)
LEMMA CalibrationIsComplete ==
    ASSUME StoreAssumption, NEW s \in [SettingsFiles -> SUBSET Nat], SavedWhole(s), NoInode \notin s["meta"],
           NEW b \in s["blob"], NEW m \in s["meta"]
    PROVE  Complete(b, m)
<1>1. {"meta", "blob"} \subseteq SettingsFiles /\ b # NoInode /\ m # NoInode
    BY DEF SettingsFiles, SavedWhole
<1>2. \E v \in Values : m = Stored("meta", v)
    BY <1>1 DEF SavedWhole
<1>3. Parses(m) /\ m # Unset
    BY <1>1, <1>2, StoredIsANumber DEF Parses
<1>4. Calibration(b, m) = <<b, m>>
    BY <1>1, <1>3 DEF Calibration
<1>5. QED
    BY <1>3, <1>4 DEF Complete

(* What was last reported saved is read back, or what was put there since; a   *)
(* calibration has both its files; after a power loss, as of the last sync of  *)
(* the directory.                                                            *)
THEOREM StoreSavedIsLoaded ==
    ASSUME StoreAssumption
    PROVE  StoreSpec => []SavedIsLoaded
<1>1. StoreInv => SavedIsLoaded
  <2> SUFFICES ASSUME StoreInv
               PROVE  SavedIsLoaded
      OBVIOUS
  <2>1. \A f \in SettingsFiles : Now(f) \in acked[f] /\ After(f) \in lasting[f] /\ acked[f] \subseteq lasting[f]
      BY DEF StoreInv, AllWhole, Holds, AckedThere, Now, After
  <2>2. ASSUME NEW f \in SettingsFiles, NEW c \in lasting[f], c # NoInode
        PROVE  Loaded(f, c) = c
    <3>1. (\E v \in Values : c = Stored(f, v)) /\ (f = "update_check" => Values \subseteq {0, 3})
        BY <2>2 DEF StoreInv, AckedThere, SavedWhole
    <3>2. QED
        BY <3>1, StoredIsLoaded
  <2>3. /\ {"meta", "blob"} \subseteq SettingsFiles /\ SavedWhole(acked) /\ SavedWhole(lasting)
        /\ acked \in [SettingsFiles -> SUBSET Nat] /\ lasting \in [SettingsFiles -> SUBSET Nat]
      BY DEF SettingsFiles, StoreInv, StoreTypeOK, AckedThere
  <2>4. NoInode \notin acked["meta"] => Complete(Now("blob"), Now("meta"))
      BY <2>1, <2>3, CalibrationIsComplete
  <2>5. NoInode \notin lasting["meta"] => Complete(After("blob"), After("meta"))
      BY <2>1, <2>3, CalibrationIsComplete
  <2>6. QED
      BY <2>1, <2>2, <2>4, <2>5 DEF SavedIsLoaded
<1>2. QED
    BY <1>1, StoreInvHolds, PTL

(* Saves are whole, and last as far as write_atomic brings them: the old file  *)
(* or the new one is under a name, whatever is killed and whenever the power   *)
(* goes; what a save reported is what the next start loads, and after a power  *)
(* loss what was reported when the directory was last synced, or a later save. *)
THEOREM StoreFilesAreWhole ==
    ASSUME StoreAssumption
    PROVE  StoreSpec => []FilesAreWhole
<1>1. NeverHalfWritten /\ SavedIsLoaded => FilesAreWhole
    BY DEF FilesAreWhole
<1>2. QED
    BY <1>1, StoreNeverHalf, StoreSavedIsLoaded, PTL

-----------------------------------------------------------------------------
(* Tray: the icon. *)

Words == {"acquired", "appeared", "gone"}
TrayTypeOK ==
    /\ watcher \in BOOLEAN /\ owned \in BOOLEAN /\ matched \in BOOLEAN /\ call \in BOOLEAN
    /\ registered \in BOOLEAN /\ have_name \in BOOLEAN /\ watcher_up \in BOOLEAN
    /\ mail \in Seq(Words)
    /\ stage \in {"install", "seeded", "named", "done"}

(* install() is as far as what it has asked the bus for.                      *)
AsFar ==
    /\ owned <=> stage \in {"named", "done"}
    /\ matched <=> stage = "done"
    /\ stage \in {"install", "seeded"} => Len(mail) = 0 /\ ~have_name
    /\ stage = "named" => Len(mail) = 1 /\ mail[1] = "acquired" /\ ~have_name

(* The name is the first thing the hub is told of, and only once.             *)
NameFirst ==
    /\ \A i \in 1..Len(mail) : mail[i] = "acquired" => i = 1 /\ ~have_name
    /\ stage = "done" /\ ~have_name => Len(mail) > 0 /\ mail[1] = "acquired"

(* The last word on its way about the watcher, or what the hub last heard, is *)
(* how it is.                                                                *)
LastWord ==
    /\ \A i \in 1..Len(mail) :
         (mail[i] # "acquired" /\ \A j \in (i + 1)..Len(mail) : mail[j] = "acquired")
             => (mail[i] = "appeared" <=> watcher)
    /\ stage # "install" /\ (\A i \in 1..Len(mail) : mail[i] = "acquired") => (watcher_up <=> watcher)

(* A panel has the icon, or is about to be told, or the hub is.               *)
Coming ==
    \/ call
    \/ \E i \in 1..Len(mail) : mail[i] = "appeared"
    \/ Len(mail) > 0 /\ mail[1] = "acquired" /\ watcher_up
IconComing == watcher /\ stage = "done" => registered \/ Coming

TrayInv == TrayTypeOK /\ AsFar /\ NameFirst /\ LastWord /\ IconComing

LEMMA Appended ==
    ASSUME NEW q \in Seq(Words), NEW x \in Words
    PROVE  /\ Append(q, x) \in Seq(Words) /\ Len(q) \in Nat /\ Len(Append(q, x)) = Len(q) + 1
           /\ Append(q, x)[Len(q) + 1] = x
           /\ \A i \in 1..Len(q) : Append(q, x)[i] = q[i]
    OBVIOUS

LEMMA Taken ==
    ASSUME NEW q \in Seq(Words), q # <<>>
    PROVE  /\ Len(q) \in Nat /\ Len(q) > 0 /\ Head(q) = q[1] /\ Head(q) \in Words
           /\ Tail(q) \in Seq(Words) /\ Len(Tail(q)) = Len(q) - 1
           /\ \A i \in 1..Len(Tail(q)) : Tail(q)[i] = q[i + 1]
    OBVIOUS

LEMMA TrayInitInv == ASSUME TrayInit PROVE TrayInv
<1>1. mail \in Seq(Words) /\ stage \in {"install", "seeded", "named", "done"}
    BY DEF TrayInit
<1>2. TrayTypeOK
    BY <1>1 DEF TrayInit, TrayTypeOK
<1>3. AsFar /\ NameFirst
    BY DEF TrayInit, AsFar, NameFirst
<1>4. LastWord /\ IconComing
    BY DEF TrayInit, LastWord, IconComing
<1>5. QED
    BY <1>2, <1>3, <1>4 DEF TrayInv

(* Steps that leave the bus and the panel alone. *)
LEMMA WindowKeeps ==
    ASSUME TrayInv, UNCHANGED <<watcher, owned, matched, mail, call, registered, stage, have_name, watcher_up>>
    PROVE  TrayInv'
    BY DEF TrayInv, TrayTypeOK, AsFar, NameFirst, LastWord, IconComing, Coming

LEMMA TrayStartsKeep == ASSUME TrayInv, Starts PROVE TrayInv'
<1>1. CASE Seed
  <2>1. TrayTypeOK'
      BY <1>1 DEF Seed, TrayInv, TrayTypeOK
  <2>2. AsFar' /\ NameFirst'
      BY <1>1 DEF Seed, TrayInv, AsFar, NameFirst
  <2>3. LastWord' /\ IconComing'
      BY <1>1 DEF Seed, TrayInv, AsFar, LastWord, IconComing
  <2>4. QED
      BY <2>1, <2>2, <2>3 DEF TrayInv
<1>2. CASE OwnName
  <2>1. /\ stage = "seeded" /\ stage' = "named" /\ owned' = TRUE /\ mail' = Append(mail, "acquired")
        /\ UNCHANGED <<watcher, matched, call, registered, have_name, watcher_up>>
      BY <1>2 DEF OwnName
  <2>2. Len(mail) = 0 /\ ~have_name /\ mail \in Seq(Words) /\ "acquired" \in Words
      BY <2>1 DEF TrayInv, AsFar, TrayTypeOK, Words
  <2>3. mail' \in Seq(Words) /\ Len(mail') = 1 /\ mail'[1] = "acquired"
      BY <2>1, <2>2, Appended
  <2>4. TrayTypeOK'
      BY <2>1, <2>3 DEF TrayInv, TrayTypeOK
  <2>5. AsFar' /\ NameFirst'
      BY <2>1, <2>2, <2>3 DEF TrayInv, AsFar, NameFirst
  <2>6. watcher_up <=> watcher
      BY <2>1, <2>2 DEF TrayInv, LastWord
  <2>7. LastWord' /\ IconComing'
      BY <2>1, <2>3, <2>6 DEF LastWord, IconComing
  <2>8. QED
      BY <2>4, <2>5, <2>7 DEF TrayInv
<1>3. CASE Subscribe
  <2>1. TrayTypeOK'
      BY <1>3 DEF Subscribe, TrayInv, TrayTypeOK
  <2>2. Len(mail) = 1 /\ mail[1] = "acquired" /\ ~have_name
      BY <1>3 DEF Subscribe, TrayInv, AsFar
  <2>3. AsFar' /\ NameFirst' /\ LastWord'
      BY <1>3, <2>2 DEF Subscribe, TrayInv, AsFar, NameFirst, LastWord
  <2>4. watcher_up <=> watcher
      BY <1>3, <2>2 DEF Subscribe, TrayInv, LastWord
  <2>5. IconComing'
      BY <1>3, <2>2, <2>4 DEF Subscribe, IconComing, Coming
  <2>6. QED
      BY <2>1, <2>3, <2>5 DEF TrayInv
<1>4. QED
    BY <1>1, <1>2, <1>3 DEF Starts

LEMMA RegisterKeeps == ASSUME TrayInv, Register PROVE TrayInv'
<1>1. TrayTypeOK'
    BY DEF Register, TrayInv, TrayTypeOK
<1>2. AsFar' /\ NameFirst' /\ LastWord'
    BY DEF Register, TrayInv, AsFar, NameFirst, LastWord
<1>3. IconComing'
    BY DEF Register, TrayInv, AsFar, IconComing, Coming
<1>4. QED
    BY <1>1, <1>2, <1>3 DEF TrayInv

LEMMA PanelKeeps == ASSUME TrayInv, ~EarlyPanel, Panel PROVE TrayInv'
<1>1. CASE stage = "install"
  <2>1. Len(mail) = 0 /\ ~matched /\ ~have_name
      BY <1>1 DEF TrayInv, AsFar
  <2>2. /\ watcher' = ~watcher /\ registered' = FALSE
        /\ UNCHANGED <<mail, owned, matched, call, stage, have_name, watcher_up>>
      BY <2>1 DEF Panel
  <2>3. TrayTypeOK'
      BY <2>1, <2>2 DEF TrayInv, TrayTypeOK
  <2>4. AsFar' /\ NameFirst' /\ LastWord' /\ IconComing'
      BY <1>1, <2>1, <2>2 DEF TrayInv, AsFar, NameFirst, LastWord, IconComing
  <2>5. QED
      BY <2>3, <2>4 DEF TrayInv
<1>2. CASE stage = "done"
  <2> DEFINE w == IF watcher THEN "gone" ELSE "appeared"
  <2>1. /\ mail' = Append(mail, w) /\ w \in Words /\ w # "acquired" /\ mail \in Seq(Words)
        /\ watcher' = ~watcher /\ registered' = FALSE
        /\ UNCHANGED <<owned, matched, call, stage, have_name, watcher_up>>
      BY <1>2 DEF Panel, TrayInv, TrayTypeOK, AsFar, Words
  <2>2. /\ Len(mail) \in Nat /\ Len(mail') = Len(mail) + 1 /\ mail' \in Seq(Words) /\ mail'[Len(mail) + 1] = w
        /\ \A i \in 1..Len(mail) : mail'[i] = mail[i] /\ i \in 1..Len(mail')
        /\ \A i \in 1..Len(mail') : i \in 1..Len(mail) \/ i = Len(mail) + 1
        /\ Len(mail) + 1 \in 1..Len(mail')
      BY <2>1, Appended
  <2>3. TrayTypeOK' /\ AsFar'
      BY <1>2, <2>1, <2>2 DEF TrayInv, TrayTypeOK, AsFar
  <2>4. NameFirst'
      BY <2>1, <2>2 DEF TrayInv, NameFirst
  <2>5. LastWord'
    <3>1. ASSUME NEW i \in 1..Len(mail'), \A j \in (i + 1)..Len(mail') : mail'[j] = "acquired"
          PROVE  i = Len(mail) + 1
        BY <3>1, <2>1, <2>2
    <3>2. w = "appeared" <=> watcher'
        BY <2>1
    <3>3. QED
        BY <2>1, <2>2, <3>1, <3>2 DEF LastWord
  <2>6. IconComing'
      BY <2>1, <2>2 DEF IconComing, Coming
  <2>7. QED
      BY <2>3, <2>4, <2>5, <2>6 DEF TrayInv
<1>3. QED
    BY <1>1, <1>2 DEF Panel

LEMMA HandleKeeps == ASSUME TrayInv, Handle PROVE TrayInv'
<1> DEFINE w == Head(mail)
<1>1. /\ stage = "done" /\ mail # <<>> /\ mail \in Seq(Words) /\ w \in Words /\ mail' = Tail(mail) /\ w = mail[1]
      /\ have_name' = (have_name \/ w = "acquired")
      /\ watcher_up' = (IF w = "appeared" THEN TRUE ELSE IF w = "gone" THEN FALSE ELSE watcher_up)
      /\ call' = (call \/ (w \in {"acquired", "appeared"} /\ have_name' /\ watcher_up'))
      /\ UNCHANGED <<watcher, owned, matched, registered, stage>>
  <2>1. mail \in Seq(Words)
      BY DEF TrayInv, TrayTypeOK
  <2>2. w \in Words /\ w = mail[1]
      BY <2>1, Taken DEF Handle
  <2>3. QED
      BY <2>1, <2>2 DEF Handle, AnnouncedOn, Announce
<1>2. /\ Len(mail) \in Nat /\ Len(mail) > 0 /\ Len(mail') = Len(mail) - 1 /\ mail' \in Seq(Words)
      /\ \A i \in 1..Len(mail') : mail'[i] = mail[i + 1] /\ i + 1 \in 1..Len(mail)
      /\ \A i \in 2..Len(mail) : mail'[i - 1] = mail[i] /\ i - 1 \in 1..Len(mail')
  <2>1. /\ Len(mail) \in Nat /\ Len(mail) > 0 /\ Len(mail') = Len(mail) - 1 /\ mail' \in Seq(Words)
        /\ \A i \in 1..Len(mail') : mail'[i] = mail[i + 1]
      BY <1>1, Taken
  <2>2. \A i \in 2..Len(mail) : i - 1 \in 1..Len(mail') /\ (i - 1) + 1 = i
      BY <2>1
  <2>3. QED
      BY <2>1, <2>2
<1>3. have_name \in BOOLEAN /\ watcher_up \in BOOLEAN
    BY DEF TrayInv, TrayTypeOK
<1>4. TrayTypeOK'
    BY <1>1, <1>2 DEF TrayInv, TrayTypeOK
<1>5. AsFar'
    BY <1>1 DEF TrayInv, AsFar
<1>6. have_name' /\ \A i \in 1..Len(mail') : mail'[i] # "acquired"
  <2>1. have_name'
      BY <1>1 DEF TrayInv, NameFirst
  <2>2. ASSUME NEW i \in 1..Len(mail')
        PROVE  mail'[i] # "acquired"
    <3>1. i + 1 # 1 /\ i + 1 \in 1..Len(mail) /\ mail'[i] = mail[i + 1]
        BY <1>2
    <3>2. QED
        BY <3>1 DEF TrayInv, NameFirst
  <2>3. QED
      BY <2>1, <2>2
<1>7. NameFirst'
    BY <1>6 DEF NameFirst
<1>8. LastWord'
  <2>1. ASSUME NEW i \in 1..Len(mail'), \A j \in (i + 1)..Len(mail') : mail'[j] = "acquired"
        PROVE  mail'[i] = "appeared" <=> watcher'
    <3>1. \A j \in (i + 2)..Len(mail) : j - 1 \in (i + 1)..Len(mail') /\ mail'[j - 1] = mail[j]
        BY <1>2
    <3>2. \A j \in ((i + 1) + 1)..Len(mail) : mail[j] = "acquired"
        BY <2>1, <3>1
    <3>3. mail[i + 1] # "acquired" /\ i + 1 \in 1..Len(mail) /\ mail'[i] = mail[i + 1]
        BY <1>2, <1>6
    <3>4. QED
        BY <1>1, <3>2, <3>3 DEF TrayInv, LastWord
  <2>2. ASSUME \A i \in 1..Len(mail') : mail'[i] = "acquired"
        PROVE  watcher_up' <=> watcher'
    <3>1. Len(mail) = 1
        BY <1>2, <1>6, <2>2
    <3>2. CASE w = "acquired"
      <4>1. \A i \in 1..Len(mail) : mail[i] = "acquired"
          BY <1>1, <3>1, <3>2
      <4>2. QED
          BY <1>1, <3>2, <4>1 DEF TrayInv, LastWord
    <3>3. CASE w # "acquired"
      <4>1. 1 \in 1..Len(mail) /\ \A j \in (1 + 1)..Len(mail) : mail[j] = "acquired"
          BY <3>1
      <4>2. mail[1] = "appeared" <=> watcher
          BY <1>1, <3>3, <4>1 DEF TrayInv, LastWord
      <4>3. QED
          BY <1>1, <3>3, <4>2 DEF Words, TrayInv, TrayTypeOK
    <3>4. QED
        BY <3>2, <3>3
  <2>3. QED
      BY <2>1, <2>2 DEF LastWord
<1>9. IconComing'
  <2> SUFFICES ASSUME watcher', ~registered', ~call'
               PROVE  \E i \in 1..Len(mail') : mail'[i] = "appeared"
      BY DEF IconComing, Coming
  <2>1. Coming
      BY <1>1 DEF TrayInv, IconComing
  <2>2. ~call /\ w # "appeared" /\ ~(w = "acquired" /\ watcher_up)
      BY <1>1, <1>3, <1>6
  <2>3. PICK i \in 1..Len(mail) : mail[i] = "appeared"
      BY <1>1, <2>1, <2>2 DEF Coming
  <2>4. i \in 2..Len(mail)
      BY <1>1, <1>2, <2>2, <2>3
  <2>5. QED
      BY <1>2, <2>3, <2>4
<1>10. QED
    BY <1>4, <1>5, <1>7, <1>8, <1>9 DEF TrayInv

LEMMA TrayStepKeeps == ASSUME TrayInv, ~EarlyPanel, [TrayNext]_trayVars PROVE TrayInv'
<1>1. CASE UNCHANGED trayVars \/ Close \/ Restore \/ \E by \in {"launch", "again", "icon"} : Activate(by)
    BY <1>1, WindowKeeps DEF trayVars, Close, Restore, Activate
<1>2. QED
    BY <1>1, TrayStartsKeep, HandleKeeps, RegisterKeeps, PanelKeeps DEF TrayNext

(* Once nothing is on its way, the hub knows whether a panel runs, and a panel *)
(* that runs has the icon, however often panels come and go.                 *)
THEOREM TrayIconIsThere ==
    ASSUME ~EarlyPanel
    PROVE  TraySpec => []IconIsThere
<1>1. TrayInv => IconIsThere
  <2> SUFFICES ASSUME TrayInv, Quiet
               PROVE  watcher_up = watcher /\ (watcher => registered)
      BY DEF IconIsThere
  <2>1. Len(mail) = 0 /\ stage = "done" /\ ~call
      BY DEF Quiet
  <2>2. watcher_up <=> watcher
      BY <2>1 DEF TrayInv, LastWord
  <2>3. watcher => registered
      BY <2>1 DEF TrayInv, IconComing, Coming
  <2>4. watcher_up \in BOOLEAN /\ watcher \in BOOLEAN
      BY DEF TrayInv, TrayTypeOK
  <2>5. QED
      BY <2>2, <2>3, <2>4
<1>2. QED
    BY <1>1, TrayInitInv, TrayStepKeeps, PTL DEF TraySpec

-----------------------------------------------------------------------------
(* WineFeed: the page a game reads. *)

Steps == {"off", "idle", "bind", "map", "mutex", "recv", "lock", "copying", "failed"}
Page == [id : Nat, rest : [yaw : Int, game : Nat, sent : BOOLEAN]]
Datagram == [magic : BOOLEAN, version : Nat, pose : BOOLEAN, yaw : Int]
WineTypeOK ==
    /\ port \subseteq PageWriters \cup {Other} /\ queue \subseteq Datagram
    /\ pc \in [PageWriters -> Steps] /\ ids \in [PageWriters -> Nat] /\ pend \in [PageWriters -> Page]
    /\ gameId \in [PageWriters -> Nat] /\ heap \in Page /\ cut \in BOOLEAN
    /\ told \in [Dlls -> [id : Nat, axis : Int, sent : BOOLEAN, held : BOOLEAN]]

(* One program has the port, and only who has it goes on to write.             *)
Feeding == {"recv", "lock", "copying"}
PortIsOnes ==
    /\ \A a, b \in port : a = b
    /\ \A p \in PageWriters : pc[p] \in Feeding => p \in port
    /\ \A d \in Dlls : pc[d] \in {"map", "mutex"} => d \in port

(* Who copies has the mutex, and a whole frame to copy.                        *)
IsWhole(pg) == pg.id \in 1 .. DataIdWrap - 1 /\ pg.rest.sent
Copying ==
    /\ owner = {p \in PageWriters : pc[p] = "copying"}
    /\ \A p \in PageWriters : pc[p] \in {"lock", "copying"} => IsWhole(pend[p])

(* Nobody holding the mutex and nobody having been ended in it, the page is    *)
(* empty or whole.                                                           *)
PageIsWhole == owner = {} /\ ~cut => heap = ZeroPage \/ IsWhole(heap)
ToldWhole == \A d \in Dlls : told[d].held => told[d].sent /\ told[d].id \in 1 .. DataIdWrap - 1

(* A feeder that has not been started is nowhere yet.                          *)
FeederIsOff ==
    /\ started \in [Dlls -> BOOLEAN]
    /\ \A d \in Dlls : ~started[d] => pc[d] = "off"

WineInv == FeederIsOff /\ WineTypeOK /\ PortIsOnes /\ Copying /\ PageIsWhole /\ ToldWhole

LEMMA ZeroIsAPage == ZeroPage \in Page
    BY DEF ZeroPage, Page

LEMMA NextIsAnId ==
    ASSUME WineAssumption, NEW i \in Nat
    PROVE  NextDataId(i) \in 1 .. DataIdWrap - 1
<1> DEFINE n == DataIdWrap - 1
<1>1. n \in Nat \ {0}
    BY DEF WineAssumption
<1> HIDE DEF n
<1>2. (i % n) + 1 \in 1 .. n
    BY <1>1
<1>3. QED
    BY <1>2 DEF NextDataId, n

LEMMA WineInitInv == ASSUME WineAssumption, WineInit PROVE WineInv
<1>1. WineTypeOK
  <2>1. port \subseteq PageWriters \cup {Other} /\ queue \subseteq Datagram /\ heap \in Page /\ cut \in BOOLEAN
      BY ZeroIsAPage DEF WineInit
  <2>2. /\ pc \in [PageWriters -> Steps] /\ ids \in [PageWriters -> Nat] /\ pend \in [PageWriters -> Page]
        /\ gameId \in [PageWriters -> Nat]
      BY ZeroIsAPage DEF WineInit, Steps
  <2>3. told \in [Dlls -> [id : Nat, axis : Int, sent : BOOLEAN, held : BOOLEAN]]
      BY DEF WineInit
  <2>4. QED
      BY <2>1, <2>2, <2>3 DEF WineTypeOK
<1>2. PortIsOnes
    BY DEF WineInit, PortIsOnes, Feeding, PageWriters
<1>3. Copying /\ PageIsWhole /\ ToldWhole
    BY DEF WineInit, Copying, PageIsWhole, ToldWhole
<1>4. FeederIsOff
    BY DEF WineInit, FeederIsOff, PageWriters
<1>5. QED
    BY <1>1, <1>2, <1>3, <1>4 DEF WineInv

(* Steps that leave the port, the page and what is copied alone. *)
LEMMA StillKeeps ==
    ASSUME WineInv, UNCHANGED <<port, ids, pend, owner, heap, cut, told>>, queue' \subseteq Datagram,
           gameId' \in [PageWriters -> Nat], UNCHANGED <<pc, started>>
    PROVE  WineInv'
    BY DEF WineInv, FeederIsOff, WineTypeOK, PortIsOnes, Copying, PageIsWhole, ToldWhole

(* A writer goes on, and neither comes to copy nor was copying. *)
LEMMA GoesOn ==
    ASSUME WineInv, NEW p \in PageWriters, NEW s \in Steps \ {"lock", "copying"}, pc[p] # "copying",
           pc' = [pc EXCEPT ![p] = s],
           s \in {"map", "mutex"} /\ p \in Dlls => p \in port', s \in Feeding => p \in port',
           ids' \in [PageWriters -> Nat], port' \subseteq PageWriters \cup {Other}, queue' \subseteq Datagram,
           \A a, b \in port' : a = b, \A q \in port \cap PageWriters : q # p => q \in port',
           heap' = heap \/ heap' = ZeroPage, UNCHANGED <<pend, owner, cut, told, gameId>>,
           started' \in [Dlls -> BOOLEAN], \A e \in Dlls : ~started'[e] => ~started[e] /\ e # p
    PROVE  WineInv'
<1>1. WineTypeOK'
    BY ZeroIsAPage DEF WineInv, WineTypeOK
<1>2. \A q \in PageWriters : pc'[q] = IF q = p THEN s ELSE pc[q]
    BY DEF WineInv, WineTypeOK
<1>3. PortIsOnes'
    BY <1>2 DEF WineInv, PortIsOnes, PageWriters
<1>4. Copying' /\ PageIsWhole' /\ ToldWhole'
    BY <1>2 DEF WineInv, Copying, PageIsWhole, ToldWhole
<1>5. FeederIsOff'
    BY <1>2 DEF WineInv, FeederIsOff, PageWriters
<1>6. QED
    BY <1>1, <1>3, <1>4, <1>5 DEF WineInv

(* What the steps of a writer rest on. *)
LEMMA Known ==
    ASSUME WineInv
    PROVE  /\ port \subseteq PageWriters \cup {Other} /\ \A a, b \in port : a = b
           /\ ids \in [PageWriters -> Nat] /\ queue \subseteq Datagram /\ gameId \in [PageWriters -> Nat]
           /\ started \in [Dlls -> BOOLEAN] /\ \A d \in Dlls : ~started[d] => pc[d] = "off"
           /\ \A p \in PageWriters : pc[p] \in Feeding => p \in port
           /\ \A d \in Dlls : pc[d] \in {"map", "mutex"} => d \in port
    BY DEF WineInv, WineTypeOK, PortIsOnes, FeederIsOff

LEMMA FeederKeeps ==
    ASSUME WineAssumption, WineInv, NEW d \in Dlls,
           FeederBinds(d) \/ FeederRetries(d) \/ CreateFails(d) \/ EnsureStarted(d) \/ OpensOnce(d)
    PROVE  WineInv'
<1>0. d \in PageWriters
    BY DEF PageWriters
<1>1. CASE FeederBinds(d)
    BY <1>0, <1>1, GoesOn, Known DEF FeederBinds, CanBind, Steps, Feeding
<1>2. CASE FeederRetries(d) \/ OpensOnce(d)
    BY <1>0, <1>2, StillKeeps, Known DEF FeederRetries, OpensOnce
<1>3. CASE CreateFails(d)
    BY <1>0, <1>3, GoesOn, Known DEF CreateFails, Steps, Feeding
<1>4. CASE EnsureStarted(d)
    BY <1>0, <1>4, GoesOn, Known DEF EnsureStarted, Steps, Feeding
<1>5. QED
    BY <1>1, <1>2, <1>3, <1>4

LEMMA CreateKeeps ==
    ASSUME WineAssumption, WineInv, NEW p \in PageWriters, CreatesMapping(p) \/ CreatesMutex(p)
    PROVE  WineInv'
<1>1. CASE CreatesMapping(p)
    BY <1>1, GoesOn, Known DEF CreatesMapping, Steps, Feeding
<1>2. CASE CreatesMutex(p)
  <2>1. p # Exe => p \in Dlls
      BY DEF PageWriters
  <2>2. CASE p = Exe
      BY <1>2, <2>2, GoesOn, Known DEF CreatesMutex, Steps, Feeding
  <2>3. CASE p # Exe
      BY <1>2, <2>1, <2>3, GoesOn, Known DEF CreatesMutex, Steps, Feeding
  <2>4. QED
      BY <2>2, <2>3
<1>3. QED
    BY <1>1, <1>2

(* A datagram that is accepted becomes a whole page. *)
LEMMA FrameIsWhole ==
    ASSUME WineAssumption, NEW d \in Datagram, NEW i \in Nat, NEW g \in Nat
    PROVE  /\ FtHeapBytes(Decode(d), NextDataId(i), g) \in Page
           /\ IsWhole(FtHeapBytes(Decode(d), NextDataId(i), g))
<1> DEFINE f == Decode(d)
           y == IF f = {} THEN 0 ELSE CHOOSE v \in f : TRUE
           n == NextDataId(i)
<1>1. y \in Int
  <2>1. f \subseteq Int
      BY DEF Decode, Datagram
  <2>2. QED
      BY <2>1
<1>2. n \in 1 .. DataIdWrap - 1 /\ n \in Nat
    BY NextIsAnId DEF WineAssumption
<1>3. FtHeapBytes(f, n, g) = [id |-> n, rest |-> [yaw |-> y, game |-> g, sent |-> TRUE]]
    BY DEF FtHeapBytes
<1> HIDE DEF f, y, n
<1>4. FtHeapBytes(f, n, g) \in Page /\ IsWhole(FtHeapBytes(f, n, g))
    BY <1>1, <1>2, <1>3 DEF Page, IsWhole
<1>5. QED
    BY <1>4 DEF f, n

LEMMA ReceivesKeeps ==
    ASSUME WineAssumption, WineInv, NEW p \in PageWriters, Receives(p)
    PROVE  WineInv'
<1>1. PICK d \in queue : IF Accepted(d)
         THEN /\ ids' = [ids EXCEPT ![p] = NextDataId(@)]
              /\ pend' = [pend EXCEPT ![p] = FtHeapBytes(Decode(d), NextDataId(ids[p]), gameId[p])]
              /\ pc' = [pc EXCEPT ![p] = "lock"]
         ELSE UNCHANGED <<ids, pend, pc>>
    BY DEF Receives
<1>2. queue' = {} /\ UNCHANGED <<port, owner, heap, cut, started, told, gameId>> /\ pc[p] = "recv"
    BY DEF Receives
<1>3. CASE ~Accepted(d)
    BY <1>1, <1>2, <1>3, StillKeeps, Known
<1>4. CASE Accepted(d)
  <2> DEFINE pg == FtHeapBytes(Decode(d), NextDataId(ids[p]), gameId[p])
             n == NextDataId(ids[p])
  <2>1. d \in Datagram /\ ids[p] \in Nat /\ gameId[p] \in Nat
      BY Known
  <2>2. pg \in Page /\ IsWhole(pg) /\ n \in Nat
      BY <2>1, FrameIsWhole, NextIsAnId DEF WineAssumption
  <2>3. ids' = [ids EXCEPT ![p] = n] /\ pend' = [pend EXCEPT ![p] = pg] /\ pc' = [pc EXCEPT ![p] = "lock"]
      BY <1>1, <1>4
  <2> HIDE DEF pg, n
  <2>4. \A q \in PageWriters : /\ pc'[q] = IF q = p THEN "lock" ELSE pc[q]
                               /\ pend'[q] = IF q = p THEN pg ELSE pend[q]
      BY <2>3 DEF WineInv, WineTypeOK
  <2>5. WineTypeOK'
      BY <1>2, <2>2, <2>3 DEF WineInv, WineTypeOK, Steps
  <2>6. PortIsOnes'
      BY <1>2, <2>4 DEF WineInv, PortIsOnes, Feeding, PageWriters
  <2>7. Copying' /\ PageIsWhole' /\ ToldWhole'
      BY <1>2, <2>2, <2>4 DEF WineInv, Copying, PageIsWhole, ToldWhole
  <2>8. FeederIsOff'
      BY <1>2, <2>4 DEF WineInv, FeederIsOff, PageWriters
  <2>9. QED
      BY <2>5, <2>6, <2>7, <2>8 DEF WineInv
<1>5. QED
    BY <1>3, <1>4

LEMMA CopiesFirstKeeps ==
    ASSUME WineInv, NEW p \in PageWriters, CopiesFirst(p)
    PROVE  WineInv'
<1>1. /\ pc[p] = "lock" /\ owner = {} /\ owner' = {p} /\ pc' = [pc EXCEPT ![p] = "copying"]
      /\ UNCHANGED <<port, queue, ids, pend, cut, started, told, gameId>>
    BY DEF CopiesFirst, TakesMutex
<1>2. heap' \in Page
  <2>1. heap \in Page /\ pend[p] \in Page
      BY DEF WineInv, WineTypeOK
  <2>2. heap' = [heap EXCEPT !.id = pend[p].id] \/ heap' = [heap EXCEPT !.rest = pend[p].rest]
      BY DEF CopiesFirst
  <2>3. QED
      BY <2>1, <2>2 DEF Page
<1>3. \A q \in PageWriters : pc'[q] = IF q = p THEN "copying" ELSE pc[q]
    BY <1>1 DEF WineInv, WineTypeOK
<1>4. WineTypeOK'
    BY <1>1, <1>2 DEF WineInv, WineTypeOK, Steps
<1>5. PortIsOnes'
    BY <1>1, <1>3 DEF WineInv, PortIsOnes, Feeding, PageWriters
<1>6. Copying' /\ PageIsWhole' /\ ToldWhole'
    BY <1>1, <1>3 DEF WineInv, Copying, PageIsWhole, ToldWhole
<1>7. FeederIsOff'
    BY <1>1, <1>3 DEF WineInv, FeederIsOff, PageWriters
<1>8. QED
    BY <1>4, <1>5, <1>6, <1>7 DEF WineInv

LEMMA CopiesRestKeeps ==
    ASSUME WineInv, NEW p \in PageWriters, CopiesRest(p)
    PROVE  WineInv'
<1>1. /\ pc[p] = "copying" /\ heap' = pend[p] /\ owner' = owner \ {p} /\ ~cut' /\ pc' = [pc EXCEPT ![p] = "recv"]
      /\ pend' = [pend EXCEPT ![p] = ZeroPage] /\ UNCHANGED <<port, queue, ids, started, told, gameId>>
    BY DEF CopiesRest
<1>2. cut' \in BOOLEAN
    BY DEF CopiesRest
<1>3. \A q \in PageWriters : /\ pc'[q] = IF q = p THEN "recv" ELSE pc[q]
                             /\ pend'[q] = IF q = p THEN ZeroPage ELSE pend[q]
    BY <1>1 DEF WineInv, WineTypeOK
<1>4. WineTypeOK'
    BY <1>1, <1>2, ZeroIsAPage DEF WineInv, WineTypeOK, Steps
<1>5. PortIsOnes'
    BY <1>1, <1>3 DEF WineInv, PortIsOnes, Feeding, PageWriters
<1>6. Copying' /\ PageIsWhole' /\ ToldWhole'
    BY <1>1, <1>3 DEF WineInv, Copying, PageIsWhole, ToldWhole
<1>7. FeederIsOff'
    BY <1>1, <1>3 DEF WineInv, FeederIsOff, PageWriters
<1>8. QED
    BY <1>4, <1>5, <1>6, <1>7 DEF WineInv

LEMMA PollsKeeps ==
    ASSUME WineInv, NEW d \in Dlls, Polls(d)
    PROVE  WineInv'
<1>1. PICK c \in Consumer(d) :
         told' = [told EXCEPT ![d] = [id |-> heap.id, axis |-> FromFtHeap(heap), sent |-> heap.rest.sent,
                                      held |-> c.mutex /\ owner = {} /\ ~cut]]
    BY DEF Polls
<1>2. heap.id # 0 /\ UNCHANGED <<port, queue, pc, ids, pend, owner, heap, cut, started, gameId>>
    BY DEF Polls
<1>3. heap \in Page /\ told \in [Dlls -> [id : Nat, axis : Int, sent : BOOLEAN, held : BOOLEAN]]
    BY DEF WineInv, WineTypeOK
<1> DEFINE h == c.mutex /\ owner = {} /\ ~cut
           axis == FromFtHeap(heap)
<1>4. axis \in Int
    BY <1>3 DEF Page, FromFtHeap, ClampAxis
<1>5. h \in BOOLEAN /\ (h => IsWhole(heap))
  <2>1. owner = {} /\ ~cut => heap = ZeroPage \/ IsWhole(heap)
      BY DEF WineInv, PageIsWhole
  <2>2. QED
      BY <1>2, <2>1 DEF ZeroPage
<1>6. told' = [told EXCEPT ![d] = [id |-> heap.id, axis |-> axis, sent |-> heap.rest.sent, held |-> h]]
    BY <1>1
<1> HIDE DEF h, axis
<1>7. told' \in [Dlls -> [id : Nat, axis : Int, sent : BOOLEAN, held : BOOLEAN]]
    BY <1>3, <1>4, <1>5, <1>6 DEF Page
<1>8. ToldWhole'
  <2>1. SUFFICES ASSUME NEW e \in Dlls, told'[e].held
                 PROVE  told'[e].sent /\ told'[e].id \in 1 .. DataIdWrap - 1
      BY DEF ToldWhole
  <2>2. CASE e = d
      BY <1>3, <1>5, <1>6, <2>1, <2>2 DEF IsWhole
  <2>3. CASE e # d
      BY <1>3, <1>6, <2>1, <2>3 DEF WineInv, ToldWhole
  <2>4. QED
      BY <2>2, <2>3
<1>9. QED
    BY <1>2, <1>7, <1>8 DEF WineInv, FeederIsOff, WineTypeOK, PortIsOnes, Copying, PageIsWhole

(* The exe's handles closed, and the exe no writer any more. *)
LEMMA ClosedKeeps ==
    ASSUME WineAssumption, WineInv, NEW s \in {"idle", "off"}, Closed(Exe), pc' = [pc EXCEPT ![Exe] = s],
           UNCHANGED <<started, told, gameId>>
    PROVE  WineInv'
<1>0. Exe \in PageWriters
    BY DEF PageWriters
<1>1. /\ owner' = owner \ {Exe} /\ port' = port \ {Exe}
      /\ ids' = [ids EXCEPT ![Exe] = 0] /\ pend' = [pend EXCEPT ![Exe] = ZeroPage]
    BY DEF Closed
<1>2. /\ queue' = {} \/ queue' = queue
      /\ heap' = ZeroPage \/ (heap' = heap /\ maps' # {})
      /\ cut' = ((cut \/ (Exe \in owner /\ pc[Exe] = "copying")) /\ maps' # {})
    BY DEF Closed
<1>3. \A q \in PageWriters : /\ pc'[q] = IF q = Exe THEN s ELSE pc[q]
                             /\ pend'[q] = IF q = Exe THEN ZeroPage ELSE pend[q]
    BY <1>0, <1>1 DEF WineInv, WineTypeOK
<1>4. WineTypeOK'
  <2>1. queue' \subseteq Datagram /\ heap' \in Page /\ cut' \in BOOLEAN
      BY <1>2, ZeroIsAPage DEF WineInv, WineTypeOK
  <2>2. QED
      BY <1>0, <1>1, <2>1, ZeroIsAPage DEF WineInv, WineTypeOK, Steps
<1>5. PortIsOnes'
    BY <1>1, <1>3 DEF WineInv, PortIsOnes, Feeding, PageWriters
<1>6. Copying' /\ ToldWhole'
    BY <1>1, <1>3 DEF WineInv, Copying, ToldWhole
<1>7. PageIsWhole'
    BY <1>0, <1>1, <1>2 DEF WineInv, Copying, PageIsWhole
<1>8. FeederIsOff'
    BY <1>3 DEF WineAssumption, WineInv, FeederIsOff, PageWriters
<1>9. QED
    BY <1>4, <1>5, <1>6, <1>7, <1>8 DEF WineInv

LEMMA ExeKeeps ==
    ASSUME WineAssumption, WineInv, ExeStarts \/ OpenFails \/ ExeBinds \/ ExeEnds
    PROVE  WineInv'
<1>0. Exe \in PageWriters
    BY DEF PageWriters
<1>1. CASE ExeStarts
    BY <1>0, <1>1, GoesOn, Known DEF ExeStarts, Steps, Feeding, WineAssumption
<1>2. CASE OpenFails
    BY <1>2, ClosedKeeps DEF OpenFails
<1>3. CASE ExeBinds
    BY <1>0, <1>3, GoesOn, Known DEF ExeBinds, CanBind, Steps, Feeding, WineAssumption
<1>4. CASE ExeEnds
    BY <1>4, ClosedKeeps DEF ExeEnds
<1>5. QED
    BY <1>1, <1>2, <1>3, <1>4

LEMMA EncodedIsADatagram ==
    ASSUME WineAssumption, NEW f \in SUBSET Yaws
    PROVE  Encode(f) \in Datagram
<1>1. (IF f = {} THEN 0 ELSE CHOOSE y \in f : TRUE) \in Int
  <2>1. CASE f = {}
      BY <2>1
  <2>2. CASE f # {}
    <3>1. (CHOOSE y \in f : TRUE) \in f
        BY <2>2
    <3>2. QED
        BY <2>2, <3>1 DEF WineAssumption
  <2>3. QED
      BY <2>1, <2>2
<1>2. QED
    BY <1>1 DEF Encode, Datagram

LEMMA WorldKeeps ==
    ASSUME WineAssumption, WineInv,
           (\E y \in Yaws : Sends(y)) \/ Stray \/ OtherLeaves \/ OtherReads \/ RegistersProfile
    PROVE  WineInv'
<1>1. CASE \E y \in Yaws : Sends(y)
    BY <1>1, EncodedIsADatagram, StillKeeps, Known DEF Sends
<1>2. CASE Stray
  <2>1. Foreign \in Datagram /\ Newer \in Datagram /\ Encode({}) \in Datagram
      BY EncodedIsADatagram DEF Foreign, Newer, Datagram
  <2>2. QED
      BY <1>2, <2>1, StillKeeps, Known DEF Stray
<1>3. CASE OtherReads
    BY <1>3, StillKeeps, Known DEF OtherReads
<1>4. CASE RegistersProfile
    BY <1>4, StillKeeps, Known DEF RegistersProfile
<1>5. CASE OtherLeaves
  <2>1. port = {Other} /\ Other \notin Dlls /\ Other # Exe
      BY <1>5, Known DEF OtherLeaves, WineAssumption, Other, Exe
  <2>2. port' = {} /\ queue' = {} /\ UNCHANGED <<pc, ids, pend, owner, heap, cut, started, told, gameId>>
      BY <1>5 DEF OtherLeaves
  <2>3. QED
      BY <2>1, <2>2 DEF WineInv, FeederIsOff, WineTypeOK, PortIsOnes, Copying, PageIsWhole, ToldWhole, PageWriters
<1>6. QED
    BY <1>1, <1>2, <1>3, <1>4, <1>5

LEMMA WineStep ==
    ASSUME WineAssumption, WineInv, [WineNext]_wineVars
    PROVE  WineInv'
<1>1. CASE UNCHANGED wineVars
    BY <1>1, StillKeeps, Known DEF wineVars
<1>2. CASE WineNext
    BY <1>2, FeederKeeps, PollsKeeps, CreateKeeps, ReceivesKeeps, CopiesFirstKeeps, CopiesRestKeeps,
       ExeKeeps, WorldKeeps DEF WineNext
<1>3. QED
    BY <1>1, <1>2

(* Who has the port is alone, so nobody else is at the mutex or the page. *)
LEMMA OneWriter ==
    ASSUME WineInv
    PROVE  Cardinality({p \in PageWriters : pc[p] \in {"lock", "copying"}}) <= 1
<1> DEFINE W == {p \in PageWriters : pc[p] \in {"lock", "copying"}}
<1>1. \A a, b \in W : a = b
    BY DEF WineInv, PortIsOnes, Feeding
<1>2. CASE W = {}
    BY <1>2, FS_EmptySet
<1>3. CASE W # {}
  <2>1. PICK a \in W : TRUE
      BY <1>3
  <2>2. W = {a}
      BY <1>1, <2>1
  <2>3. Cardinality({a}) = 1
      BY FS_Singleton
  <2>4. QED
      BY <2>2, <2>3
<1>4. QED
    BY <1>2, <1>3

(* However many DLLs and feeders a game has, whoever holds the port and        *)
(* whichever of the writers is ended in the middle of a copy: what a game     *)
(* reads with the mutex held is a frame the hub has sent, whole, under an id  *)
(* that is not the empty page's; and there is never a second writer.          *)
THEOREM WineWhole == ASSUME WineAssumption PROVE WineSpec => []Whole
<1>1. WineInit => WineInv
    BY WineInitInv
<1>2. WineInv /\ [WineNext]_wineVars => WineInv'
    BY WineStep
<1>3. WineInv => Whole
    BY OneWriter DEF Whole, WineInv, ToldWhole
<1>4. QED
    BY <1>1, <1>2, <1>3, PTL DEF WineSpec

-----------------------------------------------------------------------------
(* Bridge: the Wine prefix. *)

KeyValues == {"absent", Ours, Theirs, Another}
Targets == {Ours, Theirs}
Ops == [cmd : {"none", "install", "uninstall", "status"},
        step : {"end", "read", "provider", "ft", "stamp", "setft", "setnp", "record", "undo", "undoft",
                "undonp", "rmdir", "keys", "dir", "said"},
        want : [Keys -> Targets], force : BOOLEAN, built : SUBSET {"ft", "provider"},
        rec : [Keys -> Targets \cup {"none"}], landed : SUBSET Keys, failed : BOOLEAN, copied : BOOLEAN,
        refused : BOOLEAN, keys : SUBSET [Keys -> KeyValues], said : {"none", "uninstall", "force", "install"}]
BridgeTypeOK ==
    /\ reg \in [Keys -> KeyValues] /\ regFile \in [Keys -> KeyValues] \cup {NoReg}
    /\ noted \in [Keys -> Targets \cup {"none"}]
    /\ folder \in [provider : {"none", "old", "new"}, ft : BOOLEAN, stamp : BOOLEAN]
    /\ op \in Ops

(* With no wineserver, user.reg is the registry.                               *)
FileIsTrue == ~serving => regFile \in {reg, NoReg}

(* What is noted, or about to be, this program has put in the key itself.      *)
NotedIsGiven ==
    \A k \in Keys :
        /\ noted[k] = Theirs => <<k, Theirs>> \in given
        /\ op.rec[k] = Theirs => <<k, Theirs>> \in given
        /\ k \in op.landed /\ op.want[k] = Theirs => <<k, Theirs>> \in given

(* From its decision to its write, an install's key holds what it decided on.  *)
Decided ==
    op.cmd = "install" /\ ~op.force =>
        \A k \in Keys : UnderDecision(k) => ~StopsInstall(reg[k], op.rec[k], op.want[k])

(* The client is in the directory before a key points there, and no key does   *)
(* when the directory is to go.                                              *)
FilesFirst ==
    /\ op.cmd = "install" /\ op.step \in {"read", "provider", "ft"} => "ft" \in op.built
    /\ op.cmd = "install" /\ op.step \in {"stamp", "setft", "setnp"} => folder.ft
    /\ op.cmd = "uninstall" /\ op.step \in {"undonp", "rmdir"} /\ ~op.failed => reg["ft"] # Ours
    /\ op.cmd = "uninstall" /\ op.step = "rmdir" /\ ~op.failed => reg["np"] # Ours
    /\ NoKeyDangles

(* The stamp stands beside a provider of its own version.                      *)
Launchable ==
    /\ folder.stamp => folder.provider # "old"
    /\ op.copied => folder.provider = "new"
    /\ NeverHung

(* A report knows what it says nothing of.                                     *)
Reported ==
    op.cmd = "status" =>
        /\ ~op.refused /\ op.rec \in {noted, NoReg}
        /\ op.step = "said" /\ op.said # "uninstall" =>
              /\ folder = NoFolder /\ noted = NoReg
              /\ \A k \in Keys, r \in op.keys : ~IsOurs(r[k], op.rec[k])
              /\ op.said = IF InTheWay(op) # {} THEN "force" ELSE "install"

BridgeInv == BridgeTypeOK /\ FileIsTrue /\ NotedIsGiven /\ Decided /\ FilesFirst /\ Launchable /\ Reported

LEMMA NoOpIsAnOp == NoOp \in Ops
    BY DEF NoOp, Ops, Keys, Targets

LEMMA BridgeInitInv == ASSUME BridgeInit PROVE BridgeInv
<1>1. BridgeTypeOK
  <2>1. reg \in [Keys -> KeyValues] /\ regFile \in [Keys -> KeyValues] \cup {NoReg}
      BY DEF BridgeInit, KeyValues, Keys
  <2>2. noted \in [Keys -> Targets \cup {"none"}]
      BY DEF BridgeInit, NoReg
  <2>3. folder \in [provider : {"none", "old", "new"}, ft : BOOLEAN, stamp : BOOLEAN]
    <3>1. folder = NoFolder \/ folder = [provider |-> "old", ft |-> TRUE, stamp |-> FALSE]
        BY DEF BridgeInit
    <3>2. NoFolder \in [provider : {"none", "old", "new"}, ft : BOOLEAN, stamp : BOOLEAN]
        BY DEF NoFolder
    <3>3. [provider |-> "old", ft |-> TRUE, stamp |-> FALSE]
              \in [provider : {"none", "old", "new"}, ft : BOOLEAN, stamp : BOOLEAN]
        OBVIOUS
    <3>4. QED
        BY <3>1, <3>2, <3>3
  <2>4. QED
      BY <2>1, <2>2, <2>3, NoOpIsAnOp DEF BridgeInit, BridgeTypeOK
<1>2. FileIsTrue
    BY DEF BridgeInit, FileIsTrue
<1>3. NotedIsGiven
    BY DEF BridgeInit, NotedIsGiven, NoOp, NoReg, Theirs
<1>4. Decided /\ Reported
    BY DEF BridgeInit, Decided, Reported, NoOp
<1>5. FilesFirst
    BY DEF BridgeInit, FilesFirst, NoOp, NoKeyDangles, Ours, Theirs, Keys
<1>6. Launchable
    BY DEF BridgeInit, Launchable, NoOp, NoFolder, NeverHung
<1>7. QED
    BY <1>1, <1>2, <1>3, <1>4, <1>5, <1>6 DEF BridgeInv

(* A step of no command that leaves keys, directory and notes alone. *)
LEMMA QuietKeeps ==
    ASSUME BridgeInv, UNCHANGED <<reg, folder, noted, op, given>>, regFile' \in {reg, regFile},
           ~serving' => regFile' \in {reg, NoReg}, launch' # "hung"
    PROVE  BridgeInv'
<1>1. BridgeTypeOK' /\ FileIsTrue'
    BY DEF BridgeInv, BridgeTypeOK, FileIsTrue
<1>2. NotedIsGiven' /\ Decided' /\ FilesFirst'
    BY DEF BridgeInv, NotedIsGiven, Decided, FilesFirst, NoKeyDangles, UnderDecision, At, StopsInstall
<1>3. Launchable' /\ Reported'
    BY DEF BridgeInv, Launchable, NeverHung, Reported, InTheWay, StopsInstall
<1>4. QED
    BY <1>1, <1>2, <1>3 DEF BridgeInv

LEMMA OthersKeep ==
    ASSUME BridgeInv,
           \/ VisitorLeaves \/ ServerExits \/ BridgeRun \/ BridgeYields \/ BridgeEnds \/ BridgeStops
           \/ LaunchStart \/ LaunchGoes \/ LaunchEnds \/ UNCHANGED bridgeVars
    PROVE  BridgeInv'
<1>0. FileIsTrue /\ launch # "hung" /\ (folder.stamp => folder.provider # "old")
    BY DEF BridgeInv, Launchable, NeverHung
<1>1. CASE VisitorLeaves \/ ServerExits \/ BridgeRun
    BY <1>0, <1>1, QuietKeeps DEF FileIsTrue, VisitorLeaves, ServerExits, BridgeRun
<1>2. CASE BridgeYields \/ BridgeEnds \/ BridgeStops
    BY <1>0, <1>2, QuietKeeps DEF FileIsTrue, BridgeYields, BridgeEnds, BridgeStops, prefixVars
<1>3. CASE LaunchStart \/ LaunchGoes \/ LaunchEnds
    BY <1>0, <1>3, QuietKeeps DEF FileIsTrue, LaunchStart, LaunchGoes, LaunchEnds, Wrapped, prefixVars
<1>4. CASE UNCHANGED bridgeVars
    BY <1>0, <1>4, QuietKeeps DEF FileIsTrue, bridgeVars, prefixVars
<1>5. QED
    BY <1>1, <1>2, <1>3, <1>4

(* The end of a command, and what it may note as it ends. *)
LEMMA EndKeeps ==
    ASSUME BridgeInv, op' = NoOp, UNCHANGED <<reg, regFile, folder, given, launch>>,
           serving' \in {serving, TRUE}, noted' \in [Keys -> Targets \cup {"none"}],
           \A k \in Keys : noted'[k] = Theirs => <<k, Theirs>> \in given
    PROVE  BridgeInv'
<1>1. BridgeTypeOK' /\ FileIsTrue'
    BY NoOpIsAnOp DEF BridgeInv, BridgeTypeOK, FileIsTrue
<1>2. NotedIsGiven' /\ Decided' /\ FilesFirst'
    BY DEF BridgeInv, NotedIsGiven, Decided, FilesFirst, NoKeyDangles, NoOp, Theirs
<1>3. Launchable' /\ Reported'
    BY DEF BridgeInv, Launchable, NeverHung, Reported, NoOp
<1>4. QED
    BY <1>1, <1>2, <1>3 DEF BridgeInv

(* A command begins: what is known of it then. *)
LEMMA StartKeeps ==
    ASSUME BridgeInv, UNCHANGED <<prefixVars, given, launch>>, op' \in Ops,
           op'.rec \in {noted, NoReg}, op'.landed = {}, ~op'.copied, ~op'.refused,
           \/ op'.cmd = "install" /\ op'.step = "read" /\ "ft" \in op'.built
           \/ op'.cmd = "uninstall" /\ op'.step = "undo"
           \/ op'.cmd = "status" /\ op'.step = "record"
    PROVE  BridgeInv'
<1>1. BridgeTypeOK' /\ FileIsTrue'
    BY DEF BridgeInv, BridgeTypeOK, FileIsTrue, prefixVars
<1>2. NotedIsGiven'
    BY DEF BridgeInv, NotedIsGiven, prefixVars, NoReg, Theirs
<1>3. Decided' /\ FilesFirst'
    BY DEF BridgeInv, Decided, FilesFirst, NoKeyDangles, UnderDecision, At, prefixVars
<1>4. Launchable' /\ Reported'
    BY DEF BridgeInv, Launchable, NeverHung, Reported, prefixVars
<1>5. QED
    BY <1>1, <1>2, <1>3, <1>4 DEF BridgeInv

LEMMA StartsKeep ==
    ASSUME BridgeInv,
           \/ \E np \in {NpTarget(e, i) : e \in {"ours", "auto"}, i \in BOOLEAN}, force, steam \in BOOLEAN,
                 built \in {{"ft"}, {"ft", "provider"}}, wine \in Wines : Install(np, force, built, steam, wine)
           \/ UninstallBridge
           \/ \E np \in {Ours, Theirs}, steam \in BOOLEAN, wine \in Wines : Status(np, steam, wine)
    PROVE  BridgeInv'
<1>0. noted \in [Keys -> Targets \cup {"none"}]
    BY DEF BridgeInv, BridgeTypeOK
<1>1. \A np \in Targets : WantFor(np) \in [Keys -> Targets]
    BY DEF WantFor, Targets
<1>2. ASSUME NEW np \in Targets, NEW force \in BOOLEAN, NEW steam \in BOOLEAN, NEW wine \in Wines,
             NEW built \in {{"ft"}, {"ft", "provider"}}, Install(np, force, built, steam, wine)
      PROVE  BridgeInv'
  <2>1. /\ op' = [NoOp EXCEPT !.cmd = "install", !.step = "read", !.want = WantFor(np),
                              !.force = force, !.built = built, !.rec = noted]
        /\ UNCHANGED <<prefixVars, given, launch>> /\ "ft" \in built
      BY <1>2 DEF Install
  <2>2. op' \in Ops /\ op'.rec = noted /\ op'.landed = {} /\ ~op'.copied /\ ~op'.refused
        /\ op'.cmd = "install" /\ op'.step = "read" /\ "ft" \in op'.built
      BY <1>0, <1>1, <2>1 DEF NoOp, Ops
  <2>3. QED
      BY <2>1, <2>2, StartKeeps
<1>3. CASE UninstallBridge
  <2>1. /\ op' = [NoOp EXCEPT !.cmd = "uninstall", !.step = "undo", !.rec = noted]
        /\ UNCHANGED <<prefixVars, given, launch>>
      BY <1>3 DEF UninstallBridge
  <2>2. op' \in Ops /\ op'.rec = noted /\ op'.landed = {} /\ ~op'.copied /\ ~op'.refused
        /\ op'.cmd = "uninstall" /\ op'.step = "undo"
      BY <1>0, <2>1, NoOpIsAnOp DEF NoOp, Ops
  <2>3. QED
      BY <2>1, <2>2, StartKeeps
<1>4. ASSUME NEW np \in Targets, NEW steam \in BOOLEAN, NEW wine \in Wines, Status(np, steam, wine)
      PROVE  BridgeInv'
  <2>1. SteamWineRefused(steam, AdvisedWine(steam, wine), FALSE) = FALSE
      BY DEF SteamWineRefused, AdvisedWine
  <2>2. /\ op' = [NoOp EXCEPT !.cmd = "status", !.step = "record", !.want = WantFor(np), !.refused = FALSE]
        /\ UNCHANGED <<prefixVars, given, launch>>
      BY <1>4, <2>1 DEF Status
  <2>3. op' \in Ops /\ op'.rec = NoReg /\ op'.landed = {} /\ ~op'.copied /\ ~op'.refused
        /\ op'.cmd = "status" /\ op'.step = "record"
      BY <1>1, <2>2, NoOpIsAnOp DEF NoOp, Ops, NoReg
  <2>4. QED
      BY <2>2, <2>3, StartKeeps
<1>5. \A e \in {"ours", "auto"}, i \in BOOLEAN : NpTarget(e, i) \in Targets
    BY DEF NpTarget, Targets
<1>6. QED
    BY <1>2, <1>3, <1>4, <1>5 DEF Targets

(* install's reading of the keys, whichever way. *)
LEMMA JudgeKeeps ==
    ASSUME BridgeInv, InstallReadFile \/ InstallReadWine
    PROVE  BridgeInv'
<1>1. /\ At("install", "read") /\ op' \in {Judge(op, reg), NoOp}
      /\ UNCHANGED <<reg, regFile, folder, noted, given, launch>> /\ serving' \in {serving, TRUE}
  <2>1. CASE InstallReadFile
      BY <2>1 DEF BridgeInv, FileIsTrue, InstallReadFile, SettledKeys, LockFree, prefixVars
  <2>2. CASE InstallReadWine
      BY <2>2 DEF InstallReadWine
  <2>3. QED
      BY <2>1, <2>2
<1>2. CASE op' = NoOp
    BY <1>1, <1>2, EndKeeps DEF BridgeInv, BridgeTypeOK, NotedIsGiven
<1>3. CASE op' # NoOp
  <2>1. op' = [op EXCEPT !.step = "provider"]
        /\ (~op.force => \A k \in Keys : ~StopsInstall(reg[k], op.rec[k], op.want[k]))
      BY <1>1, <1>3 DEF Judge
  <2>2. op \in Ops /\ op.cmd = "install" /\ op.step = "read"
      BY <1>1 DEF At, BridgeInv, BridgeTypeOK
  <2>3. op' \in Ops /\ op'.step = "provider" /\ op'.cmd = "install" /\ op'.force = op.force /\ op'.rec = op.rec
        /\ op'.want = op.want /\ op'.built = op.built /\ op'.landed = op.landed /\ op'.copied = op.copied
      BY <2>1, <2>2 DEF Ops
  <2>4. BridgeTypeOK' /\ FileIsTrue'
    <3>1. BridgeTypeOK'
        BY <1>1, <2>3 DEF BridgeInv, BridgeTypeOK
    <3>2. ~serving' => ~serving
        BY <1>1
    <3>3. FileIsTrue
        BY DEF BridgeInv
    <3>4. FileIsTrue'
        BY <1>1, <3>2, <3>3 DEF FileIsTrue
    <3>5. QED
        BY <3>1, <3>4
  <2>5. NotedIsGiven'
      BY <1>1, <2>3 DEF BridgeInv, NotedIsGiven
  <2>6. Decided'
      BY <1>1, <2>1, <2>3 DEF BridgeInv, Decided
  <2>7. FilesFirst' /\ Launchable' /\ Reported'
      BY <1>1, <2>2, <2>3 DEF BridgeInv, FilesFirst, NoKeyDangles, Launchable, NeverHung, Reported
  <2>8. QED
      BY <2>4, <2>5, <2>6, <2>7 DEF BridgeInv
<1>4. QED
    BY <1>2, <1>3

LEMMA CopyKeeps ==
    ASSUME BridgeInv, NEW a \in {"provider", "ft"}, CopyArtifact(a)
    PROVE  BridgeInv'
<1>0. /\ op \in Ops /\ op.cmd = "install" /\ op.step = a /\ "ft" \in op.built
      /\ UNCHANGED <<reg, regFile, serving, noted, given, launch>>
    BY DEF CopyArtifact, At, BridgeInv, BridgeTypeOK, FilesFirst
<1>1. CASE OpEnds /\ UNCHANGED folder
    BY <1>0, <1>1, EndKeeps DEF OpEnds, BridgeInv, BridgeTypeOK, NotedIsGiven
<1>2. CASE ~(OpEnds /\ UNCHANGED folder)
  <2>1. \/ /\ a \in op.built /\ folder' = [folder EXCEPT ![a] = IF a = "provider" THEN "new" ELSE TRUE]
           /\ op' = [op EXCEPT !.step = NextArtifact(a), !.copied = op.copied \/ a = "provider"]
        \/ a \notin op.built /\ folder' = folder /\ op' = [op EXCEPT !.step = NextArtifact(a)]
      BY <1>2 DEF CopyArtifact, Leaves
  <2>2. NextArtifact(a) = IF a = "provider" THEN "ft" ELSE "stamp"
      BY DEF NextArtifact
  <2>3. /\ op'.cmd = "install" /\ op'.step = NextArtifact(a) /\ op' \in Ops /\ UNCHANGED op.force
        /\ UNCHANGED <<op.rec, op.want, op.built, op.landed>>
        /\ (op'.copied => op.copied \/ (a = "provider" /\ a \in op.built))
    <3>1. CASE a \in op.built /\ op' = [op EXCEPT !.step = NextArtifact(a), !.copied = op.copied \/ a = "provider"]
      <4>1. op' \in Ops
          BY <1>0, <2>2, <3>1 DEF Ops
      <4>2. QED
          BY <1>0, <3>1, <4>1 DEF Ops
    <3>2. CASE op' = [op EXCEPT !.step = NextArtifact(a)]
      <4>1. op' \in Ops
          BY <1>0, <2>2, <3>2 DEF Ops
      <4>2. QED
          BY <1>0, <3>2, <4>1 DEF Ops
    <3>3. QED
        BY <2>1, <3>1, <3>2
  <2>4. /\ folder' \in [provider : {"none", "old", "new"}, ft : BOOLEAN, stamp : BOOLEAN]
        /\ (a = "provider" /\ a \in op.built => folder'.provider = "new") /\ (a = "ft" => folder'.ft)
        /\ (a # "ft" => folder'.ft = folder.ft) /\ (folder'.provider \in {"new", folder.provider})
        /\ folder'.stamp = folder.stamp
      BY <1>0, <2>1 DEF BridgeInv, BridgeTypeOK
  <2>5. BridgeTypeOK' /\ FileIsTrue'
      BY <1>0, <2>3, <2>4 DEF BridgeInv, BridgeTypeOK, FileIsTrue
  <2>6. NotedIsGiven'
      BY <1>0, <2>3 DEF BridgeInv, NotedIsGiven
  <2>7. Decided'
      BY <1>0, <2>2, <2>3 DEF BridgeInv, Decided, UnderDecision, At, StopsInstall
  <2>8. FilesFirst'
      BY <1>0, <2>2, <2>3, <2>4 DEF BridgeInv, FilesFirst, NoKeyDangles
  <2>9. Launchable' /\ Reported'
      BY <1>0, <2>3, <2>4 DEF BridgeInv, Launchable, NeverHung, Reported
  <2>10. QED
      BY <2>5, <2>6, <2>7, <2>8, <2>9 DEF BridgeInv
<1>3. QED
    BY <1>1, <1>2

LEMMA StampKeeps ==
    ASSUME BridgeInv, Stamp
    PROVE  BridgeInv'
<1>0. /\ op \in Ops /\ op.cmd = "install" /\ op.step = "stamp" /\ folder.ft
      /\ UNCHANGED <<reg, regFile, serving, noted, given, launch>>
    BY DEF Stamp, At, BridgeInv, BridgeTypeOK, FilesFirst
<1>1. op' = [op EXCEPT !.step = "setft", !.built = {}, !.copied = FALSE]
    BY DEF Stamp
<1>2. /\ op'.cmd = "install" /\ op'.step = "setft" /\ op' \in Ops /\ UNCHANGED <<op.force, op.rec, op.want, op.landed>>
      /\ ~op'.copied
    BY <1>0, <1>1 DEF Ops
<1>3. /\ folder' \in [provider : {"none", "old", "new"}, ft : BOOLEAN, stamp : BOOLEAN]
      /\ UNCHANGED <<folder.ft, folder.provider>> /\ (folder'.stamp => folder.stamp \/ op.copied)
  <2>1. folder' = folder \/ folder' = [folder EXCEPT !.stamp = folder.stamp \/ op.copied]
      BY DEF Stamp
  <2>2. op.copied \in BOOLEAN /\ folder.stamp \in BOOLEAN
        /\ folder \in [provider : {"none", "old", "new"}, ft : BOOLEAN, stamp : BOOLEAN]
      BY <1>0 DEF Ops, BridgeInv, BridgeTypeOK
  <2>3. QED
      BY <2>1, <2>2
<1>4. BridgeTypeOK' /\ FileIsTrue'
    BY <1>0, <1>2, <1>3 DEF BridgeInv, BridgeTypeOK, FileIsTrue
<1>5. NotedIsGiven'
    BY <1>0, <1>2 DEF BridgeInv, NotedIsGiven
<1>6. Decided'
    BY <1>0, <1>2 DEF BridgeInv, Decided, UnderDecision, At, StopsInstall
<1>7. FilesFirst'
    BY <1>0, <1>2, <1>3 DEF BridgeInv, FilesFirst, NoKeyDangles
<1>8. Launchable' /\ Reported'
    BY <1>0, <1>2, <1>3 DEF BridgeInv, Launchable, NeverHung, Reported
<1>9. QED
    BY <1>4, <1>5, <1>6, <1>7, <1>8 DEF BridgeInv

(* One key written, or the next one at once; ft before np. *)
LEMMA SetKeyKeeps ==
    ASSUME BridgeInv, SetKey("ft", "setft", "setnp") \/ SetKey("np", "setnp", "record")
    PROVE  BridgeInv'
<1>1. PICK k \in Keys : SetKey(k, IF k = "ft" THEN "setft" ELSE "setnp", IF k = "ft" THEN "setnp" ELSE "record")
    BY DEF Keys
<1> DEFINE s == IF k = "ft" THEN "setft" ELSE "setnp"
           n == IF k = "ft" THEN "setnp" ELSE "record"
<1>2. /\ op \in Ops /\ op.cmd = "install" /\ op.step = s /\ folder.ft /\ op.want[k] \in Targets
      /\ UNCHANGED <<regFile, folder, noted, launch>>
    BY <1>1 DEF SetKey, At, BridgeInv, BridgeTypeOK, FilesFirst, Ops
<1>3. CASE OpEnds /\ UNCHANGED <<reg, serving, given>>
    BY <1>2, <1>3, EndKeeps DEF OpEnds, BridgeInv, BridgeTypeOK, NotedIsGiven
<1>4. CASE ~(OpEnds /\ UNCHANGED <<reg, serving, given>>)
  <2>1. /\ serving' = TRUE
        /\ \/ /\ reg' = [reg EXCEPT ![k] = op.want[k]]
              /\ given' = given \cup ({<<k, op.want[k]>>} \ {<<k, Ours>>})
              /\ op' = [op EXCEPT !.step = n, !.landed = op.landed \cup {k}]
           \/ op' = [op EXCEPT !.step = n] /\ UNCHANGED <<reg, given>>
      BY <1>1, <1>4 DEF SetKey, Leaves
  <2>2. /\ op' \in Ops /\ op'.cmd = "install" /\ op'.step = n /\ UNCHANGED <<op.force, op.rec, op.want, op.copied>>
        /\ op'.landed \in {op.landed, op.landed \cup {k}}
    <3>1. n \in {"setnp", "record"} /\ op.landed \cup {k} \in SUBSET Keys
        BY <1>2 DEF Ops
    <3>2. CASE op' = [op EXCEPT !.step = n, !.landed = op.landed \cup {k}]
      <4>1. op' \in Ops
          BY <1>2, <3>1, <3>2 DEF Ops
      <4>2. QED
          BY <1>2, <3>2, <4>1 DEF Ops
    <3>3. CASE op' = [op EXCEPT !.step = n]
      <4>1. op' \in Ops
          BY <1>2, <3>1, <3>3 DEF Ops
      <4>2. QED
          BY <1>2, <3>3, <4>1 DEF Ops
    <3>4. QED
        BY <2>1, <3>2, <3>3
  <2>3. \A j \in Keys : j # k => reg'[j] = reg[j] /\ (j \in op'.landed <=> j \in op.landed)
      BY <2>1, <2>2 DEF BridgeInv, BridgeTypeOK
  <2>4. BridgeTypeOK' /\ FileIsTrue'
    <3>1. reg' \in [Keys -> KeyValues]
        BY <1>2, <2>1 DEF BridgeInv, BridgeTypeOK, KeyValues, Targets
    <3>2. QED
        BY <1>2, <2>1, <2>2, <3>1 DEF BridgeInv, BridgeTypeOK, FileIsTrue
  <2>5. NotedIsGiven'
    <3>1. given \subseteq given'
        BY <2>1
    <3>2. k \in op'.landed /\ op.want[k] = Theirs => <<k, Theirs>> \in given'
      <4>1. CASE op' = [op EXCEPT !.step = n, !.landed = op.landed \cup {k}] /\ given' = given \cup ({<<k, op.want[k]>>} \ {<<k, Ours>>})
          BY <4>1 DEF Ours, Theirs
      <4>2. CASE op' = [op EXCEPT !.step = n] /\ given' = given
          BY <1>2, <4>2 DEF Ops, BridgeInv, NotedIsGiven
      <4>3. QED
          BY <2>1, <4>1, <4>2
    <3>3. QED
        BY <1>2, <2>2, <2>3, <3>1, <3>2 DEF BridgeInv, NotedIsGiven
  <2>6. Decided'
      BY <1>2, <2>2, <2>3 DEF BridgeInv, Decided, UnderDecision, At, StopsInstall, Keys
  <2>7. FilesFirst' /\ Launchable' /\ Reported'
      BY <1>2, <2>2 DEF BridgeInv, FilesFirst, NoKeyDangles, Launchable, NeverHung, Reported
  <2>8. QED
      BY <2>4, <2>5, <2>6, <2>7 DEF BridgeInv
<1>5. QED
    BY <1>3, <1>4

LEMMA WriteRecordKeeps ==
    ASSUME BridgeInv, WriteRecord
    PROVE  BridgeInv'
<1>1. /\ op \in Ops /\ op' = NoOp /\ noted' \in {noted, Recorded}
      /\ UNCHANGED <<reg, regFile, serving, folder, given, launch>>
    BY DEF WriteRecord, At, OpEnds, BridgeInv, BridgeTypeOK
<1>2. Recorded \in [Keys -> Targets \cup {"none"}]
    BY <1>1 DEF Recorded, Ops
<1>3. \A k \in Keys : (noted[k] = Theirs => <<k, Theirs>> \in given) /\ (Recorded[k] = Theirs => <<k, Theirs>> \in given)
    BY DEF Recorded, BridgeInv, NotedIsGiven
<1>4. QED
    BY <1>1, <1>2, <1>3, EndKeeps DEF BridgeInv, BridgeTypeOK

(* Steps of uninstall and status that only read. *)
LEMMA ReadKeeps ==
    ASSUME BridgeInv, UNCHANGED <<reg, regFile, folder, noted, given, launch>>, op.cmd \in {"uninstall", "status"},
           ~serving' => ~serving,
           op' \in Ops, op'.cmd = op.cmd, op'.landed = op.landed, op'.want = op.want, op'.copied = op.copied,
           op'.rec = op.rec \/ op'.rec \in {noted, NoReg}, op'.refused = op.refused,
           op'.cmd = "uninstall" /\ op'.step \in {"undonp", "rmdir"} /\ ~op'.failed => reg["ft"] # Ours,
           op'.cmd = "uninstall" /\ op'.step = "rmdir" /\ ~op'.failed => reg["np"] # Ours,
           op'.cmd = "status" /\ op'.step = "said" /\ op'.said # "uninstall" =>
              /\ folder = NoFolder /\ noted = NoReg
              /\ \A k \in Keys, r \in op'.keys : ~IsOurs(r[k], op'.rec[k])
              /\ op'.said = IF InTheWay(op') # {} THEN "force" ELSE "install"
    PROVE  BridgeInv'
<1>1. BridgeTypeOK'
    BY DEF BridgeInv, BridgeTypeOK
<1>2. FileIsTrue'
  <2>1. FileIsTrue
      BY DEF BridgeInv
  <2>2. QED
      BY <2>1 DEF FileIsTrue
<1>3. NotedIsGiven'
    BY DEF BridgeInv, NotedIsGiven, NoReg, Theirs
<1>4. Decided' /\ FilesFirst' /\ Launchable'
    BY DEF BridgeInv, Decided, FilesFirst, NoKeyDangles, Launchable, NeverHung
<1>5. Reported'
    BY DEF BridgeInv, Reported, InTheWay
<1>6. QED
    BY <1>1, <1>2, <1>3, <1>4, <1>5 DEF BridgeInv

LEMMA ReadsKeep ==
    ASSUME BridgeInv, UndoByFile \/ UndoByWine \/ StatusRecord \/ StatusKeys \/ StatusSays
    PROVE  BridgeInv'
<1>0. /\ op \in Ops /\ regFile \in [Keys -> KeyValues] \cup {NoReg} /\ noted \in [Keys -> Targets \cup {"none"}]
      /\ FileIsTrue /\ Reported
    BY DEF BridgeInv, BridgeTypeOK
<1>1. CASE UndoByFile
  <2>1. /\ op.cmd = "uninstall" /\ op' = [op EXCEPT !.step = "rmdir"]
        /\ UNCHANGED <<reg, regFile, folder, noted, given, launch, serving>>
      BY <1>1 DEF UndoByFile, At, Leaves, prefixVars
  <2>2. \A k \in Keys : reg[k] # Ours
      BY <1>0, <1>1 DEF UndoByFile, SettledKeys, LockFree, FileIsTrue, NothingToUndo, UndoFor, IsOurs, Ours
  <2>3. /\ op' \in Ops /\ op'.cmd = "uninstall" /\ op'.landed = op.landed /\ op'.want = op.want
        /\ op'.copied = op.copied /\ op'.rec = op.rec /\ op'.refused = op.refused
      BY <1>0, <2>1 DEF Ops
  <2>4. QED
      BY <2>1, <2>2, <2>3, ReadKeeps DEF Keys
<1>2. CASE UndoByWine
  <2>1. /\ op.cmd = "uninstall" /\ op' = [op EXCEPT !.step = "undoft"]
        /\ UNCHANGED <<reg, regFile, folder, noted, given, launch, serving>>
      BY <1>2 DEF UndoByWine, At, Leaves, prefixVars
  <2>2. /\ op' \in Ops /\ op'.cmd = "uninstall" /\ op'.landed = op.landed /\ op'.want = op.want
        /\ op'.copied = op.copied /\ op'.rec = op.rec /\ op'.refused = op.refused /\ op'.step = "undoft"
      BY <1>0, <2>1 DEF Ops
  <2>3. QED
      BY <2>1, <2>2, ReadKeeps
<1>3. CASE StatusRecord
  <2>1. PICK r \in {noted, NoReg} : op' = [op EXCEPT !.step = "keys", !.rec = r]
      BY <1>3 DEF StatusRecord
  <2>2. op.cmd = "status" /\ UNCHANGED <<reg, regFile, folder, noted, given, launch, serving>>
      BY <1>3 DEF StatusRecord, At, prefixVars
  <2>3. r \in [Keys -> Targets \cup {"none"}]
      BY <1>0 DEF NoReg
  <2>4. /\ op' \in Ops /\ op'.cmd = "status" /\ op'.landed = op.landed /\ op'.want = op.want
        /\ op'.copied = op.copied /\ op'.rec = r /\ op'.refused = op.refused /\ op'.step = "keys"
      BY <1>0, <2>1, <2>2, <2>3 DEF Ops
  <2>5. QED
      BY <2>2, <2>4, ReadKeeps
<1>4. CASE StatusKeys
  <2>1. PICK ks \in {{regFile} \ {NoReg}, {}} : op' = [op EXCEPT !.step = "dir", !.keys = ks]
      BY <1>4 DEF StatusKeys
  <2>2. op.cmd = "status" /\ UNCHANGED <<reg, regFile, folder, noted, given, launch, serving>>
      BY <1>4 DEF StatusKeys, At, prefixVars
  <2>3. ks \in SUBSET [Keys -> KeyValues]
      BY <1>0
  <2>4. /\ op' \in Ops /\ op'.cmd = "status" /\ op'.landed = op.landed /\ op'.want = op.want
        /\ op'.copied = op.copied /\ op'.rec = op.rec /\ op'.refused = op.refused /\ op'.step = "dir"
      BY <1>0, <2>1, <2>2, <2>3 DEF Ops
  <2>5. QED
      BY <2>2, <2>4, ReadKeeps
<1>5. CASE StatusSays
  <2>1. PICK there \in Presence(folder # NoFolder \/ noted # NoReg) :
            op' = [op EXCEPT !.step = "said", !.said = Advice(op, there)]
      BY <1>5 DEF StatusSays
  <2>2. op.cmd = "status" /\ UNCHANGED <<reg, regFile, folder, noted, given, launch, serving>>
      BY <1>5 DEF StatusSays, At, prefixVars
  <2>3. \/ AnythingOfOurs(op, there) /\ Advice(op, there) = "uninstall"
        \/ ~AnythingOfOurs(op, there) /\ Advice(op, there) = IF InTheWay(op) # {} THEN "force" ELSE "install"
      BY DEF Advice
  <2>4. Advice(op, there) \in {"none", "uninstall", "force", "install"}
      BY <2>3
  <2>5. /\ op' \in Ops /\ op'.cmd = "status" /\ op'.landed = op.landed /\ op'.want = op.want /\ op'.keys = op.keys
        /\ op'.copied = op.copied /\ op'.rec = op.rec /\ op'.refused = op.refused /\ op'.said = Advice(op, there)
      BY <1>0, <2>1, <2>2, <2>4 DEF Ops
  <2>6. InTheWay(op') = InTheWay(op)
      BY <2>5 DEF InTheWay
  <2>7. ~AnythingOfOurs(op, there) =>
           /\ folder = NoFolder /\ noted = NoReg
           /\ \A k \in Keys, r \in op.keys : ~IsOurs(r[k], op.rec[k])
      BY <2>1 DEF AnythingOfOurs, Presence
  <2>8. QED
      BY <2>2, <2>3, <2>5, <2>6, <2>7, ReadKeeps
<1>6. QED
    BY <1>1, <1>2, <1>3, <1>4, <1>5

LEMMA UndoKeeps ==
    ASSUME BridgeInv, UndoKey("ft", "undoft", "undonp") \/ UndoKey("np", "undonp", "rmdir")
    PROVE  BridgeInv'
<1>1. PICK k \in Keys : UndoKey(k, IF k = "ft" THEN "undoft" ELSE "undonp", IF k = "ft" THEN "undonp" ELSE "rmdir")
    BY DEF Keys
<1> DEFINE s == IF k = "ft" THEN "undoft" ELSE "undonp"
           n == IF k = "ft" THEN "undonp" ELSE "rmdir"
<1>2. /\ op \in Ops /\ op.cmd = "uninstall" /\ op.step = s /\ serving' = TRUE
      /\ UNCHANGED <<regFile, folder, noted, given, launch>> /\ noted \in [Keys -> Targets \cup {"none"}]
    BY <1>1 DEF UndoKey, At, BridgeInv, BridgeTypeOK
<1>3. CASE OpEnds /\ UNCHANGED reg
    BY <1>2, <1>3, EndKeeps DEF OpEnds, BridgeInv, NotedIsGiven
<1>4. CASE UndoFor(reg[k], op.rec[k]) # "remove" /\ Leaves(n) /\ UNCHANGED reg
  <2>1. /\ op' \in Ops /\ op'.cmd = "uninstall" /\ op'.landed = op.landed /\ op'.want = op.want
        /\ op'.copied = op.copied /\ op'.rec = op.rec /\ op'.refused = op.refused /\ op'.step = n
        /\ op'.failed = op.failed
      BY <1>2, <1>4 DEF Ops, Leaves
  <2>2. reg[k] # Ours
      BY <1>4 DEF UndoFor, IsOurs, Ours
  <2>3. s = "undonp" /\ ~op.failed => reg["ft"] # Ours
      BY <1>2 DEF BridgeInv, FilesFirst
  <2>4. QED
      BY <1>2, <1>4, <2>1, <2>2, <2>3, ReadKeeps DEF Keys
<1>5. CASE op' = [op EXCEPT !.step = n, !.failed = TRUE] /\ UNCHANGED reg
  <2>1. /\ op' \in Ops /\ op'.cmd = "uninstall" /\ op'.landed = op.landed /\ op'.want = op.want
        /\ op'.copied = op.copied /\ op'.rec = op.rec /\ op'.refused = op.refused /\ op'.step = n /\ op'.failed
      BY <1>2, <1>5 DEF Ops
  <2>2. QED
      BY <1>2, <1>5, <2>1, ReadKeeps
<1>6. CASE reg' = [reg EXCEPT ![k] = "absent"] /\ Leaves(n)
  <2>1. /\ op' \in Ops /\ op'.cmd = "uninstall" /\ op'.landed = op.landed /\ op'.want = op.want
        /\ op'.copied = op.copied /\ op'.rec = op.rec /\ op'.step = n /\ op'.failed = op.failed
      BY <1>2, <1>6 DEF Ops, Leaves
  <2>2. reg' \in [Keys -> KeyValues] /\ \A j \in Keys : reg'[j] = IF j = k THEN "absent" ELSE reg[j]
      BY <1>6 DEF BridgeInv, BridgeTypeOK, KeyValues
  <2>3. BridgeTypeOK' /\ FileIsTrue'
      BY <1>2, <2>1, <2>2 DEF BridgeInv, BridgeTypeOK, FileIsTrue
  <2>4. NotedIsGiven'
      BY <1>2, <2>1 DEF BridgeInv, NotedIsGiven
  <2>5. Decided' /\ Launchable' /\ Reported'
      BY <1>2, <2>1 DEF BridgeInv, Decided, Launchable, NeverHung, Reported
  <2>6. FilesFirst'
    <3>1. s = "undonp" /\ ~op.failed => reg["ft"] # Ours
        BY <1>2 DEF BridgeInv, FilesFirst
    <3>2. NoKeyDangles'
        BY <1>2, <2>2 DEF BridgeInv, FilesFirst, NoKeyDangles, Ours
    <3>3. "ft" \in Keys /\ "np" \in Keys /\ Ours # "absent" /\ (k = "ft" \/ k = "np")
        BY DEF Keys, Ours
    <3>4. n = "rmdir" => k = "np" /\ s = "undonp"
      <4>1. CASE k = "ft"
          BY <4>1
      <4>2. CASE k = "np"
          BY <4>2
      <4>3. QED
          BY <3>3, <4>1, <4>2
    <3>5. n \in {"undonp", "rmdir"} /\ ~op.failed => reg'["ft"] # Ours
        BY <2>2, <3>1, <3>3, <3>4
    <3>6. n = "rmdir" => reg'["np"] # Ours
        BY <2>2, <3>3, <3>4
    <3>7. QED
        BY <2>1, <3>2, <3>5, <3>6 DEF FilesFirst
  <2>7. QED
      BY <2>3, <2>4, <2>5, <2>6 DEF BridgeInv
<1>7. QED
    BY <1>1, <1>3, <1>4, <1>5, <1>6 DEF UndoKey

LEMMA RemoveKeeps ==
    ASSUME BridgeInv, RemoveFolder
    PROVE  BridgeInv'
<1>1. /\ op \in Ops /\ op' = NoOp /\ op.cmd = "uninstall" /\ op.step = "rmdir"
      /\ UNCHANGED <<reg, regFile, serving, given, launch>>
    BY DEF RemoveFolder, At, OpEnds, BridgeInv, BridgeTypeOK
<1>2. CASE op.failed
    BY <1>1, <1>2, EndKeeps DEF RemoveFolder, BridgeInv, BridgeTypeOK, NotedIsGiven
<1>3. CASE ~op.failed
  <2>1. \A k \in Keys : reg[k] # Ours
      BY <1>1, <1>3 DEF BridgeInv, FilesFirst, Keys
  <2>2. /\ noted' \in {noted, NoReg}
        /\ \/ folder' = NoFolder \/ folder' = [folder EXCEPT !.provider = "none"]
           \/ folder' = [folder EXCEPT !.stamp = FALSE] \/ folder' = [folder EXCEPT !.ft = FALSE]
      BY <1>3 DEF RemoveFolder
  <2>3. /\ folder' \in [provider : {"none", "old", "new"}, ft : BOOLEAN, stamp : BOOLEAN]
        /\ (folder'.stamp => folder'.provider # "old")
    <3>1. folder \in [provider : {"none", "old", "new"}, ft : BOOLEAN, stamp : BOOLEAN]
          /\ (folder.stamp => folder.provider # "old")
        BY DEF BridgeInv, BridgeTypeOK, Launchable
    <3>2. CASE folder' = NoFolder
        BY <3>2 DEF NoFolder
    <3>3. CASE folder' = [folder EXCEPT !.provider = "none"]
        BY <3>1, <3>3
    <3>4. CASE folder' = [folder EXCEPT !.stamp = FALSE]
        BY <3>1, <3>4
    <3>5. CASE folder' = [folder EXCEPT !.ft = FALSE]
        BY <3>1, <3>5
    <3>6. QED
        BY <2>2, <3>2, <3>3, <3>4, <3>5
  <2>4. noted' \in [Keys -> Targets \cup {"none"}]
      BY <2>2 DEF BridgeInv, BridgeTypeOK, NoReg
  <2>5. BridgeTypeOK' /\ FileIsTrue'
      BY <1>1, <2>3, <2>4, NoOpIsAnOp DEF BridgeInv, BridgeTypeOK, FileIsTrue
  <2>6. NotedIsGiven'
      BY <1>1, <2>2 DEF BridgeInv, NotedIsGiven, NoOp, NoReg, Theirs
  <2>7. FilesFirst'
      BY <1>1, <2>1 DEF FilesFirst, NoOp, NoKeyDangles
  <2>8. Decided' /\ Launchable' /\ Reported'
      BY <1>1, <2>3 DEF BridgeInv, Decided, Launchable, NeverHung, Reported, NoOp
  <2>9. QED
      BY <2>5, <2>6, <2>7, <2>8 DEF BridgeInv
<1>4. QED
    BY <1>2, <1>3

LEMMA KilledKeeps ==
    ASSUME BridgeInv, CommandKilled
    PROVE  BridgeInv'
    BY EndKeeps DEF CommandKilled, OpEnds, prefixVars, BridgeInv, BridgeTypeOK, NotedIsGiven

LEMMA VisitKeeps ==
    ASSUME BridgeInv, NEW k \in Keys, NEW v \in {Theirs, Another}, Visit(k, v)
    PROVE  BridgeInv'
<1>1. /\ ~UnderDecision(k) /\ reg' = [reg EXCEPT ![k] = v] /\ serving' = TRUE
      /\ UNCHANGED <<regFile, folder, noted, op, given, launch>>
    BY DEF Visit
<1>2. reg' \in [Keys -> KeyValues] /\ \A j \in Keys : reg'[j] = IF j = k THEN v ELSE reg[j]
    BY <1>1 DEF BridgeInv, BridgeTypeOK, KeyValues
<1>3. BridgeTypeOK' /\ FileIsTrue' /\ NotedIsGiven'
    BY <1>1, <1>2 DEF BridgeInv, BridgeTypeOK, FileIsTrue, NotedIsGiven
<1>4. Decided'
    BY <1>1, <1>2 DEF BridgeInv, Decided, UnderDecision, At, StopsInstall
<1>5. FilesFirst'
    BY <1>1, <1>2 DEF BridgeInv, FilesFirst, NoKeyDangles, Keys, Ours, Theirs, Another
<1>6. Launchable' /\ Reported'
    BY <1>1 DEF BridgeInv, Launchable, NeverHung, Reported, InTheWay, StopsInstall
<1>7. QED
    BY <1>3, <1>4, <1>5, <1>6 DEF BridgeInv

LEMMA BridgeStep ==
    ASSUME BridgeInv, [BridgeNext]_bridgeVars
    PROVE  BridgeInv'
<1>1. CASE UNCHANGED bridgeVars
    BY <1>1, OthersKeep
<1>2. CASE BridgeNext
    BY <1>2, OthersKeep, StartsKeep, JudgeKeeps, CopyKeeps, StampKeeps, SetKeyKeeps, WriteRecordKeeps, ReadsKeep,
       UndoKeeps, RemoveKeeps, KilledKeeps, VisitKeeps DEF BridgeNext
<1>3. QED
    BY <1>1, <1>2

(* What a report says holds while nobody has touched the keys it read. *)
LEMMA AdviceIsRight ==
    ASSUME BridgeInv
    PROVE  AdviceGoesThrough
<1>1. SUFFICES ASSUME op.cmd = "status", op.step = "said", op.keys = {reg}, op.said # "uninstall"
               PROVE  Nothing /\ (op.said = "install" => ~op.refused) /\ (RefusedNow <=> op.said = "force")
    BY DEF AdviceGoesThrough, At
<1>2. /\ ~op.refused /\ op.rec = noted /\ folder = NoFolder /\ (\A k \in Keys : ~IsOurs(reg[k], noted[k]))
      /\ op.said = IF InTheWay(op) # {} THEN "force" ELSE "install"
    BY <1>1 DEF BridgeInv, Reported
<1>3. RefusedNow <=> InTheWay(op) # {}
    BY <1>1, <1>2 DEF RefusedNow, InTheWay
<1>4. Nothing
    BY <1>2 DEF Nothing, UndoFor
<1>5. QED
    BY <1>2, <1>3, <1>4

(* Whatever the prefix held before, however often commands are run and others  *)
(* register, and wherever a command is stopped: no key points into a directory *)
(* this program has taken away, no launch is wrapped around a provider that    *)
(* cannot start the game, and what status advises goes through.               *)
THEOREM BridgeIsSound == BridgeSpec => [](NoKeyDangles /\ NeverHung /\ AdviceGoesThrough)
<1>1. BridgeInit => BridgeInv
    BY BridgeInitInv
<1>2. BridgeInv /\ [BridgeNext]_bridgeVars => BridgeInv'
    BY BridgeStep
<1>3. BridgeInv => NoKeyDangles /\ NeverHung /\ AdviceGoesThrough
    BY AdviceIsRight DEF BridgeInv, FilesFirst, Launchable
<1>4. QED
    BY <1>1, <1>2, <1>3, PTL DEF BridgeSpec

(* A key's value is taken out or replaced by a command only if this program    *)
(* has put it there, or by an install that was told to with --force.          *)
LEMMA KeptStep ==
    ASSUME BridgeInv, [BridgeNext]_bridgeVars
    PROVE  [TheirsIsKept]_bridgeVars
<1>1. SUFFICES ASSUME BridgeNext, NEW k \in Keys, reg'[k] # reg[k], op' # op
               PROVE  reg[k] \in {"absent", Ours} \/ <<k, reg[k]>> \in given \/ (op.cmd = "install" /\ op.force)
    BY DEF TheirsIsKept
<1>2. reg \in [Keys -> KeyValues] /\ \A j \in Keys : op.rec[j] = Theirs => <<j, Theirs>> \in given
    BY DEF BridgeInv, BridgeTypeOK, NotedIsGiven
<1>3. \/ \E j \in Keys : SetKey(j, IF j = "ft" THEN "setft" ELSE "setnp", IF j = "ft" THEN "setnp" ELSE "record")
      \/ \E j \in Keys : UndoKey(j, IF j = "ft" THEN "undoft" ELSE "undonp", IF j = "ft" THEN "undonp" ELSE "rmdir")
  <2>1. ~(\/ VisitorLeaves \/ ServerExits \/ BridgeRun \/ BridgeYields \/ BridgeEnds \/ BridgeStops
          \/ LaunchStart \/ LaunchGoes \/ LaunchEnds \/ \E j \in Keys, v \in {Theirs, Another} : Visit(j, v))
      BY <1>1 DEF VisitorLeaves, ServerExits, BridgeRun, BridgeYields, BridgeEnds, BridgeStops,
                  LaunchStart, LaunchGoes, LaunchEnds, Visit, prefixVars
  <2>2. ~(\/ \E np \in {NpTarget(e, i) : e \in {"ours", "auto"}, i \in BOOLEAN}, force, steam \in BOOLEAN,
                built \in {{"ft"}, {"ft", "provider"}}, wine \in Wines : Install(np, force, built, steam, wine)
          \/ UninstallBridge
          \/ \E np \in {Ours, Theirs}, steam \in BOOLEAN, wine \in Wines : Status(np, steam, wine))
    <3>1. ASSUME NEW np, NEW force, NEW built, NEW steam, NEW wine, Install(np, force, built, steam, wine)
          PROVE  FALSE
        BY <1>1, <3>1 DEF Install, prefixVars
    <3>2. ASSUME NEW np, NEW steam, NEW wine, Status(np, steam, wine)
          PROVE  FALSE
        BY <1>1, <3>2 DEF Status, prefixVars
    <3>3. ~UninstallBridge
        BY <1>1 DEF UninstallBridge, prefixVars
    <3>4. QED
        BY <3>1, <3>2, <3>3
  <2>3. ~(InstallReadFile \/ InstallReadWine \/ Stamp \/ WriteRecord \/ UndoByFile \/ UndoByWine \/ RemoveFolder
          \/ StatusRecord \/ StatusKeys \/ StatusSays \/ CommandKilled \/ \E a \in {"provider", "ft"} : CopyArtifact(a))
      BY <1>1 DEF InstallReadFile, InstallReadWine, Stamp, WriteRecord, UndoByFile, UndoByWine, RemoveFolder,
                  StatusRecord, StatusKeys, StatusSays, CommandKilled, CopyArtifact, prefixVars
  <2>4. SetKey("ft", "setft", "setnp") \/ SetKey("np", "setnp", "record")
        \/ UndoKey("ft", "undoft", "undonp") \/ UndoKey("np", "undonp", "rmdir")
      BY <1>1, <2>1, <2>2, <2>3 DEF BridgeNext
  <2>5. QED
      BY <2>4 DEF Keys
<1>4. ASSUME NEW j \in Keys,
             SetKey(j, IF j = "ft" THEN "setft" ELSE "setnp", IF j = "ft" THEN "setnp" ELSE "record")
      PROVE  reg[k] \in {"absent", Ours} \/ <<k, reg[k]>> \in given \/ (op.cmd = "install" /\ op.force)
  <2>1. reg' = [reg EXCEPT ![j] = op.want[j]] /\ op.cmd = "install" /\ UnderDecision(j)
      BY <1>1, <1>4 DEF SetKey, At, UnderDecision, Keys
  <2>2. j = k /\ op.want[k] # reg[k]
      BY <1>1, <1>2, <2>1
  <2>3. CASE ~op.force
    <3>1. ~StopsInstall(reg[k], op.rec[k], op.want[k])
        BY <2>1, <2>2, <2>3 DEF BridgeInv, Decided
    <3>2. reg[k] = "absent" \/ IsOurs(reg[k], op.rec[k])
        BY <2>2, <3>1 DEF StopsInstall
    <3>3. QED
        BY <1>2, <3>2 DEF IsOurs
  <2>4. QED
      BY <2>1, <2>3
<1>5. ASSUME NEW j \in Keys,
             UndoKey(j, IF j = "ft" THEN "undoft" ELSE "undonp", IF j = "ft" THEN "undonp" ELSE "rmdir")
      PROVE  reg[k] \in {"absent", Ours} \/ <<k, reg[k]>> \in given
  <2>1. reg' = [reg EXCEPT ![j] = "absent"] /\ UndoFor(reg[j], op.rec[j]) = "remove"
      BY <1>1, <1>5 DEF UndoKey
  <2>2. j = k
      BY <1>1, <1>2, <2>1
  <2>3. IsOurs(reg[k], op.rec[k])
      BY <2>1, <2>2 DEF UndoFor
  <2>4. QED
      BY <1>2, <2>3 DEF IsOurs
<1>6. QED
    BY <1>3, <1>4, <1>5

(* "Take out what this install put in, and nothing else", step by step. *)
THEOREM BridgeKeepsTheirs == BridgeSpec => [][TheirsIsKept]_bridgeVars
<1>1. BridgeInit => BridgeInv
    BY BridgeInitInv
<1>2. BridgeInv /\ [BridgeNext]_bridgeVars => BridgeInv'
    BY BridgeStep
<1>3. BridgeInv /\ [BridgeNext]_bridgeVars => [TheirsIsKept]_bridgeVars
    BY KeptStep
<1>4. QED
    BY <1>1, <1>2, <1>3, PTL DEF BridgeSpec

(* The same two, as the runs check them. *)
THEOREM BridgePrefixIsSound == BridgeSpec => []PrefixIsSound
<1>1. NoKeyDangles /\ NeverHung /\ AdviceGoesThrough => PrefixIsSound
    BY DEF PrefixIsSound
<1>2. QED
    BY <1>1, BridgeIsSound, PTL

(* No command takes out a value a game's own tools have put in a key.          *)
THEOREM BridgeTheirsStay == BridgeSpec => TheirsStay
<1>1. QED
    BY BridgeKeepsTheirs DEF TheirsStay

-----------------------------------------------------------------------------
(* GameSetup: the window. *)

Verbs == {"install", "uninstall", "status"}
Child == [game : Games, verb : Verbs, result : Results \cup {"none"}, id : Nat]
SetupTypeOK ==
    /\ pfx \in [Games -> {"none", "absent", "files", "stamped"}]
    /\ sel \in Games \cup {NoGame} /\ jobs \in Nat
    /\ \A d \in dialogs : d.kind \in {"other", "wine"} => d.game \in Games

(* The slot for what runs holds the game and the verb of the one child.        *)
JobOf(c) == [game |-> c.game, verb |-> c.verb]
OneJob ==
    \/ procs = {} /\ working = {}
    \/ \E c \in Child : procs = {c} /\ working = {JobOf(c)}

(* The answer kept is the last job's, and the page shows what the slots hold.  *)
AnswerIsLast == \A o \in outcome : o.game = last
PageIsNow ==
    /\ sel = NoGame => page = {}
    /\ \A v \in page : v.game = sel /\ v.job = JobView(sel, working, outcome, report, v.state)

(* A row is right but where others, or a job under way, have changed it.       *)
Changing(g) == \E c \in procs : c.verb # "status" /\ c.game = g
RowsAreRight ==
    /\ \A g \in Rows(rows) : g \notin touched /\ ~Changing(g) => rows[g] = RowBridge(g, pfx)
    /\ Rows(rows) # {} => placeholder = NothingShowing(rows, query, only)

SetupInv == SetupTypeOK /\ OneJob /\ AnswerIsLast /\ PageIsNow /\ RowsAreRight

LEMMA SetupInitInv == ASSUME SetupInit PROVE SetupInv
<1>1. SetupTypeOK
    BY DEF SetupInit, SetupTypeOK
<1>2. OneJob /\ AnswerIsLast /\ PageIsNow
    BY DEF SetupInit, OneJob, AnswerIsLast, PageIsNow
<1>3. Rows(rows) = {}
    BY DEF SetupInit, Rows
<1>4. QED
    BY <1>1, <1>2, <1>3 DEF SetupInv, RowsAreRight

(* A page drawn again shows the slots; with nothing picked there is none. *)
LEMMA DrawnIsNow ==
    ASSUME NEW g, NEW run, NEW oc, NEW rep, NEW p, g = NoGame => page = {}
    PROVE  /\ g = NoGame => Refreshed(g, run, oc, rep, p) = {}
           /\ \A v \in Refreshed(g, run, oc, rep, p) : v.game = g /\ v.job = JobView(g, run, oc, rep, v.state)
<1>1. View(g, run, oc, rep, p, output).game = g
    BY DEF View
<1>2. View(g, run, oc, rep, p, output).job = JobView(g, run, oc, rep, View(g, run, oc, rep, p, output).state)
    BY DEF View
<1>3. QED
    BY <1>1, <1>2 DEF Refreshed

(* Rows read again are right, and so is the sentence. *)
LEMMA ReadIsRight ==
    ASSUME NEW file, Reread(pfx, file), UNCHANGED pfx
    PROVE  RowsAreRight'
<1>1. rows' = ReadCatalog(pfx, file) /\ placeholder' = NothingShowing(rows', query', only')
    BY DEF Reread, Restated
<1>2. \A g \in Games : rows'[g] \in {RowBridge(g, pfx), "off"}
    BY <1>1 DEF ReadCatalog
<1>3. \A g \in Rows(rows') : rows'[g] = RowBridge(g, pfx)
    BY <1>2 DEF Rows
<1>4. QED
    BY <1>1, <1>3 DEF RowsAreRight

(* A job is started, or one runs already. *)
LEMMA JobStarts ==
    ASSUME SetupInv, NEW g \in Games, NEW verb \in Verbs, StartJob(g, verb)
    PROVE  OneJob' /\ jobs' \in Nat /\ procs \subseteq procs'
<1>1. CASE working # {}
    BY <1>1 DEF StartJob, SetupInv, OneJob, SetupTypeOK
<1>2. CASE working = {}
  <2> DEFINE c == [game |-> g, verb |-> verb, result |-> "none", id |-> jobs]
  <2>1. procs = {} /\ jobs \in Nat
      BY <1>2 DEF SetupInv, OneJob, SetupTypeOK
  <2>2. /\ working' = {[game |-> g, verb |-> verb]} /\ procs' = procs \cup {c} /\ jobs' = jobs + 1
      BY <1>2 DEF StartJob
  <2>3. c \in Child /\ JobOf(c) = [game |-> g, verb |-> verb]
      BY <2>1 DEF Child, JobOf
  <2>4. procs' = {c} /\ working' = {JobOf(c)}
      BY <2>1, <2>2, <2>3
  <2> HIDE DEF c
  <2>5. OneJob'
      BY <2>3, <2>4 DEF OneJob
  <2>6. QED
      BY <2>1, <2>2, <2>5
<1>3. QED
    BY <1>1, <1>2

(* Rows that are not read again stay right where a job is started. *)
LEMMA RowsStay ==
    ASSUME SetupInv, UNCHANGED <<pfx, rows, query, only, placeholder, touched>>, procs \subseteq procs'
    PROVE  RowsAreRight'
<1>1. \A g : Changing(g) => Changing(g)'
    BY DEF Changing
<1>2. QED
    BY <1>1 DEF SetupInv, RowsAreRight

LEMMA JobStartKeeps ==
    ASSUME SetupInv, NEW g \in Games, NEW verb \in Verbs, StartJob(g, verb), outcome' \subseteq outcome,
           page' = Refreshed(sel, working', outcome', report, pfx), dialogs' \subseteq dialogs,
           UNCHANGED <<pfx, sel, report, rows, query, only, placeholder, touched, last>>
    PROVE  SetupInv'
<1>1. OneJob' /\ jobs' \in Nat /\ procs \subseteq procs'
    BY JobStarts
<1>2. SetupTypeOK'
    BY <1>1 DEF SetupInv, SetupTypeOK
<1>3. AnswerIsLast'
    BY DEF SetupInv, AnswerIsLast
<1>4. PageIsNow'
    BY DrawnIsNow DEF SetupInv, PageIsNow
<1>5. QED
    BY <1>1, <1>2, <1>3, <1>4, RowsStay DEF SetupInv

LEMMA PressesKeep ==
    ASSUME SetupInv,
           \/ \E verb \in {"install", "uninstall"} : PressRun(verb)
           \/ PressDetails
           \/ \E d \in dialogs : Chosen(d)
    PROVE  SetupInv'
<1>1. ASSUME NEW verb \in {"install", "uninstall"}, PressRun(verb) PROVE SetupInv'
  <2>1. /\ StartJob(sel, verb) /\ outcome' = {} /\ page' = Refreshed(sel, working', outcome', report, pfx)
        /\ UNCHANGED <<pfx, sel, report, rows, query, only, placeholder, touched, last, dialogs>>
      BY <1>1 DEF PressRun, diskVars, listVars, ghosts
  <2>2. sel \in Games /\ verb \in Verbs
      BY <1>1 DEF PressRun, SetupInv, SetupTypeOK, Verbs
  <2>3. QED
      BY <2>1, <2>2, JobStartKeeps
<1>2. CASE PressDetails
  <2>1. /\ StartJob(sel, "status") /\ page' = Refreshed(sel, working', outcome', report, pfx)
        /\ UNCHANGED <<pfx, sel, outcome, report, rows, query, only, placeholder, touched, last, dialogs>>
      BY <1>2 DEF PressDetails, diskVars, listVars, ghosts
  <2>2. sel \in Games /\ "status" \in Verbs
      BY <1>2 DEF PressDetails, SetupInv, SetupTypeOK, Verbs
  <2>3. QED
      BY <2>1, <2>2, JobStartKeeps
<1>3. ASSUME NEW d \in dialogs, Chosen(d) PROVE SetupInv'
  <2>1. /\ StartJob(d.game, "install") /\ outcome' = {} /\ page' = Refreshed(sel, working', outcome', report, pfx)
        /\ UNCHANGED <<pfx, sel, report, rows, query, only, placeholder, touched, last>>
        /\ dialogs' \subseteq dialogs
      BY <1>3 DEF Chosen, diskVars, listVars, ghosts
  <2>2. d.game \in Games /\ "install" \in Verbs
      BY <1>3 DEF Chosen, SetupInv, SetupTypeOK, Verbs
  <2>3. QED
      BY <2>1, <2>2, JobStartKeeps
<1>4. QED
    BY <1>1, <1>2, <1>3

(* A step that leaves the slots, the rows and the prefixes alone. *)
LEMMA SlotsStay ==
    ASSUME SetupInv, UNCHANGED <<pfx, slotVars, page, listVars, procs, touched, last, jobs>>,
           \A d \in dialogs' : d.kind \in {"other", "wine"} => d.game \in Games
    PROVE  SetupInv'
<1>1. UNCHANGED <<pfx, sel, working, outcome, report, page, rows, query, only, placeholder, procs, touched, last, jobs>>
    BY DEF slotVars, listVars
<1>2. SetupTypeOK' /\ OneJob'
    BY <1>1 DEF SetupInv, SetupTypeOK, OneJob
<1>3. AnswerIsLast' /\ PageIsNow'
    BY <1>1 DEF SetupInv, AnswerIsLast, PageIsNow
<1>4. QED
    BY <1>1, <1>2, <1>3, RowsStay DEF SetupInv

LEMMA DialogsKeep ==
    ASSUME SetupInv,
           \/ \E kind \in {"other", "wine"} : PressChooser(kind)
           \/ \E d \in dialogs : Dismissed(d)
           \/ PressAdd \/ Quit \/ UNCHANGED setupVars \/ \E c \in ToldTo : TrackerTab(c)
    PROVE  SetupInv'
<1>0. /\ sel \in Games \cup {NoGame}
      /\ \A d \in dialogs : d.kind \in {"other", "wine"} => d.game \in Games
    BY DEF SetupInv, SetupTypeOK
<1>1. ASSUME NEW kind \in {"other", "wine"}, PressChooser(kind) PROVE SetupInv'
    BY <1>0, <1>1, SlotsStay DEF PressChooser, diskVars, ghosts
<1>2. ASSUME NEW d \in dialogs, Dismissed(d) PROVE SetupInv'
    BY <1>0, <1>2, SlotsStay DEF Dismissed, diskVars, ghosts
<1>3. CASE PressAdd
    BY <1>0, <1>3, SlotsStay DEF PressAdd, diskVars, ghosts
<1>4. CASE Quit
    BY <1>0, <1>4, SlotsStay DEF Quit, diskVars, ghosts
<1>5. CASE UNCHANGED setupVars
    BY <1>0, <1>5, SlotsStay DEF setupVars, diskVars, ghosts
<1>6. ASSUME NEW c \in ToldTo, TrackerTab(c) PROVE SetupInv'
    BY <1>0, <1>6, SlotsStay DEF TrackerTab, ghosts
<1>7. QED
    BY <1>1, <1>2, <1>3, <1>4, <1>5, <1>6

(* The child changes its own game's prefix, if any. *)
LEMMA ChildKeeps ==
    ASSUME SetupInv, NEW c \in procs, ChildEnds(c)
    PROVE  SetupInv'
<1>1. /\ procs = {c} /\ c \in Child /\ working = {JobOf(c)}
      /\ pfx \in [Games -> {"none", "absent", "files", "stamped"}] /\ pfx[c.game] \in {"none", "absent", "files", "stamped"}
    BY DEF SetupInv, OneJob, SetupTypeOK, Child
<1>2. PICK e \in Leaves_(c.verb, pfx[c.game]) :
          /\ pfx' = [pfx EXCEPT ![c.game] = e[1]]
          /\ procs' = (procs \ {c}) \cup {[c EXCEPT !.result = e[2]]}
    BY DEF ChildEnds
<1>3. UNCHANGED <<sel, working, outcome, report, page, rows, query, only, placeholder, dialogs, touched, last, jobs>>
    BY DEF ChildEnds, slotVars, listVars, ghosts
<1>4. /\ e[1] \in {"none", "absent", "files", "stamped"} /\ e[2] \in Results
      /\ (c.verb = "status" => e[1] = pfx[c.game])
    BY <1>1 DEF Leaves_, Results
<1> DEFINE done == [c EXCEPT !.result = e[2]]
<1>5. done \in Child /\ done.game = c.game /\ done.verb = c.verb
    BY <1>1, <1>4 DEF Child
<1>6. procs' = {done}
    BY <1>1, <1>2
<1> HIDE DEF done
<1>7. OneJob'
    BY <1>1, <1>3, <1>5, <1>6 DEF OneJob, JobOf
<1>8. SetupTypeOK'
    BY <1>1, <1>2, <1>3, <1>4 DEF SetupInv, SetupTypeOK
<1>9. AnswerIsLast' /\ PageIsNow'
    BY <1>3 DEF SetupInv, AnswerIsLast, PageIsNow
<1>10. RowsAreRight'
  <2>1. \A g : Changing(g)' <=> Changing(g)
      BY <1>1, <1>5, <1>6 DEF Changing
  <2>2. \A g \in Games : ~Changing(g) => pfx'[g] = pfx[g]
      BY <1>1, <1>2, <1>4 DEF Changing
  <2>3. \A g \in Games : pfx'[g] = pfx[g] => RowBridge(g, pfx') = RowBridge(g, pfx)
      BY DEF RowBridge, BridgeState
  <2>4. QED
      BY <1>3, <2>1, <2>2, <2>3 DEF SetupInv, RowsAreRight, Rows
<1>11. QED
    BY <1>7, <1>8, <1>9, <1>10 DEF SetupInv

LEMMA PollKeeps ==
    ASSUME SetupInv, NEW c \in procs, Poll(c)
    PROVE  SetupInv'
<1>1. procs = {c} /\ c \in Child /\ procs' = {} /\ working' = {}
    BY DEF SetupInv, OneJob, Poll
<1>2. UNCHANGED <<pfx, listed, sel, dialogs, jobs>>
    BY DEF Poll, diskVars
<1>3. SetupTypeOK' /\ OneJob'
    BY <1>1, <1>2 DEF SetupInv, SetupTypeOK, OneJob
<1>4. CASE c.verb = "status"
  <2>1. TakeReport(c)
      BY <1>4 DEF Poll
  <2>2. /\ page' = Refreshed(sel, working', outcome', report', pfx)
        /\ UNCHANGED <<outcome, rows, query, only, placeholder, touched, last>>
      BY <1>1, <2>1 DEF TakeReport, listVars
  <2>3. AnswerIsLast' /\ PageIsNow'
      BY <1>2, <2>2, DrawnIsNow DEF SetupInv, AnswerIsLast, PageIsNow
  <2>4. RowsAreRight'
      BY <1>1, <1>2, <1>4, <2>2 DEF SetupInv, RowsAreRight, Changing
  <2>5. QED
      BY <1>3, <2>3, <2>4 DEF SetupInv
<1>5. CASE c.verb # "status"
  <2>1. TakeJob(c)
      BY <1>5 DEF Poll
  <2>2. /\ page' = Refreshed(sel, working', outcome', report', pfx)
        /\ outcome' = {Filed(c)} /\ last' = c.game /\ Reread(pfx, listed)
      BY <1>1, <2>1 DEF TakeJob
  <2>3. AnswerIsLast'
      BY <2>2 DEF AnswerIsLast, Filed
  <2>4. PageIsNow'
      BY <1>2, <2>2, DrawnIsNow DEF SetupInv, PageIsNow
  <2>5. RowsAreRight'
      BY <1>2, <2>2, ReadIsRight
  <2>6. QED
      BY <1>3, <2>3, <2>4, <2>5 DEF SetupInv
<1>6. QED
    BY <1>4, <1>5

LEMMA RowKeeps ==
    ASSUME SetupAssumption, SetupInv, NEW g \in Games, RowActivated(g)
    PROVE  SetupInv'
<1>1. /\ sel' = g /\ outcome' = {} /\ report' = {} /\ page' = Refreshed(g, working, {}, {}, pfx)
      /\ UNCHANGED <<pfx, working, rows, query, only, placeholder, dialogs, procs, touched, last, jobs>>
    BY DEF RowActivated, diskVars, listVars, ghosts
<1>2. SetupTypeOK' /\ OneJob' /\ AnswerIsLast'
    BY <1>1 DEF SetupInv, SetupTypeOK, OneJob, AnswerIsLast
<1>3. g # NoGame
    BY DEF SetupAssumption
<1>4. PageIsNow'
    BY <1>1, <1>3, DrawnIsNow DEF PageIsNow
<1>5. QED
    BY <1>1, <1>2, <1>4, RowsStay DEF SetupInv

LEMMA FilterKeeps ==
    ASSUME SetupInv, (\E q \in {Games, Folders} : Search(q)) \/ SetUpOnly
    PROVE  SetupInv'
<1>1. PICK q, o : Restated(rows, q, o)
    BY DEF Search, SetUpOnly
<1>2. /\ rows' = rows /\ placeholder' = NothingShowing(rows', query', only')
      /\ UNCHANGED <<pfx, sel, working, outcome, report, page, dialogs, procs, touched, last, jobs>>
    BY <1>1 DEF Restated, Search, SetUpOnly, diskVars, slotVars, ghosts
<1>3. SetupTypeOK' /\ OneJob' /\ AnswerIsLast' /\ PageIsNow'
    BY <1>2 DEF SetupInv, SetupTypeOK, OneJob, AnswerIsLast, PageIsNow
<1>4. RowsAreRight'
    BY <1>2 DEF SetupInv, RowsAreRight, Changing
<1>5. QED
    BY <1>3, <1>4 DEF SetupInv

LEMMA ListKeeps ==
    ASSUME SetupInv, (\E d \in dialogs, f \in Folders : AddChosen(d, f)) \/ PressForget \/ Mapped
    PROVE  SetupInv'
<1>1. CASE UNCHANGED <<sel, page, rows, query, only, placeholder, touched>>
  <2>1. UNCHANGED <<pfx, working, outcome, report, procs, last, jobs>> /\ dialogs' \subseteq dialogs
      BY DEF AddChosen, PressForget, Mapped, diskVars, slotVars
  <2>2. QED
      BY <1>1, <2>1, SlotsStay DEF slotVars, listVars, SetupInv, SetupTypeOK
<1>2. CASE ~UNCHANGED <<sel, page, rows, query, only, placeholder, touched>>
  <2>1. /\ Reread(pfx, listed')
        /\ \/ sel' = sel /\ page' = Refreshed(sel, working, outcome, report, pfx)
           \/ sel' = NoGame /\ page' = {}
        /\ UNCHANGED <<pfx, working, outcome, report, procs, last, jobs>> /\ dialogs' \subseteq dialogs
    <3>1. CASE \E d \in dialogs, f \in Folders : AddChosen(d, f)
        BY <1>2, <3>1 DEF AddChosen, slotVars, listVars
    <3>2. CASE PressForget
        BY <1>2, <3>2 DEF PressForget, listVars
    <3>3. CASE Mapped
        BY <3>3 DEF Mapped, diskVars, slotVars
    <3>4. QED
        BY <3>1, <3>2, <3>3
  <2>2. SetupTypeOK' /\ OneJob' /\ AnswerIsLast'
      BY <2>1 DEF SetupInv, SetupTypeOK, OneJob, AnswerIsLast
  <2>3. PageIsNow'
      BY <2>1, DrawnIsNow DEF SetupInv, PageIsNow
  <2>4. RowsAreRight'
      BY <2>1, ReadIsRight
  <2>5. QED
      BY <2>2, <2>3, <2>4 DEF SetupInv
<1>3. QED
    BY <1>1, <1>2

LEMMA OutsideKeeps ==
    ASSUME SetupInv, NEW g \in Games, NEW v \in {"none", "absent", "files"}, Outside(g, v)
    PROVE  SetupInv'
<1>1. /\ pfx' = [pfx EXCEPT ![g] = v] /\ touched' = touched \cup {g}
      /\ UNCHANGED <<sel, working, outcome, report, page, rows, query, only, placeholder, dialogs, procs, last, jobs>>
    BY DEF Outside, slotVars, listVars
<1>2. SetupTypeOK' /\ OneJob' /\ AnswerIsLast' /\ PageIsNow'
    BY <1>1 DEF SetupInv, SetupTypeOK, OneJob, AnswerIsLast, PageIsNow
<1>3. \A j \in Games : j \notin touched' => RowBridge(j, pfx') = RowBridge(j, pfx)
    BY <1>1 DEF RowBridge, BridgeState, SetupInv, SetupTypeOK
<1>4. RowsAreRight'
    BY <1>1, <1>3 DEF SetupInv, RowsAreRight, Changing, Rows
<1>5. QED
    BY <1>2, <1>4 DEF SetupInv

LEMMA SetupStep ==
    ASSUME SetupAssumption, SetupInv, [SetupNext]_setupVars
    PROVE  SetupInv'
<1>1. CASE UNCHANGED setupVars
    BY <1>1, DialogsKeep
<1>2. CASE SetupNext
    BY <1>2, PressesKeep, DialogsKeep, ChildKeeps, PollKeeps, RowKeeps, FilterKeeps, ListKeeps, OutsideKeeps DEF SetupNext
<1>3. QED
    BY <1>1, <1>2

LEMMA OwnPage ==
    ASSUME SetupInv
    PROVE  PageIsOwn
<1>1. Cardinality(procs) <= 1
  <2>1. CASE procs = {}
      BY <2>1, FS_EmptySet
  <2>2. CASE \E c \in Child : procs = {c}
      BY <2>2, FS_Singleton
  <2>3. QED
      BY <2>1, <2>2 DEF SetupInv, OneJob
<1>2. ASSUME NEW v \in page
      PROVE  /\ v.game = sel
             /\ v.job.enabled <=> working = {}
             /\ v.job.text = "running" <=> \E c \in procs : c.game = sel
             /\ v.job.text \notin {"none", "running"} => last = sel
  <2>1. v.game = sel /\ v.job = JobView(sel, working, outcome, report, v.state)
      BY <1>2 DEF SetupInv, PageIsNow
  <2>2. v.job.enabled <=> working = {}
    <3>1. JobView(sel, working, outcome, report, v.state).enabled = (working = {})
        BY DEF JobView
    <3>2. v.job.enabled = (working = {})
        BY <2>1, <3>1
    <3>3. QED
        BY <3>2
  <2>3. v.job.text = IF Mine(working, sel) THEN "running"
                     ELSE IF Mine(outcome, sel) THEN OutcomeText((CHOOSE o \in outcome : TRUE).result, v.state) ELSE "none"
      BY <2>1 DEF JobView
  <2>4. \A r, state : OutcomeText(r, state) \notin {"none", "running"}
      BY DEF OutcomeText
  <2>5. Mine(working, sel) <=> \E c \in procs : c.game = sel
    <3>1. CASE procs = {} /\ working = {}
        BY <3>1 DEF Mine
    <3>2. ASSUME NEW c \in Child, procs = {c}, working = {JobOf(c)}
          PROVE  Mine(working, sel) <=> \E k \in procs : k.game = sel
        BY <3>2 DEF Mine, JobOf
    <3>3. QED
        BY <3>1, <3>2 DEF SetupInv, OneJob
  <2>6. Mine(outcome, sel) => last = sel
      BY DEF SetupInv, AnswerIsLast, Mine
  <2>7. QED
      BY <2>1, <2>2, <2>3, <2>4, <2>5, <2>6
<1>3. QED
    BY <1>1, <1>2 DEF PageIsOwn

LEMMA AgreeingRows ==
    ASSUME SetupInv
    PROVE  RowsAgree
<1>1. working = {} => procs = {}
    BY DEF SetupInv, OneJob
<1>2. QED
    BY <1>1 DEF SetupInv, RowsAreRight, Changing, RowsAgree

(* Whatever games there are, whichever is picked, and whatever was chosen in   *)
(* a dialog opened for another: what the page says of a job is said of its own *)
(* game's, there is one child at a time, and the rows, the filter and the      *)
(* sentence under them agree with the prefixes when no job runs.              *)
THEOREM SetupPageIsOwn == ASSUME SetupAssumption PROVE SetupSpec => [](PageIsOwn /\ RowsAgree)
<1>1. SetupInit => SetupInv
    BY SetupInitInv
<1>2. SetupInv /\ [SetupNext]_setupVars => SetupInv'
    BY SetupStep
<1>3. SetupInv => PageIsOwn /\ RowsAgree
    BY OwnPage, AgreeingRows
<1>4. QED
    BY <1>1, <1>2, <1>3, PTL DEF SetupSpec

(* What was added is a folder, in the file, and in the list. *)
AddedInv == added \subseteq ListFrom(listed) /\ added \subseteq Folders /\ added \subseteq Rows(rows)

LEMMA ListedIsShown ==
    ASSUME NEW p, NEW file
    PROVE  ListFrom(file) \cap Games \subseteq Rows(ReadCatalog(p, file))
<1>1. \A g \in Games : RowBridge(g, p) # "off"
    BY DEF RowBridge
<1>2. QED
    BY <1>1 DEF ReadCatalog, Rows

(* The steps that touch neither what was added nor its file. *)
LEMMA ListsAlone ==
    ASSUME [SetupNext]_setupVars, ~PressForget, ~(\E d \in dialogs, f \in Folders : AddChosen(d, f))
    PROVE  UNCHANGED <<added, listed>> /\ (rows' = rows \/ rows' = ReadCatalog(pfx, listed'))
<1> DEFINE Alone == UNCHANGED <<added, listed>> /\ (rows' = rows \/ rows' = ReadCatalog(pfx, listed'))
<1>1. ASSUME NEW verb, PressRun(verb) PROVE Alone
    BY <1>1 DEF PressRun, diskVars, listVars, ghosts
<1>2. CASE PressDetails
    BY <1>2 DEF PressDetails, diskVars, listVars, ghosts
<1>3. ASSUME NEW kind, PressChooser(kind) PROVE Alone
    BY <1>3 DEF PressChooser, diskVars, listVars, ghosts
<1>4. ASSUME NEW d, Chosen(d) \/ Dismissed(d) PROVE Alone
    BY <1>4 DEF Chosen, Dismissed, diskVars, listVars, ghosts
<1>5. ASSUME NEW c, ChildEnds(c) PROVE Alone
    BY <1>5 DEF ChildEnds, listVars, ghosts
<1>6. ASSUME NEW c, Poll(c) PROVE Alone
    BY <1>6 DEF Poll, TakeJob, TakeReport, Reread, Restated, diskVars, listVars
<1>7. ASSUME NEW g, RowActivated(g) PROVE Alone
    BY <1>7 DEF RowActivated, diskVars, listVars, ghosts
<1>8. ASSUME NEW q, Search(q) PROVE Alone
    BY <1>8 DEF Search, Restated, diskVars, ghosts
<1>9. CASE SetUpOnly
    BY <1>9 DEF SetUpOnly, Restated, diskVars, ghosts
<1>10. CASE PressAdd \/ Quit \/ UNCHANGED setupVars
    BY <1>10 DEF PressAdd, Quit, setupVars, diskVars, listVars, ghosts
<1>11. CASE Mapped
    BY <1>11 DEF Mapped, Reread, Restated, diskVars
<1>12. ASSUME NEW g, NEW v, Outside(g, v) PROVE Alone
    BY <1>12 DEF Outside, listVars
<1>13. ASSUME NEW c, TrackerTab(c) PROVE Alone
    BY <1>13 DEF TrackerTab, listVars, ghosts
<1>14. QED
    BY <1>1, <1>2, <1>3, <1>4, <1>5, <1>6, <1>7, <1>8, <1>9, <1>10, <1>11, <1>12, <1>13 DEF SetupNext

LEMMA AddedStep ==
    ASSUME Hashed \cap Folders = {}, AddedInv, [SetupNext]_setupVars
    PROVE  AddedInv'
<1>1. \/ UNCHANGED <<added, listed>>
      \/ \E f \in Folders : listed' = SavedWith(f) /\ added' = added \cup {f}
      \/ listed' = SavedWithout(sel) /\ added' = added \ {sel}
    BY ListsAlone DEF AddChosen, PressForget
<1>2. (rows' = rows /\ UNCHANGED <<added, listed>>) \/ rows' = ReadCatalog(pfx, listed')
    BY ListsAlone DEF AddChosen, PressForget, Reread, Restated, listVars
<1>3. added' \subseteq ListFrom(listed') /\ added' \subseteq Folders
  <2>1. CASE UNCHANGED <<added, listed>>
      BY <2>1 DEF AddedInv
  <2>2. CASE \E f \in Folders : listed' = SavedWith(f) /\ added' = added \cup {f}
      BY <2>2 DEF AddedInv, SavedWith, ListFrom
  <2>3. CASE listed' = SavedWithout(sel) /\ added' = added \ {sel}
      BY <2>3 DEF AddedInv, SavedWithout, ListFrom
  <2>4. QED
      BY <1>1, <2>1, <2>2, <2>3
<1>4. added' \subseteq Rows(rows')
  <2>1. CASE rows' = rows /\ UNCHANGED added
      BY <2>1 DEF AddedInv
  <2>2. CASE rows' = ReadCatalog(pfx, listed')
      BY <1>3, <2>2, ListedIsShown DEF Games
  <2>3. QED
      BY <1>2, <2>1, <2>2
<1>5. QED
    BY <1>3, <1>4 DEF AddedInv

(* "What this writes, it reads back", of every folder whose name no line of    *)
(* the file takes for a comment.                                             *)
THEOREM SetupListsAdded == ASSUME Hashed \cap Folders = {} PROVE SetupSpec => []AddedIsListed
<1>1. SetupInit => AddedInv
    BY DEF SetupInit, AddedInv
<1>2. AddedInv /\ [SetupNext]_setupVars => AddedInv'
    BY AddedStep
<1>3. AddedInv => AddedIsListed
    BY DEF AddedInv, AddedIsListed
<1>4. QED
    BY <1>1, <1>2, <1>3, PTL DEF SetupSpec

(* The page is the selected game's, a row says what its prefix holds, and a    *)
(* folder that was added is in the list: all that the run asks of the window.  *)
THEOREM SetupWindowIsOwn ==
    ASSUME SetupAssumption, Hashed \cap Folders = {}
    PROVE  SetupSpec => []SetupIsOwn
<1>1. PageIsOwn /\ RowsAgree /\ AddedIsListed => SetupIsOwn
    BY DEF SetupIsOwn
<1>2. QED
    BY <1>1, SetupPageIsOwn, SetupListsAdded, PTL

-----------------------------------------------------------------------------
(* FramePath. *)

(* A pose is of whole numbers, and Newest keeps the newest of them. *)
LEMMA ShapeIsInt == ASSUME NEW a \in Int PROVE ExtendedView(a) \in Int
<1> DEFINE size == Abs(a)
           shaped == Clamp(((size - 2) * 45) \div 23, 0, 45)
<1>1. size \in Int BY DEF Abs
<1>2. ((size - 2) * 45) \div 23 \in Int BY <1>1
<1>3. shaped \in Int BY <1>2 DEF Clamp
<1>4. ExtendedView(a) = IF size <= 2 THEN 0 ELSE Clamp(IF a < 0 THEN -shaped ELSE shaped, -60, 60)
  BY DEF ExtendedView, Shape, ViewCurve
<1> HIDE DEF size, shaped
<1> QED BY <1>3, <1>4 DEF Clamp
LEMMA ViewIsInt ==
    ASSUME FrameAssumption, FrameTypes, NEW g, g = {} \/ \E a \in Angles : g = {a}, NEW lost
    PROVE  ViewOf(g, lost) \in Int
<1>1. CASE g = {}
  <2>1. ViewOf(g, lost) = HoldThroughBlink(lastEv, lost) BY <1>1 DEF ViewOf
  <2>2. lastEv # {} => (CHOOSE e \in lastEv : TRUE) \in lastEv OBVIOUS
  <2>3. lastEv \subseteq Int BY DEF FrameTypes
  <2>4. lastEv # {} => (CHOOSE e \in lastEv : TRUE) \in Int BY <2>2, <2>3
  <2> QED BY <2>1, <2>4 DEF HoldThroughBlink
<1>2. CASE \E a \in Angles : g = {a}
  <2>1. PICK a \in Angles : g = {a} BY <1>2
  <2>2. (CHOOSE b \in g : TRUE) \in g BY <2>1
  <2>3. ViewOf(g, lost) = ExtendedView(a) BY <2>1, <2>2 DEF ViewOf
  <2> QED BY <2>3, ShapeIsInt DEF FrameAssumption
<1> QED BY <1>1, <1>2
LEMMA NewestIs ==
    ASSUME MaxHeld \in Nat, NEW S, NEW s \in Seq(S), NEW p \in S, Len(s) <= MaxHeld + 1
    PROVE  /\ Newest(s, p) \in Seq(S) /\ Newest(s, p) # <<>>
           /\ Len(Newest(s, p)) = IF Len(s) = MaxHeld + 1 THEN Len(s) ELSE Len(s) + 1
           /\ Newest(s, p)[Len(Newest(s, p))] = p
           /\ \A k \in Nat : k + 1 < Len(Newest(s, p)) =>
                 Newest(s, p)[Len(Newest(s, p)) - (k + 1)] = s[Len(s) - k]
<1> DEFINE t == Append(s, p)
<1>1. t \in Seq(S) /\ Len(t) = Len(s) + 1 /\ t[Len(t)] = p /\ \A i \in 1 .. Len(s) : t[i] = s[i]
  OBVIOUS
<1>2. Len(s) \in Nat OBVIOUS
<1> HIDE DEF t
<1>3. CASE Len(s) = MaxHeld + 1
  <2>1. Newest(s, p) = Tail(t) BY <1>1, <1>3 DEF Newest, t
  <2>2. /\ Tail(t) \in Seq(S) /\ Len(Tail(t)) = Len(s)
        /\ \A i \in 1 .. Len(s) : Tail(t)[i] = t[i + 1]
    BY <1>1, <1>2, <1>3
  <2> QED BY <1>1, <1>2, <1>3, <2>1, <2>2
<1>4. CASE Len(s) # MaxHeld + 1
  <2>1. Newest(s, p) = t BY <1>1, <1>2, <1>4 DEF Newest, t
  <2> QED BY <1>1, <1>2, <1>4, <2>1
<1> QED BY <1>3, <1>4

LEMMA FrameInitInv == ASSUME FrameAssumption, FrameInit PROVE FrameInv
  BY DEF FrameAssumption, FrameInit, FrameInv, FrameTypes, HeldSince, NobodyKept, NoFilter

(* A head: the pose is believed, or it is one more that is not. *)
LEMMA OfferHeadInv ==
    ASSUME FrameAssumption, FrameInv, NEW x \in Places, NEW g, g = {} \/ \E a \in Angles : g = {a},
           OfferHead(x, g)
    PROVE  FrameInv'
<1> DEFINE lost == IF gazeLost = {} THEN 0 ELSE (CHOOSE n \in gazeLost : TRUE)
           n0 == IF neutral = {} THEN x ELSE CHOOSE n \in neutral : TRUE
           p == Compose(x - n0, ViewOf(g, lost))
<1>1. /\ lastEv' = IF g # {} THEN {ViewOf(g, lost)} ELSE lastEv
      /\ neutral' = {n0} /\ tracked' = {0}
      /\ filter' = Update(filter, p) /\ recent' = Newest(recent, p)
  BY DEF OfferHead
<1>2. x \in Int /\ n0 \in Int /\ ViewOf(g, lost) \in Int /\ MaxHeld \in Nat
  <2>1. neutral # {} => (CHOOSE n \in neutral : TRUE) \in neutral OBVIOUS
  <2> QED BY <2>1, ViewIsInt DEF FrameAssumption, FrameInv, FrameTypes
<1> HIDE DEF n0, lost
<1>3. p \in [x : Int, yaw : Int] BY <1>2 DEF Compose
<1> HIDE DEF p
<1>4. recent \in Seq([x : Int, yaw : Int]) /\ Len(recent) <= MaxHeld + 1 /\ Len(recent) \in Nat
  BY <1>2 DEF FrameInv, FrameTypes, HeldSince
<1>5. /\ recent' \in Seq([x : Int, yaw : Int]) /\ recent' # <<>>
      /\ Len(recent') = IF Len(recent) = MaxHeld + 1 THEN Len(recent) ELSE Len(recent) + 1
      /\ recent'[Len(recent')] = p
      /\ \A k \in Nat : k + 1 < Len(recent') => recent'[Len(recent') - (k + 1)] = recent[Len(recent) - k]
  <2> DEFINE S == [x : Int, yaw : Int]
  <2>1. recent \in Seq(S) /\ p \in S /\ MaxHeld \in Nat BY <1>2, <1>3, <1>4
  <2> HIDE DEF S
  <2>2. /\ Newest(recent, p) \in Seq(S) /\ Newest(recent, p) # <<>>
        /\ Len(Newest(recent, p)) = IF Len(recent) = MaxHeld + 1 THEN Len(recent) ELSE Len(recent) + 1
        /\ Newest(recent, p)[Len(Newest(recent, p))] = p
        /\ \A k \in Nat : k + 1 < Len(Newest(recent, p)) =>
              Newest(recent, p)[Len(Newest(recent, p)) - (k + 1)] = recent[Len(recent) - k]
    BY <1>4, <2>1, NewestIs
  <2> QED BY <1>1, <2>2 DEF S
<1>6. FrameTypes' BY <1>1, <1>2, <1>5 DEF FrameInv, FrameTypes
<1>7. NobodyKept' BY <1>1 DEF NobodyKept
<1>8. HeldSince'
  <2>1. DOMAIN filter = {"last", "held"} /\ filter.held \in 0 .. MaxHeld BY DEF FrameInv, HeldSince
  <2>2. CASE StepTooFar(filter, p)
    <3>1. filter' = [filter EXCEPT !.held = @ + 1] BY <1>1, <2>2 DEF Update
    <3>2. filter.held < MaxHeld /\ recent # <<>> BY <2>2 DEF StepTooFar, FrameInv, HeldSince, NoFilter
    <3>3. DOMAIN filter' = {"last", "held"} /\ filter'.held = filter.held + 1 /\ filter'.last = filter.last
      BY <2>1, <3>1
    <3>4. /\ Len(recent) \in (filter.held + 1) .. (MaxHeld + 1) /\ filter.last # {}
          /\ \A l \in filter.last : l.raw = recent[Len(recent) - filter.held]
      BY <3>2 DEF FrameInv, HeldSince
    <3>5. filter.held + 1 < Len(recent') BY <1>2, <1>5, <2>1, <3>2, <3>4
    <3>6. recent'[Len(recent') - filter'.held] = recent[Len(recent) - filter.held]
      <4>1. filter.held \in Nat BY <1>2, <2>1
      <4>2. recent'[Len(recent') - (filter.held + 1)] = recent[Len(recent) - filter.held]
        BY <1>5, <3>5, <4>1
      <4> QED BY <3>3, <4>2
    <3>7. filter'.held \in 0 .. MaxHeld /\ Len(recent') \in (filter'.held + 1) .. (MaxHeld + 1)
      <4> DEFINE h == filter.held
      <4>1. h \in Nat /\ h < MaxHeld /\ Len(recent) \in (h + 1) .. (MaxHeld + 1) BY <1>2, <2>1, <3>2, <3>4
      <4>2. Len(recent') = IF Len(recent) = MaxHeld + 1 THEN Len(recent) ELSE Len(recent) + 1 BY <1>5
      <4>3. filter'.held = h + 1 BY <3>3
      <4> HIDE DEF h
      <4>4. h + 1 \in 0 .. MaxHeld BY <1>2, <4>1
      <4>5. Len(recent') \in (h + 2) .. (MaxHeld + 1) BY <1>2, <4>1, <4>2
      <4>6. h + 2 = (h + 1) + 1 BY <4>1
      <4> QED BY <4>3, <4>4, <4>5, <4>6
    <3> QED BY <1>5, <3>3, <3>4, <3>6, <3>7 DEF HeldSince
  <2>3. CASE ~StepTooFar(filter, p)
    <3>1. filter' = [last |-> {[raw |-> p, out |-> Blended(filter, p)]}, held |-> 0]
      BY <1>1, <2>3 DEF Update
    <3>2. DOMAIN filter' = {"last", "held"} /\ filter'.held = 0 /\ filter'.last # {}
      BY <3>1
    <3>3. \A l \in filter'.last : l.raw = p BY <3>1
    <3>4. Len(recent') \in 1 .. (MaxHeld + 1) /\ Len(recent') - 0 = Len(recent') BY <1>2, <1>4, <1>5
    <3> QED BY <1>2, <1>5, <3>2, <3>3, <3>4 DEF HeldSince
  <2> QED BY <2>2, <2>3
<1> QED BY <1>6, <1>7, <1>8 DEF FrameInv

LEMMA OfferNobodyInv == ASSUME FrameAssumption, FrameInv, OfferNobody PROVE FrameInv'
<1>1. CASE LongLost
  <2>1. filter' = NoFilter /\ recent' = <<>> /\ lastEv' = {} /\ neutral' = {}
    BY <1>1 DEF OfferNobody, Forgets
  <2> QED BY <2>1 DEF FrameAssumption, FrameInv, FrameTypes, HeldSince, NobodyKept, NoFilter
<1>2. CASE ~LongLost
  <2>1. tracked # {} /\ tracked' = {t + 1 : t \in tracked} /\ UNCHANGED <<filter, lastEv, neutral, recent>>
    BY <1>2 DEF OfferNobody, LongLost
  <2>2. tracked' # {} BY <2>1
  <2> QED BY <2>1, <2>2 DEF FrameInv, FrameTypes, HeldSince, NobodyKept
<1> QED BY <1>1, <1>2

LEMMA FrameInvKept ==
    ASSUME FrameAssumption, FrameInv, [FrameNext]_frameVars PROVE FrameInv'
<1>1. ASSUME NEW x \in Places, NEW g \in {{}} \cup {{a} : a \in Angles}, OfferHead(x, g) PROVE FrameInv'
  BY <1>1, OfferHeadInv
<1>2. CASE OfferNobody BY <1>2, OfferNobodyInv
<1>3. ASSUME NEW a \in Alphas, Reconfigure(a) PROVE FrameInv'
  BY <1>3 DEF FrameAssumption, Reconfigure, FrameInv, FrameTypes, HeldSince, NobodyKept, NoFilter
<1>4. ASSUME NEW s \in Sinks, SinkDies(s) PROVE FrameInv'
  BY <1>4 DEF SinkDies, FrameInv, FrameTypes, HeldSince, NobodyKept
<1>5. CASE UNCHANGED frameVars BY <1>5 DEF frameVars, FrameInv, FrameTypes, HeldSince, NobodyKept
<1> QED BY <1>1, <1>2, <1>3, <1>4, <1>5 DEF FrameNext

LEMMA FrameGate == ASSUME FrameAssumption, FrameInv PROVE GateOpens
<1> SUFFICES ASSUME Len(recent) = MaxHeld + 1, \A i \in 1 .. MaxHeld : recent[i].x = recent[MaxHeld + 1].x
             PROVE  \E l \in filter.last : l.raw.x = recent[MaxHeld + 1].x
  BY DEF GateOpens
<1>1. MaxHeld \in Nat /\ recent # <<>> /\ filter.held \in 0 .. MaxHeld
  BY DEF FrameAssumption, FrameInv, HeldSince
<1>2. PICK l \in filter.last : l.raw = recent[MaxHeld + 1 - filter.held] BY <1>1 DEF FrameInv, HeldSince
<1>3. CASE filter.held = 0 BY <1>1, <1>2, <1>3
<1>4. CASE filter.held # 0
  <2>1. MaxHeld + 1 - filter.held \in 1 .. MaxHeld BY <1>1, <1>4
  <2> QED BY <1>2, <2>1
<1> QED BY <1>3, <1>4

(* "the filter would reject the world forever" (filter.rs): a head that has    *)
(* been in one place for as many frames as the gate can hold back, and one     *)
(* more, is believed to be there; for any places, angles, limits and           *)
(* strengths, and whatever came before.                                        *)
THEOREM FrameGateOpens == ASSUME FrameAssumption PROVE FrameSpec => []GateOpens
<1>1. FrameInit => FrameInv BY FrameInitInv
<1>2. FrameInv /\ [FrameNext]_frameVars => FrameInv' BY FrameInvKept
<1>3. FrameInv => GateOpens BY FrameGate
<1> QED BY <1>1, <1>2, <1>3, PTL DEF FrameSpec

LEMMA FirstPose ==
    ASSUME FrameAssumption, FrameInv, NEW x \in Places, NEW g, OfferHead(x, g),
           tracked = {}, recent = <<>>
    PROVE  frame'.pose.x = 0 /\ (frame'.gaze = {} => frame'.pose.yaw = 0)
<1> DEFINE lost == IF gazeLost = {} THEN 0 ELSE (CHOOSE n \in gazeLost : TRUE)
           p == Compose(x - x, ViewOf(g, lost))
<1>1. filter = NoFilter /\ neutral = {} /\ lastEv = {} BY DEF FrameInv, HeldSince, NobodyKept
<1>2. filter' = Update(filter, p) /\ frame' = [lost |-> FALSE, pose |-> Current(filter'), gaze |-> g]
  BY <1>1 DEF OfferHead
<1> HIDE DEF lost
<1>3. p.x = 0 BY DEF Compose, FrameAssumption
<1>4. g = {} => p.yaw = 0 BY <1>1 DEF Compose, ViewOf, HoldThroughBlink
<1> HIDE DEF p
<1>5. filter' = [last |-> {[raw |-> p, out |-> p]}, held |-> 0]
  BY <1>1, <1>2 DEF Update, StepTooFar, NoFilter, Blended
<1>6. Current(filter') = p
  <2>1. (CHOOSE l \in filter'.last : TRUE) = [raw |-> p, out |-> p] BY <1>5
  <2> QED BY <1>5, <2>1 DEF Current
<1> QED BY <1>2, <1>3, <1>4, <1>6

(* "does not acquire a permanent offset" (lib.rs): who was lost for so long    *)
(* that the pipeline forgot them comes back at the middle, with nothing left   *)
(* of the view they had.                                                       *)
THEOREM FrameReturns == ASSUME FrameAssumption PROVE FrameSpec => [][Returns]_frameVars
<1>1. FrameInit => FrameInv BY FrameInitInv
<1>2. FrameInv /\ [FrameNext]_frameVars => FrameInv' BY FrameInvKept
<1>3. FrameInv /\ FrameNext => Returns
  <2> SUFFICES ASSUME FrameInv, FrameNext, tracked = {}, tracked' = {0}, recent = <<>>, alpha' = alpha
               PROVE  frame'.pose.x = 0 /\ (frame'.gaze = {} => frame'.pose.yaw = 0)
    BY DEF Returns
  <2>1. ASSUME NEW x \in Places, NEW g, OfferHead(x, g)
        PROVE  frame'.pose.x = 0 /\ (frame'.gaze = {} => frame'.pose.yaw = 0)
    BY <2>1, FirstPose
  <2>2. ~OfferNobody BY DEF OfferNobody, LongLost, Forgets
  <2>3. \A a : ~Reconfigure(a) BY DEF Reconfigure
  <2>4. \A s : ~SinkDies(s) BY DEF SinkDies
  <2> QED BY <2>1, <2>2, <2>3, <2>4 DEF FrameNext
<1> QED BY <1>1, <1>2, <1>3, PTL DEF FrameSpec
=============================================================================
