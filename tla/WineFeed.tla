------------------------------ MODULE WineFeed ------------------------------
(***************************************************************************)
(* The Wine side of game output: in one wineserver session, the client DLLs *)
(* a game has loaded (bridge/npclient, bridge/ftclient), each with its      *)
(* feeder thread (bridge/core feeder.rs), and a provider exe (bridge/       *)
(* provider) compete for one UDP port of the host; the winner copies each   *)
(* datagram of the hub into the session's FT_SharedMem (shm.rs), which every *)
(* DLL reads.  A program of another session may hold the port too.          *)
(***************************************************************************)
EXTENDS Integers, FiniteSets, Sequences

CONSTANTS
    Dlls,            \* the client DLLs the game has loaded; "np" is TrackIR's
    Yaws,            \* angles the hub sends, in degrees
    DataIdWrap,      \* DATA_ID_WRAP
    SigWrap,         \* the frame signature is a u16
    OtherSession,    \* a program of another session may hold the port
    MaxTurns         \* bound: exe starts and ends, calls that fail

Exe == "exe"
Other == "other"
PageWriters == Dlls \cup {Exe}

(* A DLL is neither the exe nor another session's program, an angle is a        *)
(* number, and there is a data id that is not zero.                          *)
WineAssumption ==
    /\ Exe \notin Dlls /\ Other \notin Dlls
    /\ Yaws \subseteq Int
    /\ DataIdWrap \in Nat /\ DataIdWrap > 1

VARIABLES
    port,            \* who has bound the port: nobody, or one
    queue,           \* its datagrams: none, or one
    pc,              \* where each writer is
    ids, pend,       \* a Provider's data_id, and the page it is copying
    maps, mutexes,   \* handles on the mapping and on the mutex
    owner,           \* who holds the mutex
    heap,            \* the page: its id and the rest
    cut,             \* a writer was ended in the middle of a copy
    ready,           \* what a feeder has said to the DLL that waits for it
    started, cached, \* START, and SHM: unset, nothing, or a Consumer
    told, sig,       \* the last answer to the game, FRAME_SIGNATURE
    gameId,          \* GAME_ID, one in each image
    game,            \* the exe's --launch: the game, and how it went
    turns

wineVars == <<port, queue, pc, ids, pend, maps, mutexes, owner, heap, cut, ready, started, cached,
              told, sig, gameId, game, turns>>

-----------------------------------------------------------------------------
(* frame.rs: a datagram carries a frame only if its length, its magic and its *)
(* version will do; a frame without a pose is all zeroes but the flag.       *)
Encode(f) == [magic |-> TRUE, version |-> 1, pose |-> f # {}, yaw |-> IF f = {} THEN 0 ELSE CHOOSE y \in f : TRUE]
Foreign == [magic |-> FALSE, version |-> 1, pose |-> FALSE, yaw |-> 0]
Newer == [magic |-> TRUE, version |-> 2, pose |-> TRUE, yaw |-> 0]
Accepted(d) == d.magic /\ d.version <= 1
Decode(d) == IF d.pose THEN {d.yaw} ELSE {}

(* freetrack.rs: zero is kept for a page nobody has written. *)
NextDataId(prev) == (prev % (DataIdWrap - 1)) + 1
FtHeapBytes(f, id, g) == [id |-> id, rest |-> [yaw |-> IF f = {} THEN 0 ELSE CHOOSE y \in f : TRUE, game |-> g, sent |-> TRUE]]
ZeroPage == [id |-> 0, rest |-> [yaw |-> 0, game |-> 0, sent |-> FALSE]]

(* trackir.rs: degrees to the TrackIR scale, within its limits. *)
ClampAxis(v) == IF v > 16383 THEN 16383 ELSE IF v < -16383 THEN -16383 ELSE v
FromFtHeap(raw) == ClampAxis((raw.rest.yaw * 16384) \div 180)

-----------------------------------------------------------------------------
(* A handle is closed with its process; the mapping goes with its last handle. *)
Closed(p) ==
    /\ maps' = {h \in maps : h[1] # p}
    /\ mutexes' = {h \in mutexes : h[1] # p}
    /\ owner' = owner \ {p}
    /\ heap' = IF maps' = {} THEN ZeroPage ELSE heap
    /\ cut' = ((cut \/ (p \in owner /\ pc[p] = "copying")) /\ maps' # {})
    /\ port' = port \ {p}
    /\ queue' = IF p \in port THEN {} ELSE queue
    /\ ids' = [ids EXCEPT ![p] = 0] /\ pend' = [pend EXCEPT ![p] = ZeroPage]

(* Binding fails while anybody of any session has the port. *)
CanBind == port = {}

(* A word to the DLL, which listens until it has opened the page. *)
Said(d, what) == IF cached[d] = {} THEN [ready EXCEPT ![d] = {what}] ELSE ready

(* feeder.rs serve: bind first; while that fails, say whether this session   *)
(* has a mapping, and try again in a second.                                *)
FeederBinds(d) ==
    /\ pc[d] = "bind" /\ CanBind
    /\ port' = {d} /\ queue' = {} /\ pc' = [pc EXCEPT ![d] = "map"]
    /\ UNCHANGED <<ids, pend, maps, mutexes, owner, heap, cut, ready, started, cached, told, sig, gameId, game, turns>>
(* A fault: whoever finds the port taken in its own session leaves it. *)
MutFeederRetries(d) ==
    /\ pc[d] = "bind" /\ ~CanBind /\ ready[d] = {} /\ cached[d] = {}
    /\ ready' = [ready EXCEPT ![d] = {IF maps # {} THEN "AlreadyTaken" ELSE "Waiting"}]
    /\ pc' = IF maps # {} THEN [pc EXCEPT ![d] = "ceded"] ELSE pc
    /\ UNCHANGED <<port, queue, ids, pend, maps, mutexes, owner, heap, cut, started, cached, told, sig, gameId, game, turns>>
FeederRetries(d) ==
    /\ pc[d] = "bind" /\ ~CanBind /\ ready[d] = {} /\ cached[d] = {}
    /\ ready' = [ready EXCEPT ![d] = {IF maps # {} THEN "AlreadyTaken" ELSE "Waiting"}]
    /\ UNCHANGED <<port, queue, pc, ids, pend, maps, mutexes, owner, heap, cut, started, cached, told, sig, gameId, game, turns>>

(* Provider::create: the mapping, which may exist, and then the mutex. *)
CreatesMapping(p) ==
    /\ pc[p] = "map"
    /\ maps' = maps \cup {<<p, "write">>} /\ pc' = [pc EXCEPT ![p] = "mutex"]
    /\ UNCHANGED <<port, queue, ids, pend, mutexes, owner, heap, cut, ready, started, cached, told, sig, gameId, game, turns>>
CreatesMutex(p) ==
    /\ pc[p] = "mutex"
    /\ mutexes' = mutexes \cup {<<p, "write">>} /\ ids' = [ids EXCEPT ![p] = 0]
    /\ pc' = [pc EXCEPT ![p] = IF p = Exe THEN "bind" ELSE "recv"]
    /\ ready' = IF p = Exe THEN ready ELSE Said(p, "Feeding")
    /\ UNCHANGED <<port, queue, pend, maps, owner, heap, cut, started, cached, told, sig, gameId, game, turns>>
(* Either call is refused: a feeder gives the port back and ends. *)
CreateFails(d) ==
    /\ d \in Dlls /\ pc[d] \in {"map", "mutex"} /\ turns < MaxTurns /\ turns' = turns + 1
    /\ maps' = maps \ {<<d, "write">>} /\ heap' = IF maps' = {} THEN ZeroPage ELSE heap
    /\ port' = port \ {d} /\ queue' = {} /\ pc' = [pc EXCEPT ![d] = "failed"]
    /\ ready' = Said(d, "Failed")
    /\ UNCHANGED <<ids, pend, mutexes, owner, cut, started, cached, told, sig, gameId, game>>

(* A fault: the copy does not wait for the mutex. *)
MutTakesMutex(p) == UNCHANGED owner

(* publish: the id, the wait for the mutex, the copy in pieces. *)
Receives(p) ==
    /\ pc[p] = "recv" /\ queue # {} /\ p \in port /\ queue' = {}
    /\ \E d \in queue :
         IF Accepted(d)
         THEN /\ ids' = [ids EXCEPT ![p] = NextDataId(@)]
              /\ pend' = [pend EXCEPT ![p] = FtHeapBytes(Decode(d), NextDataId(ids[p]), gameId[p])]
              /\ pc' = [pc EXCEPT ![p] = "lock"]
         ELSE UNCHANGED <<ids, pend, pc>>
    /\ UNCHANGED <<port, maps, mutexes, owner, heap, cut, ready, started, cached, told, sig, gameId, game, turns>>
TakesMutex(p) == owner = {} /\ owner' = {p}
CopiesFirst(p) ==
    /\ pc[p] = "lock" /\ TakesMutex(p)
    /\ \/ heap' = [heap EXCEPT !.id = pend[p].id]
       \/ heap' = [heap EXCEPT !.rest = pend[p].rest]
    /\ pc' = [pc EXCEPT ![p] = "copying"]
    /\ UNCHANGED <<port, queue, ids, pend, maps, mutexes, cut, ready, started, cached, told, sig, gameId, game, turns>>
CopiesRest(p) ==
    /\ pc[p] = "copying" /\ heap' = pend[p] /\ owner' = owner \ {p} /\ cut' = FALSE
    /\ pc' = [pc EXCEPT ![p] = "recv"] /\ pend' = [pend EXCEPT ![p] = ZeroPage]
    /\ UNCHANGED <<port, queue, ids, maps, mutexes, ready, started, cached, told, sig, gameId, game, turns>>

-----------------------------------------------------------------------------
(* published_frame, on the game's thread: the feeder is started once, its     *)
(* first word is waited for (the deadline of a second is for a wedged call,  *)
(* and left out); SHM is filled once.                                        *)
EnsureStarted(d) ==
    /\ ~started[d] /\ started' = [started EXCEPT ![d] = TRUE]
    /\ pc' = [pc EXCEPT ![d] = "bind"]
    /\ UNCHANGED <<port, queue, ids, pend, maps, mutexes, owner, heap, cut, ready, cached, told, sig, gameId, game, turns>>

HasWaited(d) == ready[d] # {}

(* Consumer::open: the mapping, and the mutex if it is there already. *)
Opened(d) == IF maps # {} THEN {[mutex |-> mutexes # {}]} ELSE {}
OpensOnce(d) ==
    /\ started[d] /\ cached[d] = {} /\ HasWaited(d)
    /\ cached' = [cached EXCEPT ![d] = {Opened(d)}] /\ ready' = [ready EXCEPT ![d] = {}]
    /\ maps' = IF Opened(d) = {} THEN maps ELSE maps \cup {<<d, "read">>}
    /\ mutexes' = IF mutexes = {} THEN mutexes ELSE mutexes \cup {<<d, "read">>}
    /\ UNCHANGED <<port, queue, pc, ids, pend, owner, heap, cut, started, told, sig, gameId, game, turns>>
Consumer(d) == UNION cached[d]

(* Consumer::read and what a DLL makes of it: sixteen milliseconds for the    *)
(* mutex, and the page is copied either way.  A page of id 0 is no answer,    *)
(* and TrackIR's signature stands still for it.                              *)
Polls(d) ==
    /\ Consumer(d) # {}
    /\ heap.id # 0
    /\ \E c \in Consumer(d) :
         told' = [told EXCEPT ![d] = [id |-> heap.id, axis |-> FromFtHeap(heap), sent |-> heap.rest.sent,
                                      held |-> c.mutex /\ owner = {} /\ ~cut]]
    /\ sig' = IF d = "np" THEN (sig + 1) % SigWrap ELSE sig
    /\ UNCHANGED <<port, queue, pc, ids, pend, maps, mutexes, owner, heap, cut, ready, started, cached, gameId, game, turns>>

(* NP_RegisterProgramProfileID; FTReportID does nothing. *)
RegistersProfile ==
    /\ "np" \in Dlls /\ gameId["np"] = 0 /\ gameId' = [gameId EXCEPT !["np"] = 1]
    /\ UNCHANGED <<port, queue, pc, ids, pend, maps, mutexes, owner, heap, cut, ready, started, cached, told, sig, game, turns>>

-----------------------------------------------------------------------------
(* provider main.rs: the mapping, the mutex, the port.  With --launch the     *)
(* game is started whatever became of them.                                  *)
ExeStarts ==
    /\ pc[Exe] = "off" /\ turns < MaxTurns /\ turns' = turns + 1
    /\ \E launch \in BOOLEAN : game' = IF launch THEN "wanted" ELSE "not_ours"
    /\ pc' = [pc EXCEPT ![Exe] = "map"]
    /\ UNCHANGED <<port, queue, ids, pend, maps, mutexes, owner, heap, cut, ready, started, cached, told, sig, gameId>>
(* open fails: its handles are closed. *)
OpenFails ==
    /\ pc[Exe] = "bind" /\ ~CanBind
    /\ Closed(Exe) /\ pc' = [pc EXCEPT ![Exe] = "idle"]
    /\ game' = IF game = "wanted" THEN "running" ELSE "exit_1"
    /\ UNCHANGED <<ready, started, cached, told, sig, gameId, turns>>
ExeBinds ==
    /\ pc[Exe] = "bind" /\ CanBind
    /\ port' = {Exe} /\ queue' = {} /\ pc' = [pc EXCEPT ![Exe] = "recv"]
    /\ game' = IF game = "wanted" THEN "running" ELSE game
    /\ UNCHANGED <<ids, pend, maps, mutexes, owner, heap, cut, ready, started, cached, told, sig, gameId, turns>>
(* run_game returns, or the exe is ended: everything of it goes at once. *)
ExeEnds ==
    /\ pc[Exe] \notin {"off", "map", "mutex"}
    /\ Closed(Exe) /\ pc' = [pc EXCEPT ![Exe] = "off"]
    /\ game' = IF game = "running" THEN "exit_code" ELSE game
    /\ UNCHANGED <<ready, started, cached, told, sig, gameId, turns>>

-----------------------------------------------------------------------------
(* The hub's datagrams go to whoever has the port, one waiting at a time;     *)
(* bridge_udp sends frames with a pose.  Anybody may send others.            *)
Sends(y) ==
    /\ port # {} /\ queue = {} /\ queue' = {Encode({y})}
    /\ UNCHANGED <<port, pc, ids, pend, maps, mutexes, owner, heap, cut, ready, started, cached, told, sig, gameId, game, turns>>
Stray ==
    /\ port # {} /\ queue = {} /\ turns < MaxTurns /\ turns' = turns + 1
    /\ \E d \in {Foreign, Newer, Encode({})} : queue' = {d}
    /\ UNCHANGED <<port, pc, ids, pend, maps, mutexes, owner, heap, cut, ready, started, cached, told, sig, gameId, game>>
OtherLeaves ==
    /\ Other \in port /\ port' = {} /\ queue' = {}
    /\ UNCHANGED <<pc, ids, pend, maps, mutexes, owner, heap, cut, ready, started, cached, told, sig, gameId, game, turns>>
(* The other session's program reads its own datagrams. *)
OtherReads ==
    /\ Other \in port /\ queue # {} /\ queue' = {}
    /\ UNCHANGED <<port, pc, ids, pend, maps, mutexes, owner, heap, cut, ready, started, cached, told, sig, gameId, game, turns>>

WineInit ==
    /\ port \in (IF OtherSession THEN {{}, {Other}} ELSE {{}}) /\ queue = {}
    /\ pc = [p \in PageWriters |-> "off"] /\ ids = [p \in PageWriters |-> 0]
    /\ pend = [p \in PageWriters |-> ZeroPage] /\ maps = {} /\ mutexes = {} /\ owner = {}
    /\ heap = ZeroPage /\ cut = FALSE /\ ready = [d \in Dlls |-> {}]
    /\ started = [d \in Dlls |-> FALSE] /\ cached = [d \in Dlls |-> {}]
    /\ told = [d \in Dlls |-> [id |-> 0, axis |-> 0, sent |-> FALSE, held |-> FALSE]] /\ sig = 0
    /\ gameId = [p \in PageWriters |-> 0] /\ game = "not_ours" /\ turns = 0

WineNext ==
    \/ (\E d \in Dlls : FeederBinds(d) \/ FeederRetries(d) \/ CreateFails(d)
                        \/ EnsureStarted(d) \/ OpensOnce(d) \/ Polls(d))
    \/ (\E p \in PageWriters : CreatesMapping(p) \/ CreatesMutex(p) \/ Receives(p) \/ CopiesFirst(p) \/ CopiesRest(p))
    \/ RegistersProfile \/ ExeStarts \/ OpenFails \/ ExeBinds \/ ExeEnds
    \/ (\E y \in Yaws : Sends(y)) \/ Stray \/ OtherLeaves \/ OtherReads

(* The threads run, a feeder tries again every second, the game polls, the    *)
(* hub has a head to report, and no other program keeps the port for ever.   *)
WineFair ==
    /\ \A d \in Dlls : /\ SF_wineVars(FeederBinds(d)) /\ WF_wineVars(FeederRetries(d))
                       /\ WF_wineVars(EnsureStarted(d)) /\ WF_wineVars(OpensOnce(d)) /\ SF_wineVars(Polls(d))
    /\ \A p \in PageWriters : /\ WF_wineVars(CreatesMapping(p)) /\ WF_wineVars(CreatesMutex(p)) /\ WF_wineVars(Receives(p))
                              /\ WF_wineVars(CopiesFirst(p)) /\ WF_wineVars(CopiesRest(p))
    /\ WF_wineVars(\E y \in Yaws : Sends(y)) /\ WF_wineVars(OtherLeaves)
WineSpec == WineInit /\ [][WineNext]_wineVars /\ WineFair

-----------------------------------------------------------------------------
(* What a game is told with the mutex held is a frame the hub has sent, whole: *)
(* not the empty page, "a live tracker sitting at dead centre", and not parts *)
(* of two; and there is never a second writer.                               *)
Whole ==
    /\ \A d \in Dlls : told[d].held => told[d].sent /\ told[d].id \in 1 .. DataIdWrap - 1
    /\ Cardinality({p \in PageWriters : pc[p] \in {"lock", "copying"}}) <= 1

(* "frames simply resume": a DLL that has the page open sees it written again *)
(* and again, the exe that fed it having ended or not, as long as one of the  *)
(* feeders is alive.                                                         *)
Fed(d) == Consumer(d) # {} /\ \E e \in Dlls : started[e] /\ pc[e] # "failed"
Rewritten == heap' # heap
Resumes == \A d \in Dlls : (<>[]Fed(d)) => []<><<Rewritten>>_wineVars

(* "Still retrying; the game has nothing to read until it frees up": once its *)
(* feeder has the port and keeps it, a DLL has something to say.             *)
FreesUp == \A d \in Dlls : (<>[](pc[d] \in {"recv", "lock", "copying"})) => <>(told[d].id # 0)
=============================================================================
