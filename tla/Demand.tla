------------------------------- MODULE Demand -------------------------------
(***************************************************************************)
(* Who wants the tracker on (crates/tobii-gtk/src/device.rs, `Demand`).    *)
(*                                                                         *)
(* `held` is the mutex-protected map from a reason to the number of live   *)
(* guards that name it; a reason whose count reaches zero is removed, and  *)
(* "somebody wants the tracker" is "the map is not empty".  The guards are *)
(* owned by four kinds of consumer, on three threads:                      *)
(*   - latches: the focused hub window (lib.rs), the two standing claims   *)
(*     of `GameSide` (device.rs) and the opentrack port watch (outputs.rs),*)
(*     each of which keeps one guard and compares it with what it wants;   *)
(*   - windows: a flow, which holds one guard from the moment it opens     *)
(*     until `window-removed`;                                             *)
(*   - clients: a program on the socket, whose guard is REPLACED when it   *)
(*     says hello again, in two separate acquisitions of the mutex.        *)
(***************************************************************************)
EXTENDS Naturals, FiniteSets

CONSTANTS
    Latches,      \* consumers that keep at most one guard and re-evaluate it
    Windows,      \* flow windows (calibration, display setup, gaze preview)
    Clients,      \* socket clients, one identity per connection
    Reasons,      \* the phrases shown to the user
    EXCLUSIVE,    \* the reasons the hub will not give the device away for
    ReasonOf,     \* the fixed reason of each latch and window
    ClientReasons,\* the reasons reason_for derives from subscription bits
    NoReason

Owners == Latches \cup Windows \cup Clients

ASSUME DemandAssumption ==
    /\ IsFiniteSet(Owners)
    /\ Latches \cap Windows = {} /\ Clients \cap (Latches \cup Windows) = {}
    /\ NoReason \notin Reasons
    /\ EXCLUSIVE \subseteq Reasons /\ ClientReasons \subseteq Reasons
    /\ ReasonOf \in [Latches \cup Windows -> Reasons]

VARIABLES
    held,   \* Demand.held: reason -> count, only the reasons somebody gave
    kept,   \* the guard an owner keeps (its reason), or NoReason
    fresh,  \* a guard taken by Holds::hello and not yet inserted
    bits,   \* what the last Hello acted on asked for
    live    \* the server's client list

vars == <<held, kept, fresh, bits, live>>

-----------------------------------------------------------------------------
(* Faults the properties below must notice; the specification uses none.    *)
MutDropAllOfReason(h, r) ==
    IF r \notin DOMAIN h THEN h ELSE [x \in DOMAIN h \ {r} |-> h[x]]
MutHoldIsAFlag(h, r) ==
    [x \in DOMAIN h \cup {r} |-> IF x = r THEN 1 ELSE h[x]]

(* Demand::hold *)
hold(h, r) ==
    [x \in DOMAIN h \cup {r} |->
        IF x # r THEN h[x] ELSE IF r \in DOMAIN h THEN h[r] + 1 ELSE 1]

(* Drop for DemandGuard *)
drop(h, r) ==
    IF r \notin DOMAIN h THEN h
    ELSE [x \in (IF h[r] = 1 THEN DOMAIN h \ {r} ELSE DOMAIN h) |->
             IF x = r THEN h[x] - 1 ELSE h[x]]

(* Assigning None, or removing from a map: drops the guard if there is one. *)
dropAny(h, r) == IF r = NoReason THEN h ELSE drop(h, r)

reasons == DOMAIN held
active == reasons # {}
wants_exclusive == reasons \cap EXCLUSIVE # {}

-----------------------------------------------------------------------------
Init ==
    /\ held = [x \in {} |-> 0]
    /\ kept = [o \in Owners |-> NoReason]
    /\ fresh = [c \in Clients |-> NoReason]
    /\ bits = [c \in Clients |-> NoReason]
    /\ live = Clients

(* The hub tick, `latch` and PortWatch::poll: one guard, kept while wanted. *)
LatchOn(l) ==
    /\ kept[l] = NoReason
    /\ held' = hold(held, ReasonOf[l])
    /\ kept' = [kept EXCEPT ![l] = ReasonOf[l]]
    /\ UNCHANGED <<fresh, bits, live>>

LatchOff(l) ==
    /\ kept[l] # NoReason
    /\ held' = drop(held, kept[l])
    /\ kept' = [kept EXCEPT ![l] = NoReason]
    /\ UNCHANGED <<fresh, bits, live>>

(* hold_while_open: the guard is taken when the window opens ... *)
OpenWindow(w) ==
    /\ kept[w] = NoReason
    /\ held' = hold(held, ReasonOf[w])
    /\ kept' = [kept EXCEPT ![w] = ReasonOf[w]]
    /\ UNCHANGED <<fresh, bits, live>>

(* ... and taken out of its cell by `window-removed`, once. *)
CloseWindow(w) ==
    /\ kept[w] # NoReason
    /\ held' = drop(held, kept[w])
    /\ kept' = [kept EXCEPT ![w] = NoReason]
    /\ UNCHANGED <<fresh, bits, live>>

(* Fault: the old guard goes before the new one is taken. *)
MutHelloDropsFirst(c, r) ==
    /\ \A d \in Clients : fresh[d] = NoReason
    /\ held' = dropAny(held, kept[c])
    /\ kept' = [kept EXCEPT ![c] = NoReason]
    /\ fresh' = [fresh EXCEPT ![c] = r]
    /\ bits' = [bits EXCEPT ![c] = r]
    /\ UNCHANGED live

(* Holds::hello is two acquisitions of the mutex.  The first takes the guard *)
(* for the new subscriptions ...                                             *)
HelloHold(c, r) ==
    /\ \A d \in Clients : fresh[d] = NoReason
    /\ held' = hold(held, r)
    /\ fresh' = [fresh EXCEPT ![c] = r]
    /\ bits' = [bits EXCEPT ![c] = r]
    /\ UNCHANGED <<kept, live>>

(* ... the second drops the guard that `insert` pushed out. *)
HelloInsert(c) ==
    /\ fresh[c] # NoReason
    /\ held' = dropAny(held, kept[c])
    /\ kept' = [kept EXCEPT ![c] = fresh[c]]
    /\ fresh' = [fresh EXCEPT ![c] = NoReason]
    /\ UNCHANGED <<bits, live>>

(* A hello with no subscription bits gives the guard back. *)
HelloNothing(c) ==
    /\ \A d \in Clients : fresh[d] = NoReason
    /\ held' = dropAny(held, kept[c])
    /\ kept' = [kept EXCEPT ![c] = NoReason]
    /\ bits' = [bits EXCEPT ![c] = NoReason]
    /\ UNCHANGED <<fresh, live>>

(* The server drops a client whose socket closed. *)
Disconnect(c) ==
    /\ c \in live
    /\ live' = live \ {c}
    /\ UNCHANGED <<held, kept, fresh, bits>>

(* Holds::reap, one client at a time: `retain` drops the guards in turn. *)
Reap(c) ==
    /\ \A d \in Clients : fresh[d] = NoReason
    /\ c \notin live /\ kept[c] # NoReason
    /\ held' = drop(held, kept[c])
    /\ kept' = [kept EXCEPT ![c] = NoReason]
    /\ bits' = [bits EXCEPT ![c] = NoReason]
    /\ UNCHANGED <<fresh, live>>

Next ==
    \/ \E l \in Latches : LatchOn(l) \/ LatchOff(l)
    \/ \E w \in Windows : OpenWindow(w) \/ CloseWindow(w)
    \/ \E c \in Clients : \/ \E r \in ClientReasons : HelloHold(c, r)
                          \/ HelloInsert(c) \/ HelloNothing(c)
                          \/ Disconnect(c) \/ Reap(c)

Spec == Init /\ [][Next]_vars

-----------------------------------------------------------------------------
TypeOK ==
    /\ DOMAIN held \subseteq Reasons
    /\ held \in [DOMAIN held -> Nat \ {0}]
    /\ kept \in [Owners -> Reasons \cup {NoReason}]
    /\ fresh \in [Clients -> Reasons \cup {NoReason}]
    /\ bits \in [Clients -> Reasons \cup {NoReason}]
    /\ live \subseteq Clients

(* The entries of g that name r: a guard kept by its owner, or a fresh one. *)
Naming(g, r) == {o \in DOMAIN g : g[o] = r}
Num(g, r) == Cardinality(Naming(g, r))
CountOf(h, r) == IF r \in DOMAIN h THEN h[r] ELSE 0

(* Device.rs counts guards, it does not list them.  The count of a reason is *)
(* exactly the number of guards naming it that have not been dropped, so the *)
(* map empties with the last guard and not before: no consumer can leak a    *)
(* claim that keeps the illuminators lit, or put out somebody else's.        *)
HeldCounts ==
    \A r \in Reasons : CountOf(held, r) = Num(kept, r) + Num(fresh, r)

(* A client whose last hello asked for data is itself a reason to keep the   *)
(* tracker on, at every instant: also between the two halves of the hello    *)
(* that replaces its guard (Holds::hello, outputs.rs), where dropping first  *)
(* would close the session and reboot the tracker.                           *)
SubscribedKeepsLit == \A c \in Clients : bits[c] # NoReason => active

(* wants_exclusive (device.rs) is read from the reasons, not from a flag: it *)
(* is true exactly while a guard of an exclusive reason exists, however many *)
(* windows opened and closed under the same reason in between.               *)
ExclusiveExact ==
    wants_exclusive <=> \E r \in EXCLUSIVE : Naming(kept, r) \cup Naming(fresh, r) # {}
=============================================================================
