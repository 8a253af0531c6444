----------------------------- MODULE HubProofs -----------------------------
(***************************************************************************)
(* The hub: who holds the tracker on, the claims of its windows, the head  *)
(* model its card installs, and its settings.  The guard count of Demand,  *)
(* for every set of owners and reasons; HubWindow for any monitors, eye    *)
(* selections and lines dragged, and any number of connections lost;       *)
(* ModelFile for any number of installs, removals and crashes of one       *)
(* installing process; SettingsMenu for any sizes and number of clicks;    *)
(* Autostart for any places to install in; EyeView for any windows,        *)
(* patiences and heads.                                                    *)
(***************************************************************************)
EXTENDS Demand, HubWindow, ModelFile, SettingsMenu, Autostart, EyeView, FiniteSetTheorems,
        TLAPS

-----------------------------------------------------------------------------
(* Demand: the guard count. *)

(* The guard count of Demand, for every set of owners and reasons.           *)

Flag(b) == IF b THEN 1 ELSE 0
Counted(h) == DOMAIN h \subseteq Reasons /\ h \in [DOMAIN h -> Nat \ {0}]
Slots(S) == [S -> Reasons \cup {NoReason}]

-----------------------------------------------------------------------------
(* The number of entries naming r is a number, and zero when there are none. *)
LEMMA NumType ==
    ASSUME NEW S, IsFiniteSet(S), NEW f \in Slots(S), NEW r
    PROVE  Num(f, r) \in Nat /\ (Num(f, r) = 0 <=> Naming(f, r) = {})
<1>1. Naming(f, r) \subseteq S
  BY DEF Naming, Slots
<1>2. IsFiniteSet(Naming(f, r))
  BY <1>1, FS_Subset
<1> QED BY <1>2, FS_CardinalityType, FS_EmptySet DEF Num

(* Setting one entry of a finite function moves the number of entries equal  *)
(* to r by the entry that left and the entry that came.                      *)
LEMMA Recount ==
    ASSUME NEW S, IsFiniteSet(S), NEW f \in Slots(S),
           NEW a \in S, NEW v \in Reasons \cup {NoReason}, NEW r
    PROVE  Num([f EXCEPT ![a] = v], r) + Flag(f[a] = r) = Num(f, r) + Flag(v = r)
<1> DEFINE A == Naming(f, r)
           B == Naming([f EXCEPT ![a] = v], r)
           R == A \ {a}
<1>1. A \subseteq S /\ B \subseteq S /\ R \subseteq S
  BY DEF Naming, Slots
<1>2. IsFiniteSet(A) /\ IsFiniteSet(B) /\ IsFiniteSet(R)
  BY <1>1, FS_Subset
<1>3. A = IF f[a] = r THEN R \cup {a} ELSE R
  BY DEF Naming, Slots
<1>4. B = IF v = r THEN R \cup {a} ELSE R
  BY DEF Naming, Slots
<1>5. Cardinality(R \cup {a}) = Cardinality(R) + 1
  BY <1>2, FS_AddElement
<1>6. Cardinality(R) \in Nat
  BY <1>2, FS_CardinalityType
<1>7. Cardinality(A) = Cardinality(R) + Flag(f[a] = r)
  BY <1>3, <1>5, <1>6 DEF Flag
<1>8. Cardinality(B) = Cardinality(R) + Flag(v = r)
  BY <1>4, <1>5, <1>6 DEF Flag
<1>9. Flag(f[a] = r) \in Nat /\ Flag(v = r) \in Nat
  BY DEF Flag
<1>10. Num(f, r) = Cardinality(A) /\ Num([f EXCEPT ![a] = v], r) = Cardinality(B)
  BY DEF Num
<1> HIDE DEF A, B, R
<1> QED BY <1>6, <1>7, <1>8, <1>9, <1>10

(* Demand::hold adds one guard to its reason and touches no other.           *)
LEMMA HoldCounts ==
    ASSUME NEW h, Counted(h), NEW r \in Reasons
    PROVE  /\ Counted(hold(h, r))
           /\ \A x \in Reasons : CountOf(hold(h, r), x) = CountOf(h, x) + Flag(x = r)
  BY DEF Counted, hold, CountOf, Flag

(* Dropping a guard that exists takes one from its reason, and removes the   *)
(* reason exactly when that was the last.                                    *)
LEMMA DropCounts ==
    ASSUME NEW h, Counted(h), NEW r \in DOMAIN h
    PROVE  /\ Counted(drop(h, r))
           /\ \A x \in Reasons : CountOf(drop(h, r), x) + Flag(x = r) = CountOf(h, x)
  BY DEF Counted, drop, CountOf, Flag

LEMMA CountType ==
    ASSUME NEW h, Counted(h), NEW r \in Reasons
    PROVE  CountOf(h, r) \in Nat /\ (CountOf(h, r) # 0 <=> r \in DOMAIN h)
  BY DEF Counted, CountOf

LEMMA OwnersFinite == IsFiniteSet(Owners) /\ IsFiniteSet(Clients) /\ Clients \subseteq Owners
<1>1. Clients \subseteq Owners
  BY DEF Owners
<1> QED BY <1>1, DemandAssumption, FS_Subset

-----------------------------------------------------------------------------
(* The conservation law, about one map and the two tables of guards.         *)
Balanced(h, k, f) ==
    /\ Counted(h) /\ k \in Slots(Owners) /\ f \in Slots(Clients)
    /\ \A r \in Reasons : CountOf(h, r) = Num(k, r) + Num(f, r)

LEMMA BalanceIsHeldCounts ==
    ASSUME TypeOK PROVE HeldCounts <=> Balanced(held, kept, fresh)
  BY DEF TypeOK, HeldCounts, Balanced, Counted, Slots

(* A reason is in the map exactly when some guard names it. *)
LEMMA GuardedIsHeld ==
    ASSUME NEW h, NEW k, NEW f, Balanced(h, k, f), NEW r \in Reasons
    PROVE  r \in DOMAIN h <=> Naming(k, r) \cup Naming(f, r) # {}
<1>1. Counted(h) /\ k \in Slots(Owners) /\ f \in Slots(Clients)
      /\ CountOf(h, r) = Num(k, r) + Num(f, r)
  BY DEF Balanced
<1>2. Num(k, r) \in Nat /\ (Num(k, r) = 0 <=> Naming(k, r) = {})
  BY <1>1, OwnersFinite, NumType
<1>3. Num(f, r) \in Nat /\ (Num(f, r) = 0 <=> Naming(f, r) = {})
  BY <1>1, OwnersFinite, NumType
<1>4. CountOf(h, r) # 0 <=> r \in DOMAIN h
  BY <1>1, CountType
<1> QED BY <1>1, <1>2, <1>3, <1>4

(* Taking a guard into an empty slot of `kept` keeps the balance. *)
LEMMA TakeKept ==
    ASSUME NEW h, NEW k, NEW f, Balanced(h, k, f),
           NEW o \in Owners, k[o] = NoReason, NEW r \in Reasons
    PROVE  Balanced(hold(h, r), [k EXCEPT ![o] = r], f)
<1>1. Counted(h) /\ k \in Slots(Owners) /\ f \in Slots(Clients)
  BY DEF Balanced
<1>2. [k EXCEPT ![o] = r] \in Slots(Owners)
  BY <1>1 DEF Slots
<1>3. /\ Counted(hold(h, r))
      /\ \A x \in Reasons : CountOf(hold(h, r), x) = CountOf(h, x) + Flag(x = r)
  BY <1>1, HoldCounts
<1>4. ASSUME NEW x \in Reasons
      PROVE  CountOf(hold(h, r), x) = Num([k EXCEPT ![o] = r], x) + Num(f, x)
  <2>1. Num([k EXCEPT ![o] = r], x) + Flag(k[o] = x) = Num(k, x) + Flag(r = x)
    BY <1>1, OwnersFinite, Recount
  <2>2. Num(k, x) \in Nat /\ Num(f, x) \in Nat /\ Num([k EXCEPT ![o] = r], x) \in Nat
    BY <1>1, <1>2, OwnersFinite, NumType
  <2>3. Flag(k[o] = x) = 0 /\ Flag(r = x) = Flag(x = r) /\ Flag(x = r) \in Nat
    BY DemandAssumption DEF Flag
  <2>4. CountOf(h, x) = Num(k, x) + Num(f, x)
    BY DEF Balanced
  <2> QED BY <1>3, <2>1, <2>2, <2>3, <2>4
<1> QED BY <1>1, <1>2, <1>3, <1>4 DEF Balanced

(* So does taking one into an empty slot of `fresh`. *)
LEMMA TakeFresh ==
    ASSUME NEW h, NEW k, NEW f, Balanced(h, k, f),
           NEW o \in Clients, f[o] = NoReason, NEW r \in Reasons
    PROVE  Balanced(hold(h, r), k, [f EXCEPT ![o] = r])
<1>1. Counted(h) /\ k \in Slots(Owners) /\ f \in Slots(Clients)
  BY DEF Balanced
<1>2. [f EXCEPT ![o] = r] \in Slots(Clients)
  BY <1>1 DEF Slots
<1>3. /\ Counted(hold(h, r))
      /\ \A x \in Reasons : CountOf(hold(h, r), x) = CountOf(h, x) + Flag(x = r)
  BY <1>1, HoldCounts
<1>4. ASSUME NEW x \in Reasons
      PROVE  CountOf(hold(h, r), x) = Num(k, x) + Num([f EXCEPT ![o] = r], x)
  <2>1. Num([f EXCEPT ![o] = r], x) + Flag(f[o] = x) = Num(f, x) + Flag(r = x)
    BY <1>1, OwnersFinite, Recount
  <2>2. Num(k, x) \in Nat /\ Num(f, x) \in Nat /\ Num([f EXCEPT ![o] = r], x) \in Nat
    BY <1>1, <1>2, OwnersFinite, NumType
  <2>3. Flag(f[o] = x) = 0 /\ Flag(r = x) = Flag(x = r) /\ Flag(x = r) \in Nat
    BY DemandAssumption DEF Flag
  <2>4. CountOf(h, x) = Num(k, x) + Num(f, x)
    BY DEF Balanced
  <2> QED BY <1>3, <2>1, <2>2, <2>3, <2>4
<1> QED BY <1>1, <1>2, <1>3, <1>4 DEF Balanced

(* And dropping the guard of a slot. *)
LEMMA DropKept ==
    ASSUME NEW h, NEW k, NEW f, Balanced(h, k, f),
           NEW o \in Owners
    PROVE  Balanced(dropAny(h, k[o]), [k EXCEPT ![o] = NoReason], f)
<1>1. Counted(h) /\ k \in Slots(Owners) /\ f \in Slots(Clients)
  BY DEF Balanced
<1>2. CASE k[o] = NoReason
  <2>1. [k EXCEPT ![o] = NoReason] = k
    BY <1>1, <1>2 DEF Slots
  <2> QED BY <1>2, <2>1 DEF dropAny
<1>3. CASE k[o] # NoReason
  <2> DEFINE r == k[o]
  <2>1. r \in Reasons /\ o \in Naming(k, r)
    BY <1>1, <1>3 DEF Slots, Naming
  <2>2. r \in DOMAIN h
    BY <2>1, GuardedIsHeld
  <2>3. /\ Counted(drop(h, r))
        /\ \A x \in Reasons : CountOf(drop(h, r), x) + Flag(x = r) = CountOf(h, x)
    BY <1>1, <2>2, DropCounts
  <2>4. [k EXCEPT ![o] = NoReason] \in Slots(Owners)
    BY <1>1 DEF Slots
  <2>5. ASSUME NEW x \in Reasons
        PROVE  CountOf(drop(h, r), x) = Num([k EXCEPT ![o] = NoReason], x) + Num(f, x)
    <3>1. Num([k EXCEPT ![o] = NoReason], x) + Flag(k[o] = x) = Num(k, x) + Flag(NoReason = x)
      BY <1>1, OwnersFinite, Recount
    <3>2. Num(k, x) \in Nat /\ Num(f, x) \in Nat /\ Num([k EXCEPT ![o] = NoReason], x) \in Nat
      BY <1>1, <2>4, OwnersFinite, NumType
    <3>3. Flag(NoReason = x) = 0 /\ Flag(k[o] = x) = Flag(x = r) /\ Flag(x = r) \in Nat
      BY DemandAssumption DEF Flag
    <3>4. CountOf(h, x) = Num(k, x) + Num(f, x) /\ CountOf(drop(h, r), x) \in Nat
      BY <2>3, CountType DEF Balanced
    <3>5. CountOf(drop(h, r), x) + Flag(x = r) = CountOf(h, x)
      BY <2>3
    <3>6. PICK n \in Nat : n = Flag(x = r)
      BY <3>3
    <3>7. Num([k EXCEPT ![o] = NoReason], x) + n = Num(k, x)
      BY <3>1, <3>2, <3>3, <3>6
    <3>8. CountOf(drop(h, r), x) + n = Num(k, x) + Num(f, x)
      BY <3>4, <3>5, <3>6
    <3> QED BY <3>2, <3>4, <3>7, <3>8
  <2> QED BY <1>1, <1>3, <2>3, <2>4, <2>5 DEF Balanced, dropAny
<1> QED BY <1>2, <1>3

(* Moving a fresh guard into an empty slot of `kept`. *)
LEMMA InsertFresh ==
    ASSUME NEW h, NEW k, NEW f, Balanced(h, k, f),
           NEW o \in Clients, k[o] = NoReason, f[o] # NoReason
    PROVE  Balanced(h, [k EXCEPT ![o] = f[o]], [f EXCEPT ![o] = NoReason])
<1>1. Counted(h) /\ k \in Slots(Owners) /\ f \in Slots(Clients) /\ o \in Owners
  BY OwnersFinite DEF Balanced
<1> DEFINE K == [k EXCEPT ![o] = f[o]]
           F == [f EXCEPT ![o] = NoReason]
<1>2. f[o] \in Reasons /\ K \in Slots(Owners) /\ F \in Slots(Clients)
  BY <1>1 DEF Slots
<1>3. ASSUME NEW x \in Reasons PROVE CountOf(h, x) = Num(K, x) + Num(F, x)
  <2>1. Num(K, x) + Flag(k[o] = x) = Num(k, x) + Flag(f[o] = x)
    BY <1>1, <1>2, OwnersFinite, Recount
  <2>2. Num(F, x) + Flag(f[o] = x) = Num(f, x) + Flag(NoReason = x)
    BY <1>1, <1>2, OwnersFinite, Recount
  <2>3. Num(k, x) \in Nat /\ Num(f, x) \in Nat /\ Num(K, x) \in Nat /\ Num(F, x) \in Nat
    BY <1>1, <1>2, OwnersFinite, NumType
  <2>4. Flag(k[o] = x) = 0 /\ Flag(NoReason = x) = 0 /\ Flag(f[o] = x) \in Nat
    BY DemandAssumption DEF Flag
  <2>5. CountOf(h, x) = Num(k, x) + Num(f, x)
    BY DEF Balanced
  <2> HIDE DEF K, F
  <2> QED BY <2>1, <2>2, <2>3, <2>4, <2>5
<1> QED BY <1>1, <1>2, <1>3 DEF Balanced

-----------------------------------------------------------------------------
(* A client whose last hello asked for data owns a guard: the strengthening  *)
(* that makes SubscribedKeepsLit inductive.                                  *)
BitsBacked ==
    \A c \in Clients : bits[c] # NoReason => kept[c] # NoReason \/ fresh[c] # NoReason

Typed ==
    /\ bits \in Slots(Clients) /\ live \subseteq Clients

DemandInv == Balanced(held, kept, fresh) /\ Typed /\ BitsBacked

LEMMA InvIsTyped == ASSUME DemandInv PROVE TypeOK /\ HeldCounts
<1>1. TypeOK
  BY DEF DemandInv, Typed, Balanced, Counted, Slots, TypeOK
<1> QED BY <1>1, BalanceIsHeldCounts DEF DemandInv

LEMMA InitInv == ASSUME Init PROVE DemandInv
<1>1. Counted(held) /\ kept \in Slots(Owners) /\ fresh \in Slots(Clients)
  BY OwnersFinite DEF Init, Counted, Slots
<1>2. ASSUME NEW r \in Reasons PROVE CountOf(held, r) = Num(kept, r) + Num(fresh, r)
  <2>1. Naming(kept, r) = {} /\ Naming(fresh, r) = {}
    BY DemandAssumption DEF Init, Naming
  <2>2. Num(kept, r) = 0 /\ Num(fresh, r) = 0
    BY <1>1, <2>1, OwnersFinite, NumType
  <2>3. CountOf(held, r) = 0
    BY DEF Init, CountOf
  <2> QED BY <2>2, <2>3
<1> QED BY <1>1, <1>2 DEF Init, DemandInv, Balanced, Typed, Slots, BitsBacked

LEMMA NextInv == ASSUME DemandInv, [Next]_vars PROVE DemandInv'
<1> DEFINE Bal == Balanced(held, kept, fresh)
<1>0. /\ Bal /\ Typed /\ BitsBacked
      /\ kept \in Slots(Owners) /\ fresh \in Slots(Clients) /\ bits \in Slots(Clients)
      /\ Latches \subseteq Owners /\ Windows \subseteq Owners /\ Clients \subseteq Owners
      /\ Latches \cap Clients = {} /\ Windows \cap Clients = {}
  BY DemandAssumption DEF DemandInv, Typed, Balanced, Owners
<1>1. ASSUME NEW o \in Latches \cup Windows, LatchOn(o) \/ OpenWindow(o) PROVE DemandInv'
  <2>1. /\ kept[o] = NoReason /\ held' = hold(held, ReasonOf[o])
        /\ kept' = [kept EXCEPT ![o] = ReasonOf[o]] /\ UNCHANGED <<fresh, bits, live>>
    BY <1>1 DEF LatchOn, OpenWindow
  <2>2. ReasonOf[o] \in Reasons /\ o \in Owners /\ o \notin Clients
    BY <1>0, DemandAssumption
  <2>3. Balanced(held', kept', fresh')
    BY <1>0, <2>1, <2>2, TakeKept
  <2>4. BitsBacked'
    BY <1>0, <2>1, <2>2 DEF BitsBacked, Slots
  <2> QED BY <1>0, <2>1, <2>3, <2>4 DEF DemandInv, Typed
<1>2. ASSUME NEW o \in Latches \cup Windows, LatchOff(o) \/ CloseWindow(o) PROVE DemandInv'
  <2>1. /\ held' = dropAny(held, kept[o])
        /\ kept' = [kept EXCEPT ![o] = NoReason] /\ UNCHANGED <<fresh, bits, live>>
    BY <1>2 DEF LatchOff, CloseWindow, dropAny
  <2>2. o \in Owners /\ o \notin Clients
    BY <1>0
  <2>3. Balanced(held', kept', fresh')
    BY <1>0, <2>1, <2>2, DropKept
  <2>4. BitsBacked'
    BY <1>0, <2>1, <2>2 DEF BitsBacked, Slots
  <2> QED BY <1>0, <2>1, <2>3, <2>4 DEF DemandInv, Typed
<1>3. ASSUME NEW c \in Clients, NEW r \in ClientReasons, HelloHold(c, r) PROVE DemandInv'
  <2>1. r \in Reasons /\ r # NoReason /\ fresh[c] = NoReason
    BY <1>3, DemandAssumption DEF HelloHold
  <2>2. /\ held' = hold(held, r) /\ fresh' = [fresh EXCEPT ![c] = r]
        /\ bits' = [bits EXCEPT ![c] = r] /\ UNCHANGED <<kept, live>>
    BY <1>3 DEF HelloHold
  <2>3. Balanced(held', kept', fresh')
    BY <1>0, <2>1, <2>2, TakeFresh
  <2>4. BitsBacked' /\ Typed'
    BY <1>0, <2>1, <2>2 DEF BitsBacked, Slots, Typed
  <2> QED BY <2>3, <2>4 DEF DemandInv
<1>4. ASSUME NEW c \in Clients, HelloInsert(c) PROVE DemandInv'
  <2> DEFINE K == [kept EXCEPT ![c] = NoReason]
  <2>1. /\ fresh[c] # NoReason /\ held' = dropAny(held, kept[c])
        /\ kept' = [kept EXCEPT ![c] = fresh[c]]
        /\ fresh' = [fresh EXCEPT ![c] = NoReason] /\ UNCHANGED <<bits, live>>
    BY <1>4 DEF HelloInsert
  <2>2. Balanced(held', K, fresh)
    BY <1>0, <2>1, DropKept
  <2>3. K[c] = NoReason /\ kept' = [K EXCEPT ![c] = fresh[c]]
    BY <1>0, <2>1 DEF Slots
  <2>4. Balanced(held', kept', fresh')
    <3> HIDE DEF K
    <3>1. Balanced(held', [K EXCEPT ![c] = fresh[c]], [fresh EXCEPT ![c] = NoReason])
      BY <2>1, <2>2, <2>3, InsertFresh
    <3> QED BY <2>1, <2>3, <3>1
  <2>5. BitsBacked'
    BY <1>0, <2>1 DEF BitsBacked, Slots
  <2> QED BY <1>0, <2>1, <2>4, <2>5 DEF DemandInv, Typed
<1>5. ASSUME NEW c \in Clients, HelloNothing(c) \/ Reap(c) PROVE DemandInv'
  <2>1. /\ held' = dropAny(held, kept[c]) /\ kept' = [kept EXCEPT ![c] = NoReason]
        /\ bits' = [bits EXCEPT ![c] = NoReason] /\ UNCHANGED <<fresh, live>>
    BY <1>5 DEF HelloNothing, Reap, dropAny
  <2>2. Balanced(held', kept', fresh')
    BY <1>0, <2>1, DropKept
  <2>3. BitsBacked' /\ Typed'
    BY <1>0, <2>1 DEF BitsBacked, Slots, Typed
  <2> QED BY <2>2, <2>3 DEF DemandInv
<1>6. ASSUME NEW c \in Clients, Disconnect(c) PROVE DemandInv'
  BY <1>0, <1>6 DEF Disconnect, DemandInv, Typed, BitsBacked
<1>7. CASE UNCHANGED vars
  BY <1>0, <1>7 DEF vars, DemandInv, Typed, BitsBacked
<1> QED BY <1>1, <1>2, <1>3, <1>4, <1>5, <1>6, <1>7 DEF Next

LEMMA InvAlways == Spec => []DemandInv
<1>1. Init => DemandInv
  BY InitInv
<1>2. DemandInv /\ [Next]_vars => DemandInv'
  BY NextInv
<1> QED BY <1>1, <1>2, PTL DEF Spec

(* The map has the type BTreeMap<reason, positive count> in every state.     *)
THEOREM DemandTyped == Spec => []TypeOK
<1>1. DemandInv => TypeOK
  BY InvIsTyped
<1> QED BY <1>1, InvAlways, PTL

(* The count of every reason is the number of guards alive that name it      *)
(* (Demand::hold, Drop for DemandGuard), whatever the consumers do.          *)
THEOREM DemandConserved == Spec => []HeldCounts
<1>1. DemandInv => HeldCounts
  BY InvIsTyped
<1> QED BY <1>1, InvAlways, PTL

(* A subscribed client keeps the tracker on, also while Holds::hello is      *)
(* between taking its new guard and dropping its old one.                    *)
THEOREM DemandKeptLit == Spec => []SubscribedKeepsLit
<1>1. DemandInv => SubscribedKeepsLit
  <2> SUFFICES ASSUME DemandInv, NEW c \in Clients, bits[c] # NoReason PROVE active
    BY DEF SubscribedKeepsLit
  <2>1. Balanced(held, kept, fresh) /\ c \in Owners
        /\ kept \in Slots(Owners) /\ fresh \in Slots(Clients)
    BY OwnersFinite DEF DemandInv, Balanced
  <2>2. PICK r \in Reasons : kept[c] = r \/ fresh[c] = r
    BY <2>1 DEF DemandInv, BitsBacked, Slots
  <2>3. c \in Naming(kept, r) \cup Naming(fresh, r)
    BY <2>1, <2>2 DEF Naming, Slots
  <2>4. r \in DOMAIN held
    BY <2>1, <2>3, GuardedIsHeld
  <2> QED BY <2>4 DEF active, reasons
<1> QED BY <1>1, InvAlways, PTL

(* The exclusive answer is exact: true while, and only while, a guard of an  *)
(* exclusive reason is alive (wants_exclusive, device.rs).                   *)
THEOREM DemandExclusiveExact == Spec => []ExclusiveExact
<1>1. DemandInv => ExclusiveExact
  <2> SUFFICES ASSUME DemandInv PROVE ExclusiveExact
    OBVIOUS
  <2>1. \A r \in EXCLUSIVE : r \in DOMAIN held <=> Naming(kept, r) \cup Naming(fresh, r) # {}
    BY DemandAssumption, GuardedIsHeld DEF DemandInv
  <2> QED BY <2>1 DEF ExclusiveExact, wants_exclusive, reasons
<1> QED BY <1>1, InvAlways, PTL

-----------------------------------------------------------------------------
(* HubWindow: claims, and flows that are forced. *)

(* HubWindow for any monitors, eye selections and lines dragged, and any   *)
(* number of connections lost: every claim on the tracker has an owner,    *)
(* and a flow that was forced is not forced again over itself.             *)
(***************************************************************************)

-----------------------------------------------------------------------------
(* Numbers of windows. *)

(* Three families leave one of the four numbers free. *)
LEMMA NumberLeft == WindowsApart => (1 .. 4) \ WindowIds(wins) # {}
<1> SUFFICES ASSUME WindowsApart, (1 .. 4) \subseteq WindowIds(wins) PROVE FALSE
  OBVIOUS
<1>1. PICK w1 \in wins : w1.id = 1
  BY DEF WindowIds
<1>2. PICK w2 \in wins : w2.id = 2
  BY DEF WindowIds
<1>3. PICK w3 \in wins : w3.id = 3
  BY DEF WindowIds
<1>4. PICK w4 \in wins : w4.id = 4
  BY DEF WindowIds
<1>5. \A w \in wins : Family(w) \in {"forced", "preview", "button"}
  BY DEF Family
<1>6. \A v, w \in wins : Family(v) = Family(w) => v.id = w.id
  BY DEF WindowsApart
<1> QED BY <1>1, <1>2, <1>3, <1>4, <1>5, <1>6

LEMMA LeastOfFour == ASSUME NEW S \in SUBSET (1 .. 4), S # {} PROVE Min(S) \in S
<1>1. PICK z \in S : TRUE
  OBVIOUS
<1>2. \A x \in S : x \in Int /\ 1 <= x /\ x <= 4
  OBVIOUS
<1>3. \E x \in S : \A y \in S : x =< y
  <2>1. CASE 1 \in S
    BY <1>2, <2>1
  <2>2. CASE 1 \notin S /\ 2 \in S
    BY <1>2, <2>2
  <2>3. CASE 1 \notin S /\ 2 \notin S /\ 3 \in S
    BY <1>2, <2>3
  <2>4. CASE 1 \notin S /\ 2 \notin S /\ 3 \notin S
    <3>1. \A x \in S : x = 4
      BY <1>2, <2>4
    <3> QED BY <1>1, <3>1
  <2> QED BY <2>1, <2>2, <2>3, <2>4
<1> QED BY <1>3 DEF Min

(* A window that is opened has a number nobody has. *)
LEMMA OpenedIs ==
    ASSUME WindowsApart, NEW kind, NEW why
    PROVE  LET w == Opens(kind, why) IN
           /\ w.id \in (1 .. 4) \ WindowIds(wins) /\ w.kind = kind /\ w.why = why
           /\ DOMAIN w = {"id", "kind", "why", "page"}
<1>1. Min((1 .. 4) \ WindowIds(wins)) \in (1 .. 4) \ WindowIds(wins)
  BY NumberLeft, LeastOfFour
<1> QED BY <1>1 DEF Opens

(* A window opens, and those in `off' close: whose family it is stays apart. *)
LEMMA OpenedApart ==
    ASSUME WindowsApart, NEW w, NEW off \in SUBSET wins,
           w.id \in (1 .. 4) \ WindowIds(wins), DOMAIN w = {"id", "kind", "why", "page"},
           Forced(w) => w.kind # "preview",
           \A v \in wins \ off : Family(v) # Family(w),
           \A v \in off : ~Forced(v),
           wins' = (wins \ off) \cup {w},
           forced_open' = (forced_open \/ Forced(w))
    PROVE  WindowsApart'
<1>1. \A v \in wins : v.id # w.id
  BY DEF WindowIds
<1>2. \A v \in wins' : /\ DOMAIN v = {"id", "kind", "why", "page"} /\ v.id \in 1 .. 4
                       /\ Forced(v) => v.kind # "preview"
  BY DEF WindowsApart
<1>3. \A u, v \in wins' : u.id = v.id \/ Family(u) = Family(v) => u = v
  BY <1>1 DEF WindowsApart
<1>4. forced_open' \in BOOLEAN /\ (forced_open' <=> \E v \in wins' : Forced(v))
  BY DEF WindowsApart, Forced
<1> QED BY <1>2, <1>3, <1>4 DEF WindowsApart, Family, Forced

LEMMA OpenedOwned ==
    ASSUME WindowsApart, claim \ {HubHold} = WindowIds(wins), NEW w, NEW off \in SUBSET wins,
           w.id \in (1 .. 4) \ WindowIds(wins), wins' = (wins \ off) \cup {w}, NEW c,
           c = (claim \cup {w.id}) \ WindowIds(off)
    PROVE  c \ {HubHold} = WindowIds(wins') /\ (HubHold \in c <=> HubHold \in claim)
<1>1. \A v \in wins : v.id # HubHold /\ v.id # w.id
  BY DEF WindowsApart, WindowIds, HubHold
<1>2. \A u, v \in wins : u.id = v.id => u = v
  BY DEF WindowsApart
<1>3. WindowIds(wins') = (WindowIds(wins) \ WindowIds(off)) \cup {w.id}
  BY <1>1, <1>2 DEF WindowIds
<1>4. w.id # HubHold /\ HubHold \notin WindowIds(off) /\ w.id \notin WindowIds(off)
  BY <1>1 DEF HubHold, WindowIds
<1> QED BY <1>3, <1>4

(* Windows close. *)
LEMMA ClosedOwned ==
    ASSUME WindowsApart, ClaimsOwned, NEW ws \in SUBSET wins,
           wins' = wins \ ws, claim' = claim \ WindowIds(ws), hub'.mapped = hub.mapped
    PROVE  ClaimsOwned'
<1>1. \A v \in wins : v.id # HubHold
  BY DEF WindowsApart, HubHold
<1>2. \A u, v \in wins : u.id = v.id => u = v
  BY DEF WindowsApart
<1>3. WindowIds(wins') = WindowIds(wins) \ WindowIds(ws)
  BY <1>2 DEF WindowIds
<1> QED BY <1>1, <1>3 DEF ClaimsOwned, HubHold

LEMMA ClosedApart ==
    ASSUME WindowsApart, NEW ws \in SUBSET wins, wins' = wins \ ws,
           forced_open' = (forced_open /\ ~\E w \in ws : Forced(w))
    PROVE  WindowsApart'
<1>1. forced_open' \in BOOLEAN /\ (forced_open' <=> \E w \in wins' : Forced(w))
  <2>1. \A v, w \in wins : Forced(v) /\ Forced(w) => v = w
    BY DEF WindowsApart, Family
  <2> QED BY <2>1 DEF WindowsApart
<1> QED BY <1>1 DEF WindowsApart, Family, Forced

(* A page of a window is turned. *)
LEMMA TurnedApart ==
    ASSUME WindowsApart, NEW w \in wins, NEW page,
           wins' = (wins \ {w}) \cup {[w EXCEPT !.page = page]}, forced_open' = forced_open
    PROVE  WindowsApart' /\ WindowIds(wins') = WindowIds(wins)
<1> DEFINE t == [w EXCEPT !.page = page]
<1>1. t.id = w.id /\ t.kind = w.kind /\ t.why = w.why /\ DOMAIN t = {"id", "kind", "why", "page"}
  BY DEF WindowsApart
<1>2. (Forced(t) <=> Forced(w)) /\ Family(t) = Family(w)
  BY <1>1 DEF Forced, Family
<1> HIDE DEF t
<1>3. wins' = (wins \ {w}) \cup {t}
  BY DEF t
<1>4. WindowIds(wins') = WindowIds(wins)
  BY <1>1, <1>3 DEF WindowIds
<1>5. \A v \in wins' : /\ DOMAIN v = {"id", "kind", "why", "page"} /\ v.id \in 1 .. 4
                       /\ Forced(v) => v.kind # "preview"
  BY <1>1, <1>2, <1>3 DEF WindowsApart
<1>6. \A u, v \in wins' : u.id = v.id \/ Family(u) = Family(v) => u = v
  BY <1>1, <1>2, <1>3 DEF WindowsApart
<1>7. forced_open' \in BOOLEAN /\ (forced_open' <=> \E v \in wins' : Forced(v))
  BY <1>2, <1>3 DEF WindowsApart
<1> QED BY <1>4, <1>5, <1>6, <1>7 DEF WindowsApart, Family, Forced
-----------------------------------------------------------------------------
LEMMA WindowInit == HubInit => HubWindowInv
<1> SUFFICES ASSUME HubInit PROVE HubWindowInv
  OBVIOUS
<1>1. WindowsApart /\ ClaimsOwned /\ HubOK
  BY DEF HubInit, WindowsApart, ClaimsOwned, WindowIds, HubHold, HubOK
<1>2. ForcedIsDone
  BY DEF HubInit, ForcedIsDone
<1>3. ForcedInOrder
  BY DEF HubInit, ForcedInOrder, FirstStart, Configured
<1> QED BY <1>1, <1>2, <1>3 DEF HubWindowInv

LEMMA OwnedKept == HubWindowInv /\ HubWindowNext => HubOK' /\ ClaimsOwned' /\ WindowsApart'
<1> SUFFICES ASSUME HubWindowInv, HubWindowNext PROVE HubOK' /\ ClaimsOwned' /\ WindowsApart'
  OBVIOUS
<1> USE DEF HubWindowInv
<1>h. DOMAIN hub = DOMAIN NoHub /\ {"mapped", "built", "active", "sensitive", "line", "minimised"} \subseteq DOMAIN hub
  BY DEF HubOK, NoHub
<1>s. ASSUME UNCHANGED <<wins, claim, forced_open>>, hub'.mapped = hub.mapped
      PROVE  ClaimsOwned' /\ WindowsApart'
  BY <1>s DEF ClaimsOwned, WindowsApart, WindowIds, Family, Forced
<1>1. CASE Activate
  <2>1. HubOK' /\ (hub' = hub \/ hub'.mapped)
    BY <1>1, <1>h DEF Activate, BuildHub, HubOK, NoHub
  <2>2. UNCHANGED <<wins, claim, forced_open>>
    BY <1>1 DEF Activate
  <2> QED BY <2>1, <2>2 DEF ClaimsOwned, WindowsApart, WindowIds, Family, Forced
<1>2. CASE SetupClicked
  <2> DEFINE w == Opens("setup", "button")
  <2>1. wins' = (wins \ {}) \cup {w} /\ claim' = (claim \cup {w.id}) \ WindowIds({}) /\ hub' = hub /\ forced_open' = forced_open
    BY <1>2 DEF SetupClicked, HoldWhileOpen, WindowIds
  <2>2. w.id \in (1 .. 4) \ WindowIds(wins) /\ w.kind = "setup" /\ w.why = "button" /\ DOMAIN w = {"id", "kind", "why", "page"}
    BY OpenedIs
  <2> HIDE DEF w
  <2>3. ~Forced(w) /\ \A v \in wins : Family(v) # Family(w)
    BY <1>2, <2>2 DEF SetupClicked, Modal, Family, Forced, WindowsApart
  <2>f. forced_open' = (forced_open \/ Forced(w))
    BY <2>1, <2>3 DEF WindowsApart
  <2>4. WindowsApart'
    BY <2>1, <2>2, <2>3, <2>f, OpenedApart
  <2>5. ClaimsOwned'
    BY <2>1, <2>2, OpenedOwned DEF ClaimsOwned
  <2> QED BY <2>1, <2>4, <2>5 DEF HubOK
<1>3. ASSUME NEW b \in {"cal", "recal"}, CalibrateClicked(b) PROVE HubOK' /\ ClaimsOwned' /\ WindowsApart'
  <2> DEFINE w == Opens("calibration", b)
  <2>1. /\ wins' = (wins \ Preview) \cup {w} /\ claim' = (claim \cup {w.id}) \ WindowIds(Preview)
        /\ hub' = hub /\ forced_open' = forced_open
    BY <1>3 DEF CalibrateClicked, HoldWhileOpen
  <2>2. w.id \in (1 .. 4) \ WindowIds(wins) /\ w.kind = "calibration" /\ w.why = b /\ DOMAIN w = {"id", "kind", "why", "page"}
    BY OpenedIs
  <2> HIDE DEF w
  <2>3. Preview \subseteq wins /\ ~Forced(w) /\ wins \ Preview = {} /\ \A v \in Preview : ~Forced(v)
    BY <1>3, <2>2 DEF CalibrateClicked, Modal, Preview, Forced, WindowsApart
  <2>f. forced_open' = (forced_open \/ Forced(w))
    BY <2>1, <2>3 DEF WindowsApart
  <2>4. WindowsApart'
    BY <2>1, <2>2, <2>3, <2>f, OpenedApart
  <2>5. ClaimsOwned'
    BY <2>1, <2>2, <2>3, OpenedOwned DEF ClaimsOwned
  <2> QED BY <2>1, <2>4, <2>5 DEF HubOK
<1>4. CASE DismissBanner
  BY <1>4, <1>s DEF DismissBanner, HubOK
<1>5. CASE PreviewSwitched
  <2>1. Preview \subseteq wins /\ \A v \in Preview : ~Forced(v)
    BY DEF Preview, WindowsApart
  <2>2. CASE Preview = {}
    <3> DEFINE w == Opens("preview", "switch")
    <3>1. wins' = (wins \ {}) \cup {w} /\ claim' = (claim \cup {w.id}) \ WindowIds({}) /\ hub' = hub /\ forced_open' = forced_open
      BY <1>5, <2>2 DEF PreviewSwitched, HoldWhileOpen, WindowIds
    <3>2. w.id \in (1 .. 4) \ WindowIds(wins) /\ w.kind = "preview" /\ w.why = "switch" /\ DOMAIN w = {"id", "kind", "why", "page"}
      BY OpenedIs
    <3> HIDE DEF w
    <3>3. ~Forced(w) /\ wins = {}
      BY <1>5, <2>2, <3>2 DEF PreviewSwitched, Modal, Preview, Forced
    <3>f. forced_open' = (forced_open \/ Forced(w))
      BY <3>1, <3>3 DEF WindowsApart
    <3>4. WindowsApart'
      BY <3>1, <3>2, <3>3, <3>f, OpenedApart
    <3>5. ClaimsOwned'
      BY <3>1, <3>2, OpenedOwned DEF ClaimsOwned
    <3> QED BY <3>1, <3>4, <3>5 DEF HubOK
  <2>3. CASE Preview # {}
    <3>1. wins' = wins \ Preview /\ claim' = claim \ WindowIds(Preview) /\ hub' = hub /\ forced_open' = forced_open
      BY <1>5, <2>3 DEF PreviewSwitched
    <3>2. ClaimsOwned'
      BY <2>1, <3>1, ClosedOwned
    <3>3. WindowsApart'
      BY <2>1, <3>1, ClosedApart DEF WindowsApart
    <3> QED BY <3>1, <3>2, <3>3 DEF HubOK
  <2> QED BY <2>2, <2>3
<1>c. ASSUME NEW w \in wins, NEW f, CloseAll({w}, f)
      PROVE  HubOK' /\ ClaimsOwned' /\ WindowsApart'
  <2>1. wins' = wins \ {w} /\ claim' = claim \ WindowIds({w})
    BY <1>c DEF CloseAll
  <2>2. hub'.mapped = hub.mapped /\ HubOK'
    BY <1>c, <1>h DEF CloseAll, HubOK, NoHub
  <2>3. forced_open' = (forced_open /\ ~\E v \in {w} : Forced(v))
    BY <1>c DEF CloseAll
  <2>4. ClaimsOwned'
    BY <2>1, <2>2, ClosedOwned
  <2>5. WindowsApart'
    BY <2>1, <2>3, ClosedApart
  <2> QED BY <2>2, <2>4, <2>5
<1>t. ASSUME NEW w \in wins, NEW page, wins' = (wins \ {w}) \cup {[w EXCEPT !.page = page]},
             UNCHANGED <<claim, hub, forced_open>>
      PROVE  HubOK' /\ ClaimsOwned' /\ WindowsApart'
  <2>1. WindowsApart' /\ WindowIds(wins') = WindowIds(wins)
    BY <1>t, TurnedApart
  <2> QED BY <1>t, <2>1 DEF ClaimsOwned, HubOK
<1>6. ASSUME NEW w \in wins, CloseFlow(w) PROVE HubOK' /\ ClaimsOwned' /\ WindowsApart'
  BY <1>6, <1>c DEF CloseFlow
<1>7. ASSUME NEW w \in wins, Wizard(w) PROVE HubOK' /\ ClaimsOwned' /\ WindowsApart'
  <2>1. PICK page, n : Turn(w, page, n)
    BY <1>7 DEF Wizard
  <2> QED BY <1>t, <2>1 DEF Turn
<1>8. ASSUME NEW w \in wins, CalibrationSaved(w) PROVE HubOK' /\ ClaimsOwned' /\ WindowsApart'
  BY <1>8, <1>s DEF CalibrationSaved, HubOK
<1>9. ASSUME NEW w \in wins, NEW ok \in BOOLEAN, NEW idOk \in BOOLEAN, PostureDone(w, ok, idOk)
      PROVE  HubOK' /\ ClaimsOwned' /\ WindowsApart'
  <2>1. CASE ok /\ idOk
    BY <1>9, <1>c, <2>1 DEF PostureDone
  <2>2. CASE ~(ok /\ idOk)
    <3>1. /\ wins' = (wins \ {w}) \cup {[w EXCEPT !.page = [w.page EXCEPT !.warned = TRUE]]}
          /\ UNCHANGED <<claim, hub, forced_open>>
      BY <1>9, <2>2 DEF PostureDone
    <3> QED BY <1>t, <3>1
  <2> QED BY <2>1, <2>2
<1>10. CASE TickHidden
  <2>1. UNCHANGED <<wins, hub, forced_open>> /\ claim' \ {HubHold} = claim \ {HubHold} /\ hub.mapped
    BY <1>10 DEF TickHidden, FocusHold
  <2> QED BY <2>1 DEF ClaimsOwned, WindowsApart, WindowIds, Family, Forced, HubOK
<1>l. ASSUME NEW kind \in {"setup", "calibration"}, NEW why \in {"ForceSetup", "ForceCalibration"},
             LaunchForced(kind, why), ~forced_open, hub.mapped
      PROVE  HubOK' /\ ClaimsOwned' /\ WindowsApart'
  <2> DEFINE w == Opens(kind, why)
             off == IF kind = "calibration" THEN Preview ELSE {}
             c == (claim \cup {w.id}) \ WindowIds(off)
  <2>1. wins' = (wins \ off) \cup {w} /\ claim' = FocusHold(c) /\ hub' = [hub EXCEPT !.sensitive = FALSE] /\ forced_open' = TRUE
    BY <1>l DEF LaunchForced, HoldWhileOpen
  <2>2. w.id \in (1 .. 4) \ WindowIds(wins) /\ w.kind = kind /\ w.why = why /\ DOMAIN w = {"id", "kind", "why", "page"}
    BY OpenedIs
  <2>3. off \in SUBSET wins /\ (\A v \in wins : ~Forced(v)) /\ hub'.mapped = hub.mapped /\ HubOK'
    BY <1>l, <1>h, <2>1 DEF Preview, WindowsApart, HubOK, NoHub
  <2> HIDE DEF w, off
  <2>4. Forced(w) /\ (\A v \in wins : Family(v) # Family(w)) /\ w.kind # "preview"
    BY <2>2, <2>3 DEF Forced, Family
  <2>5. WindowsApart'
    BY <1>l, <2>1, <2>2, <2>3, <2>4, OpenedApart
  <2>6. claim \ {HubHold} = WindowIds(wins)
    BY DEF ClaimsOwned
  <2>7. c \ {HubHold} = WindowIds(wins')
    BY <2>1, <2>2, <2>3, <2>6, OpenedOwned
  <2>8. claim' \ {HubHold} = c \ {HubHold}
    BY <2>1 DEF FocusHold
  <2>9. ClaimsOwned'
    BY <1>l, <2>3, <2>7, <2>8 DEF ClaimsOwned
  <2> QED BY <2>3, <2>5, <2>9
<1>11. CASE TickShown
  <2>1. CASE AsksNow /\ Evaluate(saved) = "ForceSetup"
    BY <1>11, <1>l, <2>1 DEF TickShown, AsksNow
  <2>2. CASE AsksNow /\ Evaluate(saved) = "ForceCalibration"
    BY <1>11, <1>l, <2>2 DEF TickShown, AsksNow
  <2>3. CASE ~(AsksNow /\ Evaluate(saved) \in {"ForceSetup", "ForceCalibration"})
    <3>1. UNCHANGED <<wins, hub, forced_open>> /\ claim' = FocusHold(claim) /\ hub.mapped
      BY <1>11, <2>3 DEF TickShown
    <3>2. claim' \ {HubHold} = claim \ {HubHold}
      BY <3>1 DEF FocusHold
    <3> QED BY <3>1, <3>2 DEF ClaimsOwned, WindowsApart, WindowIds, Family, Forced, HubOK
  <2> QED BY <2>1, <2>2, <2>3
<1>12. CASE FocusMoves
  <2>1. hub'.mapped = hub.mapped /\ HubOK'
    BY <1>12, <1>h DEF FocusMoves, HubOK, NoHub
  <2> QED BY <1>12, <1>s, <2>1 DEF FocusMoves
<1>13. CASE SwitchTab
  <2>1. hub'.mapped = hub.mapped /\ HubOK'
    BY <1>13, <1>h DEF SwitchTab, HubOK, NoHub
  <2> QED BY <1>13, <1>s, <2>1 DEF SwitchTab
<1>14. ASSUME NEW tray \in BOOLEAN, HideHub(tray) PROVE HubOK' /\ ClaimsOwned' /\ WindowsApart'
  <2>1. HubOK' /\ UNCHANGED <<wins, forced_open>>
    BY <1>14, <1>h DEF HideHub, HubOK, NoHub
  <2>2. CASE tray
    BY <1>14, <2>1, <2>2 DEF HideHub, Unmapped, ClaimsOwned, WindowsApart, WindowIds, Family, Forced
  <2>3. CASE ~tray
    <3>1. hub'.mapped = hub.mapped /\ claim' = claim
      BY <1>14, <1>h, <2>3 DEF HideHub
    <3> QED BY <1>s, <2>1, <3>1
  <2> QED BY <2>2, <2>3
<1>15. CASE QuitEverything
  <2>1. CASE hub.built
    <3>1. wins' = {} /\ claim' = {} /\ forced_open' = FALSE /\ HubOK'
      BY <1>15, <2>1 DEF QuitEverything, ClaimsOwned, HubOK, NoHub
    <3> QED BY <3>1 DEF ClaimsOwned, WindowsApart, WindowIds
  <2>2. CASE ~hub.built
    BY <1>15, <1>s, <2>2 DEF QuitEverything, HubOK
  <2> QED BY <2>1, <2>2
<1>16. ASSUME NEW e \in Eyes, EyeClicked(e) PROVE HubOK' /\ ClaimsOwned' /\ WindowsApart'
  BY <1>16, <1>s DEF EyeClicked, HubOK
<1>17. CASE Connects
  BY <1>17, <1>s DEF Connects, HubOK
<1>18. CASE Disconnects
  BY <1>18, <1>s DEF Disconnects, HubOK
<1>19. CASE TakesEye
  BY <1>19, <1>s DEF TakesEye, AppliesEye, HubOK
<1> QED
  BY <1>1, <1>2, <1>3, <1>4, <1>5, <1>6, <1>7, <1>8, <1>9, <1>10, <1>11, <1>12, <1>13, <1>14, <1>15, <1>16,
     <1>17, <1>18, <1>19 DEF HubWindowNext

(* What closing a forced flow makes the hub ask again for is something else. *)
LEMMA AskedAgain ==
    ASSUME HubWindowInv, NEW w \in wins, NEW f, saved.setup # {} => f.setup # {}, saved.cal # {} => f.cal # {},
           CloseAll({w}, f), saved' = f, DOMAIN f = DOMAIN saved, UNCHANGED <<conn, forcedFor>>
    PROVE  ForcedInOrder' /\ ForcedIsDone'
<1> USE DEF HubWindowInv
<1>1. /\ wins' \subseteq wins /\ forced_open' = (forced_open /\ ~Forced(w))
      /\ evaluated' = (evaluated /\ ~(Forced(w) /\ Reasks(f, w.why)))
  BY DEF CloseAll
<1>2. ForcedInOrder'
  BY <1>1 DEF ForcedInOrder
<1>3. Evaluate(f) = "ForceSetup" \/ f.setup # {}
  BY DEF Evaluate, Decide
<1>4. Evaluate(f) = "ForceCalibration" \/ f.cal # {} \/ f.setup = {}
  BY DEF Evaluate, Decide
<1>5. ASSUME conn', ~evaluated' PROVE IF forced_open' THEN forcedFor' = {}
                                      ELSE /\ "ForceSetup" \in forcedFor' => saved'.setup # {}
                                           /\ "ForceCalibration" \in forcedFor' => saved'.cal # {}
  <2>1. CASE ~evaluated /\ ~forced_open
    BY <1>1, <1>5, <2>1 DEF ForcedIsDone
  <2>2. CASE ~evaluated /\ forced_open
    BY <1>5, <2>2 DEF ForcedIsDone
  <2>3. CASE evaluated
    <3>1. Forced(w) /\ Evaluate(f) # w.why /\ ~forced_open'
      BY <1>1, <1>5, <2>3 DEF Reasks
    <3>2. CASE w.why = "ForceSetup"
      BY <1>3, <3>1, <3>2 DEF ForcedInOrder
    <3>3. CASE w.why = "ForceCalibration"
      BY <1>3, <1>4, <3>1, <3>3 DEF ForcedInOrder
    <3> QED BY <3>1, <3>2, <3>3 DEF Forced
  <2> QED BY <2>1, <2>2, <2>3
<1> QED BY <1>2, <1>5 DEF ForcedIsDone

LEMMA ForcedKept == HubWindowInv /\ HubWindowNext => ForcedInOrder' /\ ForcedIsDone'
<1> SUFFICES ASSUME HubWindowInv, HubWindowNext PROVE ForcedInOrder' /\ ForcedIsDone'
  OBVIOUS
<1> USE DEF HubWindowInv
<1>s. ASSUME \A w \in wins' : w.why \in {"ForceSetup", "ForceCalibration"} => \E v \in wins : v.why = w.why,
             DOMAIN saved' = DOMAIN saved, saved.setup # {} => saved'.setup # {}, saved.cal # {} => saved'.cal # {},
             UNCHANGED <<forced_open, evaluated, conn, forcedFor>>
      PROVE  ForcedInOrder' /\ ForcedIsDone'
  <2>1. ForcedInOrder'
    BY <1>s DEF ForcedInOrder
  <2>2. ForcedIsDone'
    BY <1>s DEF ForcedIsDone
  <2> QED BY <2>1, <2>2
<1>o. \A kind, why : Opens(kind, why).why = why
  BY DEF Opens
<1>d. DOMAIN saved = {"setup", "monitor", "cal", "eye"}
  BY DEF ForcedInOrder
<1>1. CASE Activate
  BY <1>1, <1>s DEF Activate
<1>2. CASE SetupClicked
  BY <1>2, <1>s, <1>o DEF SetupClicked
<1>3. ASSUME NEW b \in {"cal", "recal"}, CalibrateClicked(b) PROVE ForcedInOrder' /\ ForcedIsDone'
  BY <1>3, <1>s, <1>o DEF CalibrateClicked
<1>4. CASE DismissBanner
  BY <1>4, <1>s DEF DismissBanner
<1>5. CASE PreviewSwitched
  <2>1. wins' \subseteq wins \cup {Opens("preview", "switch")}
    BY <1>5 DEF PreviewSwitched
  <2> QED BY <1>5, <1>s, <1>o, <2>1 DEF PreviewSwitched
<1>6. ASSUME NEW w \in wins, CloseFlow(w) PROVE ForcedInOrder' /\ ForcedIsDone'
  BY <1>6, AskedAgain DEF CloseFlow
<1>t. ASSUME NEW w \in wins, NEW page, wins' = (wins \ {w}) \cup {[w EXCEPT !.page = page]}
      PROVE  \A v \in wins' : \E u \in wins : u.why = v.why
  <2>1. [w EXCEPT !.page = page].why = w.why
    BY DEF WindowsApart
  <2> QED BY <1>t, <2>1
<1>7. ASSUME NEW w \in wins, Wizard(w) PROVE ForcedInOrder' /\ ForcedIsDone'
  <2>1. PICK page, n : Turn(w, page, n)
    BY <1>7 DEF Wizard
  <2>2. \A v \in wins' : \E u \in wins : u.why = v.why
    BY <1>t, <2>1 DEF Turn
  <2> QED BY <1>s, <2>1, <2>2 DEF Turn
<1>8. ASSUME NEW w \in wins, CalibrationSaved(w) PROVE ForcedInOrder' /\ ForcedIsDone'
  <2>1. DOMAIN saved' = DOMAIN saved /\ saved'.setup = saved.setup /\ saved'.cal # {}
    BY <1>8, <1>d DEF CalibrationSaved
  <2> QED BY <1>8, <1>s, <2>1 DEF CalibrationSaved
<1>9. ASSUME NEW w \in wins, NEW ok \in BOOLEAN, NEW idOk \in BOOLEAN, PostureDone(w, ok, idOk)
      PROVE  ForcedInOrder' /\ ForcedIsDone'
  <2>1. DOMAIN saved' = DOMAIN saved /\ (saved.setup # {} => saved'.setup # {}) /\ saved'.cal = saved.cal
    BY <1>9, <1>d DEF PostureDone
  <2>2. UNCHANGED <<conn, forcedFor>>
    BY <1>9 DEF PostureDone
  <2>3. CASE ok /\ idOk
    <3>1. CloseAll({w}, saved')
      BY <1>9, <2>3 DEF PostureDone
    <3> QED BY <2>1, <2>2, <3>1, AskedAgain
  <2>4. CASE ~(ok /\ idOk)
    <3>1. /\ wins' = (wins \ {w}) \cup {[w EXCEPT !.page = [w.page EXCEPT !.warned = TRUE]]}
          /\ UNCHANGED <<forced_open, evaluated>>
      BY <1>9, <2>4 DEF PostureDone
    <3> QED BY <1>s, <1>t, <2>1, <2>2, <3>1
  <2> QED BY <2>3, <2>4
<1>10. CASE TickHidden
  BY <1>10, <1>s DEF TickHidden
<1>11. CASE TickShown
  <2>0. UNCHANGED <<conn, saved>> /\ evaluated' = (conn /\ (evaluated \/ AsksNow))
    BY <1>11 DEF TickShown
  <2>1. ASSUME NEW kind, NEW why \in {"ForceSetup", "ForceCalibration"}, LaunchForced(kind, why),
               AsksNow, Evaluate(saved) = why
        PROVE  ForcedInOrder' /\ ForcedIsDone'
    <3>1. /\ wins' \subseteq wins \cup {Opens(kind, why)} /\ forcedFor' = forcedFor \cup {why}
          /\ evaluated' /\ conn /\ ~evaluated /\ ~forced_open
      BY <2>0, <2>1 DEF LaunchForced, AsksNow
    <3>2. \A v \in wins : v.why \notin {"ForceSetup", "ForceCalibration"}
      BY <3>1 DEF WindowsApart, Forced
    <3>3. why = "ForceSetup" <=> saved.setup = {}
      BY <2>1 DEF Evaluate, Decide
    <3>4. ForcedInOrder'
      <4>1. forcedFor' \subseteq {"ForceSetup", "ForceCalibration"}
        BY <3>1 DEF ForcedInOrder
      <4>2. "ForceCalibration" \in forcedFor' => saved'.setup # {}
        BY <2>0, <2>1, <3>1, <3>3 DEF ForcedInOrder
      <4>3. \A w \in wins' : w.why = "ForceCalibration" => saved'.setup # {}
        BY <2>0, <2>1, <3>1, <3>2, <3>3, <1>o
      <4>4. \A w \in wins' : w.why = "ForceSetup" => "ForceCalibration" \notin forcedFor'
        BY <2>0, <2>1, <3>1, <3>2, <3>3, <1>o DEF ForcedInOrder
      <4> QED BY <1>d, <2>0, <4>1, <4>2, <4>3, <4>4 DEF ForcedInOrder
    <3> QED BY <3>1, <3>4 DEF ForcedIsDone
  <2>2. CASE AsksNow /\ Evaluate(saved) = "ForceSetup"
    BY <1>11, <2>1, <2>2 DEF TickShown
  <2>3. CASE AsksNow /\ Evaluate(saved) = "ForceCalibration"
    BY <1>11, <2>1, <2>3 DEF TickShown
  <2>4. CASE ~(AsksNow /\ Evaluate(saved) \in {"ForceSetup", "ForceCalibration"})
    <3>1. UNCHANGED <<wins, forced_open, forcedFor>>
      BY <1>11, <2>4 DEF TickShown
    <3>2. ForcedInOrder'
      BY <2>0, <3>1 DEF ForcedInOrder
    <3>3. conn' /\ ~evaluated' => conn /\ ~evaluated /\ forced_open
      BY <2>0 DEF AsksNow
    <3>4. ForcedIsDone'
      BY <2>0, <3>1, <3>3 DEF ForcedIsDone
    <3> QED BY <3>2, <3>4
  <2> QED BY <2>2, <2>3, <2>4
<1>12. CASE FocusMoves
  BY <1>12, <1>s DEF FocusMoves
<1>13. CASE SwitchTab
  BY <1>13, <1>s DEF SwitchTab
<1>14. ASSUME NEW tray \in BOOLEAN, HideHub(tray) PROVE ForcedInOrder' /\ ForcedIsDone'
  BY <1>14, <1>s DEF HideHub
<1>15. CASE QuitEverything
  <2>1. wins' \subseteq wins /\ ~conn' /\ UNCHANGED <<saved, forcedFor>>
    BY <1>15 DEF QuitEverything
  <2> QED BY <2>1 DEF ForcedInOrder, ForcedIsDone
<1>16. ASSUME NEW e \in Eyes, EyeClicked(e) PROVE ForcedInOrder' /\ ForcedIsDone'
  <2>1. DOMAIN saved' = DOMAIN saved /\ saved'.setup = saved.setup /\ saved'.cal = saved.cal
    BY <1>16, <1>d DEF EyeClicked
  <2> QED BY <1>16, <1>s, <2>1 DEF EyeClicked
<1>17. CASE Connects
  <2>1. forcedFor' = {} /\ UNCHANGED <<wins, saved>>
    BY <1>17 DEF Connects
  <2> QED BY <2>1 DEF ForcedInOrder, ForcedIsDone
<1>18. CASE Disconnects
  <2>1. ~conn' /\ UNCHANGED <<wins, saved, forcedFor>>
    BY <1>18 DEF Disconnects
  <2> QED BY <2>1 DEF ForcedInOrder, ForcedIsDone
<1>19. CASE TakesEye
  BY <1>19, <1>s DEF TakesEye, AppliesEye
<1> QED
  BY <1>1, <1>2, <1>3, <1>4, <1>5, <1>6, <1>7, <1>8, <1>9, <1>10, <1>11, <1>12, <1>13, <1>14, <1>15, <1>16,
     <1>17, <1>18, <1>19 DEF HubWindowNext

-----------------------------------------------------------------------------
LEMMA WindowInvKept == HubWindowInv /\ [HubWindowNext]_hubVars => HubWindowInv'
<1>1. HubWindowInv /\ HubWindowNext => HubWindowInv'
  BY OwnedKept, ForcedKept DEF HubWindowInv
<1>2. HubWindowInv /\ UNCHANGED hubVars => HubWindowInv'
  BY DEF HubWindowInv, HubOK, ClaimsOwned, WindowsApart, ForcedInOrder, ForcedIsDone, hubVars,
         WindowIds, Family, Forced
<1> QED BY <1>1, <1>2

(* Whatever windows are opened, closed, hidden and quit: what holds the       *)
(* tracker on is an open window, or the hub while it is mapped.              *)
THEOREM WindowClaimsOwned == HubWindowSpec => []ClaimsOwned
<1>1. HubWindowInv => ClaimsOwned
  BY DEF HubWindowInv
<1> QED BY <1>1, WindowInit, WindowInvKept, PTL DEF HubWindowSpec

(* A flow the user got rid of is not forced again while the connection lasts, *)
(* whatever was saved, dropped and opened in between.                        *)
THEOREM WindowForcedOnce == HubWindowSpec => [][ForcedOnce]_hubVars
<1>1. ASSUME HubWindowInv, HubWindowNext PROVE ForcedOnce
  <2>1. SUFFICES ASSUME forced_open', ~forced_open PROVE Evaluate(saved) \notin forcedFor
    BY DEF ForcedOnce
  <2>2. AsksNow
    <3>1. \A ws, f : CloseAll(ws, f) => ~forced_open'
      BY <2>1 DEF CloseAll
    <3> QED BY <1>1, <2>1, <3>1 DEF HubWindowNext, Activate, SetupClicked, CalibrateClicked, DismissBanner,
              PreviewSwitched, CloseFlow, Wizard, Turn, CalibrationSaved, PostureDone, TickHidden, TickShown,
              FocusMoves, SwitchTab, HideHub, QuitEverything, EyeClicked, Connects, Disconnects, TakesEye, AppliesEye
  <2>3. Evaluate(saved) = "ForceSetup" => saved.setup = {}
    BY DEF Evaluate, Decide
  <2>4. Evaluate(saved) = "ForceCalibration" => saved.cal = {}
    BY DEF Evaluate, Decide
  <2> QED BY <1>1, <2>1, <2>2, <2>3, <2>4 DEF AsksNow, HubWindowInv, ForcedIsDone, ForcedInOrder
<1>2. HubWindowInv /\ [HubWindowNext]_hubVars => [ForcedOnce]_hubVars
  BY <1>1
<1> QED BY <1>2, WindowInit, WindowInvKept, PTL DEF HubWindowSpec

-----------------------------------------------------------------------------
(* ModelFile: the head model's file. *)

(* One process installs at a time: the temporary has one name. *)
OneInstaller == \A p, q \in Installers : p = q

Steps == {"idle", "download", "downloading", "read", "verify", "create", "write", "rename", "done", "failed"}
ModelTypeOK ==
    /\ file \in [final : Bytes, partial : Bytes, download : Bytes]
    /\ pc \in [Installers -> Steps]
    /\ got \in [Installers -> Bytes]
    /\ at \in [Installers -> {"none", "final", "partial", "gone"}]

(* Only bytes whose digest was taken are written, to the temporary, which is  *)
(* theirs until it is renamed.                                               *)
Pinned ==
    /\ file.final # "torn"
    /\ \A p \in Installers :
         /\ pc[p] \in {"create", "write", "rename"} => got[p] = "good"
         /\ pc[p] = "write" => at[p] = "partial"
         /\ pc[p] = "rename" => file.partial = "good"
ModelInv == ModelTypeOK /\ Pinned

LEMMA ModelInitInv == ASSUME ModelInit PROVE ModelInv
<1>1. PICK b \in {"none", "good", "wrong"} : file = [final |-> b, partial |-> "none", download |-> "none"]
    BY DEF ModelInit
<1>2. /\ pc = [p \in Installers |-> "idle"] /\ got = [p \in Installers |-> "none"]
      /\ at = [p \in Installers |-> "none"]
    BY DEF ModelInit
<1>3. QED
    BY <1>1, <1>2 DEF ModelInv, ModelTypeOK, Pinned, Bytes, Steps

(* A step that leaves the installers and their files alone. *)
LEMMA OthersKeep ==
    ASSUME ModelInv, UNCHANGED <<pc, got>>,
           \/ UNCHANGED <<file, at>>
           \/ /\ file' = [file EXCEPT !.final = "none"]
              /\ \/ at' = [q \in Installers |-> IF at[q] = "final" THEN "gone" ELSE at[q]]
                 \/ UNCHANGED at
    PROVE  ModelInv'
<1>1. ModelTypeOK'
    BY DEF ModelInv, ModelTypeOK, Bytes
<1>2. /\ file'.final # "torn" /\ file'.partial = file.partial
      /\ \A q \in Installers : at[q] = "partial" => at'[q] = "partial"
    BY DEF ModelInv, ModelTypeOK, Pinned
<1>3. QED
    BY <1>1, <1>2 DEF ModelInv, Pinned

LEMMA HubStepsKeep ==
    ASSUME ModelInv,
           OpenTerms \/ OpenRemove \/ AnswerRemove \/ CliRemoves \/ DeviceSteps \/ Tick \/ Plug
    PROVE  ModelInv'
<1>1. CASE OpenTerms
    BY <1>1, OthersKeep DEF OpenTerms
<1>2. CASE OpenRemove
    BY <1>2, OthersKeep DEF OpenRemove
<1>3. CASE AnswerRemove
  <2>1. UNCHANGED <<pc, got>>
      BY <1>3 DEF AnswerRemove
  <2>2. /\ \/ UNCHANGED file
           \/ file' = [file EXCEPT !.final = "none"]
        /\ at' = IF file'.final # file.final
                 THEN [q \in Installers |-> IF at[q] = "final" THEN "gone" ELSE at[q]] ELSE at
      BY <1>3 DEF AnswerRemove
  <2>3. QED
      BY <2>1, <2>2, OthersKeep
<1>4. CASE CliRemoves
    BY <1>4, OthersKeep DEF CliRemoves
<1>5. CASE DeviceSteps
    BY <1>5, OthersKeep DEF DeviceSteps, StandBy, Connect, Publish, TakeReload, SessionEnds
<1>6. CASE Tick
    BY <1>6, OthersKeep DEF Tick
<1>7. CASE Plug
    BY <1>7, OthersKeep DEF Plug
<1>8. QED
    BY <1>1, <1>2, <1>3, <1>4, <1>5, <1>6, <1>7

(* A step of an installer that leaves the model's own name and the temporary  *)
(* alone and comes to a point where nothing has been written.                *)
LEMMA PreparingKeeps ==
    ASSUME ModelInv, OneInstaller, NEW p \in Installers, NEW s \in Steps, NEW b \in Bytes,
           pc' = [pc EXCEPT ![p] = s], got' = [got EXCEPT ![p] = b],
           file'.final = file.final, file'.partial = file.partial,
           file' \in [final : Bytes, partial : Bytes, download : Bytes],
           \/ UNCHANGED at
           \/ at' = [at EXCEPT ![p] = "none"],
           s \notin {"write", "rename"}, s = "create" => b = "good"
    PROVE  ModelInv'
<1>1. ModelTypeOK'
    BY DEF ModelInv, ModelTypeOK
<1>2. \A q \in Installers : q = p
    BY DEF OneInstaller
<1>3. pc'[p] = s /\ got'[p] = b
    BY DEF ModelInv, ModelTypeOK
<1>4. QED
    BY <1>1, <1>2, <1>3 DEF ModelInv, Pinned

LEMMA AnswerTermsKeeps == ASSUME ModelInv, OneInstaller, AnswerTerms PROVE ModelInv'
<1>1. CASE UNCHANGED pc
    BY <1>1, OthersKeep DEF AnswerTerms
<1>2. CASE pc' = [pc EXCEPT !["hub"] = "download"] /\ "hub" \in Installers
  <2>1. got' = [got EXCEPT !["hub"] = got["hub"]] /\ UNCHANGED <<file, at>>
      BY DEF AnswerTerms, ModelInv, ModelTypeOK
  <2>2. QED
      BY <1>2, <2>1, PreparingKeeps DEF Steps, ModelInv, ModelTypeOK
<1>3. CASE pc' = [pc EXCEPT !["hub"] = "download"] /\ "hub" \notin Installers
  <2>1. pc' = pc
      BY <1>3 DEF ModelInv, ModelTypeOK
  <2>2. QED
      BY <1>1, <2>1
<1>4. QED
    BY <1>1, <1>2, <1>3 DEF AnswerTerms

LEMMA CliStartsKeeps == ASSUME ModelInv, OneInstaller, CliStarts PROVE ModelInv'
<1>1. "cli" \in Installers /\ UNCHANGED <<file, at>>
    BY DEF CliStarts
<1>2. PICK s \in {"download", "verify"}, b \in Bytes :
        pc' = [pc EXCEPT !["cli"] = s] /\ got' = [got EXCEPT !["cli"] = b]
  <2>1. CASE pc' = [pc EXCEPT !["cli"] = "download"] /\ UNCHANGED got
    <3>1. got' = [got EXCEPT !["cli"] = got["cli"]] /\ got["cli"] \in Bytes
        BY <1>1, <2>1 DEF ModelInv, ModelTypeOK
    <3>2. QED
        BY <2>1, <3>1
  <2>2. CASE \E b \in {"good", "wrong", "torn"} :
                /\ pc' = [pc EXCEPT !["cli"] = "verify"]
                /\ got' = [got EXCEPT !["cli"] = b]
      BY <2>2 DEF Bytes
  <2>3. QED
      BY <2>1, <2>2 DEF CliStarts
<1>3. QED
    BY <1>1, <1>2, PreparingKeeps DEF Steps, ModelInv, ModelTypeOK

LEMMA InstallKeeps == ASSUME ModelInv, OneInstaller, NEW p \in Installers, Install(p) PROVE ModelInv'
<1>0. /\ pc[p] \in Steps /\ got[p] \in Bytes /\ got' = [got EXCEPT ![p] = got[p]] <=> UNCHANGED got
      /\ \A q \in Installers : q = p
      /\ file \in [final : Bytes, partial : Bytes, download : Bytes]
    BY DEF ModelInv, ModelTypeOK, OneInstaller
<1>1. CASE DownloadStarts(p)
  <2>1. /\ \E s \in {"downloading", "failed"} : pc' = [pc EXCEPT ![p] = s]
        /\ file' = file \/ file' = [file EXCEPT !.download = "torn"]
        /\ UNCHANGED <<got, at>>
      BY <1>1 DEF DownloadStarts
  <2>2. QED
      BY <1>0, <2>1, PreparingKeeps DEF Steps, Bytes
<1>2. CASE DownloadEnds(p)
  <2>1. /\ \E s \in {"read", "failed"} : pc' = [pc EXCEPT ![p] = s]
        /\ \E b \in Bytes : file' = [file EXCEPT !.download = b]
        /\ UNCHANGED <<got, at>>
      BY <1>2 DEF DownloadEnds, Bytes
  <2>2. /\ file'.final = file.final /\ file'.partial = file.partial
        /\ file' \in [final : Bytes, partial : Bytes, download : Bytes]
      BY <1>0, <2>1
  <2>3. PICK t \in {"read", "failed"} : pc' = [pc EXCEPT ![p] = t]
      BY <2>1
  <2>4. t \in Steps /\ t \notin {"create", "write", "rename"}
      BY DEF Steps
  <2>5. got' = [got EXCEPT ![p] = got[p]]
      BY <1>0, <2>1
  <2>6. QED
      BY <1>0, <2>1, <2>2, <2>3, <2>4, <2>5, PreparingKeeps
<1>3. CASE ReadBack(p)
  <2>1. /\ \E s \in {"verify", "failed"} : pc' = [pc EXCEPT ![p] = s]
        /\ got' = [got EXCEPT ![p] = file.download] /\ file.download \in Bytes
        /\ file' = [file EXCEPT !.download = "none"]
        /\ UNCHANGED at
      BY <1>0, <1>3 DEF ReadBack
  <2>2. /\ file'.final = file.final /\ file'.partial = file.partial
        /\ file' \in [final : Bytes, partial : Bytes, download : Bytes]
      BY <1>0, <2>1 DEF Bytes
  <2>3. PICK t \in {"verify", "failed"} : pc' = [pc EXCEPT ![p] = t]
      BY <2>1
  <2>4. t \in Steps /\ t \notin {"create", "write", "rename"}
      BY DEF Steps
  <2>5. QED
      BY <2>1, <2>2, <2>3, <2>4, PreparingKeeps
<1>4. CASE Verify(p)
  <2>1. /\ \E s \in {"create", "failed"} : pc' = [pc EXCEPT ![p] = s] /\ (s = "create" => got[p] = "good")
        /\ UNCHANGED <<file, got, at>>
      BY <1>4 DEF Verify, Accepts
  <2>2. QED
      BY <1>0, <2>1, PreparingKeeps DEF Steps
<1>5. CASE Create(p)
  <2>1. /\ pc[p] = "create" /\ pc' = [pc EXCEPT ![p] = "write"] /\ file' = [file EXCEPT !.partial = "torn"]
        /\ at' = [at EXCEPT ![p] = "partial"] /\ UNCHANGED got
      BY <1>5 DEF Create, PartialName
  <2>2. ModelTypeOK'
      BY <2>1 DEF ModelInv, ModelTypeOK, Bytes, Steps
  <2>3. pc'[p] = "write" /\ at'[p] = "partial" /\ file'.final = file.final
      BY <2>1 DEF ModelInv, ModelTypeOK
  <2>4. QED
      BY <1>0, <2>1, <2>2, <2>3 DEF ModelInv, Pinned
<1>6. CASE Write(p)
  <2>1. pc[p] = "write" /\ at[p] = "partial" /\ got[p] = "good" /\ at' = [at EXCEPT ![p] = "none"] /\ UNCHANGED got
      BY <1>6 DEF Write, ModelInv, Pinned
  <2>2. CASE pc' = [pc EXCEPT ![p] = "failed"] /\ UNCHANGED file
      BY <1>0, <2>1, <2>2, PreparingKeeps DEF Steps
  <2>3. CASE pc' = [pc EXCEPT ![p] = "rename"] /\ file' = [file EXCEPT !.partial = "good"]
    <3>1. ModelTypeOK'
        BY <2>1, <2>3 DEF ModelInv, ModelTypeOK, Bytes, Steps
    <3>2. pc'[p] = "rename" /\ file'.final = file.final /\ file'.partial = "good"
        BY <2>1, <2>3 DEF ModelInv, ModelTypeOK
    <3>3. QED
        BY <1>0, <2>1, <3>1, <3>2 DEF ModelInv, Pinned
  <2>4. "partial" \in DOMAIN file
      BY <1>0
  <2>5. QED
      BY <1>6, <2>1, <2>2, <2>3, <2>4 DEF Write
<1>7. CASE Rename(p)
  <2>1. /\ file.partial = "good"
        /\ file' = [file EXCEPT !.final = file.partial, !.partial = "none"]
        /\ at' = [q \in Installers |-> Renamed(at[q])]
        /\ pc' = [pc EXCEPT ![p] = "done"] /\ UNCHANGED got
      BY <1>7 DEF Rename, ModelInv, Pinned
  <2>2. ModelTypeOK'
      BY <2>1 DEF ModelInv, ModelTypeOK, Bytes, Steps, Renamed
  <2>3. pc'[p] = "done" /\ file'.final = "good"
      BY <2>1 DEF ModelInv, ModelTypeOK
  <2>4. QED
      BY <1>0, <2>2, <2>3 DEF ModelInv, Pinned
<1>8. CASE FetchEnds(p)
  <2>1. pc' = [pc EXCEPT ![p] = "idle"] /\ got' = [got EXCEPT ![p] = "none"] /\ UNCHANGED <<file, at>>
      BY <1>8 DEF FetchEnds
  <2>2. QED
      BY <1>0, <2>1, PreparingKeeps DEF Steps, Bytes
<1>9. QED
    BY <1>1, <1>2, <1>3, <1>4, <1>5, <1>6, <1>7, <1>8 DEF Install

LEMMA CrashKeeps == ASSUME ModelInv, OneInstaller, NEW p \in Installers, Crash(p) PROVE ModelInv'
<1>1. /\ pc' = [pc EXCEPT ![p] = "idle"] /\ got' = [got EXCEPT ![p] = "none"]
      /\ at' = [at EXCEPT ![p] = "none"] /\ UNCHANGED file
    BY DEF Crash
<1>2. QED
    BY <1>1, PreparingKeeps DEF Steps, Bytes, ModelInv, ModelTypeOK

LEMMA ModelStepKeeps == ASSUME ModelInv, OneInstaller, [ModelNext]_modelVars PROVE ModelInv'
<1>1. CASE UNCHANGED modelVars
    BY <1>1, OthersKeep DEF modelVars
<1>2. QED
    BY <1>1, HubStepsKeep, AnswerTermsKeeps, CliStartsKeeps, InstallKeeps, CrashKeeps DEF ModelNext

(* The model's own name never holds half a file, nor bytes whose digest was    *)
(* not taken, whatever is killed when, as long as one process installs.      *)
THEOREM ModelNeverHalf ==
    ASSUME OneInstaller
    PROVE  ModelSpec => []NeverHalf
<1>1. ModelInv => NeverHalf
    BY DEF ModelInv, Pinned, NeverHalf
<1>2. QED
    BY <1>1, ModelInitInv, ModelStepKeeps, PTL DEF ModelSpec

-----------------------------------------------------------------------------
(* SettingsMenu: what was chosen stands. *)

LEMMA SteppedNow ==
    ASSUME NEW t \in TextMin .. TextMax, NEW up \in BOOLEAN,
           (IF up THEN "plus" ELSE "minus") \in Ends(t)
    PROVE  /\ stepped(t, up) = (IF up THEN t + 1 ELSE t - 1)
           /\ stepped(t, up) \in TextMin .. TextMax
<1>1. CASE up
  <2>1. t < TextMax
    BY <1>1 DEF Ends
  <2>2. \A y \in {t + 1, TextMax} : t + 1 <= y
    BY <2>1 DEF TextMin, TextMax
  <2>3. \A x \in {t + 1, TextMax} : (\A y \in {t + 1, TextMax} : x <= y) => x = t + 1
    BY <2>1 DEF TextMin, TextMax
  <2>4. Min({t + 1, TextMax}) = t + 1
    BY <2>2, <2>3 DEF Min
  <2> QED BY <1>1, <2>1, <2>4 DEF stepped, TextMin, TextMax
<1>2. CASE ~up
  <2>1. t > TextMin
    BY <1>2 DEF Ends
  <2>2. \A y \in {t - 1, TextMin} : t - 1 >= y
    BY <2>1 DEF TextMin, TextMax
  <2>3. \A x \in {t - 1, TextMin} : (\A y \in {t - 1, TextMin} : x >= y) => x = t - 1
    BY <2>1 DEF TextMin, TextMax
  <2>4. Max({t - 1, TextMin}) = t - 1
    BY <2>2, <2>3 DEF Max
  <2> QED BY <1>2, <2>1, <2>4 DEF stepped, TextMin, TextMax
<1> QED BY <1>1, <1>2

LEMMA MenuInitInv == ASSUME MenuAssumption, MenuInit PROVE MenuInv
<1>1. disk \in MenuFiles /\ disk.check \in BOOLEAN /\ disk.games \in GameSettings /\ disk.text \in Nat
  <2>1. /\ disk \in [games : {[k \in GameKeys |-> k = "awake" /\ on] : on \in BOOLEAN},
                      text : {10, 16, 40}, check : BOOLEAN]
    BY DEF MenuInit, TextMax
  <2>2. {[k \in GameKeys |-> k = "awake" /\ on] : on \in BOOLEAN} \subseteq GameSettings
    <3>1. \A on \in BOOLEAN : \A k \in GameKeys : (k = "awake" /\ on) \in BOOLEAN
      OBVIOUS
    <3>2. \A on \in BOOLEAN : [k \in GameKeys |-> k = "awake" /\ on] \in [GameKeys -> BOOLEAN]
      BY <3>1, Zenon
    <3> QED BY <3>2, Zenon DEF GameSettings
  <2> HIDE DEF GameSettings
  <2>3. disk \in [games : GameSettings, text : Nat, check : BOOLEAN]
    BY <2>1, <2>2
  <2> QED BY <2>3 DEF MenuFiles
<1>2. TextScale(disk.text) \in TextMin .. TextMax
  BY <1>1 DEF TextScale, TextMin, TextMax
<1>3. MenuTypeOK /\ EditInv
  BY <1>1 DEF MenuInit, MenuTypeOK, EditInv
<1>4. TextInv
  BY <1>2 DEF MenuInit, TextInv
<1>5. HintInv
  BY DEF MenuInit, HintInv
<1> QED BY <1>3, <1>4, <1>5 DEF MenuInv

(* An edit of one file leaves the others. *)
LEMMA EditedFile ==
    ASSUME NEW d \in MenuFiles
    PROVE  /\ \A g \in GameSettings : [d EXCEPT !.games = g] \in MenuFiles /\ [d EXCEPT !.games = g].games = g
           /\ \A on \in BOOLEAN : [d EXCEPT !.check = on] \in MenuFiles /\ [d EXCEPT !.check = on].games = d.games
           /\ \A n \in Nat : [d EXCEPT !.text = n] \in MenuFiles /\ [d EXCEPT !.text = n].games = d.games
           /\ d.games \in GameSettings /\ d.check \in BOOLEAN
BY DEF MenuFiles

(* What is read carries all that the settings were last set to, but the one    *)
(* the edit changes.                                                         *)
LEMMA ReadsKeeps ==
    ASSUME MenuTypeOK, EditInv, NEW p \in Editors, NEW k \in GameKeys, NEW on \in BOOLEAN, Reads(p, k, on)
    PROVE  edit' \in [Editors -> SUBSET GameEdits] /\ EditInv'
<1> DEFINE e == [key |-> k, games |-> [disk.games EXCEPT ![k] = on], missed |-> {}]
<1>1. edit' = [edit EXCEPT ![p] = {e}] /\ UNCHANGED <<disk, chosen, undone>>
  BY DEF Reads, LoadedConfig
<1>2. disk.games \in GameSettings /\ edit \in [Editors -> SUBSET GameEdits]
  BY EditedFile DEF MenuTypeOK
<1>3. [disk.games EXCEPT ![k] = on] \in GameSettings
  BY <1>2 DEF GameSettings
<1>4. e \in GameEdits /\ e.key = k /\ e.missed = {}
  BY <1>3 DEF GameEdits
<1>5. \A j \in GameKeys : j # k => e.games[j] = disk.games[j]
  BY <1>2 DEF GameSettings
<1>6. \A q \in Editors : \A f \in edit'[q] : f = e \/ f \in edit[q]
  BY <1>1, <1>2
<1>7. \A j \in GameKeys \ (undone \cup e.missed \cup {e.key}) : e.games[j] = chosen[j]
  BY <1>4, <1>5 DEF EditInv
<1> HIDE DEF e
<1>8. edit' \in [Editors -> SUBSET GameEdits]
  BY <1>1, <1>2, <1>4
<1>9. EditInv'
  BY <1>1, <1>6, <1>7 DEF EditInv
<1> QED BY <1>8, <1>9

(* What is written undoes what the edit missed, and no other choice.          *)
LEMMA WritesKeeps ==
    ASSUME MenuTypeOK, EditInv, NEW p \in Editors, Writes(p)
    PROVE  /\ disk' \in MenuFiles /\ chosen' \in GameSettings /\ undone' \subseteq GameKeys
           /\ edit' \in [Editors -> SUBSET GameEdits] /\ EditInv'
<1>1. PICK e \in edit[p] :
        /\ disk' = [disk EXCEPT !.games = e.games]
        /\ edit' = [q \in Editors |->
             IF q = p THEN {} ELSE {[f EXCEPT !.missed = @ \cup {e.key}] : f \in edit[q]}]
        /\ chosen' = [chosen EXCEPT ![e.key] = e.games[e.key]]
        /\ undone' = (undone \cup e.missed) \ {e.key}
  BY DEF Writes
<1>2. /\ e \in GameEdits /\ edit \in [Editors -> SUBSET GameEdits] /\ disk \in MenuFiles
      /\ chosen \in GameSettings /\ undone \subseteq GameKeys
  BY <1>1 DEF MenuTypeOK
<1>3. e.key \in GameKeys /\ e.games \in GameSettings /\ e.missed \subseteq GameKeys
  BY <1>2 DEF GameEdits
<1>4. disk' \in MenuFiles /\ disk'.games = e.games
  BY <1>1, <1>2, <1>3, EditedFile
<1>5. chosen' \in GameSettings /\ \A k \in GameKeys : chosen'[k] = IF k = e.key THEN e.games[k] ELSE chosen[k]
  BY <1>1, <1>2, <1>3 DEF GameSettings
<1>6. undone' \subseteq GameKeys
  BY <1>1, <1>2, <1>3
<1>7. ASSUME NEW q \in Editors, NEW g \in edit'[q]
      PROVE  \E f \in edit[q] : /\ g \in GameEdits /\ g.key = f.key /\ g.games = f.games
                                /\ g.missed = f.missed \cup {e.key}
  <2>1. PICK f \in edit[q] : g = [f EXCEPT !.missed = @ \cup {e.key}]
    BY <1>1, <1>7
  <2>2. f \in GameEdits
    BY <1>2, <2>1
  <2> QED BY <1>3, <2>1, <2>2 DEF GameEdits
<1>8. edit' \in [Editors -> SUBSET GameEdits]
  <2>1. \A q \in Editors : edit'[q] \subseteq GameEdits
    BY <1>7
  <2>2. edit' = [q \in Editors |-> edit'[q]]
    BY <1>1
  <2> QED BY <2>1, <2>2
<1>9. \A k \in GameKeys \ (undone \cup e.missed \cup {e.key}) : e.games[k] = chosen[k]
  BY <1>1 DEF EditInv
<1>10. \A k \in GameKeys \ undone' : disk'.games[k] = chosen'[k]
  BY <1>1, <1>4, <1>5, <1>9
<1>11. ASSUME NEW q \in Editors, NEW g \in edit'[q], NEW k \in GameKeys \ (undone' \cup g.missed \cup {g.key})
       PROVE  g.games[k] = chosen'[k]
  <2>1. PICK f \in edit[q] : g.key = f.key /\ g.games = f.games /\ g.missed = f.missed \cup {e.key}
    BY <1>7
  <2>2. k # e.key /\ k \notin undone \cup f.missed \cup {f.key}
    BY <1>1, <1>11, <2>1
  <2>3. f.games[k] = chosen[k]
    BY <2>2 DEF EditInv
  <2> QED BY <1>5, <2>1, <2>2, <2>3
<1>12. EditInv'
  BY <1>10, <1>11 DEF EditInv
<1> QED BY <1>4, <1>5, <1>6, <1>8, <1>12

(* The switch, the file and what was last asked of it.                       *)
LEMMA EditKept == ASSUME MenuTypeOK, EditInv, TextInv, [MenuNext]_menuVars PROVE MenuTypeOK' /\ EditInv'
<1>0. /\ disk \in MenuFiles /\ chosen \in GameSettings /\ undone \subseteq GameKeys
      /\ edit \in [Editors -> SUBSET GameEdits]
      /\ checkSwitch \in BOOLEAN /\ awakeSwitch \in BOOLEAN /\ read \subseteq BOOLEAN
      /\ disk.games \in GameSettings /\ disk.check \in BOOLEAN
  BY EditedFile DEF MenuTypeOK
<1>a. disk.games["awake"] \in BOOLEAN
  BY <1>0 DEF GameSettings, GameKeys
<1>b. ASSUME disk' \in MenuFiles, disk'.games = disk.games, UNCHANGED gamesVars,
             checkSwitch' \in BOOLEAN, awakeSwitch' \in BOOLEAN, read' \subseteq BOOLEAN
      PROVE  MenuTypeOK' /\ EditInv'
  <2>1. UNCHANGED <<edit, chosen, undone>>
    BY <1>b DEF gamesVars
  <2>2. MenuTypeOK'
    BY <1>0, <1>b, <2>1 DEF MenuTypeOK
  <2>3. EditInv'
    BY <1>b, <2>1 DEF EditInv
  <2> QED BY <2>2, <2>3
<1>c. ASSUME UNCHANGED <<disk, chosen, undone, checkSwitch, read>>, awakeSwitch' \in BOOLEAN,
             edit' \in [Editors -> SUBSET GameEdits]
      PROVE  MenuTypeOK'
  BY <1>0, <1>c DEF MenuTypeOK
<1>1. CASE UNCHANGED menuVars
  BY <1>0, <1>b, <1>1 DEF menuVars, gamesVars
<1>2. CASE ClickAwake
  <2>1. Reads("hub", "awake", ~awakeSwitch) /\ awakeSwitch' = ~awakeSwitch
    BY <1>2 DEF ClickAwake
  <2>2. (~awakeSwitch) \in BOOLEAN
    OBVIOUS
  <2>3. edit' \in [Editors -> SUBSET GameEdits] /\ EditInv'
    BY <2>1, <2>2, ReadsKeeps DEF Editors, GameKeys
  <2>4. UNCHANGED <<disk, chosen, undone, checkSwitch, read>>
    BY <2>1 DEF Reads, checkVars
  <2>5. awakeSwitch' \in BOOLEAN
    BY <2>1, <2>2
  <2> QED BY <1>c, <2>3, <2>4, <2>5
<1>3. ASSUME NEW p \in Editors, NEW k \in GameKeys, NEW on \in BOOLEAN, Reads(p, k, on), UNCHANGED awakeSwitch
      PROVE  MenuTypeOK' /\ EditInv'
  <2>1. edit' \in [Editors -> SUBSET GameEdits] /\ EditInv'
    BY <1>3, ReadsKeeps
  <2>2. UNCHANGED <<disk, chosen, undone, checkSwitch, read>>
    BY <1>3 DEF Reads, checkVars
  <2> QED BY <1>0, <1>3, <1>c, <2>1, <2>2
<1>4. ASSUME NEW on \in BOOLEAN, ClickCard(on) PROVE MenuTypeOK' /\ EditInv'
  BY <1>3, <1>4 DEF ClickCard, Editors, GameKeys
<1>5. ASSUME NEW on \in BOOLEAN, NEW k \in GameKeys, CliSets(k, on) PROVE MenuTypeOK' /\ EditInv'
  BY <1>3, <1>5 DEF CliSets, Editors
<1>6. ASSUME NEW p \in Editors, Writes(p) PROVE MenuTypeOK' /\ EditInv'
  <2>1. UNCHANGED <<checkSwitch, awakeSwitch, read>>
    BY <1>6 DEF Writes, checkVars, awakeVars
  <2>2. /\ disk' \in MenuFiles /\ chosen' \in GameSettings /\ undone' \subseteq GameKeys
        /\ edit' \in [Editors -> SUBSET GameEdits] /\ EditInv'
    BY <1>6, WritesKeeps
  <2> QED BY <1>0, <2>1, <2>2 DEF MenuTypeOK
<1>7. ASSUME NEW p \in Editors, WriteFails(p) PROVE MenuTypeOK' /\ EditInv'
  <2>1. edit' = [edit EXCEPT ![p] = {}] /\ UNCHANGED <<disk, chosen, undone, checkSwitch, awakeSwitch, read>>
    BY <1>7 DEF WriteFails, checkVars, awakeVars
  <2>2. edit' \in [Editors -> SUBSET GameEdits] /\ \A q \in Editors : edit'[q] \subseteq edit[q]
    BY <1>0, <2>1
  <2>3. EditInv'
    BY <2>1, <2>2 DEF EditInv
  <2> QED BY <1>0, <1>c, <2>1, <2>2, <2>3
<1>8. CASE TickReads
  <2>1. disk' = disk /\ awakeSwitch' = awakeSwitch /\ checkSwitch' = checkSwitch /\ UNCHANGED gamesVars
    BY <1>8 DEF TickReads, checkVars
  <2>2. read' \subseteq BOOLEAN
    BY <1>a, <1>8 DEF TickReads
  <2> QED BY <1>0, <1>b, <2>1, <2>2
<1>9. CASE TickApplies
  <2>1. PICK on \in read : awakeSwitch' = on /\ read' = {} /\ disk' = disk
                           /\ UNCHANGED <<checkVars, gamesVars>>
    BY <1>9 DEF TickApplies, SavedByRefresh
  <2>2. awakeSwitch' \in BOOLEAN /\ checkSwitch' = checkSwitch /\ read' \subseteq BOOLEAN
    BY <1>0, <2>1 DEF checkVars
  <2> QED BY <1>0, <1>b, <2>1, <2>2
<1>10. CASE ClickCheck
  <2>1. (~checkSwitch) \in BOOLEAN
    OBVIOUS
  <2>2. disk' \in MenuFiles /\ disk'.games = disk.games
    BY <1>0, <1>10, <2>1, EditedFile DEF ClickCheck, Tried
  <2>3. checkSwitch' \in BOOLEAN /\ UNCHANGED gamesVars /\ awakeSwitch' = awakeSwitch /\ read' = read
    BY <1>10, <2>1 DEF ClickCheck, awakeVars
  <2> QED BY <1>0, <1>b, <2>2, <2>3
<1>11. ASSUME NEW up \in BOOLEAN, Press(up) PROVE MenuTypeOK' /\ EditInv'
  <2>1. stepped(current, up) \in Nat
    BY <1>11, SteppedNow DEF Press, TextInv, TextMin, TextMax
  <2>2. disk' \in Tried([disk EXCEPT !.text = stepped(current, up)])
    BY <1>11 DEF Press
  <2>3. disk' \in MenuFiles /\ disk'.games = disk.games
    <3>1. [disk EXCEPT !.text = stepped(current, up)] \in MenuFiles
          /\ [disk EXCEPT !.text = stepped(current, up)].games = disk.games
      BY <1>0, <2>1, EditedFile
    <3> QED BY <1>0, <2>2, <3>1 DEF Tried
  <2>4. UNCHANGED gamesVars /\ awakeSwitch' = awakeSwitch /\ read' = read /\ checkSwitch' = checkSwitch
    BY <1>11 DEF Press, awakeVars, checkVars
  <2> QED BY <1>0, <1>b, <2>3, <2>4
<1>12. CASE Open
  <2>1. UNCHANGED <<disk, read, gamesVars>> /\ awakeSwitch' = disk.games["awake"] /\ checkSwitch' = disk.check
    BY <1>12 DEF Open
  <2> QED BY <1>0, <1>a, <1>b, <2>1
<1>13. CASE Quit \/ Copy \/ Second \/ AskSave \/ Chosen \/ \E t \in timers : Timer(t)
  <2>1. UNCHANGED <<disk, read, gamesVars, awakeSwitch, checkSwitch>>
    BY <1>13 DEF Quit, Copy, Second, AskSave, Chosen, Timer, awakeVars, checkVars
  <2> QED BY <1>0, <1>b, <2>1
<1> QED
  BY <1>1, <1>2, <1>4, <1>5, <1>6, <1>7, <1>8, <1>9, <1>10, <1>11, <1>12, <1>13 DEF MenuNext

(* The text on screen, and the buttons that still help.                      *)
LEMMA TextKept == ASSUME MenuTypeOK, TextInv, [MenuNext]_menuVars PROVE TextInv'
<1>1. CASE UNCHANGED menuVars
  BY <1>1 DEF TextInv, menuVars
<1>2. CASE Open
  <2>1. TextScale(disk.text) \in TextMin .. TextMax
    BY DEF MenuTypeOK, MenuFiles, TextScale, TextMin, TextMax
  <2> QED BY <1>2, <2>1 DEF TextInv, Open
<1>3. ASSUME NEW up \in BOOLEAN, Press(up) PROVE TextInv'
  <2>1. /\ stepped(current, up) = (IF up THEN current + 1 ELSE current - 1)
        /\ stepped(current, up) \in TextMin .. TextMax
    BY <1>3, SteppedNow DEF Press, TextInv
  <2>2. pressed' = stepped(current, up)
    BY <1>3, <2>1 DEF Press, TextInv
  <2>3. current' = stepped(current, up) /\ drawn' = scaled_css(pressed') /\ ends' = Ends(current')
    BY <1>3, <2>2 DEF Press
  <2> QED BY <2>1, <2>2, <2>3 DEF TextInv
<1>4. CASE Quit
  BY <1>4 DEF TextInv, Quit, textVars
<1>5. CASE ClickAwake \/ TickReads \/ TickApplies \/ ClickCheck \/ Copy \/ Second \/ AskSave \/ Chosen
           \/ \E t \in timers : Timer(t)
  BY <1>5 DEF TextInv, ClickAwake, Reads, TickReads, TickApplies, ClickCheck, Copy, Second, AskSave, Chosen,
              Timer, textVars
<1>6. CASE \/ \E on \in BOOLEAN : ClickCard(on) \/ \E k \in GameKeys : CliSets(k, on)
           \/ \E p \in Editors : Writes(p) \/ WriteFails(p)
  BY <1>6 DEF TextInv, ClickCard, CliSets, Reads, Writes, WriteFails, textVars
<1> QED BY <1>1, <1>2, <1>3, <1>4, <1>5, <1>6 DEF MenuNext

(* The hint, and the timers that will take it down.                          *)
LEMMA HintKept == ASSUME MenuAssumption, HintInv, [MenuNext]_menuVars PROVE HintInv'
<1>0. HintTime \in Nat /\ clock \in Nat /\ timers \subseteq Nat
  BY DEF MenuAssumption, HintInv
<1>1. CASE UNCHANGED menuVars
  BY <1>1 DEF HintInv, menuVars
<1>2. CASE Quit
  BY <1>2 DEF HintInv, Quit
<1>3. CASE Copy
  BY <1>0, <1>3 DEF HintInv, Copy
<1>4. CASE Second
  <2>1. clock' = clock + 1 /\ timers' = timers /\ hint' = hint /\ \A t \in timers : clock < t + HintTime
    BY <1>4 DEF Second
  <2>2. \A t \in timers : t <= clock + 1 /\ clock + 1 <= t + HintTime
    BY <1>0, <2>1 DEF HintInv
  <2> QED BY <1>0, <2>1, <2>2 DEF HintInv
<1>5. ASSUME NEW t \in timers, Timer(t) PROVE HintInv'
  <2>1. clock >= t + HintTime /\ timers' = timers \ {t} /\ hint' = Expired(t) /\ clock' = clock
    BY <1>5 DEF Timer
  <2>2. PICK m \in timers : hint = {m} /\ \A u \in timers : u <= m
    BY <1>5 DEF HintInv
  <2>3. CASE m # t
    BY <1>0, <2>1, <2>2, <2>3 DEF HintInv, Expired
  <2>4. CASE m = t
    <3>1. \A u \in timers : u = t
      BY <1>0, <2>1, <2>2, <2>4 DEF HintInv
    <3> QED BY <1>0, <2>1, <3>1 DEF HintInv
  <2> QED BY <2>3, <2>4
<1>6. CASE \/ Open \/ ClickAwake \/ TickReads \/ TickApplies \/ ClickCheck \/ AskSave \/ Chosen
           \/ \E on \in BOOLEAN : Press(on) \/ ClickCard(on) \/ \E k \in GameKeys : CliSets(k, on)
           \/ \E p \in Editors : Writes(p) \/ WriteFails(p)
  BY <1>6 DEF HintInv, Open, ClickAwake, TickReads, TickApplies, ClickCheck, AskSave, Chosen, Press,
              ClickCard, CliSets, Reads, Writes, WriteFails, reportVars
<1> QED BY <1>1, <1>2, <1>3, <1>4, <1>5, <1>6 DEF MenuNext

LEMMA MenuStands == ASSUME MenuInv PROVE ChoiceStands
<1>1. \A k \in GameKeys \ undone : disk.games[k] = chosen[k]
  BY DEF MenuInv, EditInv
<1>2. open => current = pressed /\ drawn = scaled_css(pressed)
  BY DEF MenuInv, TextInv
<1>3. timers # {} => hint # {}
  BY DEF MenuInv, HintInv
<1>4. \A t \in timers : (\A u \in timers : u <= t) => t \in hint
  <2> SUFFICES ASSUME NEW t \in timers, \A u \in timers : u <= t PROVE t \in hint
    OBVIOUS
  <2>1. PICK m \in timers : hint = {m} /\ \A u \in timers : u <= m
    BY DEF MenuInv, HintInv
  <2>2. t \in Nat /\ m \in Nat /\ t <= m /\ m <= t
    BY <2>1 DEF MenuInv, HintInv
  <2> QED BY <2>1, <2>2
<1> QED BY <1>1, <1>2, <1>3, <1>4 DEF ChoiceStands

(* What was last chosen stands (settings_list, KeepAwakeSwitch::refresh,      *)
(* text_size_row, say) unless an edit of games.toml that was under way undid  *)
(* it, whatever else was written between the tick's read and its refresh, for *)
(* any sizes, any number of clicks and any patience of the hint.             *)
THEOREM MenuChoiceStands == ASSUME MenuAssumption PROVE MenuSpec => []ChoiceStands
<1>1. MenuInit => MenuInv
  BY MenuInitInv
<1>2. MenuInv /\ [MenuNext]_menuVars => MenuInv'
  BY EditKept, TextKept, HintKept DEF MenuInv
<1>3. MenuInv => ChoiceStands
  BY MenuStands
<1> QED BY <1>1, <1>2, <1>3, PTL DEF MenuSpec

-----------------------------------------------------------------------------
(* Autostart. *)

LEMMA AutoInitInv == ASSUME AutoInit PROVE AutoInv
  BY DEF AutoInit, AutoInv, StillThere, AboutToBe, EntryIsAsTold
LEMMA NotBoth == {TRUE} # {FALSE} /\ {TRUE} # {} /\ {FALSE} # {}
  OBVIOUS

LEMMA AutoInvKept == ASSUME AutoInv, [AutoNext]_autoVars PROVE AutoInv'
<1> USE DEF AutoInv
<1>1. CASE TurnOn
  <2>1. scratch' = {EntryText(path) : path \in EntryExec} /\ EntryExec = {exe} /\ image # "removed"
    BY <1>1 DEF TurnOn, EntryExec
  <2>2. scratch' = {EntryText(exe)} BY <2>1
  <2>3. UNCHANGED <<exe, image, files, entry, wanted>> BY <1>1 DEF TurnOn
  <2>4. StillThere' /\ exe \in files BY <2>1, <2>3 DEF StillThere
  <2>5. AboutToBe'
    <3>1. EntryText(exe)' = EntryText(exe) BY <2>3
    <3> HIDE DEF AutoInv
    <3> QED BY <2>2, <2>3, <2>4, <3>1 DEF AboutToBe
  <2>6. EntryIsAsTold' BY <2>3 DEF EntryIsAsTold
  <2> QED BY <2>4, <2>5, <2>6
<1>2. CASE EntryRenamed
  <2>1. /\ entry' = {EntryText(exe)} /\ exe \in files /\ scratch' = {} /\ wanted' = {TRUE}
        /\ UNCHANGED <<exe, image, files>>
    BY <1>2 DEF EntryRenamed, AboutToBe
  <2>2. EntryIsAsTold' BY <2>1, NotBoth DEF EntryIsAsTold
  <2> QED BY <2>1, <2>2 DEF StillThere, AboutToBe
<1>3. CASE SaveFails
  BY <1>3 DEF SaveFails, StillThere, AboutToBe, EntryIsAsTold
<1>4. CASE TurnOff
  <2>1. /\ entry' = {} /\ wanted' = {FALSE} /\ scratch = {}
        /\ UNCHANGED <<exe, image, files, scratch>>
    BY <1>4 DEF TurnOff
  <2> QED BY <2>1, NotBoth DEF StillThere, AboutToBe, EntryIsAsTold
<1>5. CASE DesktopEdits
  <2>1. wanted' = {} /\ UNCHANGED <<exe, image, files, scratch>> BY <1>5 DEF DesktopEdits
  <2> QED BY <2>1, NotBoth DEF StillThere, AboutToBe, EntryIsAsTold
<1>6. CASE Replace
  BY <1>6 DEF Replace, StillThere, AboutToBe, EntryIsAsTold
<1>7. CASE RemoveProgram
  <2>1. /\ image' = "removed" /\ files' = files \ {exe} /\ scratch = {}
        /\ wanted' = IF wanted = {TRUE} THEN {} ELSE wanted
        /\ UNCHANGED <<exe, entry, scratch>>
    BY <1>7 DEF RemoveProgram
  <2>2. wanted' # {TRUE} BY <2>1, NotBoth
  <2>3. wanted' = {FALSE} => wanted = {FALSE} BY <2>1, NotBoth
  <2> QED BY <2>1, <2>2, <2>3 DEF StillThere, AboutToBe, EntryIsAsTold
<1>8. CASE Restart
  BY <1>8 DEF Restart, StillThere, AboutToBe, EntryIsAsTold
<1>9. CASE UNCHANGED autoVars
  BY <1>9 DEF autoVars, StillThere, AboutToBe, EntryIsAsTold
<1> QED BY <1>1, <1>2, <1>3, <1>4, <1>5, <1>6, <1>7, <1>8, <1>9 DEF AutoNext

LEMMA AutoInvTold == ASSUME AutoAssumption, AutoInv PROVE LoginDoesAsTold
<1>1. ASSUME wanted = {TRUE}
      PROVE  \E e \in entry : LET back == ExecArguments(e.exec)
                              IN  ~e.off /\ back.ok /\ Len(back.args) = 2 /\ back.args[1] \in files
  <2>1. PICK path \in files : entry = {EntryText(path)} BY <1>1 DEF AutoInv, EntryIsAsTold
  <2>2. path \in Programs BY DEF AutoInv, StillThere
  <2>3. ~EntryText(path).off BY DEF EntryText
  <2>4. LET back == ExecArguments(EntryText(path).exec)
        IN  back.ok /\ Len(back.args) = 2 /\ back.args[1] = path
    BY <2>2 DEF AutoAssumption
  <2> QED BY <2>1, <2>3, <2>4
<1> QED BY <1>1 DEF LoginDoesAsTold, AutoInv, EntryIsAsTold

(* What a login would do is what the switch was last told (set_enabled,       *)
(* autostart_switch): for any places to install in whose paths are read back  *)
(* as they were quoted, whatever an updater, a removal and the desktop's own  *)
(* settings do in between.                                                    *)
THEOREM LoginAsTold == ASSUME AutoAssumption PROVE AutoSpec => []LoginDoesAsTold
<1>1. AutoInit => AutoInv BY AutoInitInv
<1>2. AutoInv /\ [AutoNext]_autoVars => AutoInv' BY AutoInvKept
<1>3. AutoInv => LoginDoesAsTold BY AutoInvTold
<1> QED BY <1>1, <1>2, <1>3, PTL DEF AutoSpec

-----------------------------------------------------------------------------
(* EyeView. *)

LEMMA LesserIs ==
    ASSUME NEW a \in Int, NEW b \in Int
    PROVE  Min({a, b}) = IF a <= b THEN a ELSE b
<1>1. \E x \in {a, b} : \A y \in {a, b} : x <= y OBVIOUS
<1>2. Min({a, b}) \in {a, b} /\ \A y \in {a, b} : Min({a, b}) <= y BY <1>1 DEF Min
<1> QED BY <1>2

(* One frame more, up to where it no longer tells. *)
LEMMA MoreIs ==
    ASSUME EyeAssumption, NEW n \in Nat
    PROVE  /\ More(n) \in Nat /\ More(n) <= n + 1 /\ More(n) <= HystToNoEyes + Window
           /\ More(n) = n + 1 \/ More(n) = HystToNoEyes + Window
<1>1. HystToNoEyes + Window \in Int /\ HystToNoEyes + Window \in Nat BY DEF EyeAssumption
<1> QED BY <1>1, LesserIs DEF More

(* What a new frame leaves of a window, and what of it is blank. *)
LEMMA PushedIs ==
    ASSUME EyeAssumption, NEW w, IsWindow(w), NEW e
    PROVE  /\ IsWindow(Pushed(w, e, Window)) /\ Len(Pushed(w, e, Window)) \in Nat \ {0}
           /\ LET t == Pushed(w, e, Window) IN
              /\ t[Len(t)] = e
              /\ \A k \in Nat : k + 1 < Len(t) => k < Len(w) /\ t[Len(t) - (k + 1)] = w[Len(w) - k]
<1> DEFINE S == {w[i] : i \in DOMAIN w} \cup {e}
           a == Append(w, e)
           t == Pushed(w, e, Window)
<1>1. w \in Seq(S) /\ e \in S /\ Len(w) <= Window /\ Len(w) \in Nat /\ Window \in Nat \ {0}
  <2>1. w \in Seq({w[i] : i \in DOMAIN w}) BY DEF IsWindow
  <2>2. \A i \in 1 .. Len(w) : w[i] \in S BY <2>1
  <2>3. Len(w) \in Nat /\ w \in [1 .. Len(w) -> S] BY <2>1, <2>2
  <2>4. w \in Seq(S) BY <2>3
  <2> QED BY <2>1, <2>4 DEF IsWindow, EyeAssumption
<1> HIDE DEF S
<1>2. a \in Seq(S) /\ Len(a) = Len(w) + 1 /\ a[Len(a)] = e /\ \A i \in 1 .. Len(w) : a[i] = w[i]
  BY <1>1
<1>3. t = IF Len(a) > Window THEN Tail(a) ELSE a BY DEF Pushed
<1> HIDE DEF a, t
<1>4. /\ t \in Seq(S) /\ Len(t) \in Nat \ {0} /\ Len(t) <= Window /\ t[Len(t)] = e
      /\ \A k \in Nat : k + 1 < Len(t) => k < Len(w) /\ t[Len(t) - (k + 1)] = w[Len(w) - k]
  <2>1. CASE Len(a) > Window
    <3>1. t = Tail(a) BY <1>3, <2>1
    <3>2. /\ Tail(a) \in Seq(S) /\ Len(Tail(a)) = Len(w)
          /\ \A i \in 1 .. Len(w) : Tail(a)[i] = a[i + 1]
      BY <1>1, <1>2, <2>1
    <3>3. Len(w) = Window BY <1>1, <1>2, <2>1
    <3>4. t[Len(t)] = e /\ Len(t) = Len(w) BY <1>1, <1>2, <3>1, <3>2, <3>3
    <3>5. ASSUME NEW k \in Nat, k + 1 < Len(t)
          PROVE  k < Len(w) /\ t[Len(t) - (k + 1)] = w[Len(w) - k]
      <4>1. Len(t) - (k + 1) \in 1 .. Len(w) /\ Len(w) - k \in 1 .. Len(w) BY <1>1, <3>4, <3>5
      <4>2. t[Len(t) - (k + 1)] = a[(Len(t) - (k + 1)) + 1] BY <3>1, <3>2, <4>1
      <4>3. (Len(t) - (k + 1)) + 1 = Len(w) - k BY <1>1, <3>4
      <4> QED BY <1>1, <1>2, <3>4, <3>5, <4>1, <4>2, <4>3
    <3> QED BY <1>1, <3>1, <3>2, <3>3, <3>4, <3>5
  <2>2. CASE ~(Len(a) > Window)
    <3>1. t = a BY <1>3, <2>2
    <3> QED BY <1>1, <1>2, <2>2, <3>1
  <2> QED BY <2>1, <2>2
<1>5. t \in Seq({t[i] : i \in DOMAIN t})
  <2>1. t \in [1 .. Len(t) -> {t[i] : i \in DOMAIN t}] BY <1>4
  <2> QED BY <1>4, <2>1
<1> QED BY <1>4, <1>5 DEF IsWindow, t
LEMMA BlankPushed ==
    ASSUME EyeAssumption, NEW w, IsWindow(w), NEW n \in Int, NEW m \in Int, Blank(w, n), m <= n + 1
    PROVE  Blank(Pushed(w, {}, Window), m)
<1> DEFINE t == Pushed(w, {}, Window)
<1> SUFFICES ASSUME NEW j \in 0 .. (Len(t) - 1), j < m PROVE t[Len(t) - j] = {}
  BY DEF Blank
<1>1. Len(t) \in Nat \ {0} /\ t[Len(t)] = {} /\ Len(w) \in Nat
      /\ \A k \in Nat : k + 1 < Len(t) => k < Len(w) /\ t[Len(t) - (k + 1)] = w[Len(w) - k]
  <2>1. w \in Seq({w[i] : i \in DOMAIN w}) BY DEF IsWindow
  <2>2. Len(w) \in Nat BY <2>1
  <2> QED BY <2>2, PushedIs
<1> HIDE DEF t
<1>2. CASE j = 0 BY <1>1, <1>2
<1>3. CASE j # 0
  <2>1. j - 1 \in Nat /\ (j - 1) + 1 = j /\ j < Len(t) /\ j - 1 < n BY <1>1, <1>3
  <2>2. j - 1 < Len(w) /\ t[Len(t) - j] = w[Len(w) - (j - 1)] BY <1>1, <2>1
  <2>3. j - 1 \in 0 .. (Len(w) - 1) BY <1>1, <2>1, <2>2
  <2> QED BY <2>1, <2>2, <2>3 DEF Blank
<1> QED BY <1>2, <1>3
LEMMA BlankNone == ASSUME NEW w, NEW n \in Int, n <= 0 PROVE Blank(w, n)
  BY DEF Blank
(* An eye that is in no frame of its window is not drawn. *)
LEMMA NothingDrawn ==
    ASSUME NEW w, IsWindow(w), NEW n \in Int, Blank(w, n), Len(w) <= n
    PROVE  extrapolate(w) = {}
<1>1. Len(w) \in Nat /\ DOMAIN w = 1 .. Len(w) BY DEF IsWindow
<1>2. ASSUME NEW i \in DOMAIN w PROVE w[i] = {}
  <2>1. Len(w) - i \in 0 .. (Len(w) - 1) /\ Len(w) - i < n /\ Len(w) - (Len(w) - i) = i
    BY <1>1, <1>2
  <2> QED BY <2>1 DEF Blank
<1>3. {i \in DOMAIN w : w[i] # {}} = {} BY <1>2
<1> QED BY <1>3 DEF extrapolate

(* The words: a frame of the same verdict shows it, or is counted. *)
LEMMA HeldOff ==
    ASSUME NEW g, DOMAIN g = {"displayed", "previous", "count"}, NEW raw,
           g.displayed = g.previous, g.count \in 0 .. (HystToNoEyes - 1), EyeAssumption,
           NEW needed \in {HystToHint, HystToNoEyes}
    PROVE  LET d == hold_off(g, raw, needed) IN
           /\ DOMAIN d = {"displayed", "previous", "count"} /\ d.displayed = d.previous
           /\ d.count \in 0 .. (HystToNoEyes - 1)
           /\ d.displayed # raw => d.count = g.count + 1
<1> DEFINE d == hold_off(g, raw, needed)
<1>0. g.count \in Nat /\ needed \in Nat /\ needed <= HystToNoEyes /\ HystToNoEyes \in Nat /\ HystToNoEyes >= 2
  BY DEF EyeAssumption
<1>1. CASE g.count # 0 /\ g.count + 1 >= needed
  <2>1. d = [displayed |-> raw, previous |-> raw, count |-> 0] BY <1>1 DEF hold_off, Shown
  <2> QED BY <1>0, <2>1
<1>2. CASE ~(g.count # 0 /\ g.count + 1 >= needed)
  <2>1. d = [g EXCEPT !.count = @ + 1] BY <1>2 DEF hold_off
  <2>2. /\ DOMAIN d = {"displayed", "previous", "count"} /\ d.displayed = g.displayed
        /\ d.previous = g.previous /\ d.count = g.count + 1
    BY <2>1
  <2>3. g.count + 1 \in 0 .. (HystToNoEyes - 1) BY <1>0, <1>2
  <2> QED BY <2>2, <2>3
<1> QED BY <1>1, <1>2
LEMMA DampedIs ==
    ASSUME NEW g, DOMAIN g = {"displayed", "previous", "count"}, NEW raw,
           g.displayed = g.previous, g.count \in 0 .. (HystToNoEyes - 1), EyeAssumption
    PROVE  LET d == Damped(g, raw) IN
           /\ DOMAIN d = {"displayed", "previous", "count"} /\ d.displayed = d.previous
           /\ d.count \in 0 .. (HystToNoEyes - 1)
           /\ d.displayed # raw => d.count = g.count + 1 /\ g.displayed # raw
<1> DEFINE d == Damped(g, raw)
<1>0. HystToNoEyes \in Nat /\ HystToNoEyes >= 2 BY DEF EyeAssumption
<1>1. CASE d = Shown(g, raw)
  <2>1. d = [displayed |-> raw, previous |-> raw, count |-> 0] BY <1>1 DEF Shown
  <2> QED BY <1>0, <2>1
<1>2. CASE d = [g EXCEPT !.displayed = raw] /\ g.previous = raw BY <1>2
<1>3. CASE d \in {hold_off(g, raw, HystToHint), hold_off(g, raw, HystToNoEyes)} /\ g.previous # raw
  BY <1>3, HeldOff
<1>4. \/ d = Shown(g, raw)
      \/ d = [g EXCEPT !.displayed = raw] /\ g.previous = raw
      \/ d \in {hold_off(g, raw, HystToHint), hold_off(g, raw, HystToNoEyes)} /\ g.previous # raw
  <2>1. CASE raw = "Centered" BY <2>1 DEF Damped
  <2>2. CASE raw = "NoEyes"
    <3>1. d = IF g.previous = "NoEyes" THEN [g EXCEPT !.displayed = raw] ELSE hold_off(g, raw, HystToNoEyes)
      BY <2>2 DEF Damped
    <3> QED BY <2>2, <3>1
  <2>3. CASE raw # "Centered" /\ raw # "NoEyes"
    <3>1. d = IF g.previous = "Centered" THEN hold_off(g, raw, HystToHint) ELSE Shown(g, raw)
      BY <2>3 DEF Damped
    <3> QED BY <2>3, <3>1
  <2> QED BY <2>1, <2>2, <2>3
<1> QED BY <1>1, <1>2, <1>3, <1>4

(* The offset: as old as the last frame with both eyes in it. *)
LEMMA OlderIs ==
    ASSUME EyeAssumption, NEW p, DOMAIN p = {"delta", "age"}, p.age \in 0 .. (HystToNoEyes + 1)
    PROVE  /\ DOMAIN Older(p) = {"delta", "age"} /\ Older(p).age \in 0 .. (HystToNoEyes + 1)
           /\ Older(p).age = p.age + 1 \/ Older(p).age = HystToNoEyes + 1
<1>1. p.age + 1 \in Int /\ HystToNoEyes + 1 \in Int /\ HystToNoEyes \in Nat BY DEF EyeAssumption
<1>2. Min({p.age + 1, HystToNoEyes + 1}) = IF p.age + 1 <= HystToNoEyes + 1 THEN p.age + 1 ELSE HystToNoEyes + 1
  BY <1>1, LesserIs
<1>3. DOMAIN Older(p) = {"delta", "age"} /\ Older(p).age = Min({p.age + 1, HystToNoEyes + 1})
  BY DEF Older
<1> QED BY <1>1, <1>2, <1>3
LEMMA CompleteIs ==
    ASSUME EyeAssumption, NEW p, DOMAIN p = {"delta", "age"}, p.age \in 0 .. (HystToNoEyes + 1), NEW l, NEW r
    PROVE  LET c == complete(p, l, r) IN
           /\ DOMAIN c.pair = {"delta", "age"} /\ c.pair.age \in 0 .. (HystToNoEyes + 1)
           /\ (l = {} \/ r = {}) => c.pair.age = p.age + 1 \/ c.pair.age = HystToNoEyes + 1
           /\ l = {} /\ (r = {} \/ c.pair.age > HystToNoEyes) => c.left = {}
           /\ r = {} /\ (l = {} \/ c.pair.age > HystToNoEyes) => c.right = {}
<1>1. CASE l # {} /\ r # {}
  <2>1. complete(p, l, r).pair.age = 0 /\ DOMAIN complete(p, l, r).pair = {"delta", "age"}
    BY <1>1 DEF complete
  <2> QED BY <1>1, <2>1 DEF EyeAssumption
<1>2. CASE ~(l # {} /\ r # {})
  <2>1. complete(p, l, r) = [pair |-> Older(p),
                             left |-> IF r # {} THEN reconstruct(p, The(r), -1) ELSE l,
                             right |-> IF l # {} THEN reconstruct(p, The(l), 1) ELSE r]
    BY <1>2 DEF complete
  <2>2. \A e, s : Older(p).age > HystToNoEyes => reconstruct(p, e, s) = {} BY DEF reconstruct
  <2> QED BY <1>2, <2>1, <2>2, OlderIs
<1> QED BY <1>1, <1>2

LEMMA UpdatedIs ==
    ASSUME NEW h, NEW sl, NEW sr
    PROVE  LET u == Updated(h, sl, sr)
               c == complete(h.pair, sl, sr)
           IN  /\ DOMAIN u.hist = {"left", "right", "depth", "damper", "pair", "size"}
               /\ u.hist.left = Pushed(h.left, Place(c.left), Window)
               /\ u.hist.right = Pushed(h.right, Place(c.right), Window)
               /\ u.hist.pair = c.pair /\ u.hist.damper = Damped(h.damper, u.view.raw)
               /\ u.view.left = extrapolate(u.hist.left) /\ u.view.right = extrapolate(u.hist.right)
               /\ u.view.guidance = u.hist.damper.displayed
  BY DEF Updated
LEMMA DecodedIs == ASSUME NEW v \in BOOLEAN, NEW b, NEW o PROVE decode_eye(v, b, o) = {} <=> ~v
  BY DEF decode_eye

LEMMA NoFrames == ASSUME EyeAssumption PROVE IsWindow(<<>>) /\ \A n \in Int : Blank(<<>>, n)
<1>1. <<>> \in Seq({<<>>[i] : i \in DOMAIN <<>>}) /\ Len(<<>>) = 0 OBVIOUS
<1>2. IsWindow(<<>>) BY <1>1 DEF IsWindow, EyeAssumption
<1>3. 0 .. (Len(<<>>) - 1) = {} BY <1>1
<1> QED BY <1>2, <1>3 DEF Blank
LEMMA StandingBy ==
    ASSUME EyeAssumption, hist' = NewHistory, view' = {}, steady' = 0, both' = 0, unseen' = [l |-> 0, r |-> 0]
    PROVE  EyeInv'
<1>0. HystToNoEyes \in Nat /\ HystToNoEyes >= 2 /\ Window \in Nat /\ 0 - HystToNoEyes \in Int BY DEF EyeAssumption
<1>1. EyeTypes' BY DEF EyeTypes, NewHistory
<1>2. DamperCounts' BY <1>0 DEF DamperCounts, NewHistory
<1>3. OffsetAges' BY <1>0 DEF OffsetAges, NewHistory
<1>4. WindowsEmpty'
  <2>1. hist'.left = <<>> /\ hist'.right = <<>> /\ unseen'.l = 0 /\ unseen'.r = 0 BY DEF NewHistory
  <2>2. /\ IsWindow(hist.left)' = IsWindow(<<>>) /\ IsWindow(hist.right)' = IsWindow(<<>>)
        /\ Blank(hist.left, unseen.l - HystToNoEyes)' = Blank(<<>>, 0 - HystToNoEyes)
        /\ Blank(hist.right, unseen.r - HystToNoEyes)' = Blank(<<>>, 0 - HystToNoEyes)
        /\ Blank(hist.left, both)' = Blank(<<>>, 0) /\ Blank(hist.right, both)' = Blank(<<>>, 0)
    BY <2>1 DEF IsWindow, Blank
  <2> QED BY <1>0, <2>2, NoFrames DEF WindowsEmpty
<1> QED BY <1>1, <1>2, <1>3, <1>4 DEF EyeInv

(* A frame, with each eye in it or not. *)
LEMMA FrameKept ==
    ASSUME EyeAssumption, EyeInv, NEW h \in Heads, NEW l \in BOOLEAN, NEW r \in BOOLEAN, Frame(h, l, r)
    PROVE  EyeInv'
<1> DEFINE sl == decode_eye(l, Trackbox(h, -1), {h.d * 10})
           sr == decode_eye(r, Trackbox(h, 1), {h.d * 10})
           u == Updated(hist, sl, sr)
           c == complete(hist.pair, sl, sr)
<1>1. /\ hist' = u.hist /\ view' = {u.view}
      /\ steady' = IF view # {} /\ The(view).raw = u.view.raw THEN More(steady) ELSE 1
      /\ unseen' = [l |-> IF l THEN 0 ELSE More(unseen.l), r |-> IF r THEN 0 ELSE More(unseen.r)]
      /\ both' = IF l \/ r THEN 0 ELSE More(both)
  BY DEF Frame
<1>2. (sl = {} <=> ~l) /\ (sr = {} <=> ~r) BY DecodedIs
<1> HIDE DEF sl, sr
<1>3. /\ DOMAIN u.hist = {"left", "right", "depth", "damper", "pair", "size"}
      /\ u.hist.left = Pushed(hist.left, Place(c.left), Window)
      /\ u.hist.right = Pushed(hist.right, Place(c.right), Window)
      /\ u.hist.pair = c.pair /\ u.hist.damper = Damped(hist.damper, u.view.raw)
      /\ u.view.left = extrapolate(u.hist.left) /\ u.view.right = extrapolate(u.hist.right)
      /\ u.view.guidance = u.hist.damper.displayed
  BY UpdatedIs
<1> HIDE DEF u
<1>4. /\ steady \in Nat /\ both \in Nat /\ unseen.l \in Nat /\ unseen.r \in Nat
      /\ Window \in Nat \ {0} /\ HystToNoEyes \in Nat /\ HystToNoEyes >= 2
  BY DEF EyeInv, EyeTypes, EyeAssumption
<1>5. EyeTypes' BY <1>1, <1>3, <1>4, MoreIs DEF EyeTypes
<1>6. DamperCounts'
  <2> DEFINE g == hist.damper
             d == hist'.damper
  <2>1. /\ DOMAIN g = {"displayed", "previous", "count"} /\ g.displayed = g.previous
        /\ g.count \in 0 .. (HystToNoEyes - 1)
    BY DEF EyeInv, DamperCounts
  <2>2. d = Damped(g, u.view.raw) BY <1>1, <1>3
  <2>3. /\ DOMAIN d = {"displayed", "previous", "count"} /\ d.displayed = d.previous
        /\ d.count \in 0 .. (HystToNoEyes - 1)
        /\ d.displayed # u.view.raw => d.count = g.count + 1 /\ g.displayed # u.view.raw
    <3> DEFINE e == Damped(g, u.view.raw)
    <3> HIDE DEF g
    <3>1. /\ DOMAIN e = {"displayed", "previous", "count"} /\ e.displayed = e.previous
          /\ e.count \in 0 .. (HystToNoEyes - 1)
          /\ e.displayed # u.view.raw => e.count = g.count + 1 /\ g.displayed # u.view.raw
      BY <2>1, DampedIs
    <3> HIDE DEF e, d
    <3>2. d = e BY <2>2 DEF e
    <3> QED BY <3>1, <3>2
  <2>4. d.displayed # u.view.raw => steady' <= d.count
    <3> SUFFICES ASSUME d.displayed # u.view.raw PROVE steady' <= d.count OBVIOUS
    <3>1. d.count = g.count + 1 /\ g.displayed # u.view.raw /\ g.count \in Nat BY <1>4, <2>1, <2>3
    <3>2. CASE view # {} /\ The(view).raw = u.view.raw
      <4>1. The(view) \in view BY <3>2 DEF The
      <4>2. steady <= g.count BY <3>1, <3>2, <4>1 DEF EyeInv, DamperCounts
      <4>3. steady' = More(steady) BY <1>1, <3>2
      <4>4. More(steady) \in Nat /\ More(steady) <= steady + 1 BY <1>4, MoreIs
      <4> QED BY <1>4, <3>1, <4>2, <4>3, <4>4
    <3>3. CASE ~(view # {} /\ The(view).raw = u.view.raw) BY <1>1, <3>1, <3>3
    <3> QED BY <3>2, <3>3
  <2>5. u.view.guidance = d.displayed BY <1>1, <1>3
  <2> HIDE DEF d, g
  <2>6. \A v \in view' : v = u.view BY <1>1
  <2> QED BY <2>3, <2>4, <2>5, <2>6 DEF DamperCounts, d
<1>7. /\ DOMAIN c.pair = {"delta", "age"} /\ c.pair.age \in 0 .. (HystToNoEyes + 1)
      /\ (~l \/ ~r) => c.pair.age = hist.pair.age + 1 \/ c.pair.age = HystToNoEyes + 1
      /\ ~l /\ (~r \/ c.pair.age > HystToNoEyes) => c.left = {}
      /\ ~r /\ (~l \/ c.pair.age > HystToNoEyes) => c.right = {}
  <2>1. DOMAIN hist.pair = {"delta", "age"} /\ hist.pair.age \in 0 .. (HystToNoEyes + 1)
    BY DEF EyeInv, OffsetAges
  <2> HIDE DEF c
  <2>2. /\ DOMAIN c.pair = {"delta", "age"} /\ c.pair.age \in 0 .. (HystToNoEyes + 1)
        /\ (sl = {} \/ sr = {}) => c.pair.age = hist.pair.age + 1 \/ c.pair.age = HystToNoEyes + 1
        /\ sl = {} /\ (sr = {} \/ c.pair.age > HystToNoEyes) => c.left = {}
        /\ sr = {} /\ (sl = {} \/ c.pair.age > HystToNoEyes) => c.right = {}
    BY <2>1, CompleteIs DEF c
  <2> QED BY <1>2, <2>2
<1> HIDE DEF c
<1>8. OffsetAges'
  <2>1. hist'.pair = c.pair BY <1>1, <1>3
  <2>2. ASSUME NEW n \in Nat, NEW m \in Nat, m <= n + 1, ~l \/ ~r, hist.pair.age >= n \/ hist.pair.age = HystToNoEyes + 1
        PROVE  c.pair.age >= m \/ c.pair.age = HystToNoEyes + 1
    <3>1. hist.pair.age \in 0 .. (HystToNoEyes + 1) BY DEF EyeInv, OffsetAges
    <3> QED BY <1>4, <1>7, <2>2, <3>1
  <2>3. c.pair.age >= 0 BY <1>4, <1>7
  <2>4. /\ hist.pair.age >= unseen.l \/ hist.pair.age = HystToNoEyes + 1
        /\ hist.pair.age >= unseen.r \/ hist.pair.age = HystToNoEyes + 1
    BY DEF EyeInv, OffsetAges
  <2>5. c.pair.age >= unseen'.l \/ c.pair.age = HystToNoEyes + 1
    <3>1. CASE l BY <1>1, <2>3, <3>1
    <3>2. CASE ~l
      <4>1. unseen'.l = More(unseen.l) BY <1>1, <3>2
      <4> QED BY <1>4, <2>2, <2>4, <3>2, <4>1, MoreIs
    <3> QED BY <3>1, <3>2
  <2>6. c.pair.age >= unseen'.r \/ c.pair.age = HystToNoEyes + 1
    <3>1. CASE r BY <1>1, <2>3, <3>1
    <3>2. CASE ~r
      <4>1. unseen'.r = More(unseen.r) BY <1>1, <3>2
      <4> QED BY <1>4, <2>2, <2>4, <3>2, <4>1, MoreIs
    <3> QED BY <3>1, <3>2
  <2> QED BY <1>7, <2>1, <2>5, <2>6 DEF OffsetAges
<1>9. WindowsEmpty'
  <2>1. /\ IsWindow(hist.left) /\ IsWindow(hist.right)
        /\ Blank(hist.left, unseen.l - HystToNoEyes) /\ Blank(hist.right, unseen.r - HystToNoEyes)
        /\ Blank(hist.left, both) /\ Blank(hist.right, both)
    BY DEF EyeInv, WindowsEmpty
  <2> DEFINE wl == hist'.left
             wr == hist'.right
  <2>2. wl = Pushed(hist.left, Place(c.left), Window) /\ wr = Pushed(hist.right, Place(c.right), Window)
    BY <1>1, <1>3
  <2>3. Place({}) = {} BY DEF Place
  <2>4. IsWindow(wl) /\ IsWindow(wr) BY <2>1, <2>2, PushedIs
  <2>5. /\ c.pair.age >= unseen'.l \/ c.pair.age = HystToNoEyes + 1
        /\ c.pair.age >= unseen'.r \/ c.pair.age = HystToNoEyes + 1
    BY <1>1, <1>3, <1>8 DEF OffsetAges
  <2>6. Blank(wl, unseen'.l - HystToNoEyes)
    <3>1. unseen'.l \in Nat BY <1>5 DEF EyeTypes
    <3>2. CASE unseen'.l <= HystToNoEyes BY <1>4, <3>1, <3>2, BlankNone
    <3>3. CASE unseen'.l > HystToNoEyes
      <4>1. ~l /\ unseen'.l = More(unseen.l) BY <1>1, <1>4, <3>3
      <4>2. c.left = {} BY <1>4, <1>7, <2>5, <3>1, <3>3, <4>1
      <4>3. unseen'.l <= unseen.l + 1 BY <1>4, <4>1, MoreIs
      <4>4. /\ unseen'.l - HystToNoEyes \in Int /\ unseen.l - HystToNoEyes \in Int
            /\ unseen'.l - HystToNoEyes <= (unseen.l - HystToNoEyes) + 1
        BY <1>4, <3>1, <4>3
      <4> QED BY <2>1, <2>2, <2>3, <4>2, <4>4, BlankPushed
    <3> QED BY <1>4, <3>1, <3>2, <3>3
  <2>7. Blank(wr, unseen'.r - HystToNoEyes)
    <3>1. unseen'.r \in Nat BY <1>5 DEF EyeTypes
    <3>2. CASE unseen'.r <= HystToNoEyes BY <1>4, <3>1, <3>2, BlankNone
    <3>3. CASE unseen'.r > HystToNoEyes
      <4>1. ~r /\ unseen'.r = More(unseen.r) BY <1>1, <1>4, <3>3
      <4>2. c.right = {} BY <1>4, <1>7, <2>5, <3>1, <3>3, <4>1
      <4>3. unseen'.r <= unseen.r + 1 BY <1>4, <4>1, MoreIs
      <4>4. /\ unseen'.r - HystToNoEyes \in Int /\ unseen.r - HystToNoEyes \in Int
            /\ unseen'.r - HystToNoEyes <= (unseen.r - HystToNoEyes) + 1
        BY <1>4, <3>1, <4>3
      <4> QED BY <2>1, <2>2, <2>3, <4>2, <4>4, BlankPushed
    <3> QED BY <1>4, <3>1, <3>2, <3>3
  <2>8. Blank(wl, both') /\ Blank(wr, both')
    <3>1. CASE l \/ r
      <4>1. both' = 0 BY <1>1, <3>1
      <4> QED BY <4>1, BlankNone
    <3>2. CASE ~l /\ ~r
      <4>1. both' = More(both) /\ c.left = {} /\ c.right = {} BY <1>1, <1>7, <3>2
      <4>2. both' \in Int /\ both \in Int /\ both' <= both + 1 BY <1>4, <4>1, MoreIs
      <4> QED BY <2>1, <2>2, <2>3, <4>1, <4>2, BlankPushed
    <3> QED BY <3>1, <3>2
  <2>9. \A v \in view' : v.left = extrapolate(wl) /\ v.right = extrapolate(wr) BY <1>1, <1>3
  <2>10. /\ extrapolate(hist.left)' = extrapolate(wl) /\ extrapolate(hist.right)' = extrapolate(wr)
         /\ IsWindow(hist.left)' = IsWindow(wl) /\ IsWindow(hist.right)' = IsWindow(wr)
         /\ Blank(hist.left, unseen.l - HystToNoEyes)' = Blank(wl, unseen'.l - HystToNoEyes)
         /\ Blank(hist.right, unseen.r - HystToNoEyes)' = Blank(wr, unseen'.r - HystToNoEyes)
         /\ Blank(hist.left, both)' = Blank(wl, both') /\ Blank(hist.right, both)' = Blank(wr, both')
    OBVIOUS
  <2> HIDE DEF wl, wr
  <2> QED BY <2>4, <2>6, <2>7, <2>8, <2>9, <2>10 DEF WindowsEmpty
<1> QED BY <1>5, <1>6, <1>8, <1>9 DEF EyeInv

LEMMA EyeInvKept == ASSUME EyeAssumption, EyeInv, [EyeNext]_eyeVars PROVE EyeInv'
<1>1. CASE UNCHANGED <<hist, view, steady, unseen, both>>
  BY <1>1 DEF EyeInv, EyeTypes, DamperCounts, OffsetAges, WindowsEmpty
<1>2. CASE StandsBy BY <1>2, StandingBy DEF StandsBy
<1>3. ASSUME NEW h \in Heads, NEW l \in BOOLEAN, NEW r \in BOOLEAN, Frame(h, l, r) PROVE EyeInv'
  BY <1>3, FrameKept
<1>4. \/ UNCHANGED <<hist, view, steady, unseen, both>> \/ StandsBy
      \/ \E h \in Heads, l, r \in BOOLEAN : Frame(h, l, r)
  BY DEF EyeNext, Connecting, Connected, Fails, GoesQuiet, eyeVars
<1> QED BY <1>1, <1>2, <1>3, <1>4

LEMMA EyeInitInv == ASSUME EyeAssumption, EyeInit PROVE EyeInv
<1>0. HystToNoEyes \in Nat /\ HystToNoEyes >= 2 /\ 0 - HystToNoEyes \in Int BY DEF EyeAssumption
<1>1. /\ hist = NewHistory /\ view = {} /\ steady = 0 /\ both = 0 /\ unseen = [l |-> 0, r |-> 0]
  BY DEF EyeInit
<1>2. hist.left = <<>> /\ hist.right = <<>> /\ unseen.l = 0 /\ unseen.r = 0 BY <1>1 DEF NewHistory
<1>3. WindowsEmpty BY <1>0, <1>1, <1>2, NoFrames DEF WindowsEmpty
<1>4. EyeTypes /\ DamperCounts /\ OffsetAges
  BY <1>0, <1>1 DEF EyeTypes, DamperCounts, OffsetAges, NewHistory
<1> QED BY <1>3, <1>4 DEF EyeInv

LEMMA EyeInvSettles == ASSUME EyeAssumption, EyeInv PROVE PictureSettles
<1>0. /\ HystToNoEyes \in Nat /\ Window \in Nat /\ steady \in Nat /\ both \in Nat
      /\ unseen.l \in Nat /\ unseen.r \in Nat
  BY DEF EyeAssumption, EyeInv, EyeTypes
<1>1. ASSUME NEW v \in view, steady >= HystToNoEyes PROVE v.guidance = v.raw
  <2>1. hist.damper.count \in 0 .. (HystToNoEyes - 1) BY DEF EyeInv, DamperCounts
  <2>2. v.guidance # v.raw => steady <= hist.damper.count BY DEF EyeInv, DamperCounts
  <2> QED BY <1>0, <1>1, <2>1, <2>2
<1>2. /\ Dots.left = {} \/ \E v \in view : Dots.left = v.left
      /\ Dots.right = {} \/ \E v \in view : Dots.right = v.right
  <2>1. CASE status # "connected" \/ view = {} BY <2>1 DEF Dots, eye_view_for, NoView
  <2>2. CASE ~(status # "connected" \/ view = {})
    <3>1. The(view) \in view BY <2>2 DEF The
    <3> QED BY <2>2, <3>1 DEF Dots, eye_view_for
  <2> QED BY <2>1, <2>2
<1>3. /\ Dots.left = {} \/ Dots.left = extrapolate(hist.left)
      /\ Dots.right = {} \/ Dots.right = extrapolate(hist.right)
  BY <1>2 DEF EyeInv, WindowsEmpty
<1>4. ASSUME NEW w \in {hist.left, hist.right} PROVE Len(w) <= Window /\ IsWindow(w) /\ Len(w) \in Nat
  <2>1. IsWindow(w) BY DEF EyeInv, WindowsEmpty
  <2>2. w \in Seq({w[i] : i \in DOMAIN w}) /\ Len(w) <= Window BY <2>1 DEF IsWindow
  <2> QED BY <2>1, <2>2
<1>5. unseen.l >= HystToNoEyes + Window => extrapolate(hist.left) = {}
  <2> SUFFICES ASSUME unseen.l >= HystToNoEyes + Window PROVE extrapolate(hist.left) = {} OBVIOUS
  <2>1. Blank(hist.left, unseen.l - HystToNoEyes) BY DEF EyeInv, WindowsEmpty
  <2>2. unseen.l - HystToNoEyes \in Int /\ Len(hist.left) <= unseen.l - HystToNoEyes BY <1>0, <1>4
  <2> QED BY <1>4, <2>1, <2>2, NothingDrawn
<1>6. unseen.r >= HystToNoEyes + Window => extrapolate(hist.right) = {}
  <2> SUFFICES ASSUME unseen.r >= HystToNoEyes + Window PROVE extrapolate(hist.right) = {} OBVIOUS
  <2>1. Blank(hist.right, unseen.r - HystToNoEyes) BY DEF EyeInv, WindowsEmpty
  <2>2. unseen.r - HystToNoEyes \in Int /\ Len(hist.right) <= unseen.r - HystToNoEyes BY <1>0, <1>4
  <2> QED BY <1>4, <2>1, <2>2, NothingDrawn
<1>7. both >= Window => extrapolate(hist.left) = {} /\ extrapolate(hist.right) = {}
  <2> SUFFICES ASSUME both >= Window PROVE extrapolate(hist.left) = {} /\ extrapolate(hist.right) = {} OBVIOUS
  <2>1. Blank(hist.left, both) /\ Blank(hist.right, both) BY DEF EyeInv, WindowsEmpty
  <2>2. both \in Int /\ Len(hist.left) <= both /\ Len(hist.right) <= both BY <1>0, <1>4
  <2> QED BY <1>4, <2>1, <2>2, NothingDrawn
<1> QED BY <1>1, <1>3, <1>5, <1>6, <1>7 DEF PictureSettles

(* Whatever the frames before (eyeview.rs): a verdict that has held for        *)
(* HYST_TO_NO_EYES frames is the one in the words, and an eye that is away      *)
(* for as long as an offset and then the window last is not drawn, nor either   *)
(* eye a window after both were lost; for any windows, patiences, heads and     *)
(* sessions.                                                                   *)
THEOREM EyesSettle == ASSUME EyeAssumption PROVE EyeSpec => []PictureSettles
<1>1. EyeInit => EyeInv BY EyeInitInv
<1>2. EyeInv /\ [EyeNext]_eyeVars => EyeInv' BY EyeInvKept
<1>3. EyeInv => PictureSettles BY EyeInvSettles
<1> QED BY <1>1, <1>2, <1>3, PTL DEF EyeSpec
=============================================================================
