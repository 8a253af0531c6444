---------------------------- MODULE TrackerOwner ----------------------------
(***************************************************************************)
(* What the device lease promises, whatever the threads and messages: one  *)
(* owner of the tracker at a time; the hub gives its word (`grant`) only   *)
(* with its hands off the device, does not touch the device while the word *)
(* stands, and does not take it back from a program that acts on it.       *)
(* A program that did not ask can still open a device nobody holds.        *)
(***************************************************************************)
CONSTANTS Clients, Hub, NoOne

VARIABLES owner,   \* who has the tracker
          grant,   \* whom the hub let go for
          trusting \* the programs acting on the hub's word

vars == <<owner, grant, trusting>>

Init == owner = NoOne /\ grant = NoOne /\ trusting = {}

HubTakes ==
    /\ owner = NoOne /\ grant = NoOne
    /\ owner' = Hub /\ UNCHANGED <<grant, trusting>>

HubLetsGo ==
    /\ owner = Hub
    /\ owner' = NoOne /\ UNCHANGED <<grant, trusting>>

Grant(c) ==
    /\ owner # Hub /\ grant = NoOne
    /\ grant' = c /\ UNCHANGED <<owner, trusting>>

(* The program hears it. *)
Trust(c) ==
    /\ grant = c
    /\ trusting' = trusting \cup {c} /\ UNCHANGED <<owner, grant>>

(* Nobody acts on it any more. *)
Withdraw ==
    /\ grant \notin trusting
    /\ grant' = NoOne /\ UNCHANGED <<owner, trusting>>

Take(c) ==
    /\ owner = NoOne
    /\ owner' = c /\ UNCHANGED <<grant, trusting>>

(* A program stops: with the device closed, or leaving that to the kernel,  *)
(* and with its lease still to be taken back or already as good as gone.    *)
Leave(c) ==
    /\ trusting' = trusting \ {c}
    /\ owner' \in {owner, IF owner = c THEN NoOne ELSE owner}
    /\ grant' \in {grant, IF grant = c THEN NoOne ELSE grant}

Next ==
    \/ HubTakes \/ HubLetsGo \/ Withdraw
    \/ \E c \in Clients : Grant(c) \/ Trust(c) \/ Take(c) \/ Leave(c)

Spec == Init /\ [][Next]_vars
=============================================================================
