--------------------------------- MODULE Tray ---------------------------------
(***************************************************************************)
(* The tray icon (crates/tobii-gtk/src/tray.rs) and the hub window it is the *)
(* way back to (lib.rs: publish_tray, the close handler's question, the      *)
(* `activate` handler and background mode).                                  *)
(*                                                                           *)
(* Three processes: the hub, the session bus and the panel, whose watcher    *)
(* comes and goes with it.  The hub asks the bus once whether there is a     *)
(* watcher, then asks for a name of its own, then subscribes to the          *)
(* watcher's name changing hands; the bus handles those requests in that     *)
(* order, and what it has to tell the hub arrives later, in order.           *)
(***************************************************************************)
EXTENDS Naturals, Sequences

CONSTANTS Background,   \* started with --background
          EarlyPanel,   \* may the panel come or go while install() runs
          MaxPanels     \* how often the panel may come or go

VARIABLES watcher,      \* does anybody own the watcher's name
          owned,        \* does the hub own its item's name, as the bus knows
          matched,      \* is the hub's subscription in force
          mail,         \* what the bus has sent the hub and it has not handled
          call,         \* RegisterStatusNotifierItem on its way
          registered,   \* is the item in the register of the watcher that runs
          stage,        \* how far install() has got
          have_name, watcher_up,
          launched,     \* the first `activate` has been seen
          hub,          \* "none", "shown", "minimised", "hidden"
          panels

trayVars == <<watcher, owned, matched, mail, call, registered, stage, have_name, watcher_up, launched, hub, panels>>

TrayInit ==
    /\ watcher \in BOOLEAN
    /\ owned = FALSE /\ matched = FALSE /\ mail = <<>> /\ call = FALSE /\ registered = FALSE
    /\ stage = "install" /\ have_name = FALSE /\ watcher_up = FALSE
    /\ launched = FALSE /\ hub = "none" /\ panels = 0

\* State::announce, which sends only when both hold
Announce(name, up) == name /\ up

\* announced when the name is acquired and never again
MutAnnouncedOn(word) == word = "acquired"

\* both transitions ask for it: the name acquired, and a watcher appearing
AnnouncedOn(word) == word \in {"acquired", "appeared"}

(***************************************************************************)
(* install()                                                                *)
(***************************************************************************)
\* watcher_is_up: NameHasOwner, answered by the bus
Seed ==
    /\ stage = "install" /\ stage' = "seeded"
    /\ watcher_up' = watcher
    /\ UNCHANGED <<watcher, owned, matched, mail, call, registered, have_name, launched, hub, panels>>

\* bus_own_name_on_connection: the bus grants the name and says so
OwnName ==
    /\ stage = "seeded" /\ stage' = "named"
    /\ owned' = TRUE /\ mail' = Append(mail, "acquired")
    /\ UNCHANGED <<watcher, matched, call, registered, have_name, watcher_up, launched, hub, panels>>

\* subscribe_to_signal(NameOwnerChanged)
Subscribe ==
    /\ stage = "named" /\ stage' = "done"
    /\ matched' = TRUE
    /\ UNCHANGED <<watcher, owned, mail, call, registered, have_name, watcher_up, launched, hub, panels>>

(***************************************************************************)
(* The hub's main loop handles what the bus sent.                           *)
(***************************************************************************)
Handle ==
    /\ stage = "done" /\ mail # <<>> /\ mail' = Tail(mail)
    /\ have_name' = (have_name \/ Head(mail) = "acquired")
    /\ watcher_up' = CASE Head(mail) = "appeared"   -> TRUE
                       [] Head(mail) = "gone" -> FALSE
                       [] OTHER                       -> watcher_up
    /\ call' = \/ call
               \/ AnnouncedOn(Head(mail)) /\ Announce(have_name', watcher_up')
    /\ UNCHANGED <<watcher, owned, matched, registered, stage, launched, hub, panels>>

\* the watcher resolves the name it is told of
Register ==
    /\ call /\ call' = FALSE
    /\ registered' = (registered \/ (watcher /\ owned))
    /\ UNCHANGED <<watcher, owned, matched, mail, stage, have_name, watcher_up, launched, hub, panels>>

\* a panel starts or stops; a new watcher's register is empty
Panel ==
    /\ panels < MaxPanels /\ panels' = panels + 1
    /\ EarlyPanel \/ stage \in {"install", "done"}
    /\ watcher' = ~watcher /\ registered' = FALSE
    /\ mail' = IF matched THEN Append(mail, IF watcher THEN "gone" ELSE "appeared") ELSE mail
    /\ UNCHANGED <<owned, matched, call, stage, have_name, watcher_up, launched, hub>>

(***************************************************************************)
(* The window.                                                              *)
(***************************************************************************)
\* `activate`: the launch itself, a second launch, and a click on the icon
Activate(by) ==
    /\ stage = "done"
    /\ CASE by = "launch" -> ~launched
         [] by = "icon"   -> launched /\ registered
         [] OTHER         -> launched
    /\ launched' = TRUE
    /\ hub' = IF Background /\ ~launched THEN hub ELSE "shown"
    /\ UNCHANGED <<watcher, owned, matched, mail, call, registered, stage, have_name, watcher_up, panels>>

\* pressing X: hidden when the icon is somewhere to be seen, else minimised
Close ==
    /\ hub = "shown"
    /\ hub' = IF watcher_up THEN "hidden" ELSE "minimised"
    /\ UNCHANGED <<watcher, owned, matched, mail, call, registered, stage, have_name, watcher_up, launched, panels>>

Restore ==
    /\ hub = "minimised" /\ hub' = "shown"
    /\ UNCHANGED <<watcher, owned, matched, mail, call, registered, stage, have_name, watcher_up, launched, panels>>

Starts == Seed \/ OwnName \/ Subscribe

TrayNext ==
    \/ Starts \/ Handle \/ Register \/ Panel \/ Close \/ Restore
    \/ \E by \in {"launch", "again", "icon"} : Activate(by)

TrayFair == WF_trayVars(Starts) /\ WF_trayVars(Handle) /\ WF_trayVars(Register)

TraySpec == TrayInit /\ [][TrayNext]_trayVars /\ TrayFair

(***************************************************************************)
(* Properties.                                                              *)
(***************************************************************************)
\* Once nothing is on its way any more, the hub knows whether there is a
\* watcher, and if there is one it has the icon: a panel that starts, stops or
\* restarts at any point neither loses the icon nor is taken for running.
Quiet == stage = "done" /\ mail = <<>> /\ ~call

IconIsThere == Quiet => (watcher_up = watcher /\ (watcher => registered))

\* A panel that stays is given the icon: however it raced the hub's start, the
\* item ends up in its register.
PanelStays == watcher /\ panels = MaxPanels
HasIcon == registered
IconComes == PanelStays ~> HasIcon
================================================================================
