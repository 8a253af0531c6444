------------------------------ MODULE GameSide ------------------------------
(***************************************************************************)
(* Head tracking for games, as the hub switches it on and off: one settings *)
(* file (tobii-output games.rs) edited by a row of the window (tobii-gtk    *)
(* games.rs) and by `tobii games set', and read once a second by the device *)
(* thread, which owns the virtual joystick and the session's output         *)
(* (device.rs GameSide, outputs.rs GameOutput), and by the socket thread,   *)
(* which watches the opentrack port (outputs.rs PortWatch, listener.rs).    *)
(* Each edit is one step: read, change, write.                             *)
(***************************************************************************)
EXTENDS Naturals, FiniteSets

CONSTANTS
    Fields,          \* the switches edited in a terminal
    Strengths,       \* the strengths the row offers
    MaxEdits, MaxEvents      \* bounds: edits, and changes from outside

VARIABLES
    toml,            \* games.toml
    row,             \* the row's controls, and what its button and its line say
    lastCfg, joyDev, joyStatus,          \* GameSide
    claims,          \* the claims on the tracker the two threads hold
    focus,           \* and one of the window
    tracking, out,   \* the session, and its GameOutput: none, or one
    sending,         \* the socket thread's copy of `composing'
    listener,        \* a program bound to the opentrack address
    uinput,          \* /dev/uinput can be opened
    edits, events

gameVars == <<toml, row, lastCfg, joyDev, joyStatus, claims, focus, tracking, out, sending, listener, uinput, edits, events>>

-----------------------------------------------------------------------------
(* OutputConfig: `net' stands for the opentrack address, there or not, and    *)
(* the strength is an angle for each axis.                                   *)
Defaults ==
    [enabled |-> FALSE, joystick |-> TRUE, net |-> TRUE, wake_for_opentrack |-> TRUE,
     wake_for_joystick |-> TRUE, keep_awake |-> FALSE, yaw |-> 1, pitch |-> 1]

(* apply_key: the key's own field, if the value will do. *)
ApplyKey(cfg, field, value) == [cfg EXCEPT ![field] = value]

StrengthIndex(cfg) == {s \in Strengths : cfg.yaw = s}
WithStrength(cfg, s) == [cfg EXCEPT !.yaw = s, !.pitch = s]

WatchTarget(cfg) == cfg.enabled /\ cfg.wake_for_opentrack /\ cfg.net
SendsSomewhere(cfg) == cfg.enabled /\ (cfg.joystick \/ cfg.net)
WantsJoystick(cfg) == cfg.enabled /\ cfg.joystick
WantsJoystickWake(cfg, have) == have /\ cfg.wake_for_joystick /\ WantsJoystick(cfg)
WakingForJoystick(cfg) == cfg.joystick /\ cfg.wake_for_joystick

(* recentre_decision *)
RecentreDecision(busy, on, sends) ==
    IF busy THEN "busy" ELSE IF ~on THEN "not running" ELSE IF ~sends THEN "nothing composes" ELSE "ok"

(* status_text: the switch, the destinations, what is wrong. *)
StatusText(cfg, on, status) ==
    IF ~cfg.enabled THEN [says |-> "off", to |-> {}, trouble |-> FALSE, also |-> WakingForJoystick(cfg)]
    ELSE LET to == (IF cfg.joystick /\ status = "present" THEN {"joystick"} ELSE {})
                   \cup (IF cfg.joystick /\ status = "off" THEN {"joystick, starting"} ELSE {})
                   \cup (IF cfg.net THEN {"opentrack"} ELSE {})
         IN  [says |-> IF to = {} THEN "nowhere" ELSE IF on THEN "sending"
                       ELSE IF WatchTarget(cfg) THEN "when asked or opened" ELSE "when asked",
              to |-> to, trouble |-> cfg.joystick /\ status = "failed", also |-> FALSE]

-----------------------------------------------------------------------------
(* The row.  A control writes its own field, over what is in the file now;    *)
(* the line is written again as if the tracker were off.                     *)
EditConfig(cfg) == toml' = cfg
Line(cfg, on) == StatusText(cfg, on, joyStatus)

RowSwitch(field) ==
    /\ edits < MaxEdits /\ edits' = edits + 1
    /\ EditConfig(ApplyKey(toml, field, ~row[field]))
    /\ row' = [row EXCEPT ![field] = ~@, !.line = Line(toml', FALSE)]
    /\ UNCHANGED <<lastCfg, joyDev, joyStatus, claims, focus, tracking, out, sending, listener, uinput, events>>
RowStrength(s) ==
    /\ edits < MaxEdits /\ edits' = edits + 1 /\ row.strength # {s}
    /\ EditConfig(WithStrength(toml, s))
    /\ row' = [row EXCEPT !.strength = {s}, !.line = Line(toml', FALSE)]
    /\ UNCHANGED <<lastCfg, joyDev, joyStatus, claims, focus, tracking, out, sending, listener, uinput, events>>

(* refresh, at each tick of the hub.  Setting a control that differs emits    *)
(* its signal, and the handler behind it saves: the switches write what was   *)
(* read, a strength writes the angle of both axes.                           *)
Resaved(cfg) ==
    LET s == StrengthIndex(cfg)
    IN  IF s # {} /\ row.strength # s THEN WithStrength(cfg, CHOOSE i \in s : TRUE) ELSE cfg
RowRefresh ==
    LET cfg == toml
        s == StrengthIndex(cfg)
    IN  /\ EditConfig(Resaved(cfg))
        /\ row' = [enabled |-> cfg.enabled, joystick |-> cfg.joystick,
                   strength |-> IF s # {} THEN s ELSE row.strength,
                   on |-> tracking, sends |-> SendsSomewhere(cfg),
                   decision |-> RecentreDecision(FALSE, tracking, SendsSomewhere(cfg)),
                   line |-> Line(cfg, tracking)]
        /\ UNCHANGED <<lastCfg, joyDev, joyStatus, claims, focus, tracking, out, sending, listener, uinput, edits, events>>

(* `tobii games set KEY VALUE' *)
GamesSet(field, value) ==
    /\ edits < MaxEdits /\ edits' = edits + 1 /\ toml[field] # value
    /\ toml' = ApplyKey(toml, field, value)
    /\ UNCHANGED <<row, lastCfg, joyDev, joyStatus, claims, focus, tracking, out, sending, listener, uinput, events>>

-----------------------------------------------------------------------------
(* GameOutput::for_session and from_config: the sinks that could be opened,   *)
(* or no output.  The sender is bound to a port the kernel draws: it may be   *)
(* the one that is watched, if nobody has that.                              *)
Ports == {"watched", "another"}
ForSession(cfg, joy, port) ==
    IF ~cfg.enabled \/ ~(joy \/ cfg.net) THEN {}
    ELSE {[cfg |-> cfg, joystick |-> joy, sender |-> IF cfg.net THEN {port} ELSE {}]}
Drawn(port) == port = "watched" => ~listener

(* latch: a claim is taken once, and given up. *)
Latch(c, want, reason) == IF want THEN c \cup {reason} ELSE c \ {reason}

(* sync_joystick: what becomes of the device; a second request for one that   *)
(* is there changes only its response.                                       *)
SyncJoystick(cfg, opened) ==
    /\ joyDev' = (WantsJoystick(cfg) /\ (joyDev \/ opened))
    /\ joyStatus' = IF ~WantsJoystick(cfg) THEN "off"
                    ELSE IF joyDev' THEN "present" ELSE "failed"
    /\ claims' = Latch(Latch(claims, WantsJoystickWake(cfg, joyDev'), "joystick"), cfg.keep_awake, "keep_awake")

(* A fault: only the file is looked at. *)
MutChanged(cfg, had, have) == FALSE

(* Whether a running output has to be made again. *)
Changed(cfg, had, have) == (\E c \in lastCfg : c # cfg) \/ had # have

(* GameSide::poll, and in a session what follows at once: reconfigure, which   *)
(* keeps the pipeline and reads the file itself, or the output is dropped.   *)
GamePoll ==
    /\ \E opened \in BOOLEAN : (opened = uinput) /\ SyncJoystick(toml, opened)
    /\ lastCfg' = {toml}
    /\ IF tracking /\ Changed(toml, joyDev, joyDev')
       THEN \E port \in Ports : Drawn(port) /\ out' = ForSession(toml, joyDev', port)
       ELSE UNCHANGED out
    /\ UNCHANGED <<toml, row, focus, tracking, sending, listener, uinput, edits, events>>

(* device_session: while something holds the tracker; its output is built     *)
(* from the file as it is now.  It ends when nothing does, or by itself.     *)
Wanted == claims # {} \/ focus
SessionOpens ==
    /\ ~tracking /\ Wanted /\ tracking' = TRUE
    /\ \E port \in Ports : Drawn(port) /\ out' = ForSession(toml, joyDev, port)
    /\ UNCHANGED <<toml, row, lastCfg, joyDev, joyStatus, claims, focus, sending, listener, uinput, edits, events>>
StandsDown ==
    /\ tracking /\ ~Wanted /\ tracking' = FALSE /\ out' = {}
    /\ UNCHANGED <<toml, row, lastCfg, joyDev, joyStatus, claims, focus, sending, listener, uinput, edits, events>>
Breaks ==
    /\ tracking /\ events < MaxEvents /\ events' = events + 1
    /\ tracking' = FALSE /\ out' = {}
    /\ UNCHANGED <<toml, row, lastCfg, joyDev, joyStatus, claims, focus, sending, listener, uinput, edits>>

-----------------------------------------------------------------------------
(* listener::probe: the sockets that are bound to the port; ours and the      *)
(* program's, which the kernel keeps apart by inode.                         *)
Bound ==
    (IF listener THEN {[ours |-> FALSE]} ELSE {})
    \cup (IF \E o \in out : "watched" \in o.sender THEN {[ours |-> TRUE]} ELSE {})

(* A fault: every socket on the port is a listener. *)
MutIsOurSender(s) == FALSE

IsOurSender(s) == s.ours
Scan == \E s \in Bound : ~IsOurSender(s)

(* PortWatch::poll, and the copy the socket thread judges a recentre by. *)
PortPoll ==
    /\ claims' = Latch(claims, WatchTarget(toml) /\ Scan, "listener")
    /\ sending' = SendsSomewhere(toml)
    /\ UNCHANGED <<toml, row, lastCfg, joyDev, joyStatus, focus, tracking, out, listener, uinput, edits, events>>

-----------------------------------------------------------------------------
(* Opentrack starts or ends, /dev/uinput is granted, the window has the focus. *)
World ==
    /\ events < MaxEvents /\ events' = events + 1
    /\ \/ /\ listener' = ~listener /\ (listener' => \A o \in out : "watched" \notin o.sender)
          /\ UNCHANGED <<uinput, focus>>
       \/ uinput' = ~uinput /\ UNCHANGED <<listener, focus>>
       \/ focus' = ~focus /\ UNCHANGED <<listener, uinput>>
    /\ UNCHANGED <<toml, row, lastCfg, joyDev, joyStatus, claims, tracking, out, sending, edits>>

GameInit ==
    /\ toml \in [enabled : BOOLEAN, joystick : BOOLEAN, net : {TRUE}, wake_for_opentrack : {TRUE},
                 wake_for_joystick : {FALSE}, keep_awake : {FALSE}, yaw : {1}, pitch : {1}] \cup {Defaults}
    /\ row = [enabled |-> toml.enabled, joystick |-> toml.joystick, strength |-> StrengthIndex(toml),
              on |-> FALSE, sends |-> SendsSomewhere(toml),
              decision |-> RecentreDecision(FALSE, FALSE, SendsSomewhere(toml)),
              line |-> StatusText(toml, FALSE, "off")]
    /\ lastCfg = {} /\ joyDev = FALSE /\ joyStatus = "off" /\ claims = {} /\ focus = TRUE
    /\ tracking = FALSE /\ out = {} /\ sending = SendsSomewhere(toml)
    /\ listener = FALSE /\ uinput \in BOOLEAN /\ edits = 0 /\ events = 0

GameNext ==
    \/ (\E f \in {"enabled", "joystick"} : RowSwitch(f))
    \/ (\E s \in Strengths : RowStrength(s))
    \/ RowRefresh
    \/ (\E f \in Fields, v \in BOOLEAN : GamesSet(f, v))
    \/ (\E f \in {"yaw", "pitch"}, v \in Strengths : GamesSet(f, v))
    \/ GamePoll \/ SessionOpens \/ StandsDown \/ Breaks \/ PortPoll \/ World

(* Both threads poll for as long as the hub runs, and a session nobody wants  *)
(* is ended once it has lingered.                                            *)
GameFair == WF_gameVars(GamePoll) /\ WF_gameVars(PortPoll) /\ WF_gameVars(StandsDown)
GameSpec == GameInit /\ [][GameNext]_gameVars /\ GameFair

-----------------------------------------------------------------------------
(* A controller the hub says is gone is gone: the device lives for as long as *)
(* anybody holds its handle, and a session's router holds one too.           *)
JoystickGone ==
    /\ joyStatus = "present" <=> joyDev
    /\ "joystick" \in claims => joyDev
    /\ \A o \in out : o.joystick => joyDev

(* "the tracker would never return to standby, which is the one rule this     *)
(* subsystem exists to enforce": once the window has no focus, nobody listens *)
(* and no setting keeps the tracker on, it goes dark; the hub's own socket is *)
(* not a reason.                                                             *)
Nobody == ~focus /\ ~listener /\ ~toml.keep_awake /\ ~(WantsJoystick(toml) /\ toml.wake_for_joystick)
Dark == ~tracking
StandsBy == <>[]Nobody => <>[]Dark

(* "an equal write is silent and cannot re-enter the save handlers": showing  *)
(* the settings in the row does not change them.                             *)
RefreshKeeps == [][RowRefresh => toml' = toml]_gameVars
=============================================================================
