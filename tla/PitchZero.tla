------------------------------ MODULE PitchZero ------------------------------
(***************************************************************************)
(* Measuring the head-pose pitch zero: the dialog of head_model.rs, which  *)
(* mints a token, claims DeviceState::pitch_cal with it, queues the        *)
(* command and polls for the result; and the device thread, which runs the *)
(* measurement inline (device.rs `calibrate_pitch`), fails it when the     *)
(* tracker cannot be opened, and resets DeviceState when it goes idle.     *)
(* The dialog takes the focus off the hub, and with it the hub's own claim *)
(* on the tracker.                                                         *)
(*                                                                         *)
(* Time is three facts: LINGER (3 s) and the pause after a failed open     *)
(* (750 ms) outlast the dialog's 200 ms poll when the result is there as   *)
(* they start, and a measurement (13 s) outlasts LINGER.                   *)
(***************************************************************************)
EXTENDS Naturals, Sequences

CONSTANTS
    Others,      \* whether another consumer may hold the tracker on throughout
    MaxRuns,     \* how many times Start is pressed
    MaxLeases,   \* how many times a program takes the device lease
    MaxUnplugs   \* how many times the tracker stops answering

PitchAssumption == MaxRuns \in Nat /\ Others \subseteq BOOLEAN

Reload == 0      \* DeviceCommand::ReloadHeadModel, in a queue of tokens

VARIABLES
    \* the dialog
    win,      \* it is open
    go,       \* its Start button can be pressed
    minted,   \* the last token minted
    sending,  \* Start has claimed the state and not sent the command yet
    poll,     \* the token its timeout polls for, 0 when there is no timeout
    focus,    \* the hub window's claim on the tracker
    \* shared
    pc,       \* DeviceState::pitch_cal
    rx,       \* the DeviceCommand channel
    lease, leases, reachable, unplugs,
    \* the device thread
    dev,      \* where it is
    taken,    \* commands taken off the channel
    status,   \* DeviceState::status
    idle,     \* idle_since
    run,      \* the token being measured, and where its command came from
    back,
    outcome,  \* what is to be reported of it
    others,   \* somebody else holds the tracker on
    \* history
    savedRuns, \* runs whose offset went to disk
    dropped    \* runs cancelled before the device thread came to them

ui     == <<win, go, minted, sending, poll, focus>>
world  == <<lease, leases, reachable, unplugs>>
thread == <<dev, taken, status, idle, run, back, outcome>>
past   == <<savedRuns, dropped, others>>
pitchVars == <<ui, pc, rx, world, thread, past>>

(* PitchCal::default *)
NoRun == [token |-> 0, active |-> FALSE, result |-> "none"]

wanted == others \/ focus

(* A fault the properties must notice: only the cancel is looked at.         *)
MutCurrentActive(t) == pc.active

(* current: the token still owns the state, and was not cancelled. *)
current_run(t) == pc.token = t /\ pc.active

PitchInit ==
    /\ win = FALSE /\ go = TRUE /\ minted = 0 /\ sending = 0 /\ poll = 0 /\ focus = FALSE
    /\ pc = NoRun /\ rx = <<>>
    /\ lease = FALSE /\ leases = 0 /\ reachable = TRUE /\ unplugs = 0
    /\ dev = "drain" /\ taken = <<>> /\ status = "idle" /\ idle = "none"
    /\ run = 0 /\ back = "drain" /\ outcome = "none"
    /\ savedRuns = {} /\ dropped = {} /\ others \in Others

-----------------------------------------------------------------------------
(* The user opens the dialog from the hub window. *)
OpenDialog ==
    /\ ~win /\ focus
    /\ win' = TRUE /\ go' = TRUE
    /\ UNCHANGED <<minted, sending, poll, focus, pc, rx, world, thread, past>>

(* Start claims the state with a fresh token, ... *)
Start ==
    /\ win /\ go /\ minted < MaxRuns
    /\ go' = FALSE /\ minted' = minted + 1 /\ sending' = minted'
    /\ pc' = [token |-> minted', active |-> TRUE, result |-> "none"]
    /\ UNCHANGED <<win, poll, focus, rx, world, thread, past>>

(* ... and only then sends the command and starts polling. *)
Send ==
    /\ sending # 0
    /\ rx' = Append(rx, sending) /\ poll' = sending /\ sending' = 0
    /\ UNCHANGED <<win, go, minted, focus, pc, world, thread, past>>

(* The timeout: somebody else's state ends it in silence, a result or a run  *)
(* that is no longer active gives the Start button back.                     *)
Poll ==
    /\ poll # 0
    /\ pc.token # poll \/ pc.result # "none" \/ ~pc.active
    /\ poll' = 0
    /\ go' = (go \/ pc.token = poll)
    /\ rx' = IF pc.token = poll /\ pc.result = "ok" THEN Append(rx, Reload) ELSE rx
    /\ UNCHANGED <<win, minted, sending, focus, pc, world, thread, past>>

(* Stop, Cancel, Escape or the window's own close. *)
Close ==
    /\ win /\ sending = 0
    /\ win' = FALSE /\ poll' = 0
    /\ pc' = [pc EXCEPT !.active = FALSE]
    /\ dropped' = dropped \cup {t \in 1..MaxRuns :
                     \/ \E i \in DOMAIN rx : rx[i] = t
                     \/ \E i \in DOMAIN taken : taken[i] = t}
    /\ UNCHANGED <<go, minted, sending, focus, rx, world, thread, savedRuns, others>>

(* The hub's tick: the window claims the tracker only while it has focus. *)
HubTick ==
    /\ sending = 0
    /\ focus' \in IF win THEN {FALSE} ELSE BOOLEAN
    /\ UNCHANGED <<win, go, minted, sending, poll, pc, rx, world, thread, past>>

-----------------------------------------------------------------------------
(* The lease (module LeaseHub) and the tracker, as this thread meets them. *)
LeaseTaken ==
    /\ ~lease /\ leases < MaxLeases
    /\ lease' = TRUE /\ leases' = leases + 1
    /\ UNCHANGED <<ui, pc, rx, reachable, unplugs, thread, past>>
LeaseEnds ==
    /\ lease /\ lease' = FALSE
    /\ UNCHANGED <<ui, pc, rx, leases, reachable, unplugs, thread, past>>
Unplug ==
    /\ reachable /\ unplugs < MaxUnplugs
    /\ reachable' = FALSE /\ unplugs' = unplugs + 1
    /\ UNCHANGED <<ui, pc, rx, lease, leases, thread, past>>
Replug ==
    /\ ~reachable /\ reachable' = TRUE
    /\ UNCHANGED <<ui, pc, rx, lease, leases, unplugs, thread, past>>

-----------------------------------------------------------------------------
(* stand_by drains the channel, then decides; a session starts Connecting.   *)
Drain ==
    /\ dev = "drain"
    /\ taken' = taken \o rx /\ rx' = <<>>
    /\ dev' = "decide"
    /\ UNCHANGED <<ui, pc, world, status, idle, run, back, outcome, past>>

DecideSession ==
    /\ dev = "decide"
    /\ IF (~wanted /\ taken = <<>>) \/ lease
       THEN dev' = "reset" /\ UNCHANGED status
       ELSE dev' = "open" /\ status' = "connecting"
    /\ UNCHANGED <<ui, pc, rx, world, taken, idle, run, back, outcome, past>>

(* The idle wait puts DeviceState back to its default once. *)
Reset ==
    /\ dev = "reset"
    /\ pc' = IF status # "idle" THEN NoRun ELSE pc
    /\ status' = "idle" /\ dev' = "drain"
    /\ UNCHANGED <<ui, rx, world, taken, idle, run, back, outcome, past>>

(* The dialog has yet to see a result that is there for it. *)
Unseen == poll # 0 /\ pc.token = poll /\ pc.result # "none"

OpenOk ==
    /\ dev = "open" /\ reachable
    /\ dev' = "apply" /\ status' = "connected"
    /\ UNCHANGED <<ui, pc, rx, world, taken, idle, run, back, outcome, past>>

OpenFails ==
    /\ dev = "open" /\ ~reachable
    /\ dev' = "fail" /\ status' = "error"
    /\ UNCHANGED <<ui, pc, rx, world, taken, idle, run, back, outcome, past>>

(* Faults: a queued run dies with the attempt in silence; a result is filed  *)
(* whoever owns the state.                                                   *)
MutFailSilent ==
    /\ dev = "fail" /\ taken # <<>>
    /\ taken' = Tail(taken)
    /\ UNCHANGED <<ui, pc, rx, world, dev, status, idle, run, back, outcome, past>>
MutFinishAnyway ==
    /\ dev = "finish"
    /\ pc' = [pc EXCEPT !.active = FALSE, !.result = outcome]
    /\ dev' = back /\ run' = 0 /\ outcome' = "none"
    /\ UNCHANGED <<ui, rx, world, taken, status, idle, back, past>>

(* fail_queued_command, one lock each; then the pause. *)
FailQueued ==
    /\ dev = "fail" /\ taken # <<>>
    /\ pc' = IF Head(taken) = Reload THEN pc
             ELSE [token |-> Head(taken), active |-> FALSE, result |-> "err"]
    /\ taken' = Tail(taken)
    /\ UNCHANGED <<ui, rx, world, dev, status, idle, run, back, outcome, past>>

BackOff ==
    /\ dev = "fail" /\ taken = <<>> /\ ~Unseen
    /\ dev' = "drain"
    /\ UNCHANGED <<ui, pc, rx, world, taken, status, idle, run, back, outcome, past>>

(* apply_command: a run that was cancelled or superseded in the queue is     *)
(* passed over in silence, any other is measured here and now.               *)
Take(t, from) ==
    IF t # Reload /\ current_run(t)
    THEN dev' = "measure" /\ run' = t /\ back' = from
    ELSE dev' = from /\ UNCHANGED <<run, back>>

ApplyPending ==
    /\ dev = "apply"
    /\ IF taken = <<>>
       THEN dev' = "loop" /\ UNCHANGED <<taken, run, back>>
       ELSE Take(Head(taken), "apply") /\ taken' = Tail(taken)
    /\ UNCHANGED <<ui, pc, rx, world, status, idle, outcome, past>>

(* The session loop: the demand and the lease, ... *)
Loop ==
    /\ dev = "loop"
    /\ IF (~wanted /\ idle = "over") \/ lease
       THEN dev' = "drain" /\ idle' = "none"
       ELSE dev' = "tick" /\ idle' = IF wanted THEN "none"
                                     ELSE IF idle = "none" THEN "running" ELSE idle
    /\ UNCHANGED <<ui, pc, rx, world, taken, status, run, back, outcome, past>>

LingerElapses ==
    /\ idle = "running" /\ ~Unseen
    /\ idle' = "over"
    /\ UNCHANGED <<ui, pc, rx, world, dev, taken, status, run, back, outcome, past>>

(* ... then device_tick, which drains the channel itself.  A silent tracker  *)
(* ends the session when the watchdog says so.                               *)
Tick ==
    /\ dev = "tick"
    /\ IF rx # <<>>
       THEN Take(Head(rx), "tick") /\ rx' = Tail(rx) /\ UNCHANGED idle
       ELSE /\ \/ dev' = "loop" /\ UNCHANGED idle
               \/ ~reachable /\ dev' = "drain" /\ idle' = "none"
            /\ UNCHANGED <<rx, run, back>>
    /\ UNCHANGED <<ui, pc, world, taken, status, outcome, past>>

-----------------------------------------------------------------------------
(* calibrate_pitch: every turn of its loop looks for a cancel, ... *)
Cancelled ==
    /\ dev = "measure" /\ ~current_run(run)
    /\ dev' = back /\ run' = 0
    /\ UNCHANGED <<ui, pc, rx, world, taken, status, idle, back, outcome, past>>

(* ... there is no model, there are too few frames, it cannot be saved, ... *)
MeasureFails ==
    /\ dev = "measure"
    /\ dev' = "finish" /\ outcome' = "err"
    /\ UNCHANGED <<ui, pc, rx, world, taken, status, idle, run, back, past>>

(* ... or the time is up, with enough of them: the offset goes to disk (and  *)
(* is reported with a warning when the head moved).                          *)
Measured ==
    /\ dev = "measure" /\ current_run(run)
    /\ dev' = "save"
    /\ UNCHANGED <<ui, pc, rx, world, taken, status, idle, run, back, outcome, past>>
Save ==
    /\ dev = "save"
    /\ savedRuns' = savedRuns \cup {run}
    /\ outcome' \in {"ok", "err"} /\ dev' = "finish"
    /\ UNCHANGED <<ui, pc, rx, world, taken, status, idle, run, back, dropped, others>>

(* `finish`: not into a newer run's state. *)
Finish ==
    /\ dev = "finish"
    /\ pc' = IF pc.token = run THEN [pc EXCEPT !.active = FALSE, !.result = outcome] ELSE pc
    /\ dev' = back /\ run' = 0 /\ outcome' = "none"
    /\ UNCHANGED <<ui, rx, world, taken, status, idle, back, past>>

DevStep ==
    \/ Drain \/ DecideSession \/ Reset \/ OpenOk \/ OpenFails \/ FailQueued \/ BackOff
    \/ ApplyPending \/ Loop \/ Tick
    \/ Cancelled \/ MeasureFails \/ Measured \/ Save \/ Finish

PitchNext ==
    \/ OpenDialog \/ Start \/ Send \/ Poll \/ Close \/ HubTick
    \/ LeaseTaken \/ LeaseEnds \/ Unplug \/ Replug
    \/ DevStep \/ LingerElapses

PitchSpec == PitchInit /\ [][PitchNext]_pitchVars

(* The device thread never stops, the GTK main loop runs its handlers and    *)
(* timeouts, a borrowed tracker is given back.  Nobody has to press a button *)
(* or plug the tracker in.                                                   *)
FairSpec ==
    /\ PitchSpec
    /\ WF_pitchVars(DevStep) /\ WF_pitchVars(LingerElapses) /\ WF_pitchVars(Send) /\ WF_pitchVars(Poll)
    /\ WF_pitchVars(LeaseEnds)

-----------------------------------------------------------------------------
Tokens == 0..MaxRuns

PitchTypeOK ==
    /\ win \in BOOLEAN /\ go \in BOOLEAN /\ focus \in BOOLEAN
    /\ minted \in Tokens /\ sending \in Tokens /\ poll \in Tokens /\ run \in Tokens
    /\ pc \in [token : Tokens, active : BOOLEAN, result : {"none", "ok", "err"}]
    /\ rx \in Seq(Tokens) /\ taken \in Seq(Tokens)
    /\ lease \in BOOLEAN /\ reachable \in BOOLEAN /\ leases \in Nat /\ unplugs \in Nat
    /\ dev \in {"drain", "decide", "reset", "open", "fail", "apply", "loop", "tick",
                "measure", "save", "finish"}
    /\ back \in {"drain", "apply", "tick"}
    /\ status \in {"idle", "connecting", "connected", "error"}
    /\ idle \in {"none", "running", "over"} /\ outcome \in {"none", "ok", "err"}
    /\ savedRuns \subseteq Tokens /\ dropped \subseteq Tokens /\ others \in BOOLEAN

(* A run cancelled while it sat in the queue is never measured, let alone    *)
(* saved over the good zero, however often the dialog is opened again and    *)
(* whichever queue it sat in (calibrate_pitch's first check).                *)
DroppedNeverSaves == savedRuns \cap dropped = {}

(* A result shown as saved is of the run that was saved, never of an older   *)
(* one that finished into a newer one's state (`finish`'s token check).      *)
ResultIsOwn == pc.result = "ok" => pc.token \in savedRuns

(* Both: what is measured, saved and shown is the run's own.                 *)
PitchRunIsOwn == DroppedNeverSaves /\ ResultIsOwn

(* Why: a token sits in one place of one queue, and nowhere once it was taken *)
(* or saved; one that was dropped never owns an active state again.           *)
In(q, t) == \E i \in DOMAIN q : q[i] = t
Once(q) == \A i, j \in DOMAIN q : q[i] = q[j] /\ q[i] # Reload => i = j
Queued(t) == t # Reload /\ (In(rx, t) \/ In(taken, t))
OneQueue ==
    /\ Once(rx) /\ Once(taken)
    /\ \A t \in Tokens : In(rx, t) /\ In(taken, t) => t = Reload
    /\ \A t \in Tokens : Queued(t) => t <= minted /\ t # run /\ t # sending /\ t \notin savedRuns
OwnRun ==
    /\ sending \in {0, minted} /\ (sending # 0 => sending \notin savedRuns \cup dropped \cup {run})
    /\ run <= minted /\ pc.token <= minted
    /\ \A t \in savedRuns \cup dropped : t # 0 /\ t <= minted
    /\ \A t \in dropped : ~current_run(t) /\ t # run
    /\ dev \in {"measure", "save", "finish"} => run # 0
    /\ outcome = "ok" => run \in savedRuns
    /\ outcome # "none" => dev = "finish"
PitchInv == PitchTypeOK /\ OneQueue /\ OwnRun /\ PitchRunIsOwn

(* No command of an earlier run is still queued or running.                  *)
Alone ==
    /\ \A i \in DOMAIN rx : rx[i] \in {minted, Reload}
    /\ \A i \in DOMAIN taken : taken[i] \in {minted, Reload}
    /\ run \in {minted, 0}

(* The dialog does not wait for ever, also when the tracker cannot be opened: *)
(* Start is given back, or the user closes it.  It holds of a tracker nobody  *)
(* leases and somebody else keeps on, because the idle reset wipes a run's    *)
(* state (see SavedIsShown), and of a run that does not share the queue with  *)
(* the one before it, because fail_queued_command files the failure of an     *)
(* older run over a newer one's state.                                        *)
Waits == poll # 0 /\ pc.token = poll /\ others /\ dev # "reset" /\ Alone
IsAnswered == go \/ ~win \/ lease
DialogAnswered == Waits ~> IsAnswered

(* A run whose offset was saved is reported to the dialog that asked for it. *)
SavedIsShown == (win /\ ~go /\ minted \in savedRuns) ~> (go \/ ~win)
=============================================================================
