----------------------------- MODULE ModelFile -----------------------------
(***************************************************************************)
(* The head-pose model: the one file the program does not ship, what puts  *)
(* it on disk (tobii-headpose/src/model_store.rs, `tobii headpose          *)
(* --fetch-model | --install-model | --remove-model`, the hub's card) and  *)
(* who reports on it (HeadWorker::spawn on the device thread, the card and *)
(* the hub's tick).                                                        *)
(*                                                                         *)
(* A file is the kind of bytes it holds: "good" has the pinned digest,     *)
(* "wrong" has the pinned length and another digest, "torn" is shorter.    *)
(***************************************************************************)
EXTENDS Naturals, FiniteSets

CONSTANTS Installers,   \* who may install: "hub" (the card) and "cli"
          Loads,        \* whether tract accepts the pinned bytes
          MaxEvents,    \* bound on clicks, removals, plugs and changes of demand
          MaxCrashes    \* bound on processes killed half-way

Bytes == {"none", "good", "wrong", "torn"}

VARIABLES file,       \* the three names: final, partial, download -> Bytes
          pc,         \* per installer: the step of fetch / install it is at
          got,        \* per installer: the bytes it read into memory
          at,         \* per installer: the name its open file goes by now
          published,  \* DeviceState::head_model
          queue,      \* ReloadHeadModel commands not yet taken by the thread
          dev,        \* the device thread: where it is and what spawn has read
          world,      \* whether the tracker is plugged in and wanted
          card,       \* what the hub's card shows
          budget      \* events and crashes left

modelVars == <<file, pc, got, at, published, queue, dev, world, card, budget>>

(* status: reads and digests the whole file. *)
Status(b) == CASE b = "none" -> "missing" [] b = "good" -> "ready" [] OTHER -> "corrupt"

(* status_quick: the length alone; a wrong length is digested after all. *)
StatusQuick(b) == CASE b = "none" -> "missing"
                    [] b \in {"good", "wrong"} -> "ready"
                    [] OTHER -> Status(b)

(* OnnxPose::from_store, and load_bytes on what it read. *)
FromStore(b) == CASE b = "none" -> "Missing"
                  [] b = "good" /\ Loads -> "Running"
                  [] OTHER -> "Refused"

(* running_line over status_line: what the card says. *)
StatusLine(st) == CASE st = "ready" -> "with angle" [] st = "missing" -> "add the model"
                    [] OTHER -> "not the expected one"
RunningLine(p, st) == CASE p = "Unasked" -> StatusLine(st)
                        [] p = "Running" -> StatusLine("ready")
                        [] p = "Missing" -> StatusLine("missing")
                        [] OTHER -> "not being used"

(* refresh: the line, and which buttons there are. *)
Running(p, st) == p = "Running" \/ (p = "Unasked" /\ st = "ready")
Installed(p, st) == p \in {"Running", "Refused"} \/ (p = "Unasked" /\ st # "missing")
Refreshed(c, p, f) ==
    LET st == StatusQuick(f.final)
    IN  [c EXCEPT !.line = RunningLine(p, st), !.running = Running(p, st),
                  !.installed = Installed(p, st)]

ModelInit ==
    /\ \E b \in {"none", "good", "wrong"} :
          /\ file = [final |-> b, partial |-> "none", download |-> "none"]
          /\ card = Refreshed([line |-> "", running |-> FALSE, installed |-> FALSE,
                               seen |-> "Unasked", dialog |-> "none"], "Unasked", file)
    /\ pc = [p \in Installers |-> "idle"]
    /\ got = [p \in Installers |-> "none"]
    /\ at = [p \in Installers |-> "none"]
    /\ published = "Unasked"
    /\ queue = 0
    /\ dev = [at |-> "standby", idle |-> FALSE, ticked |-> FALSE, read |-> "none"]
    /\ world \in [plugged : BOOLEAN, wanted : BOOLEAN]
    /\ budget = [events |-> MaxEvents, crashes |-> MaxCrashes]

Event == /\ budget.events > 0
         /\ budget' = [budget EXCEPT !.events = @ - 1]
-----------------------------------------------------------------------------
(* reload: forget the published answer, then tell the device thread. *)
MutForgotten == published
Forgotten == "Unasked"
Reload == /\ published' = Forgotten
          /\ queue' = queue + 1
          /\ card' = Refreshed(card, Forgotten, file')

(* The card's "Get the model" and the terms dialog; `--fetch-model` with   *)
(* its prompt. Only agreeing starts anything.                              *)
OpenTerms == /\ "hub" \in Installers /\ pc["hub"] = "idle"
             /\ card.dialog = "none" /\ ~card.running
             /\ Event
             /\ card' = [card EXCEPT !.dialog = "terms"]
             /\ UNCHANGED <<file, pc, got, at, published, queue, dev, world>>

(* start_download runs fetch on a thread; terms_dialog's other button, and *)
(* Escape, run nothing.                                                    *)
AnswerTerms == /\ card.dialog = "terms"
               /\ \/ pc' = [pc EXCEPT !["hub"] = "download"]
                  \/ UNCHANGED pc
               /\ card' = [card EXCEPT !.dialog = "none"]
               /\ UNCHANGED <<file, got, at, published, queue, dev, world, budget>>

(* fetch_model after its prompt, or install_model with a file of the user. *)
CliStarts == /\ "cli" \in Installers /\ pc["cli"] = "idle"
             /\ Event
             /\ \/ /\ pc' = [pc EXCEPT !["cli"] = "download"]
                   /\ UNCHANGED got
                \/ \E b \in {"good", "wrong", "torn"} :
                      /\ pc' = [pc EXCEPT !["cli"] = "verify"]
                      /\ got' = [got EXCEPT !["cli"] = b]
             /\ UNCHANGED <<file, at, published, queue, dev, world, card>>

(* download_to: curl -- wget only where there is no curl -- creates the    *)
(* `.download` file; with neither installed nothing is created at all.     *)
DownloadStarts(p) == /\ pc[p] = "download"
                     /\ \/ /\ file' = [file EXCEPT !.download = "torn"]
                           /\ pc' = [pc EXCEPT ![p] = "downloading"]
                        \/ /\ pc' = [pc EXCEPT ![p] = "failed"]
                           /\ UNCHANGED file
                     /\ UNCHANGED <<got, at, published, queue, dev, world, card, budget>>

(* ... and fills it, or fails, and then what there is of it is removed. *)
DownloadEnds(p) == /\ pc[p] = "downloading"
                   /\ \/ \E b \in {"good", "wrong"} :
                            /\ file' = [file EXCEPT !.download = IF @ = "none" THEN "none" ELSE b]
                            /\ pc' = [pc EXCEPT ![p] = "read"]
                      \/ /\ file' = [file EXCEPT !.download = "none"]
                         /\ pc' = [pc EXCEPT ![p] = "failed"]
                   /\ UNCHANGED <<got, at, published, queue, dev, world, card, budget>>

(* fetch: read the download whole, remove it; install only what was read. *)
ReadBack(p) == /\ pc[p] = "read"
               /\ got' = [got EXCEPT ![p] = file.download]
               /\ file' = [file EXCEPT !.download = "none"]
               /\ pc' = [pc EXCEPT ![p] = IF file.download = "none" THEN "failed" ELSE "verify"]
               /\ UNCHANGED <<at, published, queue, dev, world, card, budget>>

(* install: the digest of the bytes in memory, before anything is written. *)
Accepts(b) == b = "good"
Verify(p) == /\ pc[p] = "verify"
             /\ pc' = [pc EXCEPT ![p] = IF Accepts(got[p]) THEN "create" ELSE "failed"]
             /\ UNCHANGED <<file, got, at, published, queue, dev, world, card, budget>>

(* partial_name: the temporary is never the model's own name. *)
MutPartialName == "final"
PartialName == "partial"

(* std::fs::write on `.partial`: create truncates the file of that name... *)
Create(p) == /\ pc[p] = "create"
             /\ file' = [file EXCEPT ![PartialName] = "torn"]
             /\ at' = [at EXCEPT ![p] = PartialName]
             /\ pc' = [pc EXCEPT ![p] = "write"]
             /\ UNCHANGED <<got, published, queue, dev, world, card, budget>>

(* ... and the bytes go where that file is by then; a full disk ends it. *)
Write(p) == /\ pc[p] = "write"
            /\ \/ /\ file' = IF at[p] \in DOMAIN file THEN [file EXCEPT ![at[p]] = got[p]] ELSE file
                  /\ pc' = [pc EXCEPT ![p] = "rename"]
               \/ /\ pc' = [pc EXCEPT ![p] = "failed"]
                  /\ UNCHANGED file
            /\ at' = [at EXCEPT ![p] = "none"]
            /\ UNCHANGED <<got, published, queue, dev, world, card, budget>>

(* std::fs::rename moves the file, whoever still has it open with it. *)
Renamed(w) == CASE w = "partial" -> "final" [] w = "final" -> "gone" [] OTHER -> w
Rename(p) == /\ pc[p] = "rename"
             /\ IF file.partial = "none"
                THEN /\ pc' = [pc EXCEPT ![p] = "failed"]
                     /\ UNCHANGED <<file, at>>
                ELSE /\ file' = [file EXCEPT !.final = file.partial, !.partial = "none"]
                     /\ at' = [q \in Installers |-> Renamed(at[q])]
                     /\ pc' = [pc EXCEPT ![p] = "done"]
             /\ UNCHANGED <<got, published, queue, dev, world, card, budget>>

(* The hub's poll of the thread: reload and refresh, or only a message.    *)
(* The command line has no hub to tell.                                    *)
FetchEnds(p) == /\ pc[p] \in {"done", "failed"}
                /\ pc' = [pc EXCEPT ![p] = "idle"]
                /\ got' = [got EXCEPT ![p] = "none"]
                /\ IF p = "hub" /\ pc[p] = "done"
                   THEN UNCHANGED file /\ Reload
                   ELSE /\ card' = IF p = "hub" THEN [card EXCEPT !.line = "failed"] ELSE card
                        /\ UNCHANGED <<file, published, queue>>
                /\ UNCHANGED <<at, dev, world, budget>>

(* A killed process: its files stay as they are. The hub comes back fresh. *)
Crash(p) == /\ pc[p] # "idle" /\ budget.crashes > 0
            /\ budget' = [budget EXCEPT !.crashes = @ - 1]
            /\ pc' = [pc EXCEPT ![p] = "idle"]
            /\ got' = [got EXCEPT ![p] = "none"]
            /\ at' = [at EXCEPT ![p] = "none"]
            /\ IF p = "hub"
               THEN /\ published' = "Unasked" /\ queue' = 0
                    /\ dev' = [at |-> "standby", idle |-> FALSE, ticked |-> FALSE, read |-> "none"]
                    /\ card' = Refreshed([card EXCEPT !.seen = "Unasked", !.dialog = "none"],
                                         "Unasked", file)
               ELSE UNCHANGED <<published, queue, dev, card>>
            /\ UNCHANGED <<file, world>>

(* The card's Remove, agreed to; `--remove-model` is CliRemoves. *)
OpenRemove == /\ card.dialog = "none" /\ card.installed
              /\ Event
              /\ card' = [card EXCEPT !.dialog = "remove"]
              /\ UNCHANGED <<file, pc, got, at, published, queue, dev, world>>

AnswerRemove ==
    LET c == [card EXCEPT !.dialog = "none"]
    IN  /\ card.dialog = "remove"
        /\ \/ card' = c /\ UNCHANGED <<file, published, queue>>
           \/ /\ file.final = "none"
              /\ card' = [c EXCEPT !.line = "failed"]
              /\ UNCHANGED <<file, published, queue>>
           \/ /\ file.final # "none"
              /\ file' = [file EXCEPT !.final = "none"]
              /\ published' = Forgotten
              /\ queue' = queue + 1
              /\ card' = Refreshed(c, Forgotten, file')
        /\ at' = IF file'.final # file.final
                 THEN [q \in Installers |-> IF at[q] = "final" THEN "gone" ELSE at[q]] ELSE at
        /\ UNCHANGED <<pc, got, dev, world, budget>>

CliRemoves == /\ "cli" \in Installers /\ pc["cli"] = "idle"
              /\ Event
              /\ file' = [file EXCEPT !.final = "none"]
              /\ at' = [q \in Installers |-> IF at[q] = "final" THEN "gone" ELSE at[q]]
              /\ UNCHANGED <<pc, got, published, queue, dev, world, card>>
-----------------------------------------------------------------------------
(* The device thread. stand_by: the idle reset of DeviceState forgets the  *)
(* published answer too; a queued command wakes it like demand does.       *)
MustWait == ~world.wanted /\ queue = 0
StandBy == /\ dev.at = "standby" /\ MustWait /\ ~dev.idle
           /\ dev' = [dev EXCEPT !.idle = TRUE]
           /\ published' = "Unasked"
           /\ UNCHANGED <<file, pc, got, at, queue, world, card, budget>>

(* device_session: the connection, and spawn's read of the file; a failed  *)
(* connect drops what was queued (fail_queued_command ignores a reload).   *)
Connect == /\ dev.at = "standby" /\ ~MustWait
           /\ IF world.plugged
              THEN dev' = [at |-> "loading", idle |-> FALSE, ticked |-> FALSE, read |-> file.final] /\ UNCHANGED queue
              ELSE dev' = [dev EXCEPT !.idle = FALSE] /\ queue' = 0
           /\ dev' # dev \/ queue' # queue
           /\ UNCHANGED <<file, pc, got, at, published, world, card, budget>>

(* HeadWorker::spawn: 13 MB read, digested and optimised, then published. *)
Publish == /\ dev.at = "loading"
           /\ published' = FromStore(dev.read)
           /\ dev' = [dev EXCEPT !.at = "session", !.ticked = FALSE, !.read = "none"]
           /\ UNCHANGED <<file, pc, got, at, queue, world, card, budget>>

(* device_tick takes every command first: a ReloadHeadModel spawns again. *)
TakeReload == /\ dev.at = "session" /\ (queue > 0 \/ ~dev.ticked)
              /\ queue' = 0
              /\ dev' = IF queue > 0
                        THEN [dev EXCEPT !.at = "loading", !.read = file.final]
                        ELSE [dev EXCEPT !.ticked = TRUE]
              /\ UNCHANGED <<file, pc, got, at, published, world, card, budget>>

(* The linger or the two-second watchdog ends the session; a tick or more   *)
(* has run by then, so no command older than that tick is left.             *)
SessionEnds == /\ dev.at = "session" /\ dev.ticked /\ (~world.wanted \/ ~world.plugged)
               /\ dev' = [dev EXCEPT !.at = "standby"]
               /\ UNCHANGED <<file, pc, got, at, published, queue, world, card, budget>>

(* The hub's tick: the card is refreshed when the published answer changed. *)
Notices(p) == card.seen # p
Tick == /\ Notices(published)
        /\ card' = Refreshed([card EXCEPT !.seen = published], published, file)
        /\ UNCHANGED <<file, pc, got, at, published, queue, dev, world, budget>>

Plug == /\ Event
        /\ \/ world' = [world EXCEPT !.plugged = ~@]
           \/ world' = [world EXCEPT !.wanted = ~@]
        /\ UNCHANGED <<file, pc, got, at, published, queue, dev, card>>
-----------------------------------------------------------------------------
Install(p) == \/ DownloadStarts(p) \/ DownloadEnds(p) \/ ReadBack(p) \/ Verify(p)
              \/ Create(p) \/ Write(p) \/ Rename(p) \/ FetchEnds(p)
DeviceSteps == StandBy \/ Connect \/ Publish \/ TakeReload \/ SessionEnds

ModelNext == \/ OpenTerms \/ AnswerTerms \/ CliStarts
             \/ \E p \in Installers : Install(p) \/ Crash(p)
             \/ OpenRemove \/ AnswerRemove \/ CliRemoves
             \/ DeviceSteps \/ Tick \/ Plug

ModelFair == /\ WF_modelVars(DeviceSteps) /\ WF_modelVars(Tick)
             /\ \A p \in Installers : WF_modelVars(Install(p))
ModelSpec == ModelInit /\ [][ModelNext]_modelVars /\ ModelFair
-----------------------------------------------------------------------------
(* The model's own name never holds half a file, and never bytes the digest *)
(* was not taken of, whatever is killed when: "an interrupted install can   *)
(* never leave a half-written model".                                       *)
NeverHalf == /\ file.final # "torn"
             /\ \A p \in Installers : pc[p] \in {"create", "write", "rename"} => got[p] = "good"

(* The card does not stay on an answer about a file that is gone: once the  *)
(* model is absent and stays so, the card comes to offer the download and   *)
(* stops claiming the angle (control's reload exists for this).             *)
Absent == file.final = "none"
Forgot == ~Absent \/ (~card.running /\ ~card.installed)
NoGhost == Absent ~> Forgot
=============================================================================
