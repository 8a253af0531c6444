---------------------------- MODULE MCCalibration ----------------------------
(* Calibration three times over the same variables: one session over a pair   *)
(* of points with a tracker that may leave anything unanswered, be slow and   *)
(* drop the session (the constants of the .cfg file); two such sessions over  *)
(* one point; and two groups with a tracker that answers a collect            *)
(* before the flow gives up on it, under the fairness of clock and thread.    *)
EXTENDS Calibration

VARIABLE which    \* the tracker this behaviour is about

OnePair == <<{1, 2}>>
OnePoint == <<{1}>>
TwoGroups == <<{1}, {2, 3}>>

Again == INSTANCE Calibration WITH
    Groups <- OnePoint, MaxAttempts <- 2, Unanswered <- {"start", "add", "compute", "stop", "save"},
    Prompt <- FALSE, MaxRuns <- 2, MaxAsks <- 2, MaxDrops <- 1
Prompted == INSTANCE Calibration WITH
    Groups <- TwoGroups, MaxAttempts <- 2, Unanswered <- {"clear", "add", "discard", "group"},
    Prompt <- TRUE, MaxRuns <- 2, MaxAsks <- 4, MaxDrops <- 0

ASSUME Again!CalibrationAssumption /\ Prompted!CalibrationAssumption

CalInit ==
    \/ which = "slow" /\ Init
    \/ which = "again" /\ Again!Init
    \/ which = "prompt" /\ Prompted!Init
CalNext ==
    /\ UNCHANGED which
    /\ \/ which = "slow" /\ Next
       \/ which = "again" /\ Again!Next
       \/ which = "prompt" /\ Prompted!Next
CalFair ==
    /\ WF_vars(which = "prompt" /\ Prompted!Tick) /\ WF_vars(which = "prompt" /\ Prompted!Device)
    /\ SF_vars(which = "prompt" /\ Prompted!StartTimeout)
    /\ SF_vars(which = "prompt" /\ Prompted!Deadline)
    /\ SF_vars(which = "prompt" /\ Prompted!ComputeTimeout)
CalSpec == CalInit /\ [][CalNext]_<<which, vars>> /\ CalFair

(* The slow tracker alone.                                                   *)
SlowSpec == which = "slow" /\ Init /\ [][which' = which /\ Next]_<<which, vars>>

(* A tracker that answers a collect before the flow gives up on it: a run     *)
(* reported as complete was fitted to every point (CompleteRun), and a closed *)
(* flow has left the tracker on the saved calibration (Restored).             *)
RunIsComplete == which = "prompt" => Prompted!CompleteRun /\ Prompted!Restored

(* ... every session ends (FlowEnds), and a closed flow leaves neither a      *)
(* realm open nor the watchdog suppressed (LetsGo).                           *)
SessionEnds ==
    /\ (which = "prompt" /\ Underway) ~> (which = "prompt" /\ Ended)
    /\ (which = "prompt" /\ Closed) ~> (which = "prompt" /\ LetGo)
=============================================================================
