------------------------- MODULE EngineStateMachine -------------------------
(***************************************************************************)
(* engine/state_machine.py: the states of the engine, the table of legal   *)
(* transitions and StateMachine.transition, which forces DEGRADED when it  *)
(* is asked for anything else.                                             *)
(***************************************************************************)

EngineState ==
  {"INIT", "BASELINE", "DIAGNOSING", "DIAGNOSIS_READY", "SELECTING", "STARTING",
   "VERIFYING", "ACTIVE", "MONITORING", "DEGRADED", "RESELECTING"}

\* Mutation: the table has no way out of DEGRADED.
TransitionsNoRecovery ==
  [s \in EngineState |->
     CASE s = "INIT"            -> {"BASELINE"}
       [] s = "BASELINE"        -> {"DIAGNOSING", "RESELECTING"}
       [] s = "DIAGNOSING"      -> {"DIAGNOSIS_READY", "RESELECTING"}
       [] s = "DIAGNOSIS_READY" -> {"SELECTING", "RESELECTING"}
       [] s = "SELECTING"       -> {"STARTING", "RESELECTING"}
       [] s = "STARTING"        -> {"VERIFYING", "DEGRADED"}
       [] s = "VERIFYING"       -> {"ACTIVE", "DEGRADED"}
       [] s = "ACTIVE"          -> {"MONITORING", "DEGRADED"}
       [] s = "MONITORING"      -> {"DEGRADED", "RESELECTING"}
       [] s = "RESELECTING"     -> {"DIAGNOSING"}
       [] OTHER                 -> {}]

\* StateMachine.transitions: the states each state may be followed by.
Transitions ==
  [s \in EngineState |->
     CASE s = "INIT"            -> {"BASELINE"}
       [] s = "BASELINE"        -> {"DIAGNOSING", "RESELECTING"}
       [] s = "DIAGNOSING"      -> {"DIAGNOSIS_READY", "RESELECTING"}
       [] s = "DIAGNOSIS_READY" -> {"SELECTING", "RESELECTING"}
       [] s = "SELECTING"       -> {"STARTING", "RESELECTING"}
       [] s = "STARTING"        -> {"VERIFYING", "DEGRADED"}
       [] s = "VERIFYING"       -> {"ACTIVE", "DEGRADED"}
       [] s = "ACTIVE"          -> {"MONITORING", "DEGRADED"}
       [] s = "MONITORING"      -> {"DEGRADED", "RESELECTING"}
       [] s = "DEGRADED"        -> {"RESELECTING"}
       [] s = "RESELECTING"     -> {"DIAGNOSING"}]

\* The state transition(new) leaves behind.
Transition(from, new) == IF new \in Transitions[from] THEN new ELSE "DEGRADED"

\* What transition(new) returns.
Accepted(from, new) == new \in Transitions[from]

=============================================================================
