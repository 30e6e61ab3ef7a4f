---------------------------- MODULE EngineProofs ----------------------------
(***************************************************************************)
(* Theorems about the loop of Orchestrator.run and about the loop and the  *)
(* connector together, which rest on those about Connector alone.          *)
(***************************************************************************)
EXTENDS Engine, TunnelProofs

\* The states whose branch of the loop does something.
Dispatched == {"BASELINE", "RESELECTING", "DIAGNOSIS_READY", "VERIFYING", "ACTIVE",
               "MONITORING", "DEGRADED"}

\* Where run() is suspended determines the state of the machine, or nearly.
StatesAt(at) ==
  CASE at = "start"                             -> {"INIT"}
    [] at = "top"                               -> Dispatched
    [] at \in {"diagnosing", "resting"}         -> {"DIAGNOSING"}
    [] at \in {"trying", "calling", "recording"} -> {"STARTING"}
    [] at = "verifying"                         -> {"VERIFYING"}
    [] at = "monitoring"                        -> {"MONITORING"}
    [] OTHER                                    -> {"DEGRADED", "RESELECTING", "MONITORING"}

LoopInv == loop \in Loops /\ state \in StatesAt(loop)

\* What transition() leaves behind wherever the loop calls it.
LEMMA LegalRequests ==
  /\ Transition("INIT", "BASELINE") = "BASELINE"
  /\ \A s \in {"BASELINE", "RESELECTING"} : Transition(s, "DIAGNOSING") = "DIAGNOSING"
  /\ Transition("DIAGNOSING", "DIAGNOSIS_READY") = "DIAGNOSIS_READY"
  /\ Transition("DIAGNOSING", "RESELECTING") = "RESELECTING"
  /\ Transition(Transition("DIAGNOSIS_READY", "SELECTING"), "STARTING") = "STARTING"
  /\ Transition("STARTING", "VERIFYING") = "VERIFYING"
  /\ Transition("VERIFYING", "ACTIVE") = "ACTIVE"
  /\ Transition("ACTIVE", "MONITORING") = "MONITORING"
  /\ Transition("DEGRADED", "RESELECTING") = "RESELECTING"
  /\ \A s \in {"STARTING", "VERIFYING", "MONITORING"} :
       Accepted(s, "DEGRADED") /\ Transition(s, "DEGRADED") = "DEGRADED"
BY DEF Transition, Accepted, Transitions, EngineState

\* What one step of the loop does to the state, with the states it may be taken in.
LEMMA CycleStep ==
  ASSUME LoopInv, Cycle
  PROVE  /\ LoopInv'
         /\ state # "DEGRADED" /\ state' = "DEGRADED" =>
              Accepted(state, "DEGRADED") \/ loop' = "backoff"
<1> USE LegalRequests DEF LoopInv, StatesAt, Dispatched, Loops
<1>1. CASE Start \/ Diagnose \/ CannotDiagnose \/ FindHealthy \/ RestEnds \/ DiagnosisReady
  BY <1>1 DEF Start, Diagnose, CannotDiagnose, FindHealthy, RestEnds, DiagnosisReady
<1>2. CASE DiagnosisRaises \/ TryRaises \/ RecordRaises
  BY <1>2 DEF DiagnosisRaises, TryRaises, RecordRaises, Degrade
<1>3. CASE Select \/ TryNext \/ TrySucceeds \/ TryFails \/ Recorded \/ Exhausted
  BY <1>3 DEF Select, TryNext, TrySucceeds, TryFails, Recorded, Exhausted
<1>4. CASE VerifyBegins
  BY <1>4 DEF VerifyBegins, HealthCheck
<1>5. CASE MonitorBegins
  BY <1>5 DEF MonitorBegins, HealthCheck
<1>6. CASE VerifySucceeds \/ MonitorSucceeds \/ CheckFails
  BY <1>6 DEF VerifySucceeds, MonitorSucceeds, CheckFails
<1>7. CASE Activate \/ Recover \/ BackoffEnds
  BY <1>7 DEF Activate, Recover, BackoffEnds
<1>8. QED
  BY <1>1, <1>2, <1>3, <1>4, <1>5, <1>6, <1>7 DEF Cycle

\* Everything else leaves the loop alone.
LEMMA OtherStep ==
  ASSUME [EngineNext]_engineVars, ~Cycle
  PROVE  UNCHANGED <<state, loop>>
BY DEF EngineNext, ManualConnect, ConnectorStep, EngineChildStep, engine, engineVars

THEOREM LoopInvariance == EngineSpec => []LoopInv
<1>1. EngineInit => LoopInv
  BY DEF EngineInit, LoopInv, Loops, StatesAt
<1>2. LoopInv /\ [EngineNext]_engineVars => LoopInv'
  BY CycleStep, OtherStep DEF LoopInv
<1>3. QED
  BY <1>1, <1>2, PTL DEF EngineSpec

\* run() never comes back to its loop in STARTING or in a state that the else
\* branch calls unknown (Orchestrator.run), for any number of manual connects.
THEOREM LoopAlwaysDispatches == EngineSpec => []LoopCanDispatch
<1>1. LoopInv => LoopCanDispatch
  BY DEF LoopInv, StatesAt, Dispatched, LoopCanDispatch
<1>2. QED
  BY <1>1, LoopInvariance, PTL

\* transition() is never asked for anything the table forbids: DEGRADED is entered
\* where the table allows it or by the exception handler (StateMachine.transition).
THEOREM TransitionsAreLegal == EngineSpec => NeverForced
<1>1. LoopInv /\ [EngineNext]_engineVars =>
        [state # "DEGRADED" /\ state' = "DEGRADED" =>
           Accepted(state, "DEGRADED") \/ loop' = "backoff"]_engineVars
  BY CycleStep, OtherStep
<1>2. QED
  BY <1>1, LoopInvariance, PTL DEF EngineSpec, NeverForced

-----------------------------------------------------------------------------
(***************************************************************************)
(* The loop and the connector.                                             *)
(***************************************************************************)

\* The loop itself only ever calls the connector.
LEMMA CycleCalls ==
  ASSUME Cycle
  PROVE  (TryNext /\ Call(AutoTask)) \/ UNCHANGED connector
<1>1. CASE TryNext
  BY <1>1 DEF TryNext
<1>2. CASE ~TryNext
  BY <1>2
  DEF Cycle, Start, Diagnose, CannotDiagnose, FindHealthy, RestEnds, DiagnosisReady,
      DiagnosisRaises, Select, TrySucceeds, TryFails, TryRaises, Recorded, RecordRaises,
      Exhausted, VerifyBegins, MonitorBegins, HealthCheck, VerifySucceeds, MonitorSucceeds,
      CheckFails, Activate, Recover, BackoffEnds
<1>3. QED
  BY <1>1, <1>2

\* What the engine and the manual connects do together is a behaviour of the connector
\* (bypass_executor_wrapper, manual_connect), so every theorem about Connector is one
\* about the connector of an Engine.
THEOREM EngineDrivesConnector == EngineSpec => Spec
<1>1. EngineInit => Init
  BY DEF EngineInit
<1>2. [EngineNext]_engineVars => [Next]_vars
  <2>1. SUFFICES ASSUME [EngineNext]_engineVars
                 PROVE  Next \/ UNCHANGED vars
    OBVIOUS
  <2>2. CASE Cycle
    BY <2>2, CycleCalls, EngineAssumption DEF Next, connector
  <2>3. CASE \/ \E t \in Manual : ManualConnect(t)
             \/ \E t \in Tasks : ConnectorStep(t)
             \/ \E c \in Procs : EngineChildStep(c)
    BY <2>3 DEF Manual, ManualConnect, ConnectorStep, EngineChildStep, Next
  <2>4. CASE UNCHANGED engineVars
    BY <2>4 DEF engineVars, connector
  <2>5. QED
    BY <2>1, <2>2, <2>3, <2>4 DEF EngineNext
<1>3. QED
  BY <1>1, <1>2, PTL DEF EngineSpec, Spec

\* The loop counts down its candidates only while it is trying one.
CountInv ==
  /\ cachedPort \in Ports
  /\ tries \in 0..MaxTries
  /\ loop = "calling" => tries > 0

THEOREM CountInvariance == EngineSpec => []CountInv
<1>1. EngineInit => CountInv
  BY EngineAssumption DEF EngineInit, Init, CountInv
<1>2. CountInv /\ [EngineNext]_engineVars => CountInv'
  <2>1. SUFFICES ASSUME CountInv, [EngineNext]_engineVars
                 PROVE  CountInv'
    OBVIOUS
  <2> USE <2>1, EngineAssumption DEF CountInv
  <2>2. CASE Start \/ Diagnose \/ CannotDiagnose \/ FindHealthy \/ RestEnds \/ DiagnosisReady
    BY <2>2 DEF Start, Diagnose, CannotDiagnose, FindHealthy, RestEnds, DiagnosisReady
  <2>3. CASE DiagnosisRaises \/ TryRaises \/ RecordRaises
    BY <2>3 DEF DiagnosisRaises, TryRaises, RecordRaises, Degrade
  <2>4. CASE Select \/ TryNext \/ TrySucceeds \/ TryFails \/ Recorded \/ Exhausted
    BY <2>4 DEF Select, TryNext, TrySucceeds, TryFails, Recorded, Exhausted
  <2>5. CASE VerifyBegins \/ MonitorBegins
    BY <2>5 DEF VerifyBegins, MonitorBegins, HealthCheck
  <2>6. CASE VerifySucceeds \/ MonitorSucceeds \/ CheckFails
    BY <2>6 DEF VerifySucceeds, MonitorSucceeds, CheckFails
  <2>7. CASE Activate \/ Recover \/ BackoffEnds
    BY <2>7 DEF Activate, Recover, BackoffEnds
  <2>8. CASE \/ \E t \in Manual : ManualConnect(t)
             \/ \E t \in Tasks : ConnectorStep(t)
             \/ \E c \in Procs : EngineChildStep(c)
             \/ UNCHANGED engineVars
    BY <2>8 DEF ManualConnect, ConnectorStep, EngineChildStep, engine, engineVars
  <2>9. QED
    BY <2>1, <2>2, <2>3, <2>4, <2>5, <2>6, <2>7, <2>8 DEF EngineNext, Cycle
<1>3. QED
  BY <1>1, <1>2, PTL DEF EngineSpec

\* The variables of the loop and of its connector keep their types: run() never
\* counts below zero and never leaves the states of its machine (Orchestrator.run).
THEOREM EngineTypeCorrect == EngineSpec => []EngineTypeOK
<1>1. TypeOK /\ LoopInv /\ CountInv => EngineTypeOK
  <2>1. \A at \in Loops : StatesAt(at) \subseteq EngineState
    BY DEF Loops, StatesAt, Dispatched, EngineState
  <2>2. QED
    BY <2>1 DEF LoopInv, CountInv, EngineTypeOK
<1>2. QED
  BY <1>1, EngineDrivesConnector, TypeCorrect, LoopInvariance, CountInvariance, PTL

-----------------------------------------------------------------------------
\* The proxy points where the call that answers True last pointed it.
Routed == sysProxy = IF DiagnoseOnly THEN "user" ELSE sessPort

\* A call that nobody competes with leaves the proxy, the session and the children in
\* agreement when it answers True, and they stay so.
SoloInv ==
  Benign => \A t \in Tasks :
    (\A u \in Tasks \ {t} : pc[u] = "none") =>
      /\ pc[t] = "switching" => Routed
      /\ pc[t] = "ok" =>
           /\ Routed
           /\ Entrances # {}
           /\ \A c \in Entrances : childPort[c] = sessPort

\* A step of a call: what matters is the last move of the proxy and the answer.
LEMMA StepKeepsSolo ==
  ASSUME Inv, TunnelInv, NeverAtProxy, BackInv, SoloInv, NEW t \in Tasks, Step(t)
  PROVE  SoloInv'
<1>1. /\ UNCHANGED <<env, run>>
      /\ pc[t] \in Critical \cup {"waiting"}
      /\ \A u \in Tasks : u # t => pc'[u] = pc[u]
  BY StepIsHolders
<1>2. SUFFICES ASSUME Benign, NEW s \in Tasks, \A u \in Tasks \ {s} : pc'[u] = "none",
                      pc'[s] \in {"switching", "ok"}
               PROVE  /\ Routed'
                      /\ pc'[s] = "ok" => /\ Entrances' # {}
                                          /\ \A c \in Entrances' : childPort'[c] = sessPort'
  BY <1>1 DEF SoloInv, Benign
<1> USE DEF Inv, TypeOK
<1>3. pc'[t] # "none"
  BY <1>1, StepLands DEF Step, Critical, Failing
<1>4. s = t /\ \A u \in Tasks \ {s} : pc[u] = "none"
  BY <1>1, <1>2, <1>3
<1>5. CASE ProbeSucceeds(t)
  <2>1. DiagnoseOnly /\ pc'[t] = "switching"
    BY <1>2, <1>4, <1>5, StepLands
  <2>2. sysProxy' = "user" /\ DiagnoseOnly'
    BY <1>1, <1>2, <1>5, <2>1 DEF BackInv, ProbeSucceeds, DiagnoseOnly
  <2>3. QED
    BY <1>4, <2>1, <2>2 DEF Routed
<1>6. CASE EnableProxy(t)
  <2>1. pc[t] = "enabling" /\ pc'[t] = "switching" /\ sysProxy' = sessPort /\ UNCHANGED sessPort
    BY <1>2, <1>4, <1>6, StepLands DEF EnableProxy, SetSystemProxy, ProxyPort, Benign, session
  <2>2. ~DiagnoseOnly'
    BY <1>1, <2>1 DEF NeverAtProxy, DiagnoseOnly
  <2>3. QED
    BY <1>4, <2>1, <2>2 DEF Routed
<1>7. CASE Switch(t)
  <2>1. pc[t] = "switching" /\ UNCHANGED <<active, helpers, childPort, sessPort, sysProxy, run>>
    BY <1>7 DEF Switch, session
  <2>2. Routed
    BY <1>2, <1>4, <2>1 DEF SoloInv
  <2>3. Entrances # {} /\ \A c \in Entrances : childPort[c] = sessPort
    BY <1>2, <2>1 DEF BackInv, TunnelInv, MatchInv, Building
  <2>4. QED
    BY <2>1, <2>2, <2>3 DEF Routed, DiagnoseOnly, Entrances
<1>8. CASE ~(ProbeSucceeds(t) \/ EnableProxy(t) \/ Switch(t))
  BY <1>2, <1>4, <1>8, StepLands DEF Step, Spawn, CleanChild
<1>9. QED
  BY <1>5, <1>6, <1>7, <1>8

\* A second call ends the solitude for good, and children only end.
LEMMA OthersKeepSolo ==
  ASSUME Inv, BackInv, SoloInv,
         (\E t \in Tasks : Call(t)) \/ (\E c \in Procs : ChildStep(c)) \/ Exit \/ Restart
           \/ UNCHANGED vars
  PROVE  SoloInv'
<1> USE DEF Inv, TypeOK
<1>1. UNCHANGED env
  BY DEF Call, ChildStep, StoppedChildEnds, ChildDies, Exit, ForceKill, InterruptCLI,
         ShutdownDashboard, ProcessEnds, Restart, vars
<1>2. SUFFICES ASSUME Benign
               PROVE  SoloInv'
  BY <1>1 DEF SoloInv, Benign
<1>3. ~Exit /\ ~Restart
  BY <1>2 DEF BackInv, Benign, Exit, ForceKill, InterruptCLI, ShutdownDashboard, Restart
<1>4. CASE \E t \in Tasks : Call(t)
  <2>1. PICK t \in Tasks : Call(t)
    BY <1>4
  <2>2. /\ UNCHANGED <<run, sysProxy, sessPort, active, helpers, childPort>>
        /\ pc'[t] = "waiting"
        /\ \A u \in Tasks : u # t => pc'[u] = pc[u]
    BY <2>1 DEF Call, children, session
  <2>3. QED
    BY <2>2 DEF SoloInv, Routed, DiagnoseOnly, Entrances
<1>5. CASE (\E c \in Procs : ChildStep(c)) \/ UNCHANGED vars
  <2>1. UNCHANGED <<env, run, sysProxy, sessPort, active, helpers, childPort, pc>>
    BY <1>5 DEF ChildStep, StoppedChildEnds, ChildDies, session, vars, children
  <2>2. QED
    BY <2>1 DEF SoloInv, Routed, DiagnoseOnly, Benign, Entrances
<1>6. QED
  BY <1>3, <1>4, <1>5

THEOREM SoloInvariance == Spec => []SoloInv
<1>1. Init => SoloInv
  BY DEF Init, SoloInv
<1>2. Inv /\ TunnelInv /\ NeverAtProxy /\ BackInv /\ SoloInv /\ [Next]_vars => SoloInv'
  BY StepKeepsSolo, OthersKeepSolo DEF Next
<1>3. QED
  BY <1>1, <1>2, Invariance, TunnelInvariance, ReadOnlyRuns, BackInvariance, PTL DEF Spec

-----------------------------------------------------------------------------
\* The states in which the engine says that it is connected.
Connected == {"VERIFYING", "ACTIVE", "MONITORING"}

\* While it says so, its own last call is the one that answered True.
AnsweredInv == loop = "recording" \/ state \in Connected => pc[AutoTask] = "ok"

\* No step of the connector takes an answer back.
LEMMA AnswersStay ==
  ASSUME Inv, pc[AutoTask] = "ok",
         \/ \E t \in Manual : ManualConnect(t)
         \/ \E t \in Tasks : ConnectorStep(t)
         \/ \E c \in Procs : EngineChildStep(c)
  PROVE  pc'[AutoTask] = "ok"
<1> USE EngineAssumption DEF Inv, TypeOK
<1>1. CASE \E t \in Manual : ManualConnect(t)
  BY <1>1 DEF Manual, ManualConnect, Call
<1>2. CASE \E t \in Tasks : ConnectorStep(t)
  BY <1>2, StepIsHolders DEF ConnectorStep, Critical, Failing
<1>3. CASE \E c \in Procs : EngineChildStep(c)
  BY <1>3 DEF EngineChildStep, ChildStep, StoppedChildEnds, ChildDies
<1>4. QED
  BY <1>1, <1>2, <1>3

THEOREM AnsweredInvariance == EngineSpec => []AnsweredInv
<1>1. EngineInit => AnsweredInv
  BY DEF EngineInit, AnsweredInv, Connected
<1>2. Inv /\ LoopInv /\ AnsweredInv /\ [EngineNext]_engineVars => AnsweredInv'
  <2>1. SUFFICES ASSUME Inv, LoopInv, AnsweredInv, [EngineNext]_engineVars,
                        loop' = "recording" \/ state' \in Connected
                 PROVE  pc'[AutoTask] = "ok"
    BY DEF AnsweredInv
  <2>2. CASE Cycle
    <3>1. ~TryNext
      BY <2>1 DEF TryNext, LoopInv, StatesAt, Connected
    <3>2. UNCHANGED pc
      BY <2>2, <3>1, CycleCalls DEF connector, vars
    <3>3. TrySucceeds \/ loop = "recording" \/ state \in Connected
      <4> USE <2>1, LegalRequests DEF LoopInv, StatesAt, Dispatched, Loops, Connected
      <4>1. CASE Start \/ Diagnose \/ CannotDiagnose \/ FindHealthy \/ RestEnds \/ DiagnosisReady
        BY <4>1 DEF Start, Diagnose, CannotDiagnose, FindHealthy, RestEnds, DiagnosisReady
      <4>2. CASE DiagnosisRaises \/ TryRaises \/ RecordRaises
        BY <4>2 DEF DiagnosisRaises, TryRaises, RecordRaises, Degrade
      <4>3. CASE Select \/ TryFails \/ Exhausted
        BY <4>3 DEF Select, TryFails, Exhausted
      <4>4. CASE Recorded
        BY <4>4 DEF Recorded
      <4>5. CASE VerifyBegins \/ MonitorBegins
        BY <4>5 DEF VerifyBegins, MonitorBegins, HealthCheck
      <4>6. CASE VerifySucceeds \/ MonitorSucceeds \/ CheckFails
        BY <4>6 DEF VerifySucceeds, MonitorSucceeds, CheckFails
      <4>7. CASE Activate \/ Recover \/ BackoffEnds
        BY <4>7 DEF Activate, Recover, BackoffEnds
      <4>8. QED
        BY <2>2, <3>1, <4>1, <4>2, <4>3, <4>4, <4>5, <4>6, <4>7 DEF Cycle
    <3>4. pc[AutoTask] = "ok"
      BY <2>1, <3>3 DEF TrySucceeds, AnsweredInv
    <3>5. QED
      BY <3>2, <3>4
  <2>3. CASE \/ \E t \in Manual : ManualConnect(t)
             \/ \E t \in Tasks : ConnectorStep(t)
             \/ \E c \in Procs : EngineChildStep(c)
    <3>1. UNCHANGED <<state, loop>>
      BY <2>3 DEF ManualConnect, ConnectorStep, EngineChildStep, engine
    <3>2. QED
      BY <2>1, <2>3, <3>1, AnswersStay DEF AnsweredInv
  <2>4. CASE UNCHANGED engineVars
    BY <2>1, <2>4 DEF engineVars, engine, connector, vars, AnsweredInv
  <2>5. QED
    BY <2>1, <2>2, <2>3, <2>4 DEF EngineNext
<1>3. QED
  BY <1>1, <1>2, EngineDrivesConnector, Invariance, LoopInvariance, PTL DEF EngineSpec

\* As long as nobody connected by hand, an engine that says it is connected has its
\* children on the session's port and the system proxy pointing there
\* (Orchestrator.verify and the MONITORING branch, over execute_bypass_and_connect),
\* where the proxy's tools work.
THEOREM ConnectedIsRouted == Orderly => (EngineSpec => []ConnectedMeansRouted)
<1>1. ASSUME Orderly
      PROVE  Inv /\ SoloInv /\ AnsweredInv => ConnectedMeansRouted
  <2>1. Inv => Benign
    BY <1>1 DEF Inv, TypeOK, Orderly, Benign
  <2>2. QED
    BY <2>1, EngineAssumption
    DEF SoloInv, AnsweredInv, ConnectedMeansRouted, Connected, Manual, Routed
<1>2. ASSUME Orderly
      PROVE  EngineSpec => []ConnectedMeansRouted
  BY <1>1, <1>2, EngineDrivesConnector, Invariance, SoloInvariance, AnsweredInvariance, PTL
<1>3. QED
  BY <1>2

=============================================================================
