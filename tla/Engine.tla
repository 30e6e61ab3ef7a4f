------------------------------- MODULE Engine -------------------------------
(***************************************************************************)
(* Orchestrator.run (engine/orchestrator.py) driving the state machine and *)
(* the connector, while the dashboard's manual connects use the same       *)
(* connector.  bypass_executor_wrapper (BypssEng.py) is the part of a      *)
(* cycle that tries one candidate after the other.                         *)
(* The connector's variables are this module's as well; names that both    *)
(* need begin with Engine here.                                            *)
(*                                                                         *)
(* Network observations (geolocation, captive portal, direct health, the   *)
(* diagnosis phases) are inputs: any of them may come out either way.      *)
(***************************************************************************)
EXTENDS EngineStateMachine, Connector

CONSTANTS
  AutoTask,  \* the orchestrator's own task; every other task is a manual connect
  MaxTries   \* bound on the candidates one selection tries

ASSUME EngineAssumption ==
  /\ AutoTask \in Tasks
  /\ MaxTries \in Nat /\ MaxTries >= 2

VARIABLES
  state,       \* orchestrator.sm.state
  loop,        \* where run() is suspended
  cachedPort,  \* orchestrator.local_http_port, set once before run()
  tries        \* candidates the current selection has not tried yet

engine    == <<state, loop, cachedPort, tries>>
connector == vars
engineVars == <<engine, connector>>

Manual == Tasks \ {AutoTask}

Loops == {"start", "top", "diagnosing", "resting", "trying", "calling",
          "recording", "verifying", "monitoring", "backoff"}
EngineTypeOK ==
  /\ TypeOK
  /\ state \in EngineState
  /\ loop \in Loops
  /\ cachedPort \in Ports
  /\ tries \in 0..MaxTries

EngineInit ==
  /\ Init
  /\ state = "INIT"
  /\ loop = "start"
  /\ cachedPort = sessPort
  /\ tries = 0

-----------------------------------------------------------------------------
\* run() up to its loop.
Start ==
  /\ loop = "start"
  /\ state' = Transition(state, "BASELINE")
  /\ loop' = "top"
  /\ UNCHANGED <<cachedPort, tries, connector>>

\* The loop dispatches on BASELINE and RESELECTING: diagnose() begins.
Diagnose ==
  /\ loop = "top"
  /\ state \in {"BASELINE", "RESELECTING"}
  /\ state' = Transition(state, "DIAGNOSING")
  /\ loop' = "diagnosing"
  /\ UNCHANGED <<cachedPort, tries, connector>>

\* No geolocation, or a captive portal: sleep before another cycle.
CannotDiagnose ==
  /\ loop = "diagnosing"
  /\ loop' = "resting"
  /\ UNCHANGED <<state, cachedPort, tries, connector>>

\* Direct access works: report "healthy", fetch configs in the background,
\* sleep.
FindHealthy ==
  /\ loop = "diagnosing"
  /\ loop' = "resting"
  /\ UNCHANGED <<state, cachedPort, tries, connector>>

\* The sleep at the end of such a cycle is over.
RestEnds ==
  /\ loop = "resting"
  /\ state' = Transition(state, "RESELECTING")
  /\ loop' = "top"
  /\ UNCHANGED <<cachedPort, tries, connector>>

\* All phases ran and self.states is filled in.
DiagnosisReady ==
  /\ loop = "diagnosing"
  /\ state' = Transition(state, "DIAGNOSIS_READY")
  /\ loop' = "top"
  /\ UNCHANGED <<cachedPort, tries, connector>>

\* An exception reaches run(): DEGRADED is assigned, not asked for.
Degrade ==
  /\ state' = "DEGRADED"
  /\ loop' = "backoff"

DiagnosisRaises ==
  /\ loop = "diagnosing"
  /\ Degrade
  /\ UNCHANGED <<cachedPort, tries, connector>>

\* Mutation: STARTING is never entered.
SelectWithoutStarting ==
  /\ loop = "top"
  /\ state = "DIAGNOSIS_READY"
  /\ state' = Transition(state, "SELECTING")
  /\ tries' \in 2..MaxTries
  /\ loop' = "trying"
  /\ UNCHANGED <<cachedPort, connector>>

\* select_and_connect: the rules always name a condition, so SELECTING is
\* followed by STARTING and the scored candidates are tried.  The two Tor
\* candidates are always among them.
Select ==
  /\ loop = "top"
  /\ state = "DIAGNOSIS_READY"
  /\ state' = Transition(Transition(state, "SELECTING"), "STARTING")
  /\ tries' \in 2..MaxTries
  /\ loop' = "trying"
  /\ UNCHANGED <<cachedPort, connector>>

\* The next candidate: await execute_bypass_and_connect.
TryNext ==
  /\ loop = "trying"
  /\ tries > 0
  /\ Call(AutoTask)
  /\ loop' = "calling"
  /\ UNCHANGED <<state, cachedPort, tries>>

\* Mutation: the result of the call is not looked at.
TryAlwaysSucceeds ==
  /\ loop = "calling"
  /\ pc[AutoTask] \in {"ok", "failed"}
  /\ tries' = 0
  /\ loop' = "recording"
  /\ UNCHANGED <<state, cachedPort, connector>>

\* The candidate connected.
TrySucceeds ==
  /\ loop = "calling"
  /\ pc[AutoTask] = "ok"
  /\ tries' = 0
  /\ loop' = "recording"
  /\ UNCHANGED <<state, cachedPort, connector>>

\* The candidate failed; its outcome is recorded and the next one follows.
TryFails ==
  /\ loop = "calling"
  /\ pc[AutoTask] = "failed"
  /\ tries' = tries - 1
  /\ loop' = "trying"
  /\ UNCHANGED <<state, cachedPort, connector>>

\* The exception of prepare() goes through the wrapper and
\* select_and_connect up to run().
TryRaises ==
  /\ loop = "calling"
  /\ pc[AutoTask] = "raised"
  /\ tries' = 0
  /\ Degrade
  /\ UNCHANGED <<cachedPort, connector>>

\* The decision is in the telemetry; the engine goes on to verify.
Recorded ==
  /\ loop = "recording"
  /\ state' = Transition(state, "VERIFYING")
  /\ loop' = "top"
  /\ UNCHANGED <<cachedPort, tries, connector>>

\* A telemetry read or write raises: while the candidates are scored, after
\* one of them failed, or after the connection is up.
RecordRaises ==
  /\ loop \in {"trying", "recording"}
  /\ tries' = 0
  /\ Degrade
  /\ UNCHANGED <<cachedPort, connector>>

\* Mutation: the transition to DEGRADED is missing.
ExhaustedStays ==
  /\ loop = "trying"
  /\ tries = 0
  /\ loop' = "top"
  /\ UNCHANGED <<state, cachedPort, tries, connector>>

\* Every candidate failed: "all_failed" is recorded and reported.
Exhausted ==
  /\ loop = "trying"
  /\ tries = 0
  /\ state' = Transition(state, "DEGRADED")
  /\ loop' = "top"
  /\ UNCHANGED <<cachedPort, tries, connector>>

-----------------------------------------------------------------------------
\* test_current_proxy_health, before its request: are there children, and has
\* none of them ended?
ChildrenLookAlive == active # {} /\ \A c \in active : child[c] \in Live

\* verify() and the MONITORING branch call it with the port cached at start.
HealthCheck(from, waiting) ==
  /\ loop = "top"
  /\ state = from
  /\ IF ChildrenLookAlive
       THEN loop' = waiting /\ UNCHANGED state
       ELSE state' = Transition(state, "DEGRADED") /\ UNCHANGED loop
  /\ UNCHANGED <<cachedPort, tries, connector>>

\* Mutation: the monitoring branch sleeps without a check.
MonitorBlindly ==
  /\ loop = "top"
  /\ state = "MONITORING"
  /\ loop' = "backoff"
  /\ UNCHANGED <<state, cachedPort, tries, connector>>

VerifyBegins  == HealthCheck("VERIFYING", "verifying")
MonitorBegins == HealthCheck("MONITORING", "monitoring")

\* A request through the cached port can only be answered by a child there.
VerifySucceeds ==
  /\ loop = "verifying"
  /\ ServedOn(cachedPort)
  /\ state' = Transition(state, "ACTIVE")
  /\ loop' = "top"
  /\ UNCHANGED <<cachedPort, tries, connector>>

\* The MONITORING check passed: sleep for the test interval.
MonitorSucceeds ==
  /\ loop = "monitoring"
  /\ ServedOn(cachedPort)
  /\ loop' = "backoff"
  /\ UNCHANGED <<state, cachedPort, tries, connector>>

\* The request fails, in verify() or while monitoring.
CheckFails ==
  /\ loop \in {"verifying", "monitoring"}
  /\ state' = Transition(state, "DEGRADED")
  /\ loop' = "top"
  /\ UNCHANGED <<cachedPort, tries, connector>>

\* ACTIVE is left at once.
Activate ==
  /\ loop = "top"
  /\ state = "ACTIVE"
  /\ state' = Transition(state, "MONITORING")
  /\ UNCHANGED <<loop, cachedPort, tries, connector>>

\* DEGRADED: ask for a new diagnosis after a pause.
Recover ==
  /\ loop = "top"
  /\ state = "DEGRADED"
  /\ state' = Transition(state, "RESELECTING")
  /\ loop' = "backoff"
  /\ UNCHANGED <<cachedPort, tries, connector>>

BackoffEnds ==
  /\ loop = "backoff"
  /\ loop' = "top"
  /\ UNCHANGED <<state, cachedPort, tries, connector>>

-----------------------------------------------------------------------------
\* manual_connect(link): a task of its own, whatever the loop is doing.
ManualConnect(t) == Call(t) /\ UNCHANGED engine

ConnectorStep(t) == Step(t) /\ UNCHANGED engine

EngineChildStep(c) == ChildStep(c) /\ UNCHANGED engine

Cycle ==
  \/ Start \/ Diagnose \/ CannotDiagnose \/ FindHealthy \/ RestEnds
  \/ DiagnosisReady \/ DiagnosisRaises
  \/ Select \/ TryNext \/ TrySucceeds \/ TryFails \/ TryRaises
  \/ Recorded \/ RecordRaises \/ Exhausted
  \/ VerifyBegins \/ MonitorBegins
  \/ VerifySucceeds \/ MonitorSucceeds \/ CheckFails
  \/ Activate \/ Recover \/ BackoffEnds

EngineNext ==
  \/ Cycle
  \/ \E t \in Manual : ManualConnect(t)
  \/ \E t \in Tasks : ConnectorStep(t)
  \/ \E c \in Procs : EngineChildStep(c)

EngineSpec == EngineInit /\ [][EngineNext]_engineVars

\* The event loop runs every coroutine that can go on, and every await of the
\* loop ends: it is a sleep, a request with a timeout, a call of the connector, or
\* the scan for candidates (BypssEng.py:400), which ends if its peers answer or
\* close (diagnosis/health.py:225 waits for them without a timeout).
EngineFairness ==
  /\ WF_engineVars(Cycle)
  /\ \A t \in Tasks : WF_engineVars(ConnectorStep(t))
  /\ \A c \in Procs : WF_engineVars(StoppedChildEnds(c) /\ UNCHANGED engine)

EngineFairSpec == EngineSpec /\ EngineFairness

-----------------------------------------------------------------------------
(***************************************************************************)
(* Properties.                                                             *)
(***************************************************************************)

\* run() never comes back to its loop in a state whose branch does nothing
\* useful: not STARTING, whose branch only sleeps, and not one of the states
\* the else branch calls unknown.
LoopCanDispatch ==
  loop = "top" =>
    state \in {"BASELINE", "RESELECTING", "DIAGNOSIS_READY", "VERIFYING",
               "ACTIVE", "MONITORING", "DEGRADED"}

\* run() and its handlers never ask for an illegal transition: DEGRADED is
\* entered where the table allows it or by the exception handler, never
\* because transition() forced it.
NeverForced ==
  [][state # "DEGRADED" /\ state' = "DEGRADED" =>
       Accepted(state, "DEGRADED") \/ loop' = "backoff"]_engineVars

\* As long as nobody connected by hand, an engine that says it is connected
\* has its children on the session's port and the system proxy pointing there.
ConnectedMeansRouted ==
  state \in {"VERIFYING", "ACTIVE", "MONITORING"}
    /\ (\A t \in Manual : pc[t] = "none") =>
      /\ sysProxy = (IF DiagnoseOnly THEN "user" ELSE sessPort)
      /\ Entrances # {}
      /\ \A c \in Entrances : childPort[c] = sessPort

\* README.md: after an unexpected error the engine passes through DEGRADED and
\* diagnoses again.
DegradedRecovers == state = "DEGRADED" ~> state = "DIAGNOSING"

\* A selection ends, with a tunnel to verify or in DEGRADED, whatever manual
\* connects compete for the connector meanwhile.
SelectionEnds == state = "STARTING" ~> state \in {"VERIFYING", "DEGRADED"}

\* A tunnel that a manual connect tore down is noticed by the monitoring loop
\* unless a new one replaces it.
LossIsNoticed ==
  state = "MONITORING" /\ active = {} ~> state # "MONITORING" \/ active # {}

\* verify() and the monitoring check look at the tunnel: the port they probe
\* is the one the children listen on.
ChecksProbeTheTunnel ==
  loop \in {"verifying", "monitoring"}
    /\ (\A t \in Tasks : pc[t] \notin Critical) =>
      \A c \in Entrances : childPort[c] = cachedPort

=============================================================================
