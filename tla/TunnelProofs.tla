---------------------------- MODULE TunnelProofs ----------------------------
(***************************************************************************)
(* Theorems about the children, ports and proxy of Connector, on top of    *)
(* the mutual exclusion proved in ConnectorProofs.                         *)
(***************************************************************************)
EXTENDS ConnectorProofs

\* Nothing is left of an engine that does not run.
DownInv == run = "none" => active = {} /\ \A t \in Tasks : pc[t] = "none"

\* Until the new list of children is made, the call remembers the old one.
OldInv == \A t \in Tasks : pc[t] = "preparing" => oldProcs[t] = active

\* A reserved port is nobody's; while the children are started and tested it is
\* only that of the one that is to serve it.
FreshInv ==
  \A t \in Tasks :
    /\ pc[t] = "preparing" => \A c \in Procs : child[c] \in Live => childPort[c] # sessPort
    /\ pc[t] \in {"spawning", "probing"} =>
         \A c \in Procs : child[c] \in Live /\ childPort[c] = sessPort => c \in Entrances

\* From its new list of children to its end a call has started those that are to
\* serve the session's port there, or has none.
Building == {"spawning", "probing", "enabling", "switching"}
MatchInv ==
  /\ \A t \in Tasks : pc[t] \in Building => \A c \in Entrances : childPort[c] = sessPort
  /\ \A t \in Tasks : pc[t] = "disabling" => active = {}

TunnelInv == DownInv /\ OldInv /\ FreshInv /\ MatchInv /\ SessionMatchesChildren

-----------------------------------------------------------------------------
\* A step of a call is a step of the holder, and the other calls are outside.
LEMMA StepIsHolders ==
  ASSUME Inv, NEW t \in Tasks, Step(t)
  PROVE  /\ Up
         /\ UNCHANGED <<env, run>>
         /\ pc[t] \in Critical \cup {"waiting"}
         /\ \A u \in Tasks : u # t => pc[u] \notin Critical /\ pc'[u] = pc[u]
<1>1. Up /\ UNCHANGED <<env, run>> /\ pc[t] \in Critical \cup {"waiting"}
  BY DEF Step, Begin, PrepareFails, PrepareRaises, PrepareSucceeds, Spawn, SpawnFails,
         StartProbing, ProbeSucceeds, ProbeFails, EnableProxy, Switch, CleanChild,
         CleanDone, DisableProxy, Critical, Failing
<1>2. Holds(t)
  BY <1>1 DEF Step, Begin, PrepareFails, PrepareRaises, PrepareSucceeds, Spawn, SpawnFails,
         StartProbing, ProbeSucceeds, ProbeFails, EnableProxy, Switch, CleanChild,
         CleanDone, DisableProxy, Critical, Failing, Inv, LockInv
<1>3. \A u \in Tasks : u # t => pc[u] \notin Critical
  BY <1>2 DEF Inv, LockInv, Holds
<1>4. \A u \in Tasks : u # t => pc'[u] = pc[u]
  BY DEF Step, Begin, PrepareFails, PrepareRaises, PrepareSucceeds, Spawn, SpawnFails,
         StartProbing, ProbeSucceeds, ProbeFails, EnableProxy, Switch, CleanChild,
         CleanDone, DisableProxy, Return, Inv, TypeOK
<1>5. QED
  BY <1>1, <1>3, <1>4

\* Where a step leaves its call.
LEMMA StepLands ==
  ASSUME Inv, NEW t \in Tasks, Step(t)
  PROVE  /\ Begin(t) => pc'[t] \in {"preparing", "cleaning"}
         /\ PrepareFails(t) \/ SpawnFails(t) \/ ProbeFails(t) => pc'[t] = "cleaning"
         /\ PrepareRaises(t) => pc'[t] = "raised"
         /\ PrepareSucceeds(t) => pc'[t] = "spawning"
         /\ StartProbing(t) => pc'[t] = "probing"
         /\ ProbeSucceeds(t) => pc'[t] = IF DiagnoseOnly THEN "switching" ELSE "enabling"
         /\ EnableProxy(t) => pc'[t] \in {"switching", "cleaning"}
         /\ Switch(t) => pc'[t] = "ok"
         /\ CleanDone(t) => pc'[t] = IF DiagnoseOnly THEN "failed" ELSE "disabling"
         /\ DisableProxy(t) => pc'[t] = "failed"
         /\ Spawn(t) \/ CleanChild(t) => pc'[t] = pc[t]
BY DEF Begin, PrepareFails, PrepareRaises, PrepareSucceeds, Spawn, SpawnFails,
       StartProbing, ProbeSucceeds, ProbeFails, EnableProxy, Switch, CleanChild,
       CleanDone, DisableProxy, Return, Inv, TypeOK

\* A step of a call preserves the parts, one action at a time.
LEMMA StepKeepsTunnel ==
  ASSUME Inv, TunnelInv, NEW t \in Tasks, Step(t)
  PROVE  TunnelInv'
<1> USE DEF Inv, TypeOK, TunnelInv
<1>1. /\ Up
      /\ UNCHANGED <<env, run>>
      /\ \A u \in Tasks : u # t => pc[u] \notin Critical /\ pc'[u] = pc[u]
  BY StepIsHolders
<1>2. DownInv'
  BY <1>1 DEF DownInv, Up
<1>3. SUFFICES
        /\ pc'[t] = "preparing" => /\ oldProcs'[t] = active'
                                   /\ \A c \in Procs : child'[c] \in Live => childPort'[c] # sessPort'
        /\ pc'[t] \in {"spawning", "probing"} =>
             \A c \in Procs : child'[c] \in Live /\ childPort'[c] = sessPort' => c \in Entrances'
        /\ pc'[t] \in Building => \A c \in Entrances' : childPort'[c] = sessPort'
        /\ pc'[t] = "disabling" => active' = {}
        /\ pc'[t] \notin Critical /\ "prepare_raises" \notin env =>
             \A c \in Entrances' : childPort'[c] = sessPort'
  <2>1. \A u \in Tasks : u # t => pc'[u] \notin Critical
    BY <1>1
  <2>2. Building \cup {"preparing", "disabling"} \subseteq Critical
    BY DEF Building, Critical, Failing
  <2>3. OldInv' /\ FreshInv'
    BY <2>1, <2>2 DEF OldInv, FreshInv, Building
  <2>4. MatchInv'
    BY <2>1, <2>2 DEF MatchInv
  <2>5. SessionMatchesChildren'
    BY <1>1 DEF SessionMatchesChildren
  <2>6. QED
    BY <1>2, <2>3, <2>4, <2>5
<1> USE DEF Building, Entrances
<1>4. CASE Begin(t)
  BY <1>4, StepLands DEF Begin, SetupDynamicPorts, FreePorts, Critical, Failing, children
<1>5. CASE PrepareFails(t) \/ SpawnFails(t) \/ ProbeFails(t)
  BY <1>5, StepLands DEF PrepareFails, SpawnFails, ProbeFails, Critical, Failing
<1>6. CASE PrepareRaises(t)
  BY <1>6, StepLands DEF PrepareRaises
<1>7. CASE PrepareSucceeds(t)
  BY <1>7, StepLands DEF PrepareSucceeds, FreshInv, Critical
<1>8. CASE Spawn(t)
  <2>1. PICK c \in FreeSlots, port \in CommandPorts(t) :
          /\ child' = [child EXCEPT ![c] = Binds(port)]
          /\ childPort' = [childPort EXCEPT ![c] = port]
          /\ helpers' = IF IsHelper(t) THEN helpers \cup {c} ELSE helpers \ {c}
          /\ active' = active \cup {c}
    BY <1>8 DEF Spawn
  <2>2. pc[t] = "spawning" /\ pc'[t] = "spawning" /\ UNCHANGED sessPort
    BY <1>8, StepLands DEF Spawn, session
  <2>3. c \in Procs /\ c \notin active
    BY DEF FreeSlots, Known
  <2>4. /\ port \in Ports
        /\ IsHelper(t) => port # sessPort
        /\ ~IsHelper(t) => port = sessPort
    BY <1>8 DEF CommandPorts, PortInv, Spawn, Up
  <2>5. Entrances' = IF IsHelper(t) THEN Entrances ELSE Entrances \cup {c}
    BY <2>1, <2>3
  <2>6. \A d \in Procs : child[d] \in Live /\ childPort[d] = sessPort => d \in Entrances
    BY <2>2 DEF FreshInv
  <2>7. \A d \in Entrances : childPort[d] = sessPort
    BY <2>2 DEF MatchInv
  <2>8. \A d \in Procs : child'[d] \in Live /\ childPort'[d] = sessPort' => d \in Entrances'
    BY <2>1, <2>2, <2>3, <2>4, <2>5, <2>6
  <2>9. \A d \in Entrances' : childPort'[d] = sessPort'
    BY <2>1, <2>2, <2>3, <2>4, <2>5, <2>7
  <2>10. QED
    BY <2>2, <2>8, <2>9 DEF Critical
<1>9. CASE StartProbing(t)
  BY <1>9, StepLands DEF StartProbing, FreshInv, MatchInv, Critical, children, session
<1>10. CASE ProbeSucceeds(t)
  BY <1>10, StepLands DEF ProbeSucceeds, MatchInv, Critical, children, session
<1>11. CASE EnableProxy(t)
  BY <1>11, StepLands DEF EnableProxy, MatchInv, Critical, Failing, children, session
<1>12. CASE Switch(t)
  BY <1>12, StepLands DEF Switch, MatchInv, session
<1>13. CASE CleanChild(t)
  BY <1>13, StepLands DEF CleanChild, Critical, Failing
<1>14. CASE CleanDone(t)
  BY <1>14, StepLands DEF CleanDone
<1>15. CASE DisableProxy(t)
  BY <1>15, StepLands DEF DisableProxy, MatchInv, children, session
<1>16. QED
  BY <1>4, <1>5, <1>6, <1>7, <1>8, <1>9, <1>10, <1>11, <1>12, <1>13, <1>14, <1>15 DEF Step

\* A call that is made waits; it disturbs nothing.
LEMMA CallKeepsTunnel ==
  ASSUME Inv, TunnelInv, NEW t \in Tasks, Call(t)
  PROVE  TunnelInv'
<1> USE DEF Inv, TypeOK, TunnelInv, Call, children, session, locals
<1>1. \A u \in Tasks : pc'[u] = pc[u] \/ (u = t /\ pc'[u] = "waiting" /\ pc[u] \notin Critical)
  BY DEF Returned, Critical, Failing
<1>2. DownInv'
  BY DEF DownInv, Up
<1>3. OldInv' /\ FreshInv' /\ MatchInv'
  BY <1>1 DEF OldInv, FreshInv, MatchInv, Building, Entrances
<1>4. SessionMatchesChildren'
  BY <1>1 DEF SessionMatchesChildren, Up, Critical, Failing, Entrances
<1>5. QED
  BY <1>2, <1>3, <1>4

\* A child that ends leaves fewer that are alive.
LEMMA ChildKeepsTunnel ==
  ASSUME Inv, TunnelInv, NEW c \in Procs, ChildStep(c)
  PROVE  TunnelInv'
<1> USE DEF Inv, TypeOK, TunnelInv, session, locals
<1>1. /\ UNCHANGED <<env, run, pc, queue, active, childPort, helpers, sessPort, oldProcs>>
      /\ \A d \in Procs : child'[d] \in Live => child[d] \in Live
  BY DEF ChildStep, StoppedChildEnds, ChildDies, Live
<1>2. DownInv' /\ OldInv' /\ FreshInv' /\ MatchInv'
  BY <1>1 DEF DownInv, OldInv, FreshInv, MatchInv, Entrances
<1>3. SessionMatchesChildren'
  BY <1>1 DEF SessionMatchesChildren, Up, Entrances
<1>4. QED
  BY <1>2, <1>3

\* The end of a run leaves no list of children and no call.
LEMMA ExitKeepsTunnel ==
  ASSUME Exit
  PROVE  TunnelInv'
<1>1. PICK after : ProcessEnds(after)
  BY DEF Exit, ForceKill, InterruptCLI, ShutdownDashboard
<1>2. run' = "none" /\ active' = {} /\ \A t \in Tasks : pc'[t] = "none"
  BY <1>1 DEF ProcessEnds
<1>3. QED
  BY <1>2 DEF TunnelInv, DownInv, OldInv, FreshInv, MatchInv, Building,
              SessionMatchesChildren, Up, Entrances

\* A new run has neither.
LEMMA RestartKeepsTunnel ==
  ASSUME TunnelInv, Restart
  PROVE  TunnelInv'
<1>1. run' # "none" /\ active' = {} /\ \A t \in Tasks : pc'[t] = "none"
  BY DEF Restart, Starts, TunnelInv, DownInv, Up, children
<1>2. QED
  BY <1>1 DEF TunnelInv, DownInv, OldInv, FreshInv, MatchInv, Building,
              SessionMatchesChildren, Entrances

LEMMA InitTunnel == Init => TunnelInv
<1> SUFFICES ASSUME Init PROVE TunnelInv
  OBVIOUS
<1>1. active = {} /\ (\A t \in Tasks : pc[t] = "none") /\ run # "none"
  BY DEF Init, Starts
<1>2. QED
  BY <1>1 DEF TunnelInv, DownInv, OldInv, FreshInv, MatchInv, Building,
              SessionMatchesChildren, Entrances

\* The invariant is one.
THEOREM TunnelInvariance == Spec => []TunnelInv
<1>1. Inv /\ TunnelInv /\ [Next]_vars => TunnelInv'
  <2>1. SUFFICES ASSUME Inv, TunnelInv, [Next]_vars
                 PROVE  TunnelInv'
    OBVIOUS
  <2>2. CASE UNCHANGED vars
    BY <2>1, <2>2
    DEF vars, children, session, locals, TunnelInv, DownInv, OldInv, FreshInv, MatchInv,
        SessionMatchesChildren, Up, Entrances
  <2>3. QED
    BY <2>1, <2>2, StepKeepsTunnel, CallKeepsTunnel, ChildKeepsTunnel, ExitKeepsTunnel,
       RestartKeepsTunnel DEF Next
<1>2. QED
  BY InitTunnel, <1>1, Invariance, PTL DEF Spec

\* A test that passes went through a running child of the tunnel it was made for,
\* never through one that a failure, a replacement or an earlier run left behind
\* (RuntimeSession.setup_dynamic_ports, execute_bypass_and_connect), for any number
\* of ports, children and calls and whatever fails.
THEOREM TestsAreOwn == Spec => TestReachesOwnTunnel
<1> DEFINE OwnTest ==
      \A t \in Tasks : pc[t] = "probing" /\ pc'[t] \in {"enabling", "switching"} =>
        \E c \in Entrances : childPort[c] = sessPort /\ child[c] = "running"
<1>1. Inv /\ TunnelInv /\ [Next]_vars => [OwnTest]_vars
  <2>1. SUFFICES ASSUME Inv, TunnelInv, Next, NEW t \in Tasks, pc[t] = "probing",
                        pc'[t] \in {"enabling", "switching"}
                 PROVE  \E c \in Entrances : childPort[c] = sessPort /\ child[c] = "running"
    OBVIOUS
  <2> USE <2>1 DEF Inv, TypeOK, TunnelInv
  <2>2. CASE \E u \in Tasks : Step(u)
    <3>1. PICK u \in Tasks : Step(u)
      BY <2>2
    <3>2. u = t
      BY <3>1, StepIsHolders DEF Critical
    <3>3. ProbeSucceeds(t)
      BY <3>1, <3>2, StepLands
      DEF Step, Begin, PrepareFails, PrepareRaises, PrepareSucceeds, Spawn, SpawnFails,
          StartProbing, EnableProxy, Switch, CleanChild, CleanDone, DisableProxy
    <3>4. PICK c \in Procs : child[c] = "running" /\ childPort[c] = sessPort
      BY <3>3 DEF ProbeSucceeds, Serving, ServedOn
    <3>5. c \in Entrances
      BY <3>4 DEF FreshInv, Live
    <3>6. QED
      BY <3>4, <3>5
  <2>3. CASE \E u \in Tasks : Call(u)
    BY <2>3 DEF Call
  <2>4. CASE \E c \in Procs : ChildStep(c)
    BY <2>4 DEF ChildStep, StoppedChildEnds, ChildDies
  <2>5. CASE Exit
    BY <2>5 DEF Exit, ForceKill, InterruptCLI, ShutdownDashboard, ProcessEnds
  <2>6. CASE Restart
    BY <2>6 DEF Restart
  <2>7. QED
    BY <2>2, <2>3, <2>4, <2>5, <2>6 DEF Next
<1>2. QED
  BY <1>1, Invariance, TunnelInvariance, PTL DEF Spec, TestReachesOwnTunnel

\* Between calls the session's port is the port of the children
\* (execute_bypass_and_connect with restore_state_on_failure).
THEOREM SessionIsTruthful == Spec => []SessionMatchesChildren
BY TunnelInvariance, PTL DEF TunnelInv

\* Outside the lock a call remembers no children.
IdleInv == \A t \in Tasks : pc[t] \notin Critical => oldProcs[t] = {}

THEOREM IdleInvariance == Spec => []IdleInv
<1>1. Init => IdleInv
  BY DEF Init, IdleInv
<1>2. Inv /\ IdleInv /\ [Next]_vars => IdleInv'
  <2>1. SUFFICES ASSUME Inv, IdleInv, [Next]_vars
                 PROVE  IdleInv'
    OBVIOUS
  <2> USE <2>1 DEF Inv, TypeOK
  <2>2. CASE \E t \in Tasks : Step(t)
    <3>1. PICK t \in Tasks : Step(t)
      BY <2>2
    <3>2. \A u \in Tasks : u # t => pc'[u] = pc[u]
      BY <3>1, StepIsHolders
    <3>3. \A u \in Tasks : u # t => oldProcs'[u] = oldProcs[u]
      BY <3>1 DEF Step, Begin, PrepareFails, PrepareRaises, PrepareSucceeds, Spawn,
           SpawnFails, StartProbing, ProbeSucceeds, ProbeFails, EnableProxy, Switch,
           CleanChild, CleanDone, DisableProxy, Return, locals
    <3>4. pc'[t] \in Critical \/ oldProcs'[t] = {}
      BY <3>1 DEF Step, Begin, PrepareFails, PrepareRaises, PrepareSucceeds, Spawn,
           SpawnFails, StartProbing, ProbeSucceeds, ProbeFails, EnableProxy, Switch,
           CleanChild, CleanDone, DisableProxy, Return, Critical, Failing
    <3>5. QED
      BY <3>2, <3>3, <3>4 DEF IdleInv
  <2>3. CASE \E t \in Tasks : Call(t)
    BY <2>3 DEF IdleInv, Call, Returned, Critical, Failing, locals
  <2>4. CASE \E c \in Procs : ChildStep(c)
    BY <2>4 DEF IdleInv, ChildStep, StoppedChildEnds, ChildDies, locals
  <2>5. CASE Exit
    BY <2>5 DEF IdleInv, Exit, ForceKill, InterruptCLI, ShutdownDashboard, ProcessEnds
  <2>6. CASE Restart \/ UNCHANGED vars
    BY <2>6 DEF IdleInv, Restart, locals, vars
  <2>7. QED
    BY <2>1, <2>2, <2>3, <2>4, <2>5, <2>6 DEF Next
<1>3. QED
  BY <1>1, <1>2, Invariance, PTL DEF Spec

\* A running child is lost in one way only: a replacement emptied the list and
\* failed (execute_bypass_and_connect, active_procs = []).
THEOREM LossHasOneCause == Spec => LostOnlyByFailedReplacement
<1> DEFINE OneCause ==
      Up' => \A c \in Known :
        child[c] = "running" /\ child'[c] = "running" /\ c \notin Known' =>
          \E t \in Tasks : c \in oldProcs[t] /\ pc[t] \in Failing /\ pc'[t] = "failed"
<1>1. Inv /\ TunnelInv /\ IdleInv /\ [Next]_vars => [OneCause]_vars
  <2>1. SUFFICES ASSUME Inv, TunnelInv, IdleInv, Next, Up',
                        NEW c \in Known, child[c] = "running", child'[c] = "running",
                        c \notin Known'
                 PROVE  \E t \in Tasks :
                          c \in oldProcs[t] /\ pc[t] \in Failing /\ pc'[t] = "failed"
    OBVIOUS
  <2> USE <2>1 DEF Inv, TypeOK, TunnelInv
  <2>2. c \in active \/ \E u \in Tasks : c \in oldProcs[u]
    BY DEF Known
  <2>3. c \notin active' /\ \A u \in Tasks : c \notin oldProcs'[u]
    BY DEF Known
  <2>4. CASE \E t \in Tasks : Step(t)
    <3>1. PICK t \in Tasks : Step(t)
      BY <2>4
    <3>2. CASE Begin(t)
      <4>1. /\ pc[t] = "waiting" /\ active' = active
            /\ oldProcs' = [oldProcs EXCEPT ![t] = active]
        BY <3>2 DEF Begin, children
      <4>2. oldProcs[t] = {}
        BY <4>1 DEF IdleInv, Critical, Failing
      <4>3. QED
        BY <2>2, <2>3, <4>1, <4>2
    <3>3. CASE PrepareRaises(t)
      BY <2>2, <2>3, <3>3 DEF PrepareRaises, Return, OldInv, children
    <3>4. CASE PrepareSucceeds(t)
      BY <2>2, <2>3, <3>4 DEF PrepareSucceeds, OldInv
    <3>5. CASE Switch(t)
      <4>1. c \in oldProcs[t] /\ c \in Procs
        BY <2>2, <2>3, <3>5 DEF Switch, Return
      <4>2. child'[c] = "stopping"
        BY <3>5, <4>1 DEF Switch
      <4>3. QED
        BY <4>2
    <3>6. CASE CleanDone(t)
      <4>1. c \notin active
        BY <3>6 DEF CleanDone, Live
      <4>2. c \in oldProcs[t] /\ DiagnoseOnly
        BY <2>2, <2>3, <3>6, <4>1 DEF CleanDone, Return, locals
      <4>3. QED
        BY <3>1, <3>6, <4>2, StepLands DEF CleanDone, Failing
    <3>7. CASE DisableProxy(t)
      <4>1. c \in oldProcs[t]
        BY <2>2, <2>3, <3>7 DEF DisableProxy, Return, children
      <4>2. QED
        BY <3>1, <3>7, <4>1, StepLands DEF DisableProxy, Failing
    <3>8. CASE Spawn(t) \/ CleanChild(t)
      BY <2>2, <2>3, <3>8 DEF Spawn, CleanChild, locals
    <3>9. CASE \/ PrepareFails(t) \/ SpawnFails(t) \/ ProbeFails(t) \/ StartProbing(t)
               \/ ProbeSucceeds(t) \/ EnableProxy(t)
      BY <2>2, <2>3, <3>9
      DEF PrepareFails, SpawnFails, ProbeFails, StartProbing, ProbeSucceeds, EnableProxy,
          children, locals
    <3>10. QED
      BY <3>1, <3>2, <3>3, <3>4, <3>5, <3>6, <3>7, <3>8, <3>9 DEF Step
  <2>5. CASE \E t \in Tasks : Call(t)
    BY <2>2, <2>3, <2>5 DEF Call, children, locals
  <2>6. CASE \E d \in Procs : ChildStep(d)
    BY <2>2, <2>3, <2>6 DEF ChildStep, StoppedChildEnds, ChildDies, locals
  <2>7. CASE Exit
    BY <2>7 DEF Exit, ForceKill, InterruptCLI, ShutdownDashboard, ProcessEnds, Up
  <2>8. CASE Restart
    BY <2>2, <2>3, <2>8 DEF Restart, children, locals
  <2>9. QED
    BY <2>4, <2>5, <2>6, <2>7, <2>8 DEF Next
<1>2. QED
  BY <1>1, Invariance, TunnelInvariance, IdleInvariance, PTL DEF Spec, LostOnlyByFailedReplacement

-----------------------------------------------------------------------------
(***************************************************************************)
(* The proxy, in an environment where its tools work and nobody ends the   *)
(* process.                                                                *)
(***************************************************************************)
Benign == env \subseteq {"child_dies", "prepare_raises"}

\* A child behind the proxy that the engine did not stop.
Backed(slots) ==
  \E c \in slots \ helpers : childPort[c] = sysProxy /\ child[c] \in {"running", "died"}

\* Until the proxy moves the old children are behind it, then the new ones, which
\* are others, which nobody stops meanwhile, and one of which was tested.
BackInv ==
  Benign =>
    /\ Up
    /\ DiagnoseOnly => sysProxy = "user"
    /\ \A t \in Tasks : pc[t] \in Building =>
         active \cap oldProcs[t] = {} /\ \A c \in active : child[c] \in {"running", "died"}
    /\ \A t \in Tasks : pc[t] \in {"enabling", "switching"} => Entrances # {}
    /\ sysProxy \in Ports =>
         /\ (\A t \in Tasks : pc[t] \notin Critical) => Backed(active)
         /\ \A t \in Tasks : pc[t] \in {"preparing", "spawning", "probing", "enabling"} =>
              Backed(oldProcs[t])
         /\ \A t \in Tasks : pc[t] = "switching" => Backed(active)

\* A step of a call preserves it, one action at a time.
LEMMA StepKeepsBack ==
  ASSUME Inv, TunnelInv, NeverAtProxy, BackInv, NEW t \in Tasks, Step(t)
  PROVE  BackInv'
<1> USE DEF Inv, TypeOK, TunnelInv
<1>1. /\ Up
      /\ UNCHANGED <<env, run>>
      /\ \A u \in Tasks : u # t => pc[u] \notin Critical /\ pc'[u] = pc[u]
  BY StepIsHolders
<1>2. SUFFICES ASSUME Benign
               PROVE
        /\ DiagnoseOnly => sysProxy' = "user"
        /\ pc'[t] \in Building =>
             active' \cap oldProcs'[t] = {} /\ \A c \in active' : child'[c] \in {"running", "died"}
        /\ pc'[t] \in {"enabling", "switching"} => Entrances' # {}
        /\ sysProxy' \in Ports =>
             /\ pc'[t] \notin Critical => Backed(active)'
             /\ pc'[t] \in {"preparing", "spawning", "probing", "enabling"} => Backed(oldProcs[t])'
             /\ pc'[t] = "switching" => Backed(active)'
  <2>1. \A u \in Tasks : u # t => pc'[u] \notin Critical
    BY <1>1
  <2>2. Building \cup {"preparing"} \subseteq Critical
    BY DEF Building, Critical
  <2>3. QED
    BY <1>1, <2>1, <2>2 DEF BackInv, Benign, Up, DiagnoseOnly, Building, Backed
<1>3. /\ DiagnoseOnly => sysProxy = "user"
      /\ pc[t] \in Building =>
           active \cap oldProcs[t] = {} /\ \A c \in active : child[c] \in {"running", "died"}
      /\ pc[t] \in {"enabling", "switching"} => Entrances # {}
      /\ sysProxy \in Ports =>
           /\ pc[t] = "waiting" => Backed(active)
           /\ pc[t] \in {"preparing", "spawning", "probing", "enabling"} => Backed(oldProcs[t])
           /\ pc[t] = "switching" => Backed(active)
  BY <1>1, <1>2 DEF BackInv, Critical, Failing
<1>4. CASE Begin(t)
  <2>1. /\ pc[t] = "waiting" /\ oldProcs'[t] = active
        /\ UNCHANGED <<active, child, childPort, helpers, sysProxy>>
    BY <1>4 DEF Begin, children
  <2>2. pc'[t] \in {"preparing", "cleaning"}
    BY <1>4, StepLands
  <2>3. QED
    BY <1>3, <2>1, <2>2 DEF Backed, Building, Critical, Failing
<1>5. CASE PrepareFails(t) \/ SpawnFails(t) \/ ProbeFails(t)
  <2>1. pc'[t] = "cleaning" /\ UNCHANGED sysProxy
    BY <1>5, StepLands DEF PrepareFails, SpawnFails, ProbeFails
  <2>2. QED
    BY <1>3, <2>1 DEF Building, Critical, Failing
<1>6. CASE PrepareRaises(t)
  <2>1. /\ pc[t] = "preparing" /\ pc'[t] = "raised"
        /\ UNCHANGED <<active, child, childPort, helpers, sysProxy>>
    BY <1>6, StepLands DEF PrepareRaises, children
  <2>2. oldProcs[t] = active
    BY <2>1 DEF OldInv
  <2>3. QED
    BY <1>3, <2>1, <2>2 DEF Backed, Building
<1>7. CASE PrepareSucceeds(t)
  <2>1. /\ pc[t] = "preparing" /\ pc'[t] = "spawning" /\ active' = {}
        /\ UNCHANGED <<oldProcs, child, childPort, helpers, sysProxy>>
    BY <1>7, StepLands DEF PrepareSucceeds
  <2>2. QED
    BY <1>3, <2>1 DEF Backed, Critical
<1>8. CASE Spawn(t)
  <2>1. PICK c \in FreeSlots, port \in CommandPorts(t) :
          /\ child' = [child EXCEPT ![c] = Binds(port)]
          /\ childPort' = [childPort EXCEPT ![c] = port]
          /\ helpers' = IF IsHelper(t) THEN helpers \cup {c} ELSE helpers \ {c}
          /\ active' = active \cup {c}
    BY <1>8 DEF Spawn
  <2>2. pc[t] = "spawning" /\ pc'[t] = "spawning" /\ UNCHANGED <<oldProcs, sysProxy>>
    BY <1>8, StepLands DEF Spawn
  <2>3. c \in Procs /\ c \notin oldProcs[t] /\ Binds(port) \in {"running", "died"}
    BY DEF FreeSlots, Known, Binds
  <2>4. active' \cap oldProcs'[t] = {}
    BY <1>3, <2>1, <2>2, <2>3 DEF Building
  <2>5. \A d \in active' : child'[d] \in {"running", "died"}
    BY <1>3, <2>1, <2>2, <2>3 DEF Building
  <2>6. sysProxy \in Ports => Backed(oldProcs[t])'
    <3>1. SUFFICES ASSUME sysProxy \in Ports PROVE Backed(oldProcs[t])'
      OBVIOUS
    <3>2. PICK d \in oldProcs[t] \ helpers :
            childPort[d] = sysProxy /\ child[d] \in {"running", "died"}
      BY <1>3, <2>2, <3>1 DEF Backed
    <3>3. d \in oldProcs'[t] \ helpers' /\ childPort'[d] = sysProxy' /\ child'[d] = child[d]
      BY <2>1, <2>2, <2>3, <3>2
    <3>4. QED
      BY <3>2, <3>3 DEF Backed
  <2>7. QED
    BY <1>3, <2>2, <2>4, <2>5, <2>6 DEF Critical
<1>9. CASE StartProbing(t)
  <2>1. /\ pc[t] = "spawning" /\ pc'[t] = "probing"
        /\ UNCHANGED <<active, oldProcs, child, childPort, helpers, sysProxy>>
    BY <1>9, StepLands DEF StartProbing, children, locals
  <2>2. QED
    BY <1>3, <2>1 DEF Backed, Building, Critical
<1>10. CASE ProbeSucceeds(t)
  <2>1. /\ pc[t] = "probing" /\ Serving
        /\ pc'[t] = IF DiagnoseOnly THEN "switching" ELSE "enabling"
        /\ UNCHANGED <<active, oldProcs, child, childPort, helpers, sysProxy>>
    BY <1>10, StepLands DEF ProbeSucceeds, children, locals
  <2>2. "user" \notin Ports
    BY ConnectorAssumption
  <2>3. PICK c \in Procs : child[c] = "running" /\ childPort[c] = sessPort
    BY <2>1 DEF Serving, ServedOn
  <2>4. c \in Entrances
    BY <2>1, <2>3 DEF FreshInv, Live
  <2>5. Entrances' # {}
    BY <2>1, <2>4 DEF Entrances
  <2>6. QED
    BY <1>3, <2>1, <2>2, <2>5 DEF Backed, Building, Critical
<1>11. CASE EnableProxy(t)
  <2>1. /\ pc[t] = "enabling" /\ pc'[t] \in {"switching", "cleaning"}
        /\ sysProxy' = sessPort
        /\ UNCHANGED <<active, oldProcs, child, childPort, helpers, sessPort>>
    BY <1>2, <1>11, StepLands
    DEF EnableProxy, SetSystemProxy, ProxyPort, Benign, children, session, locals
  <2>2. ~DiagnoseOnly
    BY <2>1 DEF NeverAtProxy, DiagnoseOnly
  <2>3. PICK c \in Entrances : childPort[c] = sessPort /\ child[c] \in {"running", "died"}
    BY <1>3, <2>1 DEF MatchInv, Building, Entrances
  <2>4. Backed(active)' /\ Entrances' # {}
    BY <2>1, <2>3 DEF Entrances, Backed
  <2>5. QED
    BY <1>3, <2>1, <2>2, <2>4 DEF Building, Critical, Failing
<1>12. CASE Switch(t)
  <2>1. /\ pc[t] = "switching" /\ pc'[t] = "ok"
        /\ UNCHANGED <<active, childPort, helpers, sysProxy>>
        /\ \A c \in Procs \ oldProcs[t] : child'[c] = child[c]
    BY <1>12, StepLands DEF Switch
  <2>2. \A c \in active : c \in Procs \ oldProcs[t]
    BY <1>3, <2>1 DEF Building
  <2>3. QED
    BY <1>3, <2>1, <2>2 DEF Backed, Building
<1>13. CASE CleanChild(t)
  <2>1. pc'[t] = "cleaning" /\ UNCHANGED sysProxy
    BY <1>13, StepLands DEF CleanChild
  <2>2. QED
    BY <1>3, <2>1 DEF Building, Critical, Failing
<1>14. CASE CleanDone(t)
  <2>1. pc'[t] = (IF DiagnoseOnly THEN "failed" ELSE "disabling") /\ UNCHANGED sysProxy
    BY <1>14, StepLands DEF CleanDone
  <2>2. "user" \notin Ports
    BY ConnectorAssumption
  <2>3. QED
    BY <1>3, <2>1, <2>2 DEF Building, Critical, Failing
<1>15. CASE DisableProxy(t)
  <2>1. pc'[t] = "failed" /\ sysProxy' = "off" /\ "off" \notin Ports
    BY <1>2, <1>15, StepLands, ConnectorAssumption DEF DisableProxy, SetSystemProxy, Benign
  <2>2. ~DiagnoseOnly
    BY <1>15 DEF DisableProxy, NeverAtProxy, DiagnoseOnly
  <2>3. QED
    BY <2>1, <2>2 DEF Building
<1>16. QED
  BY <1>4, <1>5, <1>6, <1>7, <1>8, <1>9, <1>10, <1>11, <1>12, <1>13, <1>14, <1>15 DEF Step

\* Nothing else that can happen in such an environment moves the proxy.
LEMMA OthersKeepBack ==
  ASSUME Inv, BackInv,
         (\E t \in Tasks : Call(t)) \/ (\E c \in Procs : ChildStep(c)) \/ Exit \/ Restart
           \/ UNCHANGED vars
  PROVE  BackInv'
<1>0. UNCHANGED env
  BY DEF Call, ChildStep, StoppedChildEnds, ChildDies, Exit, ForceKill, InterruptCLI,
         ShutdownDashboard, ProcessEnds, Restart, vars
<1> SUFFICES ASSUME Benign
             PROVE  BackInv'
  BY <1>0 DEF BackInv, Benign
<1> USE DEF Inv, TypeOK
<1>1. Up /\ ~Exit /\ ~Restart
  BY DEF BackInv, Benign, Exit, ForceKill, InterruptCLI, ShutdownDashboard, Restart
<1>2. CASE \E t \in Tasks : Call(t)
  <2>1. PICK t \in Tasks : Call(t)
    BY <1>2
  <2>2. /\ UNCHANGED <<run, sysProxy, active, child, childPort, helpers, oldProcs>>
        /\ pc[t] \in Returned /\ pc'[t] = "waiting"
        /\ \A u \in Tasks : u # t => pc'[u] = pc[u]
    BY <2>1 DEF Call, children, locals
  <2>3. \A u \in Tasks : pc'[u] \in Critical => u # t
    BY <2>2 DEF Critical, Failing
  <2>4. (\A u \in Tasks : pc'[u] \notin Critical) => \A u \in Tasks : pc[u] \notin Critical
    BY <2>2 DEF Returned, Critical, Failing
  <2>5. Building \cup {"preparing"} \subseteq Critical
    BY DEF Building, Critical
  <2>6. QED
    BY <2>2, <2>3, <2>4, <2>5 DEF BackInv, Up, DiagnoseOnly, Backed, Building, Entrances
<1>3. CASE \E c \in Procs : ChildStep(c)
  <2>1. /\ UNCHANGED <<run, sysProxy, active, childPort, helpers, pc, oldProcs>>
        /\ \A c \in Procs : child[c] \in {"running", "died"} => child'[c] \in {"running", "died"}
    BY <1>3 DEF ChildStep, StoppedChildEnds, ChildDies, locals
  <2>2. \A slots \in SUBSET Procs : Backed(slots) => Backed(slots)'
    BY <2>1 DEF Backed
  <2>3. QED
    BY <2>1, <2>2 DEF BackInv, Up, DiagnoseOnly, Backed, Entrances
<1>4. CASE UNCHANGED vars
  BY <1>4 DEF vars, children, locals, BackInv, Up, DiagnoseOnly, Backed, Entrances
<1>5. QED
  BY <1>1, <1>2, <1>3, <1>4

THEOREM BackInvariance == Spec => []BackInv
<1>1. Init => BackInv
  BY ConnectorAssumption DEF Init, Starts, BackInv, Building, Up, DiagnoseOnly
<1>2. Inv /\ TunnelInv /\ NeverAtProxy /\ BackInv /\ [Next]_vars => BackInv'
  BY StepKeepsBack, OthersKeepBack DEF Next
<1>3. QED
  BY <1>1, <1>2, Invariance, TunnelInvariance, ReadOnlyRuns, PTL DEF Spec

\* Whenever no call is undoing a failed attempt, a proxy that points at one of the
\* engine's ports points at a child it did not stop (execute_bypass_and_connect:
\* new children first, then the proxy, then the old ones).
THEOREM ProxyIsBacked == Spec => []NoBlackHole
<1>1. Inv /\ BackInv => NoBlackHole
  <2>1. SUFFICES ASSUME Inv, BackInv, Benign, Settled, sysProxy \in Ports
                 PROVE  \E c \in Known \ helpers :
                          childPort[c] = sysProxy /\ child[c] \in {"running", "died"}
    BY DEF NoBlackHole, Benign
  <2>2. Backed(active) \/ \E t \in Tasks : Backed(oldProcs[t])
    BY <2>1 DEF BackInv, Settled, Critical
  <2>3. QED
    BY <2>2 DEF Backed, Known
<1>2. QED
  BY <1>1, Invariance, BackInvariance, PTL

-----------------------------------------------------------------------------
(***************************************************************************)
(* The refinement: what the callers see are steps of TunnelService.        *)
(***************************************************************************)

\* A step that moves one call moves what one caller sees.
LEMMA OneCallSeen ==
  ASSUME NEW t \in Tasks, \A u \in Tasks : u # t => pc'[u] = pc[u]
  PROVE  CallSeen' = [CallSeen EXCEPT ![t] = Seen(pc'[t])]
<1> DEFINE after == [CallSeen EXCEPT ![t] = Seen(pc'[t])]
<1>1. CallSeen = [u \in Tasks |-> Seen(pc[u])] /\ CallSeen' = [u \in Tasks |-> Seen(pc'[u])]
  BY DEF CallSeen
<1>2. after \in [Tasks -> {after[u] : u \in Tasks}]
  BY <1>1
<1>3. \A u \in Tasks : after[u] = Seen(pc'[u])
  BY <1>1
<1>4. QED
  BY <1>1, <1>2, <1>3

\* Which await points look alike from outside.
LEMMA SeenFrom ==
  /\ \A at \in Returned : Seen(at) = at /\ Seen(at) \in Service!Answered
  /\ Seen("waiting") = "asked"
  /\ \A at \in {"preparing", "spawning", "probing", "enabling"} : Seen(at) = "building"
  /\ Seen("switching") = "routed"
  /\ \A at \in Failing : Seen(at) = "refusing"
BY DEF Seen, Returned, Failing, Service!Answered

\* Where its holder is tells what is seen of the tunnel; without one there is none.
LEMMA TunnelOfHolder ==
  ASSUME NEW t \in Tasks, \A u \in Tasks : u # t => pc[u] \notin Critical
  PROVE  TunnelSeen = IF pc[t] \in Critical \ Failing THEN sessPort ELSE None
BY DEF TunnelSeen

\* One step of a call, in an environment where the proxy's tools work.
LEMMA StepRefines ==
  ASSUME Inv, NeverAtProxy, Benign, NEW t \in Tasks, Step(t)
  PROVE  [Service!Next]_(Service!vars)
<1> USE SeenFrom DEF Inv, TypeOK, Service!Moves
<1>1. /\ Up /\ UNCHANGED run
      /\ \A u \in Tasks : u # t => pc[u] \notin Critical /\ pc'[u] = pc[u]
  BY StepIsHolders
<1>2. CallSeen' = [CallSeen EXCEPT ![t] = Seen(pc'[t])]
  BY <1>1, OneCallSeen
<1>3. CallSeen[t] = Seen(pc[t])
  BY DEF CallSeen
<1>4. /\ TunnelSeen = IF pc[t] \in Critical \ Failing THEN sessPort ELSE None
      /\ TunnelSeen' = IF pc'[t] \in Critical \ Failing THEN sessPort' ELSE None
  BY <1>1, TunnelOfHolder DEF TunnelSeen
<1>5. Service!Alone(t)
  <2>1. SUFFICES ASSUME NEW u \in Tasks, u # t
                 PROVE  CallSeen[u] \in Service!Answered \cup {"asked"}
    BY DEF Service!Alone
  <2>2. pc[u] \in Returned \cup {"waiting"}
    BY <1>1, <2>1 DEF PCs
  <2>3. QED
    BY <2>2 DEF CallSeen
<1>6. DiagnoseOnly' = DiagnoseOnly
  BY <1>1 DEF DiagnoseOnly
<1> USE DEF Critical, Failing
<1>7. \/ UNCHANGED <<CallSeen, TunnelSeen, sysProxy>>
      \/ Service!Answer(t)
  <2>1. ASSUME Seen(pc'[t]) = Seen(pc[t]), UNCHANGED <<TunnelSeen, sysProxy>>
        PROVE  UNCHANGED <<CallSeen, TunnelSeen, sysProxy>>
    BY <1>2, <1>3, <2>1 DEF CallSeen
  <2>2. CASE Begin(t)
    <3>1. /\ pc[t] = "waiting" /\ pc'[t] \in {"preparing", "cleaning"}
          /\ UNCHANGED sysProxy /\ sessPort' \in Ports
      BY <2>2, StepLands DEF Begin, SetupDynamicPorts, FreePorts
    <3>2. CASE pc'[t] = "preparing"
      BY <1>2, <1>3, <1>4, <1>5, <1>6, <3>1, <3>2 DEF Service!Build, Service!Answer
    <3>3. CASE pc'[t] = "cleaning"
      BY <1>2, <1>3, <1>4, <1>5, <1>6, <3>1, <3>3 DEF Service!GiveUp, Service!Answer
    <3>4. QED
      BY <3>1, <3>2, <3>3
  <2>3. CASE PrepareFails(t) \/ SpawnFails(t) \/ ProbeFails(t)
    <3>1. /\ pc[t] \in {"preparing", "spawning", "probing"} /\ pc'[t] = "cleaning"
          /\ UNCHANGED sysProxy
      BY <2>3, StepLands DEF PrepareFails, SpawnFails, ProbeFails
    <3>2. QED
      BY <1>2, <1>3, <1>4, <1>5, <1>6, <3>1 DEF Service!GiveUp, Service!Answer
  <2>4. CASE PrepareRaises(t)
    <3>1. pc[t] = "preparing" /\ pc'[t] = "raised" /\ UNCHANGED sysProxy
      BY <2>4, StepLands DEF PrepareRaises
    <3>2. QED
      BY <1>2, <1>3, <1>4, <1>6, <3>1 DEF Returned, Service!Raise, Service!Answer
  <2>5. CASE PrepareSucceeds(t) \/ Spawn(t) \/ StartProbing(t)
    <3>1. /\ pc[t] \in {"preparing", "spawning"} /\ pc'[t] \in {"spawning", "probing"}
          /\ UNCHANGED <<sysProxy, sessPort>>
      BY <2>5, StepLands DEF PrepareSucceeds, Spawn, StartProbing, session
    <3>2. QED
      BY <1>4, <2>1, <3>1
  <2>6. CASE ProbeSucceeds(t)
    <3>1. pc[t] = "probing" /\ UNCHANGED <<sysProxy, sessPort>>
      BY <2>6 DEF ProbeSucceeds, session
    <3>2. CASE DiagnoseOnly
      <4>1. pc'[t] = "switching"
        BY <2>6, <3>2, StepLands
      <4>2. QED
        BY <1>2, <1>3, <1>4, <1>6, <3>1, <3>2, <4>1 DEF Service!Divert, Service!Answer
    <3>3. CASE ~DiagnoseOnly
      <4>1. pc'[t] = "enabling"
        BY <2>6, <3>3, StepLands
      <4>2. QED
        BY <1>4, <2>1, <3>1, <4>1
    <3>4. QED
      BY <3>2, <3>3
  <2>7. CASE EnableProxy(t)
    <3>1. /\ pc[t] = "enabling" /\ pc'[t] = "switching"
          /\ sysProxy' = sessPort /\ UNCHANGED sessPort
      BY <2>7 DEF EnableProxy, SetSystemProxy, ProxyPort, Benign, session
    <3>2. ~DiagnoseOnly
      BY <3>1 DEF NeverAtProxy, DiagnoseOnly
    <3>3. QED
      BY <1>2, <1>3, <1>4, <1>6, <3>1, <3>2 DEF Service!Divert, Service!Answer
  <2>8. CASE Switch(t)
    <3>1. pc[t] = "switching" /\ pc'[t] = "ok" /\ UNCHANGED sysProxy
      BY <2>8, StepLands DEF Switch
    <3>2. QED
      BY <1>2, <1>3, <1>4, <1>6, <3>1 DEF Returned, Service!Confirm, Service!Answer
  <2>9. CASE CleanChild(t)
    <3>1. pc[t] = "cleaning" /\ pc'[t] = "cleaning" /\ UNCHANGED sysProxy
      BY <2>9, StepLands DEF CleanChild
    <3>2. QED
      BY <1>4, <2>1, <3>1
  <2>10. CASE CleanDone(t)
    <3>1. pc[t] = "cleaning" /\ UNCHANGED sysProxy
      BY <2>10 DEF CleanDone
    <3>2. CASE DiagnoseOnly
      <4>1. pc'[t] = "failed"
        BY <2>10, <3>2, StepLands
      <4>2. QED
        BY <1>2, <1>3, <1>4, <1>6, <3>1, <3>2, <4>1
        DEF Returned, Service!Refuse, Service!Answer
    <3>3. CASE ~DiagnoseOnly
      <4>1. pc'[t] = "disabling"
        BY <2>10, <3>3, StepLands
      <4>2. QED
        BY <1>4, <2>1, <3>1, <4>1
    <3>4. QED
      BY <3>2, <3>3
  <2>11. CASE DisableProxy(t)
    <3>1. pc[t] = "disabling" /\ pc'[t] = "failed" /\ sysProxy' = "off"
      BY <2>11, StepLands DEF DisableProxy, SetSystemProxy, Benign
    <3>2. ~DiagnoseOnly
      BY <3>1 DEF NeverAtProxy, DiagnoseOnly
    <3>3. QED
      BY <1>2, <1>3, <1>4, <1>6, <3>1, <3>2 DEF Returned, Service!Refuse, Service!Answer
  <2>12. QED
    BY <2>2, <2>3, <2>4, <2>5, <2>6, <2>7, <2>8, <2>9, <2>10, <2>11 DEF Step
<1>8. QED
  BY <1>6, <1>7 DEF Service!Next, Service!vars

\* The other steps of such an environment.
LEMMA OthersRefine ==
  ASSUME Inv, BackInv, Benign,
         (\E t \in Tasks : Call(t)) \/ (\E c \in Procs : ChildStep(c)) \/ Exit \/ Restart
           \/ UNCHANGED vars
  PROVE  [Service!Next]_(Service!vars)
<1> USE DEF Inv, TypeOK
<1>1. Up /\ ~Exit /\ ~Restart
  BY DEF BackInv, Benign, Exit, ForceKill, InterruptCLI, ShutdownDashboard, Restart
<1>2. CASE \E t \in Tasks : Call(t)
  <2>1. PICK t \in Tasks : Call(t)
    BY <1>2
  <2>2. /\ pc[t] \in Returned /\ pc'[t] = "waiting"
        /\ \A u \in Tasks : u # t => pc'[u] = pc[u]
        /\ UNCHANGED <<sysProxy, sessPort, DiagnoseOnly>>
    BY <2>1 DEF Call, DiagnoseOnly, session
  <2>3. CallSeen' = [CallSeen EXCEPT ![t] = "asked"]
    BY <2>2, OneCallSeen, SeenFrom
  <2>4. CallSeen[t] \in Service!Answered
    BY <2>2, SeenFrom DEF CallSeen
  <2>5. UNCHANGED TunnelSeen
    BY <2>2 DEF TunnelSeen, Returned, Critical, Failing
  <2>6. QED
    BY <2>2, <2>3, <2>4, <2>5 DEF Service!Next, Service!Ask, Service!Moves
<1>3. CASE (\E c \in Procs : ChildStep(c)) \/ UNCHANGED vars
  BY <1>3
  DEF ChildStep, StoppedChildEnds, ChildDies, vars, session, CallSeen, TunnelSeen,
      DiagnoseOnly, Service!vars
<1>4. QED
  BY <1>1, <1>2, <1>3

\* The tools of set_system_proxy work and the process is not ended from outside.
Orderly == \A e \in Environments : e \subseteq {"child_dies", "prepare_raises"}

\* In such an environment execute_bypass_and_connect is what its callers take it for,
\* for any number of callers, ports, children and commands.
THEOREM TunnelIsTheService == Orderly => (Spec => ImplementsService)
<1>1. Init => Service!Init
  <2>1. SUFFICES ASSUME Init PROVE Service!Init
    OBVIOUS
  <2>2. CallSeen = [t \in Tasks |-> "none"]
    BY <2>1, SeenFrom DEF Init, CallSeen, Returned
  <2>3. TunnelSeen = None
    BY <2>1 DEF Init, TunnelSeen, Critical, Failing
  <2>4. QED
    BY <2>1, <2>2, <2>3 DEF Init, Service!Init, DiagnoseOnly
<1>2. ASSUME Orderly
      PROVE  Inv /\ NeverAtProxy /\ BackInv /\ [Next]_vars => [Service!Next]_(Service!vars)
  <2>1. Inv => Benign
    BY <1>2 DEF Inv, TypeOK, Orderly, Benign
  <2>2. QED
    BY <2>1, StepRefines, OthersRefine DEF Next
<1>3. ASSUME Orderly
      PROVE  Spec => ImplementsService
  BY <1>1, <1>2, <1>3, Invariance, ReadOnlyRuns, BackInvariance, PTL
  DEF Spec, ImplementsService, Service!Spec
<1>4. QED
  BY <1>3

=============================================================================
