-------------------------- MODULE ConnectorProofs --------------------------
(***************************************************************************)
(* Theorems about Connector, for every number of tasks, ports and child    *)
(* processes, with the proofs TLAPS checks.                                *)
(***************************************************************************)
EXTENDS Connector, SequenceTheorems, TLAPS

\* The holder of strategy_lock is the head of the queue, and only the holder
\* is past "async with".
LockInv == \A t \in Tasks : pc[t] \in Critical => Holds(t)

\* A running engine always has a port, and a call past "async with" remembers
\* the one it found, so set_system_proxy(True, port) never gets None.
PortInv ==
  /\ run # "none" => sessPort \in Ports
  /\ \A t \in Tasks : pc[t] \in Critical => oldPort[t] \in Ports

\* The inductive invariant: each part needs the others, since a call that fails
\* writes the port it remembered back into the session.
Inv == TypeOK /\ LockInv /\ PortInv

-----------------------------------------------------------------------------
\* A waiter that joins a queue does not change who heads it.
LEMMA JoinKeepsHead ==
  ASSUME NEW q \in Seq(Tasks), NEW t \in Tasks
  PROVE  /\ Append(q, t) \in Seq(Tasks)
         /\ q # <<>> => Append(q, t) # <<>> /\ Head(Append(q, t)) = Head(q)
  BY AppendProperties, LenProperties, EmptySeq

\* What leaving the strategy_lock block does to the scheduler's state.
LEMMA ReturnKeepsInv ==
  ASSUME Inv, NEW t \in Tasks, NEW result \in Returned,
         pc[t] \in Critical, Return(t, result)
  PROVE  /\ pc' \in [Tasks -> PCs]
         /\ queue' \in Seq(Tasks)
         /\ oldProcs' \in [Tasks -> SUBSET Procs]
         /\ oldPort' \in [Tasks -> Ports \cup {None}]
         /\ todo' \in [Tasks -> 0..MaxCmds]
         /\ LockInv'
         /\ \A u \in Tasks : pc'[u] \notin Critical
<1> USE DEF Inv, TypeOK, Return
<1>1. queue # <<>> /\ Head(queue) = t
  BY DEF LockInv, Holds
<1>2. queue' \in Seq(Tasks)
  BY <1>1, HeadTailProperties
<1>3. pc' \in [Tasks -> PCs]
  BY DEF PCs
<1>4. 0 \in 0..MaxCmds
  BY ConnectorAssumption
<1>5. \A u \in Tasks : pc'[u] \notin Critical
  <2>1. SUFFICES ASSUME NEW u \in Tasks, pc'[u] \in Critical
                 PROVE  FALSE
    OBVIOUS
  <2>2. u # t
    BY <2>1 DEF Returned, Critical, Failing
  <2>3. pc[u] \in Critical
    BY <2>1, <2>2
  <2>4. QED
    BY <2>2, <2>3, <1>1 DEF LockInv, Holds
<1>6. QED
  BY <1>2, <1>3, <1>4, <1>5 DEF LockInv

\* A step of the holder that keeps the lock keeps LockInv.
LEMMA HolderKeepsLock ==
  ASSUME Inv, NEW t \in Tasks, NEW next \in Critical, Holds(t),
         pc' = [pc EXCEPT ![t] = next], UNCHANGED queue
  PROVE  pc' \in [Tasks -> PCs] /\ LockInv'
  BY DEF Inv, TypeOK, LockInv, Holds, PCs

\* So does a step that moves neither a program counter nor the queue.
LEMMA IdleKeepsLock ==
  ASSUME LockInv, UNCHANGED <<pc, queue>>
  PROVE  LockInv'
  BY DEF LockInv, Holds

\* Both main()s start the engine in a state that satisfies the invariant.
LEMMA InitInv == Init => Inv
<1> SUFFICES ASSUME Init PROVE Inv
  OBVIOUS
<1>1. TypeOK
  BY ConnectorAssumption
  DEF Init, TypeOK, Starts, Runs, PCs, Returned, ChildStates, Routes, Live
<1>2. LockInv
  BY DEF Init, LockInv, Critical, Failing
<1>3. PortInv
  BY DEF Init, PortInv, Critical, Failing
<1>4. QED
  BY <1>1, <1>2, <1>3 DEF Inv

-----------------------------------------------------------------------------
\* A task step preserves the invariant, one action at a time.
LEMMA StepInv ==
  ASSUME Inv, NEW t \in Tasks, Step(t)
  PROVE  Inv'
<1> USE DEF Inv
<1>0. pc[t] \in Critical => Holds(t)
  BY DEF LockInv
<1>1. CASE Begin(t)
  <2>1. \E next \in Critical : pc' = [pc EXCEPT ![t] = next]
    BY <1>1 DEF Begin, Critical, Failing
  <2>2. LockInv' /\ pc' \in [Tasks -> PCs]
    BY <1>1, <2>1, HolderKeepsLock DEF Begin
  <2>3. \E p \in Ports : sessPort' = p /\ reserved' = {p}
    BY <1>1 DEF Begin, SetupDynamicPorts, FreePorts
  <2>4. TypeOK'
    BY <1>1, <2>2, <2>3 DEF Begin, TypeOK, children
  <2>5. PortInv'
    BY <1>1, <2>1, <2>3 DEF Begin, Up, PortInv, TypeOK
  <2>6. QED
    BY <2>2, <2>4, <2>5
<1>2. CASE PrepareFails(t)
  BY <1>0, <1>2, HolderKeepsLock
  DEF PrepareFails, TypeOK, PortInv, Critical, Failing, children, session, locals
<1>3. CASE PrepareRaises(t)
  <2>1. pc[t] \in Critical /\ Return(t, "raised") /\ "raised" \in Returned
    BY <1>3 DEF PrepareRaises, Critical, Returned
  <2>2. QED
    BY <1>3, <2>1, ReturnKeepsInv DEF PrepareRaises, TypeOK, PortInv, children, session
<1>4. CASE PrepareSucceeds(t)
  <2>1. LockInv' /\ pc' \in [Tasks -> PCs]
    BY <1>0, <1>4, HolderKeepsLock DEF PrepareSucceeds, Critical, Failing
  <2>2. QED
    BY <1>4, <2>1 DEF PrepareSucceeds, CommandCounts, TypeOK, PortInv, Critical
<1>5. CASE Spawn(t)
  <2>1. LockInv'
    BY <1>5, IdleKeepsLock DEF Spawn
  <2>2. PICK c \in Procs, port \in CommandPorts(t) :
          /\ child' = [child EXCEPT ![c] = Binds(port)]
          /\ childPort' = [childPort EXCEPT ![c] = port]
          /\ helpers' = IF IsHelper(t) THEN helpers \cup {c} ELSE helpers \ {c}
          /\ active' = active \cup {c}
    BY <1>5 DEF Spawn, FreeSlots
  <2>3. child' \in [Procs -> ChildStates] /\ childPort' \in [Procs -> Ports \cup {None}]
    BY <1>5, <2>2 DEF Spawn, CommandPorts, Binds, Up, PortInv, TypeOK, ChildStates, Live
  <2>4. todo' \in [Tasks -> 0..MaxCmds]
    BY <1>5, ConnectorAssumption DEF Spawn, MoreCommands, TypeOK
  <2>5. TypeOK'
    BY <1>5, <2>2, <2>3, <2>4 DEF Spawn, TypeOK, session
  <2>6. PortInv'
    BY <1>5 DEF Spawn, PortInv, session
  <2>7. QED
    BY <2>1, <2>5, <2>6
<1>6. CASE SpawnFails(t)
  BY <1>0, <1>6, HolderKeepsLock
  DEF SpawnFails, TypeOK, PortInv, Critical, Failing, children, session, locals
<1>7. CASE StartProbing(t)
  BY <1>0, <1>7, HolderKeepsLock
  DEF StartProbing, TypeOK, PortInv, Critical, Failing, children, session, locals
<1>8. CASE ProbeSucceeds(t)
  BY <1>0, <1>8, HolderKeepsLock
  DEF ProbeSucceeds, TypeOK, PortInv, Critical, Failing, children, session, locals
<1>9. CASE ProbeFails(t)
  BY <1>0, <1>9, HolderKeepsLock
  DEF ProbeFails, TypeOK, PortInv, Critical, Failing, children, session, locals
<1>10. CASE EnableProxy(t)
  <2>1. PICK result \in BOOLEAN :
          /\ SetSystemProxy(sessPort, result)
          /\ pc' = [pc EXCEPT ![t] = IF result THEN "switching" ELSE "cleaning"]
    BY <1>10 DEF EnableProxy, ProxyPort
  <2>2. (IF result THEN "switching" ELSE "cleaning") \in Critical
    BY DEF Critical, Failing
  <2>3. LockInv' /\ pc' \in [Tasks -> PCs]
    BY <1>0, <1>10, <2>1, <2>2, HolderKeepsLock DEF EnableProxy, Critical
  <2>4. sysProxy' \in Routes
    BY <1>10, <2>1 DEF EnableProxy, Up, SetSystemProxy, TypeOK, PortInv, Routes
  <2>5. PortInv'
    BY <1>10, <2>1 DEF EnableProxy, PortInv, TypeOK, Critical, session, locals
  <2>6. QED
    BY <1>10, <2>3, <2>4, <2>5 DEF EnableProxy, TypeOK, children, session, locals
<1>11. CASE Switch(t)
  <2>1. pc[t] \in Critical /\ Return(t, "ok") /\ "ok" \in Returned
    BY <1>11 DEF Switch, Critical, Returned
  <2>2. child' \in [Procs -> ChildStates]
    BY <1>11 DEF Switch, TypeOK, ChildStates, Live
  <2>3. QED
    BY <1>11, <2>1, <2>2, ReturnKeepsInv DEF Switch, TypeOK, PortInv, session
<1>12. CASE CleanChild(t)
  <2>1. LockInv'
    BY <1>12, IdleKeepsLock DEF CleanChild
  <2>2. child' \in [Procs -> ChildStates]
    BY <1>12 DEF CleanChild, TypeOK, ChildStates, Live
  <2>3. QED
    BY <1>12, <2>1, <2>2 DEF CleanChild, TypeOK, PortInv, session, locals
<1>13. CASE CleanDone(t)
  <2>1. pc[t] \in Critical
    BY <1>13 DEF CleanDone, Critical, Failing
  <2>2. CASE DiagnoseOnly
    <3>1. Return(t, "failed") /\ "failed" \in Returned
      BY <1>13, <2>2 DEF CleanDone, Returned
    <3>2. QED
      BY <1>13, <2>1, <3>1, ReturnKeepsInv DEF CleanDone, TypeOK, PortInv
  <2>3. CASE ~DiagnoseOnly
    <3>1. LockInv' /\ pc' \in [Tasks -> PCs]
      BY <1>0, <1>13, <2>1, <2>3, HolderKeepsLock DEF CleanDone, Critical, Failing
    <3>2. QED
      BY <1>13, <2>1, <2>3, <3>1 DEF CleanDone, TypeOK, PortInv, locals
  <2>4. QED
    BY <2>2, <2>3
<1>14. CASE DisableProxy(t)
  <2>1. pc[t] \in Critical /\ Return(t, "failed") /\ "failed" \in Returned
    BY <1>14 DEF DisableProxy, Critical, Failing, Returned
  <2>2. sysProxy' \in Routes
    BY <1>14 DEF DisableProxy, SetSystemProxy, TypeOK, Routes
  <2>3. QED
    BY <1>14, <2>1, <2>2, ReturnKeepsInv DEF DisableProxy, TypeOK, PortInv, children, session
<1>15. QED
  BY <1>1, <1>2, <1>3, <1>4, <1>5, <1>6, <1>7, <1>8, <1>9, <1>10, <1>11, <1>12,
     <1>13, <1>14 DEF Step

\* What callers, children and the OS do around the calls preserves it too.
LEMMA CallInv ==
  ASSUME Inv, NEW t \in Tasks, Call(t)
  PROVE  Inv'
<1> USE DEF Inv
<1>1. queue' \in Seq(Tasks) /\ (queue # <<>> => queue' # <<>> /\ Head(queue') = Head(queue))
  BY JoinKeepsHead DEF Call, TypeOK
<1>2. TypeOK'
  BY <1>1 DEF Call, TypeOK, PCs, children, session, locals
<1>3. LockInv'
  BY <1>1 DEF Call, TypeOK, LockInv, Holds, Critical, Failing
<1>4. PortInv'
  BY DEF Call, PortInv, TypeOK, Critical, Failing, session, locals
<1>5. QED
  BY <1>2, <1>3, <1>4

\* A child that ends by itself or on request preserves the invariant.
LEMMA ChildInv ==
  ASSUME Inv, NEW c \in Procs, ChildStep(c)
  PROVE  Inv'
<1>1. LockInv'
  BY IdleKeepsLock DEF Inv, ChildStep, StoppedChildEnds, ChildDies
<1>2. child' \in [Procs -> ChildStates]
  BY DEF Inv, ChildStep, StoppedChildEnds, ChildDies, TypeOK, ChildStates
<1>3. TypeOK'
  BY <1>2 DEF Inv, ChildStep, StoppedChildEnds, ChildDies, TypeOK, session, locals
<1>4. PortInv'
  BY DEF Inv, ChildStep, StoppedChildEnds, ChildDies, PortInv, session, locals
<1>5. QED
  BY <1>1, <1>3, <1>4 DEF Inv

\* So does the end of the engine process, whatever becomes of the children.
LEMMA EndInv ==
  ASSUME Inv, NEW after \in [Procs -> ChildStates], ProcessEnds(after)
  PROVE  Inv'
<1>1. LockInv'
  BY DEF ProcessEnds, LockInv, Critical, Failing
<1>2. child' \in [Procs -> ChildStates]
  BY DEF ProcessEnds, ChildStates
<1>3. 0 \in 0..MaxCmds
  BY ConnectorAssumption
<1>4. TypeOK'
  BY <1>2, <1>3, EmptySeq DEF Inv, ProcessEnds, TypeOK, Runs, PCs, Returned
<1>5. PortInv'
  BY DEF ProcessEnds, PortInv, Critical, Failing
<1>6. QED
  BY <1>1, <1>4, <1>5 DEF Inv

\* The three ways the process ends are instances of EndInv.
LEMMA ExitInv ==
  ASSUME Inv, Exit
  PROVE  Inv'
<1>1. child \in [Procs -> ChildStates]
  BY DEF Inv, TypeOK
<1>2. \A victims : Collected(child, victims) \in [Procs -> ChildStates]
  BY <1>1 DEF Collected, ChildStates
<1>3. PICK after \in [Procs -> ChildStates] : ProcessEnds(after)
  BY <1>1, <1>2 DEF Exit, ForceKill, InterruptCLI, ShutdownDashboard
<1>4. QED
  BY <1>3, EndInv

\* The next run starts with a fresh session.
LEMMA RestartInv ==
  ASSUME Inv, Restart
  PROVE  Inv'
<1>1. LockInv'
  BY IdleKeepsLock DEF Inv, Restart
<1>2. TypeOK'
  BY DEF Inv, Restart, SetupDynamicPorts, FreePorts, TypeOK, Starts, Runs, children, locals
<1>3. PortInv'
  BY DEF Inv, Restart, SetupDynamicPorts, FreePorts, PortInv, locals
<1>4. QED
  BY <1>1, <1>2, <1>3 DEF Inv

\* Every step, of whoever it is, preserves the invariant.
LEMMA NextInv == Inv /\ [Next]_vars => Inv'
<1> SUFFICES ASSUME Inv, [Next]_vars PROVE Inv'
  OBVIOUS
<1>1. CASE UNCHANGED vars
  <2>1. LockInv'
    BY <1>1, IdleKeepsLock DEF vars, Inv
  <2>2. TypeOK'
    BY <1>1 DEF vars, children, session, locals, Inv, TypeOK
  <2>3. PortInv'
    BY <1>1 DEF vars, session, locals, Inv, PortInv
  <2>4. QED
    BY <2>1, <2>2, <2>3 DEF Inv
<1>2. CASE \E t \in Tasks : Call(t) \/ Step(t)
  BY <1>2, CallInv, StepInv
<1>3. CASE \E c \in Procs : ChildStep(c)
  BY <1>3, ChildInv
<1>4. CASE Exit
  BY <1>4, ExitInv
<1>5. CASE Restart
  BY <1>5, RestartInv
<1>6. QED
  BY <1>1, <1>2, <1>3, <1>4, <1>5 DEF Next

\* Every reachable state is type-correct and respects the lock.
THEOREM Invariance == Spec => []Inv
  BY InitInv, NextInv, PTL DEF Spec

\* The variables of the connector keep their types, whatever faults happen.
THEOREM TypeCorrect == Spec => []TypeOK
  BY Invariance, PTL DEF Inv

\* Two calls of execute_bypass_and_connect are never both inside the
\* strategy_lock block, for any number of concurrent manual connects.
THEOREM MutualExclusion == Spec => []OneAttemptAtATime
<1>1. Inv => OneAttemptAtATime
  BY DEF Inv, LockInv, Holds, OneAttemptAtATime
<1>2. QED
  BY <1>1, Invariance, PTL

-----------------------------------------------------------------------------
\* Under --diagnose-only no call ever reaches an await inside set_system_proxy.
NeverAtProxy ==
  run # "normal" => \A t \in Tasks : pc[t] \notin {"enabling", "disabling"}

\* The program counters of a step's task keep away from set_system_proxy.
LEMMA StepNeverAtProxy ==
  ASSUME TypeOK, NeverAtProxy, DiagnoseOnly, NEW t \in Tasks, Call(t) \/ Step(t)
  PROVE  NeverAtProxy' /\ UNCHANGED sysProxy
<1> USE DEF TypeOK, NeverAtProxy, DiagnoseOnly
<1>1. CASE Call(t)
  BY <1>1 DEF Call
<1>2. CASE Begin(t)
  BY <1>2 DEF Begin
<1>3. CASE PrepareFails(t) \/ PrepareRaises(t) \/ PrepareSucceeds(t)
  BY <1>3 DEF PrepareFails, PrepareRaises, PrepareSucceeds, Return
<1>4. CASE Spawn(t) \/ SpawnFails(t) \/ StartProbing(t)
  BY <1>4 DEF Spawn, SpawnFails, StartProbing
<1>5. CASE ProbeSucceeds(t) \/ ProbeFails(t)
  BY <1>5 DEF ProbeSucceeds, ProbeFails
<1>6. CASE EnableProxy(t) \/ DisableProxy(t)
  BY <1>6 DEF EnableProxy, DisableProxy
<1>7. CASE Switch(t) \/ CleanChild(t) \/ CleanDone(t)
  BY <1>7 DEF Switch, CleanChild, CleanDone, Return
<1>8. QED
  BY <1>1, <1>2, <1>3, <1>4, <1>5, <1>6, <1>7 DEF Step

\* A step of a call happens within a run, and does not change which run it is.
LEMMA StepKeepsRun ==
  ASSUME NEW t \in Tasks, Call(t) \/ Step(t)
  PROVE  Up /\ UNCHANGED run
  BY DEF Call, Step, Begin, PrepareFails, PrepareRaises, PrepareSucceeds, Spawn,
         SpawnFails, StartProbing, ProbeSucceeds, ProbeFails, EnableProxy, Switch,
         CleanChild, CleanDone, DisableProxy

\* Nor does a step of the children or of the process as a whole.
LEMMA OtherNeverAtProxy ==
  ASSUME NeverAtProxy,
         (\E c \in Procs : ChildStep(c)) \/ Exit \/ Restart \/ UNCHANGED vars
  PROVE  NeverAtProxy' /\ UNCHANGED sysProxy
<1> USE DEF NeverAtProxy
<1>1. CASE \E c \in Procs : ChildStep(c)
  BY <1>1 DEF ChildStep, StoppedChildEnds, ChildDies
<1>2. CASE Exit
  <2>1. PICK after : ProcessEnds(after)
    BY <1>2 DEF Exit, ForceKill, InterruptCLI, ShutdownDashboard
  <2>2. QED
    BY <2>1 DEF ProcessEnds
<1>3. CASE Restart
  BY <1>3 DEF Restart, Up
<1>4. CASE UNCHANGED vars
  BY <1>4 DEF vars
<1>5. QED
  BY <1>1, <1>2, <1>3, <1>4

\* So no run with --diagnose-only gets there.
THEOREM ReadOnlyRuns == Spec => []NeverAtProxy
<1>1. Init => NeverAtProxy
  BY DEF Init, NeverAtProxy
<1>2. TypeOK /\ NeverAtProxy /\ [Next]_vars => NeverAtProxy'
  <2>1. SUFFICES ASSUME TypeOK, NeverAtProxy, [Next]_vars
                 PROVE  NeverAtProxy'
    OBVIOUS
  <2>2. CASE \E t \in Tasks : Call(t) \/ Step(t)
    <3>1. CASE DiagnoseOnly
      BY <2>1, <2>2, <3>1, StepNeverAtProxy
    <3>2. CASE run = "normal"
      BY <2>2, <3>2, StepKeepsRun DEF NeverAtProxy
    <3>3. QED
      BY <2>1, <2>2, <3>1, <3>2, StepKeepsRun DEF TypeOK, Runs, Starts, Up, DiagnoseOnly
  <2>3. CASE (\E c \in Procs : ChildStep(c)) \/ Exit \/ Restart \/ UNCHANGED vars
    BY <2>1, <2>3, OtherNeverAtProxy
  <2>4. QED
    BY <2>1, <2>2, <2>3 DEF Next
<1>3. QED
  BY <1>1, <1>2, TypeCorrect, PTL DEF Spec

\* A run with --diagnose-only never changes the system proxy, however many calls
\* there are and whatever fails (BypssEng.py, "if not DIAGNOSE_ONLY").
THEOREM DiagnosisIsReadOnly == Spec => DiagnoseOnlyKeepsProxy
<1>1. TypeOK /\ NeverAtProxy /\ [Next]_vars =>
        [DiagnoseOnly => UNCHANGED sysProxy]_vars
  <2>1. SUFFICES ASSUME TypeOK, NeverAtProxy, [Next]_vars, DiagnoseOnly
                 PROVE  UNCHANGED sysProxy
    OBVIOUS
  <2>2. CASE \E t \in Tasks : Call(t) \/ Step(t)
    BY <2>1, <2>2, StepNeverAtProxy
  <2>3. CASE (\E c \in Procs : ChildStep(c)) \/ Exit \/ Restart \/ UNCHANGED vars
    BY <2>1, <2>3, OtherNeverAtProxy
  <2>4. QED
    BY <2>1, <2>2, <2>3 DEF Next
<1>2. QED
  BY <1>1, ReadOnlyRuns, TypeCorrect, PTL DEF Spec, DiagnoseOnlyKeepsProxy

=============================================================================
