----------------------------- MODULE Connector -----------------------------
(***************************************************************************)
(* execute_bypass_and_connect (BypssEng.py) with the objects it works on:  *)
(* the ProcessManager (runtime/process.py), the RuntimeSession             *)
(* (infrastructure/runtime_session.py) and the system proxy                *)
(* (SystemNetworkManager.set_system_proxy).                                *)
(*                                                                         *)
(* Every concurrent call of execute_bypass_and_connect is a task: the      *)
(* orchestrator's own one and one per manual connect of the dashboard.     *)
(* An action is what a task does between two awaits.  The SOCKS and the    *)
(* HTTP port are reserved, released and restored together and appear as    *)
(* one port.                                                               *)
(***************************************************************************)
EXTENDS Naturals, Sequences, FiniteSets

CONSTANTS
  Tasks,        \* calls of execute_bypass_and_connect that can be in flight
  Ports,        \* the ephemeral ports the OS hands out
  Procs,        \* slots for child processes
  MaxCmds,      \* most commands a strategy's processes() returns
  JobObject,    \* children live in a Windows job object (pywin32 present)
  Environments, \* the sets of FaultKinds a behaviour may be exposed to
  None          \* Python's None

FaultKinds ==
  { "prepare_raises",    \* strategy.prepare() raises (disk full, bad creds)
    "proxy_cmd_fails",   \* set_system_proxy returns False, maybe half done
    "proxy_cmd_ignored", \* the OS tool fails but its status is not read
    "child_dies",        \* a child exits by itself
    "exit" }             \* the engine process ends (kill, Ctrl-C, shutdown)

ASSUME ConnectorAssumption ==
  /\ MaxCmds \in Nat
  /\ JobObject \in BOOLEAN
  /\ Environments \subseteq SUBSET FaultKinds
  /\ None \notin Ports
  /\ "user" \notin Ports
  /\ "off" \notin Ports

VARIABLES
  env,        \* what may go wrong in this behaviour
  run,        \* whether and how the engine process runs
  pc,         \* where each task is suspended, or what its call returned
  queue,      \* pm.strategy_lock: the head holds it, the others wait in order
  active,     \* pm.active_procs
  child,      \* life of each child process
  childPort,  \* the port a child was told to listen on
  helpers,    \* children that serve another child, not the session's port
  sessPort,   \* runtime_session.local_http_port
  reserved,   \* ports held by runtime_session._reserved_sockets
  sysProxy,   \* the proxy configured in the OS
  oldProcs,   \* local old_procs of each call
  oldPort,    \* local old_http of each call
  todo        \* commands each call still has to spawn

session  == <<sessPort, reserved>>
children == <<active, child, childPort, helpers>>
locals   == <<oldProcs, oldPort, todo>>
vars == <<env, run, pc, queue, children, session, sysProxy, locals>>

\* The engine starts normally or with --diagnose-only, each run anew.
Starts == {"normal", "diagnose_only"}
Runs   == Starts \cup {"none"}

Up           == run # "none"
DiagnoseOnly == run = "diagnose_only"

(***************************************************************************)
(* The await points of a call, and what a finished call returned           *)
(* ("raised": the exception reaches the caller).                           *)
(***************************************************************************)
Returned == {"none", "ok", "failed", "raised"}
Failing  == {"cleaning", "disabling"}
Critical == {"preparing", "spawning", "probing", "enabling", "switching"}
              \cup Failing
PCs == Returned \cup Critical \cup {"waiting"}

Live == {"running", "stopping"}    \* a process that may hold its port
ChildStates == Live \cup {"unused", "killed", "died"}
Routes == Ports \cup {"user", "off"}

TypeOK ==
  /\ env \in Environments
  /\ run \in Runs
  /\ pc \in [Tasks -> PCs]
  /\ queue \in Seq(Tasks)
  /\ active \in SUBSET Procs
  /\ child \in [Procs -> ChildStates]
  /\ childPort \in [Procs -> Ports \cup {None}]
  /\ helpers \in SUBSET Procs
  /\ sessPort \in Ports \cup {None}
  /\ reserved \in SUBSET Ports
  /\ sysProxy \in Routes
  /\ oldProcs \in [Tasks -> SUBSET Procs]
  /\ oldPort \in [Tasks -> Ports \cup {None}]
  /\ todo \in [Tasks -> 0..MaxCmds]

\* Mutation: strategy_lock is not taken.
HoldsNothing(t) == TRUE

\* Task t holds strategy_lock.
Holds(t) == queue # <<>> /\ Head(queue) = t

\* The children of the current list that serve the session's port.
Entrances == active \ helpers

\* The children some list of the engine still names.
Known == active \cup UNION {oldProcs[t] : t \in Tasks}

\* Mutation: fixed ports, as in older configs.
AllPorts == Ports

\* Ports bind(("127.0.0.1", 0)) can return once the session's own sockets
\* are closed: no live child listens there.
FreePorts == {p \in Ports : \A c \in Procs : child[c] \in Live => childPort[c] # p}

\* Somebody answers on a port.
ServedOn(port) == \E c \in Procs : child[c] = "running" /\ childPort[c] = port

\* A slot in which a new process can be started.
FreeSlots == {c \in Procs \ Known : child[c] \notin Live}

-----------------------------------------------------------------------------
\* A run starts: RuntimeSession() and setup_dynamic_ports(), as in both main()s.
Init ==
  /\ env \in Environments
  /\ run \in Starts
  /\ pc = [t \in Tasks |-> "none"]
  /\ queue = <<>>
  /\ active = {}
  /\ child = [c \in Procs |-> "unused"]
  /\ childPort = [c \in Procs |-> None]
  /\ helpers = {}
  /\ \E p \in Ports : sessPort = p /\ reserved = {p}
  /\ sysProxy = "user"
  /\ oldProcs = [t \in Tasks |-> {}]
  /\ oldPort = [t \in Tasks |-> None]
  /\ todo = [t \in Tasks |-> 0]

\* release_reserved_ports then two _reserve_port calls, seen as one port.
SetupDynamicPorts ==
  \E p \in FreePorts : sessPort' = p /\ reserved' = {p}

\* A call starts and queues on the lock ("async with pm.strategy_lock").
Call(t) ==
  /\ Up
  /\ pc[t] \in Returned
  /\ pc' = [pc EXCEPT ![t] = "waiting"]
  /\ queue' = Append(queue, t)
  /\ UNCHANGED <<env, run, children, session, sysProxy, locals>>

\* Mutation: the lock is not released when an exception leaves the block.
ReturnNoFinally(t, result) ==
  /\ pc' = [pc EXCEPT ![t] = result]
  /\ queue' = IF result = "raised" THEN queue ELSE Tail(queue)
  /\ oldProcs' = [oldProcs EXCEPT ![t] = {}]
  /\ oldPort' = [oldPort EXCEPT ![t] = None]
  /\ todo' = [todo EXCEPT ![t] = 0]

\* Leaving the "async with" block: the lock goes to the next waiter and the
\* locals die.
Return(t, result) ==
  /\ pc' = [pc EXCEPT ![t] = result]
  /\ queue' = Tail(queue)
  /\ oldProcs' = [oldProcs EXCEPT ![t] = {}]
  /\ oldPort' = [oldPort EXCEPT ![t] = None]
  /\ todo' = [todo EXCEPT ![t] = 0]

\* With the lock: remember the old processes and ports, reserve new ports,
\* build the strategy.  get_strategy returning None starts the restore.
Begin(t) ==
  /\ Up
  /\ pc[t] = "waiting"
  /\ Holds(t)
  /\ oldProcs' = [oldProcs EXCEPT ![t] = active]
  /\ oldPort' = [oldPort EXCEPT ![t] = sessPort]
  /\ SetupDynamicPorts
  /\ \E next \in {"preparing", "cleaning"} : pc' = [pc EXCEPT ![t] = next]
  /\ UNCHANGED <<env, run, queue, children, sysProxy, todo>>

\* prepare() returns no config file: restore_state_on_failure begins.
PrepareFails(t) ==
  /\ Up
  /\ pc[t] = "preparing"
  /\ pc' = [pc EXCEPT ![t] = "cleaning"]
  /\ UNCHANGED <<env, run, queue, children, session, sysProxy, locals>>

\* prepare() raises: it is called outside the try, so nothing is restored.
PrepareRaises(t) ==
  /\ Up
  /\ "prepare_raises" \in env
  /\ pc[t] = "preparing"
  /\ Return(t, "raised")
  /\ UNCHANGED <<env, run, children, session, sysProxy>>

\* How many commands processes() returns: none without a binary, two for DNSTT.
CommandCounts == 0..MaxCmds

\* Mutation: active_procs is not reset before the new children are appended.
PrepareKeepsList(t) ==
  /\ Up
  /\ pc[t] = "preparing"
  /\ reserved' = {}
  /\ pc' = [pc EXCEPT ![t] = "spawning"]
  /\ \E n \in CommandCounts : todo' = [todo EXCEPT ![t] = n]
  /\ UNCHANGED <<env, run, queue, children, sessPort, sysProxy, oldProcs, oldPort>>

\* The config is written: close the reserved sockets, ask for the commands,
\* and start a new, empty active_procs list.  A missing binary gives no
\* command at all.
PrepareSucceeds(t) ==
  /\ Up
  /\ pc[t] = "preparing"
  /\ reserved' = {}
  /\ active' = {}
  /\ pc' = [pc EXCEPT ![t] = "spawning"]
  /\ \E n \in CommandCounts : todo' = [todo EXCEPT ![t] = n]
  /\ UNCHANGED <<env, run, queue, child, childPort, helpers, sessPort, sysProxy, oldProcs, oldPort>>

\* Mutation: the loop over the commands runs once too often.
MoreThanCommands(t) == todo[t] >= 0

\* The loop over the commands goes on.
MoreCommands(t) == todo[t] > 0

\* Where the next command listens: the last one on the session's port, another
\* one, the dnstt-client of DNSTT, on the SOCKS port plus 1000, which was never
\* reserved and may be anybody's.
IsHelper(t) == todo[t] > 1
CommandPorts(t) == IF IsHelper(t) THEN Ports \ {sessPort} ELSE {sessPort}

\* A program that finds its port taken exits.
Binds(port) ==
  IF \E c \in Procs : child[c] \in Live /\ childPort[c] = port THEN "died" ELSE "running"

\* create_subprocess_exec of one command, and active_procs.append(proc).
Spawn(t) ==
  /\ Up
  /\ pc[t] = "spawning"
  /\ MoreCommands(t)
  /\ \E c \in FreeSlots, port \in CommandPorts(t) :
       /\ child' = [child EXCEPT ![c] = Binds(port)]
       /\ childPort' = [childPort EXCEPT ![c] = port]
       /\ helpers' = IF IsHelper(t) THEN helpers \cup {c} ELSE helpers \ {c}
       /\ active' = active \cup {c}
  /\ todo' = [todo EXCEPT ![t] = @ - 1]
  /\ UNCHANGED <<env, run, pc, queue, session, sysProxy, oldProcs, oldPort>>

\* create_subprocess_exec raises; the except clause restores.
SpawnFails(t) ==
  /\ Up
  /\ pc[t] = "spawning"
  /\ MoreCommands(t)
  /\ pc' = [pc EXCEPT ![t] = "cleaning"]
  /\ UNCHANGED <<env, run, queue, children, session, sysProxy, locals>>

\* Everything is started; the call sleeps and then sends its test requests.
StartProbing(t) ==
  /\ Up
  /\ pc[t] = "spawning"
  /\ todo[t] = 0
  /\ pc' = [pc EXCEPT ![t] = "probing"]
  /\ UNCHANGED <<env, run, queue, children, session, sysProxy, locals>>

\* A test request goes to the session's port and through every port the children
\* were given; it comes back if somebody serves them all.
Serving == ServedOn(sessPort) /\ \A c \in active : ServedOn(childPort[c])

\* Mutation: --diagnose-only is not looked at after a successful test.
ProbeIgnoresFlag(t) ==
  /\ Up
  /\ pc[t] = "probing"
  /\ Serving
  /\ pc' = [pc EXCEPT ![t] = "enabling"]
  /\ UNCHANGED <<env, run, queue, children, session, sysProxy, locals>>

\* One of the two URLs answers 200 or 204 through the new port.
ProbeSucceeds(t) ==
  /\ Up
  /\ pc[t] = "probing"
  /\ Serving
  /\ pc' = [pc EXCEPT ![t] = IF DiagnoseOnly THEN "switching" ELSE "enabling"]
  /\ UNCHANGED <<env, run, queue, children, session, sysProxy, locals>>

\* Neither URL answers.
ProbeFails(t) ==
  /\ Up
  /\ pc[t] = "probing"
  /\ pc' = [pc EXCEPT ![t] = "cleaning"]
  /\ UNCHANGED <<env, run, queue, children, session, sysProxy, locals>>

\* The OS side of set_system_proxy: whether the awaited tools took effect,
\* and what the method returns.  The tools' exit status is not read.
SetSystemProxy(route, result) ==
  \/ result = TRUE /\ sysProxy' = route
  \/ result = TRUE /\ "proxy_cmd_ignored" \in env /\ sysProxy' = sysProxy
  \/ result = FALSE /\ "proxy_cmd_fails" \in env /\ sysProxy' \in {sysProxy, route}

\* Mutation: the port is read before setup_dynamic_ports replaced it.
StalePort(t) == oldPort[t]

\* The port handed to set_system_proxy: the session's, at that moment.
ProxyPort(t) == sessPort

\* set_system_proxy(True, port) has run in the OS; False starts the restore.
EnableProxy(t) ==
  /\ Up
  /\ pc[t] = "enabling"
  /\ \E result \in BOOLEAN :
       /\ SetSystemProxy(ProxyPort(t), result)
       /\ pc' = [pc EXCEPT ![t] = IF result THEN "switching" ELSE "cleaning"]
  /\ UNCHANGED <<env, run, queue, children, session, locals>>

\* Mutation: the old processes are forgotten instead of terminated.
SwitchForgetsOld(t) ==
  /\ Up
  /\ pc[t] = "switching"
  /\ Return(t, "ok")
  /\ UNCHANGED <<env, run, children, session, sysProxy>>

\* The call resumes: terminate the old processes and return True.
Switch(t) ==
  /\ Up
  /\ pc[t] = "switching"
  /\ child' = [c \in Procs |-> IF c \in oldProcs[t] /\ child[c] = "running"
                                 THEN "stopping" ELSE child[c]]
  /\ Return(t, "ok")
  /\ UNCHANGED <<env, run, active, childPort, helpers, session, sysProxy>>

\* cleanup_child_processes, one child: terminate, wait half a second, kill.
CleanChild(t) ==
  /\ Up
  /\ pc[t] = "cleaning"
  /\ \E c \in active :
       /\ child[c] \in Live
       /\ child' = [child EXCEPT ![c] = "killed"]
  /\ UNCHANGED <<env, run, pc, queue, active, childPort, helpers, session, sysProxy, locals>>

\* cleanup_child_processes ends with clear(), the old ports are put back;
\* without --diagnose-only the system proxy is switched off next.
CleanDone(t) ==
  /\ Up
  /\ pc[t] = "cleaning"
  /\ \A c \in active : child[c] \notin Live
  /\ active' = {}
  /\ sessPort' = oldPort[t]
  /\ IF DiagnoseOnly
       THEN Return(t, "failed")
       ELSE pc' = [pc EXCEPT ![t] = "disabling"] /\ UNCHANGED <<queue, locals>>
  /\ UNCHANGED <<env, run, child, childPort, helpers, reserved, sysProxy>>

\* set_system_proxy(False); its result is ignored and the call returns False.
DisableProxy(t) ==
  /\ Up
  /\ pc[t] = "disabling"
  /\ \E result \in BOOLEAN : SetSystemProxy("off", result)
  /\ Return(t, "failed")
  /\ UNCHANGED <<env, run, children, session>>

-----------------------------------------------------------------------------
\* A child that was sent SIGTERM ends.
StoppedChildEnds(c) ==
  /\ child[c] = "stopping"
  /\ child' = [child EXCEPT ![c] = "killed"]
  /\ UNCHANGED <<env, run, pc, queue, active, childPort, helpers, session, sysProxy, locals>>

\* A child ends by itself: it crashes or cannot bind its port.
ChildDies(c) ==
  /\ "child_dies" \in env
  /\ child[c] = "running"
  /\ child' = [child EXCEPT ![c] = "died"]
  /\ UNCHANGED <<env, run, pc, queue, active, childPort, helpers, session, sysProxy, locals>>

\* The engine process is gone, with its tasks, its lock and its sockets.
\* Children in a job object die with the handle.
ProcessEnds(childrenAfter) ==
  /\ run' = "none"
  /\ pc' = [t \in Tasks |-> "none"]
  /\ queue' = <<>>
  /\ active' = {}
  /\ child' = [c \in Procs |-> IF JobObject /\ childrenAfter[c] \in Live
                                 THEN "killed" ELSE childrenAfter[c]]
  /\ sessPort' = None
  /\ reserved' = {}
  /\ oldProcs' = [t \in Tasks |-> {}]
  /\ oldPort' = [t \in Tasks |-> None]
  /\ todo' = [t \in Tasks |-> 0]
  /\ UNCHANGED <<env, childPort, helpers, sysProxy>>

\* SIGKILL, power loss, or an interpreter crash.
ForceKill ==
  /\ Up
  /\ "exit" \in env
  /\ ProcessEnds(child)

\* Children the interpreter may still kill while it collects the transports
\* of a closed event loop: any of them, or none.
Collected(from, victims) ==
  [c \in Procs |-> IF c \in victims THEN "killed" ELSE from[c]]

LiveChildren == {c \in Procs : child[c] \in Live}

\* Ctrl-C on BypssEng.py: the tasks are cancelled, the code after run() in
\* main() is never reached, so nothing is cleaned up.
InterruptCLI ==
  /\ Up
  /\ "exit" \in env
  /\ \E victims \in SUBSET LiveChildren : ProcessEnds(Collected(child, victims))

\* Ctrl-C on run_dashboard.py: main()'s finally releases the ports and cleans
\* up pm.active_procs; the system proxy is not touched.
ShutdownDashboard ==
  /\ Up
  /\ "exit" \in env
  /\ \E victims \in SUBSET (LiveChildren \ active) :
       ProcessEnds(Collected(child, victims \cup (active \cap LiveChildren)))

\* The next run: recovery finds no proxy backup, then a fresh session.
Restart ==
  /\ ~Up
  /\ run' \in Starts
  /\ SetupDynamicPorts
  /\ UNCHANGED <<env, pc, queue, children, sysProxy, locals>>

-----------------------------------------------------------------------------
Step(t) ==
  \/ Begin(t)
  \/ PrepareFails(t) \/ PrepareRaises(t) \/ PrepareSucceeds(t)
  \/ Spawn(t) \/ SpawnFails(t) \/ StartProbing(t)
  \/ ProbeSucceeds(t) \/ ProbeFails(t)
  \/ EnableProxy(t) \/ Switch(t)
  \/ CleanChild(t) \/ CleanDone(t) \/ DisableProxy(t)

ChildStep(c) == StoppedChildEnds(c) \/ ChildDies(c)

Exit == ForceKill \/ InterruptCLI \/ ShutdownDashboard

Next ==
  \/ \E t \in Tasks : Call(t) \/ Step(t)
  \/ \E c \in Procs : ChildStep(c)
  \/ Exit
  \/ Restart

Spec == Init /\ [][Next]_vars

\* The awaits of a call end: most have a timeout; the tools of the OS and the
\* peers of prepare(), which have none (diagnosis/health.py:225), are assumed to
\* answer or to close.  A child told to stop stops.
Fairness ==
  /\ \A t \in Tasks : WF_vars(Step(t))
  /\ \A c \in Procs : WF_vars(StoppedChildEnds(c))

FairSpec == Spec /\ Fairness

-----------------------------------------------------------------------------
(***************************************************************************)
(* Properties.                                                             *)
(***************************************************************************)

\* Two calls are never inside the strategy_lock block together: a manual
\* connect and the orchestrator's attempt do not mix their ports and children
\* (BypssEng.py, "async with pm.strategy_lock").
OneAttemptAtATime ==
  \A t, u \in Tasks : pc[t] \in Critical /\ pc[u] \in Critical => t = u

Settled == \A t \in Tasks : pc[t] \notin Failing

\* Whenever no call is undoing a failed attempt, a system proxy that points at
\* one of the engine's ports points at a child the engine did not stop: a
\* switch starts and tests the new children before it stops the old ones, and
\* moves the proxy in between.  It takes tools of set_system_proxy that work,
\* and a process that nobody ends.
NoBlackHole ==
  env \subseteq {"child_dies", "prepare_raises"} /\ Up /\ Settled /\ sysProxy \in Ports =>
    \E c \in Known \ helpers : childPort[c] = sysProxy /\ child[c] \in {"running", "died"}

\* Between calls runtime_session.local_http_port is the port of the children
\* in pm.active_procs (of DNSTT's two, of the one that serves it): whatever
\* failed, the pair was restored or replaced together, unless prepare() raised,
\* outside the try.
SessionMatchesChildren ==
  "prepare_raises" \notin env /\ Up /\ (\A t \in Tasks : pc[t] \notin Critical) =>
    \A c \in Entrances : childPort[c] = sessPort

\* A running child leaves the engine's hands (active_procs and every call's
\* old_procs) in one way only: it was the old process of a replacement that
\* failed after active_procs had been replaced by an empty list.
LostOnlyByFailedReplacement ==
  [][Up' => \A c \in Known :
       child[c] = "running" /\ child'[c] = "running" /\ c \notin Known' =>
         \E t \in Tasks : c \in oldProcs[t] /\ pc[t] \in Failing /\ pc'[t] = "failed"]_vars

\* A test that passes went through the tunnel it was made for: no child that an
\* earlier failure, a replacement or an earlier run left behind, whatever its
\* kind, answers in place of a new one that could not take its port
\* (setup_dynamic_ports).  It is about the session's port: a DNSTT whose second
\* port belongs to somebody else is passed on to whoever answers there.
TestReachesOwnTunnel ==
  [][\A t \in Tasks : pc[t] = "probing" /\ pc'[t] \in {"enabling", "switching"} =>
       \E c \in Entrances : childPort[c] = sessPort /\ child[c] = "running"]_vars

\* --diagnose-only never changes the system proxy, however attempts succeed,
\* fail or are cut short.
DiagnoseOnlyKeepsProxy ==
  [][DiagnoseOnly => UNCHANGED sysProxy]_vars

\* A call that was made returns, whatever calls overtake or precede it, as long as
\* no peer of prepare() keeps it waiting for ever (see Fairness).
EveryCallReturns ==
  \A t \in Tasks : pc[t] = "waiting" ~> pc[t] \in Returned

-----------------------------------------------------------------------------
\* What a caller sees of its call: the lock is one wait, a call builds its tunnel
\* until the proxy is moved or something fails.
Seen(at) ==
  CASE at \in Returned   -> at
    [] at = "waiting"    -> "asked"
    [] at = "switching"  -> "routed"
    [] at \in Failing    -> "refusing"
    [] OTHER             -> "building"
CallSeen == [t \in Tasks |-> Seen(pc[t])]

\* The port of the tunnel a call is about to hand over.
TunnelSeen == IF \E t \in Tasks : pc[t] \in Critical \ Failing THEN sessPort ELSE None

Service == INSTANCE TunnelService
             WITH call <- CallSeen, tunnel <- TunnelSeen, route <- sysProxy,
                  diagnoseOnly <- DiagnoseOnly

\* While the engine runs, a call that answers True put the port it had reserved for
\* its own tunnel behind the system proxy and nobody moved it before the answer, and
\* one that answers False left the proxy off (execute_bypass_and_connect as its
\* callers use it).
ImplementsService == Service!Spec

\* And every call is answered.
ImplementsFairService == Service!FairSpec

=============================================================================
