--------------------------- MODULE TunnelService ---------------------------
(***************************************************************************)
(* What a caller of execute_bypass_and_connect may rely on, without        *)
(* children, a list of them or a lock: tunnels are built one at a time, a  *)
(* call that returns True put the port of the very tunnel it built behind  *)
(* the system proxy and nobody moved it before the answer; a call that     *)
(* returns False leaves the machine without a proxy.  Connector            *)
(* implements it.                                                          *)
(***************************************************************************)
CONSTANTS
  Tasks,  \* the callers
  Ports,  \* where a tunnel can listen
  None    \* no tunnel

VARIABLES
  call,         \* what each caller has seen
  tunnel,       \* the port of the tunnel that is being built or handed over
  route,        \* the system proxy
  diagnoseOnly  \* calls may not touch the system proxy

Answered == {"none", "ok", "failed", "raised"}

TypeOK ==
  /\ call \in [Tasks -> Answered \cup {"asked", "building", "routed", "refusing"}]
  /\ tunnel \in Ports \cup {None}
  /\ route \in Ports \cup {"user", "off"}
  /\ diagnoseOnly \in BOOLEAN

Init ==
  /\ call = [t \in Tasks |-> "none"]
  /\ tunnel = None
  /\ route = "user"
  /\ diagnoseOnly \in BOOLEAN

Moves(t, from, to) == call[t] \in from /\ call' = [call EXCEPT ![t] = to]

\* Nobody else is at work.
Alone(t) == \A u \in Tasks : u # t => call[u] \in Answered \cup {"asked"}

Ask(t) ==
  /\ Moves(t, Answered, "asked")
  /\ UNCHANGED <<tunnel, route, diagnoseOnly>>

\* A port is set aside for the tunnel of this call.
Build(t) ==
  /\ Moves(t, {"asked"}, "building")
  /\ Alone(t)
  /\ tunnel' \in Ports
  /\ UNCHANGED <<route, diagnoseOnly>>

\* The tunnel was tested, and takes the system proxy.
Divert(t) ==
  /\ Moves(t, {"building"}, "routed")
  /\ route' = IF diagnoseOnly THEN route ELSE tunnel
  /\ UNCHANGED <<tunnel, diagnoseOnly>>

\* And its caller is told.
Confirm(t) ==
  /\ Moves(t, {"routed"}, "ok")
  /\ tunnel' = None
  /\ UNCHANGED <<route, diagnoseOnly>>

\* There will be no tunnel.
GiveUp(t) ==
  /\ Moves(t, {"asked", "building"}, "refusing")
  /\ Alone(t)
  /\ tunnel' = None
  /\ UNCHANGED <<route, diagnoseOnly>>

\* The system proxy is switched off, and the caller is told.
Refuse(t) ==
  /\ Moves(t, {"refusing"}, "failed")
  /\ route' = IF diagnoseOnly THEN route ELSE "off"
  /\ UNCHANGED <<tunnel, diagnoseOnly>>

\* The call ends in an exception before it touched the route.
Raise(t) ==
  /\ Moves(t, {"building"}, "raised")
  /\ tunnel' = None
  /\ UNCHANGED <<route, diagnoseOnly>>

Answer(t) ==
  Build(t) \/ Divert(t) \/ Confirm(t) \/ GiveUp(t) \/ Refuse(t) \/ Raise(t)

Next == \E t \in Tasks : Ask(t) \/ Answer(t)

vars == <<call, tunnel, route, diagnoseOnly>>

Spec == Init /\ [][Next]_vars

\* Callers are answered: nobody is passed over for ever.
FairSpec == Spec /\ \A t \in Tasks : SF_vars(Answer(t))
=============================================================================
