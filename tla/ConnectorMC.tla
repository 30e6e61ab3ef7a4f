---------------------------- MODULE ConnectorMC ----------------------------
(***************************************************************************)
(* Small instances of Connector for TLC.                                   *)
(***************************************************************************)
EXTENDS Connector, TLC

\* Tasks, ports and process slots are interchangeable.
Symmetry == Permutations(Tasks) \cup Permutations(Ports) \cup Permutations(Procs)

\* A child that has ended and that no list of the engine names is a free slot:
\* no guard and no property asks what it was.
SlotSeen(c) ==
  IF c \in Known \/ child[c] \in Live
    THEN <<child[c], childPort[c], c \in helpers>> ELSE <<"free">>

\* The states that differ in free slots only are one state for TLC.
SlotsSeen ==
  <<env, run, pc, queue, active, [c \in Procs |-> SlotSeen(c)], session, sysProxy, locals>>

=============================================================================
