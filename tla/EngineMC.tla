------------------------------ MODULE EngineMC ------------------------------
(***************************************************************************)
(* Small instances of Engine for TLC.                                      *)
(***************************************************************************)
EXTENDS Engine, TLC

\* Ports and process slots are interchangeable.
Symmetry == Permutations(Ports) \cup Permutations(Procs)

=============================================================================
