---------------------------- MODULE DiagnosisMC ----------------------------
(***************************************************************************)
(* Small instances of Diagnosis for TLC.                                   *)
(***************************************************************************)
EXTENDS Diagnosis

\* The servers are interchangeable.
Symmetry == Permutations(Servers)

=============================================================================
