--------------------------- MODULE ConfigFetchMC ---------------------------
(***************************************************************************)
(* Small instances of ConfigFetch for TLC.                                 *)
(***************************************************************************)
EXTENDS ConfigFetch, TLC

\* Jobs and lists are interchangeable.
Symmetry == Permutations(Jobs) \cup Permutations(SubLists)

=============================================================================
