---------------------------- MODULE DashboardMC ----------------------------
(***************************************************************************)
(* Small instances of Dashboard for TLC.                                   *)
(***************************************************************************)
EXTENDS Dashboard, TLC

\* Connections and tasks are interchangeable.
Symmetry == Permutations(Clients) \cup Permutations(Casts) \cup Permutations(Inserts)

=============================================================================
