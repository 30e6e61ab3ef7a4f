-------------------------- MODULE SystemNetworkMC --------------------------
(***************************************************************************)
(* Small instances of SystemNetwork for TLC.                               *)
(***************************************************************************)
EXTENDS SystemNetwork, TLC

\* Requests are interchangeable, and so are the lists they ask for and the
\* interfaces.
Symmetry ==
  Permutations(DnsCallers) \cup Permutations(DnsLists) \cup Permutations(Interfaces)

=============================================================================
