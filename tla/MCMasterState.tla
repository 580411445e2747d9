--------------------------- MODULE MCMasterState ---------------------------
(* Instances of MasterState for TLC. *)
EXTENDS MasterState, TLC

Symmetry == Permutations(Cns) \cup Permutations(Ips)
=============================================================================
