------------------------------ MODULE MCAiMan ------------------------------
(* Instances of AiMan for TLC. *)
EXTENDS AiMan, TLC

Symmetry == Permutations(Cns)
=============================================================================
