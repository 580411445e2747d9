------------------------------- MODULE MCCtf -------------------------------
(***************************************************************************)
(* Instances of Ctf for TLC: one flag for each team, the teams of flags    *)
(* and players as functions the .cfg files cannot write.                   *)
(***************************************************************************)
EXTENDS Ctf, TLC

TwoFlagTeams == [i \in FlagIds |-> i]
Symmetry == Permutations(Clients)
=============================================================================
