---------------------------- MODULE MCCtfHistory ----------------------------
(* Instances of CtfHistory for TLC. *)
EXTENDS CtfHistory

NeutralTeam == [i \in FlagIds |-> 0]
=============================================================================
