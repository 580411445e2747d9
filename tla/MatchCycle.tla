----------------------------- MODULE MatchCycle -----------------------------
(***************************************************************************)
(* What the players and the scripts are promised of the succession of      *)
(* matches: a match is played, has at most one intermission, which is      *)
(* announced once (event_intermission), and is followed by the next match  *)
(* or, when no game comes next, by nothing until somebody changes the map. *)
(* A new match may begin at any time, and never begins paused.             *)
(***************************************************************************)
EXTENDS Naturals

CONSTANT Games

VARIABLES
  game,        \* what is played
  phase,       \* "play", "over" during the intermission, "done" after it
  announced,   \* intermissions announced since the match began
  paused

vars == <<game, phase, announced, paused>>

Init ==
  /\ game \in Games
  /\ phase = "play"
  /\ announced = 0
  /\ paused = FALSE

Begin ==
  /\ game' \in Games
  /\ phase' = "play"
  /\ announced' = 0
  /\ paused' = FALSE

End ==
  /\ phase = "play" /\ announced = 0
  /\ phase' = "over"
  /\ announced' = 1
  /\ UNCHANGED <<game, paused>>

\* The intermission runs out only while the game is not paused.
Stall ==
  /\ phase = "over"
  /\ ~paused
  /\ phase' = "done"
  /\ UNCHANGED <<game, announced, paused>>

Pause ==
  /\ paused' = ~paused
  /\ UNCHANGED <<game, phase, announced>>

Next == Begin \/ End \/ Stall \/ Pause

Spec == Init /\ [][Next]_vars
=============================================================================
