---------------------------- MODULE MCWorldState ----------------------------
(* Two humans and a bot whose data need up to five segments.               *)
EXTENDS WorldState

CONSTANTS h1, h2, b1

MCOrder == <<h1, h2>>
MCBotOrder == <<b1>>
=============================================================================
