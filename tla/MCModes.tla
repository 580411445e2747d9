------------------------------ MODULE MCModes ------------------------------
(* Capture and collect with a human, a bot, a base and small limits.  There  *)
(* is clip material in the base, where the bot may come.  Either is in a     *)
(* team collect has a base for or in one it has none for.                    *)
EXTENDS Modes

CONSTANTS h1, b1, x, good, evil, blue

MCPlaces == {{}, {x}}
MCWalks ==
  {<<h1, {}, FALSE>>, <<h1, {x}, FALSE>>,
   <<b1, {}, FALSE>>, <<b1, {x}, FALSE>>, <<b1, {x}, TRUE>>}
MCJoins == [c \in {h1, b1} |-> {good, blue}]
=============================================================================
