----------------------------- MODULE CtfHistory -----------------------------
(***************************************************************************)
(* Ctf with a history of each flag, for the rules of the mode that speak   *)
(* of earlier steps: who has taken the flag in a row, and which player     *)
(* team-killed its last carrier.  The history never restricts a step.      *)
(***************************************************************************)
EXTENDS Ctf

VARIABLE hist   \* [FlagIds -> what happened since the flag was last at home]

hvars == <<vars, hist>>

NoHistory == [taker |-> NoOne, takes |-> 0, killer |-> NoOne, killerLives |-> FALSE]

HInit == Init /\ hist = [i \in FlagIds |-> NoHistory]

Took(i) == flags[i].owner = NoOne /\ flags'[i].owner # NoOne
AtHome(f) == f.owner = NoOne /\ f.dropage = NotSet

\* A client ends its life in the step when it stops being alive by other
\* means than player_slay, or leaves the game.
EndsLife(c) ==
  \/ client[c].life = "alive" /\ client'[c].life = "dead" /\ ~player_slay(c)
  \/ client'[c].life \in {"off", "spectator"} /\ client'[c].life # client[c].life

\* The history of flag i after a step other than a lethal hit.
Later(i) ==
  LET h == hist[i]
      c == flags'[i].owner
  IN  IF i \notin DOMAIN flags' \/ i \notin DOMAIN flags THEN NoHistory
      ELSE IF AtHome(flags'[i]) THEN NoHistory
      ELSE IF Took(i) THEN
        [h EXCEPT !.taker = c, !.takes = IF c = h.taker THEN @ + 1 ELSE 1,
                  !.killer = IF @ = c THEN c ELSE NoOne]
      ELSE [h EXCEPT
              !.taker = IF @ # NoOne /\ EndsLife(@) THEN NoOne ELSE @,
              !.takes = IF h.taker # NoOne /\ EndsLife(h.taker) THEN 0 ELSE @,
              !.killer = IF @ # NoOne /\ client'[@].life = "off" THEN NoOne ELSE @,
              !.killerLives = @ /\ ~(h.killer # NoOne /\ EndsLife(h.killer))]

\* A lethal hit on c by actor: the flags c carried were dropped by actor if
\* he is on the same team.
AfterKill(c, actor, i) ==
  IF i \in DOMAIN flags /\ flags[i].owner = c /\ TeamKill(c, actor)
       /\ ~AtHome(flags'[i])
  THEN [taker |-> NoOne, takes |-> 0, killer |-> actor, killerLives |-> TRUE]
  ELSE Later(i)

HNext ==
  \/ \E c, actor \in Clients, inside \in BOOLEAN :
       /\ dodamage(c, actor, inside)
       /\ hist' = [i \in FlagIds |-> AfterKill(c, actor, i)]
  \/ /\ MapStep \/ PlayStep \/ Tick
     /\ hist' = [i \in FlagIds |-> IF MapStep THEN NoHistory ELSE Later(i)]

HSpec == HInit /\ [][HNext]_hvars

HFairSpec == HSpec /\ Fairness

-----------------------------------------------------------------------------
\* Dropping a flag and picking it up again does not keep it from the others
\* for ever: in one life a player takes a flag from the field at most once
\* after he dropped it himself, until somebody else takes it or it goes home
\* (dropcount in ownflag, dropflag and takeflag).
RetakeAtMostOnce == \A i \in FlagIds : hist[i].takes <= 2

\* A player who killed the carrier of his own team does not get that flag in
\* the same life, unless somebody else takes it or it goes home in between.
TeamkillerBarred ==
  \A i \in DOMAIN flags :
    hist[i].killer # NoOne /\ hist[i].killerLives => flags[i].owner # hist[i].killer
=============================================================================
