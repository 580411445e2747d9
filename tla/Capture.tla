------------------------------ MODULE Capture ------------------------------
(***************************************************************************)
(* Capture mode (captureservmode of fpsgame/capture.h): the hooks that the *)
(* server calls through smode, over the bases and the counts of players    *)
(* inside them.  Modes composes them with the events of a player's life.   *)
(*                                                                         *)
(* A position is the set of the bases it is inside of.  Ammunition,        *)
(* regeneration and team scores, which nothing else depends on, are left   *)
(* out: a base is what enter, leave and occupy read and write.             *)
(***************************************************************************)
EXTENDS Integers, FiniteSets

CONSTANTS
  Cns,                  \* clients, humans and bots
  Teams,
  NoTeam,               \* the empty team name
  Bases,
  OCCUPYENEMYLIMIT,     \* units to make an owned base neutral
  OCCUPYNEUTRALLIMIT,   \* units to take a neutral base
  MaxSeconds            \* bound: full seconds between two updates

VARIABLES
  client,       \* [Cns -> the player, see Modes]
  over,         \* gamemillis >= gamelimit
  notgotbases,
  bases,
  drift         \* history: a path that the counts do not follow was taken

vars == <<bases, drift>>

NewBase ==
  [owner |-> NoTeam, enemy |-> NoTeam, owners |-> 0, enemies |-> 0, converted |-> 0]

Inside(i, t) == {c \in Cns : client[c].life = "alive" /\ client[c].team = t /\ i \in client[c].at}
Counted(i, t) == {c \in Inside(i, t) : ~client[c].clip}

(* The operations of a base.                                               *)
noenemy(b) == [b EXCEPT !.enemy = NoTeam, !.enemies = 0, !.converted = 0]

\* n players of team t come to a base where no enemy is counted.
Attack(b, t, n) ==
  [b EXCEPT !.enemy = t, !.enemies = n, !.converted = IF b.enemy = t THEN @ ELSE 0]

enter(b, t) ==
  CASE b.owner = t                     -> [b EXCEPT !.owners = @ + 1]
    [] b.owner # t /\ b.enemies = 0    -> Attack(b, t, 1)
    [] b.owner # t /\ b.enemies > 0    -> IF b.enemy = t THEN [b EXCEPT !.enemies = @ + 1] ELSE b

leave(b, t) ==
  IF b.owner = t /\ b.owners > 0 THEN [b EXCEPT !.owners = @ - 1]
  ELSE IF b.enemy = t /\ b.enemies > 0 THEN [b EXCEPT !.enemies = @ - 1]
  ELSE b

steal(b, t) == b.enemies = 0 /\ b.owner # t

\* Mutated form of Units: only owners inside wear an attack off.
UnitsOwners(b, seconds) ==
  IF b.enemies > 0 THEN 1 + b.enemies * seconds ELSE -b.owners * seconds

Units(b, seconds) ==
  IF b.enemies > 0 THEN 1 + b.enemies * seconds ELSE -1 - (1 + b.owners) * seconds

Limit(b) == IF b.owner # NoTeam THEN OCCUPYENEMYLIMIT ELSE OCCUPYNEUTRALLIMIT

\* Mutated form of occupy: the enemy stays on record when it becomes the owner.
occupyKeepsEnemy(b, units) ==
  LET converted == b.converted + units
  IN  IF units < 0
        THEN IF converted <= 0 THEN noenemy(b) ELSE [b EXCEPT !.converted = converted]
      ELSE IF converted < Limit(b) THEN [b EXCEPT !.converted = converted]
      ELSE IF b.owner # NoTeam THEN [b EXCEPT !.owner = NoTeam, !.converted = 0]
      ELSE [b EXCEPT !.owner = b.enemy, !.owners = b.enemies, !.converted = 0]

occupy(b, units) ==
  LET converted == b.converted + units
  IN  IF units < 0
        THEN IF converted <= 0 THEN noenemy(b) ELSE [b EXCEPT !.converted = converted]
      ELSE IF converted < Limit(b) THEN [b EXCEPT !.converted = converted]
      ELSE IF b.owner # NoTeam THEN [b EXCEPT !.owner = NoTeam, !.converted = 0]
      ELSE noenemy([b EXCEPT !.owner = b.enemy, !.owners = b.enemies])

(* The hooks.                                                              *)
\* stealbase counts everybody of the team inside, those in a clip too.
stealbase(i, t) == Attack(bases[i], t, Cardinality(Inside(i, t)))

\* movebases, for a player who is out of the game (clip) or at a position
\* before and after.
movebases(t, old, oldclip, new, newclip) ==
  [i \in Bases |->
     LET leaves == ~oldclip /\ i \in old
         enters == ~newclip /\ i \in new
     IN  CASE over                 -> bases[i]
           [] ~over /\ leaves /\ ~enters -> leave(bases[i], t)
           [] ~over /\ enters /\ ~leaves -> enter(bases[i], t)
           [] ~over /\ leaves /\ enters  ->
                IF steal(bases[i], t) THEN stealbase(i, t) ELSE bases[i]
           [] ~over /\ ~leaves /\ ~enters -> bases[i]]

leavebases(c) == movebases(client[c].team, client[c].at, FALSE, {}, TRUE)
enterbases(c, t) == movebases(t, {}, TRUE, client[c].at, FALSE)

moved(c, at, clip) ==
  /\ bases' = IF notgotbases THEN bases
              ELSE movebases(client[c].team, client[c].at, client[c].clip, at, clip)
  /\ drift' = (drift \/ \E i \in client[c].at \cap at :
                          /\ ~over /\ ~notgotbases /\ ~clip /\ ~client[c].clip
                          /\ steal(bases[i], client[c].team)
                          /\ Inside(i, client[c].team) # Counted(i, client[c].team))

spawned(c) ==
  /\ bases' = IF notgotbases \/ client[c].clip THEN bases ELSE enterbases(c, client[c].team)
  /\ UNCHANGED drift

died(c) ==
  /\ bases' = IF notgotbases \/ client[c].clip THEN bases ELSE leavebases(c)
  /\ UNCHANGED drift

leavegame(c) ==
  /\ bases' = IF notgotbases \/ client[c].life # "alive" \/ client[c].clip
              THEN bases ELSE leavebases(c)
  /\ UNCHANGED drift

changeteam(c, t) ==
  LET left == leavebases(c)
  IN  /\ bases' = IF notgotbases \/ client[c].clip \/ over THEN bases
                  ELSE [i \in Bases |-> IF i \in client[c].at THEN enter(left[i], t) ELSE left[i]]
      /\ UNCHANGED drift

\* The base entities of the map arrive, from the server's own file or from a
\* client; those who are inside enter, in the order of the client list: one of
\* the teams inside a base is counted.
parsebases ==
  /\ notgotbases
  /\ \E c \in Cns : client[c].life # "off"
  /\ notgotbases' = FALSE
  /\ \E first \in [Bases -> Teams] :
       /\ \A i \in Bases, t \in Teams : Counted(i, t) # {} => Counted(i, first[i]) # {}
       /\ bases' = [i \in Bases |->
                      IF over \/ Counted(i, first[i]) = {} THEN NewBase
                      ELSE Attack(NewBase, first[i], Cardinality(Counted(i, first[i])))]
  /\ UNCHANGED drift

Dominated == \E t \in Teams : \A i \in Bases : bases[i].owner = t

\* update, with endcheck before: a match one team has all bases of is ended,
\* unless a script prolongs it (checkintermission).
update(seconds) ==
  /\ ~over
  /\ over' \in IF Dominated THEN BOOLEAN ELSE {FALSE}
  /\ bases' = [i \in Bases |->
                 LET b == bases[i]
                 IN  IF seconds > 0 /\ b.enemy # NoTeam /\ (b.owners = 0 \/ b.enemies = 0)
                     THEN occupy(b, Units(b, seconds)) ELSE b]
  /\ UNCHANGED <<notgotbases, drift>>

reset ==
  /\ bases' = [i \in Bases |-> NewBase]
  /\ drift' = FALSE

\* A script changes life or team of a player in the game and no hook is called.
Unhooked(c) ==
  /\ bases' = bases
  /\ drift' = (drift \/ \E i \in Bases, t \in Teams : c \in Counted(i, t))

\* reinitai: a living bot that is handed over loses its position, and it will
\* enter its bases again, with the next position and with N_SPAWN.
reassigned(c) ==
  /\ bases' = bases
  /\ drift' = (drift \/ client[c].life = "alive")
=============================================================================
