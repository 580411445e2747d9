------------------------------ MODULE Collect ------------------------------
(***************************************************************************)
(* Collect mode (collectservmode of fpsgame/collect.h): the skulls         *)
(* ("tokens") players drop when they die, what they hold of them and where *)
(* they bring them.  Modes composes the hooks with the events of a         *)
(* player's life.                                                          *)
(*                                                                         *)
(* A team has one base.  Tokens of the same team, sign and dropper are     *)
(* alike, so the list is a bag, and where the code walks it to expire the  *)
(* tokens beyond a limit, which of the alike in that respect go is a       *)
(* choice.  So is the moment a token expires, and whether STEALTOKENTIME    *)
(* has passed since a base was last visited: droptime and laststeal are    *)
(* left out.                                                               *)
(***************************************************************************)
EXTENDS Integers, FiniteSets

CONSTANTS
  Cns, Teams,
  BaseTeams,            \* "good" and "evil", the teams with a base
  NoBase,               \* any other team
  Unowned,              \* the dropper of a token whose dropper has left
  TOKENLIMIT, UNOWNEDTOKENLIMIT, SCORELIMIT,
  MaxScore,             \* bound on scores: deposits go on after the match
  MaxTokens             \* bound on the tokens of the whole map

VARIABLES
  client, over, notgotbases,
  tokens,       \* [Kinds -> how many]
  held,         \* [Cns -> state.tokens]
  scores        \* [BaseTeams -> score]

vars == <<tokens, held, scores>>

\* Any team but the two is number 0.
collectteambase(t) == IF t \in BaseTeams THEN t ELSE NoBase
Base(c) == collectteambase(client[c].team)

\* A base is the dropper of the tokens stolen from it.
Droppers == Cns \cup BaseTeams \cup {Unowned}
\* foe: the negative number, a skull of an enemy of that team; -0 is 0.
Kinds ==
  [team : BaseTeams, foe : BOOLEAN, dropper : Droppers]
    \cup [team : {NoBase}, foe : {FALSE}, dropper : Droppers]

Of(d) == {k \in Kinds : k.dropper = d}
Friendly(k, t) == k.team = t /\ ~k.foe
\* The tokens of the kinds ks one by one, and how many they are.
Pieces(bag, ks) == UNION {{k} \X (1..bag[k]) : k \in ks}
Number(bag, ks) == Cardinality(Pieces(bag, ks))
Bounded(bag) == Number(bag, Kinds) <= MaxTokens

\* The ways to expire all but n of the tokens of the kinds ks.
Trims(bag, ks, n) ==
  IF Number(bag, ks) <= n THEN {[k \in ks |-> bag[k]]}
  ELSE {left \in [ks -> 0..n] :
          /\ \A k \in ks : left[k] <= bag[k]
          /\ Number(left, ks) = n}

Override(bag, left) == [k \in Kinds |-> IF k \in DOMAIN left THEN left[k] ELSE bag[k]]

\* The bags that remain when of the tokens of dropper d at most friendly of
\* team t and at most enemy others are kept.
Limited(bag, d, t, friendly, enemy) ==
  {Override(Override(bag, f), e) :
     f \in Trims(bag, {k \in Of(d) : Friendly(k, t)}, friendly),
     e \in Trims(bag, {k \in Of(d) : ~Friendly(k, t)}, enemy)}

Kind(t, foe, d) == [team |-> t, foe |-> foe /\ t # NoBase, dropper |-> d]

Dropped(bag, c, n) ==
  LET own == [bag EXCEPT ![Kind(Base(c), FALSE, c)] = @ + 1]
  IN  [own EXCEPT ![Kind(Base(c), TRUE, c)] = @ + n]

\* Mutated form of droptokens: the token about to be dropped is not allowed for.
droptokensLate(c, penalty) ==
  LET n == IF penalty THEN 0 ELSE held[c]
  IN  IF notgotbases THEN UNCHANGED vars
      ELSE /\ \E left \in Limited(tokens, c, Base(c), TOKENLIMIT, TOKENLIMIT - n) :
                tokens' = Dropped(left, c, n)
           /\ Bounded(tokens')
           /\ held' = [held EXCEPT ![c] = 0]
           /\ UNCHANGED scores

droptokens(c, penalty) ==
  LET n == IF penalty THEN 0 ELSE held[c]
  IN  IF notgotbases THEN UNCHANGED vars
      ELSE /\ \E left \in Limited(tokens, c, Base(c), TOKENLIMIT - 1, TOKENLIMIT - n) :
                tokens' = Dropped(left, c, n)
           /\ Bounded(tokens')
           /\ held' = [held EXCEPT ![c] = 0]
           /\ UNCHANGED scores

died(c, actors) ==
  droptokens(c, \A a \in actors : client[a].team = client[c].team)

\* setspectator
leavegame(c) ==
  /\ held' = [held EXCEPT ![c] = 0]
  /\ UNCHANGED <<tokens, scores>>

\* The tokens of c become unowned.
Disowned(c) ==
  [k \in Kinds |->
     CASE k.dropper = c       -> 0
       [] k.dropper = Unowned -> tokens[k] + tokens[[k EXCEPT !.dropper = c]]
       [] OTHER               -> tokens[k]]

\* leavegame with disconnecting
leaveserver(c) ==
  /\ held' = [held EXCEPT ![c] = 0]
  /\ tokens' \in Limited(Disowned(c), Unowned, Base(c), UNOWNEDTOKENLIMIT, UNOWNEDTOKENLIMIT)
  /\ UNCHANGED scores

canchangeteam(t) == collectteambase(t) # NoBase

\* What a player of another team brings counts for nobody.
AddScore(t, n) == IF t = NoBase THEN scores ELSE [scores EXCEPT ![t] = @ + n]

\* At the limit startintermission, which a script may answer by going on.
deposittokens(c, base) ==
  /\ client[c].life = "alive" /\ ~notgotbases
  /\ base # Base(c)
  /\ \/ /\ held[c] > 0
        /\ scores' = AddScore(Base(c), held[c])
        /\ \A t \in BaseTeams : scores'[t] <= MaxScore
        /\ held' = [held EXCEPT ![c] = 0]
        /\ over' \in IF Base(c) # NoBase /\ scores'[Base(c)] >= SCORELIMIT
                     THEN {over, TRUE} ELSE {over}
        /\ UNCHANGED tokens
     \/ /\ held[c] = 0
        /\ scores[base] > 0
        /\ Number(tokens, Of(base)) < TOKENLIMIT
        /\ scores' = AddScore(base, -1)
        /\ tokens' = [tokens EXCEPT ![Kind(Base(c), FALSE, base)] = @ + 1]
        /\ Bounded(tokens')
        /\ UNCHANGED <<held, over>>
  /\ UNCHANGED <<client, notgotbases>>

\* The token stays on the list: clients who are told remove it from theirs.
taketoken(c, k) ==
  /\ client[c].life = "alive" /\ ~notgotbases
  /\ tokens[k] > 0
  /\ IF k.foe THEN k.team = Base(c) ELSE k.team \notin {Base(c), NoBase}
  /\ held[c] < TOKENLIMIT
  /\ held' = [held EXCEPT ![c] = @ + 1]
  /\ UNCHANGED <<client, over, notgotbases, tokens, scores>>

\* update: a token is EXPIRETOKENTIME old.
update(k) ==
  /\ ~over /\ ~notgotbases
  /\ tokens[k] > 0
  /\ tokens' = [tokens EXCEPT ![k] = @ - 1]
  /\ UNCHANGED <<client, over, notgotbases, held, scores>>

parsebases ==
  /\ notgotbases
  /\ \E c \in Cns : client[c].life # "off"
  /\ notgotbases' = FALSE
  /\ UNCHANGED <<client, over, tokens, held, scores>>

reset ==
  /\ tokens' = [k \in Kinds |-> 0]
  /\ held' = [c \in Cns |-> 0]
  /\ scores' = [t \in BaseTeams |-> 0]
=============================================================================
