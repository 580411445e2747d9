---------------------------- MODULE MatchProofs ----------------------------
(***************************************************************************)
(* Proofs about Match, for any clients, games, times and delays: the       *)
(* types, VotesCarried, and that Match implements MatchCycle.              *)
(*                                                                         *)
(* VotesCarried needs Agree: the vote a client object holds is the one     *)
(* cast in this match, which mapchange, connected and clientdisconnect     *)
(* keep true.  The refinement needs that the intermissions announced are   *)
(* told by interm (part of Sound), and that an intermission which begins   *)
(* in a tick has not run out in it.                                        *)
(*                                                                         *)
(* Last, an intermission only comes nearer to its end.                     *)
(***************************************************************************)
EXTENDS Match, FiniteSetTheorems, WellFoundedInduction, TLAPS

Clocks ==
  [timeleft: 0..MatchTime, begun: BOOLEAN, interm: {"none", "on", "done"},
   waited: 0..MaxWait, announced: Nat]
Clients == [on: BOOLEAN, spectator: BOOLEAN, privilege: BOOLEAN, vote: Games \cup {NoGame}]

Sound(k) == k \in Clocks /\ k.announced = IF k.interm = "none" THEN 0 ELSE 1

Agree == \A c \in Cns : client[c].vote = cast[c] /\ (~client[c].on => cast[c] = NoGame)

IInv == TypeOK /\ Sound(clock) /\ Agree /\ VotesCarried

-----------------------------------------------------------------------------
(***************************************************************************)
(* The clock                                                               *)
(***************************************************************************)
\* The intermission stays as it is, or it begins.
Follows(k, l) ==
  \/ l.interm = k.interm /\ l.waited = k.waited
  \/ k.interm = "none" /\ l.interm = "on" /\ l.waited = 0

LEMMA MaxWaitNat == MaxWait \in Nat
BY MatchAssumption DEF MaxWait

LEMMA NewClockSound ==
  ASSUME NEW t \in 0..MatchTime
  PROVE  Sound(NewClock(t)) /\ NewClock(t).interm = "none" /\ NewClock(t).announced = 0
BY MaxWaitNat DEF Sound, Clocks, NewClock

LEMMA SetTimeSound ==
  ASSUME NEW k, Sound(k), NEW t \in 0..MatchTime
  PROVE  LET l == [k EXCEPT !.timeleft = t]
         IN  Sound(l) /\ l.interm = k.interm /\ l.waited = k.waited
BY DEF Sound, Clocks

LEMMA CheckSound ==
  ASSUME NEW k, Sound(k), NEW prolong \in 0..MatchTime
  PROVE  Sound(checkintermission(k, prolong)) /\ Follows(k, checkintermission(k, prolong))
<1> DEFINE l == checkintermission(k, prolong)
<1>1. CASE k.timeleft > 0 \/ k.interm # "none"
  <2>1. l = k
    BY <1>1 DEF checkintermission
  <2> QED BY <2>1 DEF Follows
<1>2. CASE ~(k.timeleft > 0 \/ k.interm # "none") /\ prolong > 0
  <2>1. l = [k EXCEPT !.timeleft = prolong]
    BY <1>2 DEF checkintermission
  <2> QED BY <2>1, SetTimeSound DEF Follows
<1>3. CASE ~(k.timeleft > 0 \/ k.interm # "none") /\ ~(prolong > 0)
  <2>1. l = [k EXCEPT !.interm = "on", !.waited = 0, !.announced = k.announced + 1]
    BY <1>3 DEF checkintermission
  <2>2. k.interm = "none" /\ k.announced = 0
    BY <1>3 DEF Sound
  <2>3. k \in Clocks
    BY DEF Sound
  <2> HIDE DEF l
  <2>4. l = [k EXCEPT !.interm = "on", !.waited = 0, !.announced = 1]
    BY <2>1, <2>2
  <2>5. l \in Clocks
    <3>1. 0 \in 0..MaxWait /\ 1 \in Nat
      BY MaxWaitNat
    <3> QED BY <2>3, <2>4, <3>1 DEF Clocks
  <2>6. l.interm = "on" /\ l.waited = 0 /\ l.announced = 1
    BY <2>3, <2>4 DEF Clocks
  <2> QED BY <2>2, <2>5, <2>6 DEF Sound, Follows, l
<1> QED BY <1>1, <1>2, <1>3

LEMMA StartSound ==
  ASSUME NEW k, Sound(k), NEW prolong \in 0..MatchTime
  PROVE  Sound(startintermission(k, prolong)) /\ Follows(k, startintermission(k, prolong))
<1> DEFINE l == [k EXCEPT !.timeleft = 0]
<1>1. 0 \in 0..MatchTime
  BY MatchAssumption
<1>2. Sound(l) /\ l.interm = k.interm /\ l.waited = k.waited
  BY <1>1, SetTimeSound
<1>3. startintermission(k, prolong) = checkintermission(l, prolong)
  BY DEF startintermission
<1> HIDE DEF l
<1> QED BY <1>2, <1>3, CheckSound DEF Follows

LEMMA AdvanceSound ==
  ASSUME NEW k, Sound(k), NEW curtime \in 0..1
  PROVE  LET l == Advance(k, curtime)
         IN  Sound(l) /\ l.interm = k.interm /\ (k.interm # "on" => l.waited = k.waited)
<1> DEFINE l == Advance(k, curtime)
           t == IF k.timeleft > curtime THEN k.timeleft - curtime ELSE 0
           b == k.begun \/ curtime > 0
           w == IF k.interm = "on" /\ k.waited + curtime <= MaxWait THEN k.waited + curtime ELSE k.waited
<1>1. l = [k EXCEPT !.timeleft = t, !.begun = b, !.waited = w]
  BY DEF Advance
<1>2. /\ k.timeleft \in 0..MatchTime /\ k.waited \in 0..MaxWait
      /\ k.interm \in {"none", "on", "done"} /\ k.announced \in Nat
  BY DEF Sound, Clocks
<1>3. t \in 0..MatchTime
  BY <1>2, MatchAssumption
<1>4. w \in 0..MaxWait /\ (k.interm # "on" => w = k.waited)
  BY <1>2, MaxWaitNat
<1>5. b \in BOOLEAN
  OBVIOUS
<1> HIDE DEF t, w, b
<1>6. l \in Clocks /\ l.interm = k.interm /\ l.waited = w /\ l.announced = k.announced
  BY <1>1, <1>3, <1>4, <1>5 DEF Sound, Clocks
<1> HIDE DEF l
<1> QED BY <1>4, <1>6 DEF Sound, l

\* What a tick makes of the clock before it looks whether an intermission has
\* run out: one that begins has not.
LEMMA SteppedSound ==
  ASSUME IInv, NEW curtime \in 0..1, NEW ends \in BOOLEAN, NEW prolong \in 0..MatchTime
  PROVE  LET k == Stepped(curtime, ends, prolong)
         IN  /\ Sound(k)
             /\ k.interm = clock.interm \/ (clock.interm = "none" /\ k.interm = "on" /\ k.waited = 0)
<1> DEFINE moved == Advance(clock, curtime)
           inplay == game \notin Timed \/ moved.timeleft > 0
           updated == IF ends /\ inplay THEN startintermission(moved, prolong) ELSE moved
           k == Stepped(curtime, ends, prolong)
<1>1. Sound(moved) /\ moved.interm = clock.interm
  BY AdvanceSound DEF IInv
<1>2. k = IF HasClock /\ clock.begun THEN checkintermission(updated, prolong) ELSE updated
  BY DEF Stepped
<1> HIDE DEF moved, inplay
<1>3. Sound(updated) /\ (updated = moved \/ Follows(moved, updated))
  BY <1>1, StartSound
<1> HIDE DEF updated
<1>4. Sound(k) /\ (k = updated \/ Follows(updated, k))
  BY <1>2, <1>3, CheckSound
<1> HIDE DEF k
<1>5. k.interm = clock.interm \/ (clock.interm = "none" /\ k.interm = "on" /\ k.waited = 0)
  BY <1>1, <1>3, <1>4 DEF Follows
<1> QED BY <1>4, <1>5 DEF k

-----------------------------------------------------------------------------
(***************************************************************************)
(* Votes                                                                   *)
(***************************************************************************)
LEMMA CountNat ==
  ASSUME NEW S \in SUBSET Cns
  PROVE  /\ IsFiniteSet(S) /\ Cardinality(S) \in Nat
         /\ Cardinality(S) <= Cardinality(Cns) /\ Cardinality(Cns) \in Nat
<1>1. IsFiniteSet(Cns)
  BY MatchAssumption
<1> QED BY <1>1, FS_Subset, FS_CardinalityType

\* The most ballots are those of some game: they are bounded by the clients.
LEMMA SomeBest ==
  ASSUME NEW f, \A h \in Games : f[h] \in 0..Cardinality(Cns), NEW g0 \in Games
  PROVE  \E g \in Games : \A h \in Games : f[h] <= f[g]
<1> DEFINE N == Cardinality(Cns)
           T == {N - f[h] : h \in Games}
           R == OpToRel(<, Nat)
<1>1. N \in Nat
  BY CountNat
<1>2. T \subseteq Nat /\ T # {}
  BY <1>1
<1>3. \E x \in T : \A y \in T : ~(<<y, x>> \in R)
  BY <1>2, NatLessThanWellFounded, WFMin
<1>4. PICK x \in T : \A y \in T : ~(<<y, x>> \in R)
  BY <1>3
<1>5. \A y \in T : ~(y < x)
  BY <1>2, <1>4 DEF OpToRel
<1>6. PICK g \in Games : x = N - f[g]
  BY <1>4
<1>7. \A h \in Games : f[h] <= f[g]
  <2> SUFFICES ASSUME NEW h \in Games PROVE f[h] <= f[g]
    OBVIOUS
  <2>1. ~(N - f[h] < N - f[g])
    BY <1>5, <1>6
  <2> QED BY <2>1, <1>1
<1> QED BY <1>7

\* Clients as they are, or with one vote changed.
SameVoters(cl, votes) == \A c \in Cns : (Voter(cl[c]) <=> Voter(client[c])) /\ cl[c].vote = votes[c]

LEMMA CountIsBallots ==
  ASSUME NEW cl, NEW votes, SameVoters(cl, votes), NEW g
  PROVE  Count(cl, g) = Ballots(votes, g)
<1>1. {c \in Voters(cl) : cl[c].vote = g} = {c \in Cns : Voter(client[c]) /\ votes[c] = g}
  BY DEF Voters, SameVoters
<1> QED BY <1>1 DEF Count, Ballots

LEMMA BallotsNat ==
  ASSUME NEW votes, NEW g
  PROVE  Ballots(votes, g) \in 0..Cardinality(Cns)
<1>1. {c \in Cns : Voter(client[c]) /\ votes[c] = g} \in SUBSET Cns
  OBVIOUS
<1> QED BY <1>1, CountNat DEF Ballots

Most(votes) ==
  CHOOSE n \in {Ballots(votes, h) : h \in Games} : \A h \in Games : Ballots(votes, h) <= n

LEMMA MostIsMost ==
  ASSUME NEW votes, NEW g0 \in Games
  PROVE  /\ Most(votes) \in {Ballots(votes, h) : h \in Games}
         /\ \A h \in Games : Ballots(votes, h) <= Most(votes)
<1> DEFINE f == [h \in Games |-> Ballots(votes, h)]
<1>1. \A h \in Games : f[h] \in 0..Cardinality(Cns)
  BY BallotsNat
<1>2. \E g \in Games : \A h \in Games : f[h] <= f[g]
  BY <1>1, SomeBest
<1>3. \E n \in {Ballots(votes, h) : h \in Games} : \A h \in Games : Ballots(votes, h) <= n
  BY <1>2
<1> QED BY <1>3 DEF Most

LEMMA TallyOf ==
  ASSUME NEW votes, NEW g, NEW why
  PROVE  LET r == Tally(votes, g, why)
         IN  /\ r.why = why
             /\ why \in {"majority", "default"} => r.votes = Ballots(votes, g)
             /\ why \in {"default", "rotation"} => r.most = Most(votes)
             /\ why = "majority" => r.voters = Cardinality({c \in Cns : Voter(client[c])})
BY DEF Tally, Most

\* A game that a majority of checkvotes is for.
LEMMA MajorityCarries ==
  ASSUME NEW cl, NEW votes, SameVoters(cl, votes), NEW g \in Games, Majority(cl, g),
         carried' = Tally(votes, g, "majority")
  PROVE  VotesCarried'
<1> DEFINE V == {c \in Cns : Voter(client[c])}
<1>1. Voters(cl) = V
  BY DEF Voters, SameVoters
<1>2. Count(cl, g) = Ballots(votes, g)
  BY CountIsBallots
<1>3. carried'.why = "majority" /\ carried'.votes = Ballots(votes, g) /\ carried'.voters = Cardinality(V)
  BY TallyOf
<1>4. Cardinality(V) \in Nat /\ Ballots(votes, g) \in Nat
  BY CountNat, BallotsNat
<1>5. Ballots(votes, g) > Cardinality(V) \div 2
  BY <1>1, <1>2 DEF Majority
<1>6. 2 * Ballots(votes, g) > Cardinality(V)
  BY <1>4, <1>5
<1> QED BY <1>3, <1>6 DEF VotesCarried

\* The choice at the end of the intermission.
LEMMA DefaultCarries ==
  ASSUME SameVoters(client, cast), NEW g \in Best(client), NEW b \in Best(client),
         Count(client, b) > 1, carried' = Tally(cast, g, "default")
  PROVE  VotesCarried'
<1>1. g \in Games /\ b \in Games /\ \A h \in Games : Count(client, h) <= Count(client, g)
  BY DEF Best
<1>2. \A h \in Games : Count(client, h) = Ballots(cast, h) /\ Ballots(cast, h) \in Nat
  BY CountIsBallots, BallotsNat
<1>3. carried'.why = "default" /\ carried'.votes = Ballots(cast, g) /\ carried'.most = Most(cast)
  BY DEF Tally, Most
<1>4. Ballots(cast, g) > 1
  BY <1>1, <1>2
<1>5. Most(cast) = Ballots(cast, g)
  <2>1. PICK h \in Games : Most(cast) = Ballots(cast, h)
    BY <1>1, MostIsMost
  <2>2. Ballots(cast, g) <= Most(cast) /\ Ballots(cast, h) <= Ballots(cast, g)
    BY <1>1, <1>2, MostIsMost
  <2> QED BY <2>1, <2>2, <1>1, <1>2
<1> QED BY <1>3, <1>4, <1>5 DEF VotesCarried

LEMMA RotationCarries ==
  ASSUME SameVoters(client, cast), ~\E b \in Best(client) : Count(client, b) > 1,
         NEW g \in Games, carried' = Tally(cast, g, "rotation")
  PROVE  VotesCarried'
<1>2. \A h \in Games : Count(client, h) = Ballots(cast, h) /\ Ballots(cast, h) \in Nat
  BY CountIsBallots, BallotsNat
<1>3. carried'.why = "rotation" /\ carried'.most = Most(cast)
  BY DEF Tally, Most
<1>4. PICK b \in Games : Most(cast) = Ballots(cast, b)
  BY MostIsMost
<1>5. \A h \in Games : Ballots(cast, h) <= Ballots(cast, b)
  BY <1>4, MostIsMost
<1>6. Ballots(cast, b) <= 1
  <2> SUFFICES ASSUME ~(Ballots(cast, b) <= 1) PROVE FALSE
    OBVIOUS
  <2>1. Count(client, b) > 1 /\ Count(client, b) > 0
    BY <1>2
  <2>2. b \in Best(client)
    BY <2>1, <1>2, <1>5 DEF Best
  <2> QED BY <2>1, <2>2
<1> QED BY <1>3, <1>4, <1>6 DEF VotesCarried

-----------------------------------------------------------------------------
(***************************************************************************)
(* The actions: each keeps the invariant and is a step of MatchCycle.      *)
(***************************************************************************)
SamePhase == game' = game /\ clock'.interm = clock.interm /\ clock'.announced = clock.announced

\* What MatchCycle allows, in the variables of Match.
CycleStep ==
  \/ game' \in Games /\ clock'.interm = "none" /\ clock'.announced = 0 /\ paused' = FALSE
  \/ /\ clock.interm = "none" /\ clock.announced = 0
     /\ clock'.interm = "on" /\ clock'.announced = 1
     /\ UNCHANGED <<game, paused>>
  \/ /\ clock.interm = "on" /\ ~paused
     /\ clock'.interm = "done" /\ clock'.announced = clock.announced
     /\ UNCHANGED <<game, paused>>
  \/ SamePhase /\ paused' = ~paused
  \/ SamePhase /\ paused' = paused

Rest ==
  /\ shouldstep' \in BOOLEAN
  /\ spectator_delay' \in 0..MaxDelay /\ delayed' \in 0..MaxDelayed

LEMMA TypeFacts ==
  ASSUME IInv
  PROVE  /\ game \in Games /\ clock \in Clocks /\ client \in [Cns -> Clients]
         /\ paused \in BOOLEAN /\ shouldstep \in BOOLEAN
         /\ spectator_delay \in 0..MaxDelay /\ delayed \in 0..MaxDelayed
         /\ cast \in [Cns -> Games \cup {NoGame}]
         /\ Sound(clock) /\ SameVoters(client, cast)
BY DEF IInv, TypeOK, Clocks, Clients, Agree, SameVoters

LEMMA SameRest == ASSUME IInv, UNCHANGED <<shouldstep, spectator_delay, delayed>> PROVE Rest
BY TypeFacts DEF Rest

\* changemap begins a match; the votes are gone.
LEMMA Begins ==
  ASSUME NEW cl \in [Cns -> Clients], NEW votes, NEW g \in Games,
         NEW t \in 0..MatchTime, NEW why, changemap(cl, votes, g, t, why), VotesCarried', Rest
  PROVE  IInv' /\ CycleStep
<1>1. /\ game' = g /\ clock' = NewClock(t) /\ paused' = FALSE
      /\ client' = [c \in Cns |-> [cl[c] EXCEPT !.vote = NoGame]]
      /\ cast' = [c \in Cns |-> NoGame]
  BY DEF changemap, mapchange
<1>2. Sound(clock') /\ clock'.interm = "none" /\ clock'.announced = 0
  BY <1>1, NewClockSound
<1>3. client' \in [Cns -> Clients] /\ \A c \in Cns : client'[c].vote = NoGame
  <2>1. \A c \in Cns : /\ [cl[c] EXCEPT !.vote = NoGame] \in Clients
                       /\ [cl[c] EXCEPT !.vote = NoGame].vote = NoGame
    BY DEF Clients
  <2> QED BY <2>1, <1>1
<1>4. TypeOK'
  BY <1>1, <1>2, <1>3 DEF TypeOK, Rest, Sound, Clocks, Clients
<1>5. Agree'
  BY <1>1, <1>3 DEF Agree
<1> QED BY <1>1, <1>2, <1>4, <1>5 DEF IInv, CycleStep

\* The match goes on: clients change, or the game is paused.
LEMMA GoesOn ==
  ASSUME IInv, client' \in [Cns -> Clients], cast' \in [Cns -> Games \cup {NoGame}],
         \A c \in Cns : client'[c].vote = cast'[c] /\ (~client'[c].on => cast'[c] = NoGame),
         Rest, UNCHANGED <<game, clock, carried>>,
         paused' \in BOOLEAN
  PROVE  IInv' /\ CycleStep
<1>1. TypeOK'
  BY TypeFacts DEF TypeOK, Rest, Clocks, Clients
<1>2. Agree' /\ Sound(clock)' /\ VotesCarried'
  BY DEF Agree, IInv, VotesCarried, Sound
<1>3. SamePhase
  BY DEF SamePhase
<1>4. paused' = paused \/ paused' = ~paused
  BY TypeFacts
<1> QED BY <1>1, <1>2, <1>3, <1>4 DEF IInv, CycleStep

\* The clock moves.
LEMMA Moves ==
  ASSUME IInv, Sound(clock'), Rest, UNCHANGED <<game, client, paused, cast, carried>>,
         \/ clock'.interm = clock.interm
         \/ clock.interm = "none" /\ clock'.interm = "on"
         \/ clock.interm = "on" /\ clock'.interm = "done" /\ ~paused
  PROVE  IInv' /\ CycleStep
<1>1. TypeOK'
  BY TypeFacts DEF TypeOK, Rest, Clocks, Clients, Sound
<1>2. Agree' /\ Sound(clock)' /\ VotesCarried'
  BY DEF Agree, IInv, VotesCarried, Sound
<1>3. /\ clock.announced = IF clock.interm = "none" THEN 0 ELSE 1
      /\ clock'.announced = IF clock'.interm = "none" THEN 0 ELSE 1
  BY DEF IInv, Sound
<1>4. CycleStep
  BY <1>3 DEF CycleStep, SamePhase
<1> QED BY <1>1, <1>2, <1>4 DEF IInv

LEMMA Votes ==
  ASSUME IInv, NEW c \in Cns, NEW g \in Games, vote(c, g)
  PROVE  IInv' /\ CycleStep
<1> DEFINE cl == [client EXCEPT ![c].vote = g]
           votes == [cast EXCEPT ![c] = g]
<1>t. Rest /\ MatchTime \in 0..MatchTime
  BY SameRest, MatchAssumption DEF vote
<1>1. /\ cl \in [Cns -> Clients] /\ votes \in [Cns -> Games \cup {NoGame}]
      /\ \A d \in Cns : cl[d].vote = votes[d]
      /\ SameVoters(cl, votes)
  <2>1. client \in [Cns -> Clients] /\ cast \in [Cns -> Games \cup {NoGame}] /\ SameVoters(client, cast)
    BY TypeFacts
  <2>2. cl \in [Cns -> Clients]
    BY <2>1 DEF Clients
  <2>3. votes \in [Cns -> Games \cup {NoGame}]
    BY <2>1
  <2>4. \A d \in Cns : /\ cl[d].on = client[d].on /\ cl[d].spectator = client[d].spectator
                       /\ cl[d].privilege = client[d].privilege
                       /\ cl[d].vote = IF d = c THEN g ELSE client[d].vote
    BY <2>1 DEF Clients
  <2>5. \A d \in Cns : cl[d].vote = votes[d]
    BY <2>1, <2>4 DEF SameVoters
  <2>6. \A d \in Cns : Voter(cl[d]) <=> Voter(client[d])
    BY <2>4 DEF Voter
  <2> QED BY <2>2, <2>3, <2>5, <2>6 DEF SameVoters
<1>2. \/ client' = cl /\ cast' = votes /\ UNCHANGED <<game, clock, paused, carried>>
      \/ changemap(cl, votes, g, MatchTime, "script")
      \/ \E b \in Best(cl) : Majority(cl, b) /\ changemap(cl, votes, b, MatchTime, "majority")
  BY DEF vote, checkvotes
<1>o. \A d \in Cns : ~cl[d].on => votes[d] = NoGame
  <2>1. client[c].on
    BY DEF vote, Voter
  <2> QED BY <2>1, TypeFacts DEF IInv, Agree, Clients
<1> HIDE DEF cl, votes
<1>3. CASE client' = cl /\ cast' = votes /\ UNCHANGED <<game, clock, paused, carried>>
  <2>1. \A d \in Cns : ~cl[d].on => votes[d] = NoGame
    BY <1>o
  <2> QED BY <1>t, <1>1, <1>3, <2>1, TypeFacts, GoesOn
<1>4. CASE changemap(cl, votes, g, MatchTime, "script")
  <2>1. carried'.why = "script"
    BY <1>4 DEF changemap, Tally
  <2>2. VotesCarried'
    BY <2>1 DEF VotesCarried
  <2> QED BY <1>t, <1>1, <1>4, <2>2, Begins
<1>5. ASSUME NEW b \in Best(cl), Majority(cl, b), changemap(cl, votes, b, MatchTime, "majority")
      PROVE  IInv' /\ CycleStep
  <2>1. b \in Games
    BY DEF Best
  <2>2. carried' = Tally(votes, b, "majority")
    BY <1>5 DEF changemap
  <2>3. VotesCarried'
    BY <1>1, <1>5, <2>1, <2>2, MajorityCarries
  <2> QED BY <1>t, <1>1, <1>5, <2>1, <2>3, Begins
<1> QED BY <1>2, <1>3, <1>4, <1>5

LEMMA ClientSteps ==
  ASSUME IInv, ClientStep
  PROVE  IInv' /\ CycleStep
<1>t. /\ client \in [Cns -> Clients] /\ cast \in [Cns -> Games \cup {NoGame}]
      /\ \A d \in Cns : client[d].vote = cast[d]
      /\ paused \in BOOLEAN
  BY TypeFacts DEF SameVoters
<1>1. PICK c \in Cns :
        \/ \E g \in Games : vote(c, g)
        \/ \E spectator \in BOOLEAN : connected(c, spectator)
        \/ clientdisconnect(c)
        \/ setspectator(c)
        \/ setmaster(c)
  BY DEF ClientStep
<1>2. CASE \E g \in Games : vote(c, g)
  BY <1>2, Votes
<1>3. ASSUME NEW spectator \in BOOLEAN, connected(c, spectator)
      PROVE  IInv' /\ CycleStep
  <2> DEFINE p == [Absent EXCEPT !.on = TRUE, !.spectator = spectator]
  <2>1. p \in Clients /\ p.vote = NoGame
    BY DEF Absent, Clients
  <2>2. /\ client' = [client EXCEPT ![c] = p] /\ ~client[c].on
        /\ UNCHANGED <<game, clock, paused, shouldstep, spectator_delay, delayed, cast, carried>>
    BY <1>3 DEF connected
  <2> HIDE DEF p
  <2>3. client' \in [Cns -> Clients]
    BY <2>1, <2>2, <1>t
  <2>4. \A d \in Cns : client'[d] = IF d = c THEN p ELSE client[d]
    BY <2>2, <1>t
  <2>5. \A d \in Cns : client'[d].vote = cast[d] /\ (~client'[d].on => cast[d] = NoGame)
    BY <2>1, <2>2, <2>4 DEF IInv, Agree
  <2> QED BY <2>2, <2>3, <2>5, <1>t, SameRest, GoesOn
<1>4. CASE clientdisconnect(c)
  <2> DEFINE cl == [client EXCEPT ![c] = Absent]
             votes == [cast EXCEPT ![c] = NoGame]
  <2>0. Rest /\ MatchTime \in 0..MatchTime
    BY <1>4, SameRest, MatchAssumption DEF clientdisconnect
  <2>1. Absent \in Clients /\ Absent.vote = NoGame
    BY DEF Absent, Clients
  <2> HIDE DEF Absent
  <2>2. /\ cl \in [Cns -> Clients] /\ votes \in [Cns -> Games \cup {NoGame}]
        /\ \A d \in Cns : cl[d].vote = votes[d] /\ (~cl[d].on => votes[d] = NoGame)
    BY <2>1, <1>t DEF IInv, Agree
  <2>3. \/ \E g \in Rotation : changemap(cl, votes, g, MatchTime, "script")
        \/ /\ client' = cl /\ cast' = votes
           /\ paused' = (paused /\ \E d \in Cns \ {c} : client[d].privilege)
           /\ UNCHANGED <<game, clock, carried>>
    BY <1>4 DEF clientdisconnect
  <2> HIDE DEF cl, votes
  <2>4. ASSUME NEW g \in Rotation, changemap(cl, votes, g, MatchTime, "script")
        PROVE  IInv' /\ CycleStep
    <3>1. carried'.why = "script"
      BY <2>4 DEF changemap, Tally
    <3>2. VotesCarried' /\ g \in Games
      BY <3>1, MatchAssumption DEF VotesCarried
    <3> QED BY <2>0, <2>2, <2>4, <3>2, Begins
  <2>5. CASE /\ client' = cl /\ cast' = votes
             /\ paused' = (paused /\ \E d \in Cns \ {c} : client[d].privilege)
             /\ UNCHANGED <<game, clock, carried>>
    <3>1. paused' \in BOOLEAN
      BY <2>5, <1>t
    <3> QED BY <2>0, <2>2, <2>5, <3>1, GoesOn
  <2> QED BY <2>3, <2>4, <2>5
<1>5. CASE setspectator(c)
  <2>1. /\ client' = [client EXCEPT ![c].spectator = ~client[c].spectator]
        /\ UNCHANGED <<game, clock, paused, shouldstep, spectator_delay, delayed, cast, carried>>
    BY <1>5 DEF setspectator
  <2>2. client' \in [Cns -> Clients]
    BY <2>1, <1>t DEF Clients
  <2>3. \A d \in Cns : client'[d].vote = client[d].vote /\ client'[d].on = client[d].on
    BY <2>1, <1>t DEF Clients
  <2>4. \A d \in Cns : client'[d].vote = cast[d] /\ (~client'[d].on => cast[d] = NoGame)
    BY <2>3 DEF IInv, Agree
  <2> QED BY <2>1, <2>2, <2>4, <1>t, SameRest, GoesOn
<1>6. CASE setmaster(c)
  <2>1. /\ client' = [client EXCEPT ![c].privilege = ~client[c].privilege]
        /\ paused' = (paused /\ \E d \in Cns : client'[d].privilege)
        /\ UNCHANGED <<game, clock, shouldstep, spectator_delay, delayed, cast, carried>>
    BY <1>6 DEF setmaster
  <2>2. client' \in [Cns -> Clients]
    BY <2>1, <1>t DEF Clients
  <2>3. \A d \in Cns : client'[d].vote = client[d].vote /\ client'[d].on = client[d].on
    BY <2>1, <1>t DEF Clients
  <2>4. \A d \in Cns : client'[d].vote = cast[d] /\ (~client'[d].on => cast[d] = NoGame)
    BY <2>3 DEF IInv, Agree
  <2>5. paused' \in BOOLEAN
    BY <2>1, <1>t
  <2> QED BY <2>1, <2>2, <2>4, <2>5, <1>t, SameRest, GoesOn
<1> QED BY <1>1, <1>2, <1>3, <1>4, <1>5, <1>6

LEMMA ScriptSteps ==
  ASSUME IInv, ScriptStep
  PROVE  IInv' /\ CycleStep
<1>t. /\ client \in [Cns -> Clients] /\ cast \in [Cns -> Games \cup {NoGame}]
      /\ \A d \in Cns : client[d].vote = cast[d] /\ (~client[d].on => cast[d] = NoGame)
      /\ paused \in BOOLEAN /\ Sound(clock)
  BY TypeFacts DEF IInv, Agree
<1>1. ASSUME NEW val \in BOOLEAN, pausegame(val) PROVE IInv' /\ CycleStep
  <2>1. /\ paused' = val
        /\ UNCHANGED <<game, clock, client, shouldstep, spectator_delay, delayed, cast, carried>>
    BY <1>1 DEF pausegame
  <2> QED BY <2>1, <1>t, SameRest, GoesOn
<1>2. ASSUME NEW t \in 0..MatchTime, EndMatch(t) PROVE IInv' /\ CycleStep
  <2>1. /\ clock' = startintermission(clock, t)
        /\ UNCHANGED <<game, client, paused, shouldstep, spectator_delay, delayed, cast, carried>>
    BY <1>2 DEF EndMatch
  <2>2. Sound(clock') /\ Follows(clock, clock')
    BY <2>1, <1>t, StartSound
  <2> QED BY <2>1, <2>2, SameRest, Moves DEF Follows
<1>3. ASSUME NEW t \in 0..MatchTime, changetime(t) PROVE IInv' /\ CycleStep
  <2>1. /\ clock' = [clock EXCEPT !.timeleft = t]
        /\ UNCHANGED <<game, client, paused, shouldstep, spectator_delay, delayed, cast, carried>>
    BY <1>3 DEF changetime
  <2>2. Sound(clock') /\ clock'.interm = clock.interm
    BY <2>1, <1>t, SetTimeSound
  <2> QED BY <2>1, <2>2, SameRest, Moves
<1>4. ASSUME NEW t \in 0..MatchTime, NEW g \in Games, ChangeMap(g, t) PROVE IInv' /\ CycleStep
  <2>1. /\ changemap(client, cast, g, t, "script")
        /\ UNCHANGED <<shouldstep, spectator_delay, delayed>>
    BY <1>4 DEF ChangeMap
  <2>2. carried'.why = "script"
    BY <2>1 DEF changemap, Tally
  <2>3. VotesCarried'
    BY <2>2 DEF VotesCarried
  <2> QED BY <2>1, <2>3, <1>t, SameRest, Begins
<1>5. ASSUME NEW d \in 0..MaxDelay, SetDelay(d) PROVE IInv' /\ CycleStep
  <2>1. /\ spectator_delay' = d
        /\ UNCHANGED <<game, clock, client, paused, shouldstep, delayed, cast, carried>>
    BY <1>5 DEF SetDelay
  <2>2. Rest
    BY <2>1, TypeFacts DEF Rest
  <2> QED BY <2>1, <2>2, <1>t, GoesOn
<1> QED BY <1>1, <1>2, <1>3, <1>4, <1>5 DEF ScriptStep

LEMMA Ticks ==
  ASSUME IInv, NEW curtime \in 0..1, NEW ends \in BOOLEAN, NEW t \in 0..MatchTime,
         Tick(curtime, ends, t)
  PROVE  IInv' /\ CycleStep
<1> DEFINE k == Stepped(curtime, ends, t)
           done == [k EXCEPT !.interm = "done", !.waited = 0]
<1>t. /\ client \in [Cns -> Clients] /\ cast \in [Cns -> Games \cup {NoGame}]
      /\ \A d \in Cns : client[d].vote = cast[d] /\ (~client[d].on => cast[d] = NoGame)
      /\ paused \in BOOLEAN /\ SameVoters(client, cast)
  BY TypeFacts DEF IInv, Agree
<1>k. /\ Sound(k)
      /\ k.interm = clock.interm \/ (clock.interm = "none" /\ k.interm = "on" /\ k.waited = 0)
  BY SteppedSound
<1>r. shouldstep' = Someone /\ delayed' = delayed
  BY DEF Tick
<1>s. shouldstep' \in BOOLEAN
  BY <1>r DEF Someone
<1>1. CASE UNCHANGED <<game, clock, client, paused, spectator_delay, cast, carried>>
  <2>1. Rest
    BY <1>1, <1>r, <1>s, TypeFacts DEF Rest
  <2> QED BY <1>1, <1>t, <2>1, GoesOn
<1>2. CASE clock' = k /\ UNCHANGED <<game, client, paused, spectator_delay, cast, carried>>
  <2>1. Rest
    BY <1>2, <1>r, <1>s, TypeFacts DEF Rest
  <2> QED BY <1>2, <1>k, <2>1, Moves
<1>3. CASE ~paused /\ Expired(k) /\ spectator_delay' = 0 /\ checkvotesForced(done)
  <2>1. Rest
    BY <1>3, <1>r, <1>s, TypeFacts, MatchAssumption DEF Rest
  <2>2. k.interm = "on" /\ k.waited > IntermTime + spectator_delay
    BY <1>3 DEF Expired
  <2>3. clock.interm = "on"
    <3>1. IntermTime + spectator_delay \in Nat
      BY TypeFacts, MatchAssumption
    <3> QED BY <3>1, <2>2, <1>k
  <2>4. Sound(done) /\ done.interm = "done"
    <3>1. k \in Clocks /\ k.announced = 1
      BY <1>k, <2>2 DEF Sound
    <3>2. 0 \in 0..MaxWait
      BY MaxWaitNat
    <3> HIDE DEF k
    <3>3. done \in Clocks
      BY <3>1, <3>2 DEF Clocks
    <3>4. done.interm = "done" /\ done.announced = 1
      BY <3>1 DEF Clocks
    <3> QED BY <3>3, <3>4 DEF Sound
  <2>m. MatchTime \in 0..MatchTime
    BY MatchAssumption
  <2> HIDE DEF done, k
  <2>5. CASE /\ \E b \in Best(client) : Count(client, b) > 1
             /\ \E g \in Best(client) : changemap(client, cast, g, MatchTime, "default")
    <3>1. PICK b \in Best(client) : Count(client, b) > 1
      BY <2>5
    <3>2. PICK g \in Best(client) : changemap(client, cast, g, MatchTime, "default")
      BY <2>5
    <3>3. carried' = Tally(cast, g, "default") /\ g \in Games
      BY <3>2 DEF changemap, Best
    <3>4. VotesCarried'
      BY <3>1, <3>2, <3>3, <1>t, DefaultCarries
    <3> QED BY <2>1, <2>m, <3>2, <3>3, <3>4, <1>t, Begins
  <2>6. CASE /\ ~\E b \in Best(client) : Count(client, b) > 1
             /\ \E g \in Rotation, s \in 0..MatchTime : changemap(client, cast, g, s, "rotation")
    <3>1. PICK g \in Rotation, s \in 0..MatchTime : changemap(client, cast, g, s, "rotation")
      BY <2>6
    <3>2. carried' = Tally(cast, g, "rotation") /\ g \in Games
      BY <3>1, MatchAssumption DEF changemap
    <3>3. VotesCarried'
      BY <2>6, <3>2, <1>t, RotationCarries
    <3> QED BY <2>1, <3>1, <3>2, <3>3, <1>t, Begins
  <2>7. CASE clock' = done /\ UNCHANGED <<game, client, paused, cast, carried>>
    BY <1>3, <2>1, <2>3, <2>4, <2>7, Moves
  <2> QED BY <1>3, <2>5, <2>6, <2>7 DEF checkvotesForced, rotatemap
<1> QED BY <1>1, <1>2, <1>3 DEF Tick

LEMMA Queue ==
  ASSUME IInv, write_delayed_broadcast \/ sendpackets
  PROVE  IInv' /\ CycleStep
<1>1. /\ delayed' \in 0..MaxDelayed
      /\ UNCHANGED <<game, clock, client, paused, shouldstep, spectator_delay, cast, carried>>
  <2>1. delayed \in 0..MaxDelayed /\ MaxDelayed \in Nat
    BY TypeFacts, MatchAssumption
  <2>2. CASE write_delayed_broadcast
    BY <2>1, <2>2 DEF write_delayed_broadcast
  <2>3. CASE sendpackets
    BY <2>1, <2>3 DEF sendpackets
  <2> QED BY <2>2, <2>3
<1>2. Rest
  BY <1>1, TypeFacts DEF Rest
<1>3. /\ client \in [Cns -> Clients] /\ cast \in [Cns -> Games \cup {NoGame}]
      /\ \A d \in Cns : client[d].vote = cast[d] /\ (~client[d].on => cast[d] = NoGame)
      /\ paused \in BOOLEAN
  BY TypeFacts DEF IInv, Agree
<1> QED BY <1>1, <1>2, <1>3, GoesOn

LEMMA NextIInv == IInv /\ [Next]_vars => IInv' /\ CycleStep
<1> SUFFICES ASSUME IInv, [Next]_vars PROVE IInv' /\ CycleStep
  OBVIOUS
<1>1. CASE UNCHANGED vars
  <2>1. IInv'
    BY <1>1 DEF vars, IInv, TypeOK, Sound, Agree, VotesCarried
  <2> QED BY <1>1, <2>1 DEF vars, CycleStep, SamePhase
<1> QED BY <1>1, ClientSteps, ScriptSteps, Ticks, Queue DEF Next

LEMMA InitIInv == Init => IInv
<1> SUFFICES ASSUME Init PROVE IInv
  OBVIOUS
<1>1. /\ game \in Rotation /\ clock = NewClock(MatchTime) /\ client = [c \in Cns |-> Absent]
      /\ paused = FALSE /\ shouldstep = FALSE /\ spectator_delay = 0 /\ delayed = 0
      /\ cast = [c \in Cns |-> NoGame] /\ carried.why = "script"
  BY DEF Init
<1>2. Absent \in Clients /\ Absent.vote = NoGame
  BY DEF Absent, Clients
<1>3. Sound(clock)
  <2>1. MatchTime \in 0..MatchTime
    BY MatchAssumption
  <2> QED BY <1>1, <2>1, NewClockSound
<1> HIDE DEF Absent
<1>4. client \in [Cns -> Clients] /\ \A c \in Cns : client[c].vote = NoGame
  BY <1>1, <1>2
<1>5. TypeOK
  <2>1. clock \in Clocks
    BY <1>3 DEF Sound
  <2>2. game \in Games /\ spectator_delay \in 0..MaxDelay /\ delayed \in 0..MaxDelayed
    BY <1>1, MatchAssumption
  <2>3. cast \in [Cns -> Games \cup {NoGame}] /\ paused \in BOOLEAN /\ shouldstep \in BOOLEAN
    BY <1>1
  <2> QED BY <1>4, <2>1, <2>2, <2>3 DEF TypeOK, Clocks, Clients
<1>6. Agree /\ VotesCarried
  BY <1>1, <1>4 DEF Agree, VotesCarried
<1> QED BY <1>3, <1>5, <1>6 DEF IInv

-----------------------------------------------------------------------------
(***************************************************************************)
(* Theorems                                                                *)
(***************************************************************************)
LEMMA IInvHolds == Spec => []IInv
BY InitIInv, NextIInv, PTL DEF Spec

\* The variables keep their types.
THEOREM TypeCorrect == Spec => []TypeOK
<1>1. IInv => TypeOK
  BY DEF IInv
<1> QED BY <1>1, IInvHolds, PTL

\* A vote replaces a match only with the consent checkvotes is to find, for
\* any number of clients who come, go, spectate and vote again.
THEOREM VotesAreCarried == Spec => []VotesCarried
<1>1. IInv => VotesCarried
  BY DEF IInv
<1> QED BY <1>1, IInvHolds, PTL

\* Match implements MatchCycle: one intermission a match, announced once.
THEOREM ImplementsCycle == Spec => OneIntermission
<1>1. Init => Cycle!Init
  BY MatchAssumption DEF Init, Cycle!Init, NewClock
<1>2. IInv /\ CycleStep => [Cycle!Next]_(Cycle!vars)
  <2> SUFFICES ASSUME IInv, CycleStep PROVE [Cycle!Next]_(Cycle!vars)
    OBVIOUS
  <2>1. clock.interm \in {"none", "on", "done"}
    BY TypeFacts DEF Clocks
  <2> QED BY <2>1
    DEF CycleStep, SamePhase, Cycle!Next, Cycle!vars, Cycle!Begin, Cycle!End, Cycle!Stall, Cycle!Pause
<1> QED BY <1>1, <1>2, IInvHolds, NextIInv, PTL DEF Spec, OneIntermission, Cycle!Spec

-----------------------------------------------------------------------------
(***************************************************************************)
(* The way to the end of an intermission                                   *)
(***************************************************************************)
Waiting == clock.interm = "on" /\ (clock.interm = "on")'

\* While an intermission lasts nothing sets its beginning later and no packet
\* is queued (write_delayed_broadcast); every tick that lets time pass adds to
\* what it has waited, until only the packets still queued hold it up.
IntermissionNears ==
  [][Waiting =>
       /\ clock'.waited >= clock.waited /\ delayed' <= delayed
       /\ Passing /\ shouldstep /\ ~paused =>
            clock'.waited > clock.waited \/ (clock.waited = MaxWait /\ delayed > 0)]_vars

\* A tick adds its time to an intermission, and nothing else does.
LEMMA SteppedWaits ==
  ASSUME IInv, clock.interm = "on", NEW curtime \in 0..1, NEW ends \in BOOLEAN,
         NEW prolong \in 0..MatchTime
  PROVE  Stepped(curtime, ends, prolong).waited
           = IF clock.waited + curtime <= MaxWait THEN clock.waited + curtime ELSE clock.waited
<1> DEFINE moved == Advance(clock, curtime)
           inplay == game \notin Timed \/ moved.timeleft > 0
           updated == IF ends /\ inplay THEN startintermission(moved, prolong) ELSE moved
           k == Stepped(curtime, ends, prolong)
           w == IF clock.waited + curtime <= MaxWait THEN clock.waited + curtime ELSE clock.waited
<1>1. Sound(moved) /\ moved.interm = "on"
  BY AdvanceSound DEF IInv
<1>2. moved.waited = w
  BY TypeFacts DEF Advance, Clocks
<1>3. k = IF HasClock /\ clock.begun THEN checkintermission(updated, prolong) ELSE updated
  BY DEF Stepped
<1> HIDE DEF moved, inplay, w
<1>4. Sound(updated) /\ updated.interm = "on" /\ updated.waited = moved.waited
  BY <1>1, StartSound DEF Follows
<1> HIDE DEF updated
<1>5. k.waited = updated.waited
  BY <1>3, <1>4, CheckSound DEF Follows
<1> HIDE DEF k
<1> QED BY <1>2, <1>4, <1>5 DEF k, w

\* serverupdate during an intermission that goes on.
LEMMA TickNears ==
  ASSUME IInv, NEW curtime \in 0..1, NEW ends \in BOOLEAN, NEW t \in 0..MatchTime,
         Tick(curtime, ends, t), Waiting
  PROVE  /\ clock'.waited >= clock.waited /\ delayed' = delayed
         /\ curtime = 1 /\ shouldstep /\ ~paused =>
              clock'.waited > clock.waited \/ (clock.waited = MaxWait /\ delayed > 0)
<1> DEFINE k == Stepped(curtime, ends, t)
<1>1. /\ clock.waited \in 0..MaxWait /\ MaxWait \in Nat
      /\ spectator_delay \in 0..MaxDelay /\ delayed \in Nat
  BY TypeFacts, MaxWaitNat, MatchAssumption DEF Clocks
<1>2. k.waited = IF clock.waited + curtime <= MaxWait THEN clock.waited + curtime
                 ELSE clock.waited
  BY SteppedWaits DEF Waiting
<1>3. k.interm = "on"
  BY SteppedSound DEF Waiting
<1>4. delayed' = delayed
  BY DEF Tick
<1>5. CASE ~(shouldstep /\ ~paused)
  <2>1. clock' = clock
    BY <1>5 DEF Tick
  <2> QED BY <1>1, <1>4, <1>5, <2>1
<1>6. CASE shouldstep /\ ~paused /\ ~Expired(k)
  <2>1. clock' = k
    BY <1>6 DEF Tick
  <2>2. ~(k.waited > IntermTime + spectator_delay) \/ delayed > 0
    BY <1>1, <1>3, <1>6 DEF Expired
  <2>3. IntermTime + spectator_delay < MaxWait
    BY <1>1, MatchAssumption DEF MaxWait
  <2> HIDE DEF k
  <2> QED BY <1>1, <1>2, <1>4, <2>1, <2>2, <2>3, MatchAssumption
<1>7. CASE shouldstep /\ ~paused /\ Expired(k)
  <2> DEFINE done == [k EXCEPT !.interm = "done", !.waited = 0]
  <2>1. checkvotesForced(done)
    BY <1>7 DEF Tick
  <2>2. done.interm = "done"
    BY SteppedSound DEF Sound, Clocks
  <2> HIDE DEF done, k
  <2>3. clock' = done \/ \E s : clock' = NewClock(s)
    BY <2>1 DEF checkvotesForced, rotatemap, changemap
  <2>4. clock'.interm # "on"
    BY <2>2, <2>3 DEF NewClock
  <2> QED BY <2>4 DEF Waiting
<1> QED BY <1>5, <1>6, <1>7

\* Clients, scripts and the queue during an intermission that goes on.
LEMMA OthersNear ==
  ASSUME IInv, Waiting, ClientStep \/ ScriptStep \/ write_delayed_broadcast \/ sendpackets
  PROVE  clock'.waited = clock.waited /\ delayed' <= delayed
<1>1. delayed \in Nat /\ delayed \in Int
  BY TypeFacts
<1>2. ASSUME NEW s, clock' = NewClock(s) PROVE FALSE
  BY <1>2 DEF NewClock, Waiting
<1>3. CASE ClientStep
  <2>1. delayed' = delayed
    BY <1>3 DEF ClientStep, vote, connected, clientdisconnect, setspectator, setmaster
  <2>2. clock' = clock
    <3>1. CASE \E c \in Cns, g \in Games : vote(c, g)
      BY <1>2, <3>1 DEF vote, checkvotes, changemap
    <3>2. CASE \E c \in Cns : clientdisconnect(c)
      BY <1>2, <3>2 DEF clientdisconnect, changemap
    <3> QED BY <1>3, <3>1, <3>2 DEF ClientStep, connected, setspectator, setmaster
  <2> QED BY <1>1, <2>1, <2>2
<1>4. CASE ScriptStep
  <2>1. delayed' = delayed
    BY <1>4 DEF ScriptStep, pausegame, EndMatch, changetime, ChangeMap, SetDelay
  <2>2. ASSUME NEW t \in 0..MatchTime, EndMatch(t) PROVE clock'.waited = clock.waited
    BY <2>2, StartSound DEF EndMatch, IInv, Follows, Waiting
  <2>3. ASSUME NEW t \in 0..MatchTime, changetime(t) PROVE clock'.waited = clock.waited
    BY <2>3, SetTimeSound DEF changetime, IInv
  <2>4. ASSUME NEW g, NEW t, ChangeMap(g, t) PROVE FALSE
    BY <1>2, <2>4 DEF ChangeMap, changemap
  <2>5. clock'.waited = clock.waited
    BY <1>4, <2>2, <2>3, <2>4 DEF ScriptStep, pausegame, SetDelay
  <2> QED BY <1>1, <2>1, <2>5
<1>5. CASE write_delayed_broadcast
  BY <1>5 DEF write_delayed_broadcast, Waiting
<1>6. CASE sendpackets
  BY <1>1, <1>6 DEF sendpackets
<1> QED BY <1>3, <1>4, <1>5, <1>6

\* An intermission comes nearer to its end whatever votes, changes of time,
\* delay and pause it meets: what MatchMovesOn needs of it beside a timer that
\* runs and packets that are sent.
THEOREM IntermissionsNear == Spec => IntermissionNears
<1> DEFINE A == Waiting =>
                  /\ clock'.waited >= clock.waited /\ delayed' <= delayed
                  /\ Passing /\ shouldstep /\ ~paused =>
                       clock'.waited > clock.waited \/ (clock.waited = MaxWait /\ delayed > 0)
<1>1. ASSUME IInv, Next, Waiting
      PROVE  /\ clock'.waited >= clock.waited /\ delayed' <= delayed
             /\ Passing /\ shouldstep /\ ~paused =>
                  clock'.waited > clock.waited \/ (clock.waited = MaxWait /\ delayed > 0)
  <2>1. clock.waited \in Nat /\ delayed \in Nat
    BY <1>1, TypeFacts, MaxWaitNat DEF Clocks
  <2>2. ASSUME \E curtime \in 0..1, ends \in BOOLEAN, t \in 0..MatchTime : Tick(curtime, ends, t)
        PROVE  clock'.waited >= clock.waited /\ delayed' <= delayed
    <3>1. PICK curtime \in 0..1, ends \in BOOLEAN, t \in 0..MatchTime : Tick(curtime, ends, t)
      BY <2>2
    <3>2. clock'.waited >= clock.waited /\ delayed' = delayed
      BY <1>1, <3>1, TickNears
    <3> QED BY <2>1, <3>2
  <2>3. ASSUME ClientStep \/ ScriptStep \/ write_delayed_broadcast \/ sendpackets
        PROVE  clock'.waited >= clock.waited /\ delayed' <= delayed
    <3>1. clock'.waited = clock.waited /\ delayed' <= delayed
      BY <1>1, <2>3, OthersNear
    <3> QED BY <2>1, <3>1
  <2>4. Passing /\ shouldstep /\ ~paused =>
          clock'.waited > clock.waited \/ (clock.waited = MaxWait /\ delayed > 0)
    BY <1>1, TickNears DEF Passing
  <2> QED BY <1>1, <2>1, <2>2, <2>3, <2>4 DEF Next
<1>2. IInv /\ [Next]_vars => [A]_vars
  BY <1>1
<1> QED BY <1>2, IInvHolds, PTL DEF Spec, IntermissionNears
=============================================================================
