------------------------------- MODULE Match -------------------------------
(***************************************************************************)
(* The clock of a match, its intermission, the votes and the change of map *)
(* (changemap, checkvotes, vote, checkintermission, startintermission and  *)
(* the end of serverupdate of fpsgame/server.cpp; changetime of            *)
(* hopmod/server_functions.cpp), with the queue of packets for delayed     *)
(* spectators, which an intermission waits for.                            *)
(*                                                                         *)
(* A game is a map and a mode.  Times are ticks: clock.timeleft is         *)
(* gamelimit - gamemillis, 0 when the limit is reached; clock.interm tells *)
(* the values 0 ("none"), > 0 ("on") and -1 ("done") of interm apart, and  *)
(* clock.waited is gamemillis - interm + 10 s in the second case.  Which   *)
(* mastermode holds, what the scripts answer to an event and how a game    *)
(* mode ends a match is a choice.  Clients are the humans; local clients   *)
(* are left out.                                                           *)
(***************************************************************************)
EXTENDS Integers, FiniteSets

CONSTANTS
  Cns,          \* client numbers
  Games,        \* what can be voted for
  Blank,        \* the games without a map name
  Timed,        \* the games whose mode has a time limit
  Rotation,     \* what the rotation scripts may choose next
  NoGame,       \* no vote, no next game
  MatchTime,    \* ticks of a match
  IntermTime,   \* ticks of an intermission: 10 s
  MaxDelay,     \* bound on spectator_delay
  MaxDelayed    \* bound on delayed_sendpackets

ASSUME MatchAssumption ==
  /\ IsFiniteSet(Cns)
  /\ Blank \subseteq Games /\ Timed \subseteq Games /\ Rotation \subseteq Games
  /\ NoGame \notin Games
  /\ MatchTime \in Nat \ {0} /\ IntermTime \in Nat
  /\ MaxDelay \in Nat /\ MaxDelayed \in Nat

VARIABLES
  game,             \* smapname and gamemode
  clock,
  client,           \* [Cns -> connected, spectator, privilege, vote]
  paused,           \* gamepaused
  shouldstep,       \* there was a client at the end of the last update
  spectator_delay,
  delayed,          \* number of delayed_sendpackets
  cast,             \* history: what each client has asked for in this match
  carried           \* history: why this match began, and the votes it got

vars == <<game, clock, client, paused, shouldstep, spectator_delay, delayed, cast, carried>>

Absent == [on |-> FALSE, spectator |-> FALSE, privilege |-> FALSE, vote |-> NoGame]
NewClock(t) ==
  [timeleft |-> t, begun |-> FALSE, interm |-> "none", waited |-> 0, announced |-> 0]
MaxWait == IntermTime + MaxDelay + 1

Someone == \E c \in Cns : client[c].on
HasClock == game \in Timed \ Blank

Init ==
  /\ game \in Rotation
  /\ clock = NewClock(MatchTime)
  /\ client = [c \in Cns |-> Absent]
  /\ paused = FALSE
  /\ shouldstep = FALSE
  /\ spectator_delay = 0
  /\ delayed = 0
  /\ cast = [c \in Cns |-> NoGame]
  /\ carried = [why |-> "script", votes |-> 0, most |-> 0, voters |-> 0]

-----------------------------------------------------------------------------
(***************************************************************************)
(* Votes                                                                   *)
(***************************************************************************)
\* A client checkvotes and vote listen to.
Voter(p) == p.on /\ (p.spectator => p.privilege)

Voters(cl) == {c \in Cns : Voter(cl[c])}
Count(cl, g) == Cardinality({c \in Voters(cl) : cl[c].vote = g})

\* A game with the most votes; the code decides between equals by chance.
Best(cl) == {g \in Games : Count(cl, g) > 0 /\ \A h \in Games : Count(cl, h) <= Count(cl, g)}

\* Mutated form of mapchange: the votes outlive the match.
mapchangeKeep(p) == p

\* clientinfo::mapchange: the vote is gone with the match.
mapchange(p) == [p EXCEPT !.vote = NoGame]

\* The history of a change of map: of a passed vote, how many of those who may
\* vote asked for game g in this match, the most that asked for one game, and
\* how many may vote; of the rotation, the most.
Ballots(votes, g) == Cardinality({c \in Cns : Voter(client[c]) /\ votes[c] = g})
Tally(votes, g, why) ==
  [why |-> why,
   votes |-> IF why \in {"majority", "default"} THEN Ballots(votes, g) ELSE 0,
   most |-> IF why \in {"default", "rotation"}
            THEN CHOOSE n \in {Ballots(votes, h) : h \in Games} :
                   \A h \in Games : Ballots(votes, h) <= n
            ELSE 0,
   voters |-> IF why = "majority" THEN Cardinality({c \in Cns : Voter(client[c])}) ELSE 0]

\* changemap to game g with limit t.  The arguments cl and votes are the
\* clients and the history with the vote that is being handled.
changemap(cl, votes, g, t, why) ==
  /\ game' = g
  /\ clock' = NewClock(t)
  /\ client' = [c \in Cns |-> mapchange(cl[c])]
  /\ paused' = FALSE
  /\ cast' = [c \in Cns |-> NoGame]
  /\ carried' = Tally(votes, g, why)

Majority(cl, g) == Count(cl, g) > Cardinality(Voters(cl)) \div 2

\* rotatemap: the scripts name a next game, or nothing that can be played.
rotatemap(k) ==
  \/ \E g \in Rotation, t \in 0..MatchTime : changemap(client, cast, g, t, "rotation")
  \/ clock' = k /\ UNCHANGED <<game, client, paused, cast, carried>>

\* checkvotes at the end of the intermission.
checkvotesForced(k) ==
  IF \E g \in Best(client) : Count(client, g) > 1
  THEN \E g \in Best(client) : changemap(client, cast, g, MatchTime, "default")
  ELSE rotatemap(k)

\* checkvotes after a vote.
checkvotes(cl, votes) ==
  IF \E g \in Best(cl) : Majority(cl, g)
  THEN \E g \in Best(cl) : Majority(cl, g) /\ changemap(cl, votes, g, MatchTime, "majority")
  ELSE client' = cl /\ cast' = votes /\ UNCHANGED <<game, clock, paused, carried>>

\* N_MAPVOTE, not refused by a script: vote.  A vote without a map name is
\* kept and counted later, but changes nothing now; a privileged client
\* forces the map in the mastermodes from veto on.
vote(c, g) ==
  LET cl == [client EXCEPT ![c].vote = g]
      votes == [cast EXCEPT ![c] = g]
  IN  /\ Voter(client[c])
      /\ \/ /\ g \in Blank
            /\ client' = cl /\ cast' = votes
            /\ UNCHANGED <<game, clock, paused, carried>>
         \/ /\ g \notin Blank /\ client[c].privilege
            /\ changemap(cl, votes, g, MatchTime, "script")
         \/ /\ g \notin Blank
            /\ checkvotes(cl, votes)
      /\ UNCHANGED <<shouldstep, spectator_delay, delayed>>

-----------------------------------------------------------------------------
(***************************************************************************)
(* Clients                                                                 *)
(***************************************************************************)
\* connected: a spectator if the mastermode says so.
connected(c, spectator) ==
  /\ ~client[c].on
  /\ client' = [client EXCEPT ![c] = [Absent EXCEPT !.on = TRUE, !.spectator = spectator]]
  /\ UNCHANGED <<game, clock, paused, shouldstep, spectator_delay, delayed, cast, carried>>

\* clientdisconnect: votes are not counted again.  Once nobody is left
\* normalize.lua may put the default game on, checkpausegame ends the pause.
clientdisconnect(c) ==
  LET cl == [client EXCEPT ![c] = Absent]
      votes == [cast EXCEPT ![c] = NoGame]
  IN  /\ client[c].on
      /\ \/ /\ \A d \in Cns \ {c} : ~client[d].on
            /\ \E g \in Rotation : changemap(cl, votes, g, MatchTime, "script")
         \/ /\ client' = cl /\ cast' = votes
            /\ paused' = (paused /\ \E d \in Cns \ {c} : client[d].privilege)
            /\ UNCHANGED <<game, clock, carried>>
      /\ UNCHANGED <<shouldstep, spectator_delay, delayed>>

\* setspectator: votes are kept and not counted again.
setspectator(c) ==
  /\ client[c].on
  /\ client' = [client EXCEPT ![c].spectator = ~@]
  /\ UNCHANGED <<game, clock, paused, shouldstep, spectator_delay, delayed, cast, carried>>

\* A client gets or loses a privilege; a pause ends with the last one.
setmaster(c) ==
  /\ client[c].on
  /\ client' = [client EXCEPT ![c].privilege = ~@]
  /\ paused' = (paused /\ \E d \in Cns : client'[d].privilege)
  /\ UNCHANGED <<game, clock, shouldstep, spectator_delay, delayed, cast, carried>>

\* pausegame, by a privileged client.
pausegame(val) ==
  /\ paused # val
  /\ \E c \in Cns : client[c].privilege
  /\ paused' = val
  /\ UNCHANGED <<game, clock, client, shouldstep, spectator_delay, delayed, cast, carried>>

-----------------------------------------------------------------------------
(***************************************************************************)
(* The clock                                                               *)
(***************************************************************************)
\* Mutated form of checkintermission: an intermission that has begun is not
\* looked for.
checkintermissionAgain(k, prolong) ==
  IF k.timeleft > 0 THEN k
  ELSE IF prolong > 0 THEN [k EXCEPT !.timeleft = prolong]
  ELSE [k EXCEPT !.interm = "on", !.waited = 0, !.announced = @ + 1]

\* checkintermission: the time-up event lets the scripts prolong the match
\* by changetime; otherwise the intermission begins and is announced.
checkintermission(k, prolong) ==
  IF k.timeleft > 0 \/ k.interm # "none" THEN k
  ELSE IF prolong > 0 THEN [k EXCEPT !.timeleft = prolong]
  ELSE [k EXCEPT !.interm = "on", !.waited = 0, !.announced = @ + 1]

startintermission(k, prolong) == checkintermission([k EXCEPT !.timeleft = 0], prolong)

\* A message that reaches the score limit, or a local client, ends the match.
EndMatch(prolong) ==
  /\ clock' = startintermission(clock, prolong)
  /\ UNCHANGED <<game, client, paused, shouldstep, spectator_delay, delayed, cast, carried>>

\* changetime by a script, at any time, in the intermission too.
changetime(remaining) ==
  /\ clock' = [clock EXCEPT !.timeleft = remaining]
  /\ UNCHANGED <<game, client, paused, shouldstep, spectator_delay, delayed, cast, carried>>

\* changemap by a script.
ChangeMap(g, t) ==
  /\ changemap(client, cast, g, t, "script")
  /\ UNCHANGED <<shouldstep, spectator_delay, delayed>>

\* Mutated form of Advance: the clock stands still once the limit is reached.
AdvanceStops(k, curtime) ==
  IF k.timeleft = 0 THEN [k EXCEPT !.begun = @ \/ curtime > 0]
  ELSE [k EXCEPT !.timeleft = IF @ > curtime THEN @ - curtime ELSE 0,
                 !.begun = @ \/ curtime > 0]

\* gamemillis += curtime.
Advance(k, curtime) ==
  [k EXCEPT !.timeleft = IF @ > curtime THEN @ - curtime ELSE 0,
            !.begun = @ \/ curtime > 0,
            !.waited = IF k.interm = "on" /\ @ + curtime <= MaxWait THEN @ + curtime ELSE @]

Expired(k) ==
  /\ k.interm = "on"
  /\ k.waited > IntermTime + spectator_delay
  /\ delayed = 0

\* What the game mode's update and the time limit make of the clock.
Stepped(curtime, ends, prolong) ==
  LET moved == Advance(clock, curtime)
      inplay == game \notin Timed \/ moved.timeleft > 0
      updated == IF ends /\ inplay THEN startintermission(moved, prolong) ELSE moved
  IN  IF HasClock /\ clock.begun THEN checkintermission(updated, prolong) ELSE updated

\* serverupdate as far as the match goes.
Tick(curtime, ends, prolong) ==
  LET k == Stepped(curtime, ends, prolong)
  IN  /\ \/ /\ ~(shouldstep /\ ~paused)
            /\ UNCHANGED <<game, clock, client, paused, spectator_delay, cast, carried>>
         \/ /\ shouldstep /\ ~paused /\ ~Expired(k)
            /\ clock' = k
            /\ UNCHANGED <<game, client, paused, spectator_delay, cast, carried>>
         \/ /\ shouldstep /\ ~paused /\ Expired(k)
            /\ spectator_delay' = 0
            /\ checkvotesForced([k EXCEPT !.interm = "done", !.waited = 0])
      /\ shouldstep' = Someone
      /\ UNCHANGED delayed

-----------------------------------------------------------------------------
(***************************************************************************)
(* Delayed spectators                                                      *)
(***************************************************************************)
\* A script sets spectator_delay.
SetDelay(d) ==
  /\ spectator_delay' = d
  /\ UNCHANGED <<game, clock, client, paused, shouldstep, delayed, cast, carried>>

\* write_delayed_broadcast: nothing is queued once the intermission began.
write_delayed_broadcast ==
  /\ spectator_delay > 0 /\ clock.interm = "none"
  /\ delayed < MaxDelayed
  /\ delayed' = delayed + 1
  /\ UNCHANGED <<game, clock, client, paused, shouldstep, spectator_delay, cast, carried>>

\* sendpackets: the first packet has waited long enough.
sendpackets ==
  /\ Someone
  /\ delayed > 0
  /\ delayed' = delayed - 1
  /\ UNCHANGED <<game, clock, client, paused, shouldstep, spectator_delay, cast, carried>>

ClientStep ==
  \E c \in Cns :
    \/ \E g \in Games : vote(c, g)
    \/ \E spectator \in BOOLEAN : connected(c, spectator)
    \/ clientdisconnect(c)
    \/ setspectator(c)
    \/ setmaster(c)

ScriptStep ==
  \/ \E val \in BOOLEAN : pausegame(val)
  \/ \E t \in 0..MatchTime : EndMatch(t) \/ changetime(t) \/ \E g \in Games : ChangeMap(g, t)
  \/ \E d \in 0..MaxDelay : SetDelay(d)

\* A tick in which the clock advances, while there is somebody.
Passing == Someone /\ \E ends \in BOOLEAN, t \in 0..MatchTime : Tick(1, ends, t)

Next ==
  \/ ClientStep
  \/ ScriptStep
  \/ \E curtime \in 0..1, ends \in BOOLEAN, t \in 0..MatchTime : Tick(curtime, ends, t)
  \/ write_delayed_broadcast
  \/ sendpackets

Spec == Init /\ [][Next]_vars

\* The update timer is armed again while there is a client, and the update
\* ends with the network loop, which calls sendpackets.
Fairness == WF_vars(Passing) /\ WF_vars(sendpackets)

FairSpec == Spec /\ Fairness

-----------------------------------------------------------------------------
(***************************************************************************)
(* Properties                                                              *)
(***************************************************************************)
\* The type invariant.
TypeOK ==
  /\ game \in Games
  /\ clock \in [timeleft: 0..MatchTime, begun: BOOLEAN, interm: {"none", "on", "done"},
                waited: 0..MaxWait, announced: Nat]
  /\ client \in [Cns -> [on: BOOLEAN, spectator: BOOLEAN, privilege: BOOLEAN,
                         vote: Games \cup {NoGame}]]
  /\ paused \in BOOLEAN /\ shouldstep \in BOOLEAN
  /\ spectator_delay \in 0..MaxDelay /\ delayed \in 0..MaxDelayed
  /\ cast \in [Cns -> Games \cup {NoGame}]

\* A match is never replaced by a vote that most of those who may vote do not
\* want: every vote counted was cast in this match, by a client who is still
\* there and not a mere spectator, more than half of them agree, at the end of
\* the intermission two or more and nobody asks for another game in greater
\* number; and the rotation does not pass over two who agree.
VotesCarried ==
  /\ carried.why = "majority" => 2 * carried.votes > carried.voters
  /\ carried.why = "default" => carried.votes > 1 /\ carried.votes = carried.most
  /\ carried.why = "rotation" => carried.most <= 1

\* Matches succeed each other as MatchCycle says: one intermission each, that
\* is announced once, though scripts move the time limit in and before it, game
\* modes end the match from messages and ticks, and the delayed packets keep
\* it from ending.
Cycle == INSTANCE MatchCycle
           WITH phase <- CASE clock.interm = "none" -> "play"
                           [] clock.interm = "on" -> "over"
                           [] clock.interm = "done" -> "done",
                announced <- clock.announced
OneIntermission == Cycle!Spec

Frozen == paused \/ ~Someone

TimeUp == HasClock /\ clock.begun /\ clock.timeleft = 0 /\ clock.interm = "none"

\* The server does not get stuck between matches: while somebody is there and
\* the game is not paused, time up leads to the intermission or is prolonged,
\* and an intermission ends though spectator_delay is changed and the delayed
\* packets have to go first.
MatchMovesOn ==
  /\ TimeUp ~> ~TimeUp \/ Frozen
  /\ clock.interm = "on" ~> clock.interm # "on" \/ Frozen
=============================================================================
