-------------------------------- MODULE Ctf --------------------------------
(***************************************************************************)
(* The server side of the flag game modes (struct ctfservmode of           *)
(* fpsgame/ctf.h): capture the flag, protect and hold.  One action per     *)
(* message handler, script call or server tick that reaches the flags.     *)
(*                                                                         *)
(* Times are kept as ages, lastmillis - droptime and so on, counted in     *)
(* ticks up to the limit they are compared with; NotSet stands for the 0   *)
(* with which the code marks an unset time.                                *)
(***************************************************************************)
EXTENDS Integers, FiniteSets

CONSTANTS
  Clients,         \* client numbers, of players and bots alike
  NoOne,           \* the -1 of owner and dropper
  Mode,            \* "ctf", "protect" or "hold"
  FlagIds,         \* indices of the flags vector once the map is known
  FlagTeam,        \* team of each flag: 1 good, 2 evil, 0 neither
  Spawns,          \* indices of the holdspawns vector
  StartTeams,      \* teams players may have when a map starts
  RESETFLAGTIME,   \* ticks after which a dropped flag goes home
  INVISFLAGTIME,   \* ticks for which a protect flag cannot be scored
  HOLDTIME,        \* HOLDSECS in ticks
  FLAGLIMIT,       \* score that ends the match
  ctftkpenalty,    \* server variable: penalise team killers
  MaxVersion       \* bound: no flag is taken at or above this version

ASSUME ModeAssumption == Mode \in {"ctf", "protect", "hold"}
ASSUME ClientsAssumption == NoOne \notin Clients
ASSUME TeamAssumption ==
  /\ IsFiniteSet(FlagIds)      \* at most MAXFLAGS
  /\ FlagTeam \in [FlagIds -> 0..2]
  /\ StartTeams \subseteq 0..2
ASSUME HoldAssumption ==          \* HOLDFLAGS
  Mode = "hold" => \A i, j \in FlagIds : i = j
ASSUME TimeAssumption ==
  /\ RESETFLAGTIME \in Nat \ {0}
  /\ INVISFLAGTIME \in Nat \ {0}
  /\ HOLDTIME \in Nat \ {0}
ASSUME SpawnAssumption == Spawns \subseteq Nat
ASSUME LimitAssumption ==
  /\ FLAGLIMIT \in Nat \ {0}
  /\ ctftkpenalty \in BOOLEAN
  /\ MaxVersion \in Nat

VARIABLES
  client,          \* [Clients -> life and team]
  flags,           \* the flags vector: a function on {} or on FlagIds
  notgotflags,     \* flag positions of this map are not known yet
  scores,          \* [1..2 -> Int]
  match            \* clock: how the match stands; paused: gamepaused

vars == <<client, flags, notgotflags, scores, match>>

INT_MAX == 2147483647
NotSet == -1
m_hold == Mode = "hold"
m_protect == Mode = "protect"

Lives == {"off", "dead", "alive", "spectator"}
Connected(c) == client[c].life # "off"
Someone == \E c \in Clients : Connected(c)
Playing(c) == client[c].life \in {"dead", "alive"}
Over == match.clock = "over"

Flag == [version: Nat, spawnindex: Spawns \cup {NotSet},
         dropage: NotSet..RESETFLAGTIME, ownage: 0..HOLDTIME,
         invisage: NotSet..INVISFLAGTIME,
         owner: Clients \cup {NoOne}, dropper: Clients \cup {NoOne},
         dropcount: {0, 1, INT_MAX}]

Matches == [clock: {"running", "prolonged", "over"}, paused: BOOLEAN]

(***************************************************************************)
(* Operations on one flag.  Bump is the ++f.version of the message that    *)
(* announces the change to all clients.                                    *)
(***************************************************************************)
\* Mutated form of Bump: the change is announced under the old version.
BumpNot(f) == f

Bump(f) == [f EXCEPT !.version = @ + 1]

\* Mutated form of ownflag: forgets how often the owner dropped the flag.
ownflagNoCount(f, c) ==
  [f EXCEPT !.owner = c, !.ownage = 0, !.dropcount = 0, !.dropper = NoOne,
            !.invisage = NotSet]

\* Mutated form of ownflag: counts the takes of all players together.
ownflagAnyone(f, c) ==
  [f EXCEPT !.owner = c, !.ownage = 0,
            !.dropcount = IF @ < INT_MAX THEN @ + 1 ELSE @,
            !.dropper = NoOne, !.invisage = NotSet]

\* Mutated form of ownflag: the last dropper stays recorded.
ownflagKeep(f, c) ==
  [f EXCEPT !.owner = c, !.ownage = 0,
            !.dropcount = IF c # f.dropper THEN 0
                          ELSE IF @ < INT_MAX THEN @ + 1 ELSE @,
            !.invisage = NotSet]

ownflag(f, c) ==
  [f EXCEPT !.owner = c, !.ownage = 0,
            !.dropcount = IF c # f.dropper THEN 0
                          ELSE IF @ < INT_MAX THEN @ + 1 ELSE @,
            !.dropper = NoOne, !.invisage = NotSet]

\* Mutated form of dropflag: the penalty is not recorded.
dropflagNoPenalty(f, dropper, penalty) ==
  [f EXCEPT !.dropage = 0, !.dropper = dropper, !.owner = NoOne,
            !.invisage = NotSet]

dropflag(f, dropper, penalty) ==
  [f EXCEPT !.dropage = 0, !.dropcount = IF penalty THEN INT_MAX ELSE @,
            !.dropper = dropper, !.owner = NoOne, !.invisage = NotSet]

returnflag(f, invisage) ==
  [f EXCEPT !.dropage = NotSet, !.dropcount = 0, !.owner = NoOne,
            !.dropper = NoOne, !.invisage = invisage]

\* Age of invistime right after it is set to lastmillis, in protect only.
StartInvis == IF m_protect THEN 0 ELSE NotSet

\* Spawn indices spawnflag may leave: four draws, the last one may repeat.
spawnflag(f) == IF m_hold THEN Spawns ELSE {f.spawnindex}

(***************************************************************************)
(* Operations on the flags vector.                                         *)
(***************************************************************************)
\* dropflag(ci, dropper): `inside' is insidebase(f, ci->state.o).
DropCarried(fs, c, dropper, penalty, inside) ==
  [i \in DOMAIN fs |->
     IF fs[i].owner # c THEN fs[i]
     ELSE Bump(IF m_protect /\ inside THEN returnflag(fs[i], NotSet)
               ELSE dropflag(fs[i], dropper, penalty))]

ForgetDropper(fs, c) ==
  [i \in DOMAIN fs |->
     IF fs[i].dropper # c THEN fs[i]
     ELSE [fs[i] EXCEPT !.dropper = NoOne, !.dropcount = 0]]

\* Mutated form of leavegame: keeps the flag of a client who leaves.
leavegameKeep(c, inside) == ForgetDropper(flags, c)

leavegame(c, inside) ==
  ForgetDropper(DropCarried(flags, c, c, FALSE, inside), c)

TeamKill(c, actor) ==
  /\ ctftkpenalty
  /\ actor \notin {NoOne, c}
  /\ client[actor].team = client[c].team

died(c, actor, inside) ==
  LET tk == TeamKill(c, actor)
  IN  ForgetDropper(DropCarried(flags, c, IF tk THEN actor ELSE c, tk, inside), c)

FreshFlag(spawn) ==
  [version |-> IF m_hold THEN 1 ELSE 0, spawnindex |-> spawn, dropage |-> NotSet,
   ownage |-> 0, invisage |-> StartInvis, owner |-> NoOne, dropper |-> NoOne,
   dropcount |-> 0]

\* What setup and parseflags leave in an empty flags vector.
addflags == {[i \in FlagIds |-> FreshFlag(s)] :
                s \in IF m_hold THEN Spawns ELSE {NotSet}}

NoFlags == [i \in {} |-> FreshFlag(NotSet)]

Init ==
  /\ client = [c \in Clients |-> [life |-> "off", team |-> 0]]
  /\ flags = NoFlags
  /\ notgotflags = TRUE
  /\ scores = [t \in 1..2 |-> 0]
  /\ match = [clock |-> "running", paused |-> FALSE]

(***************************************************************************)
(* Clients come, live and go.                                              *)
(***************************************************************************)
SetLife(c, life) == client' = [client EXCEPT ![c].life = life]

\* connected: in mastermode locked or private the client is a spectator.
connected(c, team, life) ==
  /\ ~Connected(c)
  /\ client' = [client EXCEPT ![c] = [life |-> life, team |-> team]]
  /\ UNCHANGED <<flags, notgotflags, scores, match>>

\* clientdisconnect of a connected client, and deleteai of a bot.  Of those
\* who stay, one may be privileged, or else checkpausegame ends a pause.
clientdisconnect(c, inside) ==
  /\ Connected(c)
  /\ flags' = leavegame(c, inside)
  /\ client' = [client EXCEPT ![c] = [life |-> "off", team |-> 0]]
  /\ match' \in {match, [match EXCEPT !.paused = FALSE]}
  /\ UNCHANGED <<notgotflags, scores>>

setspectator(c, inside) ==
  /\ Playing(c)
  /\ flags' = leavegame(c, inside)
  /\ SetLife(c, "spectator")
  /\ UNCHANGED <<notgotflags, scores, match>>

unsetspectator(c) ==
  /\ client[c].life = "spectator"
  /\ SetLife(c, "dead")
  /\ UNCHANGED <<flags, notgotflags, scores, match>>

\* N_SPAWN; spawned() is empty in these modes.
Spawn(c) ==
  /\ client[c].life = "dead"
  /\ SetLife(c, "alive")
  /\ UNCHANGED <<flags, notgotflags, scores, match>>

\* dodamage with a lethal hit.  The actor may be a spectator by now: the
\* explode events he queued while he played stay queued.
dodamage(c, actor, inside) ==
  /\ client[c].life = "alive"
  /\ Connected(actor)
  /\ flags' = died(c, actor, inside)
  /\ SetLife(c, "dead")
  /\ UNCHANGED <<notgotflags, scores, match>>

suicide(c, inside) ==
  /\ client[c].life = "alive"
  /\ flags' = died(c, NoOne, inside)
  /\ SetLife(c, "dead")
  /\ UNCHANGED <<notgotflags, scores, match>>

\* player_slay: the game mode is not told.
player_slay(c) ==
  /\ client[c].life = "alive"
  /\ SetLife(c, "dead")
  /\ UNCHANGED <<flags, notgotflags, scores, match>>

\* N_SWITCHTEAM, N_SETTEAM and player_changeteam, the latter with and
\* without dosuicide; suicide does nothing to a player who is not alive.
SwitchTeam(c, team, dosuicide, inside) ==
  /\ Connected(c)
  /\ team # client[c].team
  /\ LET dies == dosuicide /\ client[c].life = "alive"
     IN  /\ flags' = IF dies THEN died(c, NoOne, inside) ELSE flags
         /\ client' = [client EXCEPT ![c] =
                         [life |-> IF dies THEN "dead" ELSE @.life, team |-> team]]
  /\ UNCHANGED <<notgotflags, scores, match>>

\* balanceteams moves a bot: a living one drops its flag and lives on.
ReteamBot(c, team, inside) ==
  /\ Playing(c)
  /\ team # client[c].team
  /\ flags' = IF client[c].life = "alive"
              THEN DropCarried(flags, c, c, FALSE, inside) ELSE flags
  /\ client' = [client EXCEPT ![c].team = team]
  /\ UNCHANGED <<notgotflags, scores, match>>

(***************************************************************************)
(* Flag messages.                                                          *)
(***************************************************************************)
\* N_TRYDROPFLAG.
TryDropFlag(c, inside) ==
  /\ Playing(c)
  /\ flags' = DropCarried(flags, c, c, FALSE, inside)
  /\ UNCHANGED <<client, notgotflags, scores, match>>

Carried(c) == {i \in DOMAIN flags : flags[i].owner = c}

\* The early returns of takeflag.
CanTouch(c, i, version) ==
  /\ client[c].life = "alive"
  /\ IF m_hold THEN flags[i].spawnindex # NotSet ELSE FlagTeam[i] # 0
  /\ flags[i].owner = NoOne
  /\ flags[i].version = version
  /\ ~(flags[i].dropage # NotSet /\ flags[i].dropper = c /\ flags[i].dropcount >= 1)

\* checkintermission once gamemillis has reached gamelimit: the intermission
\* begins, unless a script answers the time-up event by moving gamelimit on
\* (no_ties.lua, suddendeath.lua).
TimeUp == {[match EXCEPT !.clock = k] : k \in {"over", "prolonged"}}

\* Mutated form of addscore: the match goes on at the flag limit.
addscoreOffByOne(team) ==
  /\ scores' = IF team = 0 THEN scores ELSE [scores EXCEPT ![team] = @ + 1]
  /\ match' \in IF team # 0 /\ scores[team] >= FLAGLIMIT THEN TimeUp ELSE {match}

\* addscore(team, 1) and, at the limit, the startintermission that follows it.
addscore(team) ==
  /\ scores' = IF team = 0 THEN scores ELSE [scores EXCEPT ![team] = @ + 1]
  /\ match' \in IF team # 0 /\ scores[team] + 1 >= FLAGLIMIT THEN TimeUp ELSE {match}

\* scoreflag(ci, goal): the touched flag is the one that goes home.
scoreflag(c, goal) ==
  /\ \E s \in spawnflag(flags[goal]) :
       flags' = [flags EXCEPT ![goal] =
                   Bump([returnflag(@, StartInvis) EXCEPT !.spawnindex = s])]
  /\ addscore(client[c].team)

\* scoreflag(ci, goal, relay): the carried flag goes home.
relayflag(c, goal, relay) ==
  /\ flags' = [flags EXCEPT ![goal] = Bump(@), ![relay] = Bump(returnflag(@, StartInvis))]
  /\ addscore(client[c].team)

\* Mutated form of PickUp: a carrier may take a second flag.
PickUpMore(c, i) ==
  /\ m_hold \/ (m_protect <=> FlagTeam[i] = client[c].team)
  /\ flags' = [flags EXCEPT ![i] = Bump(ownflag(@, c))]
  /\ UNCHANGED <<scores, match>>

PickUp(c, i) ==
  /\ m_hold \/ (m_protect <=> FlagTeam[i] = client[c].team)
  /\ Carried(c) = {}
  /\ flags' = [flags EXCEPT ![i] = Bump(ownflag(@, c))]
  /\ UNCHANGED <<scores, match>>

ProtectScore(c, i) ==
  /\ m_protect
  /\ FlagTeam[i] # client[c].team
  /\ flags[i].invisage = NotSet
  /\ scoreflag(c, i)

Return(c, i) ==
  /\ Mode = "ctf"
  /\ FlagTeam[i] = client[c].team
  /\ flags[i].dropage # NotSet
  /\ flags' = [flags EXCEPT ![i] = Bump(returnflag(@, NotSet))]
  /\ UNCHANGED <<scores, match>>

\* Mutated form of CtfScore: the team's own flag need not be at home.
CtfScoreAway(c, i) ==
  /\ Mode = "ctf"
  /\ FlagTeam[i] = client[c].team
  /\ \E j \in Carried(c) : relayflag(c, i, j)

CtfScore(c, i) ==
  /\ Mode = "ctf"
  /\ FlagTeam[i] = client[c].team
  /\ flags[i].dropage = NotSet
  /\ \E j \in Carried(c) : relayflag(c, i, j)

\* N_TAKEFLAG, with any version the client may have heard of.
TakeFlag(c, i, version) ==
  /\ i \in DOMAIN flags
  /\ flags[i].version < MaxVersion
  /\ CanTouch(c, i, version)
  /\ PickUp(c, i) \/ ProtectScore(c, i) \/ Return(c, i) \/ CtfScore(c, i)
  /\ UNCHANGED <<client, notgotflags>>

\* N_INITFLAGS from a client that has the map, when the server does not; a
\* privileged spectator may send it as well.
parseflags ==
  /\ notgotflags
  /\ \E c \in Clients : Connected(c)
  /\ flags' \in addflags
  /\ notgotflags' = FALSE
  /\ UNCHANGED <<client, scores, match>>

(***************************************************************************)
(* Time.                                                                   *)
(***************************************************************************)
Older(age, limit) == IF age = NotSet \/ age = limit THEN age ELSE age + 1

Aged(f) == [f EXCEPT !.dropage = Older(@, RESETFLAGTIME),
                     !.ownage = Older(@, HOLDTIME),
                     !.invisage = Older(@, INVISFLAGTIME)]

\* The dropped flags that update sends home.
Resets(f) == f.owner = NoOne /\ f.dropage = RESETFLAGTIME

\* A flag just returned restarts its invistime, so the second IF of update
\* applies only to the others.
ResetFlag(f, s) ==
  IF Resets(f)
  THEN Bump([returnflag(f, StartInvis) EXCEPT !.spawnindex = s])
  ELSE [f EXCEPT !.invisage = IF @ = INVISFLAGTIME THEN NotSet ELSE @]

HoldScores(f) == m_hold /\ f.owner # NoOne /\ f.ownage = HOLDTIME

\* Mutated form of update: no flag is scored or sent home.
updateNoReset(fs) == flags' = fs /\ UNCHANGED <<scores, match>>

\* update() on the aged flags: the only flag of hold mode is scored when it was
\* held long enough; otherwise dropped flags go home, a protect team losing a
\* point for each.  What the code does for an owner without a client (the flag
\* spawns again) is left out: FlagRefsLive says that there is none.
update(fs) ==
  IF \E i \in DOMAIN fs : HoldScores(fs[i])
  THEN \E i \in DOMAIN fs, s \in Spawns :
         /\ HoldScores(fs[i])
         /\ flags' = [fs EXCEPT ![i] =
                        Bump([returnflag(@, NotSet) EXCEPT !.spawnindex = s])]
         /\ addscore(client[fs[i].owner].team)
  ELSE /\ \E s \in IF m_hold THEN Spawns ELSE {NotSet} :
            flags' = [i \in DOMAIN fs |-> ResetFlag(fs[i], s)]
       /\ scores' = IF m_protect
                    THEN [t \in 1..2 |-> scores[t] -
                            Cardinality({i \in DOMAIN fs : Resets(fs[i]) /\ FlagTeam[i] = t})]
                    ELSE scores
       /\ UNCHANGED match

AgedFlags == [i \in DOMAIN flags |-> Aged(flags[i])]

\* serverupdate, while shouldstep is set and the match runs.
PlayTick ==
  /\ ~match.paused
  /\ ~Over
  /\ update(AgedFlags)
  /\ UNCHANGED <<client, notgotflags>>

\* serverupdate when gamemillis passes gamelimit, or after a script moved it.
LimitTick ==
  /\ ~match.paused
  /\ match' \in TimeUp
  /\ flags' = AgedFlags
  /\ UNCHANGED <<client, notgotflags, scores>>

\* Time passes and the mode is not called: in the intermission, or while
\* shouldstep is not set yet because there was nobody at the last update.
IdleTick ==
  /\ ~match.paused
  /\ flags' = AgedFlags
  /\ UNCHANGED <<client, notgotflags, scores, match>>

Tick == PlayTick \/ LimitTick \/ IdleTick

\* A script moves gamelimit.
changetime ==
  /\ match' = [match EXCEPT !.clock = IF Over THEN "running" ELSE "over"]
  /\ UNCHANGED <<client, flags, notgotflags, scores>>

\* pausegame, by a client or a script.
pausegame(val) ==
  /\ match.paused # val
  /\ match' = [match EXCEPT !.paused = val]
  /\ UNCHANGED <<client, flags, notgotflags, scores>>

\* changemap to a map of the same mode: with the map file (setup) the flags
\* are known at once, without it a client has to send them.
changemap ==
  /\ \E team \in [Clients -> StartTeams] :
       client' = [c \in Clients |->
                    CASE client[c].life = "off" -> client[c]
                      [] client[c].life = "spectator" -> [client[c] EXCEPT !.team = team[c]]
                      [] OTHER -> [life |-> "dead", team |-> team[c]]]
  /\ \/ flags' \in addflags /\ notgotflags' = FALSE
     \/ flags' = NoFlags /\ notgotflags' = TRUE
  /\ scores' = [t \in 1..2 |-> 0]
  /\ match' = [clock |-> "running", paused |-> FALSE]

-----------------------------------------------------------------------------
\* A lethal hit is kept apart: CtfHistory records who killed whom.
KillStep == \E c, actor \in Clients, inside \in BOOLEAN : dodamage(c, actor, inside)

MapStep == changemap \/ parseflags

PlayStep ==
  \/ \E c \in Clients, t \in 1..2, life \in {"dead", "spectator"} : connected(c, t, life)
  \/ \E c \in Clients, inside \in BOOLEAN :
       \/ clientdisconnect(c, inside)
       \/ setspectator(c, inside)
       \/ suicide(c, inside)
       \/ TryDropFlag(c, inside)
       \/ \E t \in 1..2 : \/ ReteamBot(c, t, inside)
                          \/ \E ds \in BOOLEAN : SwitchTeam(c, t, ds, inside)
  \/ \E c \in Clients : unsetspectator(c) \/ Spawn(c) \/ player_slay(c)
  \/ \E c \in Clients, i \in FlagIds, v \in 0..MaxVersion : TakeFlag(c, i, v)
  \/ changetime
  \/ \E val \in BOOLEAN : pausegame(val)

Next == KillStep \/ MapStep \/ PlayStep \/ Tick

\* The update timer is armed again only while there is a client; a script that
\* prolongs a match gives it more time than one update.
Fairness == WF_vars(Someone /\ PlayTick)

Spec == Init /\ [][Next]_vars

FairSpec == Spec /\ Fairness

-----------------------------------------------------------------------------
(***************************************************************************)
(* Properties                                                              *)
(***************************************************************************)
\* The type invariant; in particular a flag is retaken by its dropper at most
\* once, so dropcount never leaves {0, 1, INT_MAX}.
TypeOK ==
  /\ client \in [Clients -> [life: Lives, team: 0..2]]
  /\ DOMAIN flags \in {{}, FlagIds}
  /\ flags \in [DOMAIN flags -> Flag]
  /\ notgotflags \in BOOLEAN
  /\ scores \in [1..2 -> Int]
  /\ match \in Matches

\* Every flag owner plays and every dropper is connected: a client number that
\* is freed, spectates or is used again by a newcomer takes no flag and no
\* penalty with it, so update never finds an owner without a client.
FlagRefsLive ==
  \A i \in DOMAIN flags :
    /\ flags[i].owner # NoOne => Playing(flags[i].owner)
    /\ flags[i].dropper # NoOne => Connected(flags[i].dropper)

\* No player carries two flags, whatever takes, drops, scores and resets
\* of the other players come in between.
OneFlagEach ==
  \A i, j \in DOMAIN flags :
    flags[i].owner = flags[j].owner /\ flags[i].owner # NoOne => i = j

\* The record of who dropped a flag, and the penalty that goes with it, lasts
\* exactly while the flag lies in the field: it ends with the next pick-up.
DropRecordSound ==
  \A i \in DOMAIN flags :
    /\ flags[i].owner # NoOne => flags[i].dropper = NoOne /\ flags[i].dropcount # INT_MAX
    /\ flags[i].dropper # NoOne => flags[i].dropage # NotSet

Place(f) == <<f.owner, f.dropage = NotSet, f.spawnindex>>

\* Within a match every change of a flag's owner or place raises its version,
\* so a take message sent before the change is refused after it.
ChangeBumpsVersion ==
  [][\/ MapStep
     \/ \A i \in DOMAIN flags :
          Place(flags'[i]) # Place(flags[i]) => flags'[i].version > flags[i].version]_vars

\* A match in which a team reaches the flag limit does not simply run on: with
\* that step it is over, or a script was asked and has prolonged it.
LimitEndsMatch ==
  [][\A t \in 1..2 : scores'[t] > scores[t] /\ scores'[t] >= FLAGLIMIT =>
       match'.clock # "running"]_vars

\* In ctf mode a team scores only when one of its living players carries the
\* flag of the other team while its own flag is at home, and that carried
\* flag is at home afterwards.  (One flag for each team.)
ScoreNeedsBothFlags ==
  [][Mode = "ctf" => \A t \in 1..2 : scores'[t] > scores[t] =>
       \E i, j \in DOMAIN flags, c \in Clients :
         /\ FlagTeam[i] = t /\ flags[i].owner = NoOne /\ flags[i].dropage = NotSet
         /\ FlagTeam[j] = 3 - t /\ flags[j].owner = c
         /\ client[c] = [life |-> "alive", team |-> t]
         /\ flags'[j].owner = NoOne /\ flags'[j].dropage = NotSet]_vars

\* The mode's update is not called: the match is over or paused, or the last
\* client has left and the timer stands still.
Frozen == Over \/ match.paused \/ ~Someone

\* A flag lying in the field does not stay there: it is taken, returned or
\* reset, unless the mode stops being updated or the map changes first.
DroppedFlagLeaves ==
  \A i \in FlagIds :
    (i \in DOMAIN flags /\ flags[i].owner = NoOne /\ flags[i].dropage # NotSet)
      ~> (Frozen \/ i \notin DOMAIN flags
                 \/ flags[i].owner # NoOne \/ flags[i].dropage = NotSet)

\* In hold mode nobody keeps a flag for ever: he loses it or it is scored and
\* spawned again, unless the mode stops being updated or the map changes first.
HeldFlagLeaves ==
  \A i \in FlagIds :
    (m_hold /\ i \in DOMAIN flags /\ flags[i].owner # NoOne)
      ~> (Frozen \/ i \notin DOMAIN flags \/ flags[i].owner = NoOne)
=============================================================================
