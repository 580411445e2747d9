------------------------------- MODULE Modes -------------------------------
(***************************************************************************)
(* The events of a player's life (fpsgame/server.cpp, the script functions *)
(* of hopmod/server_functions.cpp, balanceteams of fpsgame/aiman.h) and    *)
(* the hooks of the game mode that each calls through smode, for the modes *)
(* that count players or what they carry: capture and collect.  changemap  *)
(* leaves one for the other.  (The flag modes are module Ctf's.)           *)
(*                                                                         *)
(* A player has a life ("off": not connected), a team, a position `at' and *)
(* gameclip; ready is lastspawn >= 0, a spawn state was sent and N_SPAWN   *)
(* is awaited.  When a player dies or may spawn again (canspawn) and what  *)
(* a script decides is a choice; weapons, health and distances are left    *)
(* out.                                                                    *)
(***************************************************************************)
EXTENDS Integers, FiniteSets

CONSTANTS
  Humans, Bots, Teams, NoTeam,
  BaseTeams, NoBase,      \* the teams collect has a base for; the number of the others
  Bases, Places,          \* the bases; the sets of bases a position is inside of
  OCCUPYENEMYLIMIT, OCCUPYNEUTRALLIMIT, MaxSeconds,
  Unowned, TOKENLIMIT, UNOWNEDTOKENLIMIT, SCORELIMIT, MaxScore, MaxTokens,
  Walks,                  \* bound: who reports which position, and whether in clip material
  Joins                   \* bound: the teams each player gets into

Cns == Humans \cup Bots
Smodes == {"capture", "collect"}

ASSUME ModesAssumption ==
  /\ IsFiniteSet(Cns) /\ Humans \cap Bots = {}
  /\ NoTeam \notin Teams /\ IsFiniteSet(Teams)
  /\ BaseTeams \subseteq Teams /\ BaseTeams # {} /\ NoBase \notin Teams
  /\ Places \subseteq SUBSET Bases /\ {} \in Places
  /\ Bases # {} /\ IsFiniteSet(Bases)
  /\ OCCUPYENEMYLIMIT \in Nat \ {0} /\ OCCUPYNEUTRALLIMIT \in Nat \ {0}
  /\ MaxSeconds \in Nat
  /\ Unowned \notin Cns \cup Teams /\ Cns \cap Teams = {}
  /\ TOKENLIMIT \in Nat \ {0} /\ UNOWNEDTOKENLIMIT \in Nat
  /\ SCORELIMIT \in Nat /\ MaxScore \in Nat /\ MaxTokens \in Nat
  /\ Joins \in [Cns -> SUBSET Teams]

VARIABLES
  smode,
  client,
  over,           \* gamemillis >= gamelimit: here because the mode ended the match
  notgotbases,    \* of the mode smode points to
  gamepaused,
  bases, drift,                     \* Capture
  tokens, held, scores              \* Collect

Cap == INSTANCE Capture
Col == INSTANCE Collect

Absent ==
  [life |-> "off", team |-> NoTeam, at |-> {}, clip |-> FALSE, ready |-> FALSE]

capturevars == <<bases, drift>>
collectvars == <<tokens, held, scores>>
vars == <<smode, client, over, notgotbases, gamepaused, bases, drift, tokens, held, scores>>
match == <<smode, over, notgotbases, gamepaused>>

Someone == \E c \in Humans : client[c].life # "off"

\* The teams calcteams finds: a bot may be put into any of them.
TeamsFound ==
  BaseTeams \cup {client[c].team : c \in {d \in Cns : client[d].life \in {"dead", "alive"}}}

(* The hooks of servmode.                                                  *)
died(c, actors) ==
  \/ smode = "capture" /\ Cap!died(c) /\ UNCHANGED collectvars
  \/ smode = "collect" /\ Col!died(c, actors) /\ UNCHANGED capturevars

leavegame(c, disconnecting) ==
  \/ smode = "capture" /\ Cap!leavegame(c) /\ UNCHANGED collectvars
  \/ /\ smode = "collect" /\ UNCHANGED capturevars
     /\ IF disconnecting THEN Col!leaveserver(c) ELSE Col!leavegame(c)

spawned(c) ==
  \/ smode = "capture" /\ Cap!spawned(c) /\ UNCHANGED collectvars
  \/ smode = "collect" /\ UNCHANGED <<capturevars, collectvars>>

changeteam(c, t) ==
  \/ smode = "capture" /\ Cap!changeteam(c, t) /\ UNCHANGED collectvars
  \/ smode = "collect" /\ UNCHANGED <<capturevars, collectvars>>

\* What a script does to a player behind the mode's back.  (Bound: once in a
\* match; every time may add one to a count for good.)
NoHook(c) ==
  \/ smode = "capture" /\ ~drift /\ Cap!Unhooked(c) /\ UNCHANGED collectvars
  \/ smode = "collect" /\ UNCHANGED <<capturevars, collectvars>>

\* respawn() of gamestate: the position is lost, the tokens too.
respawn(p) == [p EXCEPT !.at = {}, !.ready = FALSE]
Emptied(c) == held' = [held EXCEPT ![c] = 0] /\ UNCHANGED <<capturevars, tokens, scores>>

Init ==
  /\ smode \in Smodes
  /\ client = [c \in Cns |-> Absent]
  /\ over = FALSE
  /\ notgotbases = TRUE
  /\ gamepaused = FALSE
  /\ bases = [i \in Bases |-> Cap!NewBase] /\ drift = FALSE
  /\ tokens = [k \in Col!Kinds |-> 0] /\ held = [c \in Cns |-> 0]
  /\ scores = [t \in BaseTeams |-> 0]

\* A client joins (connected, sendwelcome) and gets a spawn state unless the
\* mastermode makes it a spectator; a bot is added (addai) and gets none.
connected(c, t) ==
  /\ client[c].life = "off"
  /\ t \in Joins[c] \cap (IF c \in Bots THEN TeamsFound ELSE BaseTeams)
  /\ \E spectates \in IF c \in Bots THEN {FALSE} ELSE BOOLEAN :
       client' = [client EXCEPT ![c] = [Absent EXCEPT
                    !.life = IF spectates THEN "spectator" ELSE "dead",
                    !.team = t, !.ready = ~spectates /\ c \in Humans]]
  /\ UNCHANGED <<match, capturevars, collectvars>>

\* Mutated form of clientdisconnect: the mode is not told that the client disconnects.
clientdisconnectQuiet(c) ==
  /\ client[c].life # "off"
  /\ leavegame(c, FALSE)
  /\ client' = [client EXCEPT ![c] = Absent]
  /\ gamepaused' \in {gamepaused, FALSE}
  /\ UNCHANGED <<smode, over, notgotbases>>

\* clientdisconnect, deleteai; when the last master goes a pause ends.
clientdisconnect(c) ==
  /\ client[c].life # "off"
  /\ leavegame(c, TRUE)
  /\ client' = [client EXCEPT ![c] = Absent]
  /\ gamepaused' \in {gamepaused, FALSE}
  /\ UNCHANGED <<smode, over, notgotbases>>

\* setspectator; respawn() resets position and lastspawn before they are read.
spectate(c) ==
  /\ c \in Humans /\ client[c].life \in {"dead", "alive"}
  /\ leavegame(c, FALSE)
  /\ client' = [client EXCEPT ![c].life = "spectator", ![c].at = {}, ![c].ready = FALSE]
  /\ UNCHANGED match

unspectate(c) ==
  /\ client[c].life = "spectator"
  /\ Emptied(c)
  /\ client' = [client EXCEPT ![c] = [respawn(client[c]) EXCEPT !.life = "dead"]]
  /\ UNCHANGED match

\* N_POS, from a player or from one who has been sent a spawn state and whose
\* N_SPAWN is on its way; a late one of a dead player is left out.  Collect does
\* not look at positions.
N_POS(c, at, clip) ==
  /\ client[c].life = "alive" \/ client[c].ready
  /\ smode = "capture"
  /\ <<c, at, clip>> \in Walks
  /\ IF client[c].life = "alive" THEN Cap!moved(c, at, clip) ELSE UNCHANGED capturevars
  /\ client' = [client EXCEPT ![c].at = at, ![c].clip = clip]
  /\ UNCHANGED <<match, tokens, held, scores>>

\* Mutated form of N_SPAWN: lastspawn is not cleared, it is taken for another spawn.
N_SPAWNAgain(c) ==
  /\ client[c].life \in {"alive", "dead"} /\ client[c].ready
  /\ spawned(c)
  /\ client' = [client EXCEPT ![c].life = "alive"]
  /\ UNCHANGED match

N_SPAWN(c) ==
  /\ client[c].life \in {"alive", "dead"} /\ client[c].ready
  /\ spawned(c)
  /\ client' = [client EXCEPT ![c].life = "alive", ![c].ready = FALSE]
  /\ UNCHANGED match

\* N_TRYSPAWN, player_respawn and the scheduled respawns of the scripts.  What
\* respawn() resets here after a death in the game, dodamage has reset.
try_respawn(c) ==
  /\ client[c].life = "dead" /\ ~client[c].ready
  /\ client' = [client EXCEPT ![c].ready = TRUE]
  /\ UNCHANGED <<match, capturevars, collectvars>>

\* An event of a client who may be dead by now kills target: events are
\* processed until the match ends, and once more when their client respawns.
\* The position stays until try_respawn, which nothing reads it before.
dodamage(target, actor) ==
  /\ client[target].life = "alive" /\ client[actor].life # "off"
  /\ died(target, {actor})
  /\ client' = [client EXCEPT ![target].life = "dead", ![target].at = {}]
  /\ UNCHANGED match

Suicided(p) == [respawn(p) EXCEPT !.life = "dead"]

suicide(c) ==
  /\ client[c].life = "alive"
  /\ died(c, {})
  /\ client' = [client EXCEPT ![c] = Suicided(client[c])]
  /\ UNCHANGED match

\* N_SWITCHTEAM, N_SETTEAM, player_changeteam with dosuicide.
switchteam(c, t) ==
  /\ client[c].life # "off" /\ t \in Joins[c] \ {client[c].team}
  /\ smode = "collect" => Col!canchangeteam(t)
  /\ \/ /\ client[c].life = "alive"
        /\ died(c, {})
        /\ client' = [client EXCEPT ![c] = [Suicided(client[c]) EXCEPT !.team = t]]
     \/ /\ client[c].life # "alive"
        /\ client' = [client EXCEPT ![c].team = t]
        /\ UNCHANGED <<capturevars, collectvars>>
  /\ UNCHANGED match

\* balanceteams moves a bot.
balanceteams(b, t) ==
  /\ b \in Bots /\ client[b].life # "off"
  /\ t \in (Joins[b] \cap TeamsFound) \ {client[b].team}
  /\ \/ /\ client[b].life = "alive"
        /\ changeteam(b, t)
     \/ /\ client[b].life # "alive"
        /\ UNCHANGED <<capturevars, collectvars>>
  /\ client' = [client EXCEPT ![b].team = t]
  /\ UNCHANGED match

\* player_changeteam without dosuicide.
player_changeteam(c, t) ==
  /\ client[c].life = "alive" /\ t \in Joins[c] \ {client[c].team}
  /\ smode = "collect" => Col!canchangeteam(t)
  /\ NoHook(c)
  /\ client' = [client EXCEPT ![c].team = t]
  /\ UNCHANGED match

\* reinitai of a bot that was handed over: reassign() resets it as a respawn
\* does, also one that lives, and that one gets a spawn state.  (Bound: as NoHook.)
reinitai(b) ==
  /\ b \in Bots /\ client[b].life \in {"dead", "alive"}
  /\ \/ smode = "capture" /\ ~drift /\ Cap!reassigned(b) /\ UNCHANGED collectvars
     \/ smode = "collect" /\ Emptied(b)
  /\ client' = [client EXCEPT ![b] = [respawn(client[b]) EXCEPT !.ready = client[b].life = "alive"]]
  /\ UNCHANGED match

player_slay(c) ==
  /\ client[c].life = "alive"
  /\ NoHook(c)
  /\ client' = [client EXCEPT ![c].life = "dead"]
  /\ UNCHANGED match

\* mapchange of a client and sendspawn, in team t; bots are deleted (clearai).
Moved(c, t) ==
  LET p == client[c]
  IN  CASE c \in Bots \/ p.life = "off" -> Absent
        [] OTHER -> [Absent EXCEPT
                       !.life = IF p.life = "spectator" THEN "spectator" ELSE "dead",
                       !.team = t, !.ready = p.life # "spectator"]

\* changemap: cleanup of the old mode, setup of the new one.  No one is alive
\* when setup reads the bases from the server's own file, if it has one.
\* Without reassignteams everybody stays in his team, and autoteam may pass over
\* who has no rank: a team collect has no base for is brought along.
changemap(mode) ==
  /\ smode' = mode
  /\ \E team \in [Cns -> Teams \cup {NoTeam}] :
       /\ \A c \in Cns : team[c] \in (Joins[c] \cap BaseTeams) \cup {client[c].team}
       /\ client' = [c \in Cns |-> Moved(c, team[c])]
  /\ over' = FALSE
  /\ notgotbases' \in BOOLEAN
  /\ gamepaused' = FALSE
  /\ Cap!reset
  /\ Col!reset

\* A script moves gamelimit.  Who left a base after the end of the match is
\* still counted when it goes on.  (Bound: as NoHook.)
changetime ==
  /\ over' = ~over
  /\ \/ smode = "capture" /\ (over => ~drift) /\ drift' = (drift \/ over)
     \/ smode = "collect" /\ UNCHANGED drift
  /\ UNCHANGED <<smode, client, notgotbases, gamepaused, bases, collectvars>>

\* (Bound: in capture.)
pausegame(val) ==
  /\ smode = "capture"
  /\ gamepaused # val
  /\ gamepaused' = val
  /\ UNCHANGED <<smode, client, over, notgotbases, capturevars, collectvars>>

\* serverupdate calls the mode; a second passes, or less.
CaptureTick(seconds) ==
  /\ smode = "capture" /\ ~gamepaused
  /\ Cap!update(seconds)
  /\ UNCHANGED <<smode, client, gamepaused, collectvars>>

Capturing ==
  \/ /\ smode = "capture"
     /\ Cap!parsebases
     /\ UNCHANGED <<smode, client, over, gamepaused, collectvars>>
  \/ \E seconds \in 0..MaxSeconds : CaptureTick(seconds)

Collecting ==
  /\ smode = "collect"
  /\ \/ \E c \in Cns, base \in BaseTeams : Col!deposittokens(c, base)
     \/ \E c \in Cns, k \in Col!Kinds : Col!taketoken(c, k)
     \/ \E k \in Col!Kinds : ~gamepaused /\ Col!update(k)
     \/ Col!parsebases
  /\ UNCHANGED <<smode, gamepaused, capturevars>>

Next ==
  \/ \E c \in Cns : \/ clientdisconnect(c) \/ spectate(c) \/ unspectate(c)
                    \/ N_SPAWN(c) \/ try_respawn(c) \/ suicide(c) \/ player_slay(c)
                    \/ reinitai(c)
  \/ \E c \in Cns, t \in Teams : \/ connected(c, t) \/ switchteam(c, t)
                                 \/ balanceteams(c, t) \/ player_changeteam(c, t)
  \/ \E c \in Cns, at \in Places, clip \in BOOLEAN : N_POS(c, at, clip)
  \/ \E target \in Cns, actor \in Cns : dodamage(target, actor)
  \/ \E mode \in Smodes : changemap(mode)
  \/ changetime \/ \E val \in BOOLEAN : pausegame(val)
  \/ Capturing \/ Collecting

Spec == Init /\ [][Next]_vars

\* The update timer is armed again only while there is a client; a second passes.
Fairness == WF_vars(Someone /\ CaptureTick(1))
FairSpec == Spec /\ Fairness

-----------------------------------------------------------------------------
Life == {"off", "dead", "alive", "spectator"}
Players ==
  [life : Life, team : Teams \cup {NoTeam}, at : SUBSET Bases,
   clip : BOOLEAN, ready : BOOLEAN]
BaseStates ==
  [owner : Teams \cup {NoTeam}, enemy : Teams \cup {NoTeam},
   owners : Nat, enemies : Nat, converted : Nat]

\* Types, and that a team is set exactly while a client is connected.
TypeOK ==
  /\ smode \in Smodes
  /\ client \in [Cns -> Players]
  /\ \A c \in Cns : client[c].team = NoTeam <=> client[c].life = "off"
  /\ over \in BOOLEAN /\ notgotbases \in BOOLEAN /\ gamepaused \in BOOLEAN
  /\ bases \in [Bases -> BaseStates] /\ drift \in BOOLEAN
  /\ tokens \in [Col!Kinds -> Nat] /\ held \in [Cns -> 0..TOKENLIMIT]
  /\ scores \in [BaseTeams -> Nat]

\* A base no one owns counts no owners, one without an enemy counts and has
\* converted nothing, the owner is never its own enemy, and a conversion that
\* has reached its limit is not left standing (baseinfo::occupy, update).
BaseSound ==
  \A i \in Bases :
    LET b == bases[i]
    IN  /\ b.owner = NoTeam => b.owners = 0
        /\ b.enemy = NoTeam => b.enemies = 0 /\ b.converted = 0
        /\ b.enemy # NoTeam => b.enemy # b.owner
        /\ b.converted < Cap!Limit(b)

\* A base never counts more owners or enemies than there are living players of
\* that team inside it, so that no one who left, died, disconnected or changed
\* team keeps on taking or keeping it: unless a path without hooks was taken
\* (drift: a player who is counted is slain or moved to a team by a script, a
\* living bot is handed over, a team's players in a clip are counted too, or the
\* match goes on after its end).
NoPhantom ==
  ~over /\ ~drift =>
    \A i \in Bases, t \in Teams :
      /\ bases[i].owner = t => bases[i].owners <= Cardinality(Cap!Counted(i, t))
      /\ bases[i].enemy = t => bases[i].enemies <= Cardinality(Cap!Counted(i, t))

\* An attack that all attackers have left wears off, if no one else comes and
\* the mode goes on being updated: the match not over, not paused, and the server
\* not empty.
Frozen == over \/ gamepaused \/ ~Someone
AttackDecays ==
  \A i \in Bases :
    (bases[i].enemy # NoTeam /\ bases[i].enemies = 0)
      ~> (bases[i].enemy = NoTeam \/ bases[i].enemies > 0 \/ Frozen)

\* The dropper of a token is connected, unless it is a base or no one: a client
\* that gets the number of one who left does not get its tokens (leavegame).
TokenRefsLive ==
  \A k \in Col!Kinds :
    tokens[k] > 0 => k.dropper \in BaseTeams \cup {Unowned} \/ client[k.dropper].life # "off"

\* However often players die, change team, leave and come back: one player has
\* at most twice TOKENLIMIT tokens on the map, and of either sort, split as
\* friendly and not by the team of its last death, at most TOKENLIMIT, unless
\* it has died in a team without a base, whose tokens are all of one sort; at most
\* UNOWNEDTOKENLIMIT of either sort are no one's; and a base has at most
\* TOKENLIMIT (droptokens, leavegame, deposittokens).
Halves(d, limit) ==
  \E t \in BaseTeams \cup {NoBase} :
    /\ Col!Number(tokens, {k \in Col!Of(d) : Col!Friendly(k, t)}) <= limit
    /\ Col!Number(tokens, {k \in Col!Of(d) : ~Col!Friendly(k, t)}) <= limit
Strays(d) == {k \in Col!Of(d) : k.team = NoBase /\ tokens[k] > 0}
TokenBound ==
  /\ \A c \in Cns :
       /\ Col!Number(tokens, Col!Of(c)) <= 2 * TOKENLIMIT
       /\ Strays(c) = {} => Halves(c, TOKENLIMIT)
  /\ Halves(Unowned, UNOWNEDTOKENLIMIT)
  /\ \A base \in BaseTeams : Col!Number(tokens, Col!Of(base)) <= TOKENLIMIT
=============================================================================
