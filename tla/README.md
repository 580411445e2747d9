# A verification of the hopmod game server

hopmod is a Cube 2: Sauerbraten game server with scripts in Lua. This directory
holds TLA+ models of the parts of it that keep state across messages and decide
who may do what, TLC configurations that check them on small instances, and
TLAPS proofs for every value of their constants. Paths below are relative to
the repository.

## 1. The system

The server is one process with one thread. A boost asio `io_service` runs, in
some order: the 5 ms update timer (`update_server` in `src/engine/server.cpp`,
which calls `serverupdate` and then processes ENet events), messages of clients
(`parsepacket` in `src/fpsgame/server.cpp`), callbacks that were posted for
later (`src/hopmod/scheduler.cpp`, `io_service.post`), timers and network
answers of Lua scripts. What makes it hard is therefore not threads but order:
messages that were sent in an older state, callbacks that run after their
client is gone, client numbers and bot slots that are used again, and cleanup
that has to happen on each of many ways out.

| component | state | operations | what makes it correct |
|---|---|---|---|
| flag modes (`src/fpsgame/ctf.h`): ctf, protect, hold | flags with owner, dropper, version, times; team scores | take, drop, return, score, reset by time; death, spectating, leaving, team change, map change | a flag belongs to a player who is there, nobody carries two, stale messages are refused, scoring follows the rules, flags do not get stuck |
| bot manager (`src/fpsgame/aiman.h`) | bots with owner, each client's list of bots, pending refresh | add, delete, hand over, even out, refresh | lists and owners agree, no bot is forgotten, the loop of a refresh ends |
| session admission (`clientconnect`, `allowconnect`, `clientdisconnect`) | connecting and connected clients, `maxclients`, reserved slots, posted kicks | accept, admit, wait for auth, time out, kick, leave, spy | counters do not drift, capacity holds, kicks hit whom they should |
| privileges, mastermode, pause (`server_functions.cpp`, `server.cpp`, `script/base/setmaster.lua`) | privilege of each client, mastermode, allowed addresses, paused game | claim, login, give, revoke, drop, disconnect, set mode, pause | nothing of a master's rule outlives the last master; private mode is private |
| player life and game events | life, position, weapons, queue of shots and explosions | spawn, shoot, explode, die, suicide, spectate | events of the dead and gone do nothing wrong |
| match clock, votes, map change | `gamemillis`, `gamelimit`, `interm`, votes | tick, time-up, intermission, vote, change map | a match ends once, a vote needs a majority |
| capture, collect, items, teams, saved scores | bases, tokens, entities, teams, score records | per-mode messages and ticks | counts match who is there |
| world state, spectator delay, demos | shared packet buffers, delayed queue | build, send, free | no buffer is freed while in use |
| auth scripts (`script/base/auth`) | pending requests, authed users | request, answer, time-out, disconnect | a late answer is not applied to another client |
| net bans (prefix tree), flood limits, extinfo, anticheat, HTTP, cubescript, statistics, IRC | | | |

Components call each other directly: `clientdisconnect` drops the privilege
(through the Lua event), leaves the flag mode, hands the bots over, gives slots
back and rechecks the pause, in one step; `setspectator`, `set_spy` and
`changemap` likewise reach several components. Each module below models its own
component's share of these handlers as one action.

`PROJECT.json` lists every component, also those left out, and the hazards: the
lines at which an order of events nobody tests could go wrong.

## 2. Modules

| module | models |
|---|---|
| `Ctf` | the server side of `ctf.h` in its three modes, and the handlers of `server.cpp` and `server_functions.cpp` that reach a flag |
| `CtfHistory` | `Ctf` with a history of each flag, for rules that speak of earlier steps |
| `AiMan` | ownership and handover of bots |
| `Admission` | connections, reserved slots, spies, time-outs, posted kicks |
| `MasterState` | privileges, mastermode, allowed addresses, pause |
| `Match` | the clock of a match, votes, intermission, change of map, the delayed queue an intermission waits for |
| `MatchCycle` | the abstract specification of the succession of matches, which `Match` implements |
| `Capture`, `Collect` | the server side of `capture.h` and `collect.h`: the hooks of the two modes as operators on bases and tokens |
| `Modes` | the events of a player's life and the hooks each calls; composes `Capture` and `Collect`, one of which is the mode of the map |
| `WorldState` | the world state: queues, segments, slices per client, uses of the shared buffer |
| `Auth` | auth requests of the scripts, with answers, timeouts, lost connections and Lua errors |
| `CtfProofs`, `AiManProofs`, `AdmissionProofs`, `MasterStateProofs`, `MatchProofs`, `ModesProofs`, `AuthProofs`, `WorldStateProofs` | theorems and proofs |
| `MCCtf`, `MCCtfHistory`, `MCAiMan`, `MCMasterState`, `MCModes`, `MCWorldState` | values of constants and symmetry for TLC |

Each action is a whole handler, named as in the source where it has a name.
Definitions called "Mutated form of ..." are deliberately wrong versions of the
definition after them. They are used by no specification; with the wrong one in
place TLC must find the property violated that it is meant for (the list is in
`PROJECT.json`), which shows that the property can fail.

**Ctf.** `client` is what the mode sees of a client: not there, dead, alive or
spectating, and its team. `flags` is the `flags` vector, empty until the map's
flags are known (`notgotflags`). Times are ages: `dropage` is `lastmillis -
droptime` in ticks, up to the limit it is compared with, and `NotSet` is the
zero by which the code marks an unset time. Positions are not modelled: whether
a carrier stands inside a base when he drops a flag is a choice. `match.clock`
is "over" once `gamemillis >= gamelimit`, under which the server keeps handling
messages but no longer calls `update`. The flag limit and the passing of time
both end in `checkintermission`, which raises the time-up event first and
returns when a script has moved the limit on (`no_ties.lua`, `suddendeath.lua`):
`TimeUp` is that choice, and "prolonged" a match that went on. `changetime`
moves the limit from outside. `match.paused` is the paused game, in which
neither ages nor `update` advance. A tick of an empty server only ages, as
`shouldstep` is set by the update before. `player_slay`, which kills without
telling the mode, `changeteam` of dead carriers, and kills by players who
spectate by then are all there.

**AiMan.** `ownernum` and `owned` are the two sides of ownership, changed by
different lines; `told` is what the clients last heard (`N_INITAI`); the `while`
loop of `checkai` is taken iteration by iteration with all other steps excluded
meanwhile. The removal of a bot by a script is posted (`posted`), as the code
posts it with nothing but the client number. Team balancing, skills and the
value of `botlimit` are left out; `clients` order decides ties in the code and
is a choice here.

**Admission.** `peer` is a client number with its session; the number is given
to the next connection when it is free. `posted` are the `execute_disconnect`
calls waiting, each with the session it was meant for. `asked` and `removed`
are histories. Which password a client gives and what the mastermode or a ban
says is a choice; `allowconnect`'s counting is exact. An auth script lets in by
client number (`player_join_game`), and its success may come after the number
has gone to another client, so the action asks only that the client has not
joined; `vouched` remembers who came in that way.

**MasterState.** `client` has privilege, whether it is hidden and the spy flag
of each client; `vouched` marks those who got in by a reserved slot, the server
password or an auth script, whom private mode does not ask. `pauser` records who
paused. `told` is the list of privileges each client was last sent:
`send_currentmaster` leaves out hidden ones, the welcome packet of a newcomer
(and of everybody when a demo ends) does not, and `N_CDIS` takes a client off
all lists. Each `N_CURRENTMASTER` carries a whole list, which is taken to
replace the one before; the code of the game client is not in this repository.
`setmaster.lua` is part of the model: which of drop, claim and login an
`N_SETMASTER` message is, is decided there.

**Match.** A game is a map and a mode. `clock.timeleft` is `gamelimit -
gamemillis` in ticks, `clock.interm` tells the three meanings of `interm` apart
(0, positive, -1), `clock.waited` is how long the intermission has lasted.
`Tick` is the end of `serverupdate`: the clock advances, `checkintermission` may
start the intermission, and the intermission ends, with the votes counted by
force, once `spectator_delay` has passed and the delayed queue is empty.
`changetime` moves the limit at any time, `EndMatch` is a match ended by its
mode or by a script. What the scripts answer to the time-up event, and which
map the rotation chooses, is a choice. `cast` and `carried` are histories: who
asked for what in this match, and on whose votes it began.

**MatchCycle** knows four things of a match: the game, whether it is played,
over or done, how often its intermission was announced, and whether it is
paused. The refinement mapping is in `Match` (`Cycle`): `phase` is the meaning of
`interm`.

**Capture, Collect, Modes.** A position is the set of bases it is inside of.
`Modes` has one action for each handler of `server.cpp` and
`server_functions.cpp` that changes a player's life, team or position, and
calls the hook of the mode that the handler calls, or none where it calls none.
`Capture` counts owners and enemies of a base by the differences that the hooks
report, exactly as `enterbase`, `leavebase`, `stealbase` and `movebases` do, so
the count can be wrong; that it is not is what `NoPhantom` says. Paths that
change life, team or position of a counted player without a hook set `drift`:
`player_slay` and `player_changeteam` of the scripts; the handover of a living
bot (`reinitai`, whose `reassign` resets its position and sends it a new spawn
state); a base taken over (`stealbase`) while players of that team
stand in clip material; a match that a script lets go on after
its end, when the bases were not updated. `Collect` keeps
the number of tokens of each dropper and kind, and what each player holds. It
knows two teams with a base: any other team, brought along from capture by a
change of map without `reassignteams`, has number 0 (`collectteambase`), and
since -0 is 0 a player of such a team drops friendly and enemy tokens of one
sort.

**WorldState.** `buildworldstate` does what the code does with pointers: a
buffer in which each segment is written twice (so that what is not a client's
own is always one stretch), `wsdata` and `wslen` for each client, and the slices
sent. `Everybody` and `WithBots` are the loops over the client list and over a
client's bots, as functions of the loop counter; `Pass` is the loop for one
channel with the segment that is left over at its end, and `World` the positions
and then the messages. `flight` is what ENet holds, freed in any order. A unit
of data bears the client it comes from, its channel and its number, so that a
unit lost, repeated or torn from the rest of its message shows.

**Auth.** `requests`, the `requests` tables of the clients and
`pending_requests` are three tables that different handlers change. A handler
that raises a Lua error stops there that raises a Lua error stops there and what
it did stays; each action says at which line this happens. `peer` tells a client
that is connecting, one that waits for its auth and one that plays apart, since
`complete_request` treats them differently. An answer is looked up by request id
alone: any player may answer any request, and before its challenge has come, in
which case the challenge itself completes the request (`HandlerReplied`).
`Collect` is the garbage collector taking the handle of a timer, which cancels
the timer. `read_error` and `ProcessFailure` are the loop over the pending
requests, one iteration a step with all else excluded, in any order, as `pairs`
leaves it open.

## 3. Runs

| run | instance | checks |
|---|---|---|
| `ctf` | 2 clients, 2 flags, versions to 3 | types, `FlagRefsLive`, `OneFlagEach`, `DropRecordSound`, `ChangeBumpsVersion`, `LimitEndsMatch`, `ScoreNeedsBothFlags` |
| `ctf_protect` | protect mode, 1 flag, fair tick | `DroppedFlagLeaves` |
| `ctf_hold` | hold mode with history, two spawns, fair tick | `RetakeAtMostOnce`, `TeamkillerBarred`, `HeldFlagLeaves` |
| `aiman` | 2 clients, 2 bots, 1 posted removal, fair tick | types, `ListsSound`, `HandoverScheduled`, `EvenUnlessRefresh`, `RefreshEnds`, `HandoverDone` |
| `admission` | 2 numbers, 1 ordinary and 1 reserved slot, 3 connections, spies, spectator slots, auth, fair tick and callbacks | types, `SlotAccounting`, `KickedOnlyIfAsked`, `CrowdExplained`, `ConnectionEnds`, `KickedGoes` |
| `master` | 2 clients, 2 addresses | `PrivateKeepsOut`, `PauseHasMaster`, `ShownIsHeld`, `LastMasterResets` |
| `match` | 2 clients, a timed game and one without a map, delays to 1, fair tick | `VotesCarried`, `OneIntermission` (the refinement), `MatchMovesOn` |
| `modes` | a human and a bot, 2 teams with a base in collect and 1 without, 1 base in capture, low limits, fair tick | `BaseSound`, `NoPhantom`, `TokenRefsLive`, `TokenBound`, `AttackDecays` |
| `auth` | 2 numbers, 2 requests | `ListedLive`, `OutcomeBound` |
| `worldstate` | 2 humans and a bot, segments of 3 units, 4 units queued | types, `BufferLivesAsLong`, `EverybodyElse` |

Two runs show that the code does not do what a comment or an assertion of it
says; `PROJECT.json` quotes both sides.

| run | what TLC shows |
|---|---|
| `aiman_owner` | a bot that was waiting for its removal and is reused by `addai` is not entered in its owner's list, so it keeps an owner who has left |
| `auth_collision` | the deferred request of a client who left enters its id on the connection and stops before the id is counted up: the next request meets the assertion "request_id collison" |

More was met while modelling, and is in `PROJECT.json` or here without a run of
its own:

* `conf/server.conf` says a team killer cannot pick up the flag of his victim;
  after he has died himself he can (`TeamkillerBarred` says what does hold).
* Spies are left out of the client count and added to the limit as well, so that
  an ordinary client more than `maxclients` gets in (`CrowdExplained` says what
  does hold).
* The disconnect handler of `auth/core.lua` walks a table keyed by request id
  with `ipairs`, and so misses most requests it should cancel; and the ten
  seconds' timeout lasts only as long as the garbage collector leaves its handle
  alone.
* Line 44 of `conf/server.conf` says a master password overrides
  `allow_setmaster`, which `setmaster.lua` looks at first; line 33 says an admin
  who connects is invisible, but `setadmin` announces him.
* `player_slay` and `player_changeteam` change life and team without telling the
  mode. In capture a slain player stays in the count of the base, and respawning
  there counts him again. The handover of a living bot does the same: `reassign`
  forgets its position, and the bot enters its bases again with its next
  position and with its new spawn. `NoPhantom` therefore excludes matches in
  which one of these paths changed a player a base counts (`drift`).
* `stealbase` counts the players in clip material, whom `movebases` leaves out,
  and a match that goes on after its end has missed who left a base meanwhile;
  both are in `drift` too.
* The welcome packet sends every privilege, that of a spy included; the next
  `send_currentmaster` withdraws it (`ShownIsHeld` says what does hold).
* `reassignteams` off lets a team of capture be carried into collect, where it
  has no base. `droptokens` then counts all tokens of the player as friendly, and
  he may have up to twice `TOKENLIMIT` of one sort on the map (`TokenBound`).
* `auth_challenge_response` asks neither who answers nor whether the challenge has
  been sent, so that a remote request may be completed by its challenge, and be
  reported up to four times (`OutcomeBound`).
* `player_join_game` takes a client number: a success that comes late lets in
  whoever has the number by then.
* `taketoken` of collect raises what the player holds and leaves the token in the
  server's list (only the game client calls `removetoken`); it goes by age or by
  the limits.
* Delayed spectators get every world state at once, and what was broadcast later.

**Bounds.** Two clients are enough for every interplay of a carrier, a taker, a
killer and a client number that is used again, and two bots for one client to
have two more than the other; a third client in `AiMan` makes the run longer
than is practical, and `BotSafety` is proved for any number. `MaxVersion` only
stops `TakeFlag`, so the version of a flag rises at most a few steps beyond it
and the state space is finite; the versions in reach include take, drop, retake,
score and return of the same flag. The time limits are one or two ticks: what
matters is whether a time has run out. `MaxSession` bounds the connections: with
more connections than client numbers, numbers are used again. `MaxPosted` bounds
the waiting removals of one bot slot, and removals wait for one slot at a time.
The flag limit is low so that it is reached. `ctf_protect` has one flag, since
what must not happen to a flag is that it stays, and others act on it only
through the players, who take and return it as often as `MaxVersion` allows.
`MaxDelay` and `MaxDelayed` bound `spectator_delay` and the delayed queue: an
intermission waits for each of them and for both. `MaxRequests` is 2, so that a
request can meet another with the same client, connection or id; the next id
stays at 3 from then on. In `Modes`, `MaxSeconds` is what a tick may add,
`MaxScore` bounds the scores and `MaxTokens` the tokens that lie in the field
after a drop, `Walks` names who reports which position and whether in clip
material, and a path without hooks is taken once in a match (`drift`): one such
act is enough to make a count wrong, and each further one adds one more. There
is one base: bases act on each other only through the end of the match, which is
a choice. The bot meets clip material in it. One enemy takes two ticks to
convert it and three to win it from nobody, so that an attack can be left,
reversed and taken up again half way. Each player is of a team collect has a
base for or of one it has none for (`Joins`); so a team is changed in capture
and is brought into collect, and the change between two teams with a base in
collect is left to the proof of `TokenBound`, as it makes the run longer than is
practical. A pause is taken in capture only, where a property depends on it. In
`WorldState`, `MaxPosition`, `MaxMessages` and `MaxQueued` bound what is queued:
with segments of three units the data of a client and its bot are split in every
way, within the data of one owner too; the code's reserve and header are two
units and one.

**Symmetry** is used over clients (and addresses) in runs without temporal
formulas beyond action properties; the liveness runs use none.

**Fairness.** The update timer is armed again by each `update_server` only while
there is a client (`sched_next_update`), and a paused game has no game time. In
the flag modes and in `Modes` fairness is therefore of the mode's update in a
running match with somebody there (`Someone /\ PlayTick`, `Someone /\
CaptureTick(1)`), pausing and resuming are actions on which nothing is assumed,
and the formulas name what ends the obligation (`Frozen`): the match is over, it
is paused, or the server is empty. A flag the last client drops does lie on the
empty server for as long as nobody comes, and an attack the last attacker leaves
stands. `HandoverDone` says "while the match runs" in its own words; its
`WF(checkai)` is the same timer, which is still armed when the last client
leaves: the one update that follows runs the refresh the disconnect asked for,
and that one refresh removes the bots without owner. Nothing is assumed of
clients. `WF(execute_disconnect)` for each posted call: the `io_service` runs
what is posted to it. `WF(Tick)` of `Admission` closes unfinished connections,
and such a connection is itself a client for which the timer runs. In `Match`
the timer gives `WF(Passing)`, a tick that lets time pass while there is a
client, and `WF(sendpackets)`, the end of that update, which sends what is
delayed; both parts of `MatchMovesOn` name the exceptions, a paused game and an
empty server. `Auth` and `WorldState` claim no liveness: whether a timer fires
and a packet is freed is up to the garbage collector and the network.

## 4. Theorems

All hold for every value of the constants, under the named assumptions of the
modules (finite sets of client numbers where the code counts, positive limits,
`NoOne` and the like different from client numbers, client lists without
repetition). Every safety invariant and every action property that a passing run
checks is stated by a theorem. Each proof module proves one inductive invariant
and draws its theorems from it.

* `CtfProofs`: `TypeCorrect`, `FlagSafety` (`FlagRefsLive`), `OneCarrierOneFlag`
  (`OneFlagEach`), `DropRecordsSound` (`DropRecordSound`). The invariant is
  inductive only with all its parts: `dropcount` stays in {0, 1, INT_MAX}
  because a carried flag never has the penalty value, which is part of
  `DropRecordSound`. The proof is arranged by what happens to the flags vector -
  a client's flags are dropped, one flag is replaced, all age - so that each
  action only shows which kind it is.
  The action properties `StaleTakesRefused` (`ChangeBumpsVersion`),
  `LimitReached` (`LimitEndsMatch`: with the point that reaches the flag limit the
  match is over, or the time-up event was raised and a script prolonged it) and `ScoreTakesBothFlags`
  (`ScoreNeedsBothFlags`) rest on a finer account of what a step may do to one
  flag. The last one has a hypothesis, `OneFlagPerTeam`: the carrier of a flag
  may join that flag's team, so on a map where a team has two flags he could
  score with one of his own. It also needs that in ctf mode no score is negative
  and only flags of teams are carried (`CtfInv`).
  `FlagsGrowOlder` (`FlagTimersRun`) is about the two timers of a flag: in a
  match that goes on each tick brings the reset of a dropped flag nearer, and in
  hold mode the score of a held one. This rests on `HoldAssumption`, that hold
  mode has one flag (`HOLDFLAGS`), on which the model of `update` relies.
  `NoEndlessRetake` (`RetakeAtMostOnce`) and `TeamkillerNeverOwns`
  (`TeamkillerBarred`) are about `CtfHistory`. Their invariant ties the history
  of a flag to its record (`Recorded`): who took it last owns it or is its
  dropper, two takes in one life mean a drop count of at least one, and a team
  killer who still lives is the dropper of a flag with the penalty.
* `AiManProofs`: `TypeCorrect`, `ListsAreSound` (`ListsSound`), `BotSafety`
  (`HandoverScheduled`). Handover by `shiftai`, deletion by `deleteai` and the
  refresh by `checksetup` each have a lemma; the actions are instances.
  `EvenOrRefresh` (`EvenUnlessRefresh`) is about every step: numbers of bots that
  come to differ by two need a refresh. `reassignai` moves a bot from a client
  with most to one with fewest; that there are such clients is the
  well-foundedness of the naturals, used as a least-element principle.
  `LoopShrinks` is about the iterations of the loop of `checkai`: a bot moved
  from a client with more to one with at least two fewer leaves fewer pairs of
  bots with one owner (`Together`), so the loop ends after at most as many
  iterations as there are such pairs. Its lemmas count the pairs in a list.
* `AdmissionProofs`: `TypeCorrect`, `SlotSafety` (`SlotAccounting`, and
  `WithinCapacity` for servers without spies, spectator slots and auth),
  `KicksHitTheAsked` (`KickedOnlyIfAsked`) and, as an action property,
  `CrowdsExplained` (`CrowdExplained`). Strengthened by: an unused number has
  no reserved slot, sessions are no larger than the number of connections, and
  every posted call is for a session somebody asked about. The counting uses
  the cardinality theorems of the library.
  `KicksStayPosted` (`KickPending`) says that a connection somebody wanted gone
  has its own callback waiting as long as it is there. It is inductive only with
  `Numbered`: sessions are handed out once, so no two connections share one and
  none is asked for before its connection is there. `TimeoutsNear` says that an
  unfinished connection's timeout comes nearer with each tick; one that has
  expired can be passed over by a tick, since the loop of `serverupdate` that
  removes one skips the next, but then another one is closed in that tick.
* `MasterStateProofs`: `TypeCorrect`, `MasterSafety` (`PrivateKeepsOut`),
  `PausesHaveMasters` (`PauseHasMaster`), `ListsSound` (`ShownIsHeld`) as
  invariants, `LastMasterSafety` (`LastMasterResets`) as an action property. Each
  step ends in `cleanup_masterstate`, ends in `checkpausegame`, or leaves mode
  and pause alone; a lemma for each kind does the work. For the lists each step
  sends them to everybody, hides a new spy, or changes nobody's rank; they need
  that every spy's privilege is marked hidden (`SpyMarked`).
* `MatchProofs`: `TypeCorrect`, `VotesAreCarried` (`VotesCarried`) and
  `ImplementsCycle` (`OneIntermission`): `Match` implements `MatchCycle`. The
  refinement needs that the announcements of the present match are 0 before and
  1 during and after its intermission; the votes need that what a client has on
  record agrees with what it cast in this match (`mapchange` and the disconnect
  clear both). `IntermissionsNear` (`IntermissionNears`) says that while an
  intermission lasts nothing is queued, nothing sets its beginning later, and
  every tick with time passing adds to what it has waited, until that is more
  than any delay asks for and only packets still queued hold it up.
* `ModesProofs`: `TypeCorrect`, `BasesSound` (`BaseSound`), `NoPhantoms`
  (`NoPhantom`), `TokensOfTheLiving` (`TokenRefsLive`), `TokensBounded`
  (`TokenBound`). `NoPhantom` is proved base by base: the number of living
  players of a team inside a base changes by at most one in each hook, and
  lemmas say how `enter`, `leave`, `steal` and
  `occupy` keep the count below it. It needs `BaseSound`, that a map whose
  bases are not known yet, or another mode, counts nobody, and that a living
  player whose spawn is awaited has no position yet unless `drift` is set
  (`Armed`), which is what the handover of a living bot breaks. `TokenBound` counts
  tokens as the size of a set of pieces, one for each token of a kind, so that
  kinds apart are counted apart. A player's death trims its friendly and its
  enemy tokens each to the limit, by the team it has then; the team may change
  later, so the bound is that there is a team, that of the last trim, by which
  both sorts keep to the limit. Who has died in a team without a base has tokens of
  one sort only, trimmed to a limit each time before as many are dropped: for him
  twice the limit in all is the bound that holds.
  `AttacksWane` says of every step that an attack without attackers does not
  grow, and of every tick of `occupy` with time passing that it takes from it;
  the lemmas `Wane...` show it hook by hook.
* `AuthProofs`: `TypeCorrect`, `ListedAreLive` (`ListedLive`), `OutcomesBounded`
  (`OutcomeBound`). Strengthened by: every listed request bears its client's
  name, ids not yet issued are in no table of the server, what the failure loop
  still has to do is pending, and a budget for each request of the reports that
  its tables still allow for: a report always uses up a part of it. For a remote
  request the budget is four: its place in `requests`, a challenge that comes
  after an answer, a send that fails, and the reply or the lost connection.

* `WorldStateProofs`: `TypeCorrect`, `BuffersLive` (`BufferLivesAsLong`),
  `EverybodyElseServed` (`EverybodyElse`), for any client and bot lists, any
  lengths and any segment size. The heart is `Core`, an invariant of the
  accumulator of the loops: in the segment being filled every unit has one place
  and each client's own data are one stretch, the one `wsdata` and `wslen` give;
  the packets sent bring what was added in earlier segments, each unit once to
  everybody but its carrier and whole; and each of those units takes two places
  of the buffer. Adding data keeps it because a client's data, and then those of
  its bots, come at the end of the segment (`Last`); sending keeps it because the
  slice of the doubled segment is exactly what is not the client's own
  (`SliceReads`). The loops are functions of the loop counter, and `UpTo` is the
  induction over it, from the least counterexample. That the buffer is large
  enough (`Fits`) is an injection of the units into the room counted by the
  first loop of `buildworldstate`, and needs that the header put in front of
  messages is no longer than the ten bytes reserved. `BufferLivesAsLong` is
  inductive with the type invariant: the packets of a new buffer are counted
  once by client and once all together (`CountByKey`).

Only model-checked: everything about liveness and fairness, which is out of the
prover's reach, and the two violations, `BotOwnerConnected` and `NextIdFree`,
which are counterexamples. For most of the liveness properties the part that
does not speak of fairness is proved: that what leads to the end is there, is
never lost, and comes nearer with each step of the timer. TLC alone shows that
these steps are taken.

| liveness property | proved part |
|---|---|
| `DroppedFlagLeaves`, `HeldFlagLeaves` | `FlagsGrowOlder` |
| `RefreshEnds` | `LoopShrinks` |
| `HandoverDone` | `BotSafety`: a bot without owner or not yet announced has a refresh scheduled |
| `ConnectionEnds` | `TimeoutsNear` |
| `KickedGoes` | `KicksStayPosted` |
| `MatchMovesOn` | `IntermissionsNear`, for the intermission |
| `AttackDecays` | `AttacksWane` |

## 5. Not modelled

* Vendored libraries (enet, Lua, SQLite bindings, zlib), which make up most of
  the lines of the repository, the interpreters and bindings, the HTTP server,
  statistics and IRC (I/O on top of events), anticheat thresholds, and all code
  of the game client in the files of the game modes.
* The queue of game events (shots, explosions, pickups), weapons and damage:
  timing rules over floating point positions. Death is a choice in `Ctf` and
  `Modes`.
* The accept path of the engine, which runs the update and other network events
  before it calls `clientconnect`: what ENet reports for a peer inside that
  peer's own connect event cannot be told from the source here. `Admission` takes
  accepting as one step.
* Items, saved scores, the choice of a team for a newcomer, and the arithmetic
  of `balanceteams`: data with one owner and little order. `Modes` lets
  `balanceteams` choose any team.
* The throttle of disconnect messages and flood limits, on which only messages
  depend, and the prefix tree of the bans, a pure algorithm on pointers.
* Lua scripts other than `setmaster.lua` and the auth scripts: their decisions
  are choices where they act on a modelled component.
