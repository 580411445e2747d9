------------------------------- MODULE AiMan -------------------------------
(***************************************************************************)
(* The server's bot manager (fpsgame/aiman.h): which client runs which     *)
(* bot.  Each bot names its owner (ownernum) and each client lists its     *)
(* bots; handlers change both and ask for a refresh, which the next server *)
(* tick of a running match carries out (checkai).  Teams, skills and the   *)
(* value of botlimit are left out: a master's request meets any limit.     *)
(*                                                                         *)
(* The while loop of checkai is taken iteration by iteration: while        *)
(* `looping' holds no other step is possible.                              *)
(***************************************************************************)
EXTENDS Integers, FiniteSets

CONSTANTS
  Cns,         \* client numbers of people
  MAXBOTS,     \* number of bot slots
  None,        \* the -1 of ownernum: the bot is to be removed
  NoBot,       \* NULL in the bots vector
  MaxPosted    \* bound on the posted execute_deletebot calls for one slot

ASSUME BotAssumption == MAXBOTS \in Nat /\ MaxPosted \in Nat
ASSUME CnAssumption ==
  /\ IsFiniteSet(Cns)
  /\ None \notin Cns
  /\ NoBot \notin Cns \cup {None}

VARIABLES
  human,       \* [Cns -> life, privilege and spy flag]
  ownernum,    \* [Slots -> owner of the bot in the slot, None or NoBot]
  aireinit,    \* [Slots -> 0..2] what the next refresh announces
  owned,       \* [Cns -> set of slots] clientinfo::bots
  told,        \* [Slots -> owner in the last N_INITAI] what clients believe
  dorefresh,
  looping,     \* checkai is inside while(reassignai())
  botmode,     \* m_botmode
  running,     \* ticks reach checkai: not paused, gamemillis < gamelimit
  posted       \* [Slots -> posted execute_deletebot calls]

vars == <<human, ownernum, aireinit, owned, told, dorefresh, looping, botmode,
          running, posted>>

Slots == 0..(MAXBOTS - 1)
PRIV_NONE == 0
PRIV_MASTER == 1
PRIV_ADMIN == 3
Privileges == {PRIV_NONE, PRIV_MASTER, PRIV_ADMIN}
Lives == {"off", "playing", "spectator"}
Gone == [life |-> "off", priv |-> PRIV_NONE, spy |-> FALSE]

Connected(c) == human[c].life # "off"
Exists(b) == ownernum[b] # NoBot
HasOwner(b) == ownernum[b] \notin {None, NoBot}
Load(o, c) == Cardinality(o[c])

Init ==
  /\ human = [c \in Cns |-> Gone]
  /\ ownernum = [b \in Slots |-> NoBot]
  /\ aireinit = [b \in Slots |-> 0]
  /\ owned = [c \in Cns |-> {}]
  /\ told = [b \in Slots |-> None]
  /\ dorefresh = FALSE
  /\ looping = FALSE
  /\ botmode \in BOOLEAN
  /\ running = TRUE
  /\ posted = [b \in Slots |-> 0]

-----------------------------------------------------------------------------
(***************************************************************************)
(* Helpers.  Ties between clients fall to their order in the clients       *)
(* vector, and a list gives up its bots in list order; both are left open. *)
(***************************************************************************)
validaiclient(h, c) ==
  /\ h[c].life = "playing" \/ (h[c].life = "spectator" /\ h[c].priv # PRIV_NONE)
  /\ ~h[c].spy

Valid == {c \in Cns : validaiclient(human, c)}

\* The owners findaiclient may return, None when there is no valid client.
findaiclient ==
  IF Valid = {} THEN {None}
  ELSE {c \in Valid : \A d \in Valid : Load(owned, c) <= Load(owned, d)}

\* Mutated form of shiftai: no refresh is asked for.
shiftaiQuiet(moved, heir, refresh) ==
  /\ owned' = [d \in Cns |-> (owned[d] \ moved) \cup {b \in moved : heir[b] = d}]
  /\ ownernum' = [b \in Slots |-> IF b \in moved THEN heir[b] ELSE ownernum[b]]
  /\ aireinit' = [b \in Slots |-> IF b \notin moved THEN aireinit[b]
                                  ELSE IF heir[b] = None THEN 0 ELSE 2]
  /\ dorefresh' = refresh

\* Mutated form of shiftai: the previous owner keeps the bot in its list.
shiftaiListed(moved, heir, refresh) ==
  /\ owned' = [d \in Cns |-> owned[d] \cup {b \in moved : heir[b] = d}]
  /\ ownernum' = [b \in Slots |-> IF b \in moved THEN heir[b] ELSE ownernum[b]]
  /\ aireinit' = [b \in Slots |-> IF b \notin moved THEN aireinit[b]
                                  ELSE IF heir[b] = None THEN 0 ELSE 2]
  /\ dorefresh' = (refresh \/ moved # {})

\* Mutated form of shiftai: aireinit is added to instead of set.
shiftaiCount(moved, heir, refresh) ==
  /\ owned' = [d \in Cns |-> (owned[d] \ moved) \cup {b \in moved : heir[b] = d}]
  /\ ownernum' = [b \in Slots |-> IF b \in moved THEN heir[b] ELSE ownernum[b]]
  /\ aireinit' = [b \in Slots |-> IF b \notin moved THEN aireinit[b]
                                  ELSE IF heir[b] = None THEN 0 ELSE aireinit[b] + 2]
  /\ dorefresh' = (refresh \/ moved # {})

\* shiftai of each bot of the set `moved' to its heir; refresh is dorefresh
\* as the caller leaves it.
shiftai(moved, heir, refresh) ==
  /\ owned' = [d \in Cns |-> (owned[d] \ moved) \cup {b \in moved : heir[b] = d}]
  /\ ownernum' = [b \in Slots |-> IF b \in moved THEN heir[b] ELSE ownernum[b]]
  /\ aireinit' = [b \in Slots |-> IF b \notin moved THEN aireinit[b]
                                  ELSE IF heir[b] = None THEN 0 ELSE 2]
  /\ dorefresh' = (refresh \/ moved # {})

\* removeai: every bot of c goes to the client with the fewest bots at that
\* moment, so that no heir ends up two bots above another valid client; with
\* no valid client left the bot is marked for removal.
removeai(c, h, refresh) ==
  LET heirs == {d \in Cns \ {c} : validaiclient(h, d)}
      moved == owned[c]
      heirload(heir, d) == Load(owned, d) + Cardinality({b \in moved : heir[b] = d})
  IN  \E heir \in [moved -> IF heirs = {} THEN {None} ELSE heirs] :
        /\ heirs # {} => \A b \in moved, d \in heirs :
                           heirload(heir, heir[b]) - 1 <= heirload(heir, d)
        /\ shiftai(moved, heir, refresh)

\* deleteai(ci) for all the bots of a set: each leaves the list of the client
\* its ownernum names, and no other list.
deleteai(gone, refresh) ==
  /\ owned' = [c \in Cns |-> owned[c] \ {b \in gone : ownernum[b] = c}]
  /\ ownernum' = [b \in Slots |-> IF b \in gone THEN NoBot ELSE ownernum[b]]
  /\ aireinit' = [b \in Slots |-> IF b \in gone THEN 0 ELSE aireinit[b]]
  /\ told' = [b \in Slots |-> IF b \in gone THEN None ELSE told[b]]
  /\ dorefresh' = (refresh \/ gone # {})

AllBots == {b \in Slots : Exists(b)}

-----------------------------------------------------------------------------
(***************************************************************************)
(* Clients.                                                                *)
(***************************************************************************)
\* connected: a spectator in mastermode locked; privileged, or a spy, when
\* the connecting event made him one.
connected(c, life, priv, spy) ==
  /\ ~Connected(c)
  /\ spy => priv = PRIV_ADMIN
  /\ human' = [human EXCEPT ![c] = [life |-> life, priv |-> priv, spy |-> spy]]
  /\ dorefresh' = TRUE
  /\ UNCHANGED <<ownernum, aireinit, owned, told, looping, botmode, running, posted>>

\* clientdisconnect: when nobody and no bot is left, noclients finds no bot
\* to clear; otherwise a refresh is asked for.
clientdisconnect(c) ==
  LET h == [human EXCEPT ![c] = Gone]
      others == AllBots # {} \/ \E d \in Cns : h[d].life # "off"
  IN  /\ Connected(c)
      /\ human' = h
      /\ removeai(c, h, dorefresh \/ others)
      /\ UNCHANGED <<told, looping, botmode, running, posted>>

\* setspectator(ci, true).
setspectator(c) ==
  LET h == [human EXCEPT ![c].life = "spectator"]
  IN  /\ human[c].life = "playing"
      /\ ~human[c].spy
      /\ human' = h
      /\ IF human[c].priv = PRIV_NONE THEN removeai(c, h, dorefresh)
         ELSE UNCHANGED <<ownernum, aireinit, owned, dorefresh>>
      /\ UNCHANGED <<told, looping, botmode, running, posted>>

\* setspectator(ci, false).
unspectate(c) ==
  /\ human[c].life = "spectator"
  /\ ~human[c].spy
  /\ human' = [human EXCEPT ![c].life = "playing"]
  /\ dorefresh' = TRUE
  /\ UNCHANGED <<ownernum, aireinit, owned, told, looping, botmode, running, posted>>

\* set_spy(cn, true) of a connected client.  A privileged one keeps its bots,
\* even though a spy is no valid owner.
enterSpy(c) ==
  LET h == [human EXCEPT ![c].life = "spectator"]
  IN  /\ Connected(c)
      /\ ~human[c].spy
      /\ human' = [human EXCEPT ![c] =
                     [life |-> "spectator", priv |-> PRIV_ADMIN, spy |-> TRUE]]
      /\ IF human[c].life = "playing" /\ human[c].priv = PRIV_NONE
         THEN removeai(c, h, dorefresh)
         ELSE UNCHANGED <<ownernum, aireinit, owned, dorefresh>>
      /\ UNCHANGED <<told, looping, botmode, running, posted>>

\* N_SPAWN from a spy, who connected as one or spawns a bot he still runs: he
\* spectates from now on.
spySpawns(c) ==
  LET h == [human EXCEPT ![c].life = "spectator"]
  IN  /\ human[c].life = "playing" \/ (Connected(c) /\ \E b \in Slots : ownernum[b] = c)
      /\ human[c].spy
      /\ human' = h
      /\ IF human[c].priv = PRIV_NONE THEN removeai(c, h, dorefresh)
         ELSE UNCHANGED <<ownernum, aireinit, owned, dorefresh>>
      /\ UNCHANGED <<told, looping, botmode, running, posted>>

\* set_spy(cn, false): he plays again if the mastermode is open or veto.
leaveSpy(c, open) ==
  /\ human[c].spy
  /\ human' = [human EXCEPT ![c].spy = FALSE,
                            ![c].life = IF open THEN "playing" ELSE @]
  /\ dorefresh' = (dorefresh \/ (open /\ human[c].life = "spectator"))
  /\ UNCHANGED <<ownernum, aireinit, owned, told, looping, botmode, running, posted>>

\* set_player_privilege.
set_player_privilege(c, priv) ==
  /\ Connected(c)
  /\ priv \notin {PRIV_NONE, human[c].priv}
  /\ human' = [human EXCEPT ![c].priv = priv]
  /\ UNCHANGED <<ownernum, aireinit, owned, told, dorefresh, looping, botmode,
                 running, posted>>

\* unset_player_privilege: a spectator may not own bots without a privilege.
unset_player_privilege(c) ==
  LET h == [human EXCEPT ![c].priv = PRIV_NONE]
  IN  /\ Connected(c)
      /\ human[c].priv # PRIV_NONE
      /\ human' = h
      /\ IF human[c].life = "spectator" THEN removeai(c, h, dorefresh)
         ELSE UNCHANGED <<ownernum, aireinit, owned, dorefresh>>
      /\ UNCHANGED <<told, looping, botmode, running, posted>>

\* unsetmaster: all masters at once, and their bots stay where they are.
unsetmaster ==
  /\ human' = [c \in Cns |-> IF human[c].priv = PRIV_MASTER
                             THEN [human[c] EXCEPT !.priv = PRIV_NONE] ELSE human[c]]
  /\ UNCHANGED <<ownernum, aireinit, owned, told, dorefresh, looping, botmode,
                 running, posted>>

-----------------------------------------------------------------------------
(***************************************************************************)
(* Bots.                                                                   *)
(***************************************************************************)
\* addai: the first slot that is free or whose bot waits for its removal.
\* A bot that is kept gets an owner, which does not get the bot in its list.
addai(limit) ==
  /\ Cardinality({b \in Slots : HasOwner(b)}) < limit
  /\ \E b \in Slots, owner \in findaiclient :
       /\ ~HasOwner(b)
       /\ \A a \in Slots : a < b => HasOwner(a)
       /\ ownernum' = [ownernum EXCEPT ![b] = owner]
       /\ aireinit' = [aireinit EXCEPT ![b] = 2]
       /\ owned' = IF Exists(b) \/ owner = None THEN owned
                   ELSE [owned EXCEPT ![owner] = @ \cup {b}]
  /\ dorefresh' = TRUE
  /\ UNCHANGED <<human, told, looping, botmode, running, posted>>

\* N_ADDBOT; botlimit binds who is no admin.  execute_addbot is the same
\* without a client.
reqadd(c) ==
  /\ Connected(c)
  /\ human[c].priv # PRIV_NONE
  /\ \E limit \in IF human[c].priv < PRIV_ADMIN THEN 0..MAXBOTS ELSE {MAXBOTS} :
       addai(limit)

execute_addbot == addai(MAXBOTS)

\* N_DELBOT: the last bot that has an owner.
reqdel(c) ==
  /\ Connected(c)
  /\ human[c].priv # PRIV_NONE
  /\ \E b \in Slots :
       /\ HasOwner(b)
       /\ \A a \in Slots : a > b => ~HasOwner(a)
       /\ deleteai({b}, dorefresh)
  /\ UNCHANGED <<human, looping, botmode, running, posted>>

\* deletebot: a script posts the removal of a bot; by the time it is executed
\* the slot may be empty or hold another bot.
deletebot(b) ==
  /\ Exists(b)
  /\ posted[b] < MaxPosted
  /\ \A s \in Slots \ {b} : posted[s] = 0
  /\ posted' = [posted EXCEPT ![b] = @ + 1]
  /\ UNCHANGED <<human, ownernum, aireinit, owned, told, dorefresh, looping, botmode,
                 running>>

execute_deletebot(b) ==
  /\ posted[b] > 0
  /\ posted' = [posted EXCEPT ![b] = @ - 1]
  /\ deleteai({b} \cap AllBots, dorefresh)
  /\ UNCHANGED <<human, looping, botmode, running>>

\* setbotlimit, setbotbalance and changeteam.
askrefresh ==
  /\ dorefresh' = TRUE
  /\ UNCHANGED <<human, ownernum, aireinit, owned, told, looping, botmode, running, posted>>

\* changemap: clearai, the new mode, aiman::changemap.
changemap ==
  /\ botmode' \in BOOLEAN
  /\ running' = TRUE
  /\ deleteai(AllBots, TRUE)
  /\ UNCHANGED <<human, looping, posted>>

\* The match is paused or resumed, ends or is prolonged.
pause ==
  /\ running' = ~running
  /\ UNCHANGED <<human, ownernum, aireinit, owned, told, dorefresh, looping, botmode, posted>>

-----------------------------------------------------------------------------
(***************************************************************************)
(* The refresh.                                                            *)
(***************************************************************************)
\* checksetup: bots without an owner are deleted, new owners announced.
checksetup ==
  LET gone == {b \in Slots : ownernum[b] = None}
      news == {b \in Slots : HasOwner(b) /\ aireinit[b] >= 1}
  IN  /\ ownernum' = [b \in Slots |-> IF b \in gone THEN NoBot ELSE ownernum[b]]
      /\ aireinit' = [b \in Slots |-> IF b \in gone \cup news THEN 0 ELSE aireinit[b]]
      /\ told' = [b \in Slots |-> IF b \in news THEN ownernum[b]
                                  ELSE IF b \in gone THEN None ELSE told[b]]
      /\ dorefresh' = (gone # {})
      /\ UNCHANGED owned

\* checkai up to its while loop.  Spies do not count in numclients.
checkai ==
  /\ running
  /\ dorefresh
  /\ ~looping
  /\ IF botmode /\ \E c \in Cns : Connected(c) /\ ~human[c].spy
     THEN checksetup /\ looping' = TRUE
     ELSE deleteai(AllBots, FALSE) /\ UNCHANGED looping
  /\ UNCHANGED <<human, botmode, running, posted>>

\* Mutated form of Uneven: a difference of one is evened out as well.
UnevenByOne(hi, lo) ==
  /\ {hi, lo} \subseteq Valid
  /\ \A c \in Valid : Load(owned, lo) <= Load(owned, c) /\ Load(owned, c) <= Load(owned, hi)
  /\ Load(owned, hi) - Load(owned, lo) >= 1

\* Mutated form of Uneven: a difference of two is left alone.
UnevenByThree(hi, lo) ==
  /\ {hi, lo} \subseteq Valid
  /\ \A c \in Valid : Load(owned, lo) <= Load(owned, c) /\ Load(owned, c) <= Load(owned, hi)
  /\ Load(owned, hi) - Load(owned, lo) > 2

\* The condition of reassignai on the clients with most and fewest bots.
Uneven(hi, lo) ==
  /\ {hi, lo} \subseteq Valid
  /\ \A c \in Valid : Load(owned, lo) <= Load(owned, c) /\ Load(owned, c) <= Load(owned, hi)
  /\ Load(owned, hi) - Load(owned, lo) > 1

\* reassignai returns true: one bot has moved.
reassignai ==
  /\ looping
  /\ \E hi, lo \in Cns : Uneven(hi, lo) /\
       \E b \in owned[hi] : shiftai({b}, [a \in {b} |-> lo], dorefresh)
  /\ UNCHANGED <<human, told, looping, botmode, running, posted>>

\* reassignai returns false: the refresh is over.
reassigned ==
  /\ looping
  /\ ~\E hi, lo \in Cns : Uneven(hi, lo)
  /\ looping' = FALSE
  /\ UNCHANGED <<human, ownernum, aireinit, owned, told, dorefresh, botmode, running, posted>>

ClientStep ==
  \E c \in Cns :
    \/ \E life \in Lives \ {"off"}, p \in Privileges, spy \in BOOLEAN : connected(c, life, p, spy)
    \/ clientdisconnect(c)
    \/ setspectator(c) \/ unspectate(c)
    \/ enterSpy(c) \/ spySpawns(c)
    \/ \E open \in BOOLEAN : leaveSpy(c, open)
    \/ \E p \in Privileges : set_player_privilege(c, p)
    \/ unset_player_privilege(c)
    \/ reqadd(c) \/ reqdel(c)

ServerStep ==
  \/ unsetmaster \/ execute_addbot \/ askrefresh \/ changemap \/ pause
  \/ \E b \in Slots : deletebot(b) \/ execute_deletebot(b)

Next ==
  \/ ~looping /\ (ClientStep \/ ServerStep)
  \/ checkai \/ reassignai \/ reassigned

\* A tick comes every few milliseconds, once more after the last client has
\* left (the timer is armed by then), and a loop that is entered is run.
Fairness == WF_vars(checkai) /\ WF_vars(reassignai) /\ WF_vars(reassigned)

Spec == Init /\ [][Next]_vars

FairSpec == Spec /\ Fairness

-----------------------------------------------------------------------------
(***************************************************************************)
(* Properties                                                              *)
(***************************************************************************)
\* The type invariant.
TypeOK ==
  /\ human \in [Cns -> [life: Lives, priv: Privileges, spy: BOOLEAN]]
  /\ ownernum \in [Slots -> Cns \cup {None, NoBot}]
  /\ aireinit \in [Slots -> 0..2]
  /\ owned \in [Cns -> SUBSET Slots]
  /\ told \in [Slots -> Cns \cup {None}]
  /\ dorefresh \in BOOLEAN /\ looping \in BOOLEAN /\ botmode \in BOOLEAN
  /\ running \in BOOLEAN
  /\ posted \in [Slots -> 0..MaxPosted]

\* A client lists only bots that exist and name it as their owner, and only a
\* connected client lists any: clientinfo::bots holds no pointer to a deleted
\* bot, and no bot is in two lists, whatever moves, removals and reuses of
\* client numbers and slots come together.
ListsSound ==
  \A c \in Cns : \A b \in owned[c] : ownernum[b] = c /\ Connected(c)

\* A bot without an owner and an owner the clients have not been told of are
\* never forgotten: a refresh is pending, and the bot is marked for it.
HandoverScheduled ==
  \A b \in Slots : Exists(b) =>
    /\ ownernum[b] = None => dorefresh
    /\ HasOwner(b) /\ told[b] # ownernum[b] => dorefresh /\ aireinit[b] >= 1

\* A step after which no refresh is pending has not made the numbers of bots
\* of two valid clients differ by two, and the loop of checkai ends only when
\* no two valid clients do.
EvenUnlessRefresh ==
  [][~dorefresh' /\ ~looping' =>
       \A c, d \in {x \in Cns : validaiclient(human, x) /\ validaiclient(human', x)} :
         Load(owned', c) - Load(owned', d) > 1
           => ~looping /\ Load(owned, c) - Load(owned, d) > 1]_vars

\* The loop of checkai comes to an end: a bot does not go to and fro between
\* two clients inside one tick.
RefreshEnds == looping ~> ~looping

\* While the match runs a bot that lost its owner, or whose owner is not yet
\* known to the clients, is removed or has an owner they know.
HandoverDone ==
  \A b \in Slots :
    (Exists(b) /\ (ownernum[b] = None \/ told[b] # ownernum[b]))
      ~> (~Exists(b) \/ (HasOwner(b) /\ told[b] = ownernum[b]) \/ ~running)

\* What the comment of removeai promises for the bots of a client who leaves:
\* "either schedules a removal, or someone else to assign to".  So no bot
\* keeps an owner who is not there.
BotOwnerConnected == \A b \in Slots : HasOwner(b) => Connected(ownernum[b])
=============================================================================
