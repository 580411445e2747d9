---------------------------- MODULE AiManProofs ----------------------------
(***************************************************************************)
(* For any clients and any number of bot slots: the bot lists of the       *)
(* clients are sound, a bot that needs a refresh has one scheduled, and    *)
(* the bots are spread evenly unless a refresh is pending.                 *)
(*                                                                         *)
(* The invariant is inductive as it stands.  Every step changes the bots   *)
(* in one of four ways - not at all, by moving some, by deleting some, by  *)
(* adding one - and one lemma for each of these carries the invariant.     *)
(*                                                                         *)
(* Last, the loop of checkai ends: each turn makes fewer pairs of bots     *)
(* that share an owner (RefreshShrinks).                                   *)
(***************************************************************************)
EXTENDS AiMan, FiniteSetTheorems, WellFoundedInduction, TLAPS

Inv == TypeOK /\ ListsSound /\ HandoverScheduled

Human == [life: Lives, priv: Privileges, spy: BOOLEAN]

\* What the bots keep of their own: the part of TypeOK about them.
BotTypes ==
  /\ ownernum \in [Slots -> Cns \cup {None, NoBot}]
  /\ aireinit \in [Slots -> 0..2]
  /\ owned \in [Cns -> SUBSET Slots]
  /\ told \in [Slots -> Cns \cup {None}]
  /\ dorefresh \in BOOLEAN

\* The part of TypeOK about everything else.
RestTypes ==
  /\ human \in [Cns -> Human]
  /\ looping \in BOOLEAN /\ botmode \in BOOLEAN /\ running \in BOOLEAN
  /\ posted \in [Slots -> 0..MaxPosted]

\* TypeOK is the conjunction of its two parts.
LEMMA TypeSplit == TypeOK <=> BotTypes /\ RestTypes
BY Zenon DEF TypeOK, BotTypes, RestTypes, Human

\* A step that leaves the bots and their lists alone, disconnects nobody and
\* does not take back a refresh keeps the invariant.
LEMMA QuietStep ==
  ASSUME Inv, RestTypes', dorefresh' \in BOOLEAN, dorefresh => dorefresh',
         UNCHANGED <<ownernum, aireinit, owned, told>>,
         \A c \in Cns : Connected(c) => human'[c].life # "off"
  PROVE  Inv'
<1>1. TypeOK'
  BY TypeSplit DEF Inv, TypeOK, BotTypes, RestTypes, Human
<1>2. ListsSound'
  BY DEF Inv, ListsSound, Connected
<1>3. HandoverScheduled'
  BY DEF Inv, HandoverScheduled, Exists, HasOwner
<1> QED BY <1>1, <1>2, <1>3 DEF Inv

\* shiftai keeps the invariant, if every heir stays connected and a client
\* that leaves has its whole list moved.
LEMMA ShiftStep ==
  ASSUME Inv, RestTypes', NEW moved \in SUBSET Slots,
         NEW heir \in [moved -> Cns \cup {None}],
         NEW refresh \in BOOLEAN, dorefresh => refresh,
         shiftai(moved, heir, refresh), told' = told,
         \A b \in moved : heir[b] # None => human'[heir[b]].life # "off",
         \A c \in Cns : Connected(c) /\ human'[c].life = "off" => owned[c] \subseteq moved
  PROVE  Inv'
<1>1. BotTypes'
  <2>1. ownernum' \in [Slots -> Cns \cup {None, NoBot}]
    BY DEF Inv, TypeOK, shiftai
  <2>2. aireinit' \in [Slots -> 0..2]
    BY DEF Inv, TypeOK, shiftai
  <2>3. owned' \in [Cns -> SUBSET Slots]
    BY DEF Inv, TypeOK, shiftai
  <2>4. told' \in [Slots -> Cns \cup {None}] /\ dorefresh' \in BOOLEAN
    BY DEF Inv, TypeOK, shiftai
  <2> QED BY <2>1, <2>2, <2>3, <2>4 DEF BotTypes
<1>2. TypeOK'
  BY <1>1, TypeSplit DEF TypeOK, BotTypes, RestTypes, Human
<1>3. ListsSound'
  <2> SUFFICES ASSUME NEW c \in Cns, NEW b \in owned'[c]
               PROVE  ownernum'[b] = c /\ human'[c].life # "off"
    BY DEF ListsSound, Connected
  <2>1. b \in Slots
    BY <1>1 DEF BotTypes
  <2>2. CASE b \in moved
    <3>1. heir[b] = c
      BY <2>2 DEF shiftai, Inv, TypeOK
    <3>2. ownernum'[b] = c
      BY <2>1, <2>2, <3>1 DEF shiftai
    <3> QED BY <2>2, <3>1, <3>2, CnAssumption
  <2>3. CASE b \notin moved
    <3>1. b \in owned[c]
      BY <2>3 DEF shiftai, Inv, TypeOK
    <3>2. ownernum[b] = c /\ Connected(c)
      BY <3>1 DEF Inv, ListsSound
    <3>3. ownernum'[b] = c
      BY <2>1, <2>3, <3>2 DEF shiftai
    <3> QED BY <2>3, <3>1, <3>2, <3>3
  <2> QED BY <2>2, <2>3
<1>4. HandoverScheduled'
  <2> SUFFICES ASSUME NEW b \in Slots, ownernum'[b] # NoBot
               PROVE  /\ ownernum'[b] = None => dorefresh'
                      /\ ownernum'[b] \notin {None, NoBot} /\ told'[b] # ownernum'[b]
                           => dorefresh' /\ aireinit'[b] >= 1
    BY DEF HandoverScheduled, Exists, HasOwner
  <2>1. CASE b \in moved
    <3>1. dorefresh' /\ ownernum'[b] = heir[b]
      BY <2>1 DEF shiftai
    <3>2. heir[b] # None => aireinit'[b] = 2
      BY <2>1 DEF shiftai
    <3> QED BY <3>1, <3>2
  <2>2. CASE b \notin moved
    <3>1. ownernum'[b] = ownernum[b] /\ aireinit'[b] = aireinit[b]
      BY <2>2 DEF shiftai
    <3>2. dorefresh => dorefresh'
      BY DEF shiftai
    <3> QED BY <3>1, <3>2 DEF Inv, HandoverScheduled, Exists, HasOwner
  <2> QED BY <2>1, <2>2
<1> QED BY <1>2, <1>3, <1>4 DEF Inv

\* removeai(c) keeps the invariant, when no other client changes.
LEMMA RemoveStep ==
  ASSUME Inv, RestTypes', NEW c \in Cns, NEW h,
         NEW refresh \in BOOLEAN, dorefresh => refresh,
         removeai(c, h, refresh), told' = told,
         \A d \in Cns \ {c} : h[d] = human[d] /\ human'[d] = human[d]
  PROVE  Inv'
<1> DEFINE heirs == {d \in Cns \ {c} : validaiclient(h, d)}
<1>1. PICK heir \in [owned[c] -> IF heirs = {} THEN {None} ELSE heirs] :
        shiftai(owned[c], heir, refresh)
  BY Zenon DEF removeai
<1>2. owned[c] \in SUBSET Slots
  BY DEF Inv, TypeOK
<1>3. heir \in [owned[c] -> Cns \cup {None}]
  BY <1>1
<1>4. \A b \in owned[c] : heir[b] # None => human'[heir[b]].life # "off"
  BY <1>1 DEF validaiclient
<1>5. \A d \in Cns : Connected(d) /\ human'[d].life = "off" => owned[d] \subseteq owned[c]
  BY DEF Connected
<1> QED BY <1>1, <1>2, <1>3, <1>4, <1>5, ShiftStep

\* deleteai keeps the invariant, if it deletes all bots or the refresh asked
\* for before stays asked for.
LEMMA DeleteStep ==
  ASSUME Inv, RestTypes', human' = human, NEW gone \in SUBSET Slots,
         NEW refresh \in BOOLEAN, (dorefresh => refresh) \/ gone = AllBots,
         deleteai(gone, refresh)
  PROVE  Inv'
<1>1. BotTypes'
  <2>1. ownernum' \in [Slots -> Cns \cup {None, NoBot}]
    BY DEF Inv, TypeOK, deleteai
  <2>2. aireinit' \in [Slots -> 0..2]
    BY DEF Inv, TypeOK, deleteai
  <2>3. owned' \in [Cns -> SUBSET Slots]
    BY DEF Inv, TypeOK, deleteai
  <2>4. told' \in [Slots -> Cns \cup {None}] /\ dorefresh' \in BOOLEAN
    BY DEF Inv, TypeOK, deleteai
  <2> QED BY <2>1, <2>2, <2>3, <2>4 DEF BotTypes
<1>2. TypeOK'
  BY <1>1, TypeSplit DEF TypeOK, BotTypes, RestTypes, Human
<1>3. ListsSound'
  <2> SUFFICES ASSUME NEW c \in Cns, NEW b \in owned'[c]
               PROVE  ownernum'[b] = c /\ Connected(c)'
    BY DEF ListsSound
  <2>1. b \in owned[c] /\ ~(b \in gone /\ ownernum[b] = c)
    BY DEF deleteai
  <2>2. ownernum[b] = c /\ Connected(c)
    BY <2>1 DEF Inv, ListsSound
  <2>3. b \in Slots
    BY <1>1 DEF BotTypes
  <2>4. ownernum'[b] = ownernum[b]
    BY <2>1, <2>2, <2>3 DEF deleteai
  <2> QED BY <2>2, <2>4 DEF Connected
<1>4. HandoverScheduled'
  <2> SUFFICES ASSUME NEW b \in Slots, ownernum'[b] # NoBot
               PROVE  /\ ownernum'[b] = None => dorefresh'
                      /\ ownernum'[b] \notin {None, NoBot} /\ told'[b] # ownernum'[b]
                           => dorefresh' /\ aireinit'[b] >= 1
    BY DEF HandoverScheduled, Exists, HasOwner
  <2>1. b \notin gone
    BY DEF deleteai
  <2>2. /\ ownernum'[b] = ownernum[b]
        /\ aireinit'[b] = aireinit[b]
        /\ told'[b] = told[b]
    BY <2>1 DEF deleteai
  <2>3. dorefresh => dorefresh'
    BY <2>1, <2>2 DEF deleteai, AllBots, Exists
  <2> QED BY <2>2, <2>3 DEF Inv, HandoverScheduled, Exists, HasOwner
<1> QED BY <1>2, <1>3, <1>4 DEF Inv

\* addai keeps the invariant, whether it keeps a bot or makes one.
LEMMA AddStep ==
  ASSUME Inv, NEW limit, addai(limit)
  PROVE  Inv'
<1>1. PICK b \in Slots, owner \in findaiclient :
        /\ ~HasOwner(b)
        /\ ownernum' = [ownernum EXCEPT ![b] = owner]
        /\ aireinit' = [aireinit EXCEPT ![b] = 2]
        /\ owned' = IF Exists(b) \/ owner = None THEN owned
                    ELSE [owned EXCEPT ![owner] = @ \cup {b}]
  BY DEF addai
<1>2. dorefresh' = TRUE /\ UNCHANGED <<human, told, looping, botmode, running, posted>>
  BY DEF addai
<1>3. owner \in Cns \cup {None} /\ (owner # None => Connected(owner))
  BY CnAssumption DEF findaiclient, Valid, validaiclient, Connected
<1>4. TypeOK'
  <2>1. ownernum' \in [Slots -> Cns \cup {None, NoBot}]
    BY <1>1, <1>3 DEF Inv, TypeOK
  <2>2. aireinit' \in [Slots -> 0..2]
    BY <1>1 DEF Inv, TypeOK
  <2>3. owned' \in [Cns -> SUBSET Slots]
    BY <1>1, <1>3 DEF Inv, TypeOK
  <2> QED BY <1>2, <2>1, <2>2, <2>3 DEF Inv, TypeOK
<1>5. \A c \in Cns : b \notin owned[c]
  BY <1>1, CnAssumption DEF Inv, ListsSound, HasOwner
<1>6. ListsSound'
  <2> SUFFICES ASSUME NEW c \in Cns, NEW a \in owned'[c]
               PROVE  ownernum'[a] = c /\ Connected(c)'
    BY DEF ListsSound
  <2>1. a \in Slots
    BY <1>4 DEF TypeOK
  <2>2. CASE a = b
    <3>1. c = owner /\ owner # None
      BY <1>1, <1>3, <1>5, <2>2 DEF Inv, TypeOK
    <3> QED BY <1>1, <1>2, <1>3, <2>2, <3>1 DEF Connected, Inv, TypeOK
  <2>3. CASE a # b
    <3>1. a \in owned[c]
      BY <1>1, <1>3, <2>3 DEF Inv, TypeOK
    <3> QED BY <1>1, <1>2, <2>1, <2>3, <3>1 DEF Inv, ListsSound, Connected, TypeOK
  <2> QED BY <2>2, <2>3
<1>7. HandoverScheduled'
  BY <1>1, <1>2 DEF Inv, HandoverScheduled, Exists, HasOwner, TypeOK
<1> QED BY <1>4, <1>6, <1>7 DEF Inv

\* Every record of a client the handlers write is a record of its type.
LEMMA HumanTypes ==
  ASSUME TypeOK, NEW c \in Cns,
         NEW l \in Lives, NEW p \in Privileges, NEW s \in BOOLEAN
  PROVE  /\ [human EXCEPT ![c] = [life |-> l, priv |-> p, spy |-> s]] \in [Cns -> Human]
         /\ [human EXCEPT ![c].life = l] \in [Cns -> Human]
         /\ [human EXCEPT ![c].priv = p] \in [Cns -> Human]
         /\ [human EXCEPT ![c].spy = s, ![c].life = l] \in [Cns -> Human]
<1>1. human \in [Cns -> Human]
  BY DEF TypeOK, Human
<1>2. human[c] \in Human
  BY <1>1
<1>3. [life |-> l, priv |-> p, spy |-> s] \in Human
  BY DEF Human
<1>4. [human[c] EXCEPT !.life = l] \in Human
  BY <1>2 DEF Human
<1>5. [human[c] EXCEPT !.priv = p] \in Human
  BY <1>2 DEF Human
<1>6. [[human[c] EXCEPT !.spy = s] EXCEPT !.life = l] \in Human
  <2>1. [human[c] EXCEPT !.spy = s] \in Human
    BY <1>2 DEF Human
  <2> QED BY <2>1 DEF Human
<1>7. [human EXCEPT ![c].life = l] = [human EXCEPT ![c] = [human[c] EXCEPT !.life = l]]
  OBVIOUS
<1>8. [human EXCEPT ![c].priv = p] = [human EXCEPT ![c] = [human[c] EXCEPT !.priv = p]]
  OBVIOUS
<1>9. [human EXCEPT ![c].spy = s, ![c].life = l]
        = [human EXCEPT ![c] = [[human[c] EXCEPT !.spy = s] EXCEPT !.life = l]]
  BY <1>1
<1> HIDE DEF Human
<1>10. \A r \in Human : [human EXCEPT ![c] = r] \in [Cns -> Human]
  BY <1>1
<1> QED BY <1>3, <1>4, <1>5, <1>6, <1>7, <1>8, <1>9, <1>10

\* The steps of one client keep the invariant.
LEMMA ClientSteps ==
  ASSUME Inv, NEW c \in Cns
  PROVE  /\ \A l \in Lives \ {"off"}, p \in Privileges, s \in BOOLEAN :
              connected(c, l, p, s) => Inv'
         /\ clientdisconnect(c) => Inv'
         /\ setspectator(c) \/ spySpawns(c) => Inv'
         /\ unspectate(c) => Inv'
         /\ enterSpy(c) => Inv'
         /\ \A open \in BOOLEAN : leaveSpy(c, open) => Inv'
         /\ \A p \in Privileges : set_player_privilege(c, p) => Inv'
         /\ unset_player_privilege(c) => Inv'
<1>0. TypeOK /\ human \in [Cns -> Human] /\ human[c] \in Human
  BY DEF Inv, TypeOK, Human
<1>a. /\ "playing" \in Lives \ {"off"} /\ "spectator" \in Lives \ {"off"} /\ "off" \in Lives
      /\ PRIV_NONE \in Privileges /\ PRIV_ADMIN \in Privileges
  BY DEF Lives, Privileges
<1>b. ASSUME UNCHANGED <<looping, botmode, running, posted>>, human' \in [Cns -> Human]
      PROVE  RestTypes'
  BY <1>b, <1>0 DEF TypeOK, RestTypes
<1>c. dorefresh \in BOOLEAN
  BY <1>0 DEF TypeOK
<1>1. ASSUME NEW l \in Lives \ {"off"}, NEW p \in Privileges, NEW s \in BOOLEAN,
             connected(c, l, p, s)
      PROVE  Inv'
  <2>1. human' = [human EXCEPT ![c] = [life |-> l, priv |-> p, spy |-> s]]
    BY <1>1 DEF connected
  <2>2. human' \in [Cns -> Human]
    BY <2>1, <1>0, HumanTypes
  <2>3. RestTypes'
    BY <1>1, <1>b, <2>2 DEF connected
  <2>4. \A d \in Cns : Connected(d) => human'[d].life # "off"
    BY <2>1, <1>0 DEF Connected
  <2>5. dorefresh' = TRUE /\ UNCHANGED <<ownernum, aireinit, owned, told>>
    BY <1>1 DEF connected
  <2> QED BY <2>3, <2>4, <2>5, QuietStep
<1>2. ASSUME clientdisconnect(c) PROVE Inv'
  <2> DEFINE others == AllBots # {} \/ \E d \in Cns : human'[d].life # "off"
             refresh == dorefresh \/ others
  <2>1. human' = [human EXCEPT ![c] = Gone]
    BY <1>2 DEF clientdisconnect
  <2>2. removeai(c, human', refresh)
    BY <1>2, <2>1 DEF clientdisconnect
  <2>3. human' \in [Cns -> Human]
    BY <2>1, <1>0, <1>a, HumanTypes DEF Gone
  <2>4. RestTypes' /\ told' = told
    BY <1>2, <1>b, <2>3 DEF clientdisconnect
  <2>5. \A d \in Cns \ {c} : human'[d] = human[d]
    BY <2>1, <1>0
  <2>6. refresh \in BOOLEAN /\ (dorefresh => refresh)
    BY <1>c
  <2> HIDE DEF refresh
  <2> QED BY <2>2, <2>4, <2>5, <2>6, RemoveStep
<1>3. ASSUME NEW h, human' \in [Cns -> Human],
             \A d \in Cns \ {c} : h[d] = human[d] /\ human'[d] = human[d],
             Connected(c) => human'[c].life # "off",
             removeai(c, h, dorefresh) \/ UNCHANGED <<ownernum, aireinit, owned, dorefresh>>,
             UNCHANGED <<told, looping, botmode, running, posted>>
      PROVE  Inv'
  <2>1. RestTypes'
    BY <1>3, <1>b
  <2>2. CASE removeai(c, h, dorefresh)
    BY <1>3, <1>c, <2>1, <2>2, RemoveStep
  <2>3. CASE UNCHANGED <<ownernum, aireinit, owned, dorefresh>>
    <3>1. \A d \in Cns : Connected(d) => human'[d].life # "off"
      BY <1>3 DEF Connected
    <3> QED BY <1>3, <1>c, <2>1, <2>3, <3>1, QuietStep
  <2> QED BY <1>3, <2>2, <2>3
<1>4. ASSUME setspectator(c) \/ spySpawns(c) PROVE Inv'
  <2> DEFINE h == [human EXCEPT ![c].life = "spectator"]
  <2>1. h \in [Cns -> Human]
    BY <1>0, <1>a, HumanTypes
  <2>2. (\A d \in Cns \ {c} : h[d] = human[d]) /\ h[c].life # "off"
    BY <1>0 DEF Human
  <2>3. /\ human' = h
        /\ removeai(c, h, dorefresh) \/ UNCHANGED <<ownernum, aireinit, owned, dorefresh>>
        /\ UNCHANGED <<told, looping, botmode, running, posted>>
    BY <1>4 DEF setspectator, spySpawns
  <2> HIDE DEF h
  <2> QED BY <1>3, <2>1, <2>2, <2>3
<1>5. ASSUME unspectate(c) PROVE Inv'
  <2>1. human' = [human EXCEPT ![c].life = "playing"]
    BY <1>5 DEF unspectate
  <2>2. human' \in [Cns -> Human]
    BY <2>1, <1>0, <1>a, HumanTypes
  <2>3. RestTypes'
    BY <1>5, <1>b, <2>2 DEF unspectate
  <2>4. \A d \in Cns : Connected(d) => human'[d].life # "off"
    BY <2>1, <1>0 DEF Connected, Human
  <2>5. dorefresh' = TRUE /\ UNCHANGED <<ownernum, aireinit, owned, told>>
    BY <1>5 DEF unspectate
  <2> QED BY <2>3, <2>4, <2>5, QuietStep
<1>6. ASSUME enterSpy(c) PROVE Inv'
  <2> DEFINE h == [human EXCEPT ![c].life = "spectator"]
             r == [life |-> "spectator", priv |-> PRIV_ADMIN, spy |-> TRUE]
  <2>1. /\ human' = [human EXCEPT ![c] = r]
        /\ removeai(c, h, dorefresh) \/ UNCHANGED <<ownernum, aireinit, owned, dorefresh>>
        /\ UNCHANGED <<told, looping, botmode, running, posted>>
    BY <1>6 DEF enterSpy
  <2>2. human' \in [Cns -> Human]
    BY <2>1, <1>0, <1>a, HumanTypes
  <2>3. \A d \in Cns \ {c} : h[d] = human[d] /\ human'[d] = human[d]
    BY <2>1, <1>0
  <2>4. human'[c].life # "off"
    BY <2>1, <1>0
  <2> HIDE DEF h
  <2> QED BY <1>3, <2>1, <2>2, <2>3, <2>4
<1>7. ASSUME NEW open \in BOOLEAN, leaveSpy(c, open) PROVE Inv'
  <2> DEFINE l == IF open THEN "playing" ELSE human[c].life
  <2>1. human' = [human EXCEPT ![c].spy = FALSE, ![c].life = l]
    BY <1>7, <1>0 DEF leaveSpy, Human
  <2>2. l \in Lives
    BY <1>0, <1>a DEF Human
  <2>3. human' \in [Cns -> Human]
    <3> HIDE DEF l
    <3> QED BY <2>1, <2>2, <1>0, <1>a, HumanTypes
  <2>4. RestTypes'
    BY <1>7, <1>b, <2>3 DEF leaveSpy
  <2>5. \A d \in Cns : Connected(d) => human'[d].life # "off"
    BY <2>1, <1>0 DEF Connected, Human
  <2>6. (dorefresh => dorefresh') /\ dorefresh' \in BOOLEAN
    BY <1>7, <1>c DEF leaveSpy
  <2>7. UNCHANGED <<ownernum, aireinit, owned, told>>
    BY <1>7 DEF leaveSpy
  <2> QED BY <2>4, <2>5, <2>6, <2>7, QuietStep
<1>8. ASSUME NEW p \in Privileges, set_player_privilege(c, p) PROVE Inv'
  <2>1. human' = [human EXCEPT ![c].priv = p]
    BY <1>8 DEF set_player_privilege
  <2>2. human' \in [Cns -> Human]
    BY <2>1, <1>0, HumanTypes DEF Lives
  <2>3. RestTypes'
    BY <1>8, <1>b, <2>2 DEF set_player_privilege
  <2>4. \A d \in Cns : Connected(d) => human'[d].life # "off"
    BY <2>1, <1>0 DEF Connected, Human
  <2>5. dorefresh' = dorefresh /\ UNCHANGED <<ownernum, aireinit, owned, told>>
    BY <1>8 DEF set_player_privilege
  <2> QED BY <1>c, <2>3, <2>4, <2>5, QuietStep
<1>9. ASSUME unset_player_privilege(c) PROVE Inv'
  <2> DEFINE h == [human EXCEPT ![c].priv = PRIV_NONE]
  <2>1. h \in [Cns -> Human]
    BY <1>0, <1>a, HumanTypes
  <2>2. (\A d \in Cns \ {c} : h[d] = human[d]) /\ (Connected(c) => h[c].life # "off")
    BY <1>0 DEF Human, Connected
  <2>3. /\ human' = h
        /\ removeai(c, h, dorefresh) \/ UNCHANGED <<ownernum, aireinit, owned, dorefresh>>
        /\ UNCHANGED <<told, looping, botmode, running, posted>>
    BY <1>9 DEF unset_player_privilege
  <2> HIDE DEF h
  <2> QED BY <1>3, <2>1, <2>2, <2>3
<1> QED BY <1>1, <1>2, <1>4, <1>5, <1>6, <1>7, <1>8, <1>9
\* checksetup, with its caller's changes, keeps the invariant.
LEMMA SetupStep ==
  ASSUME Inv, RestTypes', human' = human, checksetup
  PROVE  Inv'
<1>1. BotTypes'
  <2>1. ownernum' \in [Slots -> Cns \cup {None, NoBot}]
    BY DEF Inv, TypeOK, checksetup
  <2>2. aireinit' \in [Slots -> 0..2]
    BY DEF Inv, TypeOK, checksetup
  <2>3. owned' \in [Cns -> SUBSET Slots]
    BY DEF Inv, TypeOK, checksetup
  <2>4. told' \in [Slots -> Cns \cup {None}] /\ dorefresh' \in BOOLEAN
    BY DEF Inv, TypeOK, checksetup, HasOwner
  <2> QED BY <2>1, <2>2, <2>3, <2>4 DEF BotTypes
<1>2. TypeOK'
  BY <1>1, TypeSplit DEF TypeOK, BotTypes, RestTypes, Human
<1>3. ListsSound'
  BY CnAssumption DEF Inv, TypeOK, ListsSound, checksetup, Connected
<1>4. HandoverScheduled'
  <2> SUFFICES ASSUME NEW b \in Slots, ownernum'[b] # NoBot
               PROVE  ownernum'[b] # None /\ told'[b] = ownernum'[b]
    BY DEF HandoverScheduled, Exists, HasOwner
  <2>1. ownernum[b] # None /\ ownernum'[b] = ownernum[b]
    BY DEF checksetup
  <2>2. HasOwner(b)
    BY <2>1 DEF HasOwner
  <2>3. CASE aireinit[b] >= 1
    BY <2>1, <2>2, <2>3 DEF checksetup
  <2>4. CASE ~(aireinit[b] >= 1)
    <3>1. told[b] = ownernum[b]
      BY <2>1, <2>2, <2>4 DEF Inv, HandoverScheduled, Exists, HasOwner
    <3> QED BY <2>1, <2>4, <3>1 DEF checksetup
  <2> QED BY <2>3, <2>4
<1> QED BY <1>2, <1>3, <1>4 DEF Inv

\* The steps of the server and the requests for bots keep the invariant.
LEMMA BotSteps ==
  ASSUME Inv
  PROVE  /\ \A c \in Cns : reqadd(c) \/ reqdel(c) => Inv'
         /\ ServerStep => Inv'
         /\ checkai \/ reassignai \/ reassigned => Inv'
<1>0. TypeOK /\ dorefresh \in BOOLEAN
  BY DEF Inv, TypeOK
<1>a. ASSUME human' = human, looping' \in BOOLEAN, botmode' \in BOOLEAN,
             running' \in BOOLEAN, posted' \in [Slots -> 0..MaxPosted]
      PROVE  RestTypes'
  BY <1>0, <1>a DEF TypeOK, RestTypes, Human
<1>b. ASSUME human' = human, looping' \in BOOLEAN, botmode' \in BOOLEAN,
             running' \in BOOLEAN, posted' \in [Slots -> 0..MaxPosted],
             dorefresh' \in BOOLEAN, dorefresh => dorefresh',
             UNCHANGED <<ownernum, aireinit, owned, told>>
      PROVE  Inv'
  BY <1>a, <1>b, QuietStep DEF Connected
<1>c. AllBots \in SUBSET Slots
  BY DEF AllBots
<1>1. ASSUME NEW c \in Cns, reqadd(c) PROVE Inv'
  BY <1>1, AddStep DEF reqadd
<1>2. ASSUME NEW c \in Cns, reqdel(c) PROVE Inv'
  <2>1. PICK b \in Slots : deleteai({b}, dorefresh)
    BY <1>2 DEF reqdel
  <2>2. RestTypes' /\ human' = human
    BY <1>0, <1>2, <1>a DEF reqdel, TypeOK
  <2>3. {b} \in SUBSET Slots
    OBVIOUS
  <2> QED BY <1>0, <2>1, <2>2, <2>3, DeleteStep
<1>3. ASSUME unsetmaster PROVE Inv'
  <2>1. human' = [c \in Cns |-> IF human[c].priv = PRIV_MASTER
                                THEN [human[c] EXCEPT !.priv = PRIV_NONE] ELSE human[c]]
    BY <1>3 DEF unsetmaster
  <2>2. ASSUME NEW c \in Cns
        PROVE  human'[c] \in Human /\ (Connected(c) => human'[c].life # "off")
    <3>1. human[c] \in Human
      BY <1>0 DEF TypeOK, Human
    <3>2. [human[c] EXCEPT !.priv = PRIV_NONE] \in Human
      BY <3>1 DEF Human, Privileges
    <3> QED BY <2>1, <3>1, <3>2 DEF Human, Connected
  <2>3. human' \in [Cns -> Human]
    BY <2>1, <2>2
  <2>4. RestTypes'
    BY <1>0, <1>3, <2>3 DEF unsetmaster, TypeOK, RestTypes
  <2>5. UNCHANGED <<ownernum, aireinit, owned, told, dorefresh>>
    BY <1>3 DEF unsetmaster
  <2> QED BY <1>0, <2>2, <2>4, <2>5, QuietStep
<1>4. ASSUME execute_addbot PROVE Inv'
  BY <1>4, AddStep DEF execute_addbot
<1>5. ASSUME askrefresh \/ pause PROVE Inv'
  BY <1>0, <1>5, <1>b DEF askrefresh, pause, TypeOK
<1>6. ASSUME changemap PROVE Inv'
  <2>1. RestTypes' /\ human' = human /\ deleteai(AllBots, TRUE)
    BY <1>0, <1>6, <1>a DEF changemap, TypeOK
  <2> QED BY <1>c, <2>1, DeleteStep
<1>7. ASSUME NEW b \in Slots, deletebot(b) PROVE Inv'
  <2>1. posted' \in [Slots -> 0..MaxPosted]
    BY <1>0, <1>7, BotAssumption DEF deletebot, TypeOK
  <2> QED BY <1>0, <1>7, <1>b, <2>1 DEF deletebot, TypeOK
<1>8. ASSUME NEW b \in Slots, execute_deletebot(b) PROVE Inv'
  <2>1. posted' \in [Slots -> 0..MaxPosted]
    BY <1>0, <1>8, BotAssumption DEF execute_deletebot, TypeOK
  <2>2. RestTypes' /\ human' = human /\ deleteai({b} \cap AllBots, dorefresh)
    BY <1>0, <1>8, <1>a, <2>1 DEF execute_deletebot, TypeOK
  <2>3. {b} \cap AllBots \in SUBSET Slots
    BY <1>c
  <2> QED BY <1>0, <2>2, <2>3, DeleteStep
<1>9. ASSUME checkai PROVE Inv'
  <2>1. RestTypes' /\ human' = human
    BY <1>0, <1>9, <1>a DEF checkai, TypeOK
  <2>2. CASE checksetup
    BY <2>1, <2>2, SetupStep
  <2>3. CASE deleteai(AllBots, FALSE)
    BY <1>c, <2>1, <2>3, DeleteStep
  <2> QED BY <1>9, <2>2, <2>3 DEF checkai
<1>10. ASSUME reassignai PROVE Inv'
  <2>1. PICK hi \in Cns, lo \in Cns :
          Uneven(hi, lo) /\ \E b \in owned[hi] : shiftai({b}, [a \in {b} |-> lo], dorefresh)
    BY <1>10 DEF reassignai
  <2>2. PICK b \in owned[hi] : shiftai({b}, [a \in {b} |-> lo], dorefresh)
    BY <2>1
  <2>3. b \in Slots
    BY <1>0 DEF TypeOK
  <2>4. Connected(lo)
    BY <2>1 DEF Uneven, Valid, validaiclient, Connected
  <2>5. RestTypes' /\ human' = human /\ told' = told
    BY <1>0, <1>10, <1>a DEF reassignai, TypeOK
  <2> DEFINE heir == [a \in {b} |-> lo]
  <2>6. heir \in [{b} -> Cns \cup {None}] /\ heir[b] = lo
    OBVIOUS
  <2>7. \A a \in {b} : heir[a] # None => human'[heir[a]].life # "off"
    BY <2>4, <2>5, <2>6 DEF Connected
  <2>8. {b} \in SUBSET Slots
    BY <2>3
  <2>9. \A c \in Cns : Connected(c) /\ human'[c].life = "off" => owned[c] \subseteq {b}
    BY <2>5 DEF Connected
  <2>10. shiftai({b}, heir, dorefresh)
    BY <2>2
  <2> HIDE DEF heir
  <2> QED BY <1>0, <2>5, <2>6, <2>7, <2>8, <2>9, <2>10, ShiftStep
<1>11. ASSUME reassigned PROVE Inv'
  BY <1>0, <1>11, <1>b DEF reassigned, TypeOK
<1> QED
  BY <1>1, <1>2, <1>3, <1>4, <1>5, <1>6, <1>7, <1>8, <1>9, <1>10, <1>11 DEF ServerStep

\* In every behaviour of the bot manager the lists of bots are sound and every
\* bot that waits for a new owner, its removal or an announcement has a refresh
\* coming: no handler between two refreshes can lose it.
THEOREM BotSafety == Spec => [](TypeOK /\ ListsSound /\ HandoverScheduled)
<1>1. Init => Inv
  <2> SUFFICES ASSUME Init PROVE Inv
    OBVIOUS
  <2>1. TypeOK
    <3>1. Gone \in Human
      BY DEF Gone, Human, Lives, Privileges
    <3>2. human \in [Cns -> Human]
      BY <3>1 DEF Init
    <3>3. posted \in [Slots -> 0..MaxPosted]
      BY BotAssumption DEF Init
    <3>4. RestTypes
      BY <3>2, <3>3 DEF Init, RestTypes
    <3>5. BotTypes
      <4>1. ownernum \in [Slots -> Cns \cup {None, NoBot}]
        BY DEF Init
      <4>2. aireinit \in [Slots -> 0..2]
        BY DEF Init
      <4>3. owned \in [Cns -> SUBSET Slots]
        BY DEF Init
      <4>4. told \in [Slots -> Cns \cup {None}] /\ dorefresh \in BOOLEAN
        BY DEF Init
      <4> QED BY <4>1, <4>2, <4>3, <4>4 DEF BotTypes
    <3> QED BY <3>4, <3>5, TypeSplit
  <2>2. ListsSound /\ HandoverScheduled
    BY DEF Init, ListsSound, HandoverScheduled, Exists
  <2> QED BY <2>1, <2>2 DEF Inv
<1>2. Inv /\ [Next]_vars => Inv'
  <2> SUFFICES ASSUME Inv, [Next]_vars PROVE Inv'
    OBVIOUS
  <2>1. CASE ClientStep
    <3>1. PICK c \in Cns :
            \/ \E l \in Lives \ {"off"}, p \in Privileges, s \in BOOLEAN : connected(c, l, p, s)
            \/ clientdisconnect(c)
            \/ setspectator(c) \/ unspectate(c)
            \/ enterSpy(c) \/ spySpawns(c)
            \/ \E open \in BOOLEAN : leaveSpy(c, open)
            \/ \E p \in Privileges : set_player_privilege(c, p)
            \/ unset_player_privilege(c)
            \/ reqadd(c) \/ reqdel(c)
      BY <2>1, Zenon DEF ClientStep
    <3> QED BY <3>1, ClientSteps, BotSteps, Zenon
  <2>2. CASE ServerStep
    BY <2>2, BotSteps
  <2>3. CASE checkai \/ reassignai \/ reassigned
    BY <2>3, BotSteps
  <2>4. CASE UNCHANGED vars
    BY <2>4 DEF vars, Inv, TypeOK, ListsSound, HandoverScheduled, Connected, Exists, HasOwner
  <2> QED BY <2>1, <2>2, <2>3, <2>4 DEF Next
<1>3. Inv => TypeOK /\ ListsSound /\ HandoverScheduled
  BY DEF Inv
<1> QED BY <1>1, <1>2, <1>3, PTL DEF Spec

\* Every handler of the bot manager keeps the types.
THEOREM TypeCorrect == Spec => []TypeOK
BY BotSafety, PTL

\* A client's list of bots never holds a deleted bot, nor one of another owner
\* (shiftai, deleteai, addai).
THEOREM ListsAreSound == Spec => []ListsSound
BY BotSafety, PTL

-----------------------------------------------------------------------------
\* A set of naturals that is not empty has a least element ...
LEMMA LeastNat ==
  ASSUME NEW T \in SUBSET Nat, T # {}
  PROVE  \E x \in T : \A y \in T : x <= y
<1>1. PICK x \in T : \A y \in T : ~(<<y, x>> \in OpToRel(<, Nat))
  BY WFMin, NatLessThanWellFounded
<1>2. \A y \in T : ~(y < x)
  BY <1>1 DEF OpToRel
<1> QED
  BY <1>2

\* ... and, when n bounds it, a greatest one.
LEMMA GreatestNat ==
  ASSUME NEW n \in Nat, NEW T \in SUBSET (0..n), T # {}
  PROVE  \E x \in T : \A y \in T : y <= x
<1> DEFINE D == {n - t : t \in T}
<1>1. D \in SUBSET Nat /\ D # {}
  <2>1. \A t \in T : n - t \in Nat
    OBVIOUS
  <2> QED
    BY <2>1
<1>2. PICK d \in D : \A e \in D : d <= e
  BY <1>1, LeastNat
<1>3. PICK x \in T : d = n - x
  BY <1>2
<1>4. \A y \in T : n - x <= n - y
  BY <1>2, <1>3
<1> QED
  BY <1>3, <1>4

\* No client can have more bots than there are slots.
LEMMA LoadBound ==
  ASSUME TypeOK, NEW c \in Cns
  PROVE  Load(owned, c) \in 0..MAXBOTS
<1>1. IsFiniteSet(Slots) /\ Cardinality(Slots) <= MAXBOTS
  <2>1. MAXBOTS \in Nat /\ 0 \in Int /\ MAXBOTS - 1 \in Int
    BY BotAssumption
  <2>2. /\ IsFiniteSet(0..(MAXBOTS - 1))
        /\ Cardinality(0..(MAXBOTS - 1)) = IF 0 > MAXBOTS - 1 THEN 0 ELSE (MAXBOTS - 1) - 0 + 1
    BY <2>1, FS_Interval
  <2> QED
    BY <2>1, <2>2 DEF Slots
<1>2. owned[c] \subseteq Slots
  BY DEF TypeOK
<1> QED
  BY <1>1, <1>2, FS_Subset, FS_CardinalityType, BotAssumption DEF Load

\* Among the valid clients one has most bots and one has fewest.
LEMMA Extremes ==
  ASSUME TypeOK, NEW c \in Valid
  PROVE  \E hi, lo \in Valid :
           \A d \in Valid : Load(owned, lo) <= Load(owned, d) /\ Load(owned, d) <= Load(owned, hi)
<1> DEFINE L == {Load(owned, d) : d \in Valid}
<1>1. \A d \in Valid : Load(owned, d) \in 0..MAXBOTS
  BY LoadBound DEF Valid
<1>2. L \in SUBSET (0..MAXBOTS) /\ L \in SUBSET Nat /\ L # {}
  BY <1>1
<1>3. PICK x \in L : \A y \in L : y <= x
  BY <1>2, GreatestNat, BotAssumption
<1>4. PICK z \in L : \A y \in L : z <= y
  BY <1>2, LeastNat
<1>5. PICK hi \in Valid : x = Load(owned, hi)
  BY <1>3
<1>6. PICK lo \in Valid : z = Load(owned, lo)
  BY <1>4
<1>7. \A d \in Valid : Load(owned, d) \in L
  OBVIOUS
<1> HIDE DEF L
<1> QED
  BY <1>3, <1>4, <1>5, <1>6, <1>7

\* Moving or deleting no bot changes no list; moving or deleting one asks for
\* a refresh.
LEMMA ListsOrRefresh ==
  ASSUME TypeOK, ~dorefresh'
  PROVE  /\ \A moved, heir, refresh : shiftai(moved, heir, refresh) => owned' = owned
         /\ \A c, h, refresh : removeai(c, h, refresh) => owned' = owned
         /\ \A gone, refresh : deleteai(gone, refresh) => owned' = owned
         /\ \A limit : ~addai(limit)
<1>1. ASSUME NEW moved, NEW heir, NEW refresh, shiftai(moved, heir, refresh)
      PROVE  owned' = owned
  <2>1. moved = {}
    BY <1>1 DEF shiftai
  <2>2. owned' = [d \in Cns |-> (owned[d] \ moved) \cup {b \in moved : heir[b] = d}]
    BY <1>1 DEF shiftai
  <2> QED
    BY <2>1, <2>2 DEF TypeOK
<1>2. ASSUME NEW gone, NEW refresh, deleteai(gone, refresh)
      PROVE  owned' = owned
  <2>1. gone = {}
    BY <1>2 DEF deleteai
  <2>2. owned' = [c \in Cns |-> owned[c] \ {b \in gone : ownernum[b] = c}]
    BY <1>2 DEF deleteai
  <2> QED
    BY <2>1, <2>2 DEF TypeOK
<1>3. ASSUME NEW c, NEW h, NEW refresh, removeai(c, h, refresh)
      PROVE  owned' = owned
  BY <1>1, <1>3, Zenon DEF removeai
<1>4. \A limit : ~addai(limit)
  BY DEF addai
<1> QED
  BY <1>1, <1>2, <1>3, <1>4, Zenon

\* Outside the loop of checkai a step changes a list only when a refresh is
\* pending after it.
LEMMA StepsOrRefresh ==
  ASSUME TypeOK, ~dorefresh', ClientStep \/ ServerStep \/ checkai
  PROVE  owned' = owned
<1>1. CASE ClientStep
  <2>1. PICK c \in Cns :
          \/ \E l \in Lives \ {"off"}, p \in Privileges, s \in BOOLEAN : connected(c, l, p, s)
          \/ clientdisconnect(c)
          \/ setspectator(c) \/ unspectate(c)
          \/ enterSpy(c) \/ spySpawns(c)
          \/ \E open \in BOOLEAN : leaveSpy(c, open)
          \/ \E p \in Privileges : set_player_privilege(c, p)
          \/ unset_player_privilege(c)
          \/ reqadd(c) \/ reqdel(c)
    BY <1>1, Zenon DEF ClientStep
  <2>2. ASSUME clientdisconnect(c) PROVE owned' = owned
    BY <2>2, ListsOrRefresh DEF clientdisconnect
  <2>3. ASSUME setspectator(c) \/ spySpawns(c) \/ enterSpy(c) \/ unset_player_privilege(c)
        PROVE  owned' = owned
    BY <2>3, ListsOrRefresh DEF setspectator, spySpawns, enterSpy, unset_player_privilege
  <2>4. ASSUME \/ \E l \in Lives \ {"off"}, p \in Privileges, s \in BOOLEAN :
                    connected(c, l, p, s)
               \/ unspectate(c)
               \/ \E open \in BOOLEAN : leaveSpy(c, open)
               \/ \E p \in Privileges : set_player_privilege(c, p)
        PROVE  owned' = owned
    BY <2>4 DEF connected, unspectate, leaveSpy, set_player_privilege
  <2>5. ~reqadd(c) /\ (reqdel(c) => owned' = owned)
    BY ListsOrRefresh DEF reqadd, reqdel
  <2> QED
    BY <2>1, <2>2, <2>3, <2>4, <2>5, Zenon
<1>2. CASE ServerStep
  <2>1. ASSUME NEW b \in Slots, deletebot(b) \/ execute_deletebot(b) PROVE owned' = owned
    BY <2>1, ListsOrRefresh DEF deletebot, execute_deletebot
  <2>2. CASE unsetmaster \/ execute_addbot \/ askrefresh \/ changemap \/ pause
    BY <2>2, ListsOrRefresh DEF unsetmaster, execute_addbot, askrefresh, changemap, pause
  <2> QED
    BY <1>2, <2>1, <2>2 DEF ServerStep
<1>3. CASE checkai
  BY <1>3, ListsOrRefresh DEF checkai, checksetup
<1> QED
  BY <1>1, <1>2, <1>3

\* The numbers of bots of two valid clients come to differ by two only while a
\* refresh is pending, and the loop of checkai ends with no such two clients
\* (reassignai).
THEOREM EvenOrRefresh == Spec => EvenUnlessRefresh
<1> DEFINE A == ~dorefresh' /\ ~looping' =>
                  \A c, d \in {x \in Cns : validaiclient(human, x) /\ validaiclient(human', x)} :
                    Load(owned', c) - Load(owned', d) > 1
                      => ~looping /\ Load(owned, c) - Load(owned, d) > 1
<1>1. TypeOK /\ [Next]_vars => [A]_vars
  <2> SUFFICES ASSUME TypeOK, [Next]_vars, ~dorefresh', ~looping',
                      NEW c \in Valid, NEW d \in Valid,
                      Load(owned', c) - Load(owned', d) > 1
               PROVE  (~looping /\ Load(owned, c) - Load(owned, d) > 1) \/ UNCHANGED vars
    BY Zenon DEF Valid
  <2>1. CASE ~looping /\ (ClientStep \/ ServerStep)
    BY <2>1, StepsOrRefresh
  <2>2. CASE checkai
    BY <2>2, StepsOrRefresh DEF checkai
  <2>3. CASE reassignai
    <3>1. looping'
      BY <2>3 DEF reassignai
    <3> QED
      BY <3>1
  <2>4. CASE reassigned
    <3>1. PICK hi \in Valid, lo \in Valid :
            \A x \in Valid : Load(owned, lo) <= Load(owned, x) /\ Load(owned, x) <= Load(owned, hi)
      BY Extremes
    <3>2. owned' = owned /\ ~Uneven(hi, lo)
      BY <2>4 DEF reassigned, Valid
    <3>3. ~(Load(owned, hi) - Load(owned, lo) > 1)
      BY <3>1, <3>2 DEF Uneven
    <3>4. /\ Load(owned, c) \in Nat /\ Load(owned, d) \in Nat
          /\ Load(owned, hi) \in Nat /\ Load(owned, lo) \in Nat
      BY LoadBound DEF Valid
    <3> QED
      BY <3>1, <3>2, <3>3, <3>4
  <2>5. CASE UNCHANGED vars
    BY <2>5
  <2> QED
    BY <2>1, <2>2, <2>3, <2>4, <2>5 DEF Next
<1> QED
  BY <1>1, TypeCorrect, PTL DEF Spec, EvenUnlessRefresh

-----------------------------------------------------------------------------
(***************************************************************************)
(* The loop of checkai.  Its measure is the number of pairs of bots that   *)
(* are in the same list: a bot that moves from one of n to one of at most  *)
(* n - 2 loses more companions than it finds.                              *)
(***************************************************************************)
Together(o) == {p \in Slots \X Slots : \E c \in Cns : p[1] \in o[c] /\ p[2] \in o[c]}

\* The pairs of x with the members of S.
PairsWith(x, S) == ({x} \X S) \cup (S \X {x})

LEMMA PairsWithSize ==
  ASSUME NEW x, NEW S, IsFiniteSet(S), x \notin S
  PROVE  IsFiniteSet(PairsWith(x, S)) /\ Cardinality(PairsWith(x, S)) = 2 * Cardinality(S)
<1>1. IsFiniteSet({x}) /\ Cardinality({x}) = 1 /\ Cardinality(S) \in Nat
  BY FS_Singleton, FS_CardinalityType
<1>2. IsFiniteSet({x} \X S) /\ Cardinality({x} \X S) = Cardinality({x}) * Cardinality(S)
  BY <1>1, FS_Product
<1>3. IsFiniteSet(S \X {x}) /\ Cardinality(S \X {x}) = Cardinality(S) * Cardinality({x})
  BY <1>1, FS_Product
<1>4. Cardinality({x} \X S) = Cardinality(S) /\ Cardinality(S \X {x}) = Cardinality(S)
  BY <1>1, <1>2, <1>3
<1>5. ({x} \X S) \cap (S \X {x}) = {}
  OBVIOUS
<1>6. IsFiniteSet({}) /\ Cardinality({}) = 0
  BY FS_EmptySet
<1>7. /\ IsFiniteSet(PairsWith(x, S))
      /\ Cardinality(PairsWith(x, S))
           = Cardinality({x} \X S) + Cardinality(S \X {x}) - Cardinality(({x} \X S) \cap (S \X {x}))
  BY <1>2, <1>3, FS_Union DEF PairsWith
<1>8. Cardinality(PairsWith(x, S)) = Cardinality(S) + Cardinality(S) - 0
  BY <1>4, <1>5, <1>6, <1>7
<1>9. \A n \in Nat : n + n - 0 = 2 * n
  OBVIOUS
<1> QED BY <1>1, <1>7, <1>8, <1>9

\* What a move does to the lists, and which pairs it parts and joins.
LEMMA MoveLists ==
  ASSUME TypeOK, ListsSound, NEW hi \in Cns, NEW lo \in Cns, hi # lo, NEW b \in owned[hi],
         shiftai({b}, [a \in {b} |-> lo], dorefresh)
  PROVE  /\ owned' = [d \in Cns |-> IF d = hi THEN owned[hi] \ {b}
                                    ELSE IF d = lo THEN owned[lo] \cup {b} ELSE owned[d]]
         /\ \A d \in Cns : d # hi => b \notin owned[d] /\ owned[d] \cap owned[hi] = {}
<1>1. owned \in [Cns -> SUBSET Slots]
  BY DEF TypeOK
<1>2. \A d \in Cns : d # hi => owned[d] \cap owned[hi] = {}
  BY DEF ListsSound
<1>3. owned' = [d \in Cns |-> (owned[d] \ {b}) \cup {a \in {b} : [e \in {b} |-> lo][a] = d}]
  BY DEF shiftai
<1>4. \A d \in Cns : {a \in {b} : [e \in {b} |-> lo][a] = d} = IF d = lo THEN {b} ELSE {}
  OBVIOUS
<1>5. \A d \in Cns : owned'[d] = IF d = hi THEN owned[hi] \ {b}
                                 ELSE IF d = lo THEN owned[lo] \cup {b} ELSE owned[d]
  <2> SUFFICES ASSUME NEW d \in Cns
               PROVE  owned'[d] = IF d = hi THEN owned[hi] \ {b}
                                  ELSE IF d = lo THEN owned[lo] \cup {b} ELSE owned[d]
    OBVIOUS
  <2>1. owned'[d] = (owned[d] \ {b}) \cup (IF d = lo THEN {b} ELSE {})
    BY <1>3, <1>4
  <2>2. d # hi => b \notin owned[d]
    BY <1>2
  <2> QED BY <2>1, <2>2
<1>6. DOMAIN owned' = Cns /\ owned' = [d \in Cns |-> owned'[d]]
  BY <1>3
<1> QED BY <1>2, <1>5, <1>6

LEMMA MovePairs ==
  ASSUME TypeOK, ListsSound, NEW hi \in Cns, NEW lo \in Cns, hi # lo, NEW b \in owned[hi],
         shiftai({b}, [a \in {b} |-> lo], dorefresh)
  PROVE  /\ Together(owned') \cup PairsWith(b, owned[hi] \ {b})
              = Together(owned) \cup PairsWith(b, owned[lo])
         /\ Together(owned') \cap PairsWith(b, owned[hi] \ {b}) = {}
         /\ Together(owned) \cap PairsWith(b, owned[lo]) = {}
<1> DEFINE A == owned[hi] \ {b}
           B == owned[lo]
<1>1. /\ \A d \in Cns : owned[d] \subseteq Slots
      /\ \A d \in Cns : d # hi => b \notin owned[d] /\ owned[d] \cap owned[hi] = {}
      /\ \A d \in Cns : d # lo => owned[d] \cap owned[lo] = {}
      /\ \A d \in Cns : owned'[d] = IF d = hi THEN A ELSE IF d = lo THEN B \cup {b} ELSE owned[d]
  <2>1. owned' = [d \in Cns |-> IF d = hi THEN A ELSE IF d = lo THEN B \cup {b} ELSE owned[d]]
    BY MoveLists
  <2>2. \A d \in Cns : d # hi => b \notin owned[d] /\ owned[d] \cap owned[hi] = {}
    BY MoveLists
  <2>3. \A d \in Cns : d # lo => owned[d] \cap owned[lo] = {}
    BY DEF ListsSound
  <2>4. \A d \in Cns : owned[d] \subseteq Slots
    BY DEF TypeOK
  <2> HIDE DEF A, B
  <2> QED BY <2>1, <2>2, <2>3, <2>4
<1>2. \A x, y \in Slots : <<x, y>> \in Together(owned)
                            <=> \E d \in Cns : x \in owned[d] /\ y \in owned[d]
  BY DEF Together
<1>3. \A x, y \in Slots : <<x, y>> \in Together(owned')
                            <=> \E d \in Cns : x \in owned'[d] /\ y \in owned'[d]
  BY DEF Together
<1>4. \A S, x, y : <<x, y>> \in PairsWith(b, S) <=> (x = b /\ y \in S) \/ (x \in S /\ y = b)
  BY DEF PairsWith
<1>5. /\ Together(owned) \subseteq Slots \X Slots /\ Together(owned') \subseteq Slots \X Slots
      /\ PairsWith(b, A) \subseteq Slots \X Slots /\ PairsWith(b, B) \subseteq Slots \X Slots
  BY <1>1 DEF Together, PairsWith
<1>6. ASSUME NEW x \in Slots, NEW y \in Slots
      PROVE  /\ (<<x, y>> \in Together(owned') \/ <<x, y>> \in PairsWith(b, A))
                  <=> (<<x, y>> \in Together(owned) \/ <<x, y>> \in PairsWith(b, B))
             /\ ~(<<x, y>> \in Together(owned') /\ <<x, y>> \in PairsWith(b, A))
             /\ ~(<<x, y>> \in Together(owned) /\ <<x, y>> \in PairsWith(b, B))
  <2> HIDE DEF A, B
  <2>0. A = owned[hi] \ {b} /\ B = owned[lo] /\ b \in owned[hi] /\ b \notin A /\ b \notin B
    BY <1>1 DEF A, B
  <2>1. <<x, y>> \in Together(owned) <=> \E d \in Cns : x \in owned[d] /\ y \in owned[d]
    BY <1>2
  <2>2. <<x, y>> \in Together(owned')
          <=> \/ x \in A /\ y \in A
              \/ x \in B \cup {b} /\ y \in B \cup {b}
              \/ \E d \in Cns \ {hi, lo} : x \in owned[d] /\ y \in owned[d]
    BY <1>1, <1>3
  <2>3. <<x, y>> \in Together(owned)
          <=> \/ x \in A \cup {b} /\ y \in A \cup {b}
              \/ x \in B /\ y \in B
              \/ \E d \in Cns \ {hi, lo} : x \in owned[d] /\ y \in owned[d]
    BY <2>0, <2>1
  <2>4. \A d \in Cns \ {hi, lo} : b \notin owned[d]
    BY <1>1
  <2>5. A \cap B = {}
    BY <1>1, <2>0
  <2>6. /\ <<x, y>> \in PairsWith(b, A) <=> (x = b /\ y \in A) \/ (x \in A /\ y = b)
        /\ <<x, y>> \in PairsWith(b, B) <=> (x = b /\ y \in B) \/ (x \in B /\ y = b)
    BY <1>4
  <2> QED BY <2>0, <2>2, <2>3, <2>4, <2>5, <2>6
<1> HIDE DEF A, B
<1>7. \A p \in Slots \X Slots : \E x, y \in Slots : p = <<x, y>>
  OBVIOUS
<1>8. Together(owned') \cup PairsWith(b, A) = Together(owned) \cup PairsWith(b, B)
  BY <1>5, <1>6, <1>7
<1>9. Together(owned') \cap PairsWith(b, A) = {} /\ Together(owned) \cap PairsWith(b, B) = {}
  BY <1>5, <1>6, <1>7
<1> QED BY <1>8, <1>9 DEF A, B

\* In every iteration of the loop after which it goes on, the measure falls: no
\* bot goes to and fro between two clients, and the loop is over after at most
\* as many iterations as there are pairs of bots.
RefreshShrinks ==
  [][looping /\ looping' => Cardinality(Together(owned')) < Cardinality(Together(owned))]_vars

LEMMA MoveShrinks ==
  ASSUME TypeOK, ListsSound, reassignai
  PROVE  /\ Cardinality(Together(owned)) \in Nat /\ Cardinality(Together(owned')) \in Nat
         /\ Cardinality(Together(owned')) < Cardinality(Together(owned))
<1>1. PICK hi \in Cns, lo \in Cns : Uneven(hi, lo) /\
             \E b \in owned[hi] : shiftai({b}, [a \in {b} |-> lo], dorefresh)
  BY DEF reassignai
<1>2. PICK b \in owned[hi] : shiftai({b}, [a \in {b} |-> lo], dorefresh)
  BY <1>1
<1> DEFINE A == owned[hi] \ {b}
           B == owned[lo]
           P == Together(owned)
           Q == Together(owned')
<1>3. Load(owned, hi) \in Nat /\ Load(owned, lo) \in Nat /\ Load(owned, hi) - Load(owned, lo) > 1
  BY <1>1, LoadBound DEF Uneven
<1>4. hi # lo
  BY <1>3
<1>5. /\ Q \cup PairsWith(b, A) = P \cup PairsWith(b, B)
      /\ Q \cap PairsWith(b, A) = {} /\ P \cap PairsWith(b, B) = {}
  BY <1>2, <1>4, MovePairs
<1>6. /\ IsFiniteSet(owned[hi]) /\ IsFiniteSet(B)
      /\ IsFiniteSet(P) /\ IsFiniteSet(Q)
  <2>1. IsFiniteSet(Slots)
    BY FS_Interval, BotAssumption DEF Slots
  <2>2. owned[hi] \in SUBSET Slots /\ B \in SUBSET Slots
    BY DEF TypeOK
  <2>3. IsFiniteSet(Slots \X Slots)
    BY <2>1, FS_Product
  <2>4. P \in SUBSET (Slots \X Slots) /\ Q \in SUBSET (Slots \X Slots)
    BY DEF Together
  <2> QED BY <2>1, <2>2, <2>3, <2>4, FS_Subset
<1>7. IsFiniteSet(A) /\ Cardinality(A) = Load(owned, hi) - 1 /\ Cardinality(B) = Load(owned, lo)
  BY <1>6, FS_RemoveElement DEF Load
<1>8. b \notin A /\ b \notin B
  BY <1>2, <1>4, MoveLists
<1>9. /\ IsFiniteSet(PairsWith(b, A)) /\ Cardinality(PairsWith(b, A)) = 2 * Cardinality(A)
      /\ IsFiniteSet(PairsWith(b, B)) /\ Cardinality(PairsWith(b, B)) = 2 * Cardinality(B)
  BY <1>6, <1>7, <1>8, PairsWithSize
<1> HIDE DEF A, B, P, Q
<1>10. Cardinality({}) = 0
  BY FS_EmptySet
<1>11. Cardinality(Q \cup PairsWith(b, A)) = Cardinality(Q) + Cardinality(PairsWith(b, A)) - 0
  <2>1. Cardinality(Q \cup PairsWith(b, A))
          = Cardinality(Q) + Cardinality(PairsWith(b, A)) - Cardinality(Q \cap PairsWith(b, A))
    BY <1>6, <1>9, FS_Union
  <2> QED BY <1>5, <1>10, <2>1
<1>12. Cardinality(P \cup PairsWith(b, B)) = Cardinality(P) + Cardinality(PairsWith(b, B)) - 0
  <2>1. Cardinality(P \cup PairsWith(b, B))
          = Cardinality(P) + Cardinality(PairsWith(b, B)) - Cardinality(P \cap PairsWith(b, B))
    BY <1>6, <1>9, FS_Union
  <2> QED BY <1>5, <1>10, <2>1
<1>13. Cardinality(P) \in Nat /\ Cardinality(Q) \in Nat
  BY <1>6, FS_CardinalityType
<1>14. Cardinality(Q) + 2 * (Load(owned, hi) - 1) = Cardinality(P) + 2 * Load(owned, lo)
  <2>1. Cardinality(Q) + Cardinality(PairsWith(b, A)) - 0
          = Cardinality(P) + Cardinality(PairsWith(b, B)) - 0
    BY <1>5, <1>11, <1>12
  <2>2. Cardinality(Q) + 2 * (Load(owned, hi) - 1) - 0
          = Cardinality(P) + 2 * Load(owned, lo) - 0
    BY <1>7, <1>9, <2>1
  <2> QED BY <1>3, <1>13, <2>2
<1>15. \A p, q, h, l \in Nat : q + 2 * (h - 1) = p + 2 * l /\ h - l > 1 => q < p
  OBVIOUS
<1>16. Cardinality(Q) < Cardinality(P)
  BY <1>3, <1>13, <1>14, <1>15
<1> QED BY <1>13, <1>16 DEF P, Q

\* The loop of checkai cannot run for ever, whatever the bots and the clients
\* (reassignai).
THEOREM LoopShrinks == Spec => RefreshShrinks
<1>1. TypeOK /\ ListsSound /\ [Next]_vars
        => [looping /\ looping' => Cardinality(Together(owned')) < Cardinality(Together(owned))]_vars
  <2> SUFFICES ASSUME TypeOK, ListsSound, Next, looping, looping'
               PROVE  Cardinality(Together(owned')) < Cardinality(Together(owned))
    OBVIOUS
  <2>1. reassignai
    BY DEF Next, checkai, reassigned
  <2> QED BY <2>1, MoveShrinks
<1> QED BY <1>1, BotSafety, PTL DEF Spec, RefreshShrinks
=============================================================================
