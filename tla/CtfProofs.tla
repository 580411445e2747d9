----------------------------- MODULE CtfProofs -----------------------------
(***************************************************************************)
(* Proofs about Ctf and CtfHistory for any number of clients and flags,    *)
(* any mode and any time limits.  First the invariant: the types, that     *)
(* flags refer to live clients only, that nobody carries two, and that the *)
(* drop record lasts while a flag lies in the field.  The four need each   *)
(* other: a retake keeps dropcount in its type only because the dropper of *)
(* a flag implies that the flag lies in the field.  Then the six things a  *)
(* step may do to one flag, from which follow the versions, the scores and *)
(* the rules about earlier steps, and that the timers of flags, once set,  *)
(* run (FlagTimersRun).                                                    *)
(***************************************************************************)
EXTENDS CtfHistory, FiniteSetTheorems, TLAPS

\* The inductive invariant of the flag modes.
IInv == TypeOK /\ FlagRefsLive /\ OneFlagEach /\ DropRecordSound

-----------------------------------------------------------------------------
\* All the proofs need of INT_MAX, the drop count of a penalised flag.
LEMMA IntMax == INT_MAX \in Nat /\ INT_MAX > 1
BY SMT DEF INT_MAX

\* A flag stays well typed when one field changes within its type.
LEMMA FieldTypes ==
  ASSUME NEW f \in Flag
  PROVE  /\ \A v \in Nat : [f EXCEPT !.version = v] \in Flag
         /\ \A v \in Spawns \cup {NotSet} : [f EXCEPT !.spawnindex = v] \in Flag
         /\ \A v \in NotSet..RESETFLAGTIME : [f EXCEPT !.dropage = v] \in Flag
         /\ \A v \in 0..HOLDTIME : [f EXCEPT !.ownage = v] \in Flag
         /\ \A v \in NotSet..INVISFLAGTIME : [f EXCEPT !.invisage = v] \in Flag
         /\ \A v \in Clients \cup {NoOne} : [f EXCEPT !.owner = v] \in Flag
         /\ \A v \in Clients \cup {NoOne} : [f EXCEPT !.dropper = v] \in Flag
         /\ \A v \in {0, 1, INT_MAX} : [f EXCEPT !.dropcount = v] \in Flag
BY DEF Flag

\* The ages right after a time is set or cleared.
LEMMA AgeTypes ==
  /\ NotSet \in NotSet..RESETFLAGTIME /\ 0 \in NotSet..RESETFLAGTIME
  /\ NotSet \in NotSet..INVISFLAGTIME /\ 0 \in NotSet..INVISFLAGTIME
  /\ 0 \in 0..HOLDTIME
BY TimeAssumption DEF NotSet

\* ++f.version, announcing a change, leaves the rest of the flag alone.
LEMMA BumpType ==
  ASSUME NEW f \in Flag
  PROVE  /\ Bump(f) \in Flag
         /\ Bump(f).owner = f.owner
         /\ Bump(f).dropper = f.dropper
         /\ Bump(f).dropage = f.dropage
         /\ Bump(f).dropcount = f.dropcount
BY DEF Bump, Flag

\* returnflag forgets owner and dropper.
LEMMA ReturnType ==
  ASSUME NEW f \in Flag, NEW a \in {NotSet, 0}
  PROVE  /\ returnflag(f, a) \in Flag
         /\ returnflag(f, a).owner = NoOne
         /\ returnflag(f, a).dropper = NoOne
<1> DEFINE g1 == [f EXCEPT !.dropage = NotSet]
           g2 == [g1 EXCEPT !.dropcount = 0]
           g3 == [g2 EXCEPT !.owner = NoOne]
           g4 == [g3 EXCEPT !.dropper = NoOne]
           g5 == [g4 EXCEPT !.invisage = a]
<1>1. g1 \in Flag
  BY FieldTypes, AgeTypes
<1>2. g5 \in Flag
  <2> HIDE DEF g1
  <2>1. g2 \in Flag
    BY <1>1, FieldTypes
  <2> HIDE DEF g2
  <2>2. g3 \in Flag
    BY <2>1, FieldTypes
  <2> HIDE DEF g3
  <2>3. g4 \in Flag
    BY <2>2, FieldTypes
  <2> HIDE DEF g4
  <2> QED
    BY <2>3, FieldTypes, AgeTypes
<1>3. g5 = returnflag(f, a)
  BY DEF returnflag
<1>4. returnflag(f, a) \in Flag
  BY <1>2, <1>3, Zenon
<1> QED
  BY <1>4 DEF returnflag, Flag

\* dropflag names the dropper and lays the flag in the field.
LEMMA DropType ==
  ASSUME NEW f \in Flag, NEW d \in Clients, NEW p \in BOOLEAN
  PROVE  /\ dropflag(f, d, p) \in Flag
         /\ dropflag(f, d, p).owner = NoOne
         /\ dropflag(f, d, p).dropper = d
         /\ dropflag(f, d, p).dropage # NotSet
<1> DEFINE n == IF p THEN INT_MAX ELSE f.dropcount
           g1 == [f EXCEPT !.dropage = 0]
           g2 == [g1 EXCEPT !.dropcount = n]
           g3 == [g2 EXCEPT !.dropper = d]
           g4 == [g3 EXCEPT !.owner = NoOne]
           g5 == [g4 EXCEPT !.invisage = NotSet]
<1>1. g1 \in Flag /\ n \in {0, 1, INT_MAX}
  BY FieldTypes, AgeTypes DEF Flag
<1>2. g5 \in Flag
  <2> HIDE DEF n, g1
  <2>1. g2 \in Flag
    BY <1>1, FieldTypes
  <2> HIDE DEF g2
  <2>2. g3 \in Flag
    BY <2>1, FieldTypes
  <2> HIDE DEF g3
  <2>3. g4 \in Flag
    BY <2>2, FieldTypes
  <2> HIDE DEF g4
  <2> QED
    BY <2>3, FieldTypes, AgeTypes
<1>3. g5 = dropflag(f, d, p)
  BY DEF dropflag
<1>4. dropflag(f, d, p) \in Flag
  BY <1>2, <1>3, Zenon
<1> QED
  BY <1>4 DEF dropflag, Flag, NotSet

\* A client takes a flag he did not drop, or dropped and never retook.
LEMMA OwnType ==
  ASSUME NEW f \in Flag, NEW c \in Clients, c = f.dropper => f.dropcount = 0
  PROVE  /\ ownflag(f, c) \in Flag
         /\ ownflag(f, c).owner = c
         /\ ownflag(f, c).dropper = NoOne
         /\ ownflag(f, c).dropcount # INT_MAX
<1> DEFINE n == IF c # f.dropper THEN 0
                ELSE IF f.dropcount < INT_MAX THEN f.dropcount + 1 ELSE f.dropcount
           g1 == [f EXCEPT !.owner = c]
           g2 == [g1 EXCEPT !.ownage = 0]
           g3 == [g2 EXCEPT !.dropcount = n]
           g4 == [g3 EXCEPT !.dropper = NoOne]
           g5 == [g4 EXCEPT !.invisage = NotSet]
<1>1. g1 \in Flag
  BY FieldTypes
<1>2. n \in {0, 1, INT_MAX} /\ n # INT_MAX
  BY IntMax
<1>3. g5 \in Flag
  <2> HIDE DEF n, g1
  <2>1. g2 \in Flag
    BY <1>1, FieldTypes, AgeTypes
  <2> HIDE DEF g2
  <2>2. g3 \in Flag
    BY <2>1, <1>2, FieldTypes
  <2> HIDE DEF g3
  <2>3. g4 \in Flag
    BY <2>2, FieldTypes
  <2> HIDE DEF g4
  <2> QED
    BY <2>3, FieldTypes, AgeTypes
<1>4. g5 = ownflag(f, c)
  BY DEF ownflag
<1>5. ownflag(f, c) \in Flag
  BY <1>3, <1>4, Zenon
<1>6. ownflag(f, c).dropcount = n
  BY DEF ownflag, Flag
<1> QED
  BY <1>2, <1>5, <1>6 DEF ownflag, Flag

-----------------------------------------------------------------------------
\* What the invariant says of a flags vector when P are the clients that play
\* and Q those that are connected.
FlagsSound(fs, P, Q) ==
  /\ DOMAIN fs \in {{}, FlagIds}
  /\ fs \in [DOMAIN fs -> Flag]
  /\ \A i \in DOMAIN fs :
       /\ fs[i].owner # NoOne => fs[i].owner \in P
       /\ fs[i].dropper # NoOne => fs[i].dropper \in Q
  /\ \A i, j \in DOMAIN fs : fs[i].owner = fs[j].owner /\ fs[i].owner # NoOne => i = j
  /\ \A i \in DOMAIN fs :
       /\ fs[i].owner # NoOne => fs[i].dropper = NoOne /\ fs[i].dropcount # INT_MAX
       /\ fs[i].dropper # NoOne => fs[i].dropage # NotSet

PlayingSet == {c \in Clients : Playing(c)}
ConnectedSet == {c \in Clients : Connected(c)}

\* The invariant is soundness of the flags vector and the remaining types.
RestType ==
  /\ client \in [Clients -> [life: Lives, team: 0..2]]
  /\ notgotflags \in BOOLEAN
  /\ scores \in [1..2 -> Int]
  /\ match \in Matches

LEMMA InvSplit == IInv <=> RestType /\ FlagsSound(flags, PlayingSet, ConnectedSet)
<1>1. ASSUME IInv PROVE RestType /\ FlagsSound(flags, PlayingSet, ConnectedSet)
  <2>1. DOMAIN flags \in {{}, FlagIds} /\ flags \in [DOMAIN flags -> Flag] /\ RestType
    BY <1>1 DEF IInv, TypeOK, RestType
  <2>2. \A i \in DOMAIN flags : flags[i].owner \in Clients \cup {NoOne}
                             /\ flags[i].dropper \in Clients \cup {NoOne}
    BY <2>1 DEF Flag
  <2>3. QED
    BY <1>1, <2>1, <2>2
    DEF IInv, FlagsSound, FlagRefsLive, OneFlagEach, DropRecordSound, PlayingSet, ConnectedSet
<1>2. ASSUME RestType, FlagsSound(flags, PlayingSet, ConnectedSet) PROVE IInv
  BY <1>2 DEF IInv, TypeOK, RestType, FlagsSound, FlagRefsLive, OneFlagEach,
              DropRecordSound, PlayingSet, ConnectedSet
<1> QED
  BY <1>1, <1>2

\* More clients playing or connected keep the vector sound.
LEMMA SoundMonotone ==
  ASSUME NEW fs, NEW P, NEW Q, NEW P2, NEW Q2,
         FlagsSound(fs, P, Q), P \subseteq P2, Q \subseteq Q2
  PROVE  FlagsSound(fs, P2, Q2)
BY DEF FlagsSound

\* A change of some flags that keeps owners and droppers or forgets them.
LEMMA SoundPointwise ==
  ASSUME NEW fs, NEW gs, NEW P, NEW Q, FlagsSound(fs, P, Q),
         DOMAIN gs = DOMAIN fs, gs \in [DOMAIN fs -> Flag],
         \A i \in DOMAIN fs :
           \/ gs[i].owner = NoOne /\ gs[i].dropper = NoOne
           \/ /\ gs[i].owner = fs[i].owner /\ gs[i].dropper = fs[i].dropper
              /\ gs[i].dropcount = fs[i].dropcount
              /\ fs[i].dropage # NotSet => gs[i].dropage # NotSet
  PROVE  FlagsSound(gs, P, Q)
BY DEF FlagsSound

\* dropflag(ci, dropper) leaves nothing with ci.
LEMMA DropSound ==
  ASSUME NEW fs, NEW P, NEW Q, FlagsSound(fs, P, Q),
         NEW c \in Clients, NEW d \in Clients, d \in Q,
         NEW p \in BOOLEAN, NEW inside \in BOOLEAN
  PROVE  FlagsSound(DropCarried(fs, c, d, p, inside), P \ {c}, Q)
<1> DEFINE gs == DropCarried(fs, c, d, p, inside)
<1>1. DOMAIN gs = DOMAIN fs
  BY DEF DropCarried
<1>2. ASSUME NEW i \in DOMAIN fs, fs[i].owner = c
      PROVE  /\ gs[i] \in Flag /\ gs[i].owner = NoOne
             /\ gs[i].dropper \in {NoOne, d}
             /\ gs[i].dropper # NoOne => gs[i].dropage # NotSet
  <2>1. fs[i] \in Flag
    BY DEF FlagsSound
  <2>2. CASE m_protect /\ inside
    <3>1. gs[i] = Bump(returnflag(fs[i], NotSet))
      BY <1>2, <2>2 DEF DropCarried
    <3> QED
      BY <3>1, <2>1, ReturnType, BumpType
  <2>3. CASE ~(m_protect /\ inside)
    <3>1. gs[i] = Bump(dropflag(fs[i], d, p))
      BY <1>2, <2>3 DEF DropCarried
    <3> QED
      BY <3>1, <2>1, DropType, BumpType
  <2> QED
    BY <2>2, <2>3
<1>3. ASSUME NEW i \in DOMAIN fs, fs[i].owner # c PROVE gs[i] = fs[i]
  BY <1>3 DEF DropCarried
<1>4. gs \in [DOMAIN fs -> Flag]
  <2>1. \A i \in DOMAIN fs : gs[i] \in Flag
    BY <1>2, <1>3 DEF FlagsSound
  <2> QED
    BY <2>1, <1>1 DEF DropCarried
<1> HIDE DEF gs
<1>5. FlagsSound(gs, P \ {c}, Q)
  BY <1>1, <1>2, <1>3, <1>4, ClientsAssumption DEF FlagsSound
<1> QED
  BY <1>5 DEF gs

\* After died and leavegame ci is no dropper either.
LEMMA ForgetSound ==
  ASSUME NEW fs, NEW P, NEW Q, FlagsSound(fs, P, Q), NEW c \in Clients
  PROVE  FlagsSound(ForgetDropper(fs, c), P, Q \ {c})
<1> DEFINE gs == ForgetDropper(fs, c)
<1>1. DOMAIN gs = DOMAIN fs
  BY DEF ForgetDropper
<1>2. ASSUME NEW i \in DOMAIN fs, fs[i].dropper = c
      PROVE  gs[i] \in Flag /\ gs[i].owner = NoOne /\ gs[i].dropper = NoOne
  <2> DEFINE g1 == [fs[i] EXCEPT !.dropper = NoOne]
             g2 == [g1 EXCEPT !.dropcount = 0]
  <2>1. fs[i] \in Flag /\ fs[i].owner = NoOne
    BY <1>2, ClientsAssumption DEF FlagsSound
  <2>2. gs[i] = g2
    BY <1>2 DEF ForgetDropper
  <2>3. g1 \in Flag /\ g1.owner = NoOne /\ g1.dropper = NoOne
    BY <2>1, FieldTypes DEF Flag
  <2> HIDE DEF g1
  <2>4. g2 \in Flag /\ g2.owner = NoOne /\ g2.dropper = NoOne
    BY <2>3, FieldTypes DEF Flag
  <2> HIDE DEF g2, gs
  <2> QED
    BY <2>2, <2>4
<1>3. ASSUME NEW i \in DOMAIN fs, fs[i].dropper # c PROVE gs[i] = fs[i]
  BY <1>3 DEF ForgetDropper
<1>4. gs \in [DOMAIN fs -> Flag]
  <2>1. \A i \in DOMAIN fs : gs[i] \in Flag
    BY <1>2, <1>3 DEF FlagsSound
  <2> QED
    BY <2>1, <1>1 DEF ForgetDropper
<1> HIDE DEF gs
<1>5. FlagsSound(gs, P, Q \ {c})
  BY <1>1, <1>2, <1>3, <1>4, ClientsAssumption DEF FlagsSound
<1> QED
  BY <1>5 DEF gs

\* The whole of died and of leavegame.
LEMMA LeaveSound ==
  ASSUME NEW fs, NEW P, NEW Q, FlagsSound(fs, P, Q),
         NEW c \in Clients, NEW d \in Clients, d \in Q,
         NEW p \in BOOLEAN, NEW inside \in BOOLEAN
  PROVE  FlagsSound(ForgetDropper(DropCarried(fs, c, d, p, inside), c), P \ {c}, Q \ {c})
BY DropSound, ForgetSound

SInv == RestType /\ FlagsSound(flags, PlayingSet, ConnectedSet)

-----------------------------------------------------------------------------
\* What CanTouch leaves to takeflag: a flag nobody owns, in the vector.
LEMMA TouchFacts ==
  ASSUME SInv, NEW c \in Clients, NEW i \in DOMAIN flags, NEW v, CanTouch(c, i, v)
  PROVE  /\ flags[i] \in Flag
         /\ flags[i].owner = NoOne
         /\ c \in PlayingSet
         /\ c = flags[i].dropper => flags[i].dropcount = 0
BY ClientsAssumption, IntMax DEF SInv, FlagsSound, CanTouch, PlayingSet, Playing, Flag

\* A flag that goes home, is spawned elsewhere and announced.
LEMMA HomeType ==
  ASSUME NEW f \in Flag, NEW a \in {NotSet, 0}, NEW s \in Spawns \cup {NotSet}
  PROVE  LET g == Bump([returnflag(f, a) EXCEPT !.spawnindex = s])
         IN  g \in Flag /\ g.owner = NoOne /\ g.dropper = NoOne
<1> DEFINE g1 == returnflag(f, a)
           g2 == [g1 EXCEPT !.spawnindex = s]
<1>1. g1 \in Flag /\ g1.owner = NoOne /\ g1.dropper = NoOne
  BY ReturnType
<1> HIDE DEF g1
<1>2. g2 \in Flag /\ g2.owner = NoOne /\ g2.dropper = NoOne
  BY <1>1, FieldTypes DEF Flag
<1> HIDE DEF g2
<1>3. Bump(g2) \in Flag /\ Bump(g2).owner = NoOne /\ Bump(g2).dropper = NoOne
  BY <1>2, BumpType
<1> QED
  BY <1>3 DEF g1, g2

\* The clients change, the flags do not.
LEMMA ClientStep ==
  ASSUME SInv, UNCHANGED <<flags, notgotflags, scores, match>>,
         client' \in [Clients -> [life: Lives, team: 0..2]],
         PlayingSet \subseteq PlayingSet', ConnectedSet \subseteq ConnectedSet'
  PROVE  SInv'
<1>1. FlagsSound(flags, PlayingSet', ConnectedSet')
  BY SoundMonotone DEF SInv
<1> QED
  BY <1>1 DEF SInv, RestType

\* A client dies, leaves or drops: P and Q are what it takes away.
LEMMA FlagStep ==
  ASSUME SInv, UNCHANGED <<notgotflags, scores>>, match' \in Matches,
         client' \in [Clients -> [life: Lives, team: 0..2]],
         NEW P, NEW Q, FlagsSound(flags', P, Q),
         P \subseteq PlayingSet', Q \subseteq ConnectedSet'
  PROVE  SInv'
<1>1. FlagsSound(flags', PlayingSet', ConnectedSet')
  BY SoundMonotone
<1> QED
  BY <1>1 DEF SInv, RestType

\* Deaths, departures and drops keep the invariant.
LEMMA LifeSteps ==
  ASSUME SInv, NEW c \in Clients, NEW inside \in BOOLEAN,
         \/ clientdisconnect(c, inside) \/ setspectator(c, inside)
         \/ suicide(c, inside) \/ TryDropFlag(c, inside)
         \/ \E actor \in Clients : dodamage(c, actor, inside)
         \/ \E t \in 1..2 : ReteamBot(c, t, inside)
         \/ \E t \in 1..2, ds \in BOOLEAN : SwitchTeam(c, t, ds, inside)
  PROVE  SInv'
<1> DEFINE P == PlayingSet
           Q == ConnectedSet
<1>1. /\ FlagsSound(flags, P, Q) /\ client \in [Clients -> [life: Lives, team: 0..2]]
      /\ match \in Matches
  BY DEF SInv, RestType
<1>2. CASE clientdisconnect(c, inside)
  <2>1. FlagsSound(flags', P \ {c}, Q \ {c})
    BY <1>1, <1>2, LeaveSound DEF clientdisconnect, leavegame, ConnectedSet
  <2>2. client' \in [Clients -> [life: Lives, team: 0..2]]
    BY <1>1, <1>2 DEF clientdisconnect, Lives
  <2>3. P \ {c} \subseteq PlayingSet' /\ Q \ {c} \subseteq ConnectedSet'
    BY <1>1, <1>2 DEF clientdisconnect, PlayingSet, ConnectedSet, Playing, Connected
  <2>4. match' \in Matches
    BY <1>1, <1>2 DEF clientdisconnect, Matches
  <2> QED
    BY <1>2, <2>1, <2>2, <2>3, <2>4, FlagStep DEF clientdisconnect
<1>3. CASE setspectator(c, inside)
  <2>1. FlagsSound(flags', P \ {c}, Q \ {c})
    BY <1>1, <1>3, LeaveSound
    DEF setspectator, leavegame, ConnectedSet, Playing, Connected
  <2>2. client' \in [Clients -> [life: Lives, team: 0..2]]
    BY <1>1, <1>3 DEF setspectator, SetLife, Lives
  <2>3. P \ {c} \subseteq PlayingSet' /\ Q \ {c} \subseteq ConnectedSet'
    BY <1>1, <1>3 DEF setspectator, SetLife, PlayingSet, ConnectedSet, Playing, Connected
  <2> QED
    BY <1>1, <1>3, <2>1, <2>2, <2>3, FlagStep DEF setspectator
<1>4. ASSUME client[c].life = "alive", SetLife(c, "dead"),
             UNCHANGED <<notgotflags, scores, match>>,
             NEW d \in Clients, d \in Q, NEW p \in BOOLEAN,
             flags' = ForgetDropper(DropCarried(flags, c, d, p, inside), c)
      PROVE  SInv'
  <2>1. FlagsSound(flags', P \ {c}, Q \ {c})
    BY <1>1, <1>4, LeaveSound
  <2>2. client' \in [Clients -> [life: Lives, team: 0..2]]
    BY <1>1, <1>4 DEF SetLife, Lives
  <2>3. P \ {c} \subseteq PlayingSet' /\ Q \ {c} \subseteq ConnectedSet'
    BY <1>1, <1>4 DEF SetLife, PlayingSet, ConnectedSet, Playing, Connected
  <2> QED
    BY <1>1, <1>4, <2>1, <2>2, <2>3, FlagStep
<1>5. CASE suicide(c, inside)
  <2>1. c \in Q
    BY <1>1, <1>5 DEF suicide, ConnectedSet, Connected
  <2>2. flags' = ForgetDropper(DropCarried(flags, c, c, FALSE, inside), c)
    BY <1>5 DEF suicide, died, TeamKill
  <2> QED
    BY <1>4, <1>5, <2>1, <2>2 DEF suicide
<1>6. ASSUME NEW actor \in Clients, dodamage(c, actor, inside) PROVE SInv'
  <2> DEFINE tk == TeamKill(c, actor)
             d == IF tk THEN actor ELSE c
  <2>1. tk \in BOOLEAN /\ d \in Clients /\ d \in Q
    BY <1>1, <1>6, LimitAssumption DEF dodamage, ConnectedSet, Connected, TeamKill
  <2>2. flags' = ForgetDropper(DropCarried(flags, c, d, tk, inside), c)
    BY <1>6 DEF dodamage, died
  <2> HIDE DEF d, tk
  <2> QED
    BY <1>4, <1>6, <2>1, <2>2 DEF dodamage
<1>7. CASE TryDropFlag(c, inside)
  <2>1. FlagsSound(flags', P \ {c}, Q)
    BY <1>1, <1>7, DropSound DEF TryDropFlag, ConnectedSet, Playing, Connected
  <2>2. P \ {c} \subseteq PlayingSet' /\ Q \subseteq ConnectedSet' /\ client' = client
    BY <1>7 DEF TryDropFlag, PlayingSet, ConnectedSet, Playing, Connected
  <2> QED
    BY <1>1, <1>7, <2>1, <2>2, FlagStep DEF TryDropFlag
<1>8. ASSUME NEW t \in 1..2, ReteamBot(c, t, inside) PROVE SInv'
  <2>1. client' \in [Clients -> [life: Lives, team: 0..2]]
    BY <1>1, <1>8 DEF ReteamBot
  <2>2. P \subseteq PlayingSet' /\ Q \subseteq ConnectedSet'
    BY <1>1, <1>8 DEF ReteamBot, PlayingSet, ConnectedSet, Playing, Connected
  <2>3. CASE client[c].life = "alive"
    <3>1. FlagsSound(flags', P \ {c}, Q)
      BY <1>1, <1>8, <2>3, DropSound DEF ReteamBot, ConnectedSet, Connected
    <3>2. P \ {c} \subseteq PlayingSet' /\ UNCHANGED <<notgotflags, scores, match>>
      BY <1>8, <2>2 DEF ReteamBot
    <3> HIDE DEF P, Q
    <3> QED
      BY <1>1, <2>1, <2>2, <3>1, <3>2, FlagStep
  <2>4. CASE client[c].life # "alive"
    BY <1>8, <2>1, <2>2, <2>4, ClientStep DEF ReteamBot
  <2> QED
    BY <2>3, <2>4
<1>9. ASSUME NEW t \in 1..2, NEW ds \in BOOLEAN, SwitchTeam(c, t, ds, inside) PROVE SInv'
  <2>1. client' \in [Clients -> [life: Lives, team: 0..2]]
    BY <1>1, <1>9 DEF SwitchTeam, Lives
  <2>2. P \subseteq PlayingSet' /\ Q \subseteq ConnectedSet'
    BY <1>1, <1>9 DEF SwitchTeam, PlayingSet, ConnectedSet, Playing, Connected
  <2>3. CASE ds /\ client[c].life = "alive"
    <3>1. flags' = ForgetDropper(DropCarried(flags, c, c, FALSE, inside), c)
      BY <1>9, <2>3 DEF SwitchTeam, died, TeamKill
    <3>2. c \in Q
      BY <1>9 DEF SwitchTeam, ConnectedSet
    <3>3. UNCHANGED <<notgotflags, scores, match>>
      BY <1>9 DEF SwitchTeam
    <3> HIDE DEF P, Q
    <3>4. FlagsSound(flags', P \ {c}, Q \ {c})
      BY <1>1, <3>1, <3>2, LeaveSound
    <3>5. P \ {c} \subseteq PlayingSet' /\ Q \ {c} \subseteq ConnectedSet'
      BY <2>2
    <3> QED
      BY <1>1, <2>1, <3>3, <3>4, <3>5, FlagStep
  <2>4. CASE ~(ds /\ client[c].life = "alive")
    BY <1>9, <2>1, <2>2, <2>4, ClientStep DEF SwitchTeam
  <2> QED
    BY <2>3, <2>4
<1> QED
  BY <1>2, <1>3, <1>5, <1>6, <1>7, <1>8, <1>9

\* addscore keeps the types of the scores and of the match state.
LEMMA ScoreType ==
  ASSUME SInv, NEW t \in 0..2, addscore(t)
  PROVE  scores' \in [1..2 -> Int] /\ match' \in Matches
BY DEF SInv, RestType, addscore, TimeUp, Matches

\* One take of a flag, of any of the four kinds.
LEMMA TakeStep ==
  ASSUME SInv, NEW c \in Clients, NEW i \in FlagIds, NEW v, TakeFlag(c, i, v)
  PROVE  SInv'
<1> DEFINE P == PlayingSet
           Q == ConnectedSet
<1>1. FlagsSound(flags, P, Q) /\ client \in [Clients -> [life: Lives, team: 0..2]]
  BY DEF SInv, RestType
<1>2. client' = client /\ notgotflags' = notgotflags /\ P' = P /\ Q' = Q
  BY DEF TakeFlag, PlayingSet, ConnectedSet, Playing, Connected
<1>3. i \in DOMAIN flags /\ CanTouch(c, i, v)
  BY DEF TakeFlag
<1>4. /\ flags[i] \in Flag /\ flags[i].owner = NoOne /\ c \in P
      /\ c = flags[i].dropper => flags[i].dropcount = 0
  BY <1>3, TouchFacts
<1>5. client[c].team \in 0..2 /\ StartInvis \in {NotSet, 0}
  BY <1>1 DEF StartInvis
<1>6. scores \in [1..2 -> Int] /\ match \in Matches /\ notgotflags \in BOOLEAN
  BY DEF SInv, RestType
<1>7. ASSUME FlagsSound(flags', P, Q), scores' \in [1..2 -> Int], match' \in Matches
      PROVE  SInv'
  BY <1>1, <1>2, <1>6, <1>7 DEF SInv, RestType
<1>8. ASSUME NEW g \in Flag, g.owner = NoOne, g.dropper = NoOne,
             flags' = [flags EXCEPT ![i] = g]
      PROVE  FlagsSound(flags', P, Q)
  BY <1>1, <1>3, <1>8, SoundPointwise DEF FlagsSound
<1>9. CASE PickUp(c, i)
  <2> DEFINE g == Bump(ownflag(flags[i], c))
  <2>1. g \in Flag /\ g.owner = c /\ g.dropper = NoOne /\ g.dropcount # INT_MAX
    BY <1>4, OwnType, BumpType
  <2>2. flags' = [flags EXCEPT ![i] = g] /\ UNCHANGED <<scores, match>> /\ Carried(c) = {}
    BY <1>9 DEF PickUp
  <2> HIDE DEF g
  <2>3. \A j \in DOMAIN flags : flags[j].owner # c
    BY <2>2 DEF Carried
  <2>4. FlagsSound(flags', P, Q)
    BY <1>1, <1>3, <1>4, <2>1, <2>2, <2>3, ClientsAssumption DEF FlagsSound
  <2> QED
    BY <1>6, <1>7, <2>2, <2>4
<1>10. CASE ProtectScore(c, i)
  <2>1. PICK s \in spawnflag(flags[i]) :
          flags' = [flags EXCEPT ![i] =
                      Bump([returnflag(flags[i], StartInvis) EXCEPT !.spawnindex = s])]
    BY <1>10 DEF ProtectScore, scoreflag
  <2>2. s \in Spawns \cup {NotSet} /\ addscore(client[c].team)
    BY <1>4, <1>10 DEF ProtectScore, scoreflag, spawnflag, Flag
  <2> DEFINE g == Bump([returnflag(flags[i], StartInvis) EXCEPT !.spawnindex = s])
  <2>3. g \in Flag /\ g.owner = NoOne /\ g.dropper = NoOne
    BY <1>4, <1>5, <2>2, HomeType
  <2>4. flags' = [flags EXCEPT ![i] = g]
    BY <2>1
  <2> HIDE DEF g
  <2> QED
    BY <1>5, <1>7, <1>8, <2>2, <2>3, <2>4, ScoreType
<1>11. CASE Return(c, i)
  <2> DEFINE g == Bump(returnflag(flags[i], NotSet))
  <2>1. g \in Flag /\ g.owner = NoOne /\ g.dropper = NoOne
    BY <1>4, ReturnType, BumpType
  <2>2. flags' = [flags EXCEPT ![i] = g] /\ UNCHANGED <<scores, match>>
    BY <1>11 DEF Return
  <2> HIDE DEF g
  <2> QED
    BY <1>6, <1>7, <1>8, <2>1, <2>2
<1>12. CASE CtfScore(c, i)
  <2>1. PICK j \in Carried(c) : relayflag(c, i, j)
    BY <1>12 DEF CtfScore
  <2> DEFINE g == Bump(returnflag(flags[j], StartInvis))
             h == Bump(flags[i])
  <2>2. j \in DOMAIN flags /\ flags[j] \in Flag /\ j # i
    BY <1>1, <1>4, ClientsAssumption DEF Carried, FlagsSound
  <2>3. g \in Flag /\ g.owner = NoOne /\ g.dropper = NoOne
    BY <1>5, <2>2, ReturnType, BumpType
  <2>4. /\ h \in Flag /\ h.owner = flags[i].owner /\ h.dropper = flags[i].dropper
        /\ h.dropage = flags[i].dropage /\ h.dropcount = flags[i].dropcount
    BY <1>4, BumpType
  <2>5. flags' = [[flags EXCEPT ![i] = h] EXCEPT ![j] = g]
    BY <1>3, <2>1, <2>2 DEF relayflag
  <2> HIDE DEF g, h
  <2>6. /\ DOMAIN flags' = DOMAIN flags
        /\ \A k \in DOMAIN flags :
             flags'[k] = IF k = j THEN g ELSE IF k = i THEN h ELSE flags[k]
    BY <2>5
  <2>7. flags' \in [DOMAIN flags -> Flag]
    BY <1>1, <2>3, <2>4, <2>5 DEF FlagsSound
  <2>8. FlagsSound(flags', P, Q)
    BY <1>1, <2>3, <2>4, <2>6, <2>7, SoundPointwise
  <2> QED
    BY <1>5, <1>7, <2>1, <2>8, ScoreType DEF relayflag
<1> QED
  BY <1>9, <1>10, <1>11, <1>12 DEF TakeFlag

\* Flags just added to an empty vector.
LEMMA FreshSound ==
  ASSUME NEW fs \in addflags \cup {NoFlags}, NEW P, NEW Q
  PROVE  FlagsSound(fs, P, Q)
<1>1. ASSUME NEW s \in Spawns \cup {NotSet}
      PROVE  /\ FreshFlag(s) \in Flag
             /\ FreshFlag(s).owner = NoOne /\ FreshFlag(s).dropper = NoOne
  BY TimeAssumption DEF FreshFlag, Flag, StartInvis, NotSet
<1>2. CASE fs \in addflags
  <2>1. PICK s \in Spawns \cup {NotSet} : fs = [i \in FlagIds |-> FreshFlag(s)]
    BY <1>2 DEF addflags
  <2> QED
    BY <1>1, <2>1 DEF FlagsSound
<1>3. CASE fs = NoFlags
  BY <1>3 DEF FlagsSound, NoFlags
<1> QED
  BY <1>2, <1>3

\* Time passing over one flag.
LEMMA AgedType ==
  ASSUME NEW f \in Flag
  PROVE  /\ Aged(f) \in Flag
         /\ Aged(f).owner = f.owner /\ Aged(f).dropper = f.dropper
         /\ Aged(f).dropcount = f.dropcount
         /\ f.dropage # NotSet => Aged(f).dropage # NotSet
<1> DEFINE a == Older(f.dropage, RESETFLAGTIME)
           b == Older(f.ownage, HOLDTIME)
           d == Older(f.invisage, INVISFLAGTIME)
           g1 == [f EXCEPT !.dropage = a]
           g2 == [g1 EXCEPT !.ownage = b]
           g3 == [g2 EXCEPT !.invisage = d]
<1>1. /\ a \in NotSet..RESETFLAGTIME /\ b \in 0..HOLDTIME /\ d \in NotSet..INVISFLAGTIME
      /\ f.dropage # NotSet => a # NotSet
  BY TimeAssumption DEF Older, NotSet, Flag
<1>2. Aged(f) = g3
  BY DEF Aged
<1> HIDE DEF a, b, d
<1>3. /\ g1 \in Flag /\ g1.owner = f.owner /\ g1.dropper = f.dropper
      /\ g1.dropcount = f.dropcount /\ g1.dropage = a
  BY <1>1, FieldTypes DEF Flag
<1> HIDE DEF g1
<1>4. /\ g2 \in Flag /\ g2.owner = f.owner /\ g2.dropper = f.dropper
      /\ g2.dropcount = f.dropcount /\ g2.dropage = a
  BY <1>1, <1>3, FieldTypes DEF Flag
<1> HIDE DEF g2
<1>5. /\ g3 \in Flag /\ g3.owner = f.owner /\ g3.dropper = f.dropper
      /\ g3.dropcount = f.dropcount /\ g3.dropage = a
  BY <1>1, <1>4, FieldTypes DEF Flag
<1> HIDE DEF g3
<1> QED
  BY <1>1, <1>2, <1>5

\* update() on one flag that nobody has held long enough.
LEMMA ResetType ==
  ASSUME NEW f \in Flag, NEW s \in Spawns \cup {NotSet}
  PROVE  /\ ResetFlag(f, s) \in Flag
         /\ \/ ResetFlag(f, s).owner = NoOne /\ ResetFlag(f, s).dropper = NoOne
            \/ /\ ResetFlag(f, s).owner = f.owner
               /\ ResetFlag(f, s).dropper = f.dropper
               /\ ResetFlag(f, s).dropcount = f.dropcount
               /\ ResetFlag(f, s).dropage = f.dropage
<1>1. CASE Resets(f)
  <2>1. StartInvis \in {NotSet, 0}
    BY DEF StartInvis
  <2> DEFINE g == Bump([returnflag(f, StartInvis) EXCEPT !.spawnindex = s])
  <2>2. g \in Flag /\ g.owner = NoOne /\ g.dropper = NoOne
    BY <2>1, HomeType
  <2>3. ResetFlag(f, s) = g
    BY <1>1 DEF ResetFlag
  <2> HIDE DEF g
  <2> QED
    BY <2>2, <2>3
<1>2. CASE ~Resets(f)
  <2> DEFINE a == IF f.invisage = INVISFLAGTIME THEN NotSet ELSE f.invisage
  <2>1. a \in NotSet..INVISFLAGTIME
    BY AgeTypes DEF Flag
  <2>2. ResetFlag(f, s) = [f EXCEPT !.invisage = a]
    BY <1>2 DEF ResetFlag
  <2> HIDE DEF a
  <2> QED
    BY <2>1, <2>2, FieldTypes DEF Flag
<1> QED
  BY <1>1, <1>2

\* serverupdate.
LEMMA TickStep == SInv /\ Tick => SInv'
<1> SUFFICES ASSUME SInv, Tick PROVE SInv'
  OBVIOUS
<1> DEFINE P == PlayingSet
           Q == ConnectedSet
           fs == [i \in DOMAIN flags |-> Aged(flags[i])]
<1>1. FlagsSound(flags, P, Q) /\ client \in [Clients -> [life: Lives, team: 0..2]]
  BY DEF SInv, RestType
<1>2. client' = client /\ notgotflags' = notgotflags /\ P' = P /\ Q' = Q
  BY DEF Tick, PlayTick, LimitTick, IdleTick, PlayingSet, ConnectedSet, Playing, Connected
<1>3. scores \in [1..2 -> Int] /\ match \in Matches /\ notgotflags \in BOOLEAN
  BY DEF SInv, RestType
<1>4. ASSUME FlagsSound(flags', P, Q), scores' \in [1..2 -> Int], match' \in Matches
      PROVE  SInv'
  BY <1>1, <1>2, <1>3, <1>4 DEF SInv, RestType
<1>5. FlagsSound(fs, P, Q)
  <2>1. \A i \in DOMAIN flags : flags[i] \in Flag
    BY <1>1 DEF FlagsSound
  <2>2. DOMAIN fs = DOMAIN flags /\ fs \in [DOMAIN flags -> Flag]
    BY <2>1, AgedType
  <2>3. \A i \in DOMAIN flags : fs[i] = Aged(flags[i])
    OBVIOUS
  <2> HIDE DEF fs
  <2> QED
    BY <1>1, <2>1, <2>2, <2>3, AgedType, SoundPointwise
<1>6. \A i \in DOMAIN fs : fs[i] \in Flag
  BY <1>5 DEF FlagsSound
<1>7. \/ flags' = fs /\ scores' = scores /\ match' \in Matches
      \/ update(fs)
  BY <1>3 DEF Tick, PlayTick, LimitTick, IdleTick, AgedFlags, TimeUp, Matches
<1> HIDE DEF fs
<1>8. CASE flags' = fs /\ scores' = scores /\ match' \in Matches
  BY <1>3, <1>4, <1>5, <1>7, <1>8
<1>9. ASSUME update(fs), \E i \in DOMAIN fs : HoldScores(fs[i]) PROVE SInv'
  <2>1. PICK i \in DOMAIN fs, s \in Spawns :
          /\ HoldScores(fs[i])
          /\ flags' = [fs EXCEPT ![i] =
                         Bump([returnflag(fs[i], NotSet) EXCEPT !.spawnindex = s])]
          /\ addscore(client[fs[i].owner].team)
    BY <1>9 DEF update
  <2> DEFINE g == Bump([returnflag(fs[i], NotSet) EXCEPT !.spawnindex = s])
  <2>2. g \in Flag /\ g.owner = NoOne /\ g.dropper = NoOne
    BY <1>6, HomeType
  <2>3. flags' = [fs EXCEPT ![i] = g]
    BY <2>1
  <2> HIDE DEF g
  <2>4. FlagsSound(flags', P, Q)
    BY <1>5, <2>2, <2>3, SoundPointwise DEF FlagsSound
  <2>5. client[fs[i].owner].team \in 0..2
    BY <1>1, <1>6, <2>1 DEF HoldScores, Flag
  <2> QED
    BY <1>4, <2>1, <2>4, <2>5, ScoreType
<1>10. ASSUME update(fs), ~\E i \in DOMAIN fs : HoldScores(fs[i]) PROVE SInv'
  <2>1. PICK s \in Spawns \cup {NotSet} : flags' = [i \in DOMAIN fs |-> ResetFlag(fs[i], s)]
    BY <1>10 DEF update
  <2>2. DOMAIN flags' = DOMAIN fs /\ flags' \in [DOMAIN fs -> Flag]
    BY <1>6, <2>1, ResetType
  <2>3. \A i \in DOMAIN fs : flags'[i] = ResetFlag(fs[i], s)
    BY <2>1
  <2>4. FlagsSound(flags', P, Q)
    BY <1>5, <1>6, <2>2, <2>3, ResetType, SoundPointwise
  <2>5. \A t \in 1..2 :
          Cardinality({i \in DOMAIN fs : Resets(fs[i]) /\ FlagTeam[i] = t}) \in Nat
    <3> SUFFICES ASSUME NEW t \in 1..2
                 PROVE  Cardinality({i \in DOMAIN fs : Resets(fs[i]) /\ FlagTeam[i] = t}) \in Nat
      OBVIOUS
    <3>1. {i \in DOMAIN fs : Resets(fs[i]) /\ FlagTeam[i] = t} \subseteq FlagIds
      BY <1>5 DEF FlagsSound
    <3> QED
      BY <3>1, TeamAssumption, FS_Subset, FS_CardinalityType
  <2>6. match' = match /\ scores' \in [1..2 -> Int]
    BY <1>3, <1>10, <2>5 DEF update
  <2> QED
    BY <1>3, <1>4, <2>4, <2>6
<1> QED
  BY <1>7, <1>8, <1>9, <1>10

\* changemap and parseflags.
LEMMA MapSteps == SInv /\ MapStep => SInv'
<1> SUFFICES ASSUME SInv, MapStep PROVE SInv'
  OBVIOUS
<1>1. flags' \in addflags \cup {NoFlags} /\ notgotflags' \in BOOLEAN
  BY DEF MapStep, changemap, parseflags
<1>2. FlagsSound(flags', PlayingSet', ConnectedSet')
  BY <1>1, FreshSound
<1>3. scores' \in [1..2 -> Int] /\ match' \in Matches
  <2>1. CASE parseflags
    BY <2>1 DEF parseflags, SInv, RestType
  <2>2. CASE changemap
    <3>1. scores' \in [1..2 -> Int]
      BY <2>2 DEF changemap
    <3>2. match' \in Matches
      BY <2>2 DEF changemap, Matches
    <3> QED
      BY <3>1, <3>2
  <2> QED
    BY <2>1, <2>2 DEF MapStep
<1>4. client' \in [Clients -> [life: Lives, team: 0..2]]
  <2>1. CASE parseflags
    BY <2>1 DEF parseflags, SInv, RestType
  <2>2. CASE changemap
    <3>1. PICK team \in [Clients -> StartTeams] :
            client' = [c \in Clients |->
                    CASE client[c].life = "off" -> client[c]
                      [] client[c].life = "spectator" -> [client[c] EXCEPT !.team = team[c]]
                      [] OTHER -> [life |-> "dead", team |-> team[c]]]
      BY <2>2 DEF changemap
    <3>2. ASSUME NEW c \in Clients
          PROVE  client'[c] \in [life: Lives, team: 0..2]
      <4>1. client[c] \in [life: Lives, team: 0..2] /\ team[c] \in 0..2
        BY TeamAssumption DEF SInv, RestType
      <4>2. CASE client[c].life = "off"
        BY <3>1, <4>1, <4>2
      <4>3. CASE client[c].life = "spectator"
        BY <3>1, <4>1, <4>3
      <4>4. CASE client[c].life \notin {"off", "spectator"}
        BY <3>1, <4>1, <4>4 DEF Lives
      <4> QED
        BY <4>2, <4>3, <4>4
    <3> QED
      BY <3>1, <3>2
  <2> QED
    BY <2>1, <2>2 DEF MapStep
<1> QED
  BY <1>1, <1>2, <1>3, <1>4 DEF SInv, RestType

\* Joining, spawning and being slain leave the flags alone.
LEMMA JoinSteps ==
  ASSUME SInv, NEW c \in Clients,
         \/ \E t \in 1..2, life \in {"dead", "spectator"} : connected(c, t, life)
         \/ unsetspectator(c) \/ Spawn(c) \/ player_slay(c)
  PROVE  SInv'
<1>1. client \in [Clients -> [life: Lives, team: 0..2]]
  BY DEF SInv, RestType
<1>2. client' \in [Clients -> [life: Lives, team: 0..2]]
  BY <1>1 DEF connected, unsetspectator, Spawn, player_slay, SetLife, Lives
<1>3. PlayingSet \subseteq PlayingSet' /\ ConnectedSet \subseteq ConnectedSet'
  BY <1>1 DEF connected, unsetspectator, Spawn, player_slay, SetLife,
              PlayingSet, ConnectedSet, Playing, Connected
<1> QED
  BY <1>2, <1>3, ClientStep DEF connected, unsetspectator, Spawn, player_slay

-----------------------------------------------------------------------------
\* The invariant holds at the start ...
LEMMA SInvInit == Init => SInv
<1> SUFFICES ASSUME Init PROVE SInv
  OBVIOUS
<1>1. FlagsSound(flags, PlayingSet, ConnectedSet)
  BY FreshSound DEF Init
<1>2. client \in [Clients -> [life: Lives, team: 0..2]]
  BY DEF Init, Lives
<1>3. scores \in [1..2 -> Int]
  BY DEF Init
<1>4. notgotflags \in BOOLEAN /\ match \in Matches
  BY DEF Init, Matches
<1> QED
  BY <1>1, <1>2, <1>3, <1>4 DEF SInv, RestType

\* ... and every step keeps it.
LEMMA SInvStep == SInv /\ [Next]_vars => SInv'
<1> SUFFICES ASSUME SInv, [Next]_vars PROVE SInv'
  OBVIOUS
<1>1. CASE KillStep
  BY <1>1, LifeSteps DEF KillStep
<1>2. CASE MapStep
  BY <1>2, MapSteps
<1>3. CASE Tick
  BY <1>3, TickStep
<1>4. CASE changetime \/ \E val \in BOOLEAN : pausegame(val)
  <2>1. match' \in Matches /\ UNCHANGED <<client, flags, notgotflags, scores>>
    BY <1>4 DEF changetime, pausegame, SInv, RestType, Matches
  <2> QED
    BY <2>1 DEF SInv, RestType, PlayingSet, ConnectedSet, Playing, Connected
<1>5. CASE PlayStep
  BY <1>4, <1>5, LifeSteps, JoinSteps, TakeStep DEF PlayStep
<1>6. CASE UNCHANGED vars
  BY <1>6 DEF vars, SInv, RestType, PlayingSet, ConnectedSet, Playing, Connected
<1> QED
  BY <1>1, <1>2, <1>3, <1>5, <1>6 DEF Next

\* In every reachable state of the flag modes the flags are well typed, refer
\* only to live clients, no client carries two, and the drop record lasts as
\* long as the flag lies in the field.
THEOREM FlagSafety == Spec => [](TypeOK /\ FlagRefsLive /\ OneFlagEach /\ DropRecordSound)
<1>1. SInv => TypeOK /\ FlagRefsLive /\ OneFlagEach /\ DropRecordSound
  BY InvSplit DEF SInv, IInv
<1> QED
  BY <1>1, SInvInit, SInvStep, PTL DEF Spec

\* Every handler keeps the types, the drop count within 0, 1 and INT_MAX.
THEOREM TypeCorrect == Spec => []TypeOK
BY FlagSafety, PTL

\* No player ever carries two flags, whatever is taken, dropped and relayed.
THEOREM OneCarrierOneFlag == Spec => []OneFlagEach
BY FlagSafety, PTL

\* Dropper and drop count are on record exactly while a flag lies in the field.
THEOREM DropRecordsSound == Spec => []DropRecordSound
BY FlagSafety, PTL

-----------------------------------------------------------------------------
(***************************************************************************)
(* What a step other than a map change makes of one flag, f before and g   *)
(* after it.  The properties below follow from these six cases alone.      *)
(***************************************************************************)
Kept(f, g) ==
  /\ g.owner = f.owner /\ g.dropper = f.dropper /\ g.dropcount = f.dropcount
  /\ (g.dropage = NotSet) = (f.dropage = NotSet)
  /\ g.spawnindex = f.spawnindex

WentHome(f, g) == AtHome(g) /\ g.dropper = NoOne /\ g.version > f.version

\* c dropped it, and lives on or died by other hands than a team mate's.
DroppedBy(f, g, c) ==
  /\ f.owner = c /\ g.owner = NoOne /\ g.dropper = c
  /\ g.dropcount = f.dropcount
  /\ g.dropage # NotSet /\ g.version > f.version

\* actor killed c, of his own team.
Penalised(f, g, c, actor) ==
  /\ f.owner = c /\ g.owner = NoOne /\ g.dropper = actor
  /\ g.dropcount = INT_MAX
  /\ g.dropage # NotSet /\ g.version > f.version

\* c carried or dropped it, and died or left.
Forgotten(f, g, c) ==
  /\ c \in {f.owner, f.dropper}
  /\ g.owner = NoOne /\ g.dropper = NoOne /\ g.dropcount = 0
  /\ g.dropage # NotSet
  /\ f.owner = c => g.version > f.version
  /\ f.dropper = c => g.spawnindex = f.spawnindex /\ f.dropage # NotSet /\ f.owner = NoOne

Taken(f, g, c) ==
  /\ f.owner = NoOne /\ g.owner = c
  /\ c = f.dropper => f.dropcount = 0 /\ g.dropcount = 1
  /\ g.version > f.version

\* Announcing a flag raises its version only.
LEMMA BumpFields ==
  ASSUME NEW f \in Flag
  PROVE  /\ Bump(f) \in Flag
         /\ Bump(f).version > f.version
         /\ Kept(f, Bump(f))
         /\ Bump(f).ownage = f.ownage
BY DEF Bump, Flag, Kept

\* dropflag: the drop count changes with the penalty only.
LEMMA DropFields ==
  ASSUME NEW f \in Flag, NEW d \in Clients, NEW p \in BOOLEAN
  PROVE  /\ dropflag(f, d, p).version = f.version
         /\ dropflag(f, d, p).dropcount = IF p THEN INT_MAX ELSE f.dropcount
BY DEF dropflag, Flag

\* returnflag, spawnflag: the flag is at home.
LEMMA HomeFields ==
  ASSUME NEW f \in Flag, NEW a \in {NotSet, 0}, NEW s \in Spawns \cup {NotSet}
  PROVE  /\ WentHome(f, Bump([returnflag(f, a) EXCEPT !.spawnindex = s]))
         /\ WentHome(f, Bump(returnflag(f, a)))
<1>1. returnflag(f, a).version = f.version /\ returnflag(f, a).dropage = NotSet
  BY DEF returnflag, Flag
<1>2. f.version \in Nat
  BY DEF Flag
<1> DEFINE g1 == returnflag(f, a)
           g2 == [g1 EXCEPT !.spawnindex = s]
<1>3. g1 \in Flag /\ g1.owner = NoOne /\ g1.dropper = NoOne
  BY ReturnType
<1>4. g1.version = f.version /\ g1.dropage = NotSet
  BY <1>1
<1> HIDE DEF g1
<1>5. g2 \in Flag /\ g2.owner = NoOne /\ g2.dropper = NoOne
  BY <1>3, FieldTypes DEF Flag
<1>6. g2.version = f.version /\ g2.dropage = NotSet
  BY <1>3, <1>4 DEF Flag
<1> HIDE DEF g2
<1>7. WentHome(f, Bump(g1))
  BY <1>2, <1>3, <1>4, BumpFields DEF WentHome, Kept, AtHome
<1>8. WentHome(f, Bump(g2))
  BY <1>2, <1>5, <1>6, BumpFields DEF WentHome, Kept, AtHome
<1> QED
  BY <1>7, <1>8 DEF g1, g2

\* dropflag(ci, dropper) on one flag of the vector.
LEMMA DropMoves ==
  ASSUME NEW fs, NEW P, NEW Q, FlagsSound(fs, P, Q),
         NEW c \in Clients, NEW d \in Clients, NEW p \in BOOLEAN,
         NEW inside \in BOOLEAN, NEW i \in DOMAIN fs
  PROVE  LET f == fs[i]
             g == DropCarried(fs, c, d, p, inside)[i]
         IN  /\ g \in Flag
             /\ \/ f.owner # c /\ g = f
                \/ f.owner = c /\ WentHome(f, g)
                \/ f.owner = c /\ p /\ Penalised(f, g, c, d)
                \/ f.owner = c /\ ~p /\ d # c /\ g.owner = NoOne
                \/ f.owner = c /\ ~p /\ d = c /\ DroppedBy(f, g, c)
<1> DEFINE f == fs[i]
           g == DropCarried(fs, c, d, p, inside)[i]
<1>1. f \in Flag
  BY DEF FlagsSound
<1>2. CASE f.owner # c
  <2>1. g = f
    BY <1>2 DEF DropCarried
  <2> QED
    BY <1>1, <1>2, <2>1
<1>3. CASE f.owner = c /\ m_protect /\ inside
  <2>1. g = Bump(returnflag(f, NotSet))
    BY <1>3 DEF DropCarried
  <2>2. g \in Flag /\ WentHome(f, g)
    BY <1>1, <2>1, ReturnType, BumpFields, HomeFields
  <2> QED
    BY <1>3, <2>2
<1>4. CASE f.owner = c /\ ~(m_protect /\ inside)
  <2> DEFINE h == dropflag(f, d, p)
  <2>1. g = Bump(h)
    BY <1>4 DEF DropCarried
  <2>2. /\ h \in Flag /\ h.owner = NoOne /\ h.dropper = d /\ h.dropage # NotSet
        /\ h.version = f.version
        /\ h.dropcount = IF p THEN INT_MAX ELSE f.dropcount
    BY <1>1, DropType, DropFields
  <2> HIDE DEF h, f, g
  <2>3. /\ g \in Flag /\ g.owner = NoOne /\ g.dropper = d /\ g.dropage # NotSet
        /\ g.version > f.version
        /\ g.dropcount = IF p THEN INT_MAX ELSE f.dropcount
    BY <2>1, <2>2, BumpFields DEF Kept
  <2>4. g \in Flag /\ (p => Penalised(f, g, c, d)) /\ (~p /\ d = c => DroppedBy(f, g, c))
    BY <1>4, <2>3 DEF Penalised, DroppedBy
  <2> QED
    BY <1>4, <2>3, <2>4 DEF f, g
<1> QED
  BY <1>2, <1>3, <1>4

\* died and leavegame on one flag of the vector: p is the team kill penalty.
LEMMA LeaveMoves ==
  ASSUME NEW fs, NEW P, NEW Q, FlagsSound(fs, P, Q),
         NEW c \in Clients, NEW d \in Clients, NEW p \in BOOLEAN, p <=> d # c,
         NEW inside \in BOOLEAN, NEW i \in DOMAIN fs
  PROVE  LET f == fs[i]
             g == ForgetDropper(DropCarried(fs, c, d, p, inside), c)[i]
         IN  /\ g.owner # c
             /\ \/ g = f
                \/ WentHome(f, g)
                \/ p /\ Penalised(f, g, c, d)
                \/ Forgotten(f, g, c) /\ (f.owner = c => ~p)
<1> DEFINE ds == DropCarried(fs, c, d, p, inside)
           f == fs[i]
           m == ds[i]
           g == ForgetDropper(ds, c)[i]
<1>1. /\ f \in Flag
      /\ f.owner # NoOne => f.dropper = NoOne
      /\ f.dropper # NoOne => f.dropage # NotSet
  BY DEF FlagsSound
<1>2. /\ m \in Flag
      /\ \/ f.owner # c /\ m = f
         \/ f.owner = c /\ WentHome(f, m)
         \/ f.owner = c /\ p /\ Penalised(f, m, c, d)
         \/ f.owner = c /\ ~p /\ DroppedBy(f, m, c)
  BY DropMoves
<1>3. DOMAIN ds = DOMAIN fs
  BY DEF DropCarried
<1>4. CASE m.dropper # c
  <2>1. g = m
    BY <1>3, <1>4 DEF ForgetDropper
  <2> HIDE DEF g, m, f
  <2>2. ~DroppedBy(f, m, c)
    BY <1>4 DEF DroppedBy
  <2>3. g.owner # c
    BY <1>2, <2>1, ClientsAssumption DEF WentHome, AtHome, Penalised, DroppedBy
  <2>4. QED
    BY <1>2, <2>1, <2>2, <2>3 DEF f, g, m
<1>5. CASE m.dropper = c
  <2>1. g = [m EXCEPT !.dropper = NoOne, !.dropcount = 0]
    BY <1>3, <1>5 DEF ForgetDropper
  <2> HIDE DEF g, m, f
  <2>2. /\ g.owner = m.owner /\ g.dropper = NoOne /\ g.dropcount = 0
        /\ g.dropage = m.dropage /\ g.version = m.version
        /\ g.spawnindex = m.spawnindex
    BY <1>2, <2>1 DEF Flag
  <2>3. CASE f.owner # c
    <3>1. m = f /\ f.owner = NoOne /\ f.dropage # NotSet
      BY <1>1, <1>2, <1>5, <2>3, ClientsAssumption
    <3> QED
      BY <1>5, <2>2, <2>3, <3>1, ClientsAssumption DEF Forgotten, f, g
  <2>4. CASE f.owner = c
    <3>1. ~p /\ DroppedBy(f, m, c)
      BY <1>2, <1>5, <2>4, ClientsAssumption DEF WentHome, AtHome, Penalised
    <3>2. f.dropper # c
      BY <1>1, <2>4, ClientsAssumption
    <3>3. Forgotten(f, g, c)
      BY <2>2, <2>4, <3>1, <3>2 DEF Forgotten, DroppedBy
    <3> QED
      BY <2>2, <3>1, <3>3, ClientsAssumption DEF DroppedBy, f, g
  <2> QED
    BY <2>3, <2>4
<1> QED
  BY <1>4, <1>5

\* A flag that is forgotten changes, so its client was not just slain.
LEMMA ForgottenNotSlain ==
  ASSUME NEW c \in Clients, NEW i, Forgotten(flags[i], flags'[i], c)
  PROVE  ~player_slay(c)
BY ClientsAssumption DEF Forgotten, player_slay

\* A lethal hit on c by actor.
LEMMA KillMoves ==
  ASSUME SInv, NEW c \in Clients, NEW actor \in Clients, NEW inside \in BOOLEAN,
         dodamage(c, actor, inside)
  PROVE  /\ DOMAIN flags' = DOMAIN flags
         /\ \A i \in DOMAIN flags :
              /\ flags'[i].owner # c
              /\ \/ flags'[i] = flags[i]
                 \/ WentHome(flags[i], flags'[i])
                 \/ TeamKill(c, actor) /\ Penalised(flags[i], flags'[i], c, actor)
                 \/ /\ Forgotten(flags[i], flags'[i], c)
                    /\ EndsLife(c)
                    /\ flags[i].owner = c => ~TeamKill(c, actor)
<1> DEFINE tk == TeamKill(c, actor)
           d == IF tk THEN actor ELSE c
           gs == ForgetDropper(DropCarried(flags, c, d, tk, inside), c)
<1>1. tk \in BOOLEAN /\ d \in Clients /\ (tk <=> d # c)
  BY DEF TeamKill
<1>2. flags' = gs
  BY DEF dodamage, died
<1>3. FlagsSound(flags, PlayingSet, ConnectedSet)
  BY DEF SInv
<1>4. client[c].life = "alive" /\ client'[c].life = "dead"
  BY DEF dodamage, SetLife, SInv, RestType
<1>5. DOMAIN gs = DOMAIN flags
  BY DEF ForgetDropper, DropCarried
<1>6. ASSUME NEW i \in DOMAIN flags
      PROVE  /\ gs[i].owner # c
             /\ \/ gs[i] = flags[i]
                \/ WentHome(flags[i], gs[i])
                \/ tk /\ Penalised(flags[i], gs[i], c, d)
                \/ Forgotten(flags[i], gs[i], c) /\ (flags[i].owner = c => ~tk)
  <2> HIDE DEF tk, d
  <2> QED
    BY <1>1, <1>3, LeaveMoves
<1> HIDE DEF gs
<1>7. ASSUME NEW i \in DOMAIN flags, Forgotten(flags[i], flags'[i], c)
      PROVE  EndsLife(c)
  BY <1>4, <1>7, ForgottenNotSlain DEF EndsLife
<1> QED
  BY <1>2, <1>5, <1>6, <1>7

\* A client who dies without a killer, or leaves.
LEMMA LeaveStep ==
  ASSUME SInv, NEW c \in Clients, NEW inside \in BOOLEAN,
         flags' = ForgetDropper(DropCarried(flags, c, c, FALSE, inside), c),
         \/ client[c].life = "alive" /\ client'[c].life = "dead"
         \/ client'[c].life \in {"off", "spectator"} /\ client'[c].life # client[c].life
  PROVE  /\ DOMAIN flags' = DOMAIN flags
         /\ \A i \in DOMAIN flags :
              /\ flags'[i].owner # c
              /\ \/ flags'[i] = flags[i]
                 \/ WentHome(flags[i], flags'[i])
                 \/ Forgotten(flags[i], flags'[i], c) /\ EndsLife(c)
<1> DEFINE gs == ForgetDropper(DropCarried(flags, c, c, FALSE, inside), c)
<1>1. FlagsSound(flags, PlayingSet, ConnectedSet)
  BY DEF SInv
<1>2. DOMAIN gs = DOMAIN flags
  BY DEF ForgetDropper, DropCarried
<1>3. ASSUME NEW i \in DOMAIN flags
      PROVE  /\ gs[i].owner # c
             /\ \/ gs[i] = flags[i]
                \/ WentHome(flags[i], gs[i])
                \/ Forgotten(flags[i], gs[i], c)
  BY <1>1, LeaveMoves
<1> HIDE DEF gs
<1>4. ASSUME NEW i \in DOMAIN flags, Forgotten(flags[i], flags'[i], c)
      PROVE  EndsLife(c)
  BY <1>4, ForgottenNotSlain DEF EndsLife
<1>5. flags' = gs
  BY DEF gs
<1> QED
  BY <1>2, <1>3, <1>4, <1>5

\* The four kinds of N_TAKEFLAG.
LEMMA TakeMoves ==
  ASSUME SInv, NEW c \in Clients, NEW i \in FlagIds, NEW v, TakeFlag(c, i, v)
  PROVE  /\ DOMAIN flags' = DOMAIN flags
         /\ \A k \in DOMAIN flags :
              \/ Kept(flags[k], flags'[k])
              \/ WentHome(flags[k], flags'[k])
              \/ Taken(flags[k], flags'[k], c) /\ (~m_hold => FlagTeam[k] # 0)
<1>1. i \in DOMAIN flags /\ CanTouch(c, i, v) /\ FlagsSound(flags, PlayingSet, ConnectedSet)
  BY DEF TakeFlag, SInv
<1>2. /\ flags[i] \in Flag /\ flags[i].owner = NoOne
      /\ c = flags[i].dropper => flags[i].dropcount = 0
  BY <1>1, TouchFacts
<1>3. StartInvis \in {NotSet, 0}
  BY DEF StartInvis
<1>4. \A k \in DOMAIN flags : flags[k] \in Flag /\ Kept(flags[k], flags[k])
  BY <1>1 DEF FlagsSound, Kept
<1>5. CASE PickUp(c, i)
  <2> DEFINE h == ownflag(flags[i], c)
             g == Bump(h)
  <2>1. h \in Flag /\ h.owner = c
    BY <1>2, OwnType
  <2>2. h.version = flags[i].version /\ (c = flags[i].dropper => h.dropcount = 1)
    BY <1>2, IntMax DEF ownflag, Flag
  <2>3. flags' = [flags EXCEPT ![i] = g]
    BY <1>5 DEF PickUp
  <2> HIDE DEF h
  <2>4. g.owner = c /\ g.version > flags[i].version
        /\ (c = flags[i].dropper => g.dropcount = 1)
    BY <2>1, <2>2, BumpFields DEF Kept
  <2> HIDE DEF g
  <2>5. Taken(flags[i], g, c)
    BY <1>2, <2>4 DEF Taken
  <2>6. ~m_hold => FlagTeam[i] # 0
    BY <1>1 DEF CanTouch
  <2> QED
    BY <1>1, <1>4, <2>3, <2>5, <2>6
<1>6. CASE ProtectScore(c, i)
  <2>1. PICK s \in spawnflag(flags[i]) :
          flags' = [flags EXCEPT ![i] =
                      Bump([returnflag(flags[i], StartInvis) EXCEPT !.spawnindex = s])]
    BY <1>6 DEF ProtectScore, scoreflag
  <2>2. s \in Spawns \cup {NotSet}
    BY <1>2 DEF spawnflag, Flag
  <2> DEFINE g == Bump([returnflag(flags[i], StartInvis) EXCEPT !.spawnindex = s])
  <2>3. WentHome(flags[i], g)
    BY <1>2, <1>3, <2>2, HomeFields
  <2>4. flags' = [flags EXCEPT ![i] = g]
    BY <2>1
  <2> HIDE DEF g
  <2> QED
    BY <1>1, <1>4, <2>3, <2>4
<1>7. CASE Return(c, i)
  <2> DEFINE g == Bump(returnflag(flags[i], NotSet))
  <2>1. WentHome(flags[i], g)
    BY <1>2, HomeFields
  <2>2. flags' = [flags EXCEPT ![i] = g]
    BY <1>7 DEF Return
  <2> HIDE DEF g
  <2> QED
    BY <1>1, <1>4, <2>1, <2>2
<1>8. CASE CtfScore(c, i)
  <2>1. PICK j \in Carried(c) : relayflag(c, i, j)
    BY <1>8 DEF CtfScore
  <2> DEFINE g == Bump(returnflag(flags[j], StartInvis))
             h == Bump(flags[i])
  <2>2. j \in DOMAIN flags /\ j # i
    BY <1>2, ClientsAssumption DEF Carried
  <2>3. WentHome(flags[j], g) /\ Kept(flags[i], h)
    BY <1>2, <1>3, <1>4, <2>2, HomeFields, BumpFields
  <2>4. flags' = [[flags EXCEPT ![i] = h] EXCEPT ![j] = g]
    BY <1>1, <2>1, <2>2 DEF relayflag
  <2> HIDE DEF g, h
  <2>5. /\ DOMAIN flags' = DOMAIN flags
        /\ \A k \in DOMAIN flags :
             flags'[k] = IF k = j THEN g ELSE IF k = i THEN h ELSE flags[k]
    BY <2>4
  <2> QED
    BY <1>4, <2>3, <2>5
<1> QED
  BY <1>5, <1>6, <1>7, <1>8 DEF TakeFlag

\* Time passing over one flag keeps it where it is.
LEMMA AgedFields ==
  ASSUME NEW f \in Flag
  PROVE  Kept(f, Aged(f)) /\ Aged(f).version = f.version
<1>1. \A age \in NotSet..RESETFLAGTIME :
        (Older(age, RESETFLAGTIME) = NotSet) = (age = NotSet)
  BY TimeAssumption DEF Older, NotSet
<1>2. /\ Aged(f).owner = f.owner /\ Aged(f).dropper = f.dropper
      /\ Aged(f).dropcount = f.dropcount /\ Aged(f).spawnindex = f.spawnindex
      /\ Aged(f).version = f.version
      /\ Aged(f).dropage = Older(f.dropage, RESETFLAGTIME)
  BY DEF Aged, Flag
<1>3. f.dropage \in NotSet..RESETFLAGTIME
  BY DEF Flag
<1> QED
  BY <1>1, <1>2, <1>3 DEF Kept

\* serverupdate keeps every flag or sends it home.
LEMMA TickMoves ==
  ASSUME SInv, Tick
  PROVE  /\ DOMAIN flags' = DOMAIN flags
         /\ \A i \in DOMAIN flags :
              Kept(flags[i], flags'[i]) \/ WentHome(flags[i], flags'[i])
<1> DEFINE fs == [i \in DOMAIN flags |-> Aged(flags[i])]
<1>1. \A i \in DOMAIN flags : flags[i] \in Flag
  BY DEF SInv, FlagsSound
<1>2. DOMAIN fs = DOMAIN flags
  OBVIOUS
<1>3. \A i \in DOMAIN flags :
        fs[i] \in Flag /\ Kept(flags[i], fs[i]) /\ fs[i].version = flags[i].version
  BY <1>1, AgedType, AgedFields
<1>4. flags' = fs \/ update(fs)
  BY DEF Tick, PlayTick, LimitTick, IdleTick, AgedFlags
<1> HIDE DEF fs
<1>5. ASSUME NEW i \in DOMAIN flags, NEW g, WentHome(fs[i], g)
      PROVE  WentHome(flags[i], g)
  BY <1>3, <1>5 DEF WentHome
<1>6. ASSUME NEW i \in DOMAIN flags, NEW g, Kept(fs[i], g)
      PROVE  Kept(flags[i], g)
  BY <1>3, <1>6 DEF Kept
<1>7. CASE flags' = fs
  BY <1>2, <1>3, <1>7
<1>8. ASSUME update(fs), \E i \in DOMAIN fs : HoldScores(fs[i])
      PROVE  /\ DOMAIN flags' = DOMAIN fs
             /\ \A i \in DOMAIN fs : flags'[i] = fs[i] \/ WentHome(fs[i], flags'[i])
  <2>1. PICK i \in DOMAIN fs, s \in Spawns :
          flags' = [fs EXCEPT ![i] =
                      Bump([returnflag(fs[i], NotSet) EXCEPT !.spawnindex = s])]
    BY <1>8 DEF update
  <2> DEFINE g == Bump([returnflag(fs[i], NotSet) EXCEPT !.spawnindex = s])
  <2>2. WentHome(fs[i], g)
    BY <1>2, <1>3, HomeFields
  <2>3. flags' = [fs EXCEPT ![i] = g]
    BY <2>1
  <2> HIDE DEF g
  <2> QED
    BY <2>2, <2>3, <1>2, <1>3
<1>9. ASSUME update(fs), ~\E i \in DOMAIN fs : HoldScores(fs[i])
      PROVE  /\ DOMAIN flags' = DOMAIN fs
             /\ \A i \in DOMAIN fs : Kept(fs[i], flags'[i]) \/ WentHome(fs[i], flags'[i])
  <2>1. PICK s \in Spawns \cup {NotSet} : flags' = [i \in DOMAIN fs |-> ResetFlag(fs[i], s)]
    BY <1>9 DEF update
  <2>2. ASSUME NEW i \in DOMAIN fs, Resets(fs[i])
        PROVE  WentHome(fs[i], ResetFlag(fs[i], s))
    <3>1. StartInvis \in {NotSet, 0}
      BY DEF StartInvis
    <3>2. ResetFlag(fs[i], s) = Bump([returnflag(fs[i], StartInvis) EXCEPT !.spawnindex = s])
      BY <2>2 DEF ResetFlag
    <3>3. fs[i] \in Flag
      BY <1>2, <1>3
    <3> QED
      BY <3>1, <3>2, <3>3, HomeFields, Zenon
  <2>3. ASSUME NEW i \in DOMAIN fs, ~Resets(fs[i])
        PROVE  Kept(fs[i], ResetFlag(fs[i], s))
    <3>1. fs[i] \in Flag
      BY <1>2, <1>3
    <3>2. PICK a : ResetFlag(fs[i], s) = [fs[i] EXCEPT !.invisage = a]
      BY <2>3 DEF ResetFlag
    <3> QED
      BY <3>1, <3>2 DEF Kept, Flag
  <2> QED
    BY <2>1, <2>2, <2>3
<1> QED
  BY <1>2, <1>3, <1>4, <1>5, <1>6, <1>7, <1>8, <1>9

\* Without a killer there is no penalty.
LEMMA DiedAlone ==
  ASSUME NEW c \in Clients, NEW inside \in BOOLEAN
  PROVE  died(c, NoOne, inside) = ForgetDropper(DropCarried(flags, c, c, FALSE, inside), c)
<1>1. ~TeamKill(c, NoOne)
  BY DEF TeamKill
<1>2. DropCarried(flags, c, c, TeamKill(c, NoOne), inside)
        = DropCarried(flags, c, c, FALSE, inside)
  BY <1>1 DEF DropCarried, dropflag
<1> QED
  BY <1>1, <1>2 DEF died

\* Every step of play but a lethal hit, on one flag.
LEMMA PlayMoves ==
  ASSUME SInv, PlayStep \/ Tick
  PROVE  /\ DOMAIN flags' = DOMAIN flags
         /\ \A i \in DOMAIN flags :
              \/ Kept(flags[i], flags'[i])
              \/ WentHome(flags[i], flags'[i])
              \/ \E c \in Clients :
                   \/ DroppedBy(flags[i], flags'[i], c)
                   \/ Taken(flags[i], flags'[i], c) /\ (~m_hold => FlagTeam[i] # 0)
                   \/ Forgotten(flags[i], flags'[i], c) /\ EndsLife(c)
<1>1. CASE Tick
  BY <1>1, TickMoves
<1>2. CASE UNCHANGED flags
  BY <1>2 DEF Kept
<1>3. ASSUME NEW c \in Clients, NEW inside \in BOOLEAN,
             flags' = DropCarried(flags, c, c, FALSE, inside)
      PROVE  /\ DOMAIN flags' = DOMAIN flags
             /\ \A i \in DOMAIN flags :
                  \/ flags'[i] = flags[i]
                  \/ WentHome(flags[i], flags'[i])
                  \/ DroppedBy(flags[i], flags'[i], c)
  <2>1. FlagsSound(flags, PlayingSet, ConnectedSet)
    BY DEF SInv
  <2> DEFINE gs == DropCarried(flags, c, c, FALSE, inside)
  <2>2. DOMAIN gs = DOMAIN flags
    BY DEF DropCarried
  <2>3. ASSUME NEW i \in DOMAIN flags
        PROVE  \/ gs[i] = flags[i]
               \/ WentHome(flags[i], gs[i])
               \/ DroppedBy(flags[i], gs[i], c)
    <3>1. ASSUME NEW p \in BOOLEAN, ~p
          PROVE  LET g == DropCarried(flags, c, c, p, inside)[i]
                 IN  \/ g = flags[i]
                     \/ WentHome(flags[i], g)
                     \/ DroppedBy(flags[i], g, c)
      BY <2>1, <3>1, DropMoves
    <3> QED
      BY <3>1
  <2> HIDE DEF gs
  <2>4. flags' = gs
    BY <1>3 DEF gs
  <2> QED
    BY <2>2, <2>3, <2>4
<1>4. \A i \in DOMAIN flags : flags'[i] = flags[i] => Kept(flags[i], flags'[i])
  BY DEF Kept
<1>5. ASSUME NEW c \in Clients, NEW inside \in BOOLEAN,
             \/ clientdisconnect(c, inside) \/ setspectator(c, inside)
             \/ suicide(c, inside)
             \/ \E t \in 1..2, ds \in BOOLEAN :
                  SwitchTeam(c, t, ds, inside) /\ ds /\ client[c].life = "alive"
      PROVE  /\ DOMAIN flags' = DOMAIN flags
             /\ \A i \in DOMAIN flags :
                  /\ flags'[i].owner # c
                  /\ \/ flags'[i] = flags[i]
                     \/ WentHome(flags[i], flags'[i])
                     \/ Forgotten(flags[i], flags'[i], c) /\ EndsLife(c)
  <2>1. client \in [Clients -> [life: Lives, team: 0..2]]
    BY DEF SInv, RestType
  <2>2. flags' = ForgetDropper(DropCarried(flags, c, c, FALSE, inside), c)
    <3>1. CASE clientdisconnect(c, inside) \/ setspectator(c, inside)
      BY <3>1 DEF clientdisconnect, setspectator, leavegame
    <3>2. CASE suicide(c, inside)
      BY <3>2, DiedAlone DEF suicide
    <3>3. CASE \E t \in 1..2, ds \in BOOLEAN :
                 SwitchTeam(c, t, ds, inside) /\ ds /\ client[c].life = "alive"
      BY <3>3, DiedAlone DEF SwitchTeam
    <3> QED
      BY <1>5, <3>1, <3>2, <3>3
  <2>3. \/ client[c].life = "alive" /\ client'[c].life = "dead"
        \/ client'[c].life \in {"off", "spectator"} /\ client'[c].life # client[c].life
    BY <1>5, <2>1 DEF clientdisconnect, setspectator, suicide, SwitchTeam, SetLife,
                      Connected, Playing
  <2> QED
    BY <2>2, <2>3, LeaveStep
<1>6. ASSUME NEW c \in Clients, NEW i \in FlagIds, NEW v, TakeFlag(c, i, v)
      PROVE  /\ DOMAIN flags' = DOMAIN flags
             /\ \A k \in DOMAIN flags :
                  \/ Kept(flags[k], flags'[k])
                  \/ WentHome(flags[k], flags'[k])
                  \/ Taken(flags[k], flags'[k], c) /\ (~m_hold => FlagTeam[k] # 0)
  BY <1>6, TakeMoves
<1>7. CASE PlayStep
  <2>1. CASE \E c \in Clients, inside \in BOOLEAN : TryDropFlag(c, inside)
    BY <1>3, <1>4, <2>1 DEF TryDropFlag
  <2>2. CASE \E c \in Clients, inside \in BOOLEAN, t \in 1..2 : ReteamBot(c, t, inside)
    BY <1>2, <1>3, <1>4, <2>2 DEF ReteamBot
  <2>3. CASE \E c \in Clients, inside \in BOOLEAN, t \in 1..2, ds \in BOOLEAN :
               SwitchTeam(c, t, ds, inside)
    <3>1. PICK c \in Clients, inside \in BOOLEAN, t \in 1..2, ds \in BOOLEAN :
               SwitchTeam(c, t, ds, inside)
      BY <2>3
    <3>2. CASE ds /\ client[c].life = "alive"
      BY <1>4, <1>5, <3>1, <3>2
    <3>3. CASE ~(ds /\ client[c].life = "alive")
      <4>1. UNCHANGED flags
        BY <3>1, <3>3 DEF SwitchTeam
      <4> QED
        BY <1>2, <4>1
    <3> QED
      BY <3>2, <3>3
  <2>4. CASE \E c \in Clients, inside \in BOOLEAN :
               clientdisconnect(c, inside) \/ setspectator(c, inside) \/ suicide(c, inside)
    BY <1>4, <1>5, <2>4
  <2>5. CASE \E c \in Clients, i \in FlagIds, v \in 0..MaxVersion : TakeFlag(c, i, v)
    BY <1>6, <2>5
  <2>6. CASE \/ changetime \/ \E val \in BOOLEAN : pausegame(val)
             \/ \E c \in Clients : unsetspectator(c) \/ Spawn(c) \/ player_slay(c)
             \/ \E c \in Clients, t \in 1..2, life \in {"dead", "spectator"} :
                  connected(c, t, life)
    BY <1>2, <2>6 DEF changetime, pausegame, unsetspectator, Spawn, player_slay, connected
  <2> QED
    BY <1>7, <2>1, <2>2, <2>3, <2>4, <2>5, <2>6 DEF PlayStep
<1> QED
  BY <1>1, <1>7

\* Who died or left in a step carries no flag after it.
LEMMA EndedCarriesNothing ==
  ASSUME SInv, SInv', KillStep \/ PlayStep \/ Tick, NEW c \in Clients, EndsLife(c),
         NEW i \in DOMAIN flags'
  PROVE  flags'[i].owner # c
<1>1. client \in [Clients -> [life: Lives, team: 0..2]]
  BY DEF SInv, RestType
<1>2. FlagsSound(flags', PlayingSet', ConnectedSet')
  BY DEF SInv
<1>3. CASE client'[c].life \in {"off", "spectator"}
  BY <1>2, <1>3, ClientsAssumption DEF FlagsSound, PlayingSet, Playing
<1>4. CASE client[c].life = "alive" /\ client'[c].life = "dead" /\ ~player_slay(c)
  <2>1. \/ \E actor \in Clients, inside \in BOOLEAN : dodamage(c, actor, inside)
        \/ \E inside \in BOOLEAN :
             \/ suicide(c, inside)
             \/ \E t \in 1..2, ds \in BOOLEAN :
                  SwitchTeam(c, t, ds, inside) /\ ds /\ client[c].life = "alive"
    <3>1. CASE KillStep
      BY <1>1, <1>4, <3>1 DEF KillStep, dodamage, SetLife
    <3>2. CASE Tick
      BY <1>4, <3>2 DEF Tick, PlayTick, LimitTick, IdleTick
    <3>3. CASE PlayStep
      <4>1. CASE \E d \in Clients, t \in 1..2, life \in {"dead", "spectator"} :
                   connected(d, t, life)
        BY <1>1, <1>4, <4>1 DEF connected, Connected
      <4>2. CASE \E d \in Clients, inside \in BOOLEAN :
                   clientdisconnect(d, inside) \/ setspectator(d, inside)
        BY <1>1, <1>4, <4>2 DEF clientdisconnect, setspectator, SetLife
      <4>8. CASE \E d \in Clients, inside \in BOOLEAN :
                   TryDropFlag(d, inside) \/ \E t \in 1..2 : ReteamBot(d, t, inside)
        BY <1>1, <1>4, <4>8 DEF TryDropFlag, ReteamBot
      <4>3. CASE \E d \in Clients, inside \in BOOLEAN : suicide(d, inside)
        BY <1>1, <1>4, <4>3 DEF suicide, SetLife
      <4>4. CASE \E d \in Clients, inside \in BOOLEAN, t \in 1..2, ds \in BOOLEAN :
                   SwitchTeam(d, t, ds, inside)
        <5>1. PICK d \in Clients, inside \in BOOLEAN, t \in 1..2, ds \in BOOLEAN :
                   SwitchTeam(d, t, ds, inside)
          BY <4>4
        <5>2. d = c /\ ds
          BY <1>1, <1>4, <5>1 DEF SwitchTeam
        <5> QED
          BY <1>4, <5>1, <5>2
      <4>5. CASE \E d \in Clients : unsetspectator(d) \/ Spawn(d) \/ player_slay(d)
        BY <1>1, <1>4, <4>5 DEF unsetspectator, Spawn, player_slay, SetLife
      <4>6. CASE \E d \in Clients, k \in FlagIds, v \in 0..MaxVersion : TakeFlag(d, k, v)
        BY <1>4, <4>6 DEF TakeFlag
      <4>7. CASE changetime \/ \E val \in BOOLEAN : pausegame(val)
        BY <1>4, <4>7 DEF changetime, pausegame
      <4> QED
        BY <3>3, <4>1, <4>2, <4>3, <4>4, <4>5, <4>6, <4>7, <4>8 DEF PlayStep
    <3> QED
      BY <3>1, <3>2, <3>3
  <2>2. CASE \E actor \in Clients, inside \in BOOLEAN : dodamage(c, actor, inside)
    BY <2>2, KillMoves
  <2>3. CASE \E inside \in BOOLEAN :
             \/ suicide(c, inside)
             \/ \E t \in 1..2, ds \in BOOLEAN :
                  SwitchTeam(c, t, ds, inside) /\ ds /\ client[c].life = "alive"
    <3>1. PICK inside \in BOOLEAN :
             \/ suicide(c, inside)
             \/ \E t \in 1..2, ds \in BOOLEAN :
                  SwitchTeam(c, t, ds, inside) /\ ds /\ client[c].life = "alive"
      BY <2>3
    <3>2. flags' = ForgetDropper(DropCarried(flags, c, c, FALSE, inside), c)
      <4>1. CASE suicide(c, inside)
        BY <4>1, DiedAlone DEF suicide
      <4>2. CASE \E t \in 1..2, ds \in BOOLEAN :
                   SwitchTeam(c, t, ds, inside) /\ ds /\ client[c].life = "alive"
        BY <4>2, DiedAlone DEF SwitchTeam
      <4> QED
        BY <3>1, <4>1, <4>2
    <3> QED
      BY <1>4, <3>2, LeaveStep
  <2> QED
    BY <2>1, <2>2, <2>3
<1> QED
  BY <1>3, <1>4 DEF EndsLife

-----------------------------------------------------------------------------
\* Each of the six cases but the first changes the place of a flag only
\* together with its version.
LEMMA MovesBump ==
  ASSUME NEW f, NEW g, NEW c, NEW d, c # NoOne,
         \/ Kept(f, g) \/ WentHome(f, g) \/ DroppedBy(f, g, c)
         \/ Penalised(f, g, c, d) \/ Forgotten(f, g, c) \/ Taken(f, g, c),
         Place(g) # Place(f)
  PROVE  g.version > f.version
<1>1. CASE Kept(f, g)
  BY <1>1 DEF Kept, Place
<1>2. CASE Forgotten(f, g, c)
  BY <1>2 DEF Forgotten, Place
<1> QED
  BY <1>1, <1>2 DEF WentHome, DroppedBy, Penalised, Taken

\* A flag that changes its owner or place within a match gets a new version:
\* a take message sent before the change is refused after it.
THEOREM StaleTakesRefused == Spec => ChangeBumpsVersion
<1> DEFINE Bumps == \A i \in DOMAIN flags :
                      Place(flags'[i]) # Place(flags[i])
                        => flags'[i].version > flags[i].version
<1>1. ASSUME SInv, [Next]_vars PROVE MapStep \/ Bumps \/ UNCHANGED vars
  <2>1. CASE KillStep
    <3>1. PICK c \in Clients, actor \in Clients, inside \in BOOLEAN :
            dodamage(c, actor, inside)
      BY <2>1 DEF KillStep
    <3>2. ASSUME NEW i \in DOMAIN flags, Place(flags'[i]) # Place(flags[i])
          PROVE  flags'[i].version > flags[i].version
      <4>1. \/ flags'[i] = flags[i]
            \/ WentHome(flags[i], flags'[i])
            \/ Penalised(flags[i], flags'[i], c, actor)
            \/ Forgotten(flags[i], flags'[i], c)
        BY <1>1, <3>1, KillMoves
      <4> QED
        BY <3>2, <4>1, MovesBump, ClientsAssumption
    <3> QED
      BY <3>2
  <2>2. CASE PlayStep \/ Tick
    <3>1. ASSUME NEW i \in DOMAIN flags, Place(flags'[i]) # Place(flags[i])
          PROVE  flags'[i].version > flags[i].version
      <4>1. \/ Kept(flags[i], flags'[i])
            \/ WentHome(flags[i], flags'[i])
            \/ \E c \in Clients : \/ DroppedBy(flags[i], flags'[i], c)
                                  \/ Taken(flags[i], flags'[i], c)
                                  \/ Forgotten(flags[i], flags'[i], c)
        BY <1>1, <2>2, PlayMoves
      <4>2. CASE Kept(flags[i], flags'[i])
        BY <3>1, <4>2 DEF Kept, Place
      <4>3. CASE WentHome(flags[i], flags'[i])
        BY <4>3 DEF WentHome
      <4> QED
        BY <3>1, <4>1, <4>2, <4>3, MovesBump, ClientsAssumption
    <3> QED
      BY <3>1
  <2> QED
    BY <1>1, <2>1, <2>2 DEF Next
<1>2. SInv /\ [Next]_vars => [MapStep \/ Bumps]_vars
  BY <1>1
<1> QED
  BY <1>2, SInvInit, SInvStep, PTL DEF Spec, ChangeBumpsVersion

\* addscore: the team's score, and nobody else's, grows by one.
LEMMA ScoreGrows ==
  ASSUME SInv, NEW team \in 0..2, addscore(team), NEW t \in 1..2, scores'[t] > scores[t]
  PROVE  /\ t = team
         /\ scores'[t] = scores[t] + 1
         /\ scores'[t] >= FLAGLIMIT => match'.clock # "running"
<1>1. scores \in [1..2 -> Int]
  BY DEF SInv, RestType
<1>2. scores' = IF team = 0 THEN scores ELSE [scores EXCEPT ![team] = @ + 1]
  BY DEF addscore
<1>3. team # 0 /\ t = team /\ scores'[t] = scores[t] + 1
  BY <1>1, <1>2
<1>4. ASSUME scores'[t] >= FLAGLIMIT PROVE match'.clock # "running"
  <2>1. team # 0 /\ scores[team] + 1 >= FLAGLIMIT
    BY <1>3, <1>4
  <2>2. match' \in TimeUp
    BY <2>1 DEF addscore
  <2>3. match \in Matches
    BY DEF SInv, RestType
  <2> QED
    BY <2>2, <2>3 DEF TimeUp, Matches
<1> QED
  BY <1>3, <1>4

\* Where a score may come from: nothing but a scored flag raises it, and a new
\* match starts at zero.
LEMMA ScoreSteps ==
  ASSUME SInv, [Next]_vars, NEW t \in 1..2, scores'[t] > scores[t]
  PROVE  \/ changemap /\ scores'[t] = 0
         \/ \E c \in Clients, i \in FlagIds, v \in 0..MaxVersion :
              /\ TakeFlag(c, i, v)
              /\ ProtectScore(c, i) \/ CtfScore(c, i)
              /\ client[c].team \in 0..2 /\ addscore(client[c].team)
         \/ m_hold /\ Tick /\ \E team \in 0..2 : addscore(team)
<1>1. scores \in [1..2 -> Int] /\ client \in [Clients -> [life: Lives, team: 0..2]]
  BY DEF SInv, RestType
<1>2. scores' # scores
  BY <1>1
<1>3. CASE KillStep
  BY <1>2, <1>3 DEF KillStep, dodamage
<1>4. CASE MapStep
  BY <1>2, <1>4 DEF MapStep, parseflags, changemap
<1>5. CASE Tick
  <2> DEFINE fs == [i \in DOMAIN flags |-> Aged(flags[i])]
  <2>1. update(fs)
    BY <1>2, <1>5 DEF Tick, PlayTick, LimitTick, IdleTick, AgedFlags
  <2>2. DOMAIN fs = DOMAIN flags /\ \A i \in DOMAIN flags : fs[i].owner = flags[i].owner
    <3>1. \A i \in DOMAIN flags : flags[i] \in Flag
      BY DEF SInv, FlagsSound
    <3> QED
      BY <3>1, AgedType
  <2> HIDE DEF fs
  <2>3. CASE \E i \in DOMAIN fs : HoldScores(fs[i])
    <3>1. PICK i \in DOMAIN fs : HoldScores(fs[i]) /\ addscore(client[fs[i].owner].team)
      BY <2>1, <2>3 DEF update
    <3>2. fs[i].owner \in Clients
      BY <2>2, <3>1 DEF HoldScores, SInv, FlagsSound, Flag
    <3> QED
      BY <1>1, <1>5, <3>1, <3>2 DEF HoldScores
  <2>4. CASE ~\E i \in DOMAIN fs : HoldScores(fs[i])
    <3>1. m_protect /\ scores' = [u \in 1..2 |-> scores[u] -
                  Cardinality({i \in DOMAIN fs : Resets(fs[i]) /\ FlagTeam[i] = u})]
      BY <1>2, <2>1, <2>4 DEF update
    <3>2. {i \in DOMAIN fs : Resets(fs[i]) /\ FlagTeam[i] = t} \subseteq FlagIds
      BY <2>2 DEF SInv, FlagsSound
    <3>3. Cardinality({i \in DOMAIN fs : Resets(fs[i]) /\ FlagTeam[i] = t}) \in Nat
      BY <3>2, TeamAssumption, FS_Subset, FS_CardinalityType
    <3> QED
      BY <1>1, <3>1, <3>3
  <2> QED
    BY <2>3, <2>4
<1>6. CASE PlayStep
  <2>1. \E c \in Clients, i \in FlagIds, v \in 0..MaxVersion : TakeFlag(c, i, v)
    BY <1>2, <1>6 DEF PlayStep, connected, clientdisconnect, setspectator, suicide,
       TryDropFlag, ReteamBot, SwitchTeam, unsetspectator, Spawn, player_slay, changetime,
       pausegame
  <2>2. PICK c \in Clients, i \in FlagIds, v \in 0..MaxVersion : TakeFlag(c, i, v)
    BY <2>1
  <2>3. ProtectScore(c, i) \/ CtfScore(c, i)
    BY <1>2, <2>2 DEF TakeFlag, PickUp, Return
  <2>4. client[c].team \in 0..2 /\ addscore(client[c].team)
    BY <1>1, <2>3 DEF ProtectScore, CtfScore, scoreflag, relayflag
  <2> QED
    BY <2>2, <2>3, <2>4
<1>7. CASE UNCHANGED vars
  BY <1>2, <1>7 DEF vars
<1> QED
  BY <1>3, <1>4, <1>5, <1>6, <1>7 DEF Next

\* With the flag that reaches FLAGLIMIT the match is over, or a script has been
\* asked and has prolonged it.
THEOREM LimitReached == Spec => LimitEndsMatch
<1> DEFINE A == \A t \in 1..2 : scores'[t] > scores[t] /\ scores'[t] >= FLAGLIMIT =>
                  match'.clock # "running"
<1>1. SInv /\ [Next]_vars => [A]_vars
  <2> SUFFICES ASSUME SInv, [Next]_vars, NEW t \in 1..2,
                      scores'[t] > scores[t], scores'[t] >= FLAGLIMIT
               PROVE  match'.clock # "running"
    BY DEF vars
  <2>1. CASE changemap /\ scores'[t] = 0
    BY <2>1, LimitAssumption
  <2>2. CASE \E team \in 0..2 : addscore(team)
    BY <2>2, ScoreGrows
  <2> QED
    BY <2>1, <2>2, ScoreSteps
<1> QED
  BY <1>1, SInvInit, SInvStep, PTL DEF Spec, LimitEndsMatch

\* In ctf mode scores are never negative, and only flags of a team are taken.
CtfInv ==
  Mode = "ctf" =>
    /\ \A t \in 1..2 : scores[t] >= 0
    /\ \A i \in DOMAIN flags : flags[i].owner # NoOne => FlagTeam[i] # 0

LEMMA CtfInvStep == SInv /\ CtfInv /\ [Next]_vars => CtfInv'
<1> SUFFICES ASSUME SInv, CtfInv, [Next]_vars, Mode = "ctf"
             PROVE  /\ \A t \in 1..2 : scores'[t] >= 0
                    /\ \A i \in DOMAIN flags' : flags'[i].owner # NoOne => FlagTeam[i] # 0
  BY DEF CtfInv
<1>1. scores \in [1..2 -> Int] /\ (\A t \in 1..2 : scores[t] >= 0)
      /\ \A i \in DOMAIN flags : flags[i].owner # NoOne => FlagTeam[i] # 0
  BY DEF SInv, RestType, CtfInv
<1>2. ~m_protect /\ ~m_hold
  BY DEF m_protect, m_hold
<1>3. \A t \in 1..2 : scores'[t] >= 0
  <2>1. CASE UNCHANGED scores
    BY <1>1, <2>1
  <2>2. CASE Tick
    BY <1>1, <1>2, <2>2 DEF Tick, PlayTick, LimitTick, IdleTick, update, HoldScores
  <2>3. CASE changemap
    BY <2>3 DEF changemap
  <2>4. ASSUME NEW c \in Clients, addscore(client[c].team) PROVE \A t \in 1..2 : scores'[t] >= 0
    <3>1. client[c].team \in 0..2
      BY DEF SInv, RestType
    <3> QED
      BY <1>1, <2>4, <3>1 DEF addscore
  <2>5. ASSUME NEW c \in Clients, NEW i \in FlagIds, NEW v, TakeFlag(c, i, v)
        PROVE  \A t \in 1..2 : scores'[t] >= 0
    BY <2>1, <2>4, <2>5 DEF TakeFlag, PickUp, Return, ProtectScore, CtfScore,
                            scoreflag, relayflag
  <2>6. CASE PlayStep
    BY <2>1, <2>5, <2>6 DEF PlayStep, connected, clientdisconnect, setspectator, suicide,
       TryDropFlag, ReteamBot, SwitchTeam, unsetspectator, Spawn, player_slay, changetime,
       pausegame
  <2> QED
    BY <2>1, <2>2, <2>3, <2>6 DEF Next, KillStep, dodamage, MapStep, parseflags, vars
<1>4. ASSUME NEW i \in DOMAIN flags', flags'[i].owner # NoOne PROVE FlagTeam[i] # 0
  <2>1. CASE MapStep
    <3>1. flags' \in addflags \cup {NoFlags}
      BY <2>1 DEF MapStep, changemap, parseflags
    <3>2. CASE flags' = NoFlags
      BY <3>2, <1>4 DEF NoFlags
    <3>3. CASE flags' \in addflags
      <4>1. PICK s : flags' = [k \in FlagIds |-> FreshFlag(s)]
        BY <3>3 DEF addflags
      <4> QED
        BY <1>4, <4>1 DEF FreshFlag
    <3> QED
      BY <3>1, <3>2, <3>3
  <2>2. CASE KillStep
    <3>1. PICK c \in Clients, actor \in Clients, inside \in BOOLEAN :
            dodamage(c, actor, inside)
      BY <2>2 DEF KillStep
    <3>2. /\ i \in DOMAIN flags
          /\ \/ flags'[i] = flags[i] \/ WentHome(flags[i], flags'[i])
             \/ Penalised(flags[i], flags'[i], c, actor)
             \/ Forgotten(flags[i], flags'[i], c)
      BY <3>1, KillMoves
    <3> QED
      BY <1>1, <1>4, <3>2 DEF WentHome, AtHome, Penalised, Forgotten
  <2>3. CASE PlayStep \/ Tick
    <3>1. /\ i \in DOMAIN flags
          /\ \/ Kept(flags[i], flags'[i])
             \/ FlagTeam[i] # 0
      BY <2>3, <1>2, <1>4, PlayMoves DEF WentHome, AtHome, DroppedBy, Forgotten
    <3> QED
      BY <1>1, <1>4, <3>1 DEF Kept
  <2>4. CASE UNCHANGED vars
    BY <1>1, <1>4, <2>4 DEF vars
  <2> QED
    BY <2>1, <2>2, <2>3, <2>4 DEF Next
<1> QED
  BY <1>3, <1>4

\* The maps the property below is about: no two flags of one team.
OneFlagPerTeam == \A i, j \in FlagIds : FlagTeam[i] = FlagTeam[j] => i = j

\* On a map with one flag for each team, a team in ctf mode scores only with
\* the other team's flag in the hands of its living player and its own flag at
\* home.  The carrier of a flag may join that flag's team, so on a map where a
\* team has two flags he could score with his own team's flag.
THEOREM ScoreTakesBothFlags == OneFlagPerTeam => (Spec => ScoreNeedsBothFlags)
<1> SUFFICES ASSUME OneFlagPerTeam PROVE Spec => ScoreNeedsBothFlags
  OBVIOUS
<1> DEFINE A == Mode = "ctf" => \A t \in 1..2 : scores'[t] > scores[t] =>
                  \E i, j \in DOMAIN flags, c \in Clients :
                    /\ FlagTeam[i] = t /\ flags[i].owner = NoOne /\ flags[i].dropage = NotSet
                    /\ FlagTeam[j] = 3 - t /\ flags[j].owner = c
                    /\ client[c] = [life |-> "alive", team |-> t]
                    /\ flags'[j].owner = NoOne /\ flags'[j].dropage = NotSet
<1>1. SInv /\ CtfInv /\ [Next]_vars => [A]_vars
  <2> SUFFICES ASSUME SInv, CtfInv, [Next]_vars, Mode = "ctf", NEW t \in 1..2,
                      scores'[t] > scores[t]
               PROVE  \E i, j \in DOMAIN flags, c \in Clients :
                        /\ FlagTeam[i] = t /\ flags[i].owner = NoOne
                        /\ flags[i].dropage = NotSet
                        /\ FlagTeam[j] = 3 - t /\ flags[j].owner = c
                        /\ client[c] = [life |-> "alive", team |-> t]
                        /\ flags'[j].owner = NoOne /\ flags'[j].dropage = NotSet
    OBVIOUS
  <2>1. ~m_protect /\ ~m_hold
    BY DEF m_protect, m_hold
  <2>2. ~(changemap /\ scores'[t] = 0)
    BY DEF CtfInv, SInv, RestType
  <2>3. PICK c \in Clients, i \in FlagIds, v \in 0..MaxVersion :
          /\ TakeFlag(c, i, v) /\ CtfScore(c, i)
          /\ client[c].team \in 0..2 /\ addscore(client[c].team)
    BY <2>1, <2>2, ScoreSteps DEF ProtectScore
  <2>4. client[c].team = t
    BY <2>3, ScoreGrows
  <2>5. PICK j \in DOMAIN flags : flags[j].owner = c /\ relayflag(c, i, j)
    BY <2>3 DEF CtfScore, Carried
  <2>6. i \in DOMAIN flags /\ CanTouch(c, i, v)
    BY <2>3 DEF TakeFlag
  <2>7. FlagTeam[i] = t /\ flags[i].owner = NoOne /\ flags[i].dropage = NotSet
    BY <2>3, <2>4, <2>6 DEF CtfScore, CanTouch
  <2>8. j \in FlagIds /\ i # j /\ flags[j] \in Flag
    BY <2>5, <2>7, ClientsAssumption DEF SInv, FlagsSound
  <2>9. FlagTeam[j] = 3 - t
    <3>1. FlagTeam[j] \in 0..2 /\ FlagTeam[j] # t
      BY <2>7, <2>8, TeamAssumption DEF OneFlagPerTeam
    <3>2. FlagTeam[j] # 0
      BY <2>5, ClientsAssumption DEF CtfInv
    <3> QED
      BY <3>1, <3>2
  <2>10. client[c] = [life |-> "alive", team |-> t]
    <3>1. client[c] \in [life: Lives, team: 0..2]
      BY DEF SInv, RestType
    <3>2. client[c].life = "alive"
      BY <2>6 DEF CanTouch
    <3> QED
      BY <2>4, <3>1, <3>2
  <2>11. flags'[j].owner = NoOne /\ flags'[j].dropage = NotSet
    <3> DEFINE g == Bump(returnflag(flags[j], StartInvis))
    <3>1. StartInvis \in {NotSet, 0}
      BY DEF StartInvis
    <3>2. WentHome(flags[j], g)
      BY <2>8, <3>1, HomeFields
    <3>3. flags' = [[flags EXCEPT ![i] = Bump(@)] EXCEPT ![j] = g]
      BY <2>5, <2>6, <2>8 DEF relayflag
    <3> HIDE DEF g
    <3>4. flags'[j] = g
      BY <2>5, <3>3
    <3> QED
      BY <3>2, <3>4 DEF WentHome, AtHome
  <2> QED
    BY <2>5, <2>6, <2>7, <2>9, <2>10, <2>11
<1>2. Init => CtfInv
  BY DEF Init, CtfInv, NoFlags
<1> QED
  BY <1>1, <1>2, CtfInvStep, SInvInit, SInvStep, PTL DEF Spec, ScoreNeedsBothFlags

-----------------------------------------------------------------------------
(***************************************************************************)
(* The timers behind the liveness of the flag modes.                       *)
(***************************************************************************)
InField(f) == f.owner = NoOne /\ f.dropage # NotSet

\* droptime and owntime are only ever set when a flag changes hands.
NotYounger(f, g) ==
  /\ InField(f) /\ InField(g) => g.dropage >= f.dropage
  /\ f.owner # NoOne /\ g.owner = f.owner => g.ownage >= f.ownage

\* A tick brings a flag in the field nearer to its reset, and in hold mode a
\* held one nearer to its score.
GrowsOlder(f, g) ==
  /\ InField(f) /\ InField(g) => g.dropage > f.dropage
  /\ m_hold /\ f.owner # NoOne /\ g.owner = f.owner => g.ownage > f.ownage

\* Within a match nothing puts off the reset of a flag that lies in the field,
\* nor the score of a held one: every tick (update) brings it nearer.
FlagTimersRun ==
  [][MapStep \/ \A i \in DOMAIN flags :
       /\ NotYounger(flags[i], flags'[i])
       /\ PlayTick => GrowsOlder(flags[i], flags'[i])]_vars

\* A step other than a tick moves a flag or leaves both its ages alone.
Calm(f, g) ==
  g.owner # f.owner \/ AtHome(g) \/ (g.dropage = f.dropage /\ g.ownage = f.ownage)

LEMMA CalmNotYounger ==
  ASSUME NEW f \in Flag, NEW g, Calm(f, g)
  PROVE  NotYounger(f, g)
<1>1. f.dropage \in Int /\ f.ownage \in Int
  BY TimeAssumption DEF Flag, NotSet
<1> QED BY <1>1 DEF Calm, NotYounger, InField, AtHome

\* Dropping what c carries, and forgetting a dropper.
LEMMA DropCalm ==
  ASSUME SInv, NEW c \in Clients, NEW d \in Clients, NEW e, NEW p \in BOOLEAN,
         NEW inside \in BOOLEAN,
         \/ flags' = DropCarried(flags, c, d, p, inside)
         \/ flags' = ForgetDropper(DropCarried(flags, c, d, p, inside), e)
  PROVE  DOMAIN flags' = DOMAIN flags /\ \A i \in DOMAIN flags : Calm(flags[i], flags'[i])
<1> DEFINE gs == DropCarried(flags, c, d, p, inside)
           hs == ForgetDropper(gs, e)
<1>1. FlagsSound(flags, PlayingSet, ConnectedSet)
  BY DEF SInv
<1>2. DOMAIN gs = DOMAIN flags /\ DOMAIN hs = DOMAIN flags
  BY DEF DropCarried, ForgetDropper
<1>3. ASSUME NEW i \in DOMAIN flags PROVE gs[i] \in Flag /\ Calm(flags[i], gs[i])
  <2>1. gs[i] \in Flag
    BY <1>1, DropMoves
  <2>2. CASE flags[i].owner # c
    BY <2>1, <2>2 DEF DropCarried, Calm
  <2>3. CASE flags[i].owner = c
    <3>1. gs[i].owner = NoOne
      BY <1>1, <2>3, DropMoves, ClientsAssumption DEF WentHome, DroppedBy, Penalised, AtHome
    <3> QED BY <2>1, <2>3, <3>1, ClientsAssumption DEF Calm
  <2> QED BY <2>2, <2>3
<1>4. ASSUME NEW i \in DOMAIN flags PROVE Calm(flags[i], hs[i])
  <2> HIDE DEF gs
  <2>1. hs[i] = gs[i] \/ hs[i] = [gs[i] EXCEPT !.dropper = NoOne, !.dropcount = 0]
    BY <1>2 DEF ForgetDropper
  <2>2. /\ hs[i].owner = gs[i].owner /\ hs[i].dropage = gs[i].dropage
        /\ hs[i].ownage = gs[i].ownage
    BY <1>3, <2>1 DEF Flag
  <2> QED BY <1>3, <2>2 DEF Calm, AtHome
<1> QED BY <1>2, <1>3, <1>4

\* The four kinds of N_TAKEFLAG.
LEMMA TakeCalm ==
  ASSUME SInv, NEW c \in Clients, NEW i \in FlagIds, NEW v, TakeFlag(c, i, v)
  PROVE  DOMAIN flags' = DOMAIN flags /\ \A k \in DOMAIN flags : Calm(flags[k], flags'[k])
<1>1. /\ DOMAIN flags' = DOMAIN flags
      /\ \A k \in DOMAIN flags : \/ Kept(flags[k], flags'[k])
                                 \/ WentHome(flags[k], flags'[k])
                                 \/ Taken(flags[k], flags'[k], c)
  BY TakeMoves
<1>2. ASSUME NEW k \in DOMAIN flags, Kept(flags[k], flags'[k]), ~AtHome(flags'[k])
      PROVE  flags'[k] = flags[k] \/ flags'[k] = Bump(flags[k])
  <2>1. i \in DOMAIN flags /\ CanTouch(c, i, v) /\ FlagsSound(flags, PlayingSet, ConnectedSet)
    BY DEF TakeFlag, SInv
  <2>2. flags[i] \in Flag /\ flags[i].owner = NoOne
    BY <2>1, TouchFacts
  <2>3. CASE PickUp(c, i)
    <3>1. /\ flags' = [flags EXCEPT ![i] = Bump(ownflag(flags[i], c))]
          /\ ownflag(flags[i], c) \in Flag /\ ownflag(flags[i], c).owner = c
      BY <2>1, <2>2, <2>3, TouchFacts, OwnType DEF PickUp
    <3>2. flags'[i].owner = c
      BY <2>1, <3>1, BumpFields DEF Kept
    <3>3. k # i
      BY <1>2, <2>2, <3>2, ClientsAssumption DEF Kept
    <3> QED BY <3>1, <3>3
  <2>4. CASE ProtectScore(c, i) \/ Return(c, i)
    <3>1. StartInvis \in {NotSet, 0}
      BY DEF StartInvis
    <3>2. /\ AtHome(flags'[i])
          /\ \A n \in DOMAIN flags \ {i} : flags'[n] = flags[n]
      <4>1. CASE ProtectScore(c, i)
        <5>1. PICK s \in spawnflag(flags[i]) :
                flags' = [flags EXCEPT ![i] =
                            Bump([returnflag(flags[i], StartInvis) EXCEPT !.spawnindex = s])]
          BY <4>1 DEF ProtectScore, scoreflag
        <5>2. s \in Spawns \cup {NotSet}
          BY <2>2 DEF spawnflag, Flag
        <5> DEFINE g == Bump([returnflag(flags[i], StartInvis) EXCEPT !.spawnindex = s])
        <5>3. AtHome(g)
          BY <2>2, <3>1, <5>2, HomeFields DEF WentHome
        <5>4. flags' = [flags EXCEPT ![i] = g]
          BY <5>1
        <5> HIDE DEF g
        <5> QED BY <2>1, <5>3, <5>4
      <4>2. CASE Return(c, i)
        <5> DEFINE g == Bump(returnflag(flags[i], NotSet))
        <5>1. AtHome(g)
          BY <2>2, HomeFields DEF WentHome
        <5>2. flags' = [flags EXCEPT ![i] = g]
          BY <4>2 DEF Return
        <5> HIDE DEF g
        <5> QED BY <2>1, <5>1, <5>2
      <4> QED BY <2>4, <4>1, <4>2
    <3> QED BY <1>2, <3>2
  <2>5. CASE CtfScore(c, i)
    <3>1. PICK j \in Carried(c) :
            flags' = [flags EXCEPT ![i] = Bump(@), ![j] = Bump(returnflag(@, StartInvis))]
      BY <2>5 DEF CtfScore, relayflag
    <3>2. j \in DOMAIN flags /\ j # i /\ flags[j].owner = c
      BY <2>2, ClientsAssumption DEF Carried
    <3> DEFINE g == Bump(returnflag(flags[j], StartInvis))
    <3>3. AtHome(g)
      BY <2>1, <3>2, HomeFields DEF WentHome, StartInvis, FlagsSound
    <3>4. flags' = [[flags EXCEPT ![i] = Bump(flags[i])] EXCEPT ![j] = g]
      BY <2>1, <3>1, <3>2
    <3> HIDE DEF g
    <3>5. flags'[j] = g /\ flags'[i] = Bump(flags[i])
          /\ \A n \in DOMAIN flags \ {i, j} : flags'[n] = flags[n]
      BY <2>1, <3>2, <3>4
    <3> QED BY <1>2, <3>3, <3>5
  <2> QED BY <2>3, <2>4, <2>5 DEF TakeFlag
<1>3. ASSUME NEW k \in DOMAIN flags PROVE Calm(flags[k], flags'[k])
  <2>1. flags[k] \in Flag
    BY DEF SInv, FlagsSound
  <2>2. CASE Kept(flags[k], flags'[k]) /\ ~AtHome(flags'[k])
    BY <1>2, <2>1, <2>2, BumpType, BumpFields DEF Calm
  <2>3. CASE Taken(flags[k], flags'[k], c)
    BY <2>3, ClientsAssumption DEF Taken, Calm
  <2> QED BY <1>1, <2>2, <2>3 DEF WentHome, Calm
<1> QED BY <1>1, <1>3

\* What clients, scripts and admins do, on one flag.
LEMMA PlayCalm ==
  ASSUME SInv, KillStep \/ PlayStep
  PROVE  DOMAIN flags' = DOMAIN flags /\ \A i \in DOMAIN flags : Calm(flags[i], flags'[i])
<1>1. CASE UNCHANGED flags
  BY <1>1 DEF Calm
<1>2. ASSUME NEW c \in Clients, NEW actor \in Clients \cup {NoOne}, NEW inside \in BOOLEAN,
             flags' = died(c, actor, inside)
      PROVE  DOMAIN flags' = DOMAIN flags /\ \A i \in DOMAIN flags : Calm(flags[i], flags'[i])
  <2> DEFINE tk == TeamKill(c, actor)
             d == IF tk THEN actor ELSE c
  <2>1. tk \in BOOLEAN /\ d \in Clients
    BY ClientsAssumption DEF TeamKill
  <2>2. flags' = ForgetDropper(DropCarried(flags, c, d, tk, inside), c)
    BY <1>2 DEF died
  <2> HIDE DEF tk, d
  <2> QED BY <2>1, <2>2, DropCalm
<1>3. CASE KillStep
  BY <1>2, <1>3 DEF KillStep, dodamage
<1>4. ASSUME NEW c \in Clients, NEW inside \in BOOLEAN,
             \/ flags' = DropCarried(flags, c, c, FALSE, inside)
             \/ flags' = leavegame(c, inside)
      PROVE  DOMAIN flags' = DOMAIN flags /\ \A i \in DOMAIN flags : Calm(flags[i], flags'[i])
  BY <1>4, DropCalm DEF leavegame
<1>5. CASE \E c \in Clients, inside \in BOOLEAN :
             clientdisconnect(c, inside) \/ setspectator(c, inside) \/ TryDropFlag(c, inside)
  BY <1>4, <1>5 DEF clientdisconnect, setspectator, TryDropFlag
<1>6. CASE \E c \in Clients, inside \in BOOLEAN :
             suicide(c, inside) \/ \E t \in 1..2, ds \in BOOLEAN : SwitchTeam(c, t, ds, inside)
  BY <1>1, <1>2, <1>6 DEF suicide, SwitchTeam
<1>7. CASE \E c \in Clients, inside \in BOOLEAN, t \in 1..2 : ReteamBot(c, t, inside)
  BY <1>1, <1>4, <1>7 DEF ReteamBot
<1>8. CASE \E c \in Clients, i \in FlagIds, v \in 0..MaxVersion : TakeFlag(c, i, v)
  BY <1>8, TakeCalm
<1>9. CASE \/ changetime \/ \E val \in BOOLEAN : pausegame(val)
           \/ \E c \in Clients : unsetspectator(c) \/ Spawn(c) \/ player_slay(c)
           \/ \E c \in Clients, t \in 1..2, life \in {"dead", "spectator"} :
                connected(c, t, life)
  BY <1>1, <1>9 DEF changetime, pausegame, unsetspectator, Spawn, player_slay, connected
<1> QED BY <1>3, <1>5, <1>6, <1>7, <1>8, <1>9 DEF PlayStep

\* Time passing over one flag.
LEMMA AgedOlder ==
  ASSUME NEW f \in Flag
  PROVE  /\ Aged(f) \in Flag /\ Aged(f).owner = f.owner
         /\ NotYounger(f, Aged(f))
         /\ \/ GrowsOlder(f, Aged(f))
            \/ InField(f) /\ Aged(f).dropage = RESETFLAGTIME
            \/ f.owner # NoOne /\ HoldScores(Aged(f))
<1>1. /\ Aged(f).owner = f.owner
      /\ Aged(f).dropage = Older(f.dropage, RESETFLAGTIME)
      /\ Aged(f).ownage = Older(f.ownage, HOLDTIME)
  BY DEF Aged, Flag
<1>2. f.dropage \in NotSet..RESETFLAGTIME /\ f.ownage \in 0..HOLDTIME
  BY DEF Flag
<1>3. f.dropage # NotSet =>
        /\ Older(f.dropage, RESETFLAGTIME) >= f.dropage
        /\ Older(f.dropage, RESETFLAGTIME) # RESETFLAGTIME
             => Older(f.dropage, RESETFLAGTIME) > f.dropage
  BY <1>2, TimeAssumption DEF Older, NotSet
<1>4. /\ Older(f.ownage, HOLDTIME) >= f.ownage
      /\ Older(f.ownage, HOLDTIME) # HOLDTIME => Older(f.ownage, HOLDTIME) > f.ownage
  BY <1>2, TimeAssumption DEF Older, NotSet
<1>5. NotYounger(f, Aged(f))
  BY <1>1, <1>3, <1>4 DEF NotYounger, InField
<1>6. ASSUME InField(f) => Aged(f).dropage # RESETFLAGTIME,
             f.owner # NoOne => ~HoldScores(Aged(f))
      PROVE  GrowsOlder(f, Aged(f))
  BY <1>1, <1>3, <1>4, <1>6 DEF GrowsOlder, InField, HoldScores
<1> QED BY <1>1, <1>5, <1>6, AgedType

\* serverupdate: everything ages, or is scored or sent home.
LEMMA TickOlder ==
  ASSUME SInv, Tick
  PROVE  \A i \in DOMAIN flags :
           /\ NotYounger(flags[i], flags'[i])
           /\ PlayTick => GrowsOlder(flags[i], flags'[i])
<1> DEFINE fs == [i \in DOMAIN flags |-> Aged(flags[i])]
<1>1. \A i \in DOMAIN flags : flags[i] \in Flag /\ fs[i] = Aged(flags[i])
  BY DEF SInv, FlagsSound
<1>2. DOMAIN fs = DOMAIN flags
  OBVIOUS
<1>3. (flags' = fs /\ ~PlayTick) \/ update(fs)
  BY DEF Tick, PlayTick, LimitTick, IdleTick, AgedFlags
<1> HIDE DEF fs
<1>4. \A i \in DOMAIN flags : NotYounger(flags[i], fs[i]) /\ fs[i].owner = flags[i].owner
                              /\ fs[i] \in Flag
  BY <1>1, AgedOlder
<1>5. \A i \in DOMAIN flags : AtHome(flags'[i]) =>
        /\ NotYounger(flags[i], flags'[i]) /\ GrowsOlder(flags[i], flags'[i])
  BY DEF AtHome, NotYounger, GrowsOlder, InField
<1>6. CASE flags' = fs /\ ~PlayTick
  BY <1>2, <1>4, <1>6
<1>7. CASE update(fs) /\ \E i \in DOMAIN fs : HoldScores(fs[i])
  <2>1. PICK i \in DOMAIN fs, s \in Spawns :
          /\ HoldScores(fs[i])
          /\ flags' = [fs EXCEPT ![i] =
                         Bump([returnflag(fs[i], NotSet) EXCEPT !.spawnindex = s])]
    BY <1>7 DEF update
  <2> DEFINE g == Bump([returnflag(fs[i], NotSet) EXCEPT !.spawnindex = s])
  <2>2. AtHome(g)
    BY <1>2, <1>4, HomeFields DEF WentHome
  <2>3. flags' = [fs EXCEPT ![i] = g]
    BY <2>1
  <2> HIDE DEF g
  <2>4. AtHome(flags'[i])
    BY <1>2, <2>2, <2>3
  <2>5. \A k \in DOMAIN flags : k = i
    BY <1>2, <2>1, HoldAssumption DEF HoldScores, m_hold, SInv, RestType, FlagsSound
  <2> QED BY <1>5, <2>4, <2>5
<1>8. CASE update(fs) /\ ~\E i \in DOMAIN fs : HoldScores(fs[i])
  <2>1. PICK s \in Spawns \cup {NotSet} : flags' = [i \in DOMAIN fs |-> ResetFlag(fs[i], s)]
    BY <1>8 DEF update
  <2>2. ASSUME NEW i \in DOMAIN flags
        PROVE  NotYounger(flags[i], flags'[i]) /\ GrowsOlder(flags[i], flags'[i])
    <3>1. CASE Resets(fs[i])
      <4>1. StartInvis \in {NotSet, 0}
        BY DEF StartInvis
      <4>2. flags'[i] = Bump([returnflag(fs[i], StartInvis) EXCEPT !.spawnindex = s])
        BY <1>2, <2>1, <3>1 DEF ResetFlag
      <4>3. AtHome(flags'[i])
        BY <1>4, <4>1, <4>2, HomeFields, Zenon DEF WentHome
      <4> QED BY <1>5, <4>3
    <3>2. CASE ~Resets(fs[i])
      <4>1. PICK a : flags'[i] = [fs[i] EXCEPT !.invisage = a]
        BY <1>2, <2>1, <3>2 DEF ResetFlag
      <4>2. /\ flags'[i].owner = fs[i].owner /\ flags'[i].dropage = fs[i].dropage
            /\ flags'[i].ownage = fs[i].ownage
        BY <1>4, <4>1 DEF Flag
      <4>3. InField(flags[i]) => fs[i].dropage # RESETFLAGTIME
        BY <1>4, <3>2 DEF InField, Resets
      <4>4. GrowsOlder(flags[i], fs[i])
        BY <1>1, <1>2, <1>8, <4>3, AgedOlder
      <4> QED BY <1>4, <4>2, <4>4 DEF NotYounger, GrowsOlder, InField
    <3> QED BY <3>1, <3>2
  <2> QED BY <2>2
<1> QED BY <1>3, <1>6, <1>7, <1>8

\* Whatever is dropped, taken back, scored or killed around it, a flag in the
\* field and a flag held for points come nearer to their end with the ticks:
\* what the liveness of the flag modes needs beside a timer that runs.
THEOREM FlagsGrowOlder == Spec => FlagTimersRun
<1> DEFINE A == \A i \in DOMAIN flags :
                  /\ NotYounger(flags[i], flags'[i])
                  /\ PlayTick => GrowsOlder(flags[i], flags'[i])
<1>1. ASSUME SInv, Next, ~MapStep, NEW i \in DOMAIN flags
      PROVE  /\ NotYounger(flags[i], flags'[i])
             /\ PlayTick => GrowsOlder(flags[i], flags'[i])
  <2>1. flags[i] \in Flag
    BY <1>1 DEF SInv, FlagsSound
  <2>2. CASE Tick
    BY <1>1, <2>2, TickOlder
  <2>3. CASE ~Tick
    <3>1. KillStep \/ PlayStep
      BY <1>1, <2>3 DEF Next
    <3> QED BY <1>1, <2>1, <2>3, <3>1, PlayCalm, CalmNotYounger DEF Tick
  <2> QED BY <2>2, <2>3
<1>2. SInv /\ [Next]_vars => [MapStep \/ A]_vars
  BY <1>1
<1> QED
  BY <1>2, SInvInit, SInvStep, PTL DEF Spec, FlagTimersRun

-----------------------------------------------------------------------------
(***************************************************************************)
(* The rules about earlier steps (CtfHistory).  The drop record of a flag  *)
(* and its history say the same: a flag on the way was last taken by its   *)
(* owner, or by its dropper; who took it twice left a drop count of one;   *)
(* and a team killer who has not died since stands as its dropper with     *)
(* the penalty.                                                            *)
(***************************************************************************)
History == [taker: Clients \cup {NoOne}, takes: 0..2, killer: Clients \cup {NoOne},
            killerLives: BOOLEAN]

Recorded(f, h) ==
  /\ f.owner # NoOne => h.taker = f.owner
  /\ f.owner = NoOne /\ h.taker # NoOne => f.dropper = h.taker
  /\ h.taker = NoOne => h.takes = 0
  /\ h.takes = 2 => f.dropcount >= 1
  /\ h.killer # NoOne /\ h.killerLives =>
       f.owner = NoOne /\ f.dropper = h.killer /\ f.dropcount = INT_MAX

HInv ==
  /\ hist \in [FlagIds -> History]
  /\ \A i \in FlagIds \cap DOMAIN flags : Recorded(flags[i], hist[i])
  /\ \A i \in FlagIds \ DOMAIN flags : hist[i] = NoHistory

\* The history of a flag at home.
LEMMA NoHistoryType == NoHistory \in History
BY DEF NoHistory, History

\* A flag nobody owns may have no history.
LEMMA HomeRecorded ==
  ASSUME NEW g, g.owner = NoOne
  PROVE  NoHistory \in History /\ Recorded(g, NoHistory)
BY NoHistoryType DEF NoHistory, Recorded

\* A flag that is taken: the taker is counted, and a team killer who lives is
\* not the taker.
LEMMA TakenRecorded ==
  ASSUME NEW f \in Flag, NEW g, NEW h \in History, NEW c \in Clients,
         Recorded(f, h), Taken(f, g, c)
  PROVE  LET n == [h EXCEPT !.taker = c, !.takes = IF c = h.taker THEN @ + 1 ELSE 1,
                            !.killer = IF @ = c THEN c ELSE NoOne]
         IN  n \in History /\ Recorded(g, n)
<1> DEFINE n == [h EXCEPT !.taker = c, !.takes = IF c = h.taker THEN @ + 1 ELSE 1,
                          !.killer = IF @ = c THEN c ELSE NoOne]
<1>1. /\ n.taker = c /\ n.takes = IF c = h.taker THEN h.takes + 1 ELSE 1
      /\ n.killer = IF h.killer = c THEN c ELSE NoOne
      /\ n.killerLives = h.killerLives
  BY DEF History
<1>2. /\ h.takes \in 0..2 /\ c # NoOne /\ f.owner = NoOne /\ g.owner = c
      /\ c = f.dropper => f.dropcount = 0 /\ g.dropcount = 1
  BY ClientsAssumption DEF History, Taken
<1>3. c = h.taker => h.takes \in 0..1 /\ g.dropcount = 1
  BY <1>2 DEF Recorded
<1>4. n.takes \in 1..2 /\ (n.takes = 2 => g.dropcount >= 1)
  BY <1>1, <1>2, <1>3
<1>5. ~(n.killer # NoOne /\ n.killerLives)
  BY <1>1, <1>2, IntMax DEF Recorded
<1>6. n \in History
  <2>1. n = [h EXCEPT !.taker = c, !.takes = n.takes, !.killer = n.killer]
    BY <1>1 DEF History
  <2>2. n.takes \in 0..2 /\ n.killer \in Clients \cup {NoOne}
    BY <1>1, <1>4
  <2> HIDE DEF n
  <2>3. ASSUME NEW k \in 0..2, NEW q \in Clients \cup {NoOne}
        PROVE  [h EXCEPT !.taker = c, !.takes = k, !.killer = q] \in History
    BY DEF History
  <2> QED
    BY <2>1, <2>2, <2>3
<1> QED
  BY <1>1, <1>2, <1>4, <1>5, <1>6 DEF Recorded

\* A flag that stays, or that its owner drops, or whose owner or dropper dies
\* or leaves: the history after a step that takes no flag.
LEMMA LaterRecorded ==
  ASSUME NEW f \in Flag, NEW g, NEW h \in History, NEW E, Recorded(f, h),
         f.owner # NoOne => f.dropper = NoOne,
         g.owner \notin E,
         \/ Kept(f, g)
         \/ \E c \in Clients : DroppedBy(f, g, c) \/ (Forgotten(f, g, c) /\ c \in E),
         NEW k \in {h.killer, NoOne}
  PROVE  LET n == [h EXCEPT
                     !.taker = IF @ # NoOne /\ @ \in E THEN NoOne ELSE @,
                     !.takes = IF h.taker # NoOne /\ h.taker \in E THEN 0 ELSE @,
                     !.killer = k,
                     !.killerLives = @ /\ ~(h.killer # NoOne /\ h.killer \in E)]
         IN  n \in History /\ Recorded(g, n)
<1> DEFINE tk == IF h.taker # NoOne /\ h.taker \in E THEN NoOne ELSE h.taker
           ts == IF h.taker # NoOne /\ h.taker \in E THEN 0 ELSE h.takes
           kl == h.killerLives /\ ~(h.killer # NoOne /\ h.killer \in E)
           n == [h EXCEPT !.taker = tk, !.takes = ts, !.killer = k, !.killerLives = kl]
<1>1. tk \in Clients \cup {NoOne} /\ ts \in 0..2 /\ k \in Clients \cup {NoOne} /\ kl \in BOOLEAN
  BY DEF History
<1>2. n \in History /\ n.taker = tk /\ n.takes = ts /\ n.killer = k /\ n.killerLives = kl
  <2> HIDE DEF tk, ts, kl
  <2> QED
    BY <1>1 DEF History
<1>3. h.takes \in 0..2 /\ h.killerLives \in BOOLEAN
  BY DEF History
<1>4. kl => h.killerLives /\ (h.killer # NoOne => h.killer \notin E)
  BY <1>3
<1> HIDE DEF n
<1>5. ASSUME Kept(f, g) PROVE Recorded(g, n)
  <2>1. /\ g.owner # NoOne => tk = g.owner
        /\ g.owner = NoOne /\ tk # NoOne => g.dropper = tk
        /\ tk = NoOne => ts = 0
        /\ ts = 2 => g.dropcount >= 1
    BY <1>5 DEF Kept, Recorded
  <2>2. k # NoOne /\ kl => g.owner = NoOne /\ g.dropper = k /\ g.dropcount = INT_MAX
    BY <1>4, <1>5 DEF Kept, Recorded
  <2> HIDE DEF tk, ts, kl
  <2> QED
    BY <1>2, <2>1, <2>2 DEF Recorded
<1>6. ASSUME NEW c \in Clients, DroppedBy(f, g, c) PROVE Recorded(g, n)
  <2>1. h.taker = c /\ f.owner = c /\ g.owner = NoOne /\ g.dropper = c
        /\ g.dropcount = f.dropcount /\ c # NoOne
    BY <1>6, ClientsAssumption DEF DroppedBy, Recorded
  <2>2. /\ tk # NoOne => g.dropper = tk
        /\ tk = NoOne => ts = 0
        /\ ts = 2 => g.dropcount >= 1
    BY <2>1 DEF Recorded
  <2>3. ~(k # NoOne /\ kl)
    BY <1>4, <2>1 DEF Recorded
  <2> HIDE DEF tk, ts, kl
  <2> QED
    BY <1>2, <2>1, <2>2, <2>3 DEF Recorded
<1>7. ASSUME NEW c \in Clients, Forgotten(f, g, c), c \in E PROVE Recorded(g, n)
  <2>1. g.owner = NoOne /\ c \in {f.owner, f.dropper} /\ c # NoOne
    BY <1>7, ClientsAssumption DEF Forgotten
  <2>2. h.taker \in {c, NoOne}
    BY <1>7, <2>1, ClientsAssumption DEF Forgotten, Recorded
  <2>3. tk = NoOne /\ ts = 0
    BY <1>7, <2>1, <2>2 DEF Recorded
  <2>4. ~(k # NoOne /\ kl)
    BY <1>4, <1>7, <2>1 DEF Recorded
  <2> HIDE DEF tk, ts, kl
  <2> QED
    BY <1>2, <2>1, <2>3, <2>4 DEF Recorded
<1>8. n \in History /\ Recorded(g, n)
  BY <1>2, <1>5, <1>6, <1>7
<1> QED
  BY <1>8 DEF n

\* The history of a flag after a step that moved it in one of the five ways.
LEMMA LaterStep ==
  ASSUME SInv, SInv', HInv, KillStep \/ PlayStep \/ Tick, DOMAIN flags' = DOMAIN flags,
         NEW i \in FlagIds \cap DOMAIN flags,
         \/ Kept(flags[i], flags'[i])
         \/ WentHome(flags[i], flags'[i])
         \/ \E c \in Clients :
              \/ DroppedBy(flags[i], flags'[i], c)
              \/ Taken(flags[i], flags'[i], c)
              \/ Forgotten(flags[i], flags'[i], c) /\ EndsLife(c)
  PROVE  Later(i) \in History /\ Recorded(flags'[i], Later(i))
<1> DEFINE f == flags[i]
           g == flags'[i]
           h == hist[i]
           E == {c \in Clients : EndsLife(c)}
           k == IF h.killer # NoOne /\ client'[h.killer].life = "off" THEN NoOne ELSE h.killer
<1>1. h \in History /\ Recorded(f, h)
  BY DEF HInv
<1>2. f \in Flag /\ g \in Flag /\ (f.owner # NoOne => f.dropper = NoOne)
  BY DEF SInv, FlagsSound
<1>3. g.owner \notin E
  BY EndedCarriesNothing
<1>4. CASE AtHome(g)
  <2>1. Later(i) = NoHistory
    BY <1>4 DEF Later
  <2> QED
    BY <1>4, <2>1, HomeRecorded DEF AtHome
<1>5. ASSUME ~AtHome(g), NEW c \in Clients, Taken(f, g, c)
      PROVE  Later(i) \in History /\ Recorded(g, Later(i))
  <2>1. Took(i) /\ g.owner = c
    BY <1>5, ClientsAssumption DEF Took, Taken
  <2>2. Later(i) = [h EXCEPT !.taker = c, !.takes = IF c = h.taker THEN @ + 1 ELSE 1,
                             !.killer = IF @ = c THEN c ELSE NoOne]
    BY <1>5, <2>1 DEF Later
  <2> HIDE DEF f, g, h
  <2> QED
    <3> DEFINE n == [h EXCEPT !.taker = c, !.takes = IF c = h.taker THEN @ + 1 ELSE 1,
                              !.killer = IF @ = c THEN c ELSE NoOne]
    <3>1. n \in History /\ Recorded(g, n)
      BY <1>1, <1>2, <1>5, TakenRecorded
    <3> QED
      BY <2>2, <3>1, Zenon
<1>6. ASSUME ~AtHome(g),
             \/ Kept(f, g)
             \/ \E c \in Clients : DroppedBy(f, g, c) \/ (Forgotten(f, g, c) /\ EndsLife(c))
      PROVE  Later(i) \in History /\ Recorded(g, Later(i))
  <2>1. ~Took(i)
    BY <1>6 DEF Took, Kept, DroppedBy, Forgotten
  <2>2. \A c \in Clients \cup {NoOne} : (c # NoOne /\ EndsLife(c)) <=> (c # NoOne /\ c \in E)
    BY ClientsAssumption
  <2>3. h.taker \in Clients \cup {NoOne} /\ h.killer \in Clients \cup {NoOne}
    BY <1>1 DEF History
  <2>4. Later(i) = [h EXCEPT
              !.taker = IF @ # NoOne /\ EndsLife(@) THEN NoOne ELSE @,
              !.takes = IF h.taker # NoOne /\ EndsLife(h.taker) THEN 0 ELSE @,
              !.killer = k,
              !.killerLives = @ /\ ~(h.killer # NoOne /\ EndsLife(h.killer))]
    BY <1>6, <2>1 DEF Later
  <2>5. Later(i) = [h EXCEPT
              !.taker = IF @ # NoOne /\ @ \in E THEN NoOne ELSE @,
              !.takes = IF h.taker # NoOne /\ h.taker \in E THEN 0 ELSE @,
              !.killer = k,
              !.killerLives = @ /\ ~(h.killer # NoOne /\ h.killer \in E)]
    <3>1. /\ (h.taker # NoOne /\ EndsLife(h.taker)) = (h.taker # NoOne /\ h.taker \in E)
          /\ (h.killer # NoOne /\ EndsLife(h.killer)) = (h.killer # NoOne /\ h.killer \in E)
      <4> HIDE DEF E
      <4> QED
        BY <2>2, <2>3
    <3> HIDE DEF h, k, E
    <3> QED
      BY <2>4, <3>1, Zenon
  <2>6. k \in {h.killer, NoOne}
    OBVIOUS
  <2>7. \/ Kept(f, g)
        \/ \E c \in Clients : DroppedBy(f, g, c) \/ (Forgotten(f, g, c) /\ c \in E)
    BY <1>6
  <2> HIDE DEF f, g, h, k, E
  <2> QED
    <3> DEFINE n == [h EXCEPT
                       !.taker = IF @ # NoOne /\ @ \in E THEN NoOne ELSE @,
                       !.takes = IF h.taker # NoOne /\ h.taker \in E THEN 0 ELSE @,
                       !.killer = k,
                       !.killerLives = @ /\ ~(h.killer # NoOne /\ h.killer \in E)]
    <3>1. n \in History /\ Recorded(g, n)
      BY <1>1, <1>2, <1>3, <2>6, <2>7, LaterRecorded
    <3> QED
      BY <2>5, <3>1, Zenon
<1>7. CASE WentHome(f, g)
  BY <1>4, <1>7 DEF WentHome
<1> QED
  BY <1>4, <1>5, <1>6, <1>7

\* Every step keeps record and history together.
LEMMA HInvStep == SInv /\ SInv' /\ HInv /\ [HNext]_hvars => HInv'
<1> SUFFICES ASSUME SInv, SInv', HInv, [HNext]_hvars PROVE HInv'
  OBVIOUS
<1>1. ASSUME NEW c \in Clients, NEW actor \in Clients, NEW inside \in BOOLEAN,
             dodamage(c, actor, inside),
             hist' = [i \in FlagIds |-> AfterKill(c, actor, i)]
      PROVE  HInv'
  <2>1. KillStep /\ DOMAIN flags' = DOMAIN flags
    BY <1>1, KillMoves DEF KillStep
  <2>2. ASSUME NEW i \in FlagIds \ DOMAIN flags PROVE hist'[i] = NoHistory
    BY <1>1, <2>1, <2>2 DEF AfterKill, Later
  <2>3. ASSUME NEW i \in FlagIds \cap DOMAIN flags
        PROVE  hist'[i] \in History /\ Recorded(flags'[i], hist'[i])
    <3> DEFINE barred == flags[i].owner = c /\ TeamKill(c, actor) /\ ~AtHome(flags'[i])
    <3>1. /\ flags'[i].owner # c
          /\ \/ flags'[i] = flags[i]
             \/ WentHome(flags[i], flags'[i])
             \/ TeamKill(c, actor) /\ Penalised(flags[i], flags'[i], c, actor)
             \/ /\ Forgotten(flags[i], flags'[i], c)
                /\ EndsLife(c)
                /\ flags[i].owner = c => ~TeamKill(c, actor)
      BY <1>1, KillMoves
    <3>2. CASE barred
      <4>1. Penalised(flags[i], flags'[i], c, actor)
        BY <3>1, <3>2 DEF WentHome
      <4>2. hist'[i] = [taker |-> NoOne, takes |-> 0, killer |-> actor, killerLives |-> TRUE]
        BY <1>1, <3>2 DEF AfterKill
      <4> QED
        BY <4>1, <4>2 DEF Penalised, Recorded, History
    <3>3. CASE ~barred
      <4>1. hist'[i] = Later(i)
        BY <1>1, <3>3 DEF AfterKill
      <4>2. ~(TeamKill(c, actor) /\ Penalised(flags[i], flags'[i], c, actor))
        BY <3>3 DEF Penalised, AtHome
      <4>3. flags'[i] = flags[i] => Kept(flags[i], flags'[i])
        BY DEF Kept
      <4>4. \/ Kept(flags[i], flags'[i])
            \/ WentHome(flags[i], flags'[i])
            \/ Forgotten(flags[i], flags'[i], c) /\ EndsLife(c)
        BY <3>1, <4>2, <4>3
      <4> QED
        BY <2>1, <4>1, <4>4, LaterStep
    <3> QED
      BY <3>2, <3>3
  <2>4. \A i \in FlagIds : hist'[i] \in History
    BY <2>2, <2>3, NoHistoryType
  <2>5. hist' \in [FlagIds -> History]
    BY <1>1, <2>4
  <2> QED
    BY <2>1, <2>2, <2>3, <2>5 DEF HInv
<1>2. ASSUME MapStep, hist' = [i \in FlagIds |-> NoHistory] PROVE HInv'
  <2>1. \A i \in DOMAIN flags' : flags'[i].owner = NoOne
    <3>1. flags' \in addflags \cup {NoFlags}
      BY <1>2 DEF MapStep, changemap, parseflags
    <3>2. CASE flags' = NoFlags
      BY <3>2 DEF NoFlags
    <3>3. CASE flags' \in addflags
      <4>1. PICK s : flags' = [k \in FlagIds |-> FreshFlag(s)]
        BY <3>3 DEF addflags
      <4> QED
        BY <4>1 DEF FreshFlag
    <3> QED
      BY <3>1, <3>2, <3>3
  <2> QED
    <3>1. hist' \in [FlagIds -> History] /\ \A i \in FlagIds : hist'[i] = NoHistory
      BY <1>2, NoHistoryType
    <3>2. \A i \in FlagIds \cap DOMAIN flags' : Recorded(flags'[i], hist'[i])
      BY <2>1, <3>1, HomeRecorded
    <3> QED
      BY <3>1, <3>2 DEF HInv
<1>3. ASSUME PlayStep \/ Tick, hist' = [i \in FlagIds |-> Later(i)] PROVE HInv'
  <2>1. DOMAIN flags' = DOMAIN flags
    BY <1>3, PlayMoves
  <2>2. ASSUME NEW i \in FlagIds \ DOMAIN flags PROVE hist'[i] = NoHistory
    BY <1>3, <2>1, <2>2 DEF Later
  <2>3. ASSUME NEW i \in FlagIds \cap DOMAIN flags
        PROVE  hist'[i] \in History /\ Recorded(flags'[i], hist'[i])
    <3>1. hist'[i] = Later(i)
      BY <1>3
    <3>2. \/ Kept(flags[i], flags'[i])
          \/ WentHome(flags[i], flags'[i])
          \/ \E c \in Clients :
               \/ DroppedBy(flags[i], flags'[i], c)
               \/ Taken(flags[i], flags'[i], c)
               \/ Forgotten(flags[i], flags'[i], c) /\ EndsLife(c)
      BY <1>3, PlayMoves
    <3> QED
      BY <1>3, <2>1, <3>1, <3>2, LaterStep
  <2>4. \A i \in FlagIds : hist'[i] \in History
    BY <2>2, <2>3, NoHistoryType
  <2>5. hist' \in [FlagIds -> History]
    BY <1>3, <2>4
  <2> QED
    BY <2>1, <2>2, <2>3, <2>5 DEF HInv
<1>4. CASE UNCHANGED hvars
  BY <1>4 DEF hvars, vars, HInv
<1>5. ASSUME MapStep \/ PlayStep \/ Tick,
             hist' = [i \in FlagIds |-> IF MapStep THEN NoHistory ELSE Later(i)]
      PROVE  HInv'
  <2>1. CASE MapStep
    BY <1>2, <1>5, <2>1
  <2>2. CASE ~MapStep
    BY <1>3, <1>5, <2>2
  <2> QED
    BY <2>1, <2>2
<1> QED
  BY <1>1, <1>4, <1>5 DEF HNext

\* The history watches the flag modes and restricts nothing: its steps are
\* steps of the game, so the invariants of the game hold with it.
LEMMA HistoryInv == HSpec => [](SInv /\ HInv)
<1>1. HInit => SInv /\ HInv
  BY SInvInit DEF HInit, Init, HInv, NoFlags, NoHistory, History
<1>2. [HNext]_hvars => [Next]_vars
  BY DEF HNext, Next, KillStep, hvars
<1> QED
  BY <1>1, <1>2, SInvStep, HInvStep, PTL DEF HSpec

\* In one life nobody takes a flag from the field more than once after he
\* dropped it himself, until another takes it or it goes home.
THEOREM NoEndlessRetake == HSpec => []RetakeAtMostOnce
<1>1. HInv => RetakeAtMostOnce
  BY DEF HInv, RetakeAtMostOnce, History
<1> QED
  BY <1>1, HistoryInv, PTL

\* Who team-killed a carrier does not own that flag in the same life, until
\* another takes it or it goes home.
THEOREM TeamkillerNeverOwns == HSpec => []TeamkillerBarred
<1>1. SInv /\ HInv => TeamkillerBarred
  BY ClientsAssumption DEF HInv, SInv, FlagsSound, TeamkillerBarred, Recorded
<1> QED
  BY <1>1, HistoryInv, PTL
=============================================================================
