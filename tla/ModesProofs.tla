---------------------------- MODULE ModesProofs ----------------------------
(***************************************************************************)
(* Proofs about Modes, for any players, teams, bases, positions and        *)
(* limits: the types, BaseSound, NoPhantom, TokenRefsLive and TokenBound.  *)
(*                                                                         *)
(* NoPhantom is proved base by base: Fits(b, n) says that base b counts no *)
(* more of a team than n gives, and the lemmas say how enter, leave, steal *)
(* and occupy keep it while the players inside change by one.  It needs    *)
(* Idle: a mode that is not capture, or has no bases yet, counts nobody.   *)
(*                                                                         *)
(* TokenBound rests on what Number means, the size of a set of pieces:     *)
(* kinds apart are counted apart, and more of a kind are as many more.     *)
(*                                                                         *)
(* Last, an attack that nobody carries on wanes (AttackWanes).             *)
(***************************************************************************)
EXTENDS Modes, FiniteSetTheorems, TLAPS

Team == Teams \cup {NoTeam}

Sound(b) ==
  /\ b.owner = NoTeam => b.owners = 0
  /\ b.enemy = NoTeam => b.enemies = 0 /\ b.converted = 0
  /\ b.enemy # NoTeam => b.enemy # b.owner
  /\ b.converted < Cap!Limit(b)

Good(b) == b \in BaseStates /\ Sound(b)

Idle ==
  smode = "collect" \/ notgotbases => \A i \in Bases : bases[i].owners = 0 /\ bases[i].enemies = 0

-----------------------------------------------------------------------------
(***************************************************************************)
(* One base                                                                *)
(***************************************************************************)
LEMMA LimitPositive == \A b : Cap!Limit(b) \in Nat /\ Cap!Limit(b) > 0
BY ModesAssumption DEF Cap!Limit

LEMMA NewBaseGood == Good(Cap!NewBase) /\ Cap!NewBase.owners = 0 /\ Cap!NewBase.enemies = 0
<1> DEFINE b == Cap!NewBase
<1>1. b \in BaseStates /\ b.owners = 0 /\ b.enemies = 0 /\ b.converted = 0 /\ b.enemy = NoTeam
  BY DEF Cap!NewBase, BaseStates
<1> HIDE DEF b
<1>2. Good(b)
  BY <1>1, LimitPositive DEF Good, Sound
<1> QED BY <1>1, <1>2 DEF b

LEMMA AttackGood ==
  ASSUME NEW b, Good(b), NEW t \in Teams, t # b.owner, NEW n \in Nat
  PROVE  LET r == Cap!Attack(b, t, n)
         IN  Good(r) /\ r.owner = b.owner /\ r.owners = b.owners /\ r.enemy = t /\ r.enemies = n
<1> DEFINE r == Cap!Attack(b, t, n)
           v == IF b.enemy = t THEN b.converted ELSE 0
<1>1. b \in BaseStates /\ Sound(b) /\ t # NoTeam
  BY ModesAssumption DEF Good
<1>2. r = [b EXCEPT !.enemy = t, !.enemies = n, !.converted = v]
  BY DEF Cap!Attack
<1>3. v \in Nat /\ v < Cap!Limit(b)
  BY <1>1, LimitPositive DEF BaseStates, Sound
<1> HIDE DEF v, r
<1>4. /\ r \in BaseStates /\ r.owner = b.owner /\ r.owners = b.owners /\ r.enemy = t /\ r.enemies = n
      /\ r.converted = v
  BY <1>1, <1>2, <1>3 DEF BaseStates
<1>5. Cap!Limit(r) = Cap!Limit(b)
  BY <1>4 DEF Cap!Limit
<1>6. Sound(r)
  BY <1>1, <1>3, <1>4, <1>5 DEF Sound
<1> QED BY <1>4, <1>6 DEF Good, r

LEMMA CountGood ==
  ASSUME NEW b, Good(b), NEW n \in Nat, NEW r,
         \/ r = [b EXCEPT !.owners = n] /\ b.owner # NoTeam
         \/ r = [b EXCEPT !.enemies = n] /\ b.enemy # NoTeam
  PROVE  Good(r) /\ r.owner = b.owner /\ r.enemy = b.enemy
<1>1. b \in BaseStates /\ Sound(b)
  BY DEF Good
<1>2. /\ r \in BaseStates /\ r.owner = b.owner /\ r.enemy = b.enemy /\ r.converted = b.converted
      /\ r.owners = b.owners \/ b.owner # NoTeam
      /\ r.enemies = b.enemies \/ b.enemy # NoTeam
  BY <1>1 DEF BaseStates
<1>3. Cap!Limit(r) = Cap!Limit(b)
  BY <1>2 DEF Cap!Limit
<1>4. Sound(r)
  BY <1>1, <1>2, <1>3 DEF Sound
<1> QED BY <1>2, <1>4 DEF Good

LEMMA EnterGood ==
  ASSUME NEW b, Good(b), NEW t \in Teams
  PROVE  Good(Cap!enter(b, t))
<1>1. b \in BaseStates /\ t # NoTeam /\ b.enemies \in Nat /\ b.owners \in Nat /\ Sound(b)
  BY ModesAssumption DEF Good, BaseStates
<1>2. CASE b.owner = t
  <2>1. Cap!enter(b, t) = [b EXCEPT !.owners = b.owners + 1]
    BY <1>2 DEF Cap!enter
  <2> QED BY <2>1, <1>1, <1>2, CountGood
<1>3. CASE b.owner # t /\ b.enemies = 0
  <2>1. Cap!enter(b, t) = Cap!Attack(b, t, 1)
    BY <1>3 DEF Cap!enter
  <2> QED BY <2>1, <1>3, AttackGood
<1>4. CASE b.owner # t /\ b.enemies # 0
  <2>1. Cap!enter(b, t) = IF b.enemy = t THEN [b EXCEPT !.enemies = b.enemies + 1] ELSE b
    BY <1>1, <1>4 DEF Cap!enter
  <2>2. CASE b.enemy = t
    <3>1. Cap!enter(b, t) = [b EXCEPT !.enemies = b.enemies + 1] /\ b.enemy # NoTeam
      BY <2>1, <2>2, <1>1
    <3> QED BY <3>1, <1>1, CountGood
  <2>3. CASE b.enemy # t
    BY <2>1, <2>3
  <2> QED BY <2>2, <2>3
<1> QED BY <1>2, <1>3, <1>4

LEMMA LeaveGood ==
  ASSUME NEW b, Good(b), NEW t \in Teams
  PROVE  Good(Cap!leave(b, t))
<1>1. b \in BaseStates /\ t # NoTeam /\ b.enemies \in Nat /\ b.owners \in Nat
  BY ModesAssumption DEF Good, BaseStates
<1>2. CASE b.owner = t /\ b.owners > 0
  <2>1. Cap!leave(b, t) = [b EXCEPT !.owners = b.owners - 1]
    BY <1>2 DEF Cap!leave
  <2> QED BY <2>1, <1>1, <1>2, CountGood
<1>3. CASE ~(b.owner = t /\ b.owners > 0) /\ b.enemy = t /\ b.enemies > 0
  <2>1. Cap!leave(b, t) = [b EXCEPT !.enemies = b.enemies - 1]
    BY <1>3 DEF Cap!leave
  <2> QED BY <2>1, <1>1, <1>3, CountGood
<1>4. CASE ~(b.owner = t /\ b.owners > 0) /\ ~(b.enemy = t /\ b.enemies > 0)
  BY <1>4 DEF Cap!leave
<1> QED BY <1>2, <1>3, <1>4

LEMMA Products == \A m, n \in Nat : m * n \in Nat
OBVIOUS

\* What occupy makes of base b, where update calls it.
Occupied(b, r) ==
  /\ Good(r)
  /\ \/ /\ r.owner = b.owner \/ r.owner = NoTeam
        /\ r.owners = b.owners /\ r.enemies <= b.enemies
        /\ r.enemy = b.enemy \/ r.enemy = NoTeam
     \/ r.owner = b.enemy /\ r.owners = b.enemies /\ r.enemy = NoTeam /\ r.enemies = 0
  /\ b.owners = 0 /\ b.enemies = 0 => r.owners = 0 /\ r.enemies = 0

LEMMA OccupyGood ==
  ASSUME NEW b, Good(b), NEW seconds \in Nat, b.enemy # NoTeam, b.owners = 0 \/ b.enemies = 0
  PROVE  Occupied(b, Cap!occupy(b, Cap!Units(b, seconds)))
<1> DEFINE u == Cap!Units(b, seconds)
           r == Cap!occupy(b, u)
           v == b.converted + u
           none == Cap!noenemy(b)
<1> SUFFICES Occupied(b, r)
  OBVIOUS
<1>1. /\ b \in BaseStates /\ Sound(b) /\ b.owners \in Nat /\ b.enemies \in Nat /\ b.converted \in Nat
      /\ b.owner \in Team /\ b.enemy \in Teams
  BY DEF Good, BaseStates, Team
<1>2. /\ u \in Int
      /\ b.enemies > 0 => u > 0
      /\ b.enemies = 0 => u < 0
  <2>1. b.enemies * seconds \in Nat /\ (1 + b.owners) * seconds \in Nat
    BY <1>1, Products
  <2> QED BY <2>1, <1>1 DEF Cap!Units
<1> HIDE DEF u
<1>3. v \in Int
  BY <1>1, <1>2
<1>4. r = IF u < 0 THEN IF v <= 0 THEN none ELSE [b EXCEPT !.converted = v]
          ELSE IF v < Cap!Limit(b) THEN [b EXCEPT !.converted = v]
          ELSE IF b.owner # NoTeam THEN [b EXCEPT !.owner = NoTeam, !.converted = 0]
          ELSE Cap!noenemy([b EXCEPT !.owner = b.enemy, !.owners = b.enemies])
  BY DEF Cap!occupy
<1> HIDE DEF r
<1>5. CASE r = none
  <2>1. /\ r \in BaseStates /\ r.owner = b.owner /\ r.owners = b.owners
        /\ r.enemy = NoTeam /\ r.enemies = 0 /\ r.converted = 0
    BY <1>1, <1>5 DEF Cap!noenemy, BaseStates
  <2>2. Good(r)
    BY <2>1, <1>1, LimitPositive DEF Good, Sound
  <2> QED BY <2>1, <2>2, <1>1 DEF Occupied
<1>6. CASE r = [b EXCEPT !.converted = v] /\ v \in Nat /\ v < Cap!Limit(b)
  <2>1. /\ r \in BaseStates /\ r.owner = b.owner /\ r.owners = b.owners
        /\ r.enemy = b.enemy /\ r.enemies = b.enemies /\ r.converted = v
    BY <1>1, <1>6 DEF BaseStates
  <2>2. Cap!Limit(r) = Cap!Limit(b)
    BY <2>1 DEF Cap!Limit
  <2>3. Good(r)
    BY <2>1, <2>2, <1>1, <1>6 DEF Good, Sound
  <2> QED BY <2>1, <2>3, <1>1 DEF Occupied
<1>7. CASE u >= 0 /\ r = [b EXCEPT !.owner = NoTeam, !.converted = 0]
  <2>1. b.owners = 0
    BY <1>1, <1>2, <1>7
  <2>2. /\ r \in BaseStates /\ r.owner = NoTeam /\ r.owners = b.owners
        /\ r.enemy = b.enemy /\ r.enemies = b.enemies /\ r.converted = 0
    BY <1>1, <1>7 DEF BaseStates
  <2>3. Good(r)
    BY <2>1, <2>2, <1>1, LimitPositive DEF Good, Sound
  <2> QED BY <2>1, <2>2, <2>3, <1>1 DEF Occupied
<1>8. CASE r = Cap!noenemy([b EXCEPT !.owner = b.enemy, !.owners = b.enemies])
  <2>1. /\ r \in BaseStates /\ r.owner = b.enemy /\ r.owners = b.enemies
        /\ r.enemy = NoTeam /\ r.enemies = 0 /\ r.converted = 0
    BY <1>1, <1>8 DEF Cap!noenemy, BaseStates
  <2>2. Good(r)
    BY <2>1, <1>1, LimitPositive DEF Good, Sound
  <2> QED BY <2>1, <2>2, <1>1 DEF Occupied
<1>9. \/ r = none
      \/ r = [b EXCEPT !.converted = v] /\ v \in Nat /\ v < Cap!Limit(b)
      \/ u >= 0 /\ r = [b EXCEPT !.owner = NoTeam, !.converted = 0]
      \/ r = Cap!noenemy([b EXCEPT !.owner = b.enemy, !.owners = b.enemies])
  <2>1. Cap!Limit(b) \in Nat /\ b.converted < Cap!Limit(b)
    BY <1>1, LimitPositive DEF Sound
  <2>2. CASE u < 0
    <3>1. v < Cap!Limit(b)
      BY <2>1, <2>2, <1>1, <1>2
    <3> HIDE DEF v, none
    <3>2. CASE v <= 0
      BY <2>2, <3>2, <1>4
    <3>3. CASE ~(v <= 0)
      BY <2>2, <3>1, <3>3, <1>3, <1>4
    <3> QED BY <3>2, <3>3
  <2>3. CASE ~(u < 0)
    <3>1. v \in Nat /\ u >= 0
      BY <2>3, <1>1, <1>2
    <3> HIDE DEF v, none
    <3>2. CASE v < Cap!Limit(b)
      BY <2>3, <3>1, <3>2, <1>4
    <3>3. CASE ~(v < Cap!Limit(b)) /\ b.owner # NoTeam
      BY <2>3, <3>1, <3>3, <1>4
    <3>4. CASE ~(v < Cap!Limit(b)) /\ b.owner = NoTeam
      BY <2>3, <3>1, <3>4, <1>4
    <3> QED BY <3>2, <3>3, <3>4
  <2> QED BY <2>2, <2>3
<1> QED BY <1>5, <1>6, <1>7, <1>8, <1>9

-----------------------------------------------------------------------------
(***************************************************************************)
(* What a base counts, and n[t] players of team t inside                   *)
(***************************************************************************)
Fits(b, n) ==
  \A t \in Teams : (b.owner = t => b.owners <= n[t]) /\ (b.enemy = t => b.enemies <= n[t])

Sizes == [Teams -> Nat]

LEMMA FewerFits ==
  ASSUME NEW b, Good(b), NEW n \in Sizes, Fits(b, n), NEW m \in Sizes, \A t \in Teams : n[t] <= m[t]
  PROVE  Fits(b, m)
BY DEF Fits, Sizes, Good, BaseStates

LEMMA AttackFits ==
  ASSUME NEW b, Good(b), NEW t \in Teams, t # b.owner, NEW n \in Sizes, Fits(b, n),
         NEW k \in Nat, k <= n[t]
  PROVE  Fits(Cap!Attack(b, t, k), n)
<1> DEFINE r == Cap!Attack(b, t, k)
<1>1. r.owner = b.owner /\ r.owners = b.owners /\ r.enemy = t /\ r.enemies = k
  BY AttackGood
<1> HIDE DEF r
<1>2. Fits(r, n)
  BY <1>1 DEF Fits, Sizes
<1> QED BY <1>2 DEF r

LEMMA EnterFits ==
  ASSUME NEW b, Good(b), NEW t \in Teams, NEW n \in Sizes, Fits(b, n),
         NEW m \in Sizes, m[t] = n[t] + 1, \A u \in Teams : u # t => m[u] = n[u]
  PROVE  Fits(Cap!enter(b, t), m)
<1>1. b \in BaseStates /\ t # NoTeam /\ b.enemies \in Nat /\ b.owners \in Nat /\ Sound(b)
  BY ModesAssumption DEF Good, BaseStates
<1>2. Fits(b, m)
  <2>1. \A u \in Teams : n[u] <= m[u]
    BY DEF Sizes
  <2> QED BY <2>1, FewerFits
<1>3. CASE b.owner = t
  <2>1. Cap!enter(b, t) = [b EXCEPT !.owners = b.owners + 1]
    BY <1>3 DEF Cap!enter
  <2>2. /\ Cap!enter(b, t).owner = b.owner /\ Cap!enter(b, t).owners = b.owners + 1
        /\ Cap!enter(b, t).enemy = b.enemy /\ Cap!enter(b, t).enemies = b.enemies
    BY <2>1, <1>1 DEF BaseStates
  <2> QED BY <2>2, <1>1, <1>2, <1>3 DEF Fits, Sizes
<1>4. CASE b.owner # t /\ b.enemies = 0
  <2>1. Cap!enter(b, t) = Cap!Attack(b, t, 1)
    BY <1>4 DEF Cap!enter
  <2>2. 1 <= m[t]
    BY DEF Sizes
  <2> QED BY <2>1, <2>2, <1>2, <1>4, AttackFits
<1>5. CASE b.owner # t /\ b.enemies # 0
  <2>1. Cap!enter(b, t) = IF b.enemy = t THEN [b EXCEPT !.enemies = b.enemies + 1] ELSE b
    BY <1>1, <1>5 DEF Cap!enter
  <2>2. CASE b.enemy = t
    <3>1. /\ Cap!enter(b, t).owner = b.owner /\ Cap!enter(b, t).owners = b.owners
          /\ Cap!enter(b, t).enemy = b.enemy /\ Cap!enter(b, t).enemies = b.enemies + 1
      BY <2>1, <2>2, <1>1 DEF BaseStates
    <3> QED BY <3>1, <2>2, <1>1, <1>2 DEF Fits, Sizes
  <2>3. CASE b.enemy # t
    BY <2>1, <2>3, <1>2
  <2> QED BY <2>2, <2>3
<1> QED BY <1>3, <1>4, <1>5

LEMMA LeaveFits ==
  ASSUME NEW b, Good(b), NEW t \in Teams, NEW n \in Sizes, Fits(b, n),
         NEW m \in Sizes, n[t] = m[t] + 1, \A u \in Teams : u # t => m[u] = n[u]
  PROVE  Fits(Cap!leave(b, t), m)
<1>1. b \in BaseStates /\ t # NoTeam /\ b.enemies \in Nat /\ b.owners \in Nat /\ Sound(b)
  BY ModesAssumption DEF Good, BaseStates
<1>2. CASE b.owner = t /\ b.owners > 0
  <2>1. Cap!leave(b, t) = [b EXCEPT !.owners = b.owners - 1]
    BY <1>2 DEF Cap!leave
  <2>2. /\ Cap!leave(b, t).owner = b.owner /\ Cap!leave(b, t).owners = b.owners - 1
        /\ Cap!leave(b, t).enemy = b.enemy /\ Cap!leave(b, t).enemies = b.enemies
    BY <2>1, <1>1 DEF BaseStates
  <2>3. b.enemy # t
    BY <1>1, <1>2 DEF Sound
  <2> QED BY <2>2, <2>3, <1>1, <1>2 DEF Fits, Sizes
<1>3. CASE ~(b.owner = t /\ b.owners > 0) /\ b.enemy = t /\ b.enemies > 0
  <2>1. Cap!leave(b, t) = [b EXCEPT !.enemies = b.enemies - 1]
    BY <1>3 DEF Cap!leave
  <2>2. /\ Cap!leave(b, t).owner = b.owner /\ Cap!leave(b, t).owners = b.owners
        /\ Cap!leave(b, t).enemy = b.enemy /\ Cap!leave(b, t).enemies = b.enemies - 1
    BY <2>1, <1>1 DEF BaseStates
  <2>3. b.owner # t
    BY <1>1, <1>3 DEF Sound
  <2> QED BY <2>2, <2>3, <1>1, <1>3 DEF Fits, Sizes
<1>4. CASE ~(b.owner = t /\ b.owners > 0) /\ ~(b.enemy = t /\ b.enemies > 0)
  <2>1. Cap!leave(b, t) = b
    BY <1>4 DEF Cap!leave
  <2>2. (b.owner = t => b.owners = 0) /\ (b.enemy = t => b.enemies = 0)
    BY <1>1, <1>4
  <2> QED BY <2>1, <2>2, <1>1 DEF Fits, Sizes
<1> QED BY <1>2, <1>3, <1>4

LEMMA OccupyFits ==
  ASSUME NEW b, Good(b), NEW seconds \in Nat, b.enemy # NoTeam, b.owners = 0 \/ b.enemies = 0,
         NEW n \in Sizes, Fits(b, n)
  PROVE  Fits(Cap!occupy(b, Cap!Units(b, seconds)), n)
<1> DEFINE r == Cap!occupy(b, Cap!Units(b, seconds))
<1>1. /\ Good(r)
      /\ \/ /\ r.owner = b.owner \/ r.owner = NoTeam
            /\ r.owners = b.owners /\ r.enemies <= b.enemies
            /\ r.enemy = b.enemy \/ r.enemy = NoTeam
         \/ r.owner = b.enemy /\ r.owners = b.enemies /\ r.enemy = NoTeam /\ r.enemies = 0
  BY OccupyGood DEF Occupied
<1> HIDE DEF r
<1>2. b.owners \in Nat /\ b.enemies \in Nat /\ r.enemies \in Nat /\ r.owners \in Nat
  BY <1>1 DEF Good, BaseStates
<1>3. Fits(r, n)
  BY <1>1, <1>2, ModesAssumption DEF Fits, Sizes
<1> QED BY <1>3 DEF r

-----------------------------------------------------------------------------
(***************************************************************************)
(* The players inside                                                      *)
(***************************************************************************)
Here(p, i) == p.life = "alive" /\ i \in p.at /\ ~p.clip
InTeam(i, t) == {c \in Cns : Here(client[c], i) /\ client[c].team = t}
N(i) == [t \in Teams |-> Cardinality(InTeam(i, t))]

\* m is n with one player of team t less.
OneLess(m, n, t) == n[t] = m[t] + 1 /\ \A u \in Teams : u # t => m[u] = n[u]

LEMMA CountedInTeam ==
  ASSUME NEW i, NEW t
  PROVE  Cap!Counted(i, t) = InTeam(i, t)
BY DEF Cap!Counted, Cap!Inside, InTeam, Here

LEMMA SubsetSize ==
  ASSUME NEW S \in SUBSET Cns
  PROVE  IsFiniteSet(S) /\ Cardinality(S) \in Nat
BY ModesAssumption, FS_Subset, FS_CardinalityType

LEMMA SizesN == \A i : N(i) \in Sizes
<1> SUFFICES ASSUME NEW i PROVE N(i) \in Sizes
  OBVIOUS
<1>1. \A t \in Teams : InTeam(i, t) \in SUBSET Cns
  BY DEF InTeam
<1> QED BY <1>1, SubsetSize DEF N, Sizes

LEMMA SizesNPrime == \A i : N(i)' \in Sizes
<1> SUFFICES ASSUME NEW i PROVE N(i)' \in Sizes
  OBVIOUS
<1>1. \A t \in Teams : InTeam(i, t)' \in SUBSET Cns
  BY DEF InTeam
<1> QED BY <1>1, SubsetSize DEF N, Sizes

\* The state of player p, where it is the one of a client.
Person(p) ==
  /\ p \in Players
  /\ p.team = NoTeam <=> p.life = "off"
  /\ p.ready => p.life \in {"dead", "alive"}

Persons == client \in [Cns -> Players] /\ \A c \in Cns : Person(client[c])

LEMMA PersonFacts ==
  ASSUME NEW p, Person(p)
  PROVE  /\ p.life \in Life /\ p.team \in Team /\ p.at \subseteq Bases
         /\ p.clip \in BOOLEAN /\ p.ready \in BOOLEAN
         /\ p.life # "off" => p.team \in Teams
BY DEF Person, Players, Team

\* One player changes from p to q.
Becomes(c, q) == Person(q) /\ client' = [client EXCEPT ![c] = q]

LEMMA BecomesPersons ==
  ASSUME Persons, NEW c \in Cns, NEW q, Becomes(c, q)
  PROVE  Persons' /\ \A d \in Cns : client'[d] = IF d = c THEN q ELSE client[d]
BY DEF Persons, Becomes, Person

\* What that does to the numbers inside.
LEMMA OneChanges ==
  ASSUME Persons, NEW c \in Cns, NEW q, Becomes(c, q), NEW i \in Bases
  PROVE  LET p == client[c]
         IN  /\ ~Here(p, i) /\ ~Here(q, i) => N(i)' = N(i)
             /\ Here(p, i) /\ Here(q, i) /\ p.team = q.team => N(i)' = N(i)
             /\ Here(p, i) /\ ~Here(q, i) => OneLess(N(i)', N(i), p.team)
             /\ ~Here(p, i) /\ Here(q, i) => OneLess(N(i), N(i)', q.team)
             /\ Here(p, i) /\ Here(q, i) /\ p.team # q.team =>
                  \E m \in Sizes : OneLess(m, N(i), p.team) /\ OneLess(m, N(i)', q.team)
<1> DEFINE p == client[c]
<1>1. \A d \in Cns : client'[d] = IF d = c THEN q ELSE client[d]
  BY BecomesPersons
<1>2. /\ Here(p, i) => p.team \in Teams
      /\ Here(q, i) => q.team \in Teams
  <2>1. Person(p) /\ Person(q)
    BY DEF Persons, Becomes
  <2> QED BY <2>1, PersonFacts DEF Here
<1>3. \A t \in Teams : /\ InTeam(i, t) \in SUBSET Cns
                       /\ InTeam(i, t)' = (InTeam(i, t) \ {c}) \cup (IF Here(q, i) /\ q.team = t THEN {c} ELSE {})
                       /\ c \in InTeam(i, t) <=> Here(p, i) /\ p.team = t
  BY <1>1 DEF InTeam
<1>4. \A t \in Teams : N(i)[t] = Cardinality(InTeam(i, t)) /\ N(i)'[t] = Cardinality(InTeam(i, t)')
  BY DEF N
<1>n. N(i) \in Sizes /\ N(i)' \in Sizes
  BY SizesN, SizesNPrime
<1> HIDE DEF p
<1>5. ASSUME NEW t \in Teams, (Here(p, i) /\ p.team = t) <=> (Here(q, i) /\ q.team = t)
      PROVE  N(i)'[t] = N(i)[t]
  <2>1. InTeam(i, t)' = InTeam(i, t)
    BY <1>3, <1>5
  <2> QED BY <2>1, <1>4
<1>6. ASSUME NEW t \in Teams, Here(p, i), p.team = t, ~(Here(q, i) /\ q.team = t)
      PROVE  N(i)[t] = N(i)'[t] + 1
  <2>1. InTeam(i, t)' = InTeam(i, t) \ {c} /\ c \in InTeam(i, t)
    BY <1>3, <1>6
  <2>2. IsFiniteSet(InTeam(i, t))
    BY <1>3, SubsetSize
  <2>3. Cardinality(InTeam(i, t) \ {c}) = Cardinality(InTeam(i, t)) - 1
    BY <2>1, <2>2, FS_RemoveElement
  <2>4. Cardinality(InTeam(i, t)) \in Nat
    BY <1>3, SubsetSize
  <2>5. N(i)'[t] = Cardinality(InTeam(i, t)) - 1
    BY <2>1, <2>3, <1>4
  <2>6. N(i)[t] = Cardinality(InTeam(i, t))
    BY <1>4
  <2> QED BY <2>4, <2>5, <2>6
<1>7. ASSUME NEW t \in Teams, ~(Here(p, i) /\ p.team = t), Here(q, i), q.team = t
      PROVE  N(i)'[t] = N(i)[t] + 1
  <2>1. InTeam(i, t)' = InTeam(i, t) \cup {c} /\ c \notin InTeam(i, t)
    BY <1>3, <1>7
  <2>2. IsFiniteSet(InTeam(i, t))
    BY <1>3, SubsetSize
  <2>3. Cardinality(InTeam(i, t) \cup {c}) = Cardinality(InTeam(i, t)) + 1
    BY <2>1, <2>2, FS_AddElement
  <2> QED BY <2>1, <2>3, <1>4
<1>8. ~Here(p, i) /\ ~Here(q, i) => N(i)' = N(i)
  <2> SUFFICES ASSUME ~Here(p, i), ~Here(q, i) PROVE N(i)' = N(i)
    OBVIOUS
  <2>1. \A t \in Teams : N(i)'[t] = N(i)[t]
    BY <1>5
  <2> QED BY <2>1, <1>n DEF Sizes
<1>9. Here(p, i) /\ Here(q, i) /\ p.team = q.team => N(i)' = N(i)
  <2> SUFFICES ASSUME Here(p, i), Here(q, i), p.team = q.team PROVE N(i)' = N(i)
    OBVIOUS
  <2>1. \A t \in Teams : N(i)'[t] = N(i)[t]
    BY <1>5
  <2> QED BY <2>1, <1>n DEF Sizes
<1>10. Here(p, i) /\ ~Here(q, i) => OneLess(N(i)', N(i), p.team)
  <2> SUFFICES ASSUME Here(p, i), ~Here(q, i) PROVE OneLess(N(i)', N(i), p.team)
    OBVIOUS
  <2>1. N(i)[p.team] = N(i)'[p.team] + 1
    BY <1>2, <1>6
  <2>2. \A u \in Teams : u # p.team => N(i)'[u] = N(i)[u]
    BY <1>5
  <2> QED BY <2>1, <2>2 DEF OneLess
<1>11. ~Here(p, i) /\ Here(q, i) => OneLess(N(i), N(i)', q.team)
  <2> SUFFICES ASSUME ~Here(p, i), Here(q, i) PROVE OneLess(N(i), N(i)', q.team)
    OBVIOUS
  <2>1. N(i)'[q.team] = N(i)[q.team] + 1
    BY <1>2, <1>7
  <2>2. \A u \in Teams : u # q.team => N(i)'[u] = N(i)[u]
    BY <1>5
  <2> QED BY <2>1, <2>2 DEF OneLess
<1>12. Here(p, i) /\ Here(q, i) /\ p.team # q.team =>
         \E m \in Sizes : OneLess(m, N(i), p.team) /\ OneLess(m, N(i)', q.team)
  <2> SUFFICES ASSUME Here(p, i), Here(q, i), p.team # q.team
               PROVE  \E m \in Sizes : OneLess(m, N(i), p.team) /\ OneLess(m, N(i)', q.team)
    OBVIOUS
  <2>1. PICK s \in Teams : s = p.team
    BY <1>2
  <2>2. PICK t \in Teams : t = q.team /\ t # s
    BY <1>2, <2>1
  <2>3. N(i)[s] = N(i)'[s] + 1 /\ N(i)'[t] = N(i)[t] + 1
    BY <2>1, <2>2, <1>6, <1>7
  <2>4. \A u \in Teams : u # s /\ u # t => N(i)'[u] = N(i)[u]
    BY <2>1, <2>2, <1>5
  <2> DEFINE m == [N(i) EXCEPT ![s] = N(i)'[s]]
  <2>5. m \in Sizes /\ m[s] = N(i)'[s] /\ \A u \in Teams : u # s => m[u] = N(i)[u]
    BY <1>n DEF Sizes
  <2> HIDE DEF m
  <2>6. OneLess(m, N(i), s)
    BY <2>3, <2>5 DEF OneLess
  <2>7. OneLess(m, N(i)', t)
    BY <2>2, <2>3, <2>4, <2>5 DEF OneLess
  <2> QED BY <2>1, <2>2, <2>5, <2>6, <2>7
<1> QED BY <1>8, <1>9, <1>10, <1>11, <1>12 DEF p

-----------------------------------------------------------------------------
(***************************************************************************)
(* Capture: the bases follow the players                                   *)
(***************************************************************************)
GoodBases == bases \in [Bases -> BaseStates] /\ \A i \in Bases : Good(bases[i])
Counts == ~over /\ ~drift => \A i \in Bases : Fits(bases[i], N(i))
CapInv == GoodBases /\ drift \in BOOLEAN /\ Idle /\ Counts

\* How a base follows the change of one player from p to q.
Follows(p, q, i) ==
  /\ ~Here(p, i) /\ ~Here(q, i) => bases'[i] = bases[i]
  /\ Here(p, i) /\ ~Here(q, i) => bases'[i] = Cap!leave(bases[i], p.team)
  /\ ~Here(p, i) /\ Here(q, i) => bases'[i] = Cap!enter(bases[i], q.team)
  /\ Here(p, i) /\ Here(q, i) /\ p.team = q.team =>
       \/ bases'[i] = bases[i]
       \/ \E n \in Nat : /\ p.team # bases[i].owner
                         /\ n <= N(i)[p.team]
                         /\ bases'[i] = Cap!Attack(bases[i], p.team, n)
  /\ Here(p, i) /\ Here(q, i) /\ p.team # q.team =>
       bases'[i] = Cap!enter(Cap!leave(bases[i], p.team), q.team)

SameMatch == UNCHANGED <<smode, over, notgotbases>> /\ gamepaused' \in {gamepaused, FALSE}

LEMMA Followed ==
  ASSUME Persons, CapInv, SameMatch, NEW c \in Cns, NEW q, Becomes(c, q),
         GoodBases', drift' \in BOOLEAN, drift => drift',
         smode = "collect" \/ notgotbases => bases' = bases,
         (smode = "capture" /\ ~notgotbases /\ ~over /\ ~drift') =>
            \A i \in Bases : Follows(client[c], q, i),
         smode \in Smodes
  PROVE  CapInv'
<1>1. Idle'
  BY DEF CapInv, Idle, SameMatch
<1>2. Counts'
  <2> SUFFICES ASSUME ~over, ~drift', NEW i \in Bases PROVE Fits(bases'[i], N(i)')
    BY DEF Counts, SameMatch
  <2> DEFINE p == client[c]
             b == bases[i]
  <2>0. Good(b) /\ Fits(b, N(i)) /\ N(i) \in Sizes /\ N(i)' \in Sizes
    BY SizesN, SizesNPrime DEF CapInv, GoodBases, Counts
  <2>1. CASE smode = "collect" \/ notgotbases
    <3>1. bases'[i].owners = 0 /\ bases'[i].enemies = 0
      BY <2>1 DEF CapInv, Idle
    <3> QED BY <3>1, <2>0 DEF Fits, Sizes
  <2>2. CASE smode = "capture" /\ ~notgotbases
    <3>1. Follows(p, q, i)
      BY <2>2
    <3>2. Person(p) /\ Person(q)
      BY DEF Persons, Becomes
    <3>3. /\ Here(p, i) => p.team \in Teams
          /\ Here(q, i) => q.team \in Teams
      BY <3>2, PersonFacts DEF Here
    <3>4. /\ ~Here(p, i) /\ ~Here(q, i) => N(i)' = N(i)
          /\ Here(p, i) /\ Here(q, i) /\ p.team = q.team => N(i)' = N(i)
          /\ Here(p, i) /\ ~Here(q, i) => OneLess(N(i)', N(i), p.team)
          /\ ~Here(p, i) /\ Here(q, i) => OneLess(N(i), N(i)', q.team)
          /\ Here(p, i) /\ Here(q, i) /\ p.team # q.team =>
               \E m \in Sizes : OneLess(m, N(i), p.team) /\ OneLess(m, N(i)', q.team)
      BY OneChanges
    <3> HIDE DEF p, b
    <3>5. CASE ~Here(p, i) /\ ~Here(q, i)
      BY <3>1, <3>4, <3>5, <2>0 DEF Follows, b
    <3>6. CASE Here(p, i) /\ ~Here(q, i)
      <4>1. bases'[i] = Cap!leave(b, p.team) /\ OneLess(N(i)', N(i), p.team) /\ p.team \in Teams
        BY <3>1, <3>3, <3>4, <3>6 DEF Follows, b
      <4> QED BY <4>1, <2>0, LeaveFits DEF OneLess
    <3>7. CASE ~Here(p, i) /\ Here(q, i)
      <4>1. bases'[i] = Cap!enter(b, q.team) /\ OneLess(N(i), N(i)', q.team) /\ q.team \in Teams
        BY <3>1, <3>3, <3>4, <3>7 DEF Follows, b
      <4>2. \A u \in Teams : u # q.team => N(i)'[u] = N(i)[u]
        BY <4>1 DEF OneLess
      <4> QED BY <4>1, <4>2, <2>0, EnterFits DEF OneLess
    <3>8. CASE Here(p, i) /\ Here(q, i) /\ p.team = q.team
      <4>1. N(i)' = N(i) /\ p.team \in Teams
        BY <3>3, <3>4, <3>8
      <4>2. \/ bases'[i] = b
            \/ \E n \in Nat : p.team # b.owner /\ n <= N(i)[p.team] /\ bases'[i] = Cap!Attack(b, p.team, n)
        BY <3>1, <3>8 DEF Follows, b
      <4>3. CASE bases'[i] = b
        BY <4>1, <4>3, <2>0
      <4>4. CASE \E n \in Nat : p.team # b.owner /\ n <= N(i)[p.team] /\ bases'[i] = Cap!Attack(b, p.team, n)
        BY <4>1, <4>4, <2>0, AttackFits
      <4> QED BY <4>2, <4>3, <4>4
    <3>9. CASE Here(p, i) /\ Here(q, i) /\ p.team # q.team
      <4>1. PICK m \in Sizes : OneLess(m, N(i), p.team) /\ OneLess(m, N(i)', q.team)
        BY <3>4, <3>9
      <4> DEFINE r == Cap!leave(b, p.team)
      <4>2. bases'[i] = Cap!enter(r, q.team) /\ p.team \in Teams /\ q.team \in Teams
        BY <3>1, <3>3, <3>9 DEF Follows, b
      <4>3. Good(r)
        BY <4>2, <2>0, LeaveGood
      <4>4. Fits(r, m)
        BY <4>1, <4>2, <2>0, LeaveFits DEF OneLess
      <4>5. \A u \in Teams : u # q.team => N(i)'[u] = m[u]
        BY <4>1 DEF OneLess
      <4> HIDE DEF r
      <4> QED BY <4>1, <4>2, <4>3, <4>4, <4>5, <2>0, EnterFits DEF OneLess
    <3> QED BY <3>5, <3>6, <3>7, <3>8, <3>9
  <2> QED BY <2>1, <2>2 DEF Smodes
<1> QED BY <1>1, <1>2 DEF CapInv

\* Cardinality is the one of FiniteSets in Capture too.
LEMMA SameCardinality == \A S : Cap!Cardinality(S) = Cardinality(S)
BY DEF Cap!Cardinality, Cardinality

\* What a hook does when client c becomes q.
Kept(c, q) ==
  /\ GoodBases' /\ drift' \in BOOLEAN /\ (drift => drift')
  /\ notgotbases => bases' = bases
  /\ ~notgotbases /\ ~over /\ ~drift' => \A i \in Bases : Follows(client[c], q, i)

LEMMA Moving ==
  ASSUME GoodBases, NEW t \in Teams, NEW old, NEW oldclip \in BOOLEAN, NEW new, NEW newclip \in BOOLEAN,
         NEW i \in Bases
  PROVE  LET f == Cap!movebases(t, old, oldclip, new, newclip)
             leaves == ~oldclip /\ i \in old
             enters == ~newclip /\ i \in new
         IN  /\ Good(f[i])
             /\ over => f[i] = bases[i]
             /\ ~over /\ leaves /\ ~enters => f[i] = Cap!leave(bases[i], t)
             /\ ~over /\ ~leaves /\ enters => f[i] = Cap!enter(bases[i], t)
             /\ ~leaves /\ ~enters => f[i] = bases[i]
             /\ ~over /\ leaves /\ enters =>
                  \/ f[i] = bases[i]
                  \/ /\ Cap!steal(bases[i], t)
                     /\ f[i] = Cap!Attack(bases[i], t, Cardinality(Cap!Inside(i, t)))
<1> DEFINE f == Cap!movebases(t, old, oldclip, new, newclip)
           leaves == ~oldclip /\ i \in old
           enters == ~newclip /\ i \in new
           a == Cap!Attack(bases[i], t, Cardinality(Cap!Inside(i, t)))
<1>1. /\ over => f[i] = bases[i]
      /\ ~over /\ leaves /\ ~enters => f[i] = Cap!leave(bases[i], t)
      /\ ~over /\ ~leaves /\ enters => f[i] = Cap!enter(bases[i], t)
      /\ ~over /\ ~leaves /\ ~enters => f[i] = bases[i]
      /\ ~over /\ leaves /\ enters =>
           f[i] = IF Cap!steal(bases[i], t) THEN Cap!stealbase(i, t) ELSE bases[i]
  BY DEF Cap!movebases
<1>2. Cap!stealbase(i, t) = a
  BY SameCardinality DEF Cap!stealbase
<1>3. Good(bases[i])
  BY DEF GoodBases
<1>4. Cap!steal(bases[i], t) => Good(a)
  <2>1. Cap!Inside(i, t) \in SUBSET Cns
    BY DEF Cap!Inside
  <2>2. Cardinality(Cap!Inside(i, t)) \in Nat
    BY <2>1, SubsetSize
  <2>3. Cap!steal(bases[i], t) => t # bases[i].owner
    BY DEF Cap!steal
  <2> QED BY <2>2, <2>3, <1>3, AttackGood
<1>5. Good(Cap!leave(bases[i], t)) /\ Good(Cap!enter(bases[i], t))
  BY <1>3, LeaveGood, EnterGood
<1> HIDE DEF f, leaves, enters, a
<1>6. ~over /\ leaves /\ enters => f[i] = bases[i] \/ (Cap!steal(bases[i], t) /\ f[i] = a)
  BY <1>1, <1>2
<1>7. Good(f[i])
  BY <1>1, <1>3, <1>4, <1>5, <1>6
<1>8. ~leaves /\ ~enters => f[i] = bases[i]
  BY <1>1
<1> QED BY <1>1, <1>6, <1>7, <1>8 DEF f, leaves, enters, a

LEMMA MovingTyped ==
  ASSUME GoodBases, NEW t \in Teams, NEW old, NEW oldclip \in BOOLEAN, NEW new, NEW newclip \in BOOLEAN,
         bases' = Cap!movebases(t, old, oldclip, new, newclip)
  PROVE  GoodBases'
<1>1. \A i \in Bases : Good(bases'[i])
  BY Moving
<1>2. bases' = [i \in Bases |-> bases'[i]]
  BY DEF Cap!movebases
<1> QED BY <1>1, <1>2 DEF GoodBases, Good

\* No hook, and the player is in no base.
LEMMA OutsideKept ==
  ASSUME CapInv, NEW c \in Cns, NEW q, UNCHANGED <<bases, drift>>,
         \A i \in Bases : ~Here(client[c], i) /\ ~Here(q, i)
  PROVE  Kept(c, q)
<1>1. \A i \in Bases : Follows(client[c], q, i)
  BY DEF Follows
<1>2. GoodBases'
  BY DEF CapInv, GoodBases
<1> QED BY <1>1, <1>2 DEF Kept, CapInv

\* died and leavegame: the player who was in a base leaves it.
LEMMA LeavingKept ==
  ASSUME Persons, CapInv, NEW c \in Cns, NEW q, q.life # "alive",
         Cap!leavegame(c) \/ (Cap!died(c) /\ client[c].life = "alive")
  PROVE  Kept(c, q)
<1> DEFINE p == client[c]
<1>q. \A i : ~Here(q, i)
  BY DEF Here
<1>1. CASE notgotbases \/ p.life # "alive" \/ p.clip
  <2>1. bases' = bases /\ drift' = drift
    BY <1>1 DEF Cap!leavegame, Cap!died
  <2>2. GoodBases'
    BY <2>1 DEF CapInv, GoodBases
  <2>3. ~notgotbases => \A i \in Bases : Follows(p, q, i)
    BY <1>1, <1>q, <2>1 DEF Follows, Here
  <2> QED BY <2>1, <2>2, <2>3 DEF Kept, CapInv
<1>2. CASE ~(notgotbases \/ p.life # "alive" \/ p.clip)
  <2>0. p.team \in Teams /\ GoodBases
    BY <1>2, PersonFacts DEF Persons, CapInv
  <2>1. bases' = Cap!movebases(p.team, p.at, FALSE, {}, TRUE) /\ drift' = drift
    BY <1>2 DEF Cap!leavegame, Cap!died, Cap!leavebases
  <2>2. GoodBases'
    BY <2>0, <2>1, MovingTyped
  <2>3. ~over => \A i \in Bases : Follows(p, q, i)
    <3> SUFFICES ASSUME ~over, NEW i \in Bases PROVE Follows(p, q, i)
      OBVIOUS
    <3>1. bases'[i] = IF i \in p.at THEN Cap!leave(bases[i], p.team) ELSE bases[i]
      BY <2>1 DEF Cap!movebases
    <3>2. Here(p, i) <=> i \in p.at
      BY <1>2 DEF Here
    <3> QED BY <3>1, <3>2, <1>q DEF Follows
  <2> QED BY <1>2, <2>1, <2>2, <2>3 DEF Kept, CapInv
<1> QED BY <1>1, <1>2

\* spawned: a player who was not alive enters.
LEMMA SpawnKept ==
  ASSUME Persons, CapInv, NEW c \in Cns, NEW q, Cap!spawned(c),
         client[c].life # "off", client[c].life = "alive" => drift, q.life = "alive",
         q.team = client[c].team, q.at = client[c].at, q.clip = client[c].clip
  PROVE  Kept(c, q)
<1> DEFINE p == client[c]
<1>p. ~drift => \A i : ~Here(p, i)
  BY DEF Here
<1>1. CASE notgotbases \/ p.clip
  <2>1. bases' = bases /\ drift' = drift
    BY <1>1 DEF Cap!spawned
  <2>2. GoodBases'
    BY <2>1 DEF CapInv, GoodBases
  <2>3. ~notgotbases /\ ~drift => \A i \in Bases : Follows(p, q, i)
    BY <1>1, <1>p, <2>1 DEF Follows, Here
  <2> QED BY <2>1, <2>2, <2>3 DEF Kept, CapInv
<1>2. CASE ~(notgotbases \/ p.clip)
  <2>0. p.team \in Teams /\ GoodBases
    BY <1>2, PersonFacts DEF Persons, CapInv
  <2>1. bases' = Cap!movebases(p.team, {}, TRUE, p.at, FALSE) /\ drift' = drift
    BY <1>2 DEF Cap!spawned, Cap!enterbases
  <2>2. GoodBases'
    BY <2>0, <2>1, MovingTyped
  <2>3. ~over /\ ~drift => \A i \in Bases : Follows(p, q, i)
    <3> SUFFICES ASSUME ~over, ~drift, NEW i \in Bases PROVE Follows(p, q, i)
      OBVIOUS
    <3>1. bases'[i] = IF i \in p.at THEN Cap!enter(bases[i], p.team) ELSE bases[i]
      BY <2>1 DEF Cap!movebases
    <3>2. Here(q, i) <=> i \in p.at
      BY <1>2 DEF Here
    <3> QED BY <3>1, <3>2, <1>p DEF Follows
  <2> QED BY <1>2, <2>1, <2>2, <2>3 DEF Kept, CapInv
<1> QED BY <1>1, <1>2

\* moved: a base is left, entered, stolen or none of it.
LEMMA MovedKept ==
  ASSUME Persons, CapInv, NEW c \in Cns, NEW at, NEW clip \in BOOLEAN, Cap!moved(c, at, clip),
         NEW q, client[c].life = "alive", q.life = "alive", q.team = client[c].team,
         q.at = at, q.clip = clip
  PROVE  Kept(c, q)
<1> DEFINE p == client[c]
<1>0. p.team \in Teams /\ p.clip \in BOOLEAN /\ GoodBases /\ drift \in BOOLEAN
  BY PersonFacts DEF Persons, CapInv
<1>d. /\ drift' \in BOOLEAN /\ (drift => drift')
      /\ ~drift' => ~\E i \in p.at \cap at :
                       /\ ~over /\ ~notgotbases /\ ~clip /\ ~p.clip
                       /\ Cap!steal(bases[i], p.team)
                       /\ Cap!Inside(i, p.team) # Cap!Counted(i, p.team)
  BY <1>0 DEF Cap!moved
<1>1. CASE notgotbases
  <2>1. bases' = bases
    BY <1>1 DEF Cap!moved
  <2>2. GoodBases'
    BY <2>1, <1>0 DEF GoodBases
  <2> QED BY <1>1, <1>d, <2>1, <2>2 DEF Kept
<1>2. CASE ~notgotbases
  <2>1. bases' = Cap!movebases(p.team, p.at, p.clip, at, clip)
    BY <1>2 DEF Cap!moved
  <2>2. GoodBases'
    BY <2>1, <1>0, MovingTyped
  <2>3. ASSUME ~over, ~drift', NEW i \in Bases PROVE Follows(p, q, i)
    <3>1. (Here(p, i) <=> ~p.clip /\ i \in p.at) /\ (Here(q, i) <=> ~clip /\ i \in at)
      BY DEF Here
    <3>2. /\ Here(p, i) /\ ~Here(q, i) => bases'[i] = Cap!leave(bases[i], p.team)
          /\ ~Here(p, i) /\ Here(q, i) => bases'[i] = Cap!enter(bases[i], p.team)
          /\ ~Here(p, i) /\ ~Here(q, i) => bases'[i] = bases[i]
          /\ Here(p, i) /\ Here(q, i) =>
               \/ bases'[i] = bases[i]
               \/ /\ Cap!steal(bases[i], p.team)
                  /\ bases'[i] = Cap!Attack(bases[i], p.team, Cardinality(Cap!Inside(i, p.team)))
      BY <2>1, <2>3, <3>1, <1>0, Moving
    <3>3. ASSUME Here(p, i), Here(q, i), Cap!steal(bases[i], p.team)
          PROVE  /\ p.team # bases[i].owner
                 /\ Cardinality(Cap!Inside(i, p.team)) \in Nat
                 /\ Cardinality(Cap!Inside(i, p.team)) <= N(i)[p.team]
      <4>1. p.team # bases[i].owner
        BY <3>3 DEF Cap!steal
      <4>2. Cap!Inside(i, p.team) = InTeam(i, p.team)
        <5>1. Cap!Inside(i, p.team) = Cap!Counted(i, p.team)
          BY <1>2, <1>d, <2>3, <3>1, <3>3
        <5> QED BY <5>1, CountedInTeam
      <4>3. N(i)[p.team] = Cardinality(InTeam(i, p.team)) /\ N(i)[p.team] \in Nat
        BY <1>0, SizesN DEF N, Sizes
      <4> QED BY <4>1, <4>2, <4>3
    <3> QED BY <3>2, <3>3 DEF Follows
  <2> QED BY <1>2, <1>d, <2>2, <2>3 DEF Kept
<1> QED BY <1>1, <1>2

\* changeteam: the player leaves the bases for one team, enters for the other.
LEMMA TeamKept ==
  ASSUME Persons, CapInv, NEW c \in Cns, NEW t \in Teams, t # client[c].team, Cap!changeteam(c, t),
         NEW q, client[c].life = "alive", q.life = "alive", q.team = t,
         q.at = client[c].at, q.clip = client[c].clip
  PROVE  Kept(c, q)
<1> DEFINE p == client[c]
           left == Cap!leavebases(c)
<1>0. p.team \in Teams /\ p.clip \in BOOLEAN /\ GoodBases /\ drift \in BOOLEAN
  BY PersonFacts DEF Persons, CapInv
<1>1. CASE notgotbases \/ p.clip \/ over
  <2>1. bases' = bases /\ drift' = drift
    BY <1>1 DEF Cap!changeteam
  <2>2. GoodBases'
    BY <2>1, <1>0 DEF GoodBases
  <2>3. ~notgotbases /\ ~over => \A i \in Bases : Follows(p, q, i)
    BY <1>1, <2>1 DEF Follows, Here
  <2> QED BY <1>0, <2>1, <2>2, <2>3 DEF Kept
<1>2. CASE ~(notgotbases \/ p.clip \/ over)
  <2>1. /\ bases' = [i \in Bases |-> IF i \in p.at THEN Cap!enter(left[i], t) ELSE left[i]]
        /\ drift' = drift
    BY <1>2 DEF Cap!changeteam
  <2>2. left = Cap!movebases(p.team, p.at, FALSE, {}, TRUE)
    BY DEF Cap!leavebases
  <2> HIDE DEF left
  <2>3. ASSUME NEW i \in Bases
        PROVE  /\ Good(left[i])
               /\ i \in p.at => left[i] = Cap!leave(bases[i], p.team)
               /\ i \notin p.at => left[i] = bases[i]
    <3>1. left[i] = IF i \in p.at THEN Cap!leave(bases[i], p.team) ELSE bases[i]
      BY <1>2, <2>2 DEF Cap!movebases
    <3>2. Good(bases[i])
      BY <1>0 DEF GoodBases
    <3> QED BY <3>1, <3>2, <1>0, LeaveGood
  <2>4. \A i \in Bases : Good(bases'[i])
    BY <2>1, <2>3, EnterGood
  <2>5. GoodBases'
    BY <2>1, <2>4 DEF GoodBases, Good
  <2>6. ASSUME NEW i \in Bases PROVE Follows(p, q, i)
    <3>1. (Here(p, i) <=> i \in p.at) /\ (Here(q, i) <=> i \in p.at)
      BY <1>2 DEF Here
    <3>2. /\ i \in p.at => bases'[i] = Cap!enter(Cap!leave(bases[i], p.team), t)
          /\ i \notin p.at => bases'[i] = bases[i]
      BY <2>1, <2>3
    <3> QED BY <3>1, <3>2 DEF Follows
  <2> QED BY <1>0, <1>2, <2>1, <2>5, <2>6 DEF Kept
<1> QED BY <1>1, <1>2

\* A script acts behind the mode's back: drift is set if the player was counted.
LEMMA UnhookedKept ==
  ASSUME Persons, CapInv, NEW c \in Cns, Cap!Unhooked(c), client[c].life = "alive",
         NEW q, q.life = "alive" => q.at = client[c].at /\ q.clip = client[c].clip
  PROVE  Kept(c, q)
<1> DEFINE p == client[c]
<1>0. p.team \in Teams /\ GoodBases /\ drift \in BOOLEAN
  BY PersonFacts DEF Persons, CapInv
<1>1. /\ bases' = bases /\ drift' \in BOOLEAN /\ (drift => drift')
      /\ ~drift' => \A i \in Bases : c \notin Cap!Counted(i, p.team)
  BY <1>0 DEF Cap!Unhooked
<1>2. GoodBases'
  BY <1>0, <1>1 DEF GoodBases
<1>3. ASSUME ~drift', NEW i \in Bases PROVE Follows(p, q, i)
  <2>1. c \notin InTeam(i, p.team)
    BY <1>1, <1>3, CountedInTeam
  <2>2. ~Here(p, i)
    BY <2>1 DEF InTeam
  <2>3. ~Here(q, i)
    BY <2>2 DEF Here
  <2> QED BY <2>2, <2>3, <1>1 DEF Follows
<1> QED BY <1>1, <1>2, <1>3 DEF Kept

-----------------------------------------------------------------------------
(***************************************************************************)
(* Collect: the tokens                                                     *)
(***************************************************************************)
TokTypes ==
  /\ tokens \in [Col!Kinds -> Nat] /\ held \in [Cns -> 0..TOKENLIMIT]
  /\ scores \in [BaseTeams -> Nat]
NoTokens == smode = "capture" => \A k \in Col!Kinds : tokens[k] = 0
TokInv == TokTypes /\ NoTokens /\ TokenRefsLive

\* A living player who is about to spawn again is a bot that was handed over.
Armed(p) == smode = "capture" /\ p.life = "alive" /\ p.ready

IInv ==
  /\ smode \in Smodes /\ over \in BOOLEAN /\ notgotbases \in BOOLEAN /\ gamepaused \in BOOLEAN
  /\ Persons /\ CapInv /\ TokInv
  /\ \A c \in Cns : Armed(client[c]) => drift

\* The teams as collect tells them.
Sides == BaseTeams \cup {NoBase}

LEMMA BaseSide == \A c : Col!Base(c) \in Sides
BY DEF Col!Base, Col!collectteambase, Sides

LEMMA KindTyped ==
  ASSUME NEW t \in Sides, NEW foe \in BOOLEAN, NEW d \in Col!Droppers
  PROVE  Col!Kind(t, foe, d) \in Col!Kinds /\ Col!Kind(t, foe, d).dropper = d
<1>1. CASE t \in BaseTeams
  BY <1>1, ModesAssumption DEF Col!Kind, Col!Kinds
<1>2. CASE t = NoBase
  BY <1>2 DEF Col!Kind, Col!Kinds
<1> QED BY <1>1, <1>2 DEF Sides

LEMMA OtherDropper ==
  ASSUME NEW k \in Col!Kinds, NEW d \in Col!Droppers
  PROVE  [k EXCEPT !.dropper = d] \in Col!Kinds
BY DEF Col!Kinds

LEMMA DroppersAre ==
  /\ Cns \subseteq Col!Droppers /\ BaseTeams \subseteq Col!Droppers /\ Unowned \in Col!Droppers
  /\ \A k \in Col!Kinds : k.dropper \in Cns \cup BaseTeams \cup {Unowned}
BY DEF Col!Droppers, Col!Kinds

\* The tokens there are after client c has become q.
TokKept(c, q) ==
  /\ TokTypes'
  /\ \A k \in Col!Kinds : tokens'[k] > 0 =>
       \/ k.dropper \in BaseTeams \cup {Unowned}
       \/ k.dropper = c /\ q.life # "off"
       \/ k.dropper # c /\ tokens[k] > 0

\* Limited only takes tokens away.
LEMMA LimitedTakes ==
  ASSUME NEW bag \in [Col!Kinds -> Nat], NEW d, NEW t, NEW friendly, NEW enemy,
         NEW r \in Col!Limited(bag, d, t, friendly, enemy)
  PROVE  r \in [Col!Kinds -> Nat] /\ \A k \in Col!Kinds : r[k] <= bag[k]
<1> DEFINE F == {k \in Col!Of(d) : Col!Friendly(k, t)}
           E == {k \in Col!Of(d) : ~Col!Friendly(k, t)}
<1>1. PICK f \in Col!Trims(bag, F, friendly), e \in Col!Trims(bag, E, enemy) :
        r = Col!Override(Col!Override(bag, f), e)
  BY DEF Col!Limited
<1>2. F \subseteq Col!Kinds /\ E \subseteq Col!Kinds
  BY DEF Col!Of
<1> HIDE DEF F, E
<1>3. ASSUME NEW S \in SUBSET Col!Kinds, NEW n, NEW g \in Col!Trims(bag, S, n)
      PROVE  DOMAIN g = S /\ \A k \in S : g[k] \in Nat /\ g[k] <= bag[k]
  <2>1. g \in {[k \in S |-> bag[k]]} \/ (g \in [S -> 0..n] /\ \A k \in S : g[k] <= bag[k])
    BY <1>3 DEF Col!Trims
  <2>2. CASE g = [k \in S |-> bag[k]]
    BY <2>2
  <2>3. CASE g \in [S -> 0..n] /\ \A k \in S : g[k] <= bag[k]
    BY <2>3
  <2> QED BY <2>1, <2>2, <2>3
<1>4. /\ DOMAIN f = F /\ \A k \in F : f[k] \in Nat /\ f[k] <= bag[k]
      /\ DOMAIN e = E /\ \A k \in E : e[k] \in Nat /\ e[k] <= bag[k]
  BY <1>2, <1>3
<1>5. r = [k \in Col!Kinds |-> IF k \in E THEN e[k] ELSE IF k \in F THEN f[k] ELSE bag[k]]
  BY <1>1, <1>4 DEF Col!Override
<1> QED BY <1>4, <1>5

LEMMA DropKept ==
  ASSUME Persons, TokInv, NEW c \in Cns, NEW penalty \in BOOLEAN, Col!droptokens(c, penalty),
         client[c].life = "alive", NEW q, q.life # "off"
  PROVE  TokKept(c, q)
<1> DEFINE n == IF penalty THEN 0 ELSE held[c]
           t == Col!Base(c)
           a == Col!Kind(t, FALSE, c)
           b == Col!Kind(t, TRUE, c)
<1>t. TokTypes /\ t \in Sides
  BY BaseSide DEF TokInv
<1>1. CASE notgotbases
  <2>1. UNCHANGED <<tokens, held, scores>>
    BY <1>1 DEF Col!droptokens, Col!vars
  <2> QED BY <2>1, <1>t DEF TokKept, TokTypes
<1>2. CASE ~notgotbases
  <2>1. /\ \E r \in Col!Limited(tokens, c, t, TOKENLIMIT - 1, TOKENLIMIT - n) : tokens' = Col!Dropped(r, c, n)
        /\ held' = [held EXCEPT ![c] = 0] /\ scores' = scores
    BY <1>2 DEF Col!droptokens
  <2>2. PICK r \in Col!Limited(tokens, c, t, TOKENLIMIT - 1, TOKENLIMIT - n) : tokens' = Col!Dropped(r, c, n)
    BY <2>1
  <2>3. n \in Nat
    BY <1>t, ModesAssumption DEF TokTypes
  <2>4. r \in [Col!Kinds -> Nat] /\ \A k \in Col!Kinds : r[k] <= tokens[k]
    BY <1>t, LimitedTakes DEF TokTypes
  <2>5. tokens' = [[r EXCEPT ![a] = r[a] + 1] EXCEPT ![b] = @ + n]
    BY <2>2 DEF Col!Dropped
  <2>6. a \in Col!Kinds /\ b \in Col!Kinds /\ a.dropper = c /\ b.dropper = c
    BY <1>t, KindTyped, DroppersAre
  <2> HIDE DEF a, b, n
  <2>7. tokens' \in [Col!Kinds -> Nat] /\ \A k \in Col!Kinds : k # a /\ k # b => tokens'[k] = r[k]
    BY <2>3, <2>4, <2>5, <2>6
  <2>8. held' \in [Cns -> 0..TOKENLIMIT] /\ scores' \in [BaseTeams -> Nat]
    BY <1>t, <2>1, ModesAssumption DEF TokTypes
  <2>9. ASSUME NEW k \in Col!Kinds, tokens'[k] > 0
        PROVE  k.dropper = c \/ tokens[k] > 0
    <3>1. CASE k = a \/ k = b
      BY <3>1, <2>6
    <3>2. CASE k # a /\ k # b
      <4>1. tokens'[k] = r[k] /\ r[k] <= tokens[k] /\ r[k] \in Nat /\ tokens[k] \in Nat
        BY <3>2, <2>4, <2>7, <1>t DEF TokTypes
      <4> QED BY <4>1, <2>9
    <3> QED BY <3>1, <3>2
  <2> QED BY <2>7, <2>8, <2>9 DEF TokKept, TokTypes
<1> QED BY <1>1, <1>2

LEMMA LeaveServerKept ==
  ASSUME Persons, TokInv, NEW c \in Cns, Col!leaveserver(c), NEW q
  PROVE  TokKept(c, q)
<1>t. TokTypes
  BY DEF TokInv
<1> DEFINE D == Col!Disowned(c)
<1>1. /\ held' = [held EXCEPT ![c] = 0] /\ scores' = scores
      /\ tokens' \in Col!Limited(D, Unowned, Col!Base(c), UNOWNEDTOKENLIMIT, UNOWNEDTOKENLIMIT)
  BY DEF Col!leaveserver
<1>2. c # Unowned
  BY ModesAssumption
<1>3. D \in [Col!Kinds -> Nat] /\ \A k \in Col!Kinds : D[k] > 0 => k.dropper # c /\ (k.dropper = Unowned \/ tokens[k] > 0)
  <2>1. \A k \in Col!Kinds : [k EXCEPT !.dropper = c] \in Col!Kinds
    BY OtherDropper, DroppersAre
  <2>2. ASSUME NEW k \in Col!Kinds
        PROVE  /\ D[k] \in Nat
               /\ k.dropper = c => D[k] = 0
               /\ k.dropper # c /\ k.dropper # Unowned => D[k] = tokens[k]
    <3>1. tokens[k] \in Nat /\ tokens[[k EXCEPT !.dropper = c]] \in Nat
      BY <2>1, <1>t DEF TokTypes
    <3>2. CASE k.dropper = c
      BY <3>2, <1>2 DEF Col!Disowned
    <3>3. CASE k.dropper # c /\ k.dropper = Unowned
      <4>1. D[k] = tokens[k] + tokens[[k EXCEPT !.dropper = c]]
        BY <3>3 DEF Col!Disowned
      <4> QED BY <3>1, <3>3, <4>1
    <3>4. CASE k.dropper # c /\ k.dropper # Unowned
      BY <3>1, <3>4 DEF Col!Disowned
    <3> QED BY <3>2, <3>3, <3>4
  <2>3. D = [k \in Col!Kinds |-> D[k]]
    BY DEF Col!Disowned
  <2> HIDE DEF D
  <2>4. D \in [Col!Kinds -> Nat]
    BY <2>2, <2>3
  <2> QED BY <2>2, <2>4
<1> HIDE DEF D
<1>4. tokens' \in [Col!Kinds -> Nat] /\ \A k \in Col!Kinds : tokens'[k] <= D[k]
  BY <1>1, <1>3, LimitedTakes
<1>5. ASSUME NEW k \in Col!Kinds, tokens'[k] > 0
      PROVE  k.dropper \in BaseTeams \cup {Unowned} \/ (k.dropper # c /\ tokens[k] > 0)
  <2>1. D[k] > 0
    BY <1>3, <1>4, <1>5
  <2> QED BY <2>1, <1>3
<1>6. held' \in [Cns -> 0..TOKENLIMIT] /\ scores' \in [BaseTeams -> Nat]
  BY <1>t, <1>1, ModesAssumption DEF TokTypes
<1> QED BY <1>4, <1>5, <1>6 DEF TokKept, TokTypes

\* The tokens stay as they are, whatever becomes of what a player holds.
LEMMA SameTokensKept ==
  ASSUME TokInv, NEW c \in Cns, NEW q, q.life # "off", tokens' = tokens, scores' = scores,
         held' = held \/ held' = [held EXCEPT ![c] = 0]
  PROVE  TokKept(c, q) /\ TokTypes'
<1>1. TokTypes
  BY DEF TokInv
<1>2. held' \in [Cns -> 0..TOKENLIMIT]
  BY <1>1, ModesAssumption DEF TokTypes
<1> QED BY <1>1, <1>2 DEF TokKept, TokTypes

\* The hooks, or none, when client c becomes q.
Hook(c, q) ==
  \/ smode = "capture" /\ Kept(c, q) /\ tokens' = tokens /\ TokTypes'
  \/ smode = "collect" /\ UNCHANGED <<bases, drift>> /\ TokKept(c, q)

\* A step of one player keeps the invariant.
LEMMA PlayerStep ==
  ASSUME IInv, NEW c \in Cns, NEW q, Becomes(c, q), SameMatch, Hook(c, q), Armed(q) => drift'
  PROVE  IInv'
<1>1. smode \in Smodes /\ Persons /\ CapInv /\ TokInv
  BY DEF IInv
<1>2. Persons' /\ \A d \in Cns : client'[d] = IF d = c THEN q ELSE client[d]
  BY <1>1, BecomesPersons
<1>3. CapInv'
  <2>1. CASE smode = "capture" /\ Kept(c, q)
    BY <2>1, <1>1, Followed DEF Kept
  <2>2. CASE smode = "collect" /\ UNCHANGED <<bases, drift>>
    <3>1. GoodBases' /\ drift' \in BOOLEAN
      BY <2>2, <1>1 DEF CapInv, GoodBases
    <3> QED BY <2>2, <3>1, <1>1, Followed
  <2> QED BY <2>1, <2>2 DEF Hook
<1>4. TokInv'
  <2>1. CASE smode = "capture" /\ tokens' = tokens /\ TokTypes'
    <3>1. \A k \in Col!Kinds : tokens'[k] = 0
      BY <2>1, <1>1 DEF TokInv, NoTokens
    <3>2. NoTokens' /\ TokenRefsLive'
      BY <3>1 DEF NoTokens, TokenRefsLive
    <3> QED BY <2>1, <3>2 DEF TokInv
  <2>2. CASE smode = "collect" /\ TokKept(c, q)
    <3>1. NoTokens'
      BY <2>2 DEF NoTokens, SameMatch
    <3>2. ASSUME NEW k \in Col!Kinds, tokens'[k] > 0
          PROVE  k.dropper \in BaseTeams \cup {Unowned} \/ client'[k.dropper].life # "off"
      <4>1. k.dropper \in Cns \cup BaseTeams \cup {Unowned}
        BY DroppersAre
      <4>2. CASE k.dropper = c /\ q.life # "off"
        BY <4>2, <1>2
      <4>3. CASE k.dropper # c /\ tokens[k] > 0
        BY <4>1, <4>3, <1>1, <1>2 DEF TokInv, TokenRefsLive
      <4> QED BY <2>2, <3>2, <4>2, <4>3 DEF TokKept
    <3>3. TokenRefsLive'
      BY <3>2 DEF TokenRefsLive
    <3> QED BY <2>2, <3>1, <3>3 DEF TokInv, TokKept
  <2> QED BY <2>1, <2>2 DEF Hook
<1>5. \A d \in Cns : Armed(client[d])' => drift'
  <2>1. drift => drift'
    BY DEF Hook, Kept
  <2>2. \A d \in Cns : Armed(client[d]) => drift
    BY DEF IInv
  <2> QED BY <2>1, <2>2, <1>2 DEF Armed, SameMatch
<1> QED BY <1>1, <1>2, <1>3, <1>4, <1>5 DEF IInv, SameMatch

-----------------------------------------------------------------------------
(***************************************************************************)
(* The hooks as the events call them                                       *)
(***************************************************************************)
LEMMA Parts ==
  ASSUME IInv
  PROVE  /\ smode \in Smodes /\ Persons /\ CapInv /\ TokInv /\ TokTypes
         /\ \A c \in Cns : Person(client[c])
BY DEF IInv, TokInv, Persons

LEMMA StillArmed ==
  ASSUME IInv, NEW c \in Cns, NEW q, Hook(c, q), q.life = client[c].life, q.ready = client[c].ready
  PROVE  Armed(q) => drift'
BY DEF IInv, Armed, Hook, Kept

LEMMA DiedHook ==
  ASSUME IInv, NEW c \in Cns, client[c].life = "alive", NEW actors, died(c, actors),
         NEW q, q.life \notin {"alive", "off"}
  PROVE  Hook(c, q)
<1>1. CASE smode = "capture" /\ Cap!died(c) /\ UNCHANGED collectvars
  <2>1. Kept(c, q)
    BY <1>1, Parts, LeavingKept
  <2>2. tokens' = tokens /\ TokTypes'
    BY <1>1, Parts DEF collectvars, TokTypes
  <2> QED BY <1>1, <2>1, <2>2 DEF Hook
<1>2. CASE smode = "collect" /\ Col!died(c, actors) /\ UNCHANGED capturevars
  <2>1. PICK penalty \in BOOLEAN : Col!droptokens(c, penalty)
    BY <1>2 DEF Col!died
  <2>2. TokKept(c, q)
    BY <2>1, Parts, DropKept
  <2> QED BY <1>2, <2>2 DEF Hook, capturevars
<1> QED BY <1>1, <1>2 DEF died

LEMMA LeavegameHook ==
  ASSUME IInv, NEW c \in Cns, NEW disconnecting \in BOOLEAN, leavegame(c, disconnecting),
         NEW q, q.life # "alive", disconnecting \/ q.life # "off"
  PROVE  Hook(c, q)
<1>1. CASE smode = "capture" /\ Cap!leavegame(c) /\ UNCHANGED collectvars
  <2>1. Kept(c, q)
    BY <1>1, Parts, LeavingKept
  <2>2. tokens' = tokens /\ TokTypes'
    BY <1>1, Parts DEF collectvars, TokTypes
  <2> QED BY <1>1, <2>1, <2>2 DEF Hook
<1>2. CASE smode = "collect" /\ UNCHANGED capturevars /\ disconnecting /\ Col!leaveserver(c)
  <2>1. TokKept(c, q)
    BY <1>2, Parts, LeaveServerKept
  <2> QED BY <1>2, <2>1 DEF Hook, capturevars
<1>3. CASE smode = "collect" /\ UNCHANGED capturevars /\ ~disconnecting /\ Col!leavegame(c)
  <2>1. TokKept(c, q)
    BY <1>3, Parts, SameTokensKept DEF Col!leavegame
  <2> QED BY <1>3, <2>1 DEF Hook, capturevars
<1> QED BY <1>1, <1>2, <1>3 DEF leavegame

LEMMA SpawnHook ==
  ASSUME IInv, NEW c \in Cns, spawned(c), NEW q,
         client[c].life # "off", Armed(client[c]) \/ client[c].life # "alive" \/ smode # "capture",
         q.life = "alive", q.team = client[c].team, q.at = client[c].at, q.clip = client[c].clip
  PROVE  Hook(c, q)
<1>1. CASE smode = "capture" /\ Cap!spawned(c) /\ UNCHANGED collectvars
  <2>0. client[c].life = "alive" => drift
    BY <1>1 DEF IInv
  <2>1. Kept(c, q)
    BY <1>1, <2>0, Parts, SpawnKept
  <2>2. tokens' = tokens /\ TokTypes'
    BY <1>1, Parts DEF collectvars, TokTypes
  <2> QED BY <1>1, <2>1, <2>2 DEF Hook
<1>2. CASE smode = "collect" /\ UNCHANGED <<capturevars, collectvars>>
  <2>1. TokKept(c, q)
    BY <1>2, Parts, SameTokensKept DEF collectvars
  <2> QED BY <1>2, <2>1 DEF Hook, capturevars
<1> QED BY <1>1, <1>2 DEF spawned

LEMMA TeamHook ==
  ASSUME IInv, NEW c \in Cns, NEW t \in Teams, changeteam(c, t), t # client[c].team,
         NEW q, client[c].life = "alive", q.life = "alive", q.team = t,
         q.at = client[c].at, q.clip = client[c].clip
  PROVE  Hook(c, q)
<1>1. CASE smode = "capture" /\ Cap!changeteam(c, t) /\ UNCHANGED collectvars
  <2>1. Kept(c, q)
    BY <1>1, Parts, TeamKept
  <2>2. tokens' = tokens /\ TokTypes'
    BY <1>1, Parts DEF collectvars, TokTypes
  <2> QED BY <1>1, <2>1, <2>2 DEF Hook
<1>2. CASE smode = "collect" /\ UNCHANGED <<capturevars, collectvars>>
  <2>1. TokKept(c, q)
    BY <1>2, Parts, SameTokensKept DEF collectvars
  <2> QED BY <1>2, <2>1 DEF Hook, capturevars
<1> QED BY <1>1, <1>2 DEF changeteam

LEMMA NoHookHook ==
  ASSUME IInv, NEW c \in Cns, NoHook(c), client[c].life = "alive", NEW q, q.life # "off",
         q.life = "alive" => q.at = client[c].at /\ q.clip = client[c].clip
  PROVE  Hook(c, q)
<1>1. CASE smode = "capture" /\ Cap!Unhooked(c) /\ UNCHANGED collectvars
  <2>1. Kept(c, q)
    BY <1>1, Parts, UnhookedKept
  <2>2. tokens' = tokens /\ TokTypes'
    BY <1>1, Parts DEF collectvars, TokTypes
  <2> QED BY <1>1, <2>1, <2>2 DEF Hook
<1>2. CASE smode = "collect" /\ UNCHANGED <<capturevars, collectvars>>
  <2>1. TokKept(c, q)
    BY <1>2, Parts, SameTokensKept DEF collectvars
  <2> QED BY <1>2, <2>1 DEF Hook, capturevars
<1> QED BY <1>1, <1>2 DEF NoHook

\* A step of a player who is not alive and does not become so.
LEMMA QuietHook ==
  ASSUME IInv, NEW c \in Cns, client[c].life # "alive", NEW q, q.life \notin {"alive", "off"},
         UNCHANGED <<bases, drift, tokens, scores>>,
         held' = held \/ held' = [held EXCEPT ![c] = 0]
  PROVE  Hook(c, q)
<1>1. \A i \in Bases : ~Here(client[c], i) /\ ~Here(q, i)
  BY DEF Here
<1>2. Kept(c, q)
  BY <1>1, Parts, OutsideKept
<1>3. TokKept(c, q) /\ TokTypes'
  BY Parts, SameTokensKept
<1> QED BY <1>2, <1>3, Parts DEF Hook, Smodes

-----------------------------------------------------------------------------
(***************************************************************************)
(* The events of a player                                                  *)
(***************************************************************************)
LEMMA Connects ==
  ASSUME IInv, NEW c \in Cns, NEW t \in Teams, connected(c, t)
  PROVE  IInv'
<1>0. PICK spectates \in BOOLEAN :
        client' = [client EXCEPT ![c] = [Absent EXCEPT
                     !.life = IF spectates THEN "spectator" ELSE "dead",
                     !.team = t, !.ready = ~spectates /\ c \in Humans]]
  BY DEF connected
<1>a. PICK life \in {"spectator", "dead"} : life = IF spectates THEN "spectator" ELSE "dead"
  OBVIOUS
<1>b. PICK ready \in BOOLEAN : ready = (~spectates /\ c \in Humans)
  OBVIOUS
<1>c. ready => life = "dead"
  BY <1>a, <1>b
<1>1. client' = [client EXCEPT ![c] = [Absent EXCEPT !.life = life, !.team = t, !.ready = ready]]
  BY <1>0, <1>a, <1>b
<1> DEFINE q == [Absent EXCEPT !.life = life, !.team = t, !.ready = ready]
<1>2. Absent \in Players
  BY DEF Absent, Players, Life
<1> HIDE DEF Absent
<1>3. t # NoTeam
  BY ModesAssumption
<1>4. q \in Players
  BY <1>2 DEF Players, Life
<1>5. q.life = life /\ q.team = t /\ q.ready = ready /\ (ready => life = "dead")
  BY <1>2, <1>c DEF Players
<1>6. client' = [client EXCEPT ![c] = q]
  BY <1>1
<1> HIDE DEF q
<1>7. Becomes(c, q)
  BY <1>3, <1>4, <1>5, <1>6 DEF Becomes, Person
<1>8. SameMatch /\ UNCHANGED <<bases, drift, tokens, held, scores>> /\ client[c].life = "off"
  BY DEF connected, SameMatch, match, capturevars, collectvars
<1>9. Hook(c, q)
  BY <1>5, <1>8, QuietHook
<1> QED BY <1>5, <1>7, <1>8, <1>9, PlayerStep DEF Armed

LEMMA Disconnects ==
  ASSUME IInv, NEW c \in Cns, clientdisconnect(c)
  PROVE  IInv'
<1>1. leavegame(c, TRUE) /\ client' = [client EXCEPT ![c] = Absent] /\ SameMatch
  BY DEF clientdisconnect, SameMatch
<1>2. Absent \in Players /\ Absent.life = "off" /\ Absent.team = NoTeam /\ Absent.ready = FALSE
  BY DEF Absent, Players, Life
<1> HIDE DEF Absent
<1>3. Becomes(c, Absent)
  BY <1>1, <1>2 DEF Becomes, Person
<1>4. PICK disconnecting \in BOOLEAN : disconnecting /\ leavegame(c, disconnecting)
  BY <1>1
<1>5. Hook(c, Absent)
  BY <1>2, <1>4, LeavegameHook
<1> QED BY <1>1, <1>2, <1>3, <1>5, PlayerStep DEF Armed

LEMMA Spectates ==
  ASSUME IInv, NEW c \in Cns, spectate(c)
  PROVE  IInv'
<1> DEFINE p == client[c]
           q == [p EXCEPT !.life = "spectator", !.at = {}, !.ready = FALSE]
<1>1. /\ leavegame(c, FALSE) /\ p.life # "off" /\ SameMatch
      /\ client' = [client EXCEPT ![c].life = "spectator", ![c].at = {}, ![c].ready = FALSE]
  BY DEF spectate, SameMatch, match
<1>2. Persons /\ Person(p)
  BY Parts
<1>3. client' = [client EXCEPT ![c] = q]
  BY <1>1, <1>2 DEF Persons
<1>4. q \in Players /\ q.life = "spectator" /\ q.team = p.team /\ q.ready = FALSE
  BY <1>2 DEF Person, Players, Life
<1> HIDE DEF q, p
<1>5. Becomes(c, q)
  BY <1>1, <1>2, <1>3, <1>4 DEF Becomes, Person
<1>6. PICK disconnecting \in BOOLEAN : leavegame(c, disconnecting)
  BY <1>1
<1>7. Hook(c, q)
  BY <1>4, <1>6, LeavegameHook
<1> QED BY <1>1, <1>4, <1>5, <1>7, PlayerStep DEF Armed

LEMMA Unspectates ==
  ASSUME IInv, NEW c \in Cns, unspectate(c)
  PROVE  IInv'
<1> DEFINE p == client[c]
           q == [respawn(p) EXCEPT !.life = "dead"]
<1>1. /\ p.life = "spectator" /\ SameMatch /\ client' = [client EXCEPT ![c] = q]
      /\ UNCHANGED <<bases, drift, tokens, scores>> /\ held' = [held EXCEPT ![c] = 0]
  BY DEF unspectate, SameMatch, match, Emptied, capturevars
<1>2. Persons /\ Person(p)
  BY Parts
<1>3. q \in Players /\ q.life = "dead" /\ q.team = p.team /\ q.ready = FALSE
  BY <1>2 DEF Person, Players, Life, respawn
<1> HIDE DEF q
<1>4. Becomes(c, q)
  BY <1>1, <1>2, <1>3 DEF Becomes, Person
<1>5. Hook(c, q)
  BY <1>1, <1>3, QuietHook
<1> QED BY <1>1, <1>3, <1>4, <1>5, PlayerStep DEF Armed

LEMMA Positions ==
  ASSUME IInv, NEW c \in Cns, NEW at \in Places, NEW clip \in BOOLEAN, N_POS(c, at, clip)
  PROVE  IInv'
<1> DEFINE p == client[c]
           q == [p EXCEPT !.at = at, !.clip = clip]
<1>1. /\ p.life = "alive" \/ p.ready
      /\ smode = "capture" /\ SameMatch /\ UNCHANGED <<tokens, held, scores>>
      /\ IF p.life = "alive" THEN Cap!moved(c, at, clip) ELSE UNCHANGED capturevars
      /\ client' = [client EXCEPT ![c].at = at, ![c].clip = clip]
  BY DEF N_POS, SameMatch, match
<1>2. Persons /\ Person(p) /\ TokInv /\ CapInv
  BY Parts
<1>3. client' = [client EXCEPT ![c] = q]
  BY <1>1, <1>2 DEF Persons
<1>4. at \subseteq Bases
  BY ModesAssumption
<1>5. /\ q \in Players /\ q.life = p.life /\ q.team = p.team /\ q.ready = p.ready
      /\ q.at = at /\ q.clip = clip
  BY <1>2, <1>4 DEF Person, Players
<1> HIDE DEF q
<1>6. Becomes(c, q)
  BY <1>2, <1>3, <1>5 DEF Becomes, Person
<1>7. Kept(c, q)
  <2>1. CASE p.life = "alive"
    BY <2>1, <1>1, <1>2, <1>5, MovedKept
  <2>2. CASE p.life # "alive"
    <3>1. \A i \in Bases : ~Here(client[c], i) /\ ~Here(q, i)
      BY <2>2, <1>5 DEF Here
    <3> QED BY <2>2, <3>1, <1>1, <1>2, OutsideKept DEF capturevars
  <2> QED BY <2>1, <2>2
<1>8. TokTypes'
  BY <1>1, <1>2 DEF TokInv, TokTypes
<1>9. Hook(c, q)
  BY <1>1, <1>7, <1>8 DEF Hook
<1> QED BY <1>1, <1>5, <1>6, <1>9, StillArmed, PlayerStep

LEMMA Spawns ==
  ASSUME IInv, NEW c \in Cns, N_SPAWN(c)
  PROVE  IInv'
<1> DEFINE p == client[c]
           q == [p EXCEPT !.life = "alive", !.ready = FALSE]
<1>1. /\ p.ready /\ spawned(c) /\ SameMatch
      /\ client' = [client EXCEPT ![c].life = "alive", ![c].ready = FALSE]
  BY DEF N_SPAWN, SameMatch, match
<1>2. Persons /\ Person(p) /\ p.life # "off" /\ (Armed(p) \/ p.life # "alive" \/ smode # "capture")
  BY <1>1, Parts DEF Person, Armed
<1>3. client' = [client EXCEPT ![c] = q]
  BY <1>1, <1>2 DEF Persons
<1>4. /\ q \in Players /\ q.life = "alive" /\ q.team = p.team /\ q.ready = FALSE
      /\ q.at = p.at /\ q.clip = p.clip
  BY <1>2 DEF Person, Players, Life
<1> HIDE DEF q
<1>5. Becomes(c, q)
  BY <1>2, <1>3, <1>4 DEF Becomes, Person
<1>6. Hook(c, q)
  BY <1>1, <1>2, <1>4, SpawnHook
<1> QED BY <1>1, <1>4, <1>5, <1>6, PlayerStep DEF Armed

LEMMA Respawns ==
  ASSUME IInv, NEW c \in Cns, try_respawn(c)
  PROVE  IInv'
<1> DEFINE p == client[c]
           q == [p EXCEPT !.ready = TRUE]
<1>1. /\ p.life = "dead" /\ SameMatch /\ UNCHANGED <<bases, drift, tokens, held, scores>>
      /\ client' = [client EXCEPT ![c].ready = TRUE]
  BY DEF try_respawn, SameMatch, match, capturevars, collectvars
<1>2. Persons /\ Person(p)
  BY Parts
<1>3. client' = [client EXCEPT ![c] = q]
  BY <1>1, <1>2 DEF Persons
<1>4. q \in Players /\ q.life = "dead" /\ q.team = p.team
  BY <1>1, <1>2 DEF Person, Players
<1> HIDE DEF q
<1>5. Becomes(c, q)
  BY <1>1, <1>2, <1>3, <1>4 DEF Becomes, Person
<1>6. Hook(c, q)
  BY <1>1, <1>4, QuietHook
<1> QED BY <1>1, <1>4, <1>5, <1>6, PlayerStep DEF Armed

LEMMA Kills ==
  ASSUME IInv, NEW c \in Cns, NEW actor \in Cns, dodamage(c, actor)
  PROVE  IInv'
<1> DEFINE p == client[c]
           q == [p EXCEPT !.life = "dead", !.at = {}]
<1>1. /\ p.life = "alive" /\ died(c, {actor}) /\ SameMatch
      /\ client' = [client EXCEPT ![c].life = "dead", ![c].at = {}]
  BY DEF dodamage, SameMatch, match
<1>2. Persons /\ Person(p)
  BY Parts
<1>3. client' = [client EXCEPT ![c] = q]
  BY <1>1, <1>2 DEF Persons
<1>4. q \in Players /\ q.life = "dead" /\ q.team = p.team
  BY <1>2 DEF Person, Players, Life
<1> HIDE DEF q
<1>5. Becomes(c, q)
  BY <1>1, <1>2, <1>3, <1>4 DEF Becomes, Person
<1>6. Hook(c, q)
  BY <1>1, <1>4, DiedHook
<1> QED BY <1>1, <1>4, <1>5, <1>6, PlayerStep DEF Armed

LEMMA SuicidedPerson ==
  ASSUME NEW p, Person(p), p.life = "alive"
  PROVE  LET q == Suicided(p)
         IN  q \in Players /\ Person(q) /\ q.life = "dead" /\ q.team = p.team /\ q.ready = FALSE
<1> DEFINE q == Suicided(p)
<1>1. q \in Players /\ q.life = "dead" /\ q.team = p.team /\ q.ready = FALSE
  BY DEF Suicided, respawn, Person, Players, Life
<1> HIDE DEF q
<1>2. Person(q)
  BY <1>1 DEF Person
<1> QED BY <1>1, <1>2 DEF q

LEMMA Suicides ==
  ASSUME IInv, NEW c \in Cns, suicide(c)
  PROVE  IInv'
<1> DEFINE q == Suicided(client[c])
<1>1. /\ client[c].life = "alive" /\ died(c, {}) /\ SameMatch
      /\ client' = [client EXCEPT ![c] = q]
  BY DEF suicide, SameMatch, match
<1>2. Person(q) /\ q.life = "dead"
  BY <1>1, Parts, SuicidedPerson
<1> HIDE DEF q
<1>3. Becomes(c, q) /\ Hook(c, q)
  BY <1>1, <1>2, DiedHook DEF Becomes
<1> QED BY <1>1, <1>2, <1>3, PlayerStep DEF Armed

\* A connected player in another team.
LEMMA OtherTeam ==
  ASSUME NEW p, Person(p), p.life # "off", NEW t \in Teams
  PROVE  LET q == [p EXCEPT !.team = t]
         IN  /\ Person(q) /\ q.life = p.life /\ q.team = t /\ q.at = p.at /\ q.clip = p.clip
             /\ q.ready = p.ready
<1> DEFINE q == [p EXCEPT !.team = t]
<1>1. /\ q \in Players /\ q.life = p.life /\ q.team = t /\ q.at = p.at /\ q.clip = p.clip
      /\ q.ready = p.ready
  BY DEF Person, Players
<1> HIDE DEF q
<1>2. Person(q)
  BY <1>1, ModesAssumption DEF Person
<1> QED BY <1>1, <1>2 DEF q

LEMMA Switches ==
  ASSUME IInv, NEW c \in Cns, NEW t \in Teams, switchteam(c, t)
  PROVE  IInv'
<1> DEFINE p == client[c]
<1>0. p.life # "off" /\ SameMatch /\ Persons /\ Person(p)
  BY Parts DEF switchteam, SameMatch, match
<1>1. CASE /\ p.life = "alive" /\ died(c, {})
           /\ client' = [client EXCEPT ![c] = [Suicided(p) EXCEPT !.team = t]]
  <2> DEFINE s == Suicided(p)
             q == [s EXCEPT !.team = t]
  <2>1. Person(s) /\ s.life = "dead"
    BY <1>0, <1>1, SuicidedPerson
  <2> HIDE DEF s
  <2>2. Person(q) /\ q.life = "dead"
    BY <2>1, OtherTeam
  <2>3. client' = [client EXCEPT ![c] = q]
    BY <1>1 DEF s
  <2> HIDE DEF q
  <2>4. Becomes(c, q) /\ Hook(c, q)
    BY <1>1, <2>2, <2>3, DiedHook DEF Becomes
  <2> QED BY <1>0, <2>2, <2>4, PlayerStep DEF Armed
<1>2. CASE /\ p.life # "alive" /\ client' = [client EXCEPT ![c].team = t]
           /\ UNCHANGED <<capturevars, collectvars>>
  <2> DEFINE q == [p EXCEPT !.team = t]
  <2>1. client' = [client EXCEPT ![c] = q]
    BY <1>0, <1>2 DEF Persons
  <2>2. Person(q) /\ q.life = p.life
    BY <1>0, OtherTeam
  <2> HIDE DEF q
  <2>3. Becomes(c, q) /\ Hook(c, q)
    BY <1>0, <1>2, <2>1, <2>2, QuietHook DEF Becomes, capturevars, collectvars
  <2> QED BY <1>0, <1>2, <2>2, <2>3, PlayerStep DEF Armed
<1> QED BY <1>1, <1>2 DEF switchteam

LEMMA Balances ==
  ASSUME IInv, NEW c \in Cns, NEW t \in Teams, balanceteams(c, t)
  PROVE  IInv'
<1> DEFINE p == client[c]
           q == [p EXCEPT !.team = t]
<1>0. /\ p.life # "off" /\ SameMatch /\ Persons /\ Person(p) /\ t # p.team
      /\ client' = [client EXCEPT ![c].team = t]
  BY Parts DEF balanceteams, SameMatch, match
<1>1. client' = [client EXCEPT ![c] = q]
  BY <1>0 DEF Persons
<1>2. Person(q) /\ q.life = p.life /\ q.team = t /\ q.at = p.at /\ q.clip = p.clip /\ q.ready = p.ready
  BY <1>0, OtherTeam
<1> HIDE DEF q
<1>3. CASE p.life = "alive" /\ changeteam(c, t)
  <2>1. Becomes(c, q) /\ Hook(c, q)
    BY <1>0, <1>1, <1>2, <1>3, TeamHook DEF Becomes
  <2> QED BY <1>0, <1>2, <2>1, StillArmed, PlayerStep
<1>4. CASE p.life # "alive" /\ UNCHANGED <<capturevars, collectvars>>
  <2>1. Becomes(c, q) /\ Hook(c, q)
    BY <1>0, <1>1, <1>2, <1>4, QuietHook DEF Becomes, capturevars, collectvars
  <2> QED BY <1>0, <1>2, <2>1, StillArmed, PlayerStep
<1> QED BY <1>3, <1>4 DEF balanceteams

LEMMA ScriptTeams ==
  ASSUME IInv, NEW c \in Cns, NEW t \in Teams, player_changeteam(c, t)
  PROVE  IInv'
<1> DEFINE p == client[c]
           q == [p EXCEPT !.team = t]
<1>0. /\ p.life = "alive" /\ SameMatch /\ Persons /\ Person(p) /\ NoHook(c)
      /\ client' = [client EXCEPT ![c].team = t]
  BY Parts DEF player_changeteam, SameMatch, match
<1>1. client' = [client EXCEPT ![c] = q]
  BY <1>0 DEF Persons
<1>2. Person(q) /\ q.life = p.life /\ q.at = p.at /\ q.clip = p.clip /\ q.ready = p.ready
  BY <1>0, OtherTeam
<1> HIDE DEF q
<1>3. Becomes(c, q) /\ Hook(c, q)
  BY <1>0, <1>1, <1>2, NoHookHook DEF Becomes
<1> QED BY <1>0, <1>2, <1>3, StillArmed, PlayerStep

LEMMA Slays ==
  ASSUME IInv, NEW c \in Cns, player_slay(c)
  PROVE  IInv'
<1> DEFINE p == client[c]
           q == [p EXCEPT !.life = "dead"]
<1>0. /\ p.life = "alive" /\ SameMatch /\ Persons /\ Person(p) /\ NoHook(c)
      /\ client' = [client EXCEPT ![c].life = "dead"]
  BY Parts DEF player_slay, SameMatch, match
<1>1. client' = [client EXCEPT ![c] = q]
  BY <1>0 DEF Persons
<1>2. q \in Players /\ q.life = "dead" /\ q.team = p.team
  BY <1>0 DEF Person, Players, Life
<1> HIDE DEF q
<1>3. Becomes(c, q) /\ Hook(c, q)
  BY <1>0, <1>1, <1>2, NoHookHook DEF Becomes, Person
<1> QED BY <1>0, <1>2, <1>3, PlayerStep DEF Armed

\* A bot that is handed over: it loses its position, and drift is set if it lives.
LEMMA Reassigns ==
  ASSUME IInv, NEW c \in Cns, reinitai(c)
  PROVE  IInv'
<1> DEFINE p == client[c]
           q == [respawn(p) EXCEPT !.ready = p.life = "alive"]
<1>1. /\ p.life \in {"dead", "alive"} /\ SameMatch /\ client' = [client EXCEPT ![c] = q]
      /\ \/ smode = "capture" /\ Cap!reassigned(c) /\ UNCHANGED collectvars
         \/ smode = "collect" /\ Emptied(c)
  BY DEF reinitai, SameMatch, match
<1>2. Persons /\ Person(p) /\ TokTypes /\ GoodBases /\ drift \in BOOLEAN
  BY Parts DEF CapInv
<1>3. PICK ready \in BOOLEAN : ready = (p.life = "alive")
  OBVIOUS
<1>4. q = [p EXCEPT !.at = {}, !.ready = ready]
  BY <1>2, <1>3 DEF respawn, Person, Players
<1>5. /\ q \in Players /\ q.life = p.life /\ q.team = p.team /\ q.at = {} /\ q.ready = ready
  BY <1>2, <1>4 DEF Person, Players
<1> HIDE DEF q
<1>6. Becomes(c, q)
  BY <1>1, <1>2, <1>5 DEF Becomes, Person
<1>7. CASE smode = "capture" /\ Cap!reassigned(c) /\ UNCHANGED collectvars
  <2>1. bases' = bases /\ drift' = (drift \/ p.life = "alive")
    BY <1>7 DEF Cap!reassigned
  <2>2. drift' \in BOOLEAN /\ (drift => drift') /\ (~drift' => p.life # "alive")
    BY <1>2, <2>1
  <2>3. GoodBases'
    BY <1>2, <2>1 DEF GoodBases
  <2>4. ~drift' => \A i \in Bases : Follows(p, q, i)
    BY <2>1, <2>2, <1>5 DEF Follows, Here
  <2>5. Kept(c, q)
    BY <2>1, <2>2, <2>3, <2>4 DEF Kept
  <2>6. Hook(c, q)
    BY <1>2, <1>7, <2>5 DEF Hook, collectvars, TokTypes
  <2>7. Armed(q) => drift'
    BY <1>5, <2>2 DEF Armed
  <2> QED BY <1>1, <1>6, <2>6, <2>7, PlayerStep
<1>8. CASE smode = "collect" /\ Emptied(c)
  <2>1. TokKept(c, q)
    BY <1>1, <1>5, <1>8, Parts, SameTokensKept DEF Emptied
  <2>2. Hook(c, q)
    BY <1>8, <2>1 DEF Hook, Emptied, capturevars
  <2>3. Armed(q) => drift'
    BY <1>8 DEF Armed
  <2> QED BY <1>1, <1>6, <2>2, <2>3, PlayerStep
<1> QED BY <1>1, <1>7, <1>8


-----------------------------------------------------------------------------
(***************************************************************************)
(* The map, the bases and the tokens                                       *)
(***************************************************************************)
LEMMA MovedPerson ==
  ASSUME Persons, NEW c \in Cns, NEW team \in BaseTeams \cup {client[c].team}
  PROVE  Person(Moved(c, team)) /\ Moved(c, team).life # "alive"
<1> DEFINE p == client[c]
<1>1. Absent \in Players /\ Absent.life = "off" /\ Absent.team = NoTeam /\ Absent.ready = FALSE
  BY DEF Absent, Players, Life
<1>2. Person(p)
  BY DEF Persons
<1>3. CASE c \in Bots \/ p.life = "off"
  <2>1. Moved(c, team) = Absent
    BY <1>3 DEF Moved
  <2> QED BY <1>1, <2>1 DEF Person
<1>4. CASE ~(c \in Bots \/ p.life = "off")
  <2>1. Moved(c, team) = [Absent EXCEPT
                      !.life = IF p.life = "spectator" THEN "spectator" ELSE "dead",
                      !.team = team, !.ready = p.life # "spectator"]
    BY <1>4 DEF Moved
  <2>2. PICK life \in {"spectator", "dead"} :
          life = IF p.life = "spectator" THEN "spectator" ELSE "dead"
    OBVIOUS
  <2>3. PICK ready \in BOOLEAN : ready = (p.life # "spectator")
    OBVIOUS
  <2>4. ready => life = "dead"
    BY <2>2, <2>3
  <2> HIDE DEF Absent
  <2>5. PICK t \in Teams : t = team
    BY <1>2, <1>4, PersonFacts, ModesAssumption
  <2> DEFINE q == [Absent EXCEPT !.life = life, !.team = t, !.ready = ready]
  <2>6. Moved(c, team) = q
    BY <2>1, <2>2, <2>3, <2>5
  <2>7. q \in Players /\ q.life = life /\ q.team = t /\ q.ready = ready
    BY <1>1 DEF Players, Life
  <2>8. t # NoTeam
    BY ModesAssumption
  <2> HIDE DEF q
  <2> QED BY <2>4, <2>6, <2>7, <2>8 DEF Person
<1> QED BY <1>3, <1>4

LEMMA Changes ==
  ASSUME IInv, NEW mode \in Smodes, changemap(mode)
  PROVE  IInv'
<1>1. /\ smode' = mode /\ over' = FALSE /\ notgotbases' \in BOOLEAN
      /\ gamepaused' = FALSE
      /\ bases' = [i \in Bases |-> Cap!NewBase] /\ drift' = FALSE
      /\ tokens' = [k \in Col!Kinds |-> 0] /\ held' = [c \in Cns |-> 0]
      /\ scores' = [t \in BaseTeams |-> 0]
  BY DEF changemap, Cap!reset, Col!reset
<1>2. Persons' /\ \A c \in Cns : client'[c].life # "alive"
  <2>0. PICK team \in [Cns -> Team] :
          /\ \A c \in Cns : team[c] \in (Joins[c] \cap BaseTeams) \cup {client[c].team}
          /\ client' = [c \in Cns |-> Moved(c, team[c])]
    BY DEF changemap, Team
  <2>1. \A c \in Cns : Person(Moved(c, team[c])) /\ Moved(c, team[c]).life # "alive"
    BY <2>0, Parts, MovedPerson
  <2>2. \A c \in Cns : Moved(c, team[c]) \in Players
    BY <2>1 DEF Person
  <2>3. /\ client' \in [Cns -> Players]
        /\ \A c \in Cns : Person(client'[c]) /\ client'[c].life # "alive"
    BY <2>0, <2>1, <2>2
  <2> QED BY <2>3 DEF Persons
<1>3. CapInv'
  <2>1. \A i \in Bases : Good(bases'[i]) /\ bases'[i].owners = 0 /\ bases'[i].enemies = 0
    BY <1>1, NewBaseGood
  <2>2. GoodBases'
    BY <1>1, <2>1 DEF GoodBases, Good
  <2>3. \A i \in Bases : Fits(bases'[i], N(i)')
    BY <2>1, SizesNPrime DEF Fits, Sizes
  <2> QED BY <1>1, <2>1, <2>2, <2>3 DEF CapInv, Idle, Counts
<1>4. TokInv'
  BY <1>1, ModesAssumption DEF TokInv, TokTypes, NoTokens, TokenRefsLive
<1> QED BY <1>1, <1>2, <1>3, <1>4 DEF IInv, Armed

\* Nobody moves: the numbers inside stay.
LEMMA SameNumbers ==
  ASSUME UNCHANGED client
  PROVE  \A i : N(i)' = N(i)
BY DEF N, InTeam

LEMMA GetsBases ==
  ASSUME IInv, smode = "capture", Cap!parsebases,
         UNCHANGED <<over, smode, client, tokens, held, scores>>
  PROVE  CapInv'
<1>1. PICK first \in [Bases -> Teams] :
        bases' = [i \in Bases |->
                    IF over \/ Cap!Counted(i, first[i]) = {} THEN Cap!NewBase
                    ELSE Cap!Attack(Cap!NewBase, first[i], Cap!Cardinality(Cap!Counted(i, first[i])))]
  BY DEF Cap!parsebases
<1>2. notgotbases' = FALSE /\ drift' = drift /\ drift \in BOOLEAN
  BY Parts DEF Cap!parsebases, CapInv
<1>3. ASSUME NEW i \in Bases
      PROVE  Good(bases'[i]) /\ Fits(bases'[i], N(i)')
  <2> DEFINE new == Cap!NewBase
             t == first[i]
             n == Cardinality(InTeam(i, t))
  <2>1. Good(new) /\ new.owners = 0 /\ new.enemies = 0 /\ new.owner = NoTeam
    BY NewBaseGood DEF Cap!NewBase
  <2>2. t \in Teams /\ t # NoTeam
    BY <1>1, ModesAssumption
  <2>3. n \in Nat /\ n = N(i)[t] /\ N(i) \in Sizes /\ N(i)' = N(i)
    BY <2>2, SizesN, SameNumbers DEF N, Sizes
  <2>4. bases'[i] = new \/ bases'[i] = Cap!Attack(new, t, n)
    BY <1>1, CountedInTeam, SameCardinality
  <2> HIDE DEF new, n, t
  <2>5. Fits(new, N(i))
    BY <2>1, <2>3 DEF Fits, Sizes
  <2>6. CASE bases'[i] = new
    BY <2>1, <2>3, <2>5, <2>6
  <2>7. CASE bases'[i] = Cap!Attack(new, t, n)
    <3>1. Good(Cap!Attack(new, t, n))
      BY <2>1, <2>2, <2>3, AttackGood
    <3>2. n <= N(i)[t]
      BY <2>3
    <3>3. Fits(Cap!Attack(new, t, n), N(i))
      BY <2>1, <2>2, <2>3, <2>5, <3>2, AttackFits
    <3> QED BY <2>3, <2>7, <3>1, <3>3
  <2> QED BY <2>4, <2>6, <2>7
<1>4. GoodBases'
  BY <1>1, <1>3 DEF GoodBases, Good
<1> QED BY <1>2, <1>3, <1>4 DEF CapInv, Idle, Counts

LEMMA Conquers ==
  ASSUME IInv, smode = "capture", NEW seconds \in 0..MaxSeconds, Cap!update(seconds),
         UNCHANGED <<smode, client, tokens, held, scores>>
  PROVE  CapInv' /\ drift' = drift /\ over' \in BOOLEAN /\ notgotbases' = notgotbases
<1>1. /\ ~over /\ over' \in BOOLEAN /\ notgotbases' = notgotbases /\ drift' = drift
      /\ bases' = [i \in Bases |->
                     IF seconds > 0 /\ bases[i].enemy # NoTeam /\ (bases[i].owners = 0 \/ bases[i].enemies = 0)
                     THEN Cap!occupy(bases[i], Cap!Units(bases[i], seconds)) ELSE bases[i]]
  BY DEF Cap!update, Cap!Dominated
<1>2. GoodBases /\ drift \in BOOLEAN /\ Idle /\ Counts /\ seconds \in Nat
  BY Parts, ModesAssumption DEF CapInv
<1>3. ASSUME NEW i \in Bases
      PROVE  /\ Good(bases'[i])
             /\ ~drift => Fits(bases'[i], N(i)')
             /\ bases[i].owners = 0 /\ bases[i].enemies = 0 =>
                  bases'[i].owners = 0 /\ bases'[i].enemies = 0
  <2> DEFINE b == bases[i]
             r == Cap!occupy(b, Cap!Units(b, seconds))
  <2>1. Good(b) /\ (~drift => Fits(b, N(i))) /\ N(i) \in Sizes /\ N(i)' = N(i)
    BY <1>1, <1>2, SizesN, SameNumbers DEF GoodBases, Counts
  <2>2. bases'[i] = b \/ (bases'[i] = r /\ b.enemy # NoTeam /\ (b.owners = 0 \/ b.enemies = 0))
    BY <1>1
  <2> HIDE DEF b, r
  <2>3. CASE bases'[i] = b
    BY <2>1, <2>3 DEF b
  <2>4. CASE bases'[i] = r /\ b.enemy # NoTeam /\ (b.owners = 0 \/ b.enemies = 0)
    <3>1. Occupied(b, r)
      BY <1>2, <2>1, <2>4, OccupyGood DEF r
    <3>2. ~drift => Fits(r, N(i))
      BY <1>2, <2>1, <2>4, OccupyFits DEF r
    <3> QED BY <2>1, <2>4, <3>1, <3>2 DEF Occupied, b
  <2> QED BY <2>2, <2>3, <2>4
<1>4. GoodBases'
  BY <1>1, <1>3 DEF GoodBases, Good
<1>5. Idle'
  BY <1>1, <1>2, <1>3 DEF Idle
<1> QED BY <1>1, <1>2, <1>3, <1>4, <1>5 DEF CapInv, Counts

LEMMA Captures ==
  ASSUME IInv, Capturing
  PROVE  IInv'
<1>1. smode = "capture" /\ UNCHANGED <<smode, client, gamepaused, tokens, held, scores>>
  BY DEF Capturing, CaptureTick, collectvars
<1>2. Persons' /\ TokInv' /\ smode' \in Smodes /\ over \in BOOLEAN
  <2>1. Persons' /\ smode' \in Smodes /\ over \in BOOLEAN
    BY <1>1 DEF IInv, Persons
  <2>2. TokInv'
    BY <1>1, Parts DEF TokInv, TokTypes, NoTokens, TokenRefsLive
  <2> QED BY <2>1, <2>2
<1>3. CASE Cap!parsebases /\ UNCHANGED over
  <2>1. notgotbases' = FALSE
    BY <1>3 DEF Cap!parsebases
  <2>2. CapInv' /\ drift' = drift
    BY <1>1, <1>3, GetsBases DEF Cap!parsebases
  <2> QED BY <1>1, <1>2, <1>3, <2>1, <2>2 DEF IInv, Armed
<1>4. CASE \E seconds \in 0..MaxSeconds : Cap!update(seconds)
  <2>1. CapInv' /\ drift' = drift /\ over' \in BOOLEAN /\ notgotbases' = notgotbases
    BY <1>1, <1>4, Conquers
  <2> QED BY <1>1, <1>2, <2>1 DEF IInv, Armed
<1> QED BY <1>3, <1>4 DEF Capturing, CaptureTick

\* A script moves the end of the match: drift is set where it goes on.
LEMMA TimeChanges ==
  ASSUME IInv, changetime
  PROVE  IInv'
<1>1. /\ over' = ~over /\ UNCHANGED <<smode, client, notgotbases, gamepaused, bases, tokens, held, scores>>
      /\ \/ smode = "capture" /\ drift' = (drift \/ over)
         \/ smode = "collect" /\ drift' = drift
  BY DEF changetime, collectvars
<1>2. smode \in Smodes /\ over \in BOOLEAN /\ drift \in BOOLEAN /\ GoodBases /\ Idle /\ Counts /\ TokInv
  BY Parts DEF IInv, CapInv
<1>3. drift' \in BOOLEAN /\ (drift => drift') /\ over' \in BOOLEAN
  BY <1>1, <1>2
<1>4. GoodBases' /\ Idle'
  BY <1>1, <1>2 DEF GoodBases, Idle
<1>5. Counts'
  <2> SUFFICES ASSUME ~over', ~drift', NEW i \in Bases PROVE Fits(bases'[i], N(i)')
    BY DEF Counts
  <2>1. smode = "collect"
    BY <1>1, <1>2
  <2>2. bases'[i].owners = 0 /\ bases'[i].enemies = 0
    BY <1>1, <1>2, <2>1 DEF Idle
  <2> QED BY <2>2, SizesNPrime DEF Fits, Sizes
<1>6. TokInv'
  BY <1>1, <1>2 DEF TokInv, TokTypes, NoTokens, TokenRefsLive
<1>7. Persons' /\ \A c \in Cns : Armed(client[c])' => drift'
  BY <1>1, <1>3 DEF IInv, Persons, Armed
<1> QED BY <1>1, <1>3, <1>4, <1>5, <1>6, <1>7 DEF IInv, CapInv

\* The tokens of the living, as far as the tokens grow only where a base drops
\* them, while nobody joins, leaves or takes part in a capture match.
LEMMA CollectStep ==
  ASSUME IInv, smode = "collect", UNCHANGED <<smode, client, gamepaused, bases, drift>>,
         over' \in BOOLEAN, over => over', notgotbases' \in BOOLEAN, TokTypes',
         \A k \in Col!Kinds : tokens'[k] > 0 => k.dropper \in BaseTeams \/ tokens[k] > 0
  PROVE  IInv'
<1>1. Persons'
  BY Parts DEF Persons
<1>2. CapInv'
  <2>1. GoodBases /\ drift \in BOOLEAN /\ Idle /\ Counts
    BY Parts DEF CapInv
  <2>2. GoodBases' /\ Idle' /\ drift' \in BOOLEAN
    BY <2>1 DEF GoodBases, Idle
  <2>3. \A i : N(i)' = N(i)
    BY SameNumbers
  <2>4. Counts'
    BY <2>1, <2>3 DEF Counts
  <2> QED BY <2>2, <2>4 DEF CapInv
<1>3. TokInv'
  <2>1. TokenRefsLive'
    BY Parts DEF TokInv, TokenRefsLive
  <2> QED BY <2>1 DEF TokInv, NoTokens
<1> QED BY <1>1, <1>2, <1>3 DEF IInv, Armed

LEMMA Deposits ==
  ASSUME IInv, smode = "collect", NEW c \in Cns, NEW base \in BaseTeams, Col!deposittokens(c, base),
         UNCHANGED <<smode, gamepaused, bases, drift>>
  PROVE  IInv'
<1> DEFINE t == Col!Base(c)
           k0 == Col!Kind(t, FALSE, base)
<1>0. /\ client[c].life = "alive" /\ UNCHANGED <<client, notgotbases>>
      /\ over \in BOOLEAN /\ notgotbases \in BOOLEAN /\ TokTypes
  BY Parts DEF Col!deposittokens, IInv
<1>1. t \in Sides /\ NoBase \notin BaseTeams
  BY BaseSide, ModesAssumption
<1>2. held[c] \in Nat /\ scores[base] \in Nat
  BY <1>0, ModesAssumption DEF TokTypes
<1>3. CASE /\ scores' = Col!AddScore(t, held[c])
           /\ held' = [held EXCEPT ![c] = 0]
           /\ over' \in {over, TRUE}
           /\ tokens' = tokens
  <2>1. over' \in BOOLEAN /\ (over => over')
    BY <1>0, <1>3
  <2>2. scores' \in [BaseTeams -> Nat] /\ held' \in [Cns -> 0..TOKENLIMIT]
    BY <1>0, <1>1, <1>2, <1>3, ModesAssumption DEF TokTypes, Col!AddScore, Sides
  <2>3. TokTypes'
    BY <1>0, <1>3, <2>2 DEF TokTypes
  <2> QED BY <1>0, <1>3, <2>1, <2>3, CollectStep
<1>4. CASE /\ scores[base] > 0
           /\ scores' = Col!AddScore(base, -1)
           /\ tokens' = [tokens EXCEPT ![k0] = @ + 1]
           /\ UNCHANGED <<held, over>>
  <2>1. k0 \in Col!Kinds /\ k0.dropper \in BaseTeams
    BY <1>1, KindTyped, DroppersAre
  <2> HIDE DEF k0
  <2>2. scores' \in [BaseTeams -> Nat]
    BY <1>0, <1>1, <1>2, <1>4 DEF TokTypes, Col!AddScore
  <2>3. tokens' \in [Col!Kinds -> Nat] /\ \A k \in Col!Kinds : k # k0 => tokens'[k] = tokens[k]
    BY <1>0, <1>4, <2>1 DEF TokTypes
  <2>4. TokTypes'
    BY <1>0, <1>4, <2>2, <2>3 DEF TokTypes
  <2>5. \A k \in Col!Kinds : tokens'[k] > 0 => k.dropper \in BaseTeams \/ tokens[k] > 0
    BY <2>1, <2>3
  <2> QED BY <1>0, <1>4, <2>4, <2>5, CollectStep
<1> QED BY <1>3, <1>4 DEF Col!deposittokens

LEMMA Collects ==
  ASSUME IInv, Collecting
  PROVE  IInv'
<1>0. /\ smode = "collect" /\ UNCHANGED <<smode, gamepaused, bases, drift>>
      /\ over \in BOOLEAN /\ notgotbases \in BOOLEAN /\ TokTypes
  BY Parts DEF Collecting, IInv, capturevars
<1>1. ASSUME NEW c \in Cns, NEW base \in BaseTeams, Col!deposittokens(c, base) PROVE IInv'
  BY <1>0, <1>1, Deposits
<1>2. ASSUME NEW c \in Cns, NEW k \in Col!Kinds, Col!taketoken(c, k) PROVE IInv'
  <2>1. /\ held[c] < TOKENLIMIT /\ held' = [held EXCEPT ![c] = @ + 1]
        /\ UNCHANGED <<client, over, notgotbases, tokens, scores>>
    BY <1>2 DEF Col!taketoken
  <2>2. held' \in [Cns -> 0..TOKENLIMIT]
    BY <1>0, <2>1, ModesAssumption DEF TokTypes
  <2>3. TokTypes'
    BY <1>0, <2>1, <2>2 DEF TokTypes
  <2> QED BY <1>0, <2>1, <2>3, CollectStep
<1>3. ASSUME NEW k \in Col!Kinds, Col!update(k) PROVE IInv'
  <2>1. /\ tokens[k] > 0 /\ tokens' = [tokens EXCEPT ![k] = @ - 1]
        /\ UNCHANGED <<client, over, notgotbases, held, scores>>
    BY <1>3 DEF Col!update
  <2>2. tokens' \in [Col!Kinds -> Nat]
    BY <1>0, <2>1 DEF TokTypes
  <2>3. TokTypes'
    BY <1>0, <2>1, <2>2 DEF TokTypes
  <2>4. \A j \in Col!Kinds : tokens'[j] > 0 => tokens[j] > 0
    BY <1>0, <2>1 DEF TokTypes
  <2> QED BY <1>0, <2>1, <2>3, <2>4, CollectStep
<1>4. CASE Col!parsebases
  <2>1. notgotbases' = FALSE /\ UNCHANGED <<client, over, tokens, held, scores>>
    BY <1>4 DEF Col!parsebases
  <2>2. TokTypes'
    BY <1>0, <2>1 DEF TokTypes
  <2> QED BY <1>0, <2>1, <2>2, CollectStep
<1> QED BY <1>1, <1>2, <1>3, <1>4 DEF Collecting

-----------------------------------------------------------------------------
(***************************************************************************)
(* The invariant and the theorems                                          *)
(***************************************************************************)
LEMMA InitIInv ==
  ASSUME Init
  PROVE  IInv
<1>1. /\ smode \in Smodes /\ over = FALSE /\ notgotbases = TRUE /\ gamepaused = FALSE
      /\ client = [c \in Cns |-> Absent]
      /\ bases = [i \in Bases |-> Cap!NewBase] /\ drift = FALSE
      /\ tokens = [k \in Col!Kinds |-> 0] /\ held = [c \in Cns |-> 0]
      /\ scores = [t \in BaseTeams |-> 0]
  BY DEF Init
<1>2. Persons /\ \A c \in Cns : ~Armed(client[c])
  <2>1. Absent \in Players /\ Absent.life = "off" /\ Absent.team = NoTeam /\ Absent.ready = FALSE
    BY DEF Absent, Players, Life
  <2> HIDE DEF Absent
  <2> QED BY <1>1, <2>1 DEF Persons, Person, Armed
<1>3. CapInv
  <2>1. \A i \in Bases : Good(bases[i]) /\ bases[i].owners = 0 /\ bases[i].enemies = 0
    BY <1>1, NewBaseGood
  <2>2. GoodBases
    BY <1>1, <2>1 DEF GoodBases, Good
  <2>3. \A i \in Bases : Fits(bases[i], N(i))
    BY <2>1, SizesN DEF Fits, Sizes
  <2> QED BY <1>1, <2>1, <2>2, <2>3 DEF CapInv, Idle, Counts
<1>4. TokInv
  BY <1>1, ModesAssumption DEF TokInv, TokTypes, NoTokens, TokenRefsLive
<1> QED BY <1>1, <1>2, <1>3, <1>4 DEF IInv

LEMMA NextIInv ==
  ASSUME IInv, [Next]_vars
  PROVE  IInv'
<1>1. ASSUME NEW c \in Cns, clientdisconnect(c) PROVE IInv'
  BY <1>1, Disconnects
<1>2. ASSUME NEW c \in Cns, spectate(c) PROVE IInv'
  BY <1>2, Spectates
<1>3. ASSUME NEW c \in Cns, unspectate(c) PROVE IInv'
  BY <1>3, Unspectates
<1>4. ASSUME NEW c \in Cns, N_SPAWN(c) PROVE IInv'
  BY <1>4, Spawns
<1>5. ASSUME NEW c \in Cns, try_respawn(c) PROVE IInv'
  BY <1>5, Respawns
<1>6. ASSUME NEW c \in Cns, suicide(c) PROVE IInv'
  BY <1>6, Suicides
<1>7. ASSUME NEW c \in Cns, player_slay(c) PROVE IInv'
  BY <1>7, Slays
<1>8. ASSUME NEW c \in Cns, NEW t \in Teams, connected(c, t) PROVE IInv'
  BY <1>8, Connects
<1>9. ASSUME NEW c \in Cns, NEW t \in Teams, switchteam(c, t) PROVE IInv'
  BY <1>9, Switches
<1>10. ASSUME NEW c \in Cns, NEW t \in Teams, balanceteams(c, t) PROVE IInv'
  BY <1>10, Balances
<1>11. ASSUME NEW c \in Cns, NEW t \in Teams, player_changeteam(c, t) PROVE IInv'
  BY <1>11, ScriptTeams
<1>12. ASSUME NEW c \in Cns, NEW at \in Places, NEW clip \in BOOLEAN, N_POS(c, at, clip) PROVE IInv'
  BY <1>12, Positions
<1>13. ASSUME NEW target \in Cns, NEW actor \in Cns, dodamage(target, actor) PROVE IInv'
  BY <1>13, Kills
<1>14. ASSUME NEW mode \in Smodes, changemap(mode) PROVE IInv'
  BY <1>14, Changes
<1>15. CASE Capturing
  BY <1>15, Captures
<1>16. CASE Collecting
  BY <1>16, Collects
<1>17. CASE UNCHANGED vars
  <2>1. UNCHANGED <<smode, client, over, notgotbases, gamepaused, bases, drift, tokens, held, scores>>
    BY <1>17 DEF vars
  <2>2. Persons'
    BY <2>1, Parts DEF Persons
  <2>3. CapInv'
    <3>1. \A i : N(i)' = N(i)
      BY <2>1, SameNumbers
    <3> QED BY <2>1, <3>1, Parts DEF CapInv, GoodBases, Idle, Counts
  <2>4. TokInv'
    BY <2>1, Parts DEF TokInv, TokTypes, NoTokens, TokenRefsLive
  <2>5. \A c \in Cns : Armed(client[c])' => drift'
    BY <2>1 DEF IInv, Armed
  <2> QED BY <2>1, <2>2, <2>3, <2>4, <2>5 DEF IInv
<1>18. ASSUME NEW c \in Cns, reinitai(c) PROVE IInv'
  BY <1>18, Reassigns
<1>19. CASE changetime
  BY <1>19, TimeChanges
<1>20. ASSUME NEW val \in BOOLEAN, pausegame(val) PROVE IInv'
  <2>1. gamepaused' \in BOOLEAN
    BY <1>20 DEF pausegame
  <2>2. UNCHANGED <<smode, client, over, notgotbases, bases, drift, tokens, held, scores>>
    BY <1>20 DEF pausegame, capturevars, collectvars
  <2>3. Persons' /\ TokInv' /\ \A c \in Cns : Armed(client[c])' => drift'
    BY <2>2, Parts DEF IInv, Armed, Persons, TokInv, TokTypes, NoTokens, TokenRefsLive
  <2>4. CapInv'
    <3>1. \A i : N(i)' = N(i)
      BY <2>2, SameNumbers
    <3> QED BY <2>2, <3>1, Parts DEF CapInv, GoodBases, Idle, Counts
  <2> QED BY <2>1, <2>2, <2>3, <2>4 DEF IInv
<1> QED
  BY <1>1, <1>2, <1>3, <1>4, <1>5, <1>6, <1>7, <1>8, <1>9, <1>10, <1>11, <1>12, <1>13,
     <1>14, <1>15, <1>16, <1>17, <1>18, <1>19, <1>20 DEF Next

LEMMA Inductive == Spec => []IInv
<1>1. Init => IInv
  BY InitIInv
<1>2. IInv /\ [Next]_vars => IInv'
  BY NextIInv
<1> QED BY <1>1, <1>2, PTL DEF Spec

LEMMA CountsMean ==
  ASSUME IInv
  PROVE  TypeOK /\ BaseSound /\ NoPhantom /\ TokenRefsLive
<1>0. /\ smode \in Smodes /\ over \in BOOLEAN /\ notgotbases \in BOOLEAN
      /\ gamepaused \in BOOLEAN
      /\ Persons /\ GoodBases /\ drift \in BOOLEAN /\ Counts /\ TokTypes /\ TokenRefsLive
  BY DEF IInv, CapInv, TokInv
<1>1. TypeOK
  BY <1>0 DEF TypeOK, Persons, Person, GoodBases, TokTypes
<1>2. BaseSound
  BY <1>0 DEF BaseSound, GoodBases, Good, Sound
<1>3. NoPhantom
  <2> SUFFICES ASSUME ~over, ~drift, NEW i \in Bases, NEW t \in Teams
               PROVE  /\ bases[i].owner = t => bases[i].owners <= Cardinality(Cap!Counted(i, t))
                      /\ bases[i].enemy = t => bases[i].enemies <= Cardinality(Cap!Counted(i, t))
    BY DEF NoPhantom
  <2>1. Fits(bases[i], N(i))
    BY <1>0 DEF Counts
  <2>2. N(i)[t] = Cardinality(Cap!Counted(i, t))
    BY CountedInTeam DEF N
  <2> QED BY <2>1, <2>2 DEF Fits
<1> QED BY <1>0, <1>1, <1>2, <1>3

\* Every action keeps the types, for any players, teams, bases and limits.
THEOREM TypeCorrect == Spec => []TypeOK
BY Inductive, CountsMean, PTL

\* Owner, enemy and conversion of a base agree whatever players and scripts do
\* (baseinfo::enter, leave, steal and occupy).
THEOREM BasesSound == Spec => []BaseSound
BY Inductive, CountsMean, PTL

\* The counts of the bases follow the players along every path that calls the
\* hooks of captureservmode: no one who is gone holds or takes a base.
THEOREM NoPhantoms == Spec => []NoPhantom
BY Inductive, CountsMean, PTL

\* The dropper of a token is a connected client, a base or no one
\* (collectservmode::leavegame).
THEOREM TokensOfTheLiving == Spec => []TokenRefsLive
BY Inductive, CountsMean, PTL

-----------------------------------------------------------------------------
(***************************************************************************)
(* Collect: how many tokens                                                *)
(***************************************************************************)
LEMMA SameCount == \A bag, ks : Col!Number(bag, ks) = Cardinality(Col!Pieces(bag, ks))
BY DEF Col!Number, Col!Cardinality, Cardinality

LEMMA FiniteKinds == IsFiniteSet(Col!Kinds)
<1> DEFINE S == (Sides \X BOOLEAN) \X Col!Droppers
           f == [p \in S |-> [team |-> p[1][1], foe |-> p[1][2], dropper |-> p[2]]]
           All == [team : Sides, foe : BOOLEAN, dropper : Col!Droppers]
<1>1. IsFiniteSet(Sides) /\ IsFiniteSet(BaseTeams) /\ IsFiniteSet(Cns)
  <2>1. IsFiniteSet(BaseTeams) /\ IsFiniteSet(Cns)
    BY ModesAssumption, FS_Subset
  <2> QED BY <2>1, FS_AddElement DEF Sides
<1>2. IsFiniteSet(BOOLEAN)
  <2>1. BOOLEAN = {TRUE} \cup {FALSE}
    OBVIOUS
  <2>2. IsFiniteSet({TRUE})
    BY FS_Singleton
  <2> QED BY <2>1, <2>2, FS_AddElement
<1>3. IsFiniteSet(Col!Droppers)
  <2>1. IsFiniteSet(Cns \cup BaseTeams)
    BY <1>1, FS_Union
  <2>2. IsFiniteSet((Cns \cup BaseTeams) \cup {Unowned})
    BY <2>1, FS_AddElement
  <2> QED BY <2>2 DEF Col!Droppers
<1>4. IsFiniteSet(S)
  <2>1. IsFiniteSet(Sides \X BOOLEAN)
    BY <1>1, <1>2, FS_Product
  <2> QED BY <1>3, <2>1, FS_Product
<1>5. f \in Surjection(S, All)
  <2>1. f \in [S -> All]
    OBVIOUS
  <2>2. ASSUME NEW k \in All PROVE \E p \in S : f[p] = k
    <3>1. /\ k.team \in Sides /\ k.foe \in BOOLEAN /\ k.dropper \in Col!Droppers
          /\ k = [team |-> k.team, foe |-> k.foe, dropper |-> k.dropper]
      OBVIOUS
    <3>2. <<<<k.team, k.foe>>, k.dropper>> \in S
      BY <3>1
    <3>3. f[<<<<k.team, k.foe>>, k.dropper>>] = k
      BY <3>1, <3>2
    <3> QED BY <3>2, <3>3
  <2> HIDE DEF f, S, All
  <2> QED BY <2>1, <2>2 DEF Surjection
<1>6. Col!Kinds \in SUBSET All
  BY DEF Col!Kinds, Sides
<1> HIDE DEF f, S, All
<1>7. IsFiniteSet(All)
  BY <1>4, <1>5, FS_Surjection
<1> QED BY <1>6, <1>7, FS_Subset

LEMMA PiecesOf ==
  ASSUME NEW bag, NEW ks
  PROVE  \A x : x \in Col!Pieces(bag, ks) <=> \E k \in ks : \E n \in 1..bag[k] : x = <<k, n>>
BY DEF Col!Pieces

LEMMA PiecesFinite ==
  ASSUME NEW ks \in SUBSET Col!Kinds, NEW bag, \A k \in ks : bag[k] \in Nat
  PROVE  IsFiniteSet(Col!Pieces(bag, ks)) /\ Col!Number(bag, ks) \in Nat
<1> DEFINE g == [k \in ks |-> {k} \X (1..bag[k])]
           T == {g[k] : k \in ks}
<1>1. IsFiniteSet(ks)
  BY FiniteKinds, FS_Subset
<1>2. g \in Surjection(ks, T)
  BY DEF Surjection
<1>3. IsFiniteSet(T)
  <2> HIDE DEF g, T
  <2> QED BY <1>1, <1>2, FS_Surjection
<1>4. ASSUME NEW k \in ks PROVE IsFiniteSet({k} \X (1..bag[k]))
  <2>1. IsFiniteSet({k})
    BY FS_Singleton
  <2>2. IsFiniteSet(1..bag[k])
    BY FS_Interval
  <2> QED BY <2>1, <2>2, FS_Product
<1>5. Col!Pieces(bag, ks) = UNION T
  BY DEF Col!Pieces
<1>6. \A t \in T : IsFiniteSet(t)
  BY <1>4
<1>7. IsFiniteSet(UNION T)
  <2> HIDE DEF T
  <2> QED BY <1>3, <1>6, FS_UNION
<1> QED BY <1>5, <1>7, FS_CardinalityType, SameCount

\* Fewer tokens of every kind are fewer tokens.
LEMMA NumberMono ==
  ASSUME NEW ks \in SUBSET Col!Kinds, NEW a, NEW b,
         \A k \in ks : a[k] \in Nat /\ b[k] \in Nat /\ a[k] <= b[k]
  PROVE  Col!Number(a, ks) <= Col!Number(b, ks)
<1>1. \A x \in Col!Pieces(a, ks) : x \in Col!Pieces(b, ks)
  BY PiecesOf
<1>2. IsFiniteSet(Col!Pieces(b, ks))
  BY PiecesFinite
<1>3. Col!Pieces(a, ks) \in SUBSET Col!Pieces(b, ks)
  BY <1>1
<1> QED BY <1>2, <1>3, FS_Subset, SameCount

LEMMA NumberSame ==
  ASSUME NEW ks, NEW a, NEW b, \A k \in ks : a[k] = b[k]
  PROVE  Col!Number(a, ks) = Col!Number(b, ks)
<1>1. \A x : x \in Col!Pieces(a, ks) <=> x \in Col!Pieces(b, ks)
  BY PiecesOf
<1>2. Col!Pieces(a, ks) = Col!Pieces(b, ks)
  BY <1>1
<1> QED BY <1>2, SameCount

\* Kinds apart are counted apart.
LEMMA NumberSplit ==
  ASSUME NEW ks \in SUBSET Col!Kinds, NEW js \in SUBSET Col!Kinds, ks \cap js = {},
         NEW bag, \A k \in ks \cup js : bag[k] \in Nat
  PROVE  Col!Number(bag, ks \cup js) = Col!Number(bag, ks) + Col!Number(bag, js)
<1> DEFINE P(S) == Col!Pieces(bag, S)
<1>1. IsFiniteSet(P(ks)) /\ IsFiniteSet(P(js))
  BY PiecesFinite
<1>2. P(ks \cup js) = P(ks) \cup P(js)
  <2>1. \A x : x \in P(ks \cup js) <=> x \in P(ks) \cup P(js)
    BY PiecesOf
  <2> QED BY <2>1
<1>3. P(ks) \cap P(js) = {}
  <2>1. ASSUME NEW x, x \in P(ks), x \in P(js) PROVE FALSE
    BY <2>1, PiecesOf
  <2> QED BY <2>1
<1>4. Col!Number(bag, ks) \in Nat /\ Col!Number(bag, js) \in Nat
  BY PiecesFinite
<1>5. Cardinality(P(ks) \cup P(js)) = Cardinality(P(ks)) + Cardinality(P(js)) - Cardinality(P(ks) \cap P(js))
  BY <1>1, FS_Union
<1>6. Cardinality(P(ks) \cap P(js)) = 0
  BY <1>3, FS_EmptySet
<1>7. /\ Col!Number(bag, ks) = Cardinality(P(ks)) /\ Col!Number(bag, js) = Cardinality(P(js))
      /\ Col!Number(bag, ks \cup js) = Cardinality(P(ks \cup js))
  BY SameCount
<1>8. Cardinality(P(ks \cup js)) = Cardinality(P(ks) \cup P(js))
  BY <1>2
<1> HIDE DEF P
<1> QED BY <1>4, <1>5, <1>6, <1>7, <1>8

LEMMA NumberOne ==
  ASSUME NEW k, NEW bag, bag[k] \in Nat
  PROVE  Col!Number(bag, {k}) = bag[k]
<1>1. Col!Pieces(bag, {k}) = {k} \X (1..bag[k])
  BY DEF Col!Pieces
<1>2. IsFiniteSet({k}) /\ Cardinality({k}) = 1
  BY FS_Singleton
<1>3. IsFiniteSet(1..bag[k]) /\ Cardinality(1..bag[k]) = bag[k]
  BY FS_Interval
<1>4. Cardinality({k} \X (1..bag[k])) = bag[k]
  <2>1. Cardinality({k} \X (1..bag[k])) = Cardinality({k}) * Cardinality(1..bag[k])
    BY <1>2, <1>3, FS_Product
  <2> QED BY <1>2, <1>3, <2>1
<1>5. Col!Number(bag, {k}) = Cardinality({k} \X (1..bag[k]))
  BY <1>1, SameCount
<1> QED BY <1>4, <1>5

\* Tokens more of one kind are as many tokens more.
LEMMA NumberMore ==
  ASSUME NEW ks \in SUBSET Col!Kinds, NEW j \in ks, NEW m \in Nat, NEW a, NEW b,
         \A k \in ks : a[k] \in Nat /\ b[k] \in Nat,
         b[j] = a[j] + m, \A k \in ks : k # j => b[k] = a[k]
  PROVE  Col!Number(b, ks) = Col!Number(a, ks) + m
<1> DEFINE r == ks \ {j}
<1>1. /\ r \in SUBSET Col!Kinds /\ {j} \in SUBSET Col!Kinds /\ r \cap {j} = {} /\ ks = r \cup {j}
      /\ \A k \in r \cup {j} : a[k] \in Nat /\ b[k] \in Nat
      /\ \A k \in r : b[k] = a[k] /\ a[k] \in Nat
  OBVIOUS
<1> HIDE DEF r
<1>2. Col!Number(a, ks) = Col!Number(a, r) + Col!Number(a, {j})
  BY <1>1, NumberSplit
<1>3. Col!Number(b, ks) = Col!Number(b, r) + Col!Number(b, {j})
  BY <1>1, NumberSplit
<1>4. Col!Number(b, r) = Col!Number(a, r)
  BY <1>1, NumberSame
<1>5. Col!Number(a, {j}) = a[j] /\ Col!Number(b, {j}) = b[j]
  BY NumberOne
<1>6. Col!Number(a, r) \in Nat
  BY <1>1, PiecesFinite
<1> QED BY <1>2, <1>3, <1>4, <1>5, <1>6

Own(d, t) == {k \in Col!Of(d) : Col!Friendly(k, t)}
Foreign(d, t) == {k \in Col!Of(d) : ~Col!Friendly(k, t)}

LEMMA Sorts ==
  ASSUME NEW d, NEW t
  PROVE  /\ Col!Of(d) \in SUBSET Col!Kinds
         /\ Own(d, t) \in SUBSET Col!Kinds /\ Foreign(d, t) \in SUBSET Col!Kinds
         /\ Own(d, t) \cap Foreign(d, t) = {} /\ Own(d, t) \cup Foreign(d, t) = Col!Of(d)
BY DEF Own, Foreign, Col!Of

\* A trim leaves at most n.
LEMMA TrimBound ==
  ASSUME NEW bag, NEW S \in SUBSET Col!Kinds, NEW n \in Nat, NEW g \in Col!Trims(bag, S, n)
  PROVE  DOMAIN g = S /\ Col!Number(g, S) <= n
<1>1. CASE Col!Number(bag, S) <= n
  <2>1. g = [k \in S |-> bag[k]]
    BY <1>1 DEF Col!Trims
  <2>2. DOMAIN g = S /\ \A k \in S : g[k] = bag[k]
    BY <2>1
  <2>3. Col!Number(g, S) = Col!Number(bag, S)
    BY <2>2, NumberSame
  <2> QED BY <1>1, <2>2, <2>3
<1>2. CASE ~(Col!Number(bag, S) <= n)
  <2>1. g \in [S -> 0..n] /\ Col!Number(g, S) = n
    BY <1>2 DEF Col!Trims
  <2> QED BY <2>1
<1> QED BY <1>1, <1>2

\* Limited leaves the tokens of others, and of d's no more than it says.
LEMMA LimitedBound ==
  ASSUME NEW bag \in [Col!Kinds -> Nat], NEW d, NEW t, NEW friendly \in Nat, NEW enemy \in Nat,
         NEW r \in Col!Limited(bag, d, t, friendly, enemy)
  PROVE  /\ \A k \in Col!Kinds : k.dropper # d => r[k] = bag[k]
         /\ Col!Number(r, Own(d, t)) <= friendly
         /\ Col!Number(r, Foreign(d, t)) <= enemy
<1> DEFINE F == Own(d, t)
           E == Foreign(d, t)
<1>1. PICK f \in Col!Trims(bag, F, friendly), e \in Col!Trims(bag, E, enemy) :
        r = Col!Override(Col!Override(bag, f), e)
  BY DEF Col!Limited, Own, Foreign
<1>2. F \in SUBSET Col!Kinds /\ E \in SUBSET Col!Kinds /\ F \cap E = {}
  BY Sorts
<1>3. \A k \in Col!Kinds : k.dropper # d => k \notin F /\ k \notin E
  BY DEF Own, Foreign, Col!Of
<1> HIDE DEF F, E
<1>4. DOMAIN f = F /\ DOMAIN e = E /\ Col!Number(f, F) <= friendly /\ Col!Number(e, E) <= enemy
  BY <1>2, TrimBound
<1>5. r = [k \in Col!Kinds |-> IF k \in E THEN e[k] ELSE IF k \in F THEN f[k] ELSE bag[k]]
  BY <1>1, <1>4 DEF Col!Override
<1>6. /\ \A k \in F : r[k] = f[k]
      /\ \A k \in E : r[k] = e[k]
      /\ \A k \in Col!Kinds : k.dropper # d => r[k] = bag[k]
  BY <1>2, <1>3, <1>5
<1>7. Col!Number(r, F) = Col!Number(f, F) /\ Col!Number(r, E) = Col!Number(e, E)
  BY <1>6, NumberSame
<1> QED BY <1>4, <1>6, <1>7 DEF F, E

\* The tokens of dropper d are within its limit: those of a base together, those
\* of a player, or of no one, as a side tells friendly from enemy ones; of a player
\* who was without a base, whose tokens are all friendly then, twice as many.
Most(d) == IF d = Unowned THEN UNOWNEDTOKENLIMIT ELSE TOKENLIMIT
Split(bag, d, t) ==
  /\ Col!Number(bag, Foreign(d, t)) <= Most(d)
  /\ \/ t = NoBase /\ d # Unowned
     \/ Col!Number(bag, Own(d, t)) <= Most(d)
Lawful(bag, d) ==
  IF d \in BaseTeams THEN Col!Number(bag, Col!Of(d)) <= Most(d)
  ELSE /\ \E t \in Sides : Split(bag, d, t)
       /\ d # Unowned => Col!Number(bag, Col!Of(d)) <= 2 * Most(d)
Within == \A d \in Col!Droppers : Lawful(tokens, d)

LEMMA MostNat == \A d : Most(d) \in Nat
BY ModesAssumption DEF Most

\* Who a dropper is.
LEMMA Apart ==
  /\ \A c \in Cns : c \notin BaseTeams /\ c # Unowned /\ c \in Col!Droppers /\ Most(c) = TOKENLIMIT
  /\ Unowned \notin BaseTeams /\ Unowned \in Col!Droppers /\ Most(Unowned) = UNOWNEDTOKENLIMIT
  /\ \A b \in BaseTeams : b # Unowned /\ b \in Col!Droppers /\ Most(b) = TOKENLIMIT
  /\ NoBase \notin BaseTeams
BY ModesAssumption DEF Most, Col!Droppers

LEMMA NumberZero ==
  ASSUME NEW S, NEW bag, \A k \in S : bag[k] = 0
  PROVE  Col!Number(bag, S) = 0
<1>1. Col!Pieces(bag, S) = {}
  <2>1. ASSUME NEW x, x \in Col!Pieces(bag, S) PROVE FALSE
    BY <2>1, PiecesOf
  <2> QED BY <2>1
<1> QED BY <1>1, SameCount, FS_EmptySet

LEMMA WithinMeans ==
  ASSUME Within, TokTypes
  PROVE  TokenBound
<1>1. ASSUME NEW c \in Cns
      PROVE  /\ Col!Number(tokens, Col!Of(c)) <= 2 * TOKENLIMIT
             /\ Strays(c) = {} => Halves(c, TOKENLIMIT)
  <2>1. Lawful(tokens, c) /\ c \notin BaseTeams /\ c # Unowned /\ Most(c) = TOKENLIMIT
    BY Apart DEF Within
  <2>2. PICK t \in Sides : Split(tokens, c, t)
    BY <2>1 DEF Lawful
  <2>3. ASSUME Strays(c) = {} PROVE Col!Number(tokens, Own(c, t)) <= TOKENLIMIT
    <3>1. CASE t = NoBase
      <4>1. ASSUME NEW k \in Own(c, t) PROVE tokens[k] = 0
        <5>1. k \in Col!Of(c) /\ k \in Col!Kinds /\ k.team = NoBase
          BY <3>1 DEF Own, Col!Of, Col!Friendly
        <5>2. tokens[k] \in Nat
          BY <5>1 DEF TokTypes
        <5> QED BY <2>3, <5>1, <5>2 DEF Strays
      <4>2. Col!Number(tokens, Own(c, t)) = 0
        BY <4>1, NumberZero
      <4> QED BY <4>2, ModesAssumption
    <3>2. CASE t # NoBase
      BY <2>1, <2>2, <3>2 DEF Split
    <3> QED BY <3>1, <3>2
  <2>4. Strays(c) = {} => Halves(c, TOKENLIMIT)
    BY <2>1, <2>2, <2>3 DEF Split, Halves, Own, Foreign, Sides
  <2> QED BY <2>1, <2>4 DEF Lawful
<1>2. Halves(Unowned, UNOWNEDTOKENLIMIT)
  <2>1. Lawful(tokens, Unowned)
    BY Apart DEF Within
  <2>2. PICK t \in Sides : Split(tokens, Unowned, t)
    BY <2>1, Apart DEF Lawful
  <2> QED BY <2>2, Apart DEF Split, Halves, Own, Foreign, Sides
<1>3. ASSUME NEW b \in BaseTeams PROVE Col!Number(tokens, Col!Of(b)) <= TOKENLIMIT
  BY Apart DEF Within, Lawful
<1> QED BY <1>1, <1>2, <1>3 DEF TokenBound

\* Fewer tokens of any of the kinds are fewer in number.
LEMMA NumberFewer ==
  ASSUME NEW bag, NEW less, NEW S \in SUBSET Col!Kinds, NEW n \in Nat, Col!Number(bag, S) <= n,
         \A k \in S : less[k] \in Nat /\ bag[k] \in Nat /\ less[k] <= bag[k]
  PROVE  Col!Number(less, S) <= n
<1>1. Col!Number(less, S) <= Col!Number(bag, S)
  BY NumberMono
<1>2. Col!Number(less, S) \in Nat /\ Col!Number(bag, S) \in Nat
  BY PiecesFinite
<1> QED BY <1>1, <1>2

\* A dropper who has no more of anything stays within its limit.
LEMMA LawfulFewer ==
  ASSUME NEW bag, NEW less, NEW d, Lawful(bag, d),
         \A k \in Col!Of(d) : less[k] \in Nat /\ bag[k] \in Nat /\ less[k] <= bag[k]
  PROVE  Lawful(less, d)
<1>0. Most(d) \in Nat /\ 2 * Most(d) \in Nat /\ Col!Of(d) \in SUBSET Col!Kinds
  BY MostNat DEF Col!Of
<1>1. CASE d \in BaseTeams
  <2>1. Col!Number(bag, Col!Of(d)) <= Most(d)
    BY <1>1 DEF Lawful
  <2>2. Col!Number(less, Col!Of(d)) <= Most(d)
    BY <1>0, <2>1, NumberFewer
  <2> QED BY <1>1, <2>2 DEF Lawful
<1>2. CASE d \notin BaseTeams
  <2>1. PICK t \in Sides : Split(bag, d, t)
    BY <1>2 DEF Lawful
  <2>2. /\ Own(d, t) \in SUBSET Col!Kinds /\ Own(d, t) \subseteq Col!Of(d)
        /\ Foreign(d, t) \in SUBSET Col!Kinds /\ Foreign(d, t) \subseteq Col!Of(d)
    BY Sorts
  <2>3. \/ t = NoBase /\ d # Unowned
        \/ Col!Number(less, Own(d, t)) <= Most(d)
    BY <1>0, <2>1, <2>2, NumberFewer DEF Split
  <2>4. Col!Number(less, Foreign(d, t)) <= Most(d)
    BY <1>0, <2>1, <2>2, NumberFewer DEF Split
  <2>5. d # Unowned => Col!Number(less, Col!Of(d)) <= 2 * Most(d)
    <3> SUFFICES ASSUME d # Unowned PROVE Col!Number(less, Col!Of(d)) <= 2 * Most(d)
      OBVIOUS
    <3>1. Col!Number(bag, Col!Of(d)) <= 2 * Most(d)
      BY <1>2 DEF Lawful
    <3> QED BY <1>0, <3>1, NumberFewer
  <2> QED BY <1>2, <2>3, <2>4, <2>5 DEF Lawful, Split
<1> QED BY <1>1, <1>2

\* The tokens of all but dropper d become no more, those of d are within bounds.
LEMMA OthersFewer ==
  ASSUME Within, tokens \in [Col!Kinds -> Nat], tokens' \in [Col!Kinds -> Nat], NEW d,
         \A k \in Col!Kinds : k.dropper # d => tokens'[k] <= tokens[k],
         Lawful(tokens', d)
  PROVE  Within'
<1>1. ASSUME NEW x \in Col!Droppers PROVE Lawful(tokens', x)
  <2>1. CASE x = d
    BY <2>1
  <2>2. CASE x # d
    <3>1. \A k \in Col!Of(x) : k \in Col!Kinds /\ k.dropper = x
      BY DEF Col!Of
    <3>2. \A k \in Col!Of(x) : tokens'[k] \in Nat /\ tokens[k] \in Nat /\ tokens'[k] <= tokens[k]
      BY <2>2, <3>1
    <3>3. Lawful(tokens, x)
      BY DEF Within
    <3> QED BY <3>2, <3>3, LawfulFewer
  <2> QED BY <2>1, <2>2
<1>2. (\A x \in Col!Droppers : Lawful(tokens', x)) => Within'
  BY DEF Within, Lawful, Split, Sides, Most, Own, Foreign, Col!Droppers, Col!Of, Col!Kinds, Col!Friendly
<1> QED BY <1>1, <1>2

LEMMA FewerWithin ==
  ASSUME Within, tokens \in [Col!Kinds -> Nat], tokens' \in [Col!Kinds -> Nat],
         \A k \in Col!Kinds : tokens'[k] <= tokens[k]
  PROVE  Within'
<1>1. Unowned \in Col!Droppers /\ Col!Of(Unowned) \in SUBSET Col!Kinds
  BY DEF Col!Droppers, Col!Of
<1>2. Lawful(tokens, Unowned)
  BY <1>1 DEF Within
<1>3. Lawful(tokens', Unowned)
  BY <1>1, <1>2, LawfulFewer
<1> QED BY <1>3, OthersFewer

\* droptokens makes room for what it drops.
LEMMA DropWithin ==
  ASSUME Within, TokTypes, NEW c \in Cns, NEW penalty, Col!droptokens(c, penalty), TokTypes'
  PROVE  Within'
<1> DEFINE n == IF penalty THEN 0 ELSE held[c]
           t == Col!Base(c)
           a == Col!Kind(t, FALSE, c)
           b == Col!Kind(t, TRUE, c)
           F == Own(c, t)
           E == Foreign(c, t)
<1>0. /\ tokens \in [Col!Kinds -> Nat] /\ tokens' \in [Col!Kinds -> Nat] /\ held[c] \in 0..TOKENLIMIT
      /\ t \in Sides
  BY BaseSide DEF TokTypes
<1>1. CASE notgotbases
  <2>1. tokens' = tokens
    BY <1>1 DEF Col!droptokens, Col!vars
  <2> QED BY <2>1, <1>0, FewerWithin
<1>2. CASE ~notgotbases
  <2>1. PICK r \in Col!Limited(tokens, c, t, TOKENLIMIT - 1, TOKENLIMIT - n) : tokens' = Col!Dropped(r, c, n)
    BY <1>2 DEF Col!droptokens
  <2>2. n \in 0..TOKENLIMIT
    BY <1>0, ModesAssumption
  <2>3. TOKENLIMIT - 1 \in Nat /\ TOKENLIMIT - n \in Nat /\ TOKENLIMIT \in Nat
    BY <2>2, ModesAssumption
  <2>4. r \in [Col!Kinds -> Nat] /\ \A k \in Col!Kinds : r[k] <= tokens[k]
    BY <1>0, LimitedTakes
  <2>5. Col!Number(r, F) <= TOKENLIMIT - 1 /\ Col!Number(r, E) <= TOKENLIMIT - n
    <3>1. tokens \in [Col!Kinds -> Nat]
      BY <1>0
    <3> HIDE DEF t, n
    <3> QED BY <2>3, <3>1, LimitedBound
  <2>6. tokens' = [[r EXCEPT ![a] = r[a] + 1] EXCEPT ![b] = @ + n]
    BY <2>1 DEF Col!Dropped
  <2>7. a \in Col!Kinds /\ b \in Col!Kinds /\ a.dropper = c /\ b.dropper = c
    BY <1>0, KindTyped, Apart
  <2>8. /\ a \in F /\ a \notin E
        /\ t \in BaseTeams => b # a /\ b \in E /\ b \notin F
        /\ t = NoBase => b = a
    BY <2>7, Apart DEF Own, Foreign, Col!Of, Col!Friendly, Col!Kind
  <2>9. /\ F \in SUBSET Col!Kinds /\ E \in SUBSET Col!Kinds
        /\ F \cap E = {} /\ F \cup E = Col!Of(c)
    BY Sorts
  <2>10. n \in Nat
    BY <2>2, <2>3
  <2> HIDE DEF n, a, b, F, E, t
  <2>11. \A k \in Col!Kinds : k # a /\ k # b => tokens'[k] = r[k]
    BY <2>4, <2>6, <2>7, <2>10
  <2>12. /\ \A k \in F : r[k] \in Nat /\ tokens'[k] \in Nat
         /\ \A k \in E : r[k] \in Nat /\ tokens'[k] \in Nat
    BY <1>0, <2>4, <2>9
  <2>13. Col!Number(r, F) \in Nat /\ Col!Number(r, E) \in Nat
    BY <2>12, <2>9, PiecesFinite
  <2>14. /\ t \in BaseTeams => /\ Col!Number(tokens', F) = Col!Number(r, F) + 1
                               /\ Col!Number(tokens', E) = Col!Number(r, E) + n
         /\ t = NoBase => /\ Col!Number(tokens', F) = Col!Number(r, F) + 1 + n
                          /\ Col!Number(tokens', E) = Col!Number(r, E)
    <3>1. CASE t \in BaseTeams
      <4>1. a \in F /\ b \in E /\ a \notin E /\ b \notin F /\ a # b /\ NoBase \notin BaseTeams
        BY <3>1, <2>8, Apart
      <4>2. tokens'[a] = r[a] + 1 /\ tokens'[b] = r[b] + n
        BY <2>4, <2>6, <2>7, <2>10, <4>1
      <4>3. Col!Number(tokens', F) = Col!Number(r, F) + 1
        <5>1. \A k \in F : k # a => tokens'[k] = r[k]
          BY <2>9, <2>11, <4>1
        <5> QED BY <5>1, <2>9, <2>12, <4>1, <4>2, NumberMore
      <4>4. Col!Number(tokens', E) = Col!Number(r, E) + n
        <5>1. \A k \in E : k # b => tokens'[k] = r[k]
          BY <2>9, <2>11, <4>1
        <5> QED BY <5>1, <2>9, <2>10, <2>12, <4>1, <4>2, NumberMore
      <4> QED BY <3>1, <4>1, <4>3, <4>4
    <3>2. CASE t = NoBase
      <4>1. a \in F /\ b = a /\ a \notin E /\ t \notin BaseTeams
        BY <3>2, <2>8, Apart
      <4> DEFINE r1 == [r EXCEPT ![a] = r[a] + 1]
      <4>2. PICK m \in Nat : m = 1 + n
        BY <2>10
      <4>3. tokens'[a] = r[a] + m
        <5>1. r[a] \in Nat /\ DOMAIN r = Col!Kinds
          BY <2>4, <2>7
        <5>2. DOMAIN r1 = Col!Kinds /\ r1[a] = r[a] + 1
          BY <2>7, <5>1
        <5>3. tokens' = [r1 EXCEPT ![a] = r1[a] + n]
          BY <2>6, <4>1
        <5> HIDE DEF r1
        <5>4. tokens'[a] = r1[a] + n
          BY <2>7, <5>2, <5>3
        <5> QED BY <2>10, <4>2, <5>1, <5>2, <5>4
      <4>5. Col!Number(tokens', F) = Col!Number(r, F) + m
        <5>1. \A k \in F : k # a => tokens'[k] = r[k]
          BY <2>9, <2>11, <4>1
        <5> QED BY <5>1, <2>9, <2>12, <4>1, <4>3, NumberMore
      <4>4. Col!Number(tokens', E) = Col!Number(r, E)
        <5>1. \A k \in E : tokens'[k] = r[k]
          BY <2>9, <2>11, <4>1
        <5> QED BY <5>1, NumberSame
      <4> QED BY <4>1, <4>2, <4>4, <4>5, <2>10, <2>13
    <3> QED BY <3>1, <3>2, <1>0 DEF Sides, t
  <2>15. c \notin BaseTeams /\ c # Unowned /\ Most(c) = TOKENLIMIT
    BY Apart
  <2>16. Split(tokens', c, t)
    <3>1. Col!Number(tokens', E) <= TOKENLIMIT
      BY <1>0, <2>2, <2>3, <2>5, <2>13, <2>14 DEF Sides, t
    <3>2. t = NoBase \/ Col!Number(tokens', F) <= TOKENLIMIT
      BY <1>0, <2>3, <2>5, <2>13, <2>14 DEF Sides, t
    <3> QED BY <2>15, <3>1, <3>2 DEF Split, F, E
  <2>17. Col!Number(tokens', Col!Of(c)) <= 2 * TOKENLIMIT
    <3>1. Col!Number(tokens', Col!Of(c)) = Col!Number(tokens', F) + Col!Number(tokens', E)
      <4>1. \A k \in F \cup E : tokens'[k] \in Nat
        BY <2>12
      <4> QED BY <2>9, <4>1, NumberSplit
    <3> QED BY <1>0, <2>2, <2>3, <2>5, <2>10, <2>13, <2>14, <3>1 DEF Sides, t
  <2>18. Lawful(tokens', c)
    BY <1>0, <2>15, <2>16, <2>17 DEF Lawful, t
  <2>19. \A k \in Col!Kinds : k.dropper # c => tokens'[k] <= tokens[k]
    BY <2>4, <2>7, <2>11
  <2> QED BY <1>0, <2>18, <2>19, OthersFewer
<1> QED BY <1>1, <1>2

\* leavegame of one who disconnects limits the tokens it leaves behind.
LEMMA LeaveWithin ==
  ASSUME Within, TokTypes, NEW c \in Cns, Col!leaveserver(c), TokTypes'
  PROVE  Within'
<1> DEFINE D == Col!Disowned(c)
           t == Col!Base(c)
           F == Own(Unowned, t)
           E == Foreign(Unowned, t)
           U == UNOWNEDTOKENLIMIT
<1>0. tokens \in [Col!Kinds -> Nat] /\ tokens' \in [Col!Kinds -> Nat]
  BY DEF TokTypes
<1>1. tokens' \in Col!Limited(D, Unowned, t, U, U)
  BY DEF Col!leaveserver
<1>2. c # Unowned /\ U \in Nat
  BY ModesAssumption
<1>3. ASSUME NEW k \in Col!Kinds
      PROVE  D[k] \in Nat /\ (k.dropper # Unowned => D[k] <= tokens[k])
  <2>1. tokens[k] \in Nat /\ tokens[[k EXCEPT !.dropper = c]] \in Nat
    <3>1. [k EXCEPT !.dropper = c] \in Col!Kinds
      BY OtherDropper, DroppersAre
    <3> QED BY <1>0, <3>1
  <2>2. CASE k.dropper = c
    <3>1. D[k] = 0
      BY <2>2, <1>2 DEF Col!Disowned
    <3> QED BY <2>1, <3>1
  <2>3. CASE k.dropper # c /\ k.dropper = Unowned
    <3>1. D[k] = tokens[k] + tokens[[k EXCEPT !.dropper = c]]
      BY <2>3 DEF Col!Disowned
    <3> QED BY <2>1, <2>3, <3>1
  <2>4. CASE k.dropper # c /\ k.dropper # Unowned
    BY <2>1, <2>4 DEF Col!Disowned
  <2> QED BY <2>2, <2>3, <2>4
<1>4. D = [k \in Col!Kinds |-> D[k]]
  BY DEF Col!Disowned
<1> HIDE DEF D
<1>6. D \in [Col!Kinds -> Nat]
  BY <1>3, <1>4
<1>7. /\ \A k \in Col!Kinds : k.dropper # Unowned => tokens'[k] = D[k]
      /\ Col!Number(tokens', F) <= U /\ Col!Number(tokens', E) <= U
  BY <1>1, <1>2, <1>6, LimitedBound
<1>8. Unowned \notin BaseTeams /\ Most(Unowned) = U /\ t \in Sides
  BY Apart, BaseSide
<1> HIDE DEF F, E, t
<1>9. Lawful(tokens', Unowned)
  BY <1>7, <1>8 DEF Lawful, Split, F, E
<1>10. \A k \in Col!Kinds : k.dropper # Unowned => tokens'[k] <= tokens[k]
  BY <1>3, <1>7
<1> QED BY <1>0, <1>9, <1>10, OthersFewer

\* A base drops another token only below its limit.
LEMMA DepositWithin ==
  ASSUME Within, TokTypes, NEW c \in Cns, NEW base \in BaseTeams, Col!deposittokens(c, base),
         TokTypes'
  PROVE  Within'
<1> DEFINE k0 == Col!Kind(Col!Base(c), FALSE, base)
<1>0. tokens \in [Col!Kinds -> Nat] /\ tokens' \in [Col!Kinds -> Nat]
  BY DEF TokTypes
<1>1. \/ tokens' = tokens
      \/ /\ Col!Number(tokens, Col!Of(base)) < TOKENLIMIT
         /\ tokens' = [tokens EXCEPT ![k0] = @ + 1]
  BY DEF Col!deposittokens
<1>2. CASE tokens' = tokens
  BY <1>0, <1>2, FewerWithin
<1>3. CASE /\ Col!Number(tokens, Col!Of(base)) < TOKENLIMIT
           /\ tokens' = [tokens EXCEPT ![k0] = @ + 1]
  <2>2. k0.dropper = base /\ k0 \in Col!Kinds
    BY KindTyped, BaseSide, Apart
  <2>1. k0 \in Col!Kinds /\ k0 \in Col!Of(base) /\ Col!Of(base) \in SUBSET Col!Kinds
    BY <2>2 DEF Col!Of
  <2> HIDE DEF k0
  <2>3. /\ tokens'[k0] = tokens[k0] + 1
        /\ \A k \in Col!Kinds : k # k0 => tokens'[k] = tokens[k]
    BY <1>0, <1>3, <2>1
  <2>4. Col!Number(tokens', Col!Of(base)) = Col!Number(tokens, Col!Of(base)) + 1
    <3>1. /\ \A k \in Col!Of(base) : tokens[k] \in Nat /\ tokens'[k] \in Nat
          /\ \A k \in Col!Of(base) : k # k0 => tokens'[k] = tokens[k]
      BY <1>0, <2>1, <2>3
    <3> QED BY <2>1, <2>3, <3>1, NumberMore
  <2>5. Col!Number(tokens, Col!Of(base)) \in Nat /\ TOKENLIMIT \in Nat
    BY <1>0, <2>1, PiecesFinite, ModesAssumption
  <2>6. Most(base) = TOKENLIMIT
    BY Apart
  <2>7. Lawful(tokens', base)
    BY <1>3, <2>4, <2>5, <2>6 DEF Lawful
  <2>8. \A k \in Col!Kinds : k.dropper # base => tokens'[k] <= tokens[k]
    BY <1>0, <2>2, <2>3
  <2> QED BY <1>0, <2>7, <2>8, OthersFewer
<1> QED BY <1>1, <1>2, <1>3

LEMMA DiesWithin ==
  ASSUME Within, IInv, IInv', NEW c \in Cns, NEW actors, died(c, actors), client[c].life = "alive"
  PROVE  Within'
<1>1. TokTypes /\ TokTypes'
  BY DEF IInv, TokInv
<1>2. CASE UNCHANGED collectvars
  BY <1>1, <1>2, FewerWithin DEF TokTypes, collectvars
<1>3. CASE Col!died(c, actors)
  BY <1>1, <1>3, DropWithin DEF Col!died
<1> QED BY <1>2, <1>3 DEF died

LEMMA NextWithin ==
  ASSUME IInv, IInv', Within, [Next]_vars
  PROVE  Within'
<1>0. /\ TokTypes /\ TokTypes' /\ Persons
      /\ tokens \in [Col!Kinds -> Nat] /\ tokens' \in [Col!Kinds -> Nat]
  BY DEF IInv, TokInv, TokTypes
<1>same. ASSUME tokens' = tokens PROVE Within'
  BY <1>0, <1>same, FewerWithin
<1>1. ASSUME NEW c \in Cns, clientdisconnect(c) PROVE Within'
  <2>1. UNCHANGED collectvars \/ Col!leaveserver(c)
    BY <1>1 DEF clientdisconnect, leavegame
  <2> QED BY <2>1, <1>0, <1>same, LeaveWithin DEF collectvars
<1>2. ASSUME NEW c \in Cns, spectate(c) PROVE Within'
  <2>1. UNCHANGED collectvars \/ Col!leavegame(c)
    BY <1>2 DEF spectate, leavegame
  <2> QED BY <2>1, <1>same DEF collectvars, Col!leavegame
<1>3. ASSUME NEW c \in Cns, unspectate(c) PROVE Within'
  BY <1>3, <1>same DEF unspectate, Emptied
<1>4. ASSUME NEW c \in Cns, N_SPAWN(c) PROVE Within'
  BY <1>4, <1>same DEF N_SPAWN, spawned, collectvars
<1>5. ASSUME NEW c \in Cns, try_respawn(c) PROVE Within'
  BY <1>5, <1>same DEF try_respawn, collectvars
<1>6. ASSUME NEW c \in Cns, suicide(c) PROVE Within'
  BY <1>6, DiesWithin DEF suicide
<1>7. ASSUME NEW c \in Cns, player_slay(c) PROVE Within'
  BY <1>7, <1>same DEF player_slay, NoHook, collectvars
<1>8. ASSUME NEW c \in Cns, NEW t \in Teams, connected(c, t) PROVE Within'
  BY <1>8, <1>same DEF connected, collectvars
<1>9. ASSUME NEW c \in Cns, NEW t \in Teams, switchteam(c, t) PROVE Within'
  <2>1. (client[c].life = "alive" /\ died(c, {})) \/ UNCHANGED collectvars
    BY <1>9 DEF switchteam
  <2> QED BY <2>1, <1>same, DiesWithin DEF collectvars
<1>10. ASSUME NEW c \in Cns, NEW t \in Teams, balanceteams(c, t) PROVE Within'
  BY <1>10, <1>same DEF balanceteams, changeteam, collectvars
<1>11. ASSUME NEW c \in Cns, NEW t \in Teams, player_changeteam(c, t) PROVE Within'
  BY <1>11, <1>same DEF player_changeteam, NoHook, collectvars
<1>12. ASSUME NEW c \in Cns, NEW at \in Places, NEW clip \in BOOLEAN, N_POS(c, at, clip) PROVE Within'
  BY <1>12, <1>same DEF N_POS
<1>13. ASSUME NEW target \in Cns, NEW actor \in Cns, dodamage(target, actor) PROVE Within'
  BY <1>13, DiesWithin DEF dodamage
<1>14. ASSUME NEW mode \in Smodes, changemap(mode) PROVE Within'
  <2>1. tokens' = [k \in Col!Kinds |-> 0]
    BY <1>14 DEF changemap, Col!reset
  <2>2. \A k \in Col!Kinds : tokens'[k] <= tokens[k]
    BY <2>1, <1>0
  <2> QED BY <2>2, <1>0, FewerWithin
<1>15. CASE Capturing
  BY <1>15, <1>same DEF Capturing, CaptureTick, collectvars
<1>16. CASE Collecting
  <2>1. ASSUME NEW c \in Cns, NEW base \in BaseTeams, Col!deposittokens(c, base) PROVE Within'
    BY <1>0, <2>1, DepositWithin
  <2>2. ASSUME NEW c \in Cns, NEW k \in Col!Kinds, Col!taketoken(c, k) PROVE Within'
    BY <2>2, <1>same DEF Col!taketoken
  <2>3. ASSUME NEW k \in Col!Kinds, Col!update(k) PROVE Within'
    <3>1. tokens' = [tokens EXCEPT ![k] = @ - 1]
      BY <2>3 DEF Col!update
    <3>2. \A j \in Col!Kinds : tokens'[j] <= tokens[j]
      BY <1>0, <3>1
    <3> QED BY <3>2, <1>0, FewerWithin
  <2>4. CASE Col!parsebases
    BY <2>4, <1>same DEF Col!parsebases
  <2> QED BY <1>16, <2>1, <2>2, <2>3, <2>4 DEF Collecting
<1>17. CASE UNCHANGED vars
  BY <1>17, <1>same DEF vars
<1>18. ASSUME NEW c \in Cns, reinitai(c) PROVE Within'
  BY <1>18, <1>same DEF reinitai, Emptied, collectvars
<1>19. CASE changetime
  BY <1>19, <1>same DEF changetime, collectvars
<1>20. ASSUME NEW val \in BOOLEAN, pausegame(val) PROVE Within'
  BY <1>20, <1>same DEF pausegame, collectvars
<1> QED
  BY <1>1, <1>2, <1>3, <1>4, <1>5, <1>6, <1>7, <1>8, <1>9, <1>10, <1>11, <1>12, <1>13,
     <1>14, <1>15, <1>16, <1>17, <1>18, <1>19, <1>20 DEF Next

LEMMA InitWithin ==
  ASSUME Init
  PROVE  Within
<1>1. ASSUME NEW S \in SUBSET Col!Kinds PROVE Col!Number(tokens, S) = 0
  <2>1. \A k \in S : tokens[k] = 0
    BY DEF Init
  <2> QED BY <2>1, NumberZero
<1>2. ASSUME NEW d \in Col!Droppers PROVE Lawful(tokens, d)
  <2>1. Most(d) \in Nat /\ NoBase \in Sides
    BY MostNat DEF Sides
  <2>2. Col!Number(tokens, Col!Of(d)) = 0
    BY <1>1, Sorts
  <2>3. Col!Number(tokens, Own(d, NoBase)) = 0 /\ Col!Number(tokens, Foreign(d, NoBase)) = 0
    BY <1>1, Sorts
  <2> QED BY <2>1, <2>2, <2>3 DEF Lawful, Split
<1> QED BY <1>2 DEF Within

\* However players die, change team and leave, of the skulls one of them leaves
\* behind, and of those no one owns any more, there are never more than their limit
\* of either sort: droptokens and leavegame trim the friendly and the enemy ones
\* apart, which are which depends on the team of the moment, and the split that the
\* last trim went by is the one that still holds.  Who has died in a team without a
\* base, where friendly and enemy ones are one sort, has at most twice the limit in
\* all.  A base never has more than its limit.
THEOREM TokensBounded == Spec => []TokenBound
<1>1. Init => Within
  BY InitWithin
<1>2. IInv /\ IInv' /\ Within /\ [Next]_vars => Within'
  BY NextWithin
<1>3. IInv /\ Within => TokenBound
  BY Parts, WithinMeans
<1> QED BY <1>1, <1>2, <1>3, Inductive, PTL DEF Spec

-----------------------------------------------------------------------------
(***************************************************************************)
(* An attack that all attackers have left: no hook of the mode lets it     *)
(* grow, and a tick takes from it.  (Liveness AttackDecays is this and     *)
(* that ticks go on.)                                                      *)
(***************************************************************************)
Left(b) == b.enemy # NoTeam /\ b.enemies = 0
Wanes(b, r) ==
  Left(b) => \/ r.enemy = NoTeam \/ r.enemies > 0
             \/ r.enemy = b.enemy /\ r.converted <= b.converted

LEMMA WanesSame ==
  ASSUME NEW b, Good(b)
  PROVE  Wanes(b, b)
BY DEF Wanes, Good, BaseStates

LEMMA WanesLeave ==
  ASSUME NEW b, Good(b), NEW t \in Teams
  PROVE  /\ Wanes(b, Cap!leave(b, t))
         /\ Left(b) => LET r == Cap!leave(b, t)
                       IN  r.enemy = b.enemy /\ r.enemies = 0 /\ r.converted = b.converted
<1>1. /\ b.owners \in Nat /\ b.enemies \in Nat /\ b.converted \in Nat
      /\ b = [owner |-> b.owner, enemy |-> b.enemy, owners |-> b.owners,
              enemies |-> b.enemies, converted |-> b.converted]
  BY DEF Good, BaseStates
<1>2. Left(b) => \/ Cap!leave(b, t) = b
                 \/ Cap!leave(b, t) = [b EXCEPT !.owners = @ - 1]
  BY <1>1 DEF Left, Cap!leave
<1> QED BY <1>1, <1>2 DEF Wanes, Left

LEMMA WanesAttack ==
  ASSUME NEW b, Good(b), NEW t \in Teams, NEW n \in Nat, n > 0
  PROVE  Wanes(b, Cap!Attack(b, t, n))
<1>1. Cap!Attack(b, t, n).enemies = n
  BY DEF Cap!Attack, Good, BaseStates
<1> QED BY <1>1 DEF Wanes

LEMMA WanesEnter ==
  ASSUME NEW b, Good(b), NEW t \in Teams
  PROVE  Wanes(b, Cap!enter(b, t))
<1>1. b.enemies \in Nat /\ b.owners \in Nat /\ b.converted \in Nat
  BY DEF Good, BaseStates
<1>2. CASE b.owner = t
  <2>1. Cap!enter(b, t) = [b EXCEPT !.owners = @ + 1]
    BY <1>2 DEF Cap!enter
  <2> QED BY <1>1, <2>1 DEF Wanes, Left, Good, BaseStates
<1>3. CASE b.owner # t /\ b.enemies = 0
  <2>1. Cap!enter(b, t) = Cap!Attack(b, t, 1)
    BY <1>3 DEF Cap!enter
  <2> QED BY <2>1, WanesAttack
<1>4. CASE b.enemies > 0
  BY <1>1, <1>4 DEF Wanes, Left
<1> QED BY <1>1, <1>2, <1>3, <1>4

\* A player who moves takes an attack over only with players inside.
LEMMA WanesMoving ==
  ASSUME GoodBases, NEW t \in Teams, NEW old, NEW oldclip \in BOOLEAN, NEW new, NEW newclip \in BOOLEAN,
         \A i \in old \cap new : Cap!Inside(i, t) # {} \/ oldclip \/ newclip,
         NEW i \in Bases
  PROVE  Wanes(bases[i], Cap!movebases(t, old, oldclip, new, newclip)[i])
<1> DEFINE b == bases[i]
           r == Cap!movebases(t, old, oldclip, new, newclip)[i]
           n == Cardinality(Cap!Inside(i, t))
<1>1. Good(b)
  BY DEF GoodBases
<1>2. \/ r = b \/ r = Cap!leave(b, t) \/ r = Cap!enter(b, t)
      \/ ~oldclip /\ ~newclip /\ i \in old \cap new /\ r = Cap!Attack(b, t, n)
  BY Moving
<1>3. i \in old \cap new /\ ~oldclip /\ ~newclip => n \in Nat /\ n > 0
  <2>1. Cap!Inside(i, t) \in SUBSET Cns
    BY DEF Cap!Inside
  <2>2. n \in Nat /\ IsFiniteSet(Cap!Inside(i, t))
    BY <2>1, SubsetSize
  <2>3. n = 0 => Cap!Inside(i, t) = {}
    BY <2>2, FS_EmptySet
  <2> QED BY <2>2, <2>3
<1> HIDE DEF b, r, n
<1>4. Wanes(b, r)
  BY <1>1, <1>2, <1>3, WanesSame, WanesLeave, WanesEnter, WanesAttack
<1> QED BY <1>4 DEF b, r

\* The bases after a step wane, or are as they were.
AllWane == \A i \in Bases : Wanes(bases[i], bases'[i])

LEMMA WaneSame ==
  ASSUME GoodBases, bases' = bases
  PROVE  AllWane
BY WanesSame DEF AllWane, GoodBases

LEMMA WaneLeaving ==
  ASSUME IInv, NEW c \in Cns, client[c].life # "off", Cap!died(c) \/ Cap!leavegame(c)
  PROVE  AllWane
<1>1. GoodBases /\ client[c].team \in Teams
  BY Parts, PersonFacts DEF CapInv
<1>2. bases' = bases \/ bases' = Cap!movebases(client[c].team, client[c].at, FALSE, {}, TRUE)
  BY DEF Cap!died, Cap!leavegame, Cap!leavebases
<1>3. ASSUME bases' = Cap!movebases(client[c].team, client[c].at, FALSE, {}, TRUE), NEW i \in Bases
      PROVE  Wanes(bases[i], bases'[i])
  BY <1>1, <1>3, WanesMoving
<1> QED BY <1>1, <1>2, <1>3, WaneSame DEF AllWane

LEMMA WaneEntering ==
  ASSUME IInv, NEW c \in Cns, client[c].life # "off", Cap!spawned(c)
  PROVE  AllWane
<1>1. GoodBases /\ client[c].team \in Teams
  BY Parts, PersonFacts DEF CapInv
<1>2. bases' = bases \/ bases' = Cap!movebases(client[c].team, {}, TRUE, client[c].at, FALSE)
  BY DEF Cap!spawned, Cap!enterbases
<1>3. ASSUME bases' = Cap!movebases(client[c].team, {}, TRUE, client[c].at, FALSE), NEW i \in Bases
      PROVE  Wanes(bases[i], bases'[i])
  BY <1>1, <1>3, WanesMoving
<1> QED BY <1>1, <1>2, <1>3, WaneSame DEF AllWane

LEMMA WaneMoved ==
  ASSUME IInv, NEW c \in Cns, client[c].life = "alive", NEW at, NEW clip \in BOOLEAN, Cap!moved(c, at, clip)
  PROVE  AllWane
<1>1. GoodBases /\ client[c].team \in Teams /\ client[c].clip \in BOOLEAN
  BY Parts, PersonFacts DEF CapInv
<1>2. bases' = bases
        \/ bases' = Cap!movebases(client[c].team, client[c].at, client[c].clip, at, clip)
  BY DEF Cap!moved
<1>3. \A i \in client[c].at \cap at : c \in Cap!Inside(i, client[c].team)
  BY DEF Cap!Inside
<1>4. ASSUME bases' = Cap!movebases(client[c].team, client[c].at, client[c].clip, at, clip),
             NEW i \in Bases
      PROVE  Wanes(bases[i], bases'[i])
  BY <1>1, <1>3, <1>4, WanesMoving
<1> QED BY <1>1, <1>2, <1>4, WaneSame DEF AllWane

LEMMA WaneTeam ==
  ASSUME IInv, NEW c \in Cns, client[c].life # "off", NEW t \in Teams, Cap!changeteam(c, t)
  PROVE  AllWane
<1> DEFINE old == client[c].team
           left == Cap!leavebases(c)
<1>1. GoodBases /\ old \in Teams /\ client[c].clip \in BOOLEAN
  BY Parts, PersonFacts DEF CapInv
<1>2. CASE notgotbases \/ client[c].clip \/ over
  <2>1. bases' = bases
    BY <1>2 DEF Cap!changeteam
  <2> QED BY <1>1, <2>1, WaneSame
<1>3. CASE ~(notgotbases \/ client[c].clip \/ over)
  <2> SUFFICES ASSUME NEW i \in Bases PROVE Wanes(bases[i], bases'[i])
    BY DEF AllWane
  <2>0. bases' = [j \in Bases |-> IF j \in client[c].at THEN Cap!enter(left[j], t) ELSE left[j]]
    BY <1>3 DEF Cap!changeteam
  <2> DEFINE b == bases[i]
             l == Cap!leave(b, old)
  <2>1. Good(b) /\ Good(l)
    BY <1>1, LeaveGood DEF GoodBases
  <2>2. /\ i \in client[c].at => left[i] = l
        /\ i \notin client[c].at => left[i] = b
    BY <1>3 DEF Cap!leavebases, Cap!movebases
  <2>3. bases'[i] = b \/ bases'[i] = Cap!enter(l, t)
    BY <2>0, <2>2
  <2> HIDE DEF b, left, l
  <2>4. Wanes(b, b) /\ Wanes(l, Cap!enter(l, t))
    BY <2>1, WanesSame, WanesEnter
  <2>5. Left(b) => l.enemy = b.enemy /\ l.enemies = 0 /\ l.converted = b.converted
    BY <1>1, <2>1, WanesLeave DEF l
  <2>6. Wanes(b, Cap!enter(l, t))
    BY <2>4, <2>5 DEF Wanes, Left
  <2> QED BY <2>3, <2>4, <2>6 DEF b
<1> QED BY <1>2, <1>3

\* A tick in which time passes takes at least two units.
LEMMA WaneTick ==
  ASSUME IInv, NEW seconds \in 0..MaxSeconds, Cap!update(seconds)
  PROVE  /\ AllWane
         /\ seconds > 0 => \A i \in Bases :
              Left(bases[i]) => bases'[i].enemy = NoTeam \/ bases'[i].converted < bases[i].converted
<1> SUFFICES ASSUME NEW i \in Bases
             PROVE  /\ Wanes(bases[i], bases'[i])
                    /\ seconds > 0 /\ Left(bases[i]) =>
                         bases'[i].enemy = NoTeam \/ bases'[i].converted < bases[i].converted
  BY DEF AllWane
<1> DEFINE b == bases[i]
           r == Cap!occupy(b, Cap!Units(b, seconds))
<1>1. Good(b) /\ seconds \in Nat
  BY Parts, ModesAssumption DEF CapInv, GoodBases
<1>2. bases'[i] = IF seconds > 0 /\ b.enemy # NoTeam /\ (b.owners = 0 \/ b.enemies = 0) THEN r ELSE b
  BY DEF Cap!update
<1> HIDE DEF b
<1>3. b.owners \in Nat /\ b.converted \in Nat
  BY <1>1 DEF Good, BaseStates
<1>4. ASSUME Left(b), seconds > 0
      PROVE  \/ r.enemy = NoTeam
             \/ r.enemy = b.enemy /\ r.converted < b.converted /\ r.converted <= b.converted
  <2> DEFINE u == Cap!Units(b, seconds)
  <2>1. u \in Int /\ u < 0
    <3>1. (1 + b.owners) * seconds \in Nat
      BY <1>1, <1>3, Products
    <3>2. u = -1 - (1 + b.owners) * seconds
      BY <1>4 DEF Left, Cap!Units
    <3> QED BY <3>1, <3>2
  <2> HIDE DEF u
  <2>2. r = IF b.converted + u <= 0 THEN Cap!noenemy(b) ELSE [b EXCEPT !.converted = b.converted + u]
    BY <2>1 DEF Cap!occupy, u
  <2>3. CASE b.converted + u <= 0
    BY <1>1, <2>2, <2>3 DEF Cap!noenemy, Good, BaseStates
  <2>4. CASE ~(b.converted + u <= 0)
    <3>1. r.enemy = b.enemy /\ r.converted = b.converted + u
      BY <1>1, <2>2, <2>4 DEF Good, BaseStates
    <3> QED BY <1>3, <2>1, <3>1
  <2> QED BY <2>3, <2>4
<1> HIDE DEF r
<1>5. CASE Left(b) /\ seconds > 0
  <2>1. bases'[i] = r
    BY <1>2, <1>5 DEF Left
  <2> QED BY <1>4, <1>5, <2>1 DEF Wanes, b
<1>6. CASE ~Left(b)
  BY <1>6 DEF Wanes, b
<1>7. CASE ~(seconds > 0)
  <2>1. bases'[i] = b
    BY <1>2, <1>7
  <2> QED BY <1>1, <1>7, <2>1, WanesSame DEF b
<1> QED BY <1>5, <1>6, <1>7

\* Where the map's bases are read, those with players inside are attacked.
LEMMA WaneParse ==
  ASSUME IInv, Cap!parsebases
  PROVE  AllWane
<1>1. PICK first \in [Bases -> Teams] :
        bases' = [i \in Bases |->
                    IF over \/ Cap!Counted(i, first[i]) = {} THEN Cap!NewBase
                    ELSE Cap!Attack(Cap!NewBase, first[i], Cap!Cardinality(Cap!Counted(i, first[i])))]
  BY DEF Cap!parsebases
<1>2. ASSUME NEW i \in Bases
      PROVE  Wanes(bases[i], bases'[i])
  <2> DEFINE S == Cap!Counted(i, first[i])
  <2>1. S \in SUBSET Cns
    BY DEF Cap!Counted, Cap!Inside
  <2>2. IsFiniteSet(S) /\ Cardinality(S) \in Nat
    BY <2>1, SubsetSize
  <2>3. S # {} => Cardinality(S) > 0
    BY <2>2, FS_EmptySet
  <2>4. \/ bases'[i] = Cap!NewBase
        \/ S # {} /\ bases'[i] = Cap!Attack(Cap!NewBase, first[i], Cardinality(S))
    BY <1>1, SameCardinality
  <2>5. CASE bases'[i] = Cap!NewBase
    BY <2>5 DEF Cap!NewBase, Wanes
  <2>6. CASE S # {} /\ bases'[i] = Cap!Attack(Cap!NewBase, first[i], Cardinality(S))
    <3>1. bases'[i].enemies = Cardinality(S)
      BY <2>6 DEF Cap!Attack, Cap!NewBase
    <3> QED BY <2>3, <2>6, <3>1 DEF Wanes
  <2> QED BY <2>4, <2>5, <2>6
<1> QED BY <1>2 DEF AllWane

LEMMA NextWanes ==
  ASSUME IInv, [Next]_vars
  PROVE  AllWane
<1>0. GoodBases
  BY Parts DEF CapInv
<1>same. ASSUME bases' = bases PROVE AllWane
  BY <1>0, <1>same, WaneSame
<1>dies. ASSUME NEW c \in Cns, NEW actors, died(c, actors), client[c].life = "alive" PROVE AllWane
  BY <1>same, <1>dies, WaneLeaving DEF died, capturevars
<1>leaves. ASSUME NEW c \in Cns, NEW disconnecting, leavegame(c, disconnecting), client[c].life # "off"
           PROVE  AllWane
  BY <1>same, <1>leaves, WaneLeaving DEF leavegame, capturevars
<1>1. ASSUME NEW c \in Cns, clientdisconnect(c) PROVE AllWane
  BY <1>1, <1>leaves DEF clientdisconnect
<1>2. ASSUME NEW c \in Cns, spectate(c) PROVE AllWane
  <2>1. leavegame(c, FALSE) /\ client[c].life # "off"
    BY <1>2 DEF spectate
  <2> QED BY <2>1, <1>leaves
<1>3. ASSUME NEW c \in Cns, unspectate(c) PROVE AllWane
  BY <1>3, <1>same DEF unspectate, Emptied, capturevars
<1>4. ASSUME NEW c \in Cns, N_SPAWN(c) PROVE AllWane
  <2>1. client[c].life # "off"
    BY <1>4 DEF N_SPAWN
  <2>2. Cap!spawned(c) \/ bases' = bases
    BY <1>4 DEF N_SPAWN, spawned, capturevars
  <2> QED BY <2>1, <2>2, <1>same, WaneEntering
<1>5. ASSUME NEW c \in Cns, try_respawn(c) PROVE AllWane
  BY <1>5, <1>same DEF try_respawn, capturevars
<1>6. ASSUME NEW c \in Cns, suicide(c) PROVE AllWane
  BY <1>6, <1>dies DEF suicide
<1>7. ASSUME NEW c \in Cns, player_slay(c) PROVE AllWane
  BY <1>7, <1>same DEF player_slay, NoHook, Cap!Unhooked, capturevars
<1>8. ASSUME NEW c \in Cns, NEW t \in Teams, connected(c, t) PROVE AllWane
  BY <1>8, <1>same DEF connected, capturevars
<1>9. ASSUME NEW c \in Cns, NEW t \in Teams, switchteam(c, t) PROVE AllWane
  <2>1. (client[c].life = "alive" /\ died(c, {})) \/ UNCHANGED capturevars
    BY <1>9 DEF switchteam
  <2> QED BY <2>1, <1>same, <1>dies DEF capturevars
<1>10. ASSUME NEW c \in Cns, NEW t \in Teams, balanceteams(c, t) PROVE AllWane
  <2>1. client[c].life # "off"
    BY <1>10 DEF balanceteams
  <2>2. Cap!changeteam(c, t) \/ bases' = bases
    BY <1>10 DEF balanceteams, changeteam, capturevars
  <2> QED BY <2>1, <2>2, <1>same, WaneTeam
<1>11. ASSUME NEW c \in Cns, NEW t \in Teams, player_changeteam(c, t) PROVE AllWane
  BY <1>11, <1>same DEF player_changeteam, NoHook, Cap!Unhooked, capturevars
<1>12. ASSUME NEW c \in Cns, NEW at \in Places, NEW clip \in BOOLEAN, N_POS(c, at, clip) PROVE AllWane
  <2>1. (client[c].life = "alive" /\ Cap!moved(c, at, clip)) \/ bases' = bases
    BY <1>12 DEF N_POS, capturevars
  <2> QED BY <2>1, <1>same, WaneMoved
<1>13. ASSUME NEW target \in Cns, NEW actor \in Cns, dodamage(target, actor) PROVE AllWane
  BY <1>13, <1>dies DEF dodamage
<1>14. ASSUME NEW mode \in Smodes, changemap(mode) PROVE AllWane
  <2>1. \A i \in Bases : bases'[i].enemy = NoTeam
    BY <1>14 DEF changemap, Cap!reset, Cap!NewBase
  <2> QED BY <2>1 DEF AllWane, Wanes
<1>15. CASE Capturing
  BY <1>15, WaneParse, WaneTick DEF Capturing, CaptureTick
<1>16. CASE Collecting
  BY <1>16, <1>same DEF Collecting, capturevars
<1>17. CASE UNCHANGED vars
  BY <1>17, <1>same DEF vars
<1>18. ASSUME NEW c \in Cns, reinitai(c) PROVE AllWane
  BY <1>18, <1>same DEF reinitai, Cap!reassigned, Emptied, capturevars
<1>19. CASE changetime
  BY <1>19, <1>same DEF changetime
<1>20. ASSUME NEW val \in BOOLEAN, pausegame(val) PROVE AllWane
  BY <1>20, <1>same DEF pausegame, capturevars
<1> QED
  BY <1>1, <1>2, <1>3, <1>4, <1>5, <1>6, <1>7, <1>8, <1>9, <1>10, <1>11, <1>12, <1>13,
     <1>14, <1>15, <1>16, <1>17, <1>18, <1>19, <1>20 DEF Next

\* An attack on a base without attackers ends, gets attackers, or goes on with no
\* more converted than before, and with less after a tick in which time passes.
AttackWanes ==
  [][\A i \in Bases :
       bases[i].enemy # NoTeam /\ bases[i].enemies = 0 =>
         \/ bases'[i].enemy = NoTeam \/ bases'[i].enemies > 0
         \/ /\ bases'[i].enemy = bases[i].enemy
            /\ bases'[i].converted <= bases[i].converted
            /\ (\E seconds \in 1..MaxSeconds : Cap!update(seconds))
                 => bases'[i].converted < bases[i].converted]_vars

\* Whatever players do, an attack that everybody has left does not grow, and the
\* ticks of baseinfo::occupy take it down: the safety half of AttackDecays.
THEOREM AttacksWane == Spec => AttackWanes
<1> DEFINE A ==
      \A i \in Bases :
        bases[i].enemy # NoTeam /\ bases[i].enemies = 0 =>
          \/ bases'[i].enemy = NoTeam \/ bases'[i].enemies > 0
          \/ /\ bases'[i].enemy = bases[i].enemy
             /\ bases'[i].converted <= bases[i].converted
             /\ (\E seconds \in 1..MaxSeconds : Cap!update(seconds))
                  => bases'[i].converted < bases[i].converted
<1>1. IInv /\ [Next]_vars => [A]_vars
  <2> SUFFICES ASSUME IInv, [Next]_vars PROVE A
    OBVIOUS
  <2>1. AllWane
    BY NextWanes
  <2>2. ASSUME NEW seconds \in 1..MaxSeconds, Cap!update(seconds), NEW i \in Bases, Left(bases[i])
        PROVE  bases'[i].enemy = NoTeam \/ bases'[i].converted < bases[i].converted
    <3>1. seconds \in 0..MaxSeconds /\ seconds > 0
      BY ModesAssumption
    <3> QED BY <2>2, <3>1, WaneTick
  <2> QED BY <2>1, <2>2 DEF AllWane, Wanes, Left
<1> QED BY <1>1, Inductive, PTL DEF Spec, AttackWanes
=============================================================================
