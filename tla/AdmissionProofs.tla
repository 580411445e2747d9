-------------------------- MODULE AdmissionProofs --------------------------
(***************************************************************************)
(* For any number of client numbers, slots and connections: the counters   *)
(* of the reserved slots do not drift, a server without spies never holds  *)
(* more than maxclients, who crowds a server is one the limit does not     *)
(* stop, and a posted kick hits only whom it was meant for.                *)
(*                                                                         *)
(* The invariant needs facts the properties do not state (Peers, Kicks):   *)
(* only players use a reserved slot, there are no spies where none are     *)
(* allowed, and    *)
(* the session of every posted kick was asked for.                         *)
(*                                                                         *)
(* Two more facts lead to ends: the kick of a connection that is still     *)
(* there stays posted (KickPending, which needs that sessions are handed   *)
(* out once), and the timeout of an unfinished one only comes nearer.      *)
(***************************************************************************)
EXTENDS Admission, FiniteSetTheorems, TLAPS

Peer == [phase: Phases, sessionid: 0..MaxSession, age: 0..ConnectTimeout,
         admin: BOOLEAN, spy: BOOLEAN, spectator: BOOLEAN, using_reservedslot: BOOLEAN,
         connectauth: BOOLEAN, vouched: BOOLEAN]

\* What one client's record says of the others' bookkeeping.
PeerSound(p) ==
  /\ p \in Peer
  /\ p.using_reservedslot => p.phase = "connected"
  /\ p.spy => SpiesAllowed
  /\ p.phase # "empty" => p.sessionid \in 1..MaxSession

Peers == peer \in [Cns -> Peer] /\ \A c \in Cns : PeerSound(peer[c])

Counters ==
  /\ maxclients \in Nat /\ reservedslots \in Nat /\ reservedslots_use \in Nat
  /\ SlotAccounting
  /\ WithinCapacity

Kicks ==
  /\ sessions \in 0..MaxSession
  /\ posted \subseteq [cn: Cns, session_id: 1..MaxSession]
  /\ asked \subseteq 1..MaxSession
  /\ removed \subseteq 1..MaxSession
  /\ \A info \in posted : info.session_id \in asked
  /\ KickedOnlyIfAsked

IInv == Peers /\ Counters /\ Kicks

\* The record of an empty slot.
LEMMA NobodySound == PeerSound(Nobody) /\ Nobody.phase = "empty"
<1>1. Nobody \in Peer
  BY AdmissionAssumption DEF Nobody, Peer, Phases
<1> QED BY <1>1 DEF Nobody, PeerSound

\* Players and users are finite sets of client numbers, users are players.
LEMMA FinitePlayers ==
  /\ IsFiniteSet(Players) /\ IsFiniteSet(Users) /\ IsFiniteSet(Spies)
  /\ Cardinality(Players) \in Nat /\ Cardinality(Users) \in Nat
  /\ Cardinality(Spies) \in Nat
  /\ Users \subseteq Players
<1>1. Players \subseteq Cns /\ Users \subseteq Players /\ Spies \subseteq Players
  BY DEF Players, Users, Spies
<1>2. IsFiniteSet(Players)
  BY <1>1, AdmissionAssumption, FS_Subset
<1>3. IsFiniteSet(Users) /\ IsFiniteSet(Spies)
  BY <1>1, <1>2, FS_Subset
<1> QED BY <1>1, <1>2, <1>3, FS_CardinalityType

\* Where no spies are allowed, numclients counts all players.
LEMMA CountsAll ==
  ASSUME Peers, ~SpiesAllowed
  PROVE  numclients = Cardinality(Players)
<1>1. Spies = {}
  BY DEF Peers, PeerSound, Spies, Players
<1> QED BY <1>1, FS_EmptySet, FinitePlayers DEF numclients

\* Writing a sound record into a slot keeps the records sound.
LEMMA PutPeer ==
  ASSUME Peers, NEW c \in Cns, NEW p, PeerSound(p), peer' = [peer EXCEPT ![c] = p]
  PROVE  /\ Peers'
         /\ peer'[c] = p
         /\ \A d \in Cns \ {c} : peer'[d] = peer[d]
<1>1. p \in Peer
  BY DEF PeerSound
<1>2. peer' \in [Cns -> Peer]
  <2> HIDE DEF Peer
  <2> QED BY <1>1 DEF Peers
<1>3. peer'[c] = p /\ \A d \in Cns \ {c} : peer'[d] = peer[d]
  <2> HIDE DEF Peer
  <2> QED BY DEF Peers
<1>4. \A d \in Cns : PeerSound(peer'[d])
  BY <1>3, Zenon DEF Peers
<1> QED BY <1>2, <1>3, <1>4, Zenon DEF Peers

\* A record that keeps its phase and its reserved slot leaves the sets alone.
LEMMA SameSets ==
  ASSUME \A d \in Cns : /\ peer'[d].phase = "connected" <=> peer[d].phase = "connected"
                        /\ peer'[d].using_reservedslot = peer[d].using_reservedslot
  PROVE  Players' = Players /\ Users' = Users
BY DEF Players, Users, Is

\* So the counters stay right when they do not change either.
LEMMA SameCounters ==
  ASSUME Counters, Players' = Players, Users' = Users, UNCHANGED slots
  PROVE  Counters'
BY DEF Counters, SlotAccounting, WithinCapacity, slots

\* A player more or less counts as one.
LEMMA CountPlayers ==
  ASSUME NEW c \in Cns, \A d \in Cns \ {c} : peer'[d] = peer[d]
  PROVE  /\ c \notin Players /\ c \in Players' =>
              Cardinality(Players') = Cardinality(Players) + 1
         /\ c \in Players /\ c \notin Players' =>
              Cardinality(Players') = Cardinality(Players) - 1
         /\ c \notin Users /\ c \in Users' => Cardinality(Users') = Cardinality(Users) + 1
         /\ c \in Users /\ c \notin Users' => Cardinality(Users') = Cardinality(Users) - 1
         /\ (c \in Users <=> c \in Users') => Users' = Users
<1>1. \A d \in Cns \ {c} : (d \in Players <=> d \in Players') /\ (d \in Users <=> d \in Users')
  BY DEF Players, Users, Is
<1>2. Players \subseteq Cns /\ Players' \subseteq Cns /\ Users \subseteq Cns /\ Users' \subseteq Cns
  BY DEF Players, Users
<1>3. ASSUME NEW S, NEW T, IsFiniteSet(S), S \subseteq Cns, T \subseteq Cns,
             \A d \in Cns \ {c} : d \in S <=> d \in T
      PROVE  /\ c \notin S /\ c \in T => Cardinality(T) = Cardinality(S) + 1
             /\ c \in S /\ c \notin T => Cardinality(T) = Cardinality(S) - 1
             /\ (c \in S <=> c \in T) => T = S
  <2>1. c \notin S /\ c \in T => T = S \cup {c}
    BY <1>3
  <2>2. c \in S /\ c \notin T => T = S \ {c}
    BY <1>3
  <2>3. (c \in S <=> c \in T) => T = S
    BY <1>3
  <2> QED BY <1>3, <2>1, <2>2, <2>3, FS_AddElement, FS_RemoveElement
<1>4. IsFiniteSet(Players) /\ IsFiniteSet(Users)
  BY FinitePlayers
<1> QED BY <1>1, <1>2, <1>3, <1>4

\* What the connecting event leaves of a sound record is sound.
LEMMA IdentifiedSound ==
  ASSUME Peers, NEW c \in Cns, Is(c, "connecting"),
         NEW admin \in BOOLEAN, NEW spy \in {FALSE, SpiesAllowed}
  PROVE  LET p == Identified(c, admin, spy)
         IN  /\ PeerSound(p) /\ p.phase = "connecting"
             /\ p.using_reservedslot = FALSE
<1> DEFINE p == Identified(c, admin, spy)
<1>1. peer[c] \in Peer /\ PeerSound(peer[c])
  BY DEF Peers
<1>2. spy \in BOOLEAN
  BY AdmissionAssumption
<1>3. /\ p.phase = peer[c].phase /\ p.sessionid = peer[c].sessionid
      /\ p.using_reservedslot = peer[c].using_reservedslot
      /\ p.spy = spy
  BY <1>1 DEF Identified, Peer
<1>4. p \in Peer
  <2>1. [peer[c] EXCEPT !.admin = peer[c].admin \/ admin \/ spy] \in Peer
    BY <1>1, <1>2 DEF Peer
  <2>2. p = [[peer[c] EXCEPT !.admin = peer[c].admin \/ admin \/ spy] EXCEPT !.spy = spy]
    BY <1>1 DEF Identified, Peer
  <2>3. \A r \in Peer : [r EXCEPT !.spy = spy] \in Peer
    BY <1>2 DEF Peer
  <2> QED BY <2>1, <2>2, <2>3
<1>5. peer[c].using_reservedslot = FALSE
  BY <1>1 DEF PeerSound, Is, Peer
<1> HIDE DEF p
<1>6. PeerSound(p)
  BY <1>1, <1>3, <1>4, <1>5 DEF PeerSound, Is
<1> QED BY <1>3, <1>5, <1>6 DEF Is, p

\* Admit keeps the invariant: the two branches of allowconnect.
LEMMA AdmitStep ==
  ASSUME IInv, NEW c \in Cns, NEW admin \in BOOLEAN, NEW spy \in {FALSE, SpiesAllowed},
         NEW slotpass \in BOOLEAN, NEW spectator \in BOOLEAN,
         Admit(c, admin, spy, slotpass, spectator)
  PROVE  IInv'
<1> DEFINE p == Identified(c, admin, spy)
           q == [p EXCEPT !.phase = "connected", !.spectator = spectator, !.age = 0]
           r == [q EXCEPT !.using_reservedslot = TRUE]
<1>1. Is(c, "connecting") /\ Peers /\ Counters /\ Kicks
  BY DEF Admit, IInv
<1>2. PeerSound(p) /\ p.phase = "connecting" /\ p.using_reservedslot = FALSE
  BY <1>1, IdentifiedSound
<1>3. p \in Peer
  BY <1>2 DEF PeerSound
<1>4. /\ q.phase = "connected" /\ q.sessionid = p.sessionid /\ q.spy = p.spy
      /\ q.using_reservedslot = FALSE
      /\ r.phase = "connected" /\ r.sessionid = p.sessionid /\ r.spy = p.spy
      /\ r.using_reservedslot = TRUE
  <2> HIDE DEF p
  <2> QED BY <1>2, <1>3 DEF Peer
<1>5. q \in Peer /\ r \in Peer
  <2> HIDE DEF p
  <2>1. [p EXCEPT !.phase = "connected"] \in Peer
    BY <1>3 DEF Peer, Phases
  <2>2. \A x \in Peer : [x EXCEPT !.spectator = spectator] \in Peer
    BY DEF Peer
  <2>3. \A x \in Peer : [x EXCEPT !.age = 0] \in Peer
    BY AdmissionAssumption DEF Peer
  <2>4. q = [[[p EXCEPT !.phase = "connected"] EXCEPT !.spectator = spectator] EXCEPT !.age = 0]
    BY <1>3 DEF Peer
  <2>5. q \in Peer
    BY <2>1, <2>2, <2>3, <2>4
  <2> HIDE DEF q
  <2> QED BY <2>5 DEF Peer
<1>6. PeerSound(q) /\ PeerSound(r)
  <2> HIDE DEF p, q, r
  <2> QED BY <1>2, <1>4, <1>5 DEF PeerSound
<1>7. c \notin Players /\ c \notin Users
  BY <1>1 DEF Players, Users, Is
<1>8. UNCHANGED <<sessions, posted, asked, removed>>
  BY DEF Admit
<1>9. Kicks'
  BY <1>1, <1>8 DEF Kicks, KickedOnlyIfAsked
<1>10. CASE HasReserved(p, slotpass) /\ takeslot /\ peer' = [peer EXCEPT ![c] = r]
  <2> HIDE DEF p, q, r
  <2>1. Peers' /\ peer'[c] = r /\ \A d \in Cns \ {c} : peer'[d] = peer[d]
    BY <1>1, <1>6, <1>10, PutPeer
  <2>2. c \in Players' /\ c \in Users'
    BY <1>4, <2>1 DEF Players, Users, Is
  <2>3. /\ Cardinality(Players') = Cardinality(Players) + 1
        /\ Cardinality(Users') = Cardinality(Users) + 1
    BY <1>7, <2>1, <2>2, CountPlayers
  <2>4. reservedslots > 0
    BY <1>10 DEF HasReserved
  <2> DEFINE u == Cardinality(Users)
             n == Cardinality(Players)
  <2>5. u \in Nat /\ n \in Nat
    BY FinitePlayers
  <2>6. SlotAccounting'
    BY <1>1, <1>10, <2>3, <2>4, <2>5, AdmissionAssumption
       DEF takeslot, Counters, SlotAccounting
  <2>7. WithinCapacity'
    <3> SUFFICES ASSUME ~SpiesAllowed, ~spec_slots, ~serverauth PROVE Cardinality(Players') <= maxclients'
      BY DEF WithinCapacity
    <3>1. n <= maxclients
      BY <1>1 DEF Counters, WithinCapacity
    <3>2. numclients = n
      BY <1>1, CountsAll
    <3>3. maxclients' = IF n >= maxclients THEN maxclients + 1 ELSE maxclients
      BY <1>1, <1>10, <3>2 DEF takeslot, Counters
    <3> QED BY <1>1, <2>3, <2>5, <3>1, <3>3 DEF Counters
  <2>8. maxclients' \in Nat /\ reservedslots' \in Nat /\ reservedslots_use' \in Nat
    BY <1>1, <1>10, <2>4 DEF takeslot, Counters
  <2> QED BY <1>9, <2>1, <2>6, <2>7, <2>8 DEF IInv, Counters
<1>11. CASE ~Full(p) /\ peer' = [peer EXCEPT ![c] = q] /\ UNCHANGED slots
  <2>0. ~SpiesAllowed => p.spy = FALSE
    BY <1>2, <1>3 DEF PeerSound, Peer
  <2> HIDE DEF p, q, r
  <2>1. Peers' /\ peer'[c] = q /\ \A d \in Cns \ {c} : peer'[d] = peer[d]
    BY <1>1, <1>6, <1>11, PutPeer
  <2>2. c \in Players' /\ c \notin Users'
    BY <1>4, <2>1 DEF Players, Users, Is
  <2>3. /\ Cardinality(Players') = Cardinality(Players) + 1
        /\ Users' = Users
    BY <1>7, <2>1, <2>2, CountPlayers
  <2> DEFINE n == Cardinality(Players)
  <2>4. n \in Nat
    BY FinitePlayers
  <2>5. SlotAccounting'
    BY <1>1, <1>11, <2>3 DEF Counters, SlotAccounting, slots
  <2>6. WithinCapacity'
    <3> SUFFICES ASSUME ~SpiesAllowed, ~spec_slots, ~serverauth PROVE Cardinality(Players') <= maxclients'
      BY DEF WithinCapacity
    <3>1. numclients = n
      BY <1>1, CountsAll
    <3>2. spy_count = 0
      <4>1. Spies = {}
        BY <1>1 DEF Peers, PeerSound, Spies, Players
      <4> QED BY <4>1, FS_EmptySet DEF spy_count
    <3>3. n < maxclients
      BY <1>1, <1>11, <2>0, <2>4, <3>1, <3>2 DEF Full, Counters
    <3> QED BY <1>1, <1>11, <2>3, <2>4, <3>3 DEF slots, Counters
  <2>7. maxclients' \in Nat /\ reservedslots' \in Nat /\ reservedslots_use' \in Nat
    BY <1>1, <1>11 DEF slots, Counters
  <2> QED BY <1>9, <2>1, <2>5, <2>6, <2>7 DEF IInv, Counters
<1> QED BY <1>10, <1>11 DEF Admit

\* clientdisconnect keeps records and counters right.
LEMMA DisconnectStep ==
  ASSUME Peers, Counters, NEW c \in Cns, clientdisconnect(c)
  PROVE  Peers' /\ Counters'
<1>1. /\ Peers' /\ peer'[c] = Nobody
      /\ \A d \in Cns \ {c} : peer'[d] = peer[d]
  BY NobodySound, PutPeer DEF clientdisconnect
<1>2. c \notin Players' /\ c \notin Users'
  BY <1>1, NobodySound DEF Players, Users, Is
<1>3. CASE ~Is(c, "connected")
  <2>1. c \notin Players /\ c \notin Users
    BY <1>3 DEF Players, Users
  <2>2. Players' = Players /\ Users' = Users
    BY <1>1, <1>2, <2>1 DEF Players, Users, Is
  <2> QED BY <1>1, <1>3, <2>2, SameCounters DEF clientdisconnect
<1>4. CASE Is(c, "connected")
  <2>1. c \in Players
    BY <1>4 DEF Players
  <2>2. Cardinality(Players') = Cardinality(Players) - 1
    BY <1>1, <1>2, <2>1, CountPlayers
  <2>3. giveback(c)
    BY <1>4 DEF clientdisconnect
  <2>4. Cardinality(Players) \in Nat /\ Cardinality(Users) \in Nat
    BY FinitePlayers
  <2>5. CASE c \in Users
    <3>1. Cardinality(Users') = Cardinality(Users) - 1
      BY <1>1, <1>2, <2>5, CountPlayers
    <3>2. peer[c].using_reservedslot
      BY <2>5 DEF Users
    <3>3. reservedslots' = reservedslots + 1
      BY <2>3, <3>2 DEF giveback
    <3>0. Cardinality(Users) > 0
      BY <2>4, <2>5, FinitePlayers, FS_EmptySet
    <3>4. Counters'
      BY <2>2, <2>3, <2>4, <3>0, <3>1, <3>3, AdmissionAssumption
         DEF giveback, Counters, SlotAccounting, WithinCapacity
    <3> QED BY <1>1, <3>4
  <2>6. CASE c \notin Users
    <3>1. Users' = Users
      BY <1>1, <1>2, <2>6, CountPlayers
    <3>2. ~peer[c].using_reservedslot
      BY <2>1, <2>6 DEF Users
    <3>3. reservedslots' = reservedslots
      BY <2>3, <3>2 DEF giveback, Counters
    <3>4. Counters'
      BY <2>2, <2>3, <2>4, <3>1, <3>3, AdmissionAssumption
         DEF giveback, Counters, SlotAccounting, WithinCapacity
    <3> QED BY <1>1, <3>4
  <2> QED BY <2>5, <2>6
<1> QED BY <1>3, <1>4

\* A step that only rewrites one client's record without moving him in or out
\* of the game, and leaves the counters and the kicks alone.
LEMMA RewriteStep ==
  ASSUME IInv, NEW c \in Cns, NEW p, PeerSound(p), peer' = [peer EXCEPT ![c] = p],
         p.phase = "connected" <=> peer[c].phase = "connected",
         p.using_reservedslot = peer[c].using_reservedslot,
         UNCHANGED slots, Kicks'
  PROVE  IInv'
<1>1. Peers /\ Counters
  BY DEF IInv
<1>2. Peers' /\ peer'[c] = p /\ \A d \in Cns \ {c} : peer'[d] = peer[d]
  BY <1>1, PutPeer
<1>3. \A d \in Cns : /\ peer'[d].phase = "connected" <=> peer[d].phase = "connected"
                     /\ peer'[d].using_reservedslot = peer[d].using_reservedslot
  BY <1>2
<1>4. Players' = Players /\ Users' = Users
  BY <1>3, SameSets
<1> QED BY <1>1, <1>2, <1>4, SameCounters DEF IInv

\* Kicks do not change with the variables they are about.
LEMMA SameKicks ==
  ASSUME Kicks, UNCHANGED <<sessions, posted, asked, removed>>
  PROVE  Kicks'
BY DEF Kicks, KickedOnlyIfAsked

\* A new connection starts in a sound record outside the game.
LEMMA ConnectStep ==
  ASSUME IInv, clientconnect
  PROVE  IInv'
<1> DEFINE p == [Nobody EXCEPT !.phase = "connecting", !.sessionid = sessions + 1]
<1>1. PICK c \in Cns : Is(c, "empty") /\ peer' = [peer EXCEPT ![c] = p]
  BY DEF clientconnect
<1>2. sessions + 1 \in 1..MaxSession /\ sessions \in 0..MaxSession
  BY AdmissionAssumption DEF IInv, Kicks, clientconnect
<1>3. p \in Peer
  <2>1. Nobody \in Peer
    BY NobodySound DEF PeerSound
  <2>2. \A x \in Peer : [x EXCEPT !.phase = "connecting"] \in Peer
    BY DEF Peer, Phases
  <2>3. \A x \in Peer : [x EXCEPT !.sessionid = sessions + 1] \in Peer
    BY <1>2 DEF Peer
  <2>4. p = [[Nobody EXCEPT !.phase = "connecting"] EXCEPT !.sessionid = sessions + 1]
    BY <2>1 DEF Peer
  <2> QED BY <2>1, <2>2, <2>3, <2>4
<1>4. p.phase = "connecting" /\ p.sessionid = sessions + 1 /\ p.spy = FALSE
      /\ p.using_reservedslot = FALSE
  <2>1. /\ Nobody \in Peer /\ Nobody.spy = FALSE /\ Nobody.using_reservedslot = FALSE
    BY NobodySound DEF PeerSound, Nobody
  <2> QED BY <2>1 DEF Peer
<1> HIDE DEF p
<1>5. PeerSound(p)
  BY <1>2, <1>3, <1>4 DEF PeerSound
<1>6. peer[c].phase = "empty" /\ peer[c].using_reservedslot = FALSE
  BY <1>1 DEF Is, IInv, Peers, PeerSound, Peer
<1>7. Kicks' /\ UNCHANGED slots
  BY <1>2 DEF IInv, Kicks, KickedOnlyIfAsked, clientconnect
<1> QED BY <1>1, <1>4, <1>5, <1>6, <1>7, RewriteStep

\* A refused connection attempt leaves a sound record outside the game.
LEMMA WaitStep ==
  ASSUME IInv, NEW c \in Cns, NEW admin \in BOOLEAN, NEW spy \in {FALSE, SpiesAllowed},
         Wait(c, admin, spy)
  PROVE  IInv'
<1> DEFINE p == Identified(c, admin, spy)
           q == [p EXCEPT !.connectauth = TRUE]
<1>1. Peers /\ Kicks /\ Is(c, "connecting") /\ serverauth
  BY DEF IInv, Wait
<1>2. PeerSound(p) /\ p.phase = "connecting" /\ p.using_reservedslot = FALSE
  BY <1>1, IdentifiedSound
<1>3. peer[c].phase = "connecting" /\ peer[c].using_reservedslot = FALSE
  BY <1>1 DEF Is, Peers, PeerSound, Peer
<1>4. peer' = [peer EXCEPT ![c] = q] /\ UNCHANGED slots /\ Kicks'
  BY <1>1, SameKicks DEF Wait
<1> HIDE DEF p
<1>5. /\ q \in Peer /\ q.phase = p.phase /\ q.sessionid = p.sessionid /\ q.spy = p.spy
      /\ q.using_reservedslot = p.using_reservedslot
  BY <1>2 DEF PeerSound, Peer
<1> HIDE DEF q
<1>6. PeerSound(q)
  BY <1>1, <1>2, <1>5 DEF PeerSound
<1> QED BY <1>2, <1>3, <1>4, <1>5, <1>6, RewriteStep

\* A client the auth script lets in takes no reserved slot; that the server
\* may hold too many then is why WithinCapacity asks for ~serverauth.
LEMMA JoinStep ==
  ASSUME IInv, NEW c \in Cns, NEW spectator \in BOOLEAN, player_join_game(c, spectator)
  PROVE  IInv'
<1> DEFINE p == peer[c]
           q == [p EXCEPT !.phase = "connected", !.spectator = spectator, !.age = 0,
                         !.vouched = TRUE]
<1>1. /\ Peers /\ Counters /\ Kicks' /\ Is(c, "connecting")
      /\ peer' = [peer EXCEPT ![c] = q] /\ UNCHANGED slots
  BY SameKicks DEF player_join_game, IInv
<1>2. /\ PeerSound(p) /\ p \in Peer /\ p.phase = "connecting" /\ p.using_reservedslot = FALSE
      /\ serverauth
  BY <1>1 DEF Peers, PeerSound, Is, Peer, player_join_game
<1> HIDE DEF p
<1>3. /\ q.phase = "connected" /\ q.sessionid = p.sessionid /\ q.spy = p.spy
      /\ q.using_reservedslot = FALSE
  BY <1>2 DEF Peer
<1>4. q \in Peer
  <2>1. [p EXCEPT !.phase = "connected"] \in Peer
    BY <1>2 DEF Peer, Phases
  <2>2. \A x \in Peer : [x EXCEPT !.spectator = spectator] \in Peer
    BY DEF Peer
  <2>3. \A x \in Peer : [x EXCEPT !.age = 0] \in Peer
    BY AdmissionAssumption DEF Peer
  <2>4. \A x \in Peer : [x EXCEPT !.vouched = TRUE] \in Peer
    BY DEF Peer
  <2>5. q = [[[[p EXCEPT !.phase = "connected"] EXCEPT !.spectator = spectator]
                 EXCEPT !.age = 0] EXCEPT !.vouched = TRUE]
    BY <1>2 DEF Peer
  <2> QED BY <2>1, <2>2, <2>3, <2>4, <2>5
<1> HIDE DEF q
<1>5. PeerSound(q)
  BY <1>2, <1>3, <1>4 DEF PeerSound
<1>6. Peers' /\ peer'[c] = q /\ \A d \in Cns \ {c} : peer'[d] = peer[d]
  BY <1>1, <1>5, PutPeer
<1>7. c \notin Users /\ c \notin Users'
  BY <1>2, <1>3, <1>6 DEF Users, p
<1>8. Users' = Users
  BY <1>6, <1>7, CountPlayers
<1>9. Counters'
  BY <1>1, <1>2, <1>8 DEF Counters, SlotAccounting, WithinCapacity, slots
<1> QED BY <1>1, <1>6, <1>9 DEF IInv

\* Spectating, and becoming or ceasing to be a spy, leave the player in his
\* slot.
LEMMA StatusSteps ==
  ASSUME IInv, NEW c \in Cns, NEW val \in BOOLEAN, NEW spectator \in BOOLEAN,
         setspectator(c) \/ set_spy(c, val, spectator)
  PROVE  IInv'
<1>1. Peers /\ Kicks /\ Kicks' /\ UNCHANGED slots
  <2>1. UNCHANGED <<sessions, posted, asked, removed>> /\ UNCHANGED slots
    BY DEF setspectator, set_spy
  <2> QED BY <2>1, SameKicks DEF IInv
<1>2. PeerSound(peer[c]) /\ peer[c] \in Peer
  BY <1>1 DEF Peers
<1>3. CASE setspectator(c)
  <2> DEFINE p == [peer[c] EXCEPT !.spectator = ~@]
  <2>1. peer' = [peer EXCEPT ![c] = p]
    BY <1>3 DEF setspectator
  <2>2. /\ p \in Peer /\ p.phase = peer[c].phase /\ p.sessionid = peer[c].sessionid
        /\ p.spy = peer[c].spy /\ p.using_reservedslot = peer[c].using_reservedslot
    BY <1>2 DEF Peer
  <2> HIDE DEF p
  <2>3. PeerSound(p)
    BY <1>2, <2>2 DEF PeerSound
  <2> QED BY <1>1, <2>1, <2>2, <2>3, RewriteStep
<1>4. CASE set_spy(c, val, spectator)
  <2> DEFINE p == [peer[c] EXCEPT !.spy = val, !.admin = @ \/ val, !.spectator = val \/ (@ /\ spectator)]
  <2>1. peer' = [peer EXCEPT ![c] = p] /\ (val => SpiesAllowed)
    BY <1>1, <1>4 DEF set_spy, Peers
  <2>2. /\ p.phase = peer[c].phase /\ p.sessionid = peer[c].sessionid
        /\ p.spy = val /\ p.using_reservedslot = peer[c].using_reservedslot
    BY <1>2 DEF Peer
  <2>3. p \in Peer
    <3> DEFINE a == [peer[c] EXCEPT !.spy = val]
    <3>1. a \in Peer
      BY <1>2 DEF Peer
    <3>2. \A x \in Peer : [x EXCEPT !.admin = @ \/ val] \in Peer
      BY DEF Peer
    <3>3. \A x \in Peer : [x EXCEPT !.spectator = val \/ (@ /\ spectator)] \in Peer
      BY DEF Peer
    <3>4. p = [[a EXCEPT !.admin = @ \/ val] EXCEPT !.spectator = val \/ (@ /\ spectator)]
      BY <1>2 DEF Peer
    <3> HIDE DEF a
    <3> QED BY <3>1, <3>2, <3>3, <3>4
  <2> HIDE DEF p
  <2>4. PeerSound(p)
    BY <1>2, <2>1, <2>2, <2>3 DEF PeerSound
  <2> QED BY <1>1, <2>1, <2>2, <2>4, RewriteStep
<1> QED BY <1>3, <1>4

\* A posted kick removes the client's record only if the session is the one
\* asked for; asking adds the session first.
LEMMA KickSteps ==
  ASSUME IInv, (\E c \in Cns : Leave(c) \/ disconnect(c))
               \/ \E info \in posted : execute_disconnect(info)
  PROVE  IInv'
<1>1. Peers /\ Counters /\ Kicks
  BY DEF IInv
<1>2. ASSUME NEW c \in Cns, Leave(c) PROVE IInv'
  BY <1>1, <1>2, DisconnectStep, SameKicks DEF Leave, IInv
<1>3. ASSUME NEW c \in Cns, disconnect(c) PROVE IInv'
  <2> DEFINE info == [cn |-> c, session_id |-> peer[c].sessionid]
  <2>1. peer[c].sessionid \in 1..MaxSession
    BY <1>1, <1>3 DEF Peers, PeerSound, disconnect, Is
  <2>2. info \in [cn: Cns, session_id: 1..MaxSession] /\ info.session_id = peer[c].sessionid
    BY <2>1
  <2>3. Kicks'
    <3> HIDE DEF info
    <3>1. /\ posted' = posted \cup {info} /\ asked' = asked \cup {peer[c].sessionid}
          /\ UNCHANGED <<sessions, removed>>
      BY <1>3 DEF disconnect, info
    <3> QED BY <1>1, <2>1, <2>2, <3>1 DEF Kicks, KickedOnlyIfAsked
  <2>4. Peers' /\ Players' = Players /\ Users' = Users /\ UNCHANGED slots
    BY <1>1, <1>3 DEF disconnect, Peers, Players, Users, Is
  <2> QED BY <1>1, <2>3, <2>4, SameCounters DEF IInv
<1>4. ASSUME NEW info \in posted, execute_disconnect(info) PROVE IInv'
  <2>1. info.cn \in Cns /\ info.session_id \in 1..MaxSession /\ info.session_id \in asked
    BY <1>1 DEF Kicks
  <2>2. posted' = posted \ {info} /\ UNCHANGED <<sessions, asked>>
    BY <1>4 DEF execute_disconnect
  <2>3. CASE SameSession(info)
    <3>1. clientdisconnect(info.cn) /\ removed' = removed \cup {info.session_id}
      BY <1>4, <2>3 DEF execute_disconnect, SameSession
    <3>2. Peers' /\ Counters'
      BY <1>1, <2>1, <3>1, DisconnectStep
    <3>3. Kicks'
      BY <1>1, <2>1, <2>2, <3>1 DEF Kicks, KickedOnlyIfAsked
    <3> QED BY <3>2, <3>3 DEF IInv
  <2>4. CASE ~SameSession(info)
    <3>1. UNCHANGED <<peer, slots, removed>>
      BY <1>4, <2>4 DEF execute_disconnect
    <3>2. Kicks'
      BY <1>1, <2>2, <3>1 DEF Kicks, KickedOnlyIfAsked
    <3>3. Peers' /\ Players' = Players /\ Users' = Users /\ UNCHANGED slots
      BY <1>1, <3>1 DEF Peers, Players, Users, Is
    <3> QED BY <1>1, <3>2, <3>3, SameCounters DEF IInv
  <2> QED BY <2>3, <2>4
<1> QED BY <1>2, <1>3, <1>4

\* Time only touches connections that are not in the game.
LEMMA TickStep ==
  ASSUME IInv, Tick
  PROVE  IInv'
<1>1. Peers /\ Counters /\ Kicks /\ Kicks' /\ UNCHANGED slots
  BY SameKicks DEF IInv, Tick
<1>2. PICK gone \in SUBSET {c \in Cns : Expired(peer[c])} :
        peer' = [c \in Cns |-> IF c \in gone THEN Nobody ELSE Older(peer[c])]
  BY DEF Tick
<1>3. ASSUME NEW d \in Cns
      PROVE  /\ PeerSound(peer'[d])
             /\ peer'[d].phase = "connected" <=> peer[d].phase = "connected"
             /\ peer'[d].using_reservedslot = peer[d].using_reservedslot
  <2>1. peer[d] \in Peer /\ PeerSound(peer[d])
    BY <1>1 DEF Peers
  <2>2. CASE d \in gone
    <3>1. peer'[d] = Nobody /\ peer[d].phase = "connecting"
      BY <1>2, <2>2 DEF Expired
    <3>2. peer[d].using_reservedslot = FALSE
      BY <2>1, <3>1 DEF PeerSound, Peer
    <3>3. Nobody.using_reservedslot = FALSE
      BY DEF Nobody
    <3> QED BY <3>1, <3>2, <3>3, NobodySound
  <2>3. CASE d \notin gone /\ peer[d].phase = "connecting" /\ peer[d].age < ConnectTimeout
    <3> DEFINE p == [peer[d] EXCEPT !.age = @ + 1]
    <3>1. peer'[d] = p
      BY <1>2, <2>3 DEF Older
    <3>2. /\ p.phase = peer[d].phase /\ p.sessionid = peer[d].sessionid
          /\ p.spy = peer[d].spy /\ p.using_reservedslot = peer[d].using_reservedslot
      BY <2>1 DEF Peer
    <3>3. p \in Peer
      <4>1. peer[d].age + 1 \in 0..ConnectTimeout
        <5>1. peer[d].age \in 0..ConnectTimeout
          BY <2>1 DEF Peer
        <5> QED BY <2>3, <5>1, AdmissionAssumption
      <4> QED BY <2>1, <4>1 DEF Peer
    <3> HIDE DEF p
    <3>4. PeerSound(p)
      BY <2>1, <3>2, <3>3 DEF PeerSound
    <3> QED BY <3>1, <3>2, <3>4
  <2>4. CASE d \notin gone /\ ~(peer[d].phase = "connecting" /\ peer[d].age < ConnectTimeout)
    <3>1. peer'[d] = peer[d]
      BY <1>2, <2>4 DEF Older
    <3> QED BY <2>1, <3>1
  <2> QED BY <2>2, <2>3, <2>4
<1>4. peer' \in [Cns -> Peer]
  <2>1. \A d \in Cns : peer'[d] \in Peer
    BY <1>3 DEF PeerSound
  <2> QED BY <1>2, <2>1, Zenon
<1>5. Peers'
  BY <1>3, <1>4, Zenon DEF Peers
<1>6. Players' = Players /\ Users' = Users
  BY <1>3, SameSets
<1> QED BY <1>1, <1>5, <1>6, SameCounters DEF IInv

\* The invariant holds at the start and every step keeps it.
LEMMA SlotInv == Spec => []IInv
<1>1. Init => IInv
  <2> SUFFICES ASSUME Init PROVE IInv
    OBVIOUS
  <2>1. Nobody \in Peer /\ PeerSound(Nobody)
    BY NobodySound DEF PeerSound
  <2>2. \A c \in Cns : peer[c] = Nobody
    BY DEF Init
  <2>3. Peers
    <3>1. peer \in [Cns -> Peer]
      <4> HIDE DEF Peer
      <4> QED BY <2>1, Zenon DEF Init
    <3> QED BY <2>1, <2>2, <3>1, Zenon DEF Peers
  <2>4. Players = {} /\ Users = {}
    BY <2>2, NobodySound DEF Players, Users, Is
  <2>5. Cardinality(Players) = 0 /\ Cardinality(Users) = 0
    BY <2>4, FS_EmptySet
  <2>6. Counters
    BY <2>5, AdmissionAssumption DEF Counters, SlotAccounting, WithinCapacity, Init
  <2>7. Kicks
    BY AdmissionAssumption DEF Kicks, KickedOnlyIfAsked, Init
  <2> QED BY <2>3, <2>6, <2>7 DEF IInv
<1>2. IInv /\ [Next]_vars => IInv'
  <2> SUFFICES ASSUME IInv, [Next]_vars PROVE IInv'
    OBVIOUS
  <2>1. CASE UNCHANGED vars
    BY <2>1 DEF vars, IInv, Peers, Counters, Kicks, SlotAccounting, WithinCapacity,
                KickedOnlyIfAsked, Players, Users, Is
  <2>2. CASE \E c \in Cns : \E val, spectator \in BOOLEAN :
               setspectator(c) \/ set_spy(c, val, spectator)
    BY <2>2, StatusSteps
  <2>3. CASE \E c \in Cns : setspectator(c)
    BY <2>3, StatusSteps
  <2> QED BY <2>1, <2>2, <2>3, ConnectStep, AdmitStep, WaitStep, JoinStep, KickSteps,
            TickStep DEF Next
<1> QED BY <1>1, <1>2, PTL DEF Spec

\* Whatever clients, admins and scripts do and in whatever order, the slot
\* counters (server.cpp: allowconnect, clientdisconnect) stay exact, a server
\* without spies stays within maxclients, and execute_disconnect
\* (server_functions.cpp) removes only sessions somebody asked it to.
THEOREM SlotSafety ==
  Spec => [](TypeOK /\ SlotAccounting /\ WithinCapacity /\ KickedOnlyIfAsked)
<1>1. IInv => TypeOK /\ SlotAccounting /\ WithinCapacity /\ KickedOnlyIfAsked
  BY DEF IInv, Peers, Counters, Kicks, TypeOK, Peer
<1> QED BY <1>1, SlotInv, PTL

\* Every handler of a session keeps the types and the ranges of the counters.
THEOREM TypeCorrect == Spec => []TypeOK
BY SlotSafety, PTL

\* A posted execute_disconnect never removes a session nobody asked it to
\* remove, although client numbers are used again before it runs.
THEOREM KicksHitTheAsked == Spec => []KickedOnlyIfAsked
BY SlotSafety, PTL

-----------------------------------------------------------------------------
\* Those whom the limit of players does not stop.
Unlimited(p) == p.spy \/ p.vouched \/ (spec_slots /\ p.spectator)

\* Spectators, counted among the players, are a finite set.
LEMMA FiniteSpectators ==
  LET S == {c \in Players \ Spies : peer[c].spectator}
  IN  IsFiniteSet(S) /\ Cardinality(S) \in Nat /\ (Cardinality(S) > 0 => S # {})
<1> DEFINE S == {c \in Players \ Spies : peer[c].spectator}
<1>1. S \subseteq Players
  OBVIOUS
<1>2. IsFiniteSet(S)
  BY <1>1, FinitePlayers, FS_Subset
<1>3. Cardinality(S) \in Nat /\ (Cardinality(S) > 0 => S # {})
  <2> HIDE DEF S
  <2> QED BY <1>2, FS_CardinalityType, FS_EmptySet
<1> QED BY <1>2, <1>3

\* A client let in by allowconnect: if the server is more crowded than before,
\* one whom the limit does not stop is there.
LEMMA AdmitCrowd ==
  ASSUME IInv, NEW c \in Cns, NEW admin \in BOOLEAN, NEW spy \in {FALSE, SpiesAllowed},
         NEW slotpass \in BOOLEAN, NEW spectator \in BOOLEAN,
         Admit(c, admin, spy, slotpass, spectator), Excess' > Excess, Excess' > 0
  PROVE  \E d \in Players' : Unlimited(peer'[d])
<1> DEFINE p == Identified(c, admin, spy)
           q == [p EXCEPT !.phase = "connected", !.spectator = spectator, !.age = 0]
           r == [q EXCEPT !.using_reservedslot = TRUE]
<1>1. Is(c, "connecting") /\ Peers /\ Counters
  BY DEF Admit, IInv
<1>2. p \in Peer
  BY <1>1, IdentifiedSound DEF PeerSound
<1>3. /\ q.phase = "connected" /\ q.spy = p.spy
      /\ r.phase = "connected" /\ r.spy = p.spy
  <2> HIDE DEF p
  <2> QED BY <1>2 DEF Peer
<1>4. PICK z \in {q, r} : peer' = [peer EXCEPT ![c] = z]
  BY DEF Admit
<1>5. z.phase = "connected" /\ z.spy = p.spy
  BY <1>3, <1>4
<1>6. peer'[c] = z /\ \A d \in Cns \ {c} : peer'[d] = peer[d]
  <2> HIDE DEF Peer, p, q, r
  <2> QED BY <1>1, <1>4 DEF Peers
<1>7. c \notin Players /\ c \in Players'
  BY <1>1, <1>5, <1>6 DEF Players, Is
<1>8. Cardinality(Players') = Cardinality(Players) + 1
  BY <1>6, <1>7, CountPlayers
<1>9. \A d \in Players : d \in Players' /\ peer'[d] = peer[d]
  BY <1>6, <1>7 DEF Players, Is
<1> DEFINE n == Cardinality(Players)
           s == Cardinality(Spies)
           S == {d \in Players \ Spies : peer[d].spectator}
<1>10. n \in Nat /\ s \in Nat /\ maxclients \in Nat /\ (s > 0 => Spies # {})
  BY <1>1, FinitePlayers, FS_EmptySet DEF Counters
<1>11. spec_count \in Nat /\ (spec_count > 0 => S # {})
  BY FiniteSpectators DEF spec_count
<1>12. numclients = n - s /\ spy_count = s
  BY DEF numclients, spy_count
<1>13. CASE Spies # {}
  <2>1. PICK d \in Players : peer[d].spy
    BY <1>13 DEF Spies
  <2> QED BY <1>9, <2>1 DEF Unlimited
<1>14. CASE S # {} /\ spec_slots
  <2>1. PICK d \in Players : peer[d].spectator
    BY <1>14
  <2> QED BY <1>9, <1>14, <2>1 DEF Unlimited
<1>15. CASE p.spy
  BY <1>5, <1>6, <1>7, <1>15 DEF Unlimited
<1>16. ~(Spies = {} /\ ~(S # {} /\ spec_slots) /\ ~p.spy)
  <2> SUFFICES ASSUME Spies = {}, ~(S # {} /\ spec_slots), ~p.spy
               PROVE  FALSE
    OBVIOUS
  <2> HIDE DEF p, q, r, S, n
  <2>1. s = 0
    BY FS_EmptySet
  <2>2. CASE takeslot
    <3>1. maxclients' = IF n >= maxclients THEN maxclients + 1 ELSE maxclients
      BY <1>10, <1>12, <2>1, <2>2 DEF takeslot
    <3> QED BY <1>8, <1>10, <3>1 DEF Excess, n
  <2>3. CASE ~Full(p) /\ UNCHANGED slots
    <3>1. n < maxclients
      BY <1>10, <1>11, <1>12, <2>1, <2>3 DEF Full
    <3> QED BY <1>8, <1>10, <2>3, <3>1 DEF Excess, slots, n
  <2> QED BY <2>2, <2>3 DEF Admit, p
<1> QED BY <1>13, <1>14, <1>15, <1>16

\* A client who leaves never makes the server more crowded, though it may
\* shrink with him.
LEMMA DisconnectCrowd ==
  ASSUME Peers, Counters, NEW c \in Cns, clientdisconnect(c)
  PROVE  ~(Excess' > Excess)
<1>1. peer'[c] = Nobody /\ \A d \in Cns \ {c} : peer'[d] = peer[d]
  BY NobodySound, PutPeer DEF clientdisconnect
<1>2. c \notin Players'
  BY <1>1, NobodySound DEF Players, Is
<1>3. Cardinality(Players) \in Nat /\ maxclients \in Nat
  BY FinitePlayers DEF Counters
<1>4. CASE c \in Players
  <2>1. Cardinality(Players') = Cardinality(Players) - 1
    BY <1>1, <1>2, <1>4, CountPlayers
  <2>2. maxclients' \in {maxclients, maxclients - 1}
    BY <1>3, <1>4 DEF clientdisconnect, giveback, Players
  <2> QED BY <1>3, <2>1, <2>2 DEF Excess
<1>5. CASE c \notin Players
  <2>1. Players' = Players
    BY <1>1, <1>2, <1>5 DEF Players, Is
  <2>2. maxclients' = maxclients
    BY <1>5 DEF clientdisconnect, slots, Players
  <2> QED BY <1>3, <2>1, <2>2 DEF Excess
<1> QED BY <1>4, <1>5

\* Who plays and how many may play stay the same.
LEMMA SameCrowd ==
  ASSUME Counters, UNCHANGED slots,
         \A d \in Cns : peer'[d].phase = "connected" <=> peer[d].phase = "connected"
  PROVE  ~(Excess' > Excess)
<1>1. Players' = Players
  BY DEF Players, Is
<1> QED BY <1>1, FinitePlayers DEF Excess, slots, Counters

\* A server gets more crowded than its maxclients only with somebody there
\* whom the limit does not stop: a spy, a client an auth domain let in, a
\* spectator who takes no room (allowconnect, clientdisconnect).
THEOREM CrowdsExplained == Spec => CrowdExplained
<1> DEFINE A == Excess' > Excess /\ Excess' > 0 =>
                  \E c \in Players' : \/ peer'[c].spy
                                      \/ peer'[c].vouched
                                      \/ spec_slots /\ peer'[c].spectator
<1>1. IInv /\ [Next]_vars => [A]_vars
  <2> SUFFICES ASSUME IInv, [Next]_vars, Excess' > Excess, Excess' > 0
               PROVE  \E c \in Players' : Unlimited(peer'[c])
    BY Zenon DEF Unlimited
  <2>1. Peers /\ Counters
    BY DEF IInv
  <2>2. \A c \in Cns : peer[c] \in Peer
    BY <2>1 DEF Peers
  <2>3. ASSUME NEW c \in Cns, NEW b \in BOOLEAN, player_join_game(c, b)
        PROVE  \E d \in Players' : Unlimited(peer'[d])
    <3> DEFINE q == [peer[c] EXCEPT !.phase = "connected", !.spectator = b, !.age = 0,
                               !.vouched = TRUE]
    <3>1. q.phase = "connected" /\ q.vouched
      BY <2>2 DEF Peer
    <3>2. peer' = [peer EXCEPT ![c] = q]
      BY <2>3 DEF player_join_game
    <3> HIDE DEF q
    <3>3. peer'[c] = q
      BY <2>1, <3>2 DEF Peers
    <3> QED BY <3>1, <3>2, <3>3 DEF Players, Is, Unlimited
  <2>4. ~clientconnect
    <3> SUFFICES ASSUME clientconnect PROVE FALSE
      OBVIOUS
    <3> DEFINE p == [Nobody EXCEPT !.phase = "connecting", !.sessionid = sessions + 1]
    <3>1. PICK c \in Cns : Is(c, "empty") /\ peer' = [peer EXCEPT ![c] = p]
      BY DEF clientconnect
    <3>2. p.phase = "connecting"
      BY NobodySound DEF PeerSound, Peer
    <3> HIDE DEF p
    <3>3. \A d \in Cns : peer'[d].phase = "connected" <=> peer[d].phase = "connected"
      BY <2>1, <3>1, <3>2 DEF Is, Peers
    <3>4. UNCHANGED slots
      BY DEF clientconnect
    <3> QED BY <2>1, <3>3, <3>4, SameCrowd
  <2>5. ASSUME NEW c \in Cns, NEW admin \in BOOLEAN, NEW spy \in {FALSE, SpiesAllowed},
               Wait(c, admin, spy)
        PROVE  FALSE
    <3> DEFINE p == Identified(c, admin, spy)
               q == [p EXCEPT !.connectauth = TRUE]
    <3>1. Is(c, "connecting") /\ peer' = [peer EXCEPT ![c] = q] /\ UNCHANGED slots
      BY <2>5 DEF Wait
    <3>2. p \in Peer /\ p.phase = "connecting"
      BY <2>1, <3>1, IdentifiedSound DEF PeerSound
    <3> HIDE DEF p
    <3>3. q.phase = "connecting"
      BY <3>2 DEF Peer
    <3> HIDE DEF q
    <3>4. \A d \in Cns : peer'[d].phase = "connected" <=> peer[d].phase = "connected"
      BY <2>1, <3>1, <3>3 DEF Is, Peers
    <3> QED BY <2>1, <3>1, <3>4, SameCrowd
  <2>6. ASSUME NEW c \in Cns, NEW val \in BOOLEAN, NEW spectator \in BOOLEAN,
               setspectator(c) \/ set_spy(c, val, spectator) \/ disconnect(c)
        PROVE  FALSE
    <3>1. UNCHANGED slots
      BY <2>6 DEF setspectator, set_spy, disconnect
    <3>2. \A d \in Cns : peer'[d].phase = peer[d].phase
      <4>1. CASE setspectator(c)
        BY <2>1, <2>2, <4>1 DEF setspectator, Peers, Peer
      <4>2. CASE set_spy(c, val, spectator)
        BY <2>1, <2>2, <4>2 DEF set_spy, Peers, Peer
      <4>3. CASE disconnect(c)
        BY <4>3 DEF disconnect
      <4> QED BY <2>6, <4>1, <4>2, <4>3
    <3> QED BY <2>1, <3>1, <3>2, SameCrowd
  <2>7. ASSUME NEW c \in Cns, Leave(c) PROVE FALSE
    BY <2>1, <2>7, DisconnectCrowd DEF Leave
  <2>8. ASSUME NEW info \in posted, execute_disconnect(info) PROVE FALSE
    <3>1. info.cn \in Cns
      BY DEF IInv, Kicks
    <3>2. CASE SameSession(info)
      BY <2>1, <2>8, <3>1, <3>2, DisconnectCrowd DEF execute_disconnect
    <3>3. CASE ~SameSession(info)
      BY <2>1, <2>8, <3>3, SameCrowd DEF execute_disconnect
    <3> QED BY <3>2, <3>3
  <2>9. ~Tick
    <3> SUFFICES ASSUME Tick PROVE FALSE
      OBVIOUS
    <3>1. PICK gone \in SUBSET {c \in Cns : Expired(peer[c])} :
            peer' = [c \in Cns |-> IF c \in gone THEN Nobody ELSE Older(peer[c])]
      BY DEF Tick
    <3>2. ASSUME NEW d \in Cns
          PROVE  peer'[d].phase = "connected" <=> peer[d].phase = "connected"
      <4>1. Older(peer[d]).phase = peer[d].phase
        BY <2>2 DEF Older, Peer
      <4> QED BY <3>1, <4>1, NobodySound DEF Expired
    <3>3. UNCHANGED slots
      BY DEF Tick
    <3> QED BY <2>1, <3>2, <3>3, SameCrowd
  <2>10. ~UNCHANGED vars
    BY <2>1, SameCrowd DEF vars, slots
  <2> QED BY <2>3, <2>4, <2>5, <2>6, <2>7, <2>8, <2>9, <2>10, AdmitCrowd DEF Next
<1> QED BY <1>1, SlotInv, PTL DEF Spec, CrowdExplained

-----------------------------------------------------------------------------
\* A connection somebody wanted gone, that is still there, has its own
\* execute_disconnect posted (server_functions.cpp: disconnect).
KickPending ==
  \A c \in Cns : ~Is(c, "empty") /\ peer[c].sessionid \in asked =>
    [cn |-> c, session_id |-> peer[c].sessionid] \in posted

\* Session ids are handed out once: no two connections share one, and none is
\* asked for before its connection is there.
Numbered ==
  /\ \A c \in Cns : ~Is(c, "empty") => peer[c].sessionid <= sessions
  /\ \A c, d \in Cns : /\ ~Is(c, "empty") /\ ~Is(d, "empty")
                       /\ peer[c].sessionid = peer[d].sessionid
                       => c = d
  /\ \A s \in asked : s <= sessions

Pending == Numbered /\ KickPending

\* Connections only go, or change in what is not their session.
OnlyLeave ==
  \A c \in Cns : ~Is(c, "empty")' => ~Is(c, "empty") /\ peer'[c].sessionid = peer[c].sessionid

LEMMA SamePending ==
  ASSUME Pending, OnlyLeave, UNCHANGED <<sessions, posted, asked>>
  PROVE  Pending'
<1> USE DEF Pending
<1>1. Numbered'
  BY DEF Numbered, OnlyLeave, Is
<1>2. KickPending'
  BY DEF KickPending, OnlyLeave, Is
<1> QED BY <1>1, <1>2

\* Writing one record that is gone or keeps its session only lets others leave.
LEMMA PutLeaves ==
  ASSUME Peers, NEW c \in Cns, NEW p, peer' = [peer EXCEPT ![c] = p],
         p.phase # "empty" => ~Is(c, "empty") /\ p.sessionid = peer[c].sessionid
  PROVE  OnlyLeave
<1>1. ASSUME NEW d \in Cns, ~Is(d, "empty")'
      PROVE  ~Is(d, "empty") /\ peer'[d].sessionid = peer[d].sessionid
  BY <1>1 DEF Peers, Is
<1> QED BY <1>1 DEF OnlyLeave

LEMMA GoneLeaves ==
  ASSUME Peers, NEW c \in Cns, clientdisconnect(c)
  PROVE  OnlyLeave /\ Is(c, "empty")'
<1>1. peer' = [peer EXCEPT ![c] = Nobody]
  BY DEF clientdisconnect
<1>2. Is(c, "empty")'
  BY <1>1, NobodySound DEF Peers, Is
<1> QED BY <1>1, <1>2, NobodySound, PutLeaves

\* A new connection has a session nobody has asked for yet.
LEMMA ConnectPending ==
  ASSUME IInv, Pending, clientconnect
  PROVE  Pending'
<1> USE DEF Pending
<1> DEFINE n == sessions + 1
           p == [Nobody EXCEPT !.phase = "connecting", !.sessionid = n]
<1>1. Peers /\ sessions \in Nat /\ sessions' = n /\ UNCHANGED <<posted, asked>>
  BY DEF IInv, Kicks, clientconnect
<1>2. PICK c \in Cns : Is(c, "empty") /\ peer' = [peer EXCEPT ![c] = p]
  BY DEF clientconnect
<1>3. p.sessionid = n
  BY DEF Nobody
<1>4. \A d \in Cns : peer'[d] = IF d = c THEN p ELSE peer[d]
  <2> HIDE DEF p
  <2> QED BY <1>1, <1>2 DEF Peers
<1>5. \A d \in Cns : ~Is(d, "empty") => peer[d].sessionid \in Nat
  BY <1>1 DEF Peers, PeerSound, Is
<1>6. \A s \in asked : s \in Nat
  BY DEF IInv, Kicks
<1> HIDE DEF p
<1>7. Numbered'
  <2>1. \A d \in Cns : ~Is(d, "empty")' => peer'[d].sessionid <= sessions'
    BY <1>1, <1>3, <1>4, <1>5 DEF Numbered, Is
  <2>2. ASSUME NEW d \in Cns, NEW e \in Cns, ~Is(d, "empty")', ~Is(e, "empty")',
               peer'[d].sessionid = peer'[e].sessionid
        PROVE  d = e
    BY <1>1, <1>3, <1>4, <1>5, <2>2 DEF Numbered, Is
  <2>3. \A s \in asked' : s <= sessions'
    BY <1>1, <1>6 DEF Numbered
  <2> QED BY <2>1, <2>2, <2>3 DEF Numbered
<1>8. KickPending'
  <2>1. n \notin asked
    BY <1>1, <1>6 DEF Numbered
  <2> QED BY <1>1, <1>3, <1>4, <2>1 DEF KickPending, Is
<1> QED BY <1>7, <1>8

\* Asking for a connection posts its callback and no other's is missing.
LEMMA AskPending ==
  ASSUME IInv, Pending, NEW c \in Cns, disconnect(c)
  PROVE  Pending'
<1> USE DEF Pending
<1> DEFINE info == [cn |-> c, session_id |-> peer[c].sessionid]
<1>1. /\ ~Is(c, "empty") /\ UNCHANGED <<peer, sessions>>
      /\ posted' = posted \cup {info} /\ asked' = asked \cup {peer[c].sessionid}
  BY DEF disconnect
<1>2. Numbered'
  BY <1>1 DEF Numbered, Is
<1>3. ASSUME NEW d \in Cns, ~Is(d, "empty")', peer'[d].sessionid \in asked'
      PROVE  [cn |-> d, session_id |-> peer'[d].sessionid] \in posted'
  <2>1. ~Is(d, "empty") /\ peer'[d].sessionid = peer[d].sessionid
    BY <1>1, <1>3 DEF Is
  <2>2. CASE peer[d].sessionid \in asked
    BY <1>1, <2>1, <2>2 DEF KickPending
  <2>3. CASE peer[d].sessionid = peer[c].sessionid
    <3>1. d = c
      BY <1>1, <2>1, <2>3 DEF Numbered
    <3> QED BY <1>1, <2>1, <3>1
  <2> QED BY <1>1, <1>3, <2>1, <2>2, <2>3
<1>4. KickPending'
  BY <1>3 DEF KickPending
<1> QED BY <1>2, <1>4

\* The callback that runs is not missed: its connection is gone now, or had
\* gone before.
LEMMA ExecutePending ==
  ASSUME IInv, Pending, NEW info \in posted, execute_disconnect(info)
  PROVE  Pending'
<1> USE DEF Pending
<1>1. Peers /\ info.cn \in Cns
  BY DEF IInv, Kicks
<1>2. posted' = posted \ {info} /\ UNCHANGED <<sessions, asked>>
  BY DEF execute_disconnect
<1>3. OnlyLeave /\ (SameSession(info) => Is(info.cn, "empty")')
  <2>1. CASE SameSession(info)
    <3>1. clientdisconnect(info.cn)
      BY <2>1 DEF execute_disconnect
    <3> QED BY <1>1, <3>1, GoneLeaves
  <2>2. CASE ~SameSession(info)
    <3>1. peer' = peer
      BY <2>2 DEF execute_disconnect
    <3> QED BY <2>2, <3>1 DEF OnlyLeave, Is
  <2> QED BY <2>1, <2>2
<1>4. Numbered'
  BY <1>2, <1>3 DEF Numbered, OnlyLeave, Is
<1>5. ASSUME NEW d \in Cns, ~Is(d, "empty")', peer'[d].sessionid \in asked'
      PROVE  [cn |-> d, session_id |-> peer'[d].sessionid] \in posted'
  <2> DEFINE mine == [cn |-> d, session_id |-> peer[d].sessionid]
  <2>1. ~Is(d, "empty") /\ peer'[d].sessionid = peer[d].sessionid
    BY <1>3, <1>5 DEF OnlyLeave
  <2>2. mine \in posted
    BY <1>2, <1>5, <2>1 DEF KickPending
  <2>3. mine # info
    <3> SUFFICES ASSUME mine = info PROVE FALSE
      OBVIOUS
    <3>1. info.cn = d /\ info.session_id = peer[d].sessionid
      OBVIOUS
    <3>2. SameSession(info)
      BY <2>1, <3>1 DEF SameSession
    <3> QED BY <1>3, <1>5, <3>1, <3>2
  <2> QED BY <1>2, <2>1, <2>2, <2>3
<1>6. KickPending'
  BY <1>5 DEF KickPending
<1> QED BY <1>4, <1>6

\* What a client, an admin, a script or the clock does to connections that are
\* there leaves their sessions alone.
LEMMA OthersLeave ==
  ASSUME IInv, Next, ~clientconnect, \A c \in Cns : ~disconnect(c),
         \A info \in posted : ~execute_disconnect(info)
  PROVE  OnlyLeave /\ UNCHANGED <<sessions, posted, asked>>
<1>1. Peers
  BY DEF IInv
<1>2. \A c \in Cns : peer[c] \in Peer
  BY <1>1 DEF Peers
<1>3. ASSUME NEW c \in Cns, NEW admin \in BOOLEAN, NEW spy \in {FALSE, SpiesAllowed},
             NEW slotpass \in BOOLEAN, NEW spectator \in BOOLEAN,
             Admit(c, admin, spy, slotpass, spectator)
      PROVE  OnlyLeave /\ UNCHANGED <<sessions, posted, asked>>
  <2> DEFINE p == Identified(c, admin, spy)
             q == [p EXCEPT !.phase = "connected", !.spectator = spectator, !.age = 0]
             r == [q EXCEPT !.using_reservedslot = TRUE]
  <2>1. /\ ~Is(c, "empty") /\ UNCHANGED <<sessions, posted, asked>>
        /\ peer' = [peer EXCEPT ![c] = q] \/ peer' = [peer EXCEPT ![c] = r]
    BY <1>3 DEF Admit, Is
  <2>2. q.sessionid = peer[c].sessionid /\ r.sessionid = peer[c].sessionid
    BY <1>2 DEF Identified, Peer
  <2> HIDE DEF q, r
  <2> QED BY <1>1, <2>1, <2>2, PutLeaves
<1>4. ASSUME NEW c \in Cns, NEW admin \in BOOLEAN, NEW spy \in {FALSE, SpiesAllowed},
             Wait(c, admin, spy)
      PROVE  OnlyLeave /\ UNCHANGED <<sessions, posted, asked>>
  <2> DEFINE q == [Identified(c, admin, spy) EXCEPT !.connectauth = TRUE]
  <2>1. /\ ~Is(c, "empty") /\ UNCHANGED <<sessions, posted, asked>>
        /\ peer' = [peer EXCEPT ![c] = q]
    BY <1>4 DEF Wait, Is
  <2>2. q.sessionid = peer[c].sessionid
    BY <1>2 DEF Identified, Peer
  <2> HIDE DEF q
  <2> QED BY <1>1, <2>1, <2>2, PutLeaves
<1>5. ASSUME NEW c \in Cns, NEW spectator \in BOOLEAN, player_join_game(c, spectator)
      PROVE  OnlyLeave /\ UNCHANGED <<sessions, posted, asked>>
  <2> DEFINE q == [peer[c] EXCEPT !.phase = "connected", !.spectator = spectator, !.age = 0,
                                  !.vouched = TRUE]
  <2>1. /\ ~Is(c, "empty") /\ UNCHANGED <<sessions, posted, asked>>
        /\ peer' = [peer EXCEPT ![c] = q]
    BY <1>5 DEF player_join_game, Is
  <2>2. q.sessionid = peer[c].sessionid
    BY <1>2 DEF Peer
  <2> HIDE DEF q
  <2> QED BY <1>1, <2>1, <2>2, PutLeaves
<1>6. ASSUME NEW c \in Cns, Leave(c)
      PROVE  OnlyLeave /\ UNCHANGED <<sessions, posted, asked>>
  BY <1>1, <1>6, GoneLeaves DEF Leave
<1>7. ASSUME NEW c \in Cns, setspectator(c)
      PROVE  OnlyLeave /\ UNCHANGED <<sessions, posted, asked>>
  <2> DEFINE q == [peer[c] EXCEPT !.spectator = ~@]
  <2>1. /\ ~Is(c, "empty") /\ UNCHANGED <<sessions, posted, asked>>
        /\ peer' = [peer EXCEPT ![c] = q]
    BY <1>7 DEF setspectator, Players, Is
  <2>2. q.sessionid = peer[c].sessionid
    BY <1>2 DEF Peer
  <2> HIDE DEF q
  <2> QED BY <1>1, <2>1, <2>2, PutLeaves
<1>8. ASSUME NEW c \in Cns, NEW val \in BOOLEAN, NEW spectator \in BOOLEAN,
             set_spy(c, val, spectator)
      PROVE  OnlyLeave /\ UNCHANGED <<sessions, posted, asked>>
  <2>1. ~Is(c, "empty") /\ UNCHANGED <<sessions, posted, asked>>
    BY <1>8 DEF set_spy, Players, Is
  <2>2. ASSUME NEW d \in Cns
        PROVE  peer'[d].phase = peer[d].phase /\ peer'[d].sessionid = peer[d].sessionid
    BY <1>1, <1>2, <1>8 DEF set_spy, Peers, Peer
  <2> QED BY <2>1, <2>2 DEF OnlyLeave, Is
<1>9. ASSUME Tick
      PROVE  OnlyLeave /\ UNCHANGED <<sessions, posted, asked>>
  <2>1. PICK gone \in SUBSET {c \in Cns : Expired(peer[c])} :
          peer' = [c \in Cns |-> IF c \in gone THEN Nobody ELSE Older(peer[c])]
    BY <1>9 DEF Tick
  <2>2. ASSUME NEW d \in Cns, peer'[d].phase # "empty"
        PROVE  peer[d].phase = peer'[d].phase /\ peer'[d].sessionid = peer[d].sessionid
    <3>1. peer'[d] = Older(peer[d])
      BY <2>1, <2>2, NobodySound
    <3> QED BY <1>2, <3>1 DEF Older, Peer
  <2> QED BY <1>9, <2>2 DEF Tick, OnlyLeave, Is
<1> QED BY <1>3, <1>4, <1>5, <1>6, <1>7, <1>8, <1>9 DEF Next

\* A kick is never forgotten: as long as a connection somebody wanted gone is
\* there, its own callback waits to be run - whatever is connected, kicked or
\* removed before it, and whoever gets a client number again.  That the
\* callback runs in the end, and the connection goes (KickedGoes), then takes
\* only the fairness of the event loop.
THEOREM KicksStayPosted == Spec => []KickPending
<1>1. Init => Pending
  <2> SUFFICES ASSUME Init PROVE Pending
    OBVIOUS
  <2>1. \A c \in Cns : Is(c, "empty")
    BY NobodySound DEF Init, Is
  <2> QED BY <2>1 DEF Init, Pending, Numbered, KickPending
<1>2. IInv /\ Pending /\ [Next]_vars => Pending'
  <2> SUFFICES ASSUME IInv, Pending, [Next]_vars PROVE Pending'
    OBVIOUS
  <2>1. CASE UNCHANGED vars
    BY <2>1, SamePending DEF vars, OnlyLeave, Is
  <2> QED BY <2>1, ConnectPending, AskPending, ExecutePending, OthersLeave, SamePending
<1>3. Pending => KickPending
  BY DEF Pending
<1> QED BY <1>1, <1>2, <1>3, SlotInv, PTL DEF Spec

-----------------------------------------------------------------------------
\* The connection is unfinished before and after a step.
Unfinished(p, q) == p.phase = "connecting" /\ q.phase = "connecting"

\* Nothing puts off the timeout of an unfinished connection (connectmillis),
\* and every tick brings it nearer; one that has expired is left only by a tick
\* that closes another that has.
TimeoutNears ==
  [][\A c \in Cns : Unfinished(peer[c], peer'[c]) =>
       /\ peer'[c].age >= peer[c].age
       /\ Tick => \/ peer'[c].age > peer[c].age
                  \/ /\ Expired(peer[c])
                     /\ \E d \in Cns : Expired(peer[d]) /\ Is(d, "empty")']_vars

\* What handlers do to one record has nothing to do with its age.
LEMMA PutAge ==
  ASSUME Peers, NEW c \in Cns, NEW p, peer' = [peer EXCEPT ![c] = p],
         Unfinished(peer[c], p) => p.age = peer[c].age, NEW d \in Cns,
         Unfinished(peer[d], peer'[d])
  PROVE  peer'[d].age = peer[d].age
BY DEF Peers

\* Whatever clients and admins do, on the age of a connection.
LEMMA OthersKeepAge ==
  ASSUME IInv, Next, ~Tick, NEW d \in Cns, Unfinished(peer[d], peer'[d])
  PROVE  peer'[d].age = peer[d].age
<1>1. Peers /\ \A c \in Cns : peer[c] \in Peer
  BY DEF IInv, Peers
<1>2. ASSUME clientconnect PROVE peer'[d].age = peer[d].age
  <2>1. PICK c \in Cns : /\ Is(c, "empty")
                         /\ peer' = [peer EXCEPT ![c] = [Nobody EXCEPT !.phase = "connecting",
                                                               !.sessionid = sessions + 1]]
    BY <1>2 DEF clientconnect
  <2> QED BY <1>1, <2>1, PutAge DEF Unfinished, Is
<1>3. ASSUME NEW c \in Cns, NEW admin \in BOOLEAN, NEW spy \in {FALSE, SpiesAllowed},
             NEW slotpass \in BOOLEAN, NEW spectator \in BOOLEAN,
             Admit(c, admin, spy, slotpass, spectator)
      PROVE  peer'[d].age = peer[d].age
  <2> DEFINE q == [Identified(c, admin, spy) EXCEPT !.phase = "connected",
                                                    !.spectator = spectator, !.age = 0]
             r == [q EXCEPT !.using_reservedslot = TRUE]
  <2>1. peer' = [peer EXCEPT ![c] = q] \/ peer' = [peer EXCEPT ![c] = r]
    BY <1>3 DEF Admit
  <2>2. q.phase = "connected" /\ r.phase = "connected"
    BY <1>1 DEF Identified, Peer
  <2> HIDE DEF q, r
  <2> QED BY <1>1, <2>1, <2>2, PutAge DEF Unfinished
<1>4. ASSUME NEW c \in Cns, NEW admin \in BOOLEAN, NEW spy \in {FALSE, SpiesAllowed},
             Wait(c, admin, spy)
      PROVE  peer'[d].age = peer[d].age
  <2> DEFINE q == [Identified(c, admin, spy) EXCEPT !.connectauth = TRUE]
  <2>1. peer' = [peer EXCEPT ![c] = q]
    BY <1>4 DEF Wait
  <2>2. q.age = peer[c].age
    BY <1>1 DEF Identified, Peer
  <2> HIDE DEF q
  <2> QED BY <1>1, <2>1, <2>2, PutAge
<1>5. ASSUME NEW c \in Cns, NEW spectator \in BOOLEAN, player_join_game(c, spectator)
      PROVE  peer'[d].age = peer[d].age
  <2> DEFINE q == [peer[c] EXCEPT !.phase = "connected", !.spectator = spectator, !.age = 0,
                                  !.vouched = TRUE]
  <2>1. peer' = [peer EXCEPT ![c] = q]
    BY <1>5 DEF player_join_game
  <2>2. q.phase = "connected"
    BY <1>1 DEF Peer
  <2> HIDE DEF q
  <2> QED BY <1>1, <2>1, <2>2, PutAge DEF Unfinished
<1>6. ASSUME NEW c \in Cns, clientdisconnect(c) PROVE peer'[d].age = peer[d].age
  BY <1>1, <1>6, NobodySound, PutAge DEF clientdisconnect, Unfinished
<1>7. ASSUME NEW c \in Cns, \/ setspectator(c)
                            \/ \E val, spectator \in BOOLEAN : set_spy(c, val, spectator)
      PROVE  peer'[d].age = peer[d].age
  <2>1. peer[c].phase = "connected" /\ \A e \in Cns \ {c} : peer'[e] = peer[e]
    BY <1>1, <1>7 DEF setspectator, set_spy, Players, Is, Peers
  <2> QED BY <2>1 DEF Unfinished
<1>8. ASSUME UNCHANGED peer PROVE peer'[d].age = peer[d].age
  BY <1>8
<1> QED BY <1>2, <1>3, <1>4, <1>5, <1>6, <1>7, <1>8
        DEF Next, Leave, disconnect, execute_disconnect, IInv, Kicks

\* serverupdate: a connection gets older, or has expired and another is closed.
LEMMA TickNears ==
  ASSUME IInv, Tick, NEW c \in Cns, Unfinished(peer[c], peer'[c])
  PROVE  /\ peer'[c].age >= peer[c].age
         /\ \/ peer'[c].age > peer[c].age
            \/ /\ Expired(peer[c])
               /\ \E d \in Cns : Expired(peer[d]) /\ Is(d, "empty")'
<1>1. PICK gone \in SUBSET {d \in Cns : Expired(peer[d])} :
        /\ gone = {} => \A d \in Cns : ~Expired(peer[d])
        /\ peer' = [d \in Cns |-> IF d \in gone THEN Nobody ELSE Older(peer[d])]
  BY DEF Tick
<1>2. peer[c] \in Peer /\ peer[c].age \in 0..ConnectTimeout
  BY DEF IInv, Peers, Peer
<1>3. peer[c].phase = "connecting" /\ peer'[c] = Older(peer[c])
  BY <1>1, NobodySound DEF Unfinished
<1>4. CASE peer[c].age < ConnectTimeout
  <2>1. peer'[c].age = peer[c].age + 1
    BY <1>2, <1>3, <1>4 DEF Older, Peer
  <2> QED BY <1>2, <2>1
<1>5. CASE peer[c].age = ConnectTimeout
  <2>1. Expired(peer[c]) /\ peer'[c] = peer[c]
    BY <1>2, <1>3, <1>5, AdmissionAssumption DEF Expired, Older
  <2>2. PICK d \in gone : d \in Cns /\ Expired(peer[d])
    BY <1>1, <2>1
  <2>3. Is(d, "empty")'
    BY <1>1, <2>2, NobodySound DEF Is
  <2> QED BY <1>2, <2>1, <2>2, <2>3
<1> QED BY <1>2, <1>4, <1>5, AdmissionAssumption

\* The timeout of unfinished connections only comes nearer (serverupdate): what
\* ConnectionEnds needs beside a timer that runs.
THEOREM TimeoutsNear == Spec => TimeoutNears
<1> DEFINE A == \A c \in Cns : Unfinished(peer[c], peer'[c]) =>
                  /\ peer'[c].age >= peer[c].age
                  /\ Tick => \/ peer'[c].age > peer[c].age
                             \/ /\ Expired(peer[c])
                                /\ \E d \in Cns : Expired(peer[d]) /\ Is(d, "empty")'
<1>1. ASSUME IInv, Next, NEW c \in Cns, Unfinished(peer[c], peer'[c])
      PROVE  /\ peer'[c].age >= peer[c].age
             /\ Tick => \/ peer'[c].age > peer[c].age
                        \/ /\ Expired(peer[c])
                           /\ \E d \in Cns : Expired(peer[d]) /\ Is(d, "empty")'
  <2>1. CASE Tick
    BY <1>1, <2>1, TickNears
  <2>2. CASE ~Tick
    <3>1. peer'[c].age = peer[c].age
      BY <1>1, <2>2, OthersKeepAge
    <3>2. peer[c].age \in Nat
      BY <1>1 DEF IInv, Peers, Peer
    <3> QED BY <2>2, <3>1, <3>2
  <2> QED BY <2>1, <2>2
<1>2. IInv /\ [Next]_vars => [A]_vars
  BY <1>1
<1> QED BY <1>2, SlotInv, PTL DEF Spec, TimeoutNears
=============================================================================
