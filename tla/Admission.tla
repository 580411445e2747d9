----------------------------- MODULE Admission -----------------------------
(***************************************************************************)
(* How a connection becomes a player (clientconnect, allowconnect,         *)
(* connected, clientdisconnect of fpsgame/server.cpp): client numbers are  *)
(* used again, room is kept for admins in reserved slots, spies are not    *)
(* counted, unfinished connections time out, and a kick is carried out     *)
(* later by a posted callback.                                             *)
(*                                                                         *)
(* The engine accepts a connection and calls clientconnect in one step     *)
(* here: the network events it may process in between are not modelled.    *)
(* Session ids, drawn at random by the code, are taken to be different.    *)
(* Passwords, bans, auth servers and the mastermode decide by choice; what  *)
(* the auth scripts do is reduced to their player_join_game call.          *)
(***************************************************************************)
EXTENDS Integers, FiniteSets

CONSTANTS
  Cns,             \* client numbers, MAXCLIENTS of them
  Maxclients,      \* configured value of maxclients
  ReservedSlots,   \* configured value of reservedslots
  spec_slots,      \* server variable: spectators take no room
  SpiesAllowed,    \* somebody knows how to become a spy
  serverauth,      \* an auth domain may vouch for refused clients
  ConnectTimeout,  \* ticks a connection may stay unfinished
  MaxSession       \* bound on the number of connections

ASSUME AdmissionAssumption ==
  /\ IsFiniteSet(Cns)
  /\ Maxclients \in Nat /\ ReservedSlots \in Nat
  /\ {spec_slots, SpiesAllowed, serverauth} \subseteq BOOLEAN
  /\ ConnectTimeout \in Nat \ {0}
  /\ MaxSession \in Nat

VARIABLES
  peer,               \* [Cns -> what the server knows of the client]
  sessions,           \* connections so far; the last one has this sessionid
  maxclients,
  reservedslots,
  reservedslots_use,
  posted,             \* disconnect_info of the posted execute_disconnect calls
  asked,              \* history: sessions somebody wanted disconnected
  removed             \* history: sessions execute_disconnect disconnected

vars == <<peer, sessions, maxclients, reservedslots, reservedslots_use, posted,
          asked, removed>>
slots == <<maxclients, reservedslots, reservedslots_use>>

Phases == {"empty", "connecting", "connected"}
Nobody == [phase |-> "empty", sessionid |-> 0, age |-> 0, admin |-> FALSE, spy |-> FALSE,
           spectator |-> FALSE, using_reservedslot |-> FALSE, connectauth |-> FALSE,
           vouched |-> FALSE]

Is(c, phase) == peer[c].phase = phase
Players == {c \in Cns : Is(c, "connected")}
Spies == {c \in Players : peer[c].spy}
Users == {c \in Players : peer[c].using_reservedslot}

\* numclients(-1, false, true), spy_count and spec_count.
numclients == Cardinality(Players) - Cardinality(Spies)
spy_count == Cardinality(Spies)
spec_count == Cardinality({c \in Players \ Spies : peer[c].spectator})

Init ==
  /\ peer = [c \in Cns |-> Nobody]
  /\ sessions = 0
  /\ maxclients = Maxclients
  /\ reservedslots = ReservedSlots
  /\ reservedslots_use = 0
  /\ posted = {}
  /\ asked = {}
  /\ removed = {}

-----------------------------------------------------------------------------
\* The engine takes the first empty slot; clientconnect puts it in connects.
clientconnect ==
  /\ sessions < MaxSession
  /\ sessions' = sessions + 1
  /\ \E c \in Cns :
       /\ Is(c, "empty")
       /\ \A d \in Cns : d < c => ~Is(d, "empty")
       /\ peer' = [peer EXCEPT ![c] = [Nobody EXCEPT !.phase = "connecting",
                                                     !.sessionid = sessions + 1]]
  /\ UNCHANGED <<slots, posted, asked, removed>>

\* What the connecting event leaves of the client: its password may have made
\* it an admin or a spy.
Identified(c, admin, spy) ==
  [peer[c] EXCEPT !.admin = @ \/ admin \/ spy, !.spy = spy]

\* Mutated form of HasReserved: an admin gets in whatever is left.
HasReservedEmpty(p, slotpass) == p.admin \/ slotpass

HasReserved(p, slotpass) == (p.admin \/ slotpass) /\ reservedslots > 0

\* Mutated form of Full: a client fits when the server is just full.
FullOffByOne(p) ==
  numclients > maxclients + (IF spec_slots THEN spec_count ELSE 0)
                 + spy_count + (IF p.spy THEN 1 ELSE 0)

\* allowconnect returns DISC_MAXCLIENTS.
Full(p) ==
  numclients >= maxclients + (IF spec_slots THEN spec_count ELSE 0)
                  + spy_count + (IF p.spy THEN 1 ELSE 0)

\* The reserved branch of allowconnect: a full server grows by one.
takeslot ==
  /\ reservedslots' = reservedslots - 1
  /\ reservedslots_use' = reservedslots_use + (IF numclients >= maxclients THEN 1 ELSE 0)
  /\ maxclients' = maxclients + (IF numclients >= maxclients THEN 1 ELSE 0)

\* N_CONNECT that allowconnect accepts, and connected.
Admit(c, admin, spy, slotpass, spectator) ==
  LET p == Identified(c, admin, spy)
      q == [p EXCEPT !.phase = "connected", !.spectator = spectator, !.age = 0]
  IN  /\ Is(c, "connecting")
      /\ ~peer[c].connectauth
      /\ \/ /\ HasReserved(p, slotpass)
            /\ takeslot
            /\ peer' = [peer EXCEPT ![c] = [q EXCEPT !.using_reservedslot = TRUE]]
         \/ /\ ~HasReserved(p, slotpass)
            /\ ~Full(p)
            /\ peer' = [peer EXCEPT ![c] = q]
            /\ UNCHANGED slots
      /\ UNCHANGED <<sessions, posted, asked, removed>>

\* N_CONNECT that allowconnect refuses, of a client the auth domain may vouch
\* for: it stays in connects, and another N_CONNECT is not accepted.
Wait(c, admin, spy) ==
  /\ serverauth
  /\ Is(c, "connecting")
  /\ ~peer[c].connectauth
  /\ peer' = [peer EXCEPT ![c] = [Identified(c, admin, spy) EXCEPT !.connectauth = TRUE]]
  /\ UNCHANGED <<sessions, slots, posted, asked, removed>>

\* player_join_game: the auth script lets in the client that now has the number
\* it knows, and allowconnect is not asked again.  The success may come late,
\* after another client was given the number, one that may not have sent its
\* N_CONNECT yet.  vouched is history.
player_join_game(c, spectator) ==
  /\ serverauth
  /\ Is(c, "connecting")
  /\ peer' = [peer EXCEPT ![c] = [@ EXCEPT !.phase = "connected", !.spectator = spectator,
                                           !.age = 0, !.vouched = TRUE]]
  /\ UNCHANGED <<sessions, slots, posted, asked, removed>>

\* Mutated form of giveback: a reserved slot is lost with its user.
givebackNever(c) ==
  /\ maxclients' = maxclients - (IF reservedslots_use > 0 THEN 1 ELSE 0)
  /\ reservedslots_use' = reservedslots_use - (IF reservedslots_use > 0 THEN 1 ELSE 0)
  /\ reservedslots' = reservedslots

\* clientdisconnect of a player: whoever leaves a server that has grown, it
\* shrinks by one; a reserved slot is given back by its user.
giveback(c) ==
  /\ maxclients' = maxclients - (IF reservedslots_use > 0 THEN 1 ELSE 0)
  /\ reservedslots_use' = reservedslots_use - (IF reservedslots_use > 0 THEN 1 ELSE 0)
  /\ reservedslots' = reservedslots + (IF peer[c].using_reservedslot THEN 1 ELSE 0)

clientdisconnect(c) ==
  /\ peer' = [peer EXCEPT ![c] = Nobody]
  /\ IF Is(c, "connected") THEN giveback(c) ELSE UNCHANGED slots

\* The client goes, or the server disconnects it at once: a refused connection,
\* a malformed message, player_reject_join_game.
Leave(c) ==
  /\ ~Is(c, "empty")
  /\ clientdisconnect(c)
  /\ UNCHANGED <<sessions, posted, asked, removed>>

\* setspectator.
setspectator(c) ==
  /\ c \in Players \ Spies
  /\ peer' = [peer EXCEPT ![c].spectator = ~@]
  /\ UNCHANGED <<sessions, slots, posted, asked, removed>>

\* set_spy of a player: leaving, he stays a spectator if the mastermode does
\* not let him play.
set_spy(c, val, spectator) ==
  /\ c \in Players
  /\ peer[c].spy # val
  /\ val => SpiesAllowed
  /\ peer' = [peer EXCEPT ![c].spy = val, ![c].admin = @ \/ val,
                          ![c].spectator = val \/ (@ /\ spectator)]
  /\ UNCHANGED <<sessions, slots, posted, asked, removed>>

\* disconnect: a script wants the client gone, and the callback is posted.
disconnect(c) ==
  /\ ~Is(c, "empty")
  /\ posted' = posted \cup {[cn |-> c, session_id |-> peer[c].sessionid]}
  /\ asked' = asked \cup {peer[c].sessionid}
  /\ UNCHANGED <<peer, sessions, slots, removed>>

\* Mutated form of SameSession: the callback trusts the client number.
SameSessionCn(info) == ~Is(info.cn, "empty")

\* Mutated form of SameSession: only the newest connection is closed.
SameSessionNewest(info) ==
  ~Is(info.cn, "empty") /\ info.session_id = sessions

\* The client number still belongs to the connection that was meant.
SameSession(info) ==
  ~Is(info.cn, "empty") /\ peer[info.cn].sessionid = info.session_id

execute_disconnect(info) ==
  /\ info \in posted
  /\ posted' = posted \ {info}
  /\ IF SameSession(info)
     THEN clientdisconnect(info.cn) /\ removed' = removed \cup {peer[info.cn].sessionid}
     ELSE UNCHANGED <<peer, slots, removed>>
  /\ UNCHANGED <<sessions, asked>>

\* Mutated form of Expired: the age of a connection is not looked at.
ExpiredNever(p) == FALSE

Expired(p) == p.phase = "connecting" /\ p.age = ConnectTimeout

Older(p) == IF p.phase = "connecting" /\ p.age < ConnectTimeout
            THEN [p EXCEPT !.age = @ + 1] ELSE p

\* serverupdate: time passes and expired connections are closed.  Removing
\* one while the vector is walked skips the next, so not all go at once.
Tick ==
  /\ \E gone \in SUBSET {c \in Cns : Expired(peer[c])} :
       /\ gone = {} => \A c \in Cns : ~Expired(peer[c])
       /\ peer' = [c \in Cns |-> IF c \in gone THEN Nobody ELSE Older(peer[c])]
  /\ UNCHANGED <<sessions, slots, posted, asked, removed>>

Next ==
  \/ clientconnect
  \/ \E c \in Cns :
       \/ \E admin, slotpass, spectator \in BOOLEAN, spy \in {FALSE, SpiesAllowed} :
            Admit(c, admin, spy, slotpass, spectator)
       \/ \E admin \in BOOLEAN, spy \in {FALSE, SpiesAllowed} : Wait(c, admin, spy)
       \/ \E spectator \in BOOLEAN : player_join_game(c, spectator)
       \/ Leave(c)
       \/ setspectator(c)
       \/ \E val, spectator \in BOOLEAN : set_spy(c, val, spectator)
       \/ disconnect(c)
  \/ \E info \in posted : execute_disconnect(info)
  \/ Tick

Spec == Init /\ [][Next]_vars

\* The update timer runs while there is any client, and the io_service runs
\* what is posted to it.
Fairness ==
  /\ WF_vars(Tick)
  /\ \A c \in Cns, s \in 1..MaxSession :
       WF_vars(execute_disconnect([cn |-> c, session_id |-> s]))

FairSpec == Spec /\ Fairness

-----------------------------------------------------------------------------
(***************************************************************************)
(* Properties                                                              *)
(***************************************************************************)
\* The type invariant.
TypeOK ==
  /\ peer \in [Cns -> [phase: Phases, sessionid: 0..MaxSession, age: 0..ConnectTimeout,
                       admin: BOOLEAN, spy: BOOLEAN, spectator: BOOLEAN,
                       using_reservedslot: BOOLEAN, connectauth: BOOLEAN,
                       vouched: BOOLEAN]]
  /\ sessions \in 0..MaxSession
  /\ maxclients \in Nat /\ reservedslots \in Nat /\ reservedslots_use \in Nat
  /\ posted \subseteq [cn: Cns, session_id: 1..MaxSession]
  /\ asked \subseteq 1..MaxSession
  /\ removed \subseteq 1..MaxSession

\* The three counters never drift, though whoever leaves shrinks the server
\* and only the user of a reserved slot gives it back: the server has grown
\* exactly by reservedslots_use, free and used slots add up to the configured
\* number, and it has not grown by more than there are users.
SlotAccounting ==
  /\ maxclients = Maxclients + reservedslots_use
  /\ reservedslots + Cardinality(Users) = ReservedSlots
  /\ reservedslots_use <= Cardinality(Users)

\* Where there are no spies, spectators take room and no auth domain lets in
\* whom allowconnect refused, the server never has more clients than its
\* present maxclients, in any order of admins, others and disconnects.
WithinCapacity ==
  ~SpiesAllowed /\ ~spec_slots /\ ~serverauth => Cardinality(Players) <= maxclients

\* By how many clients the server exceeds its present maxclients.
Excess == Cardinality(Players) - maxclients

\* Where there are, the server never gets more crowded than it was unless one
\* of those whom the limit does not stop is there: a spy, a spectator who takes
\* no room, or a client an auth domain let in.  Admins who grow the server and
\* clients who shrink it again by leaving do not crowd it in any order.
CrowdExplained ==
  [][Excess' > Excess /\ Excess' > 0 =>
       \E c \in Players' : \/ peer'[c].spy
                           \/ peer'[c].vouched
                           \/ spec_slots /\ peer'[c].spectator]_vars

\* The posted callback disconnects only connections somebody asked it for, not
\* the one that got the client number in the meantime.
KickedOnlyIfAsked == removed \subseteq asked

\* A connection does not stay unfinished for ever: it is let in or closed.
ConnectionEnds ==
  \A c \in Cns, s \in 1..MaxSession :
    (Is(c, "connecting") /\ peer[c].sessionid = s)
      ~> ~(Is(c, "connecting") /\ peer[c].sessionid = s)

\* A client somebody wanted gone goes, even when it leaves by itself and its
\* number is given to another before the callback runs.
KickedGoes ==
  \A s \in 1..MaxSession :
    (s \in asked) ~> (\A c \in Cns : peer[c].sessionid # s)
=============================================================================
