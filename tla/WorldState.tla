----------------------------- MODULE WorldState -----------------------------
(***************************************************************************)
(* How the server passes positions and messages on (buildworldstate,       *)
(* addposition, sendpositions, addmessages, sendmessages, cleanworldstate  *)
(* and flushclientposition of fpsgame/server.cpp): one buffer for all      *)
(* clients, in segments no longer than a packet may be, each written twice *)
(* in a row so that everybody's packet is a slice that begins after the    *)
(* client's own data and ends before it.  ENet does not copy the slices:   *)
(* the buffer lives until it has freed the last packet.                    *)
(*                                                                         *)
(* Data are sequences of units that tell whose they are, in which channel, *)
(* and which of them.  Only lengths are kept of what is queued, and        *)
(* numbers of the packets ENet holds: those of one buffer for one client   *)
(* are alike.  The demo and the copies for delayed spectators              *)
(* (recordpacket) are module Match's.                                      *)
(***************************************************************************)
EXTENDS Integers, Sequences, FiniteSets, Functions

CONSTANTS
  Order,          \* the humans, in the order of the client list
  BotOrder,       \* the bots, in the order of the lists of their owners
  Nobody,         \* no owner
  Addrs,          \* bound: where buffers may be
  Mtu,            \* units of a segment
  Reserve,        \* units allowed for in front of the messages of a client
  Header,         \* units that are really put there
  MaxPosition, MaxMessages,   \* bounds on what one client queues
  MaxQueued                   \* bound on what is queued in all

Humans == Range(Order)
Bots == Range(BotOrder)
Cns == Humans \cup Bots

ASSUME WorldStateAssumption ==
  /\ Order \in Seq(Humans) /\ IsInjective(Order)
  /\ BotOrder \in Seq(Bots) /\ IsInjective(BotOrder)
  /\ Humans \cap Bots = {} /\ Nobody \notin Humans
  /\ Mtu \in Nat /\ Reserve \in Nat /\ Header \in 0..Reserve
  /\ MaxPosition \in Nat /\ MaxMessages \in Nat /\ MaxQueued \in Nat

VARIABLES
  up,             \* the humans on the client list
  deaf,           \* those of them whose peer ENet has given up
  owner,          \* [Bots -> who has the bot on its list]
  position,       \* [Cns -> units of the last position]
  messages,       \* [Cns -> units of messages]
  worldstates,    \* [Addrs -> uses of the buffer there, 0: none]
  flight          \* [Addrs -> [Humans -> packets ENet holds]]

vars == <<up, deaf, owner, position, messages, worldstates, flight>>

Carrier(c) == IF c \in Bots THEN owner[c] ELSE c
Total(len) == Cardinality(UNION {{x} \X (1..len[x]) : x \in DOMAIN len})
Queued == Total(position) + Total(messages)

Init ==
  /\ up = {} /\ deaf = {}
  /\ owner = [b \in Bots |-> Nobody]
  /\ position = [c \in Cns |-> 0] /\ messages = [c \in Cns |-> 0]
  /\ worldstates = [a \in Addrs |-> 0]
  /\ flight = [a \in Addrs |-> [h \in Humans |-> 0]]

-----------------------------------------------------------------------------
(* buildworldstate, as a fold over what is queued.  The accumulator is the *)
(* buffer, where its last segment begins, for each client where its data   *)
(* in the buffer begin and how long they are (wsdata, wslen), and the      *)
(* slices sent.  Offsets begin at 0; wsdata is -1 for NULL.                *)
Blank ==
  [buf |-> <<>>, begin |-> 0, wsdata |-> [h \in Humans |-> -1],
   wslen |-> [h \in Humans |-> 0], sent |-> {}]

SegmentLength(acc) == Len(acc.buf) - acc.begin
InSegment(acc, h) == acc.wsdata[h] >= acc.begin

\* The slice of the last segment for h: all of it, or what is not its own.
Slice(acc, h, chan) ==
  LET n == SegmentLength(acc)
  IN  IF InSegment(acc, h)
      THEN [to |-> h, chan |-> chan, at |-> acc.wsdata[h] + acc.wslen[h], size |-> n - acc.wslen[h]]
      ELSE [to |-> h, chan |-> chan, at |-> acc.begin, size |-> n]

\* sendpositions and sendmessages: a peer that is given up takes no packet.
SendSegment(acc, chan) ==
  IF SegmentLength(acc) = 0 THEN acc
  ELSE LET twice == acc.buf \o SubSeq(acc.buf, acc.begin + 1, Len(acc.buf))
       IN  [acc EXCEPT
              !.buf = twice, !.begin = Len(twice),
              !.sent = @ \cup {p \in {Slice(acc, h, chan) : h \in up \ deaf} : p.size > 0}]

\* Mutated form of AddData: wsdata of a segment that is sent is not told from one of
\* this segment.
AddDataStale(acc, c, chan, room, units) ==
  LET h  == Carrier(c)
      a  == IF SegmentLength(acc) + room > Mtu THEN SendSegment(acc, chan) ELSE acc
      in == InSegment(acc, h)
  IN  [a EXCEPT !.buf = @ \o units,
                !.wsdata[h] = IF in THEN @ ELSE Len(a.buf),
                !.wslen[h] = IF in THEN @ + Len(units) ELSE Len(units)]

\* addposition and addmessages: c's data, on behalf of its carrier.  room is
\* what they are taken to need, units what they are.
AddData(acc, c, chan, room, units) ==
  LET h  == Carrier(c)
      a  == IF SegmentLength(acc) + room > Mtu THEN SendSegment(acc, chan) ELSE acc
      in == InSegment(a, h)
  IN  [a EXCEPT !.buf = @ \o units,
                !.wsdata[h] = IF in THEN @ ELSE Len(a.buf),
                !.wslen[h] = IF in THEN @ + Len(units) ELSE Len(units)]

\* What c has to say in channel chan, 0 for its position and 1 for its messages.
Due(c, chan) ==
  CASE chan = 0                       -> position[c]
    [] chan = 1 /\ messages[c] = 0    -> 0
    [] chan = 1 /\ messages[c] > 0    -> Header + messages[c]
Units(c, chan) == [i \in 1..Due(c, chan) |-> <<c, chan, i>>]

addposition(acc, c) ==
  IF position[c] = 0 THEN acc ELSE AddData(acc, c, 0, position[c], Units(c, 0))

addmessages(acc, c) ==
  IF messages[c] = 0 THEN acc ELSE AddData(acc, c, 1, Reserve + messages[c], Units(c, 1))

Add(acc, c, chan) == IF chan = 0 THEN addposition(acc, c) ELSE addmessages(acc, c)

\* The loop over the bots of h, after h's own data.
WithBots(acc, h, chan) ==
  LET a[j \in 0..Len(BotOrder)] ==
        IF j = 0 THEN Add(acc, h, chan)
        ELSE IF owner[BotOrder[j]] = h THEN Add(a[j - 1], BotOrder[j], chan) ELSE a[j - 1]
  IN  a

\* The loop over the client list.
Everybody(acc, chan) ==
  LET a[i \in 0..Len(Order)] ==
        IF i = 0 THEN acc
        ELSE IF Order[i] \in up THEN WithBots(a[i - 1], Order[i], chan)[Len(BotOrder)] ELSE a[i - 1]
  IN  a

Pass(acc, chan) == SendSegment(Everybody(acc, chan)[Len(Order)], chan)
World == Pass(Pass(Blank, 0), 1)

\* Mutated form of buildworldstate: a use is counted for every client, also when
\* its peer did not take the packet.
buildworldstateAll ==
  /\ up # {}
  /\ \E c \in up \cup Bots : position[c] + messages[c] > 0
  /\ \E a \in Addrs :
       /\ worldstates[a] = 0
       /\ worldstates' = [worldstates EXCEPT ![a] = Cardinality(World.sent) + Cardinality(deaf)]
       /\ flight' = [flight EXCEPT ![a] =
                       [h \in Humans |-> Cardinality({p \in World.sent : p.to = h})]]
  /\ position' = [c \in Cns |-> IF Carrier(c) \in up THEN 0 ELSE position[c]]
  /\ messages' = [c \in Cns |-> IF Carrier(c) \in up THEN 0 ELSE messages[c]]
  /\ UNCHANGED <<up, deaf, owner>>

\* The buffer is used once for every packet; unused, it is dropped.
buildworldstate ==
  /\ up # {}
  /\ \E c \in up \cup Bots : position[c] + messages[c] > 0
  /\ \E a \in Addrs :
       /\ worldstates[a] = 0
       /\ worldstates' = [worldstates EXCEPT ![a] = Cardinality(World.sent)]
       /\ flight' = [flight EXCEPT ![a] =
                       [h \in Humans |-> Cardinality({p \in World.sent : p.to = h})]]
  /\ position' = [c \in Cns |-> IF Carrier(c) \in up THEN 0 ELSE position[c]]
  /\ messages' = [c \in Cns |-> IF Carrier(c) \in up THEN 0 ELSE messages[c]]
  /\ UNCHANGED <<up, deaf, owner>>

-----------------------------------------------------------------------------
\* Mutated form of cleanworldstate: the use is given back once by the sender too.
cleanworldstateTwice(a, h) ==
  /\ flight[a][h] > 0
  /\ flight' = [flight EXCEPT ![a][h] = @ - 1]
  /\ worldstates' = [worldstates EXCEPT ![a] = IF @ > 0 THEN @ - 2 ELSE 0]
  /\ UNCHANGED <<up, deaf, owner, position, messages>>

\* cleanworldstate: ENet has done with a packet for h, which arrived, was
\* dropped, or was queued for a peer that is reset.  The last use gone, the
\* buffer is freed; a packet of no buffer changes nothing.
cleanworldstate(a, h) ==
  /\ flight[a][h] > 0
  /\ flight' = [flight EXCEPT ![a][h] = @ - 1]
  /\ worldstates' = [worldstates EXCEPT ![a] = IF @ > 0 THEN @ - 1 ELSE 0]
  /\ UNCHANGED <<up, deaf, owner, position, messages>>

\* N_POS: the position replaces the one before.
N_POS(c, n) ==
  /\ Carrier(c) \in up
  /\ Queued - position[c] + n <= MaxQueued
  /\ position' = [position EXCEPT ![c] = n]
  /\ UNCHANGED <<up, deaf, owner, messages, worldstates, flight>>

QUEUE_MSG(c, n) ==
  /\ Carrier(c) \in up
  /\ messages[c] + n <= MaxMessages /\ Queued + n <= MaxQueued
  /\ messages' = [messages EXCEPT ![c] = @ + n]
  /\ UNCHANGED <<up, deaf, owner, position, worldstates, flight>>

\* N_TELEPORT, N_JUMPPAD: the position goes ahead in a packet of its own.  A
\* death (dodamage, suicide) discards it, to the same effect here.
flushclientposition(c) ==
  /\ Carrier(c) \in up /\ position[c] > 0
  /\ position' = [position EXCEPT ![c] = 0]
  /\ UNCHANGED <<up, deaf, owner, messages, worldstates, flight>>

Connect(h) ==
  /\ h \notin up
  /\ up' = up \cup {h}
  /\ UNCHANGED <<deaf, owner, position, messages, worldstates, flight>>

\* ENet gives a peer up; the server hears of it later.
PeerLost(h) ==
  /\ h \in up \ deaf
  /\ deaf' = deaf \cup {h}
  /\ UNCHANGED <<up, owner, position, messages, worldstates, flight>>

\* clientdisconnect; removeai leaves the bots to be shifted.
clientdisconnect(h) ==
  /\ h \in up
  /\ up' = up \ {h} /\ deaf' = deaf \ {h}
  /\ owner' = [b \in Bots |-> IF owner[b] = h THEN Nobody ELSE owner[b]]
  /\ position' = [position EXCEPT ![h] = 0] /\ messages' = [messages EXCEPT ![h] = 0]
  /\ UNCHANGED <<worldstates, flight>>

shiftai(b, h) ==
  /\ h \in up /\ owner[b] # h
  /\ owner' = [owner EXCEPT ![b] = h]
  /\ UNCHANGED <<up, deaf, position, messages, worldstates, flight>>

Next ==
  \/ \E h \in Humans : Connect(h) \/ PeerLost(h) \/ clientdisconnect(h)
  \/ \E b \in Bots, h \in Humans : shiftai(b, h)
  \/ \E c \in Cns, n \in 1..MaxPosition : N_POS(c, n)
  \/ \E c \in Cns, n \in 1..MaxMessages : QUEUE_MSG(c, n)
  \/ \E c \in Cns : flushclientposition(c)
  \/ buildworldstate
  \/ \E a \in Addrs, h \in Humans : cleanworldstate(a, h)

Spec == Init /\ [][Next]_vars

-----------------------------------------------------------------------------
\* The type invariant: uses are not counted below zero, and the peers given up
\* are those of clients still on the list.
TypeOK ==
  /\ deaf \subseteq up /\ up \subseteq Humans
  /\ owner \in [Bots -> Humans \cup {Nobody}]
  /\ position \in [Cns -> Nat] /\ messages \in [Cns -> Nat]
  /\ worldstates \in [Addrs -> Nat]
  /\ flight \in [Addrs -> [Humans -> Nat]]

\* A buffer has as many uses as ENet holds packets of it: it is not freed under
\* one (sendpositions, cleanworldstate), nor kept when the last is gone, although
\* packets are freed in any order and peers are lost in between.
BufferLivesAsLong ==
  \A a \in Addrs : worldstates[a] = Total(flight[a])

wsmax ==
  Total([c \in up \cup Bots |->
           position[c] + IF messages[c] > 0 THEN Reserve + messages[c] ELSE 0])

\* What everybody but h and their bots have to say, and where h finds what it is sent.
Data(c, chan) == Range(Units(c, chan))
Others(h) == UNION {Data(c, chan) : c \in {d \in Cns : Carrier(d) \in up \ {h}}, chan \in {0, 1}}
Places(p) == (p.at + 1)..(p.at + p.size)
Read(p) == {World.buf[i] : i \in Places(p)}

\* However the data are split into segments, a world state fits its buffer, and
\* a client whose peer is there gets what everybody else and their bots have
\* queued, once, each's data whole in one packet of their channel, and nothing
\* of its own; the others get nothing (sendpositions, sendmessages).
EverybodyElse ==
  /\ Len(World.buf) <= 2 * wsmax
  /\ \A p \in World.sent :
       /\ p.to \in up \ deaf /\ Places(p) \subseteq DOMAIN World.buf
       /\ \A u \in Read(p) : /\ u \in Others(p.to) /\ u[2] = p.chan
                             /\ Data(u[1], u[2]) \subseteq Read(p)
       /\ \A q \in World.sent : q.to = p.to =>
            \A i \in Places(p), j \in Places(q) : World.buf[i] = World.buf[j] => p = q /\ i = j
  /\ \A h \in up \ deaf : \A u \in Others(h) : \E p \in World.sent : p.to = h /\ u \in Read(p)
=============================================================================
