-------------------------- MODULE WorldStateProofs --------------------------
(***************************************************************************)
(* That a world state reaches everybody else, exactly once and whole, for  *)
(* every number of clients and bots and every segment length.              *)
(*                                                                         *)
(* The argument follows the code.  Core is what building keeps true of the *)
(* accumulator: the segment being filled holds every unit at one place,    *)
(* each client's own data in one stretch of it; the packets sent bring the *)
(* units of the earlier segments, each once to everybody but its carrier;  *)
(* and every earlier unit takes two places of the buffer.  SendCore and    *)
(* AddCore show that sending a segment and adding data keep it, TurnCore   *)
(* and ClientsCore that the two loops do, by induction over the loop       *)
(* counter (UpTo).  Fits counts the units against what was allowed for.    *)
(* BufferLivesAsLong is inductive together with the type invariant, once   *)
(* packets can be counted by client (CountByKey) and one by one            *)
(* (TotalLess).                                                            *)
(***************************************************************************)
EXTENDS WorldState, FiniteSetTheorems, SequenceTheorems, TLAPS

\* A set of natural numbers that holds 0 and with every number the next up to n.
LEMMA UpTo ==
  ASSUME NEW n \in Nat, NEW S, 0 \in S, \A i \in 1..n : i - 1 \in S => i \in S
  PROVE  0..n \subseteq S
<1> SUFFICES ASSUME (0..n) \ S # {} PROVE FALSE
  OBVIOUS
<1> DEFINE T == (0..n) \ S
<1>1. PICK x \in T : \A y \in T : ~(<<y, x>> \in OpToRel(<, Nat))
  <2>1. T \subseteq Nat /\ T # {}
    OBVIOUS
  <2> HIDE DEF T
  <2> QED BY <2>1, WFMin, NatLessThanWellFounded
<1>2. x \in 1..n /\ x \notin S
  <2>1. x # 0
    OBVIOUS
  <2> QED BY <2>1
<1>3. x - 1 \in S
  <2>1. x - 1 \in 0..n /\ x - 1 \in Nat /\ x \in Nat /\ x - 1 < x
    BY <1>2
  <2>2. <<x - 1, x>> \in OpToRel(<, Nat)
    BY <2>1 DEF OpToRel
  <2>3. x - 1 \notin T
    BY <1>1, <2>2
  <2> QED BY <2>1, <2>3
<1> QED BY <1>2, <1>3

\* The loop over the bots does what its body says.
LEMMA BotsLoop ==
  ASSUME NEW acc, NEW h, NEW chan
  PROVE  LET a == WithBots(acc, h, chan)
         IN  a = [j \in 0..Len(BotOrder) |->
                   IF j = 0 THEN Add(acc, h, chan)
                   ELSE IF owner[BotOrder[j]] = h THEN Add(a[j - 1], BotOrder[j], chan) ELSE a[j - 1]]
<1> DEFINE n == Len(BotOrder)
           Is(f, m) == f = [j \in 0..m |->
                   IF j = 0 THEN Add(acc, h, chan)
                   ELSE IF owner[BotOrder[j]] = h THEN Add(f[j - 1], BotOrder[j], chan) ELSE f[j - 1]]
           S == {m \in 0..n : \E f : Is(f, m)}
<1>0. n \in Nat
  BY WorldStateAssumption
<1>1. 0 \in S
  <2> DEFINE f == [j \in 0..0 |-> Add(acc, h, chan)]
  <2>1. \A j \in 0..0 : j = 0
    OBVIOUS
  <2>2. Is(f, 0)
    BY <2>1
  <2> HIDE DEF f, Is
  <2> QED BY <1>0, <2>2
<1>2. ASSUME NEW m \in 1..n, m - 1 \in S PROVE m \in S
  <2>1. PICK f : Is(f, m - 1)
    BY <1>2
  <2> DEFINE g == [j \in 0..m |->
                   IF j = 0 THEN Add(acc, h, chan)
                   ELSE IF owner[BotOrder[j]] = h THEN Add(f[j - 1], BotOrder[j], chan) ELSE f[j - 1]]
  <2>2. m - 1 \in 0..(m - 1) /\ m \in Nat /\ \A j \in 0..m : j # 0 => j - 1 \in 0..(m - 1) /\ j - 1 \in 0..m
    BY <1>0
  <2>3. ASSUME NEW j \in 0..(m - 1) PROVE g[j] = f[j]
    <3>1. f[j] = 
                   IF j = 0 THEN Add(acc, h, chan)
                   ELSE IF owner[BotOrder[j]] = h THEN Add(f[j - 1], BotOrder[j], chan) ELSE f[j - 1]
      BY <2>1
    <3>2. j \in 0..m
      BY <1>0
    <3> HIDE <2>1
    <3> QED BY <3>1, <3>2
  <2>4. \A j \in 0..m : j # 0 => g[j - 1] = f[j - 1]
    BY <2>2, <2>3
  <2>5. Is(g, m)
    BY <2>4
  <2> HIDE DEF g, Is
  <2> QED BY <1>0, <1>2, <2>5
<1>3. n \in S
  <2> HIDE DEF S
  <2>1. 0..n \subseteq S
    BY <1>0, <1>1, <1>2, UpTo
  <2> QED BY <1>0, <2>1
<1>4. \E f : Is(f, n)
  BY <1>3
<1> QED BY <1>4 DEF WithBots

\* So does the loop over the clients.
LEMMA ClientsLoop ==
  ASSUME NEW acc, NEW chan
  PROVE  LET a == Everybody(acc, chan)
         IN  a = [j \in 0..Len(Order) |->
                   IF j = 0 THEN acc
                   ELSE IF Order[j] \in up THEN WithBots(a[j - 1], Order[j], chan)[Len(BotOrder)] ELSE a[j - 1]]
<1> DEFINE n == Len(Order)
           Is(f, m) == f = [j \in 0..m |->
                   IF j = 0 THEN acc
                   ELSE IF Order[j] \in up THEN WithBots(f[j - 1], Order[j], chan)[Len(BotOrder)] ELSE f[j - 1]]
           S == {m \in 0..n : \E f : Is(f, m)}
<1>0. n \in Nat
  BY WorldStateAssumption
<1>1. 0 \in S
  <2> DEFINE f == [j \in 0..0 |-> acc]
  <2>1. \A j \in 0..0 : j = 0
    OBVIOUS
  <2>2. Is(f, 0)
    BY <2>1
  <2> HIDE DEF f, Is
  <2> QED BY <1>0, <2>2
<1>2. ASSUME NEW m \in 1..n, m - 1 \in S PROVE m \in S
  <2>1. PICK f : Is(f, m - 1)
    BY <1>2
  <2> DEFINE g == [j \in 0..m |->
                   IF j = 0 THEN acc
                   ELSE IF Order[j] \in up THEN WithBots(f[j - 1], Order[j], chan)[Len(BotOrder)] ELSE f[j - 1]]
  <2>2. m - 1 \in 0..(m - 1) /\ m \in Nat /\ \A j \in 0..m : j # 0 => j - 1 \in 0..(m - 1) /\ j - 1 \in 0..m
    BY <1>0
  <2>3. ASSUME NEW j \in 0..(m - 1) PROVE g[j] = f[j]
    <3>1. f[j] = 
                   IF j = 0 THEN acc
                   ELSE IF Order[j] \in up THEN WithBots(f[j - 1], Order[j], chan)[Len(BotOrder)] ELSE f[j - 1]
      BY <2>1
    <3>2. j \in 0..m
      BY <1>0
    <3> HIDE <2>1
    <3> QED BY <3>1, <3>2
  <2>4. \A j \in 0..m : j # 0 => g[j - 1] = f[j - 1]
    BY <2>2, <2>3
  <2>5. Is(g, m)
    BY <2>4
  <2> HIDE DEF g, Is
  <2> QED BY <1>0, <1>2, <2>5
<1>3. n \in S
  <2> HIDE DEF S
  <2>1. 0..n \subseteq S
    BY <1>0, <1>1, <1>2, UpTo
  <2> QED BY <1>0, <2>1
<1>4. \E f : Is(f, n)
  BY <1>3
<1> QED BY <1>4 DEF Everybody

-----------------------------------------------------------------------------
(***************************************************************************)
(* The buffer                                                              *)
(***************************************************************************)
Unit == Cns \X {0, 1} \X Nat

LEMMA Appended ==
  ASSUME NEW U, NEW s \in Seq(U), NEW t \in Seq(U)
  PROVE  /\ s \o t \in Seq(U) /\ Len(s \o t) = Len(s) + Len(t)
         /\ Len(s) \in Nat /\ Len(t) \in Nat
         /\ \A i \in 1..Len(s) : (s \o t)[i] = s[i]
         /\ \A i \in (Len(s) + 1)..(Len(s) + Len(t)) : (s \o t)[i] = t[i - Len(s)]
OBVIOUS

\* A segment written once more.
Doubled(s, b) == s \o SubSeq(s, b + 1, Len(s))

LEMMA Twice ==
  ASSUME NEW s \in Seq(Unit), NEW b \in 0..Len(s)
  PROVE  /\ Doubled(s, b) \in Seq(Unit) /\ Len(Doubled(s, b)) = Len(s) + Len(s) - b
         /\ \A i \in 1..Len(s) : Doubled(s, b)[i] = s[i]
         /\ \A i \in (Len(s) + 1)..Len(Doubled(s, b)) : Doubled(s, b)[i] = s[i - (Len(s) - b)]
<1> DEFINE r == SubSeq(s, b + 1, Len(s))
           t == Doubled(s, b)
<1>1. Len(s) \in Nat /\ b \in Nat /\ b <= Len(s)
  OBVIOUS
<1>2. \A i \in (b + 1)..Len(s) : i \in 1..Len(s) /\ s[i] \in Unit
  BY <1>1
<1>3. r \in Seq(Unit) /\ Len(r) = Len(s) - b /\ \A i \in 1..(Len(s) - b) : r[i] = s[b + i]
  BY <1>1, <1>2
<1>4. t = s \o r
  BY DEF Doubled
<1> HIDE DEF r, t
<1>5. /\ s \o r \in Seq(Unit) /\ Len(s \o r) = Len(s) + Len(r)
      /\ \A i \in 1..Len(s) : (s \o r)[i] = s[i]
      /\ \A i \in (Len(s) + 1)..(Len(s) + Len(r)) : (s \o r)[i] = r[i - Len(s)]
  BY <1>3, Appended
<1>6. /\ t \in Seq(Unit) /\ Len(t) = Len(s) + Len(r)
      /\ \A i \in 1..Len(s) : t[i] = s[i]
      /\ \A i \in (Len(s) + 1)..(Len(s) + Len(r)) : t[i] = r[i - Len(s)]
  BY <1>4, <1>5
<1>7. ASSUME NEW i \in (Len(s) + 1)..Len(t) PROVE t[i] = s[i - (Len(s) - b)]
  <2>1. t[i] = r[i - Len(s)] /\ i - Len(s) \in 1..(Len(s) - b)
    BY <1>1, <1>3, <1>6
  <2>2. r[i - Len(s)] = s[b + (i - Len(s))]
    BY <2>1, <1>3
  <2>3. b + (i - Len(s)) = i - (Len(s) - b)
    BY <1>1
  <2> QED BY <2>1, <2>2, <2>3
<1>8. Len(t) = Len(s) + Len(s) - b
  BY <1>1, <1>3, <1>6
<1> QED BY <1>6, <1>7, <1>8 DEF t

-----------------------------------------------------------------------------
(***************************************************************************)
(* What building a world state keeps true: of the accumulator, of the      *)
(* segment being filled and of the packets sent.                           *)
(***************************************************************************)
Packets == [to : Humans, chan : {0, 1}, at : Nat, size : Nat]

Shape(acc) ==
  /\ acc \in [buf : Seq(Unit), begin : Nat, wsdata : [Humans -> Int], wslen : [Humans -> Nat],
              sent : SUBSET Packets]
  /\ acc.begin <= Len(acc.buf)
  /\ \A h \in Humans :
       /\ acc.wsdata[h] < Len(acc.buf)
       /\ InSegment(acc, h) => acc.wsdata[h] + acc.wslen[h] <= Len(acc.buf)

Seg(acc) == (acc.begin + 1)..Len(acc.buf)
SegUnits(acc) == {acc.buf[i] : i \in Seg(acc)}

\* Where h finds its own data in the segment.
OwnPart(acc, h, i) ==
  InSegment(acc, h) /\ acc.wsdata[h] < i /\ i <= acc.wsdata[h] + acc.wslen[h]

Segment(acc, chan) ==
  /\ \A i, j \in Seg(acc) : acc.buf[i] = acc.buf[j] => i = j
  /\ \A i \in Seg(acc) :
       /\ acc.buf[i][2] = chan /\ Carrier(acc.buf[i][1]) \in up
       /\ Data(acc.buf[i][1], chan) \subseteq SegUnits(acc)
       /\ \A h \in Humans : Carrier(acc.buf[i][1]) = h <=> OwnPart(acc, h, i)

\* The packets bring the units X, each once to everybody but its carrier.
Reads(acc, p) == {acc.buf[i] : i \in Places(p)}
Proper(acc, X, p) ==
  /\ p.to \in up \ deaf /\ p.size > 0 /\ p.at + p.size <= acc.begin
  /\ \A u \in Reads(acc, p) :
       /\ u \in X /\ Carrier(u[1]) # p.to /\ u[2] = p.chan
       /\ Data(u[1], u[2]) \subseteq Reads(acc, p)
Once(acc) ==
  \A p, q \in acc.sent : q.to = p.to =>
    \A i \in Places(p), j \in Places(q) : acc.buf[i] = acc.buf[j] => p = q /\ i = j
Reached(acc, X) ==
  \A h \in up \ deaf : \A u \in X :
    Carrier(u[1]) # h => \E p \in acc.sent : p.to = h /\ u \in Reads(acc, p)
Delivered(acc, X) == (\A p \in acc.sent : Proper(acc, X, p)) /\ Once(acc) /\ Reached(acc, X)

\* D: the units that were added so far.
Core(acc, chan, D) ==
  /\ Shape(acc) /\ Segment(acc, chan)
  /\ SegUnits(acc) \subseteq D /\ D \subseteq Unit /\ IsFiniteSet(D)
  /\ Delivered(acc, D \ SegUnits(acc))
  /\ IsFiniteSet(acc.sent)
  /\ acc.begin = 2 * Cardinality(D \ SegUnits(acc))

-----------------------------------------------------------------------------
(***************************************************************************)
(* Sending a segment                                                       *)
(***************************************************************************)
\* What is at place i of the buffer once the segment is written twice.
Origin(acc, i) == IF i <= Len(acc.buf) THEN i ELSE i - SegmentLength(acc)

LEMMA ShapeFacts ==
  ASSUME NEW acc, Shape(acc)
  PROVE  /\ acc.buf \in Seq(Unit) /\ Len(acc.buf) \in Nat /\ acc.begin \in Nat
         /\ acc.begin <= Len(acc.buf)
         /\ SegmentLength(acc) \in Nat /\ SegmentLength(acc) = Len(acc.buf) - acc.begin
         /\ acc.wsdata \in [Humans -> Int] /\ acc.wslen \in [Humans -> Nat]
         /\ acc.sent \in SUBSET Packets
         /\ \A h \in Humans : acc.wsdata[h] \in Int /\ acc.wslen[h] \in Nat
         /\ \A h \in Humans : InSegment(acc, h) <=> acc.wsdata[h] >= acc.begin
<1>1. acc.buf \in Seq(Unit) /\ acc.begin \in Nat /\ acc.wsdata \in [Humans -> Int]
      /\ acc.wslen \in [Humans -> Nat] /\ acc.sent \in SUBSET Packets /\ acc.begin <= Len(acc.buf)
  BY DEF Shape
<1>2. Len(acc.buf) \in Nat
  BY <1>1
<1> QED BY <1>1, <1>2 DEF SegmentLength, InSegment

\* A client's slice of the segment is all that is not its own, each unit once.
LEMMA SliceReads ==
  ASSUME NEW acc, NEW chan, Shape(acc), Segment(acc, chan), NEW h \in Humans,
         NEW s, s = Slice(acc, h, chan)
  PROVE  /\ s.to = h /\ s.chan = chan /\ s.at \in Nat /\ s.size \in Nat
         /\ s = [to |-> h, chan |-> chan, at |-> s.at, size |-> s.size]
         /\ acc.begin <= s.at /\ s.at + s.size <= Len(acc.buf) + SegmentLength(acc)
         /\ \A i \in Places(s) :
              /\ i \in (acc.begin + 1)..(Len(acc.buf) + SegmentLength(acc))
              /\ Origin(acc, i) \in Seg(acc)
              /\ Carrier(acc.buf[Origin(acc, i)][1]) # h
         /\ \A i, j \in Places(s) : Origin(acc, i) = Origin(acc, j) => i = j
         /\ \A k \in Seg(acc) : Carrier(acc.buf[k][1]) # h => \E i \in Places(s) : Origin(acc, i) = k
<1> DEFINE L == Len(acc.buf)
           b == acc.begin
           n == SegmentLength(acc)
           d == acc.wsdata[h]
           l == acc.wslen[h]
           O(i) == Origin(acc, i)
<1>1. L \in Nat /\ b \in Nat /\ b <= L /\ n \in Nat /\ n = L - b /\ d \in Int /\ l \in Nat
  BY ShapeFacts
<1>2. Seg(acc) = (b + 1)..L
  BY DEF Seg
<1>3. \A i : O(i) = IF i <= L THEN i ELSE i - n
  BY DEF Origin
<1>4. \A k \in Seg(acc) : Carrier(acc.buf[k][1]) = h <=> OwnPart(acc, h, k)
  BY DEF Segment
<1>5. CASE InSegment(acc, h)
  <2>1. s = [to |-> h, chan |-> chan, at |-> d + l, size |-> n - l]
    BY <1>5 DEF Slice
  <2>2. d >= b /\ d + l <= L
    BY <1>5 DEF Shape, InSegment
  <2>3. s.to = h /\ s.chan = chan /\ s.at = d + l /\ s.size = n - l
    BY <2>1
  <2>4. Places(s) = (d + l + 1)..(d + n)
    BY <2>3, <1>1 DEF Places
  <2>5. \A k \in Seg(acc) : Carrier(acc.buf[k][1]) = h <=> (d < k /\ k <= d + l)
    BY <1>4, <1>5 DEF OwnPart
  <2> HIDE DEF L, b, n, d, l, O
  <2>6. ASSUME NEW i \in Places(s)
        PROVE  i \in (b + 1)..(L + n) /\ O(i) \in Seg(acc) /\ ~(d < O(i) /\ O(i) <= d + l)
    BY <1>1, <1>2, <1>3, <2>2, <2>4
  <2>7. \A i, j \in Places(s) : O(i) = O(j) => i = j
    BY <1>1, <1>2, <1>3, <2>2, <2>4
  <2>8. ASSUME NEW k \in Seg(acc), ~(d < k /\ k <= d + l)
        PROVE  \E i \in Places(s) : O(i) = k
    <3>1. CASE k > d + l
      <4>1. k \in Places(s) /\ O(k) = k
        BY <1>1, <1>2, <1>3, <2>2, <2>4, <3>1
      <4> QED BY <4>1
    <3>2. CASE k <= d
      <4>1. k \in Int /\ k > b /\ k + n > L /\ k + n <= d + n /\ k + n \in Int
        BY <1>1, <1>2, <3>2
      <4>2. k + n \in Places(s)
        BY <1>1, <2>2, <2>4, <4>1
      <4>3. O(k + n) = (k + n) - n
        BY <1>1, <1>3, <4>1
      <4> QED BY <1>1, <4>1, <4>2, <4>3
    <3> QED BY <2>8, <3>1, <3>2, <1>1, <1>2
  <2>9. s.at \in Nat /\ s.size \in Nat /\ b <= s.at /\ s.at + s.size <= L + n
    BY <1>1, <2>2, <2>3
  <2>10. s = [to |-> h, chan |-> chan, at |-> s.at, size |-> s.size]
    BY <2>1, <2>3
  <2> QED BY <2>3, <2>5, <2>6, <2>7, <2>8, <2>9, <2>10 DEF L, b, n, O
<1>6. CASE ~InSegment(acc, h)
  <2>1. s = [to |-> h, chan |-> chan, at |-> b, size |-> n]
    BY <1>6 DEF Slice
  <2>3. s.to = h /\ s.chan = chan /\ s.at = b /\ s.size = n
    BY <2>1
  <2>4. Places(s) = (b + 1)..L
    BY <2>3, <1>1 DEF Places
  <2>5. \A k \in Seg(acc) : Carrier(acc.buf[k][1]) # h
    BY <1>4, <1>6 DEF OwnPart
  <2> HIDE DEF L, b, n, d, l, O
  <2>6. ASSUME NEW i \in Places(s)
        PROVE  i \in (b + 1)..(L + n) /\ O(i) = i /\ i \in Seg(acc)
    BY <1>1, <1>2, <1>3, <2>4
  <2>7. \A k \in Seg(acc) : k \in Places(s)
    BY <1>2, <2>4
  <2>9. s.at \in Nat /\ s.size \in Nat /\ b <= s.at /\ s.at + s.size <= L + n
    BY <1>1, <2>3
  <2>10. s = [to |-> h, chan |-> chan, at |-> s.at, size |-> s.size]
    BY <2>1, <2>3
  <2> QED BY <2>3, <2>5, <2>6, <2>7, <2>9, <2>10 DEF L, b, n, O
<1> QED BY <1>5, <1>6

LEMMA FiniteHumans == IsFiniteSet(Humans)
<1>1. Len(Order) \in Nat /\ DOMAIN Order = 1..Len(Order)
  BY WorldStateAssumption
<1>2. Order \in Surjection(1..Len(Order), Humans)
  BY <1>1, WorldStateAssumption DEF Surjection, Humans, Range
<1>3. IsFiniteSet(1..Len(Order))
  BY <1>1, FS_Interval
<1> QED BY <1>2, <1>3, FS_Surjection

\* The segment has as many units as places.
LEMMA SegmentSize ==
  ASSUME NEW acc, NEW chan, Shape(acc), Segment(acc, chan)
  PROVE  IsFiniteSet(SegUnits(acc)) /\ Cardinality(SegUnits(acc)) = SegmentLength(acc)
<1> DEFINE f == [i \in Seg(acc) |-> acc.buf[i]]
           L == Len(acc.buf)
           b == acc.begin
<1>1. L \in Nat /\ b \in Nat /\ b <= L /\ SegmentLength(acc) = L - b
  BY ShapeFacts
<1>2. IsFiniteSet(Seg(acc)) /\ Cardinality(Seg(acc)) = SegmentLength(acc)
  <2> HIDE DEF L, b
  <2>1. IsFiniteSet((b + 1)..L) /\ Cardinality((b + 1)..L) = IF b + 1 > L THEN 0 ELSE L - (b + 1) + 1
    BY <1>1, FS_Interval
  <2>2. Cardinality((b + 1)..L) = L - b
    BY <1>1, <2>1
  <2> QED BY <1>1, <2>1, <2>2 DEF Seg, L, b
<1>3. f \in Surjection(Seg(acc), SegUnits(acc))
  BY DEF Surjection, SegUnits
<1>4. f \in Injection(Seg(acc), SegUnits(acc))
  BY <1>3 DEF Injection, IsInjective, Surjection, Segment
<1> HIDE DEF f
<1> QED BY <1>2, <1>3, <1>4, FS_Surjection

LEMMA SendNothing ==
  ASSUME NEW acc, NEW chan, NEW D, Core(acc, chan, D), SegmentLength(acc) = 0, NEW next
  PROVE  Core(acc, next, D) /\ acc.begin = Len(acc.buf) /\ SegUnits(acc) = {}
<1>1. acc.begin = Len(acc.buf) /\ acc.begin \in Nat
  BY ShapeFacts DEF Core
<1>2. Seg(acc) = {}
  BY <1>1 DEF Seg
<1>3. SegUnits(acc) = {}
  BY <1>2 DEF SegUnits
<1>4. Segment(acc, next)
  BY <1>2 DEF Segment
<1> QED BY <1>1, <1>3, <1>4 DEF Core

LEMMA SendSomething ==
  ASSUME up \subseteq Humans, NEW acc, NEW chan \in {0, 1}, NEW D, Core(acc, chan, D),
         SegmentLength(acc) # 0, NEW next, NEW r, r = SendSegment(acc, chan)
  PROVE  Core(r, next, D) /\ r.begin = Len(r.buf) /\ SegUnits(r) = {}
<1> DEFINE L == Len(acc.buf)
           b == acc.begin
           n == SegmentLength(acc)
           X == D \ SegUnits(acc)
           t == Doubled(acc.buf, b)
           S == {Slice(acc, h, chan) : h \in up \ deaf}
           New == {p \in S : p.size > 0}
<1>0. Shape(acc) /\ Segment(acc, chan) /\ SegUnits(acc) \subseteq D /\ D \subseteq Unit
      /\ IsFiniteSet(D) /\ Delivered(acc, X) /\ IsFiniteSet(acc.sent) /\ b = 2 * Cardinality(X)
  BY DEF Core
<1>1. L \in Nat /\ b \in Nat /\ b <= L /\ n \in Nat /\ n = L - b /\ n > 0 /\ acc.buf \in Seq(Unit)
  BY <1>0, ShapeFacts
<1>2. /\ r.buf = t /\ r.begin = Len(t) /\ r.wsdata = acc.wsdata /\ r.wslen = acc.wslen
      /\ r.sent = acc.sent \cup New
      /\ r = [buf |-> t, begin |-> Len(t), wsdata |-> acc.wsdata, wslen |-> acc.wslen, sent |-> acc.sent \cup New]
  <2>1. acc = [buf |-> acc.buf, begin |-> acc.begin, wsdata |-> acc.wsdata, wslen |-> acc.wslen, sent |-> acc.sent]
    BY <1>0 DEF Shape
  <2>2. r = [acc EXCEPT !.buf = t, !.begin = Len(t), !.sent = acc.sent \cup New]
    BY DEF SendSegment, Doubled
  <2> HIDE DEF t, New
  <2> QED BY <2>1, <2>2
<1>3. /\ t \in Seq(Unit) /\ Len(t) = L + n
      /\ \A i \in 1..L : t[i] = acc.buf[i]
      /\ \A i \in (L + 1)..(L + n) : t[i] = acc.buf[i - n]
  <2>1. /\ t \in Seq(Unit) /\ Len(t) = L + L - b
        /\ \A i \in 1..L : t[i] = acc.buf[i]
        /\ \A i \in (L + 1)..Len(t) : t[i] = acc.buf[i - (L - b)]
    <3>1. b \in 0..Len(acc.buf) /\ acc.buf \in Seq(Unit)
      BY <1>1
    <3> HIDE DEF b
    <3> QED BY <3>1, Twice
  <2> HIDE DEF t, L, b, n
  <2> QED BY <1>1, <2>1
<1> HIDE DEF t
<1>4. \A i \in (b + 1)..(L + n) : t[i] = acc.buf[Origin(acc, i)]
  <2> SUFFICES ASSUME NEW i \in (b + 1)..(L + n) PROVE t[i] = acc.buf[Origin(acc, i)]
    OBVIOUS
  <2>1. Origin(acc, i) = IF i <= L THEN i ELSE i - n
    BY DEF Origin
  <2> HIDE DEF L, b, n
  <2> QED BY <1>1, <1>3, <2>1
<1>5. \A h \in up \ deaf :
        LET s == Slice(acc, h, chan)
        IN  /\ s \in Packets /\ s.to = h /\ s.chan = chan /\ b <= s.at /\ s.at + s.size <= L + n
            /\ Places(s) \subseteq (b + 1)..(L + n)
            /\ {t[i] : i \in Places(s)} = {u \in SegUnits(acc) : Carrier(u[1]) # h}
            /\ \A i, j \in Places(s) : t[i] = t[j] => i = j
  <2> SUFFICES ASSUME NEW h \in up \ deaf, NEW s, s = Slice(acc, h, chan)
               PROVE  /\ s \in Packets /\ s.to = h /\ s.chan = chan /\ b <= s.at /\ s.at + s.size <= L + n
                      /\ Places(s) \subseteq (b + 1)..(L + n)
                      /\ {t[i] : i \in Places(s)} = {u \in SegUnits(acc) : Carrier(u[1]) # h}
                      /\ \A i, j \in Places(s) : t[i] = t[j] => i = j
    OBVIOUS
  <2>1. /\ s.to = h /\ s.chan = chan /\ s.at \in Nat /\ s.size \in Nat
        /\ s = [to |-> h, chan |-> chan, at |-> s.at, size |-> s.size]
        /\ b <= s.at /\ s.at + s.size <= L + n
        /\ \A i \in Places(s) :
             /\ i \in (b + 1)..(L + n)
             /\ Origin(acc, i) \in Seg(acc)
             /\ Carrier(acc.buf[Origin(acc, i)][1]) # h
        /\ \A i, j \in Places(s) : Origin(acc, i) = Origin(acc, j) => i = j
        /\ \A k \in Seg(acc) : Carrier(acc.buf[k][1]) # h => \E i \in Places(s) : Origin(acc, i) = k
    <3>1. h \in Humans /\ Shape(acc) /\ Segment(acc, chan) /\ s = Slice(acc, h, chan)
      BY <1>0
    <3> QED BY ONLY <3>1, SliceReads DEF L, b, n
  <2>2. s \in Packets
    BY <2>1 DEF Packets
  <2>3. \A i \in Places(s) : t[i] = acc.buf[Origin(acc, i)]
    BY <1>4, <2>1
  <2>4. \A i, j \in Places(s) : t[i] = t[j] => i = j
    BY <1>0, <2>1, <2>3 DEF Segment
  <2>5. \A u : u \in {t[i] : i \in Places(s)} <=> u \in SegUnits(acc) /\ Carrier(u[1]) # h
    BY <2>1, <2>3 DEF SegUnits
  <2>6. {t[i] : i \in Places(s)} = {u \in SegUnits(acc) : Carrier(u[1]) # h}
    BY <2>5
  <2> QED BY <2>1, <2>2, <2>4, <2>6
<1>6. \A p \in New : \E h \in up \ deaf : p = Slice(acc, h, chan) /\ p.size > 0
  OBVIOUS
<1>7. New \subseteq Packets
  BY <1>5, <1>6
<1>8. IsFiniteSet(New)
  <2> DEFINE f == [h \in up \ deaf |-> Slice(acc, h, chan)]
  <2>1. IsFiniteSet(up \ deaf)
    <3>1. (up \ deaf) \in SUBSET Humans
      OBVIOUS
    <3> QED BY <3>1, FiniteHumans, FS_Subset
  <2>2. f \in Surjection(up \ deaf, S)
    BY DEF Surjection
  <2>3. IsFiniteSet(S)
    <3> HIDE DEF f, S
    <3> QED BY <2>1, <2>2, FS_Surjection
  <2>4. New \in SUBSET S
    OBVIOUS
  <2> HIDE DEF S, New
  <2> QED BY <2>3, <2>4, FS_Subset
<1>9. Shape(r) /\ Seg(r) = {} /\ SegUnits(r) = {} /\ r.begin = Len(r.buf)
  <2>1. acc.wsdata \in [Humans -> Int] /\ acc.wslen \in [Humans -> Nat] /\ acc.sent \subseteq Packets
    BY <1>0, ShapeFacts
  <2>2. Len(t) \in Nat /\ L < Len(t)
    BY <1>1, <1>3
  <2>3. \A h \in Humans : acc.wsdata[h] < Len(t) /\ ~(acc.wsdata[h] >= Len(t))
    <3>1. \A h \in Humans : acc.wsdata[h] < L /\ acc.wsdata[h] \in Int
      BY <1>0, <2>1 DEF Shape
    <3> HIDE DEF L
    <3> QED BY <1>1, <2>2, <3>1
  <2>4. r \in [buf : Seq(Unit), begin : Nat, wsdata : [Humans -> Int], wslen : [Humans -> Nat],
               sent : SUBSET Packets]
    <3> HIDE DEF New
    <3> QED BY <1>2, <1>3, <1>7, <2>1, <2>2
  <2>5. \A h \in Humans : ~InSegment(r, h)
    BY <1>2, <2>3 DEF InSegment
  <2>6. Shape(r)
    BY <1>2, <2>2, <2>3, <2>4, <2>5 DEF Shape
  <2>7. Seg(r) = {}
    BY <1>2, <2>2 DEF Seg
  <2> QED BY <1>2, <2>6, <2>7 DEF SegUnits
<1>10. Segment(r, next)
  BY <1>9 DEF Segment
<1>11. \A p \in acc.sent : Proper(acc, X, p) /\ Places(p) \subseteq 1..L /\ Reads(r, p) = Reads(acc, p)
  <2> SUFFICES ASSUME NEW p \in acc.sent
               PROVE  Proper(acc, X, p) /\ Places(p) \subseteq 1..L /\ Reads(r, p) = Reads(acc, p)
    OBVIOUS
  <2>1. Proper(acc, X, p)
    BY <1>0 DEF Delivered
  <2>2. p.at \in Nat /\ p.size \in Nat /\ p.at + p.size <= b
    BY <1>0, <2>1, ShapeFacts DEF Proper, Packets
  <2>3. Places(p) \subseteq 1..L
    <3> HIDE DEF L, b
    <3> QED BY <1>1, <2>2 DEF Places
  <2>4. \A i \in Places(p) : r.buf[i] = acc.buf[i]
    BY <1>2, <1>3, <2>3
  <2> QED BY <2>1, <2>3, <2>4 DEF Reads
<1>12. \A p \in New : \E h \in up \ deaf :
         /\ p = Slice(acc, h, chan) /\ p.size > 0 /\ p.to = h /\ p.chan = chan /\ p.at + p.size <= L + n
         /\ Reads(r, p) = {u \in SegUnits(acc) : Carrier(u[1]) # h}
         /\ \A i, j \in Places(p) : r.buf[i] = r.buf[j] => i = j
  BY <1>2, <1>5, <1>6 DEF Reads
<1>13. \A u \in SegUnits(acc) :
         u \in D /\ u[2] = chan /\ \A v \in Data(u[1], u[2]) : v \in SegUnits(acc) /\ v[1] = u[1]
  <2>1. \A u \in SegUnits(acc) : u \in D /\ u[2] = chan /\ Data(u[1], u[2]) \subseteq SegUnits(acc)
    BY <1>0 DEF SegUnits, Segment
  <2>2. \A c, k : \A v \in Data(c, k) : v[1] = c
    BY DEF Data, Units, Range
  <2> QED BY <2>1, <2>2
<1> HIDE DEF New, S, X, L, b, n
<1>14. \A p \in r.sent : Proper(r, D, p)
  <2>1. ASSUME NEW p \in acc.sent PROVE Proper(r, D, p)
    <3>1. Proper(acc, X, p) /\ Reads(r, p) = Reads(acc, p)
      BY <1>11
    <3>2. p.at + p.size <= r.begin
      <4>1. p.at + p.size <= b /\ p.at \in Nat /\ p.size \in Nat
        BY <1>0, <3>1, ShapeFacts DEF Proper, Packets, b
      <4> QED BY <1>1, <1>2, <1>3, <4>1
    <3> QED BY <3>1, <3>2 DEF Proper, X
  <2>2. ASSUME NEW p \in New PROVE Proper(r, D, p)
    <3>1. PICK h \in up \ deaf :
            /\ p.size > 0 /\ p.to = h /\ p.chan = chan /\ p.at + p.size <= L + n
            /\ Reads(r, p) = {u \in SegUnits(acc) : Carrier(u[1]) # h}
      BY <1>12
    <3>2. p.at + p.size <= r.begin
      BY <1>2, <1>3, <3>1
    <3>3. \A u \in Reads(r, p) : /\ u \in D /\ Carrier(u[1]) # p.to /\ u[2] = p.chan
                                 /\ Data(u[1], u[2]) \subseteq Reads(r, p)
      BY <1>13, <3>1
    <3> QED BY <3>1, <3>2, <3>3 DEF Proper
  <2> QED BY <1>2, <2>1, <2>2
<1>15. Once(r)
  <2> SUFFICES ASSUME NEW p \in r.sent, NEW q \in r.sent, q.to = p.to,
                      NEW i \in Places(p), NEW j \in Places(q), r.buf[i] = r.buf[j]
               PROVE  p = q /\ i = j
    BY DEF Once
  <2>0. /\ \A x \in acc.sent : \A k \in Places(x) : r.buf[k] \in X
        /\ \A x \in New : \A k \in Places(x) : r.buf[k] \in SegUnits(acc)
    <3>1. \A x : \A k \in Places(x) : r.buf[k] \in Reads(r, x)
      BY DEF Reads
    <3> QED BY <1>11, <1>12, <3>1 DEF Proper
  <2>1. CASE p \in acc.sent /\ q \in acc.sent
    <3>1. r.buf[i] = acc.buf[i] /\ r.buf[j] = acc.buf[j]
      BY <1>2, <1>3, <1>11, <2>1
    <3>2. Once(acc)
      BY <1>0 DEF Delivered
    <3> QED BY <2>1, <3>1, <3>2 DEF Once
  <2>2. CASE p \in New /\ q \in New
    <3>1. p = q
      BY <1>12, <2>2
    <3>2. i = j
      BY <1>12, <2>2, <3>1
    <3> QED BY <3>1, <3>2
  <2>3. CASE (p \in acc.sent /\ q \in New) \/ (p \in New /\ q \in acc.sent)
    BY <2>0, <2>3 DEF X
  <2> QED BY <1>2, <2>1, <2>2, <2>3
<1>16. Reached(r, D)
  <2> SUFFICES ASSUME NEW h \in up \ deaf, NEW u \in D, Carrier(u[1]) # h
               PROVE  \E p \in r.sent : p.to = h /\ u \in Reads(r, p)
    BY DEF Reached
  <2>1. CASE u \in X
    <3>1. PICK p \in acc.sent : p.to = h /\ u \in Reads(acc, p)
      BY <1>0, <2>1 DEF Delivered, Reached
    <3> QED BY <1>2, <1>11, <3>1
  <2>2. CASE u \notin X
    <3> DEFINE p == Slice(acc, h, chan)
    <3>1. u \in SegUnits(acc)
      BY <2>2 DEF X
    <3>2. p.to = h /\ {t[i] : i \in Places(p)} = {v \in SegUnits(acc) : Carrier(v[1]) # h} /\ p \in Packets
      BY <1>5
    <3> HIDE DEF p
    <3>3. u \in Reads(r, p)
      BY <1>2, <3>1, <3>2 DEF Reads
    <3>4. p.size > 0
      <4>1. PICK i \in Places(p) : TRUE
        BY <3>3 DEF Reads
      <4>2. p.at \in Nat /\ p.size \in Nat
        BY <3>2 DEF Packets
      <4> QED BY <4>1, <4>2 DEF Places
    <3>5. p \in New
      BY <3>4 DEF New, S, p
    <3> QED BY <1>2, <3>2, <3>3, <3>5
  <2> QED BY <2>1, <2>2
<1>17. r.begin = 2 * Cardinality(D)
  <2>1. IsFiniteSet(SegUnits(acc)) /\ Cardinality(SegUnits(acc)) = n
    BY <1>0, SegmentSize DEF n
  <2>2. D \cap SegUnits(acc) = SegUnits(acc)
    BY <1>0
  <2>3. Cardinality(X) = Cardinality(D) - n
    <3>1. IsFiniteSet(D)
      BY <1>0
    <3>2. Cardinality(D \ SegUnits(acc)) = Cardinality(D) - Cardinality(D \cap SegUnits(acc))
      BY <2>1, <3>1, FS_Difference
    <3> QED BY <2>1, <2>2, <3>2 DEF X
  <2>4. Cardinality(D) \in Nat
    BY <1>0, FS_CardinalityType
  <2>5. b = 2 * Cardinality(X) /\ r.begin = L + n /\ n = L - b /\ L \in Nat /\ b \in Nat /\ n \in Nat
    BY <1>0, <1>1, <1>2, <1>3
  <2>6. r.begin = 2 * (Cardinality(D) - n) + n + n
    BY ONLY <2>3, <2>5
  <2> QED BY ONLY <2>4, <2>5, <2>6
<1>18. IsFiniteSet(r.sent)
  <2>1. IsFiniteSet(acc.sent) /\ r.sent = acc.sent \cup New
    BY <1>0, <1>2
  <2>2. IsFiniteSet(acc.sent \cup New)
    BY <1>8, <2>1, FS_Union
  <2> QED BY <2>1, <2>2
<1>19. D \ SegUnits(r) = D
  BY <1>9
<1> QED BY <1>0, <1>9, <1>10, <1>14, <1>15, <1>16, <1>17, <1>18, <1>19 DEF Core, Delivered

\* Sending keeps what is true and leaves an empty segment.
LEMMA SendCore ==
  ASSUME up \subseteq Humans, NEW acc, NEW chan \in {0, 1}, NEW D, Core(acc, chan, D), NEW next
  PROVE  LET r == SendSegment(acc, chan)
         IN  Core(r, next, D) /\ r.begin = Len(r.buf) /\ SegUnits(r) = {}
<1>1. CASE SegmentLength(acc) = 0
  <2>1. SendSegment(acc, chan) = acc
    BY <1>1 DEF SendSegment
  <2> QED BY <1>1, <2>1, SendNothing
<1>2. CASE SegmentLength(acc) # 0
  BY <1>2, SendSomething
<1> QED BY <1>1, <1>2

-----------------------------------------------------------------------------
(***************************************************************************)
(* Adding data to the segment                                              *)
(***************************************************************************)
Lengths == position \in [Cns -> Nat] /\ messages \in [Cns -> Nat]

LEMMA UnitsFacts ==
  ASSUME Lengths, NEW c \in Cns, NEW chan \in {0, 1}
  PROVE  /\ Due(c, chan) \in Nat
         /\ Units(c, chan) \in Seq(Unit) /\ Len(Units(c, chan)) = Due(c, chan)
         /\ \A i \in 1..Due(c, chan) : Units(c, chan)[i] = <<c, chan, i>>
         /\ Data(c, chan) = {<<c, chan, i>> : i \in 1..Due(c, chan)}
         /\ Data(c, chan) \subseteq Unit /\ IsFiniteSet(Data(c, chan))
         /\ \A u \in Data(c, chan) : u[1] = c /\ u[2] = chan
<1> DEFINE n == Due(c, chan)
           s == Units(c, chan)
<1>1. n \in Nat
  <2>1. position[c] \in Nat /\ messages[c] \in Nat /\ Header \in Nat
    BY WorldStateAssumption DEF Lengths
  <2>2. CASE chan = 0
    BY <2>1, <2>2 DEF Due
  <2>3. CASE chan = 1 /\ messages[c] = 0
    BY <2>1, <2>3 DEF Due
  <2>4. CASE chan = 1 /\ messages[c] > 0
    <3>1. Due(c, chan) = Header + messages[c]
      BY <2>1, <2>4 DEF Due
    <3> QED BY <2>1, <3>1
  <2> QED BY <2>1, <2>2, <2>3, <2>4
<1> HIDE DEF n
<1>2. s = [i \in 1..n |-> <<c, chan, i>>]
  BY DEF Units, n
<1>3. \A i \in 1..n : <<c, chan, i>> \in Unit
  BY <1>1 DEF Unit
<1> HIDE DEF s
<1>4. s \in Seq(Unit) /\ Len(s) = n /\ \A i \in 1..n : s[i] = <<c, chan, i>>
  BY <1>1, <1>2, <1>3
<1>5. Data(c, chan) = {s[i] : i \in 1..n}
  BY <1>2 DEF Data, Range, s
<1>6. Data(c, chan) = {<<c, chan, i>> : i \in 1..n}
  BY <1>4, <1>5
<1>7. IsFiniteSet(Data(c, chan))
  <2>1. s \in Surjection(1..n, Data(c, chan))
    BY <1>2, <1>5 DEF Surjection
  <2>2. IsFiniteSet(1..n)
    BY <1>1, FS_Interval
  <2> QED BY <2>1, <2>2, FS_Surjection
<1>8. \A u \in Data(c, chan) : u \in Unit /\ u[1] = c /\ u[2] = chan
  BY <1>3, <1>6
<1> QED BY <1>1, <1>4, <1>6, <1>7, <1>8 DEF n, s

\* The data of h's end where the segment ends, if it has any there.
Last(acc, h) == InSegment(acc, h) => acc.wsdata[h] + acc.wslen[h] = Len(acc.buf)

WithData(a, c, chan) ==
  LET h == Carrier(c)
      units == Units(c, chan)
      in == InSegment(a, h)
  IN  [a EXCEPT !.buf = @ \o units,
                !.wsdata[h] = IF in THEN @ ELSE Len(a.buf),
                !.wslen[h] = IF in THEN @ + Len(units) ELSE Len(units)]

\* Data that end where the carrier's own part ends, or begin it.
LEMMA AppendCore ==
  ASSUME Lengths, up \subseteq Humans, NEW a, NEW chan \in {0, 1}, NEW D, Core(a, chan, D),
         NEW c \in Cns, NEW h, h = Carrier(c), h \in up, Data(c, chan) \cap D = {}, Due(c, chan) # 0,
         Last(a, h)
  PROVE  LET r == WithData(a, c, chan)
         IN  /\ Core(r, chan, D \cup Data(c, chan)) /\ Last(r, h)
             /\ \A g \in Humans : g # h /\ InSegment(r, g) => InSegment(a, g)
<1> DEFINE r == WithData(a, c, chan)
<1> HIDE DEF r
<1> DEFINE L == Len(a.buf)
           b == a.begin
           n == Due(c, chan)
           s == Units(c, chan)
           E == Data(c, chan)
           X == D \ SegUnits(a)
           d == IF InSegment(a, h) THEN a.wsdata[h] ELSE L
           l == IF InSegment(a, h) THEN a.wslen[h] + n ELSE n
<1>0. /\ Shape(a) /\ Segment(a, chan) /\ SegUnits(a) \subseteq D /\ D \subseteq Unit
      /\ IsFiniteSet(D) /\ Delivered(a, X) /\ IsFiniteSet(a.sent) /\ b = 2 * Cardinality(X)
  BY DEF Core
<1>1. /\ L \in Nat /\ b \in Nat /\ b <= L /\ a.buf \in Seq(Unit)
      /\ a.wsdata \in [Humans -> Int] /\ a.wslen \in [Humans -> Nat]
  BY <1>0, ShapeFacts
<1>2. /\ n \in Nat /\ n > 0 /\ s \in Seq(Unit) /\ Len(s) = n
      /\ \A i \in 1..n : s[i] = <<c, chan, i>>
      /\ E = {<<c, chan, i>> : i \in 1..n}
      /\ E \subseteq Unit /\ IsFiniteSet(E) /\ \A u \in E : u[1] = c /\ u[2] = chan
  BY UnitsFacts
<1>3. h \in Humans
  OBVIOUS
<1>4. /\ r.buf = a.buf \o s /\ r.begin = b /\ r.sent = a.sent
      /\ r.wsdata = [a.wsdata EXCEPT ![h] = d]
      /\ r.wslen = [a.wslen EXCEPT ![h] = l]
      /\ r = [buf |-> r.buf, begin |-> r.begin, wsdata |-> r.wsdata, wslen |-> r.wslen, sent |-> r.sent]
  <2>1. a = [buf |-> a.buf, begin |-> a.begin, wsdata |-> a.wsdata, wslen |-> a.wslen, sent |-> a.sent]
    BY <1>0 DEF Shape
  <2>2. r = [a EXCEPT !.buf = a.buf \o s,
                      !.wsdata = [a.wsdata EXCEPT ![h] = d],
                      !.wslen = [a.wslen EXCEPT ![h] = l]]
    BY <1>2, <2>1 DEF WithData, r
  <2> HIDE DEF s, d, l
  <2> QED BY <2>1, <2>2
<1>5. /\ r.buf \in Seq(Unit) /\ Len(r.buf) = L + n
      /\ \A i \in 1..L : r.buf[i] = a.buf[i]
      /\ \A i \in (L + 1)..(L + n) : r.buf[i] = s[i - L]
  <2>1. /\ a.buf \o s \in Seq(Unit) /\ Len(a.buf \o s) = Len(a.buf) + Len(s)
        /\ \A i \in 1..Len(a.buf) : (a.buf \o s)[i] = a.buf[i]
        /\ \A i \in (Len(a.buf) + 1)..(Len(a.buf) + Len(s)) : (a.buf \o s)[i] = s[i - Len(a.buf)]
    <3> HIDE DEF s
    <3>1. a.buf \in Seq(Unit) /\ s \in Seq(Unit)
      BY <1>1, <1>2
    <3> QED BY ONLY <3>1, Appended
  <2> HIDE DEF s, n
  <2> QED BY <1>2, <1>4, <2>1
<1>6. \A i \in (L + 1)..(L + n) : r.buf[i] = <<c, chan, i - L>> /\ r.buf[i] \in E
  <2> SUFFICES ASSUME NEW i \in (L + 1)..(L + n) PROVE r.buf[i] = <<c, chan, i - L>> /\ r.buf[i] \in E
    OBVIOUS
  <2> HIDE DEF s, n, E, L
  <2>1. i - L \in 1..n
    BY <1>1, <1>2
  <2>2. r.buf[i] = s[i - L] /\ s[i - L] = <<c, chan, i - L>> /\ <<c, chan, i - L>> \in E
    BY <1>2, <1>5, <2>1
  <2> QED BY <2>2
<1>7. /\ d \in Int /\ l \in Nat /\ d + l = L + n /\ d < L + n
      /\ (InSegment(a, h) => d = a.wsdata[h]) /\ (~InSegment(a, h) => d = L) /\ b <= d
  <2>1. a.wsdata[h] \in Int /\ a.wslen[h] \in Nat
    BY <1>1, <1>3
  <2>2. CASE InSegment(a, h)
    <3>1. a.wsdata[h] + a.wslen[h] = L /\ a.wsdata[h] < L /\ a.wsdata[h] >= b
      BY <1>0, <1>3, <2>2 DEF Shape, InSegment, Last
    <3>2. d = a.wsdata[h] /\ l = a.wslen[h] + n
      BY <2>2
    <3>3. L \in Nat /\ b \in Nat /\ n \in Nat /\ n > 0
      BY <1>1, <1>2
    <3> HIDE DEF d, l, L, b, n
    <3> QED BY ONLY <2>1, <2>2, <3>1, <3>2, <3>3
  <2>3. CASE ~InSegment(a, h)
    <3>1. d = L /\ l = n
      BY <2>3
    <3> HIDE DEF d, l, L, b, n
    <3> QED BY <1>1, <1>2, <2>3, <3>1
  <2> QED BY <2>2, <2>3
<1> HIDE DEF d, l
<1>8. \A g \in Humans : /\ r.wsdata[g] = IF g = h THEN d ELSE a.wsdata[g]
                        /\ r.wslen[g] = IF g = h THEN l ELSE a.wslen[g]
  BY <1>1, <1>3, <1>4
<1>9. InSegment(r, h) /\ \A g \in Humans : g # h => (InSegment(r, g) <=> InSegment(a, g))
  BY <1>3, <1>4, <1>7, <1>8 DEF InSegment
<1>10. Shape(r)
  <2>1. r.wsdata \in [Humans -> Int] /\ r.wslen \in [Humans -> Nat]
    BY <1>1, <1>3, <1>4, <1>7
  <2>2. r \in [buf : Seq(Unit), begin : Nat, wsdata : [Humans -> Int], wslen : [Humans -> Nat],
               sent : SUBSET Packets]
    <3>1. a.sent \in SUBSET Packets
      BY <1>0, ShapeFacts
    <3> HIDE DEF b
    <3> QED BY <1>1, <1>4, <1>5, <2>1, <3>1
  <2>3. ASSUME NEW g \in Humans
        PROVE  /\ r.wsdata[g] < Len(r.buf)
               /\ InSegment(r, g) => r.wsdata[g] + r.wslen[g] <= Len(r.buf)
    <3>1. CASE g = h
      BY <1>1, <1>2, <1>5, <1>7, <1>8, <3>1
    <3>2. CASE g # h
      <4>1. a.wsdata[g] < L /\ (InSegment(a, g) => a.wsdata[g] + a.wslen[g] <= L)
        BY <1>0 DEF Shape
      <4>2. a.wsdata[g] \in Int /\ a.wslen[g] \in Nat
        BY <1>1
      <4> HIDE DEF L, n
      <4> QED BY <1>1, <1>2, <1>5, <1>8, <1>9, <3>2, <4>1, <4>2
    <3> QED BY <3>1, <3>2
  <2>4. r.begin <= Len(r.buf)
    <3> HIDE DEF L, n, b
    <3> QED BY <1>1, <1>2, <1>4, <1>5
  <2> QED BY <2>2, <2>3, <2>4 DEF Shape
<1>11. Seg(a) = (b + 1)..L /\ Seg(r) = (b + 1)..(L + n)
  BY <1>4, <1>5 DEF Seg
<1>12. /\ \A i \in Seg(r) : i \in Seg(a) \/ i \in (L + 1)..(L + n)
       /\ \A i \in Seg(a) : i \in Seg(r) /\ i \in 1..L /\ r.buf[i] = a.buf[i] /\ a.buf[i] \in D
       /\ \A i \in (L + 1)..(L + n) : i \in Seg(r)
  <2>1. \A i \in Seg(a) : a.buf[i] \in D
    BY <1>0 DEF SegUnits
  <2>2. L \in Nat /\ b \in Nat /\ n \in Nat /\ n > 0 /\ b <= L
    BY <1>1, <1>2
  <2> HIDE DEF L, n, b
  <2>3. \A i \in Seg(a) : i \in Seg(r) /\ i \in 1..L
    BY ONLY <1>11, <2>2
  <2>4. /\ \A i \in Seg(r) : i \in Seg(a) \/ i \in (L + 1)..(L + n)
        /\ \A i \in (L + 1)..(L + n) : i \in Seg(r)
    BY ONLY <1>11, <2>2
  <2> QED BY <1>5, <2>1, <2>3, <2>4
<1>13. SegUnits(r) = SegUnits(a) \cup E
  <2>1. \A u \in SegUnits(r) : u \in SegUnits(a) \/ u \in E
    BY <1>6, <1>12 DEF SegUnits
  <2>2. \A u \in SegUnits(a) : u \in SegUnits(r)
    BY <1>12 DEF SegUnits
  <2>3. ASSUME NEW u \in E PROVE u \in SegUnits(r)
    <3>1. PICK i \in 1..n : u = <<c, chan, i>>
      BY <1>2
    <3> HIDE DEF L, n, E
    <3>2. L + i \in (L + 1)..(L + n) /\ (L + i) - L = i
      BY <1>1, <1>2
    <3>3. r.buf[L + i] = u
      BY <1>6, <3>1, <3>2
    <3> QED BY <1>12, <3>2, <3>3 DEF SegUnits
  <2> HIDE DEF E
  <2> QED BY <2>1, <2>2, <2>3
<1>14. Segment(r, chan)
  <2>1. ASSUME NEW i \in Seg(r), NEW j \in Seg(r), r.buf[i] = r.buf[j] PROVE i = j
    <3>1. CASE i \in Seg(a) /\ j \in Seg(a)
      BY <1>0, <1>12, <2>1, <3>1 DEF Segment
    <3>2. CASE i \in (L + 1)..(L + n) /\ j \in (L + 1)..(L + n)
      <4> HIDE DEF L, n
      <4>1. <<c, chan, i - L>> = <<c, chan, j - L>>
        BY <1>6, <2>1, <3>2
      <4> QED BY <1>1, <3>2, <4>1
    <3>3. CASE (i \in Seg(a) /\ j \in (L + 1)..(L + n)) \/ (j \in Seg(a) /\ i \in (L + 1)..(L + n))
      BY <1>6, <1>12, <2>1, <3>3
    <3> QED BY <1>12, <3>1, <3>2, <3>3
  <2>2. ASSUME NEW i \in Seg(r)
        PROVE  /\ r.buf[i][2] = chan /\ Carrier(r.buf[i][1]) \in up
               /\ Data(r.buf[i][1], chan) \subseteq SegUnits(r)
    <3>1. CASE i \in Seg(a)
      BY <1>0, <1>12, <1>13, <3>1 DEF Segment
    <3>2. CASE i \in (L + 1)..(L + n)
      <4>1. r.buf[i][1] = c /\ r.buf[i][2] = chan
        BY <1>2, <1>6, <3>2
      <4> QED BY <1>13, <4>1
    <3> QED BY <1>12, <3>1, <3>2
  <2>3. ASSUME NEW i \in Seg(r), NEW g \in Humans
        PROVE  Carrier(r.buf[i][1]) = g <=> OwnPart(r, g, i)
    <3>1. CASE i \in Seg(a)
      <4>1. r.buf[i] = a.buf[i] /\ (Carrier(a.buf[i][1]) = g <=> OwnPart(a, g, i)) /\ i \in 1..L
        BY <1>0, <1>12, <3>1 DEF Segment
      <4>2. OwnPart(r, g, i) <=> OwnPart(a, g, i)
        <5>1. CASE g # h
          BY <1>8, <1>9, <5>1 DEF OwnPart
        <5>2. CASE g = h /\ InSegment(a, h)
          <6>1. r.wsdata[h] = a.wsdata[h] /\ r.wsdata[h] + r.wslen[h] = L + n
                /\ a.wsdata[h] + a.wslen[h] = L
            BY <1>3, <1>7, <1>8, <5>2 DEF Last
          <6> HIDE DEF L, n
          <6> QED BY <1>1, <1>2, <1>9, <4>1, <5>2, <6>1 DEF OwnPart
        <5>3. CASE g = h /\ ~InSegment(a, h)
          <6>1. r.wsdata[h] = L
            BY <1>3, <1>7, <1>8, <5>3
          <6> HIDE DEF L, n
          <6> QED BY <1>1, <4>1, <5>3, <6>1 DEF OwnPart
        <5> QED BY <5>1, <5>2, <5>3
      <4> QED BY <4>1, <4>2
    <3>2. CASE i \in (L + 1)..(L + n)
      <4>1. Carrier(r.buf[i][1]) = h
        BY <1>2, <1>6, <3>2
      <4>2. CASE g = h
        <5>1. r.wsdata[h] = d /\ r.wslen[h] = l
          BY <1>3, <1>8
        <5>2. d < i /\ i <= d + l
          <6>1. d <= L
            <7>1. InSegment(a, h) => a.wsdata[h] < L
              BY <1>0, <1>3 DEF Shape
            <7>2. L <= L
              BY <1>1
            <7> HIDE DEF L
            <7> QED BY <1>1, <1>7, <7>1, <7>2
          <6> HIDE DEF L, n
          <6> QED BY <1>1, <1>2, <1>7, <3>2, <6>1
        <5> QED BY <1>9, <4>1, <4>2, <5>1, <5>2 DEF OwnPart
      <4>3. CASE g # h
        <5>1. InSegment(a, g) => a.wsdata[g] + a.wslen[g] <= L
          BY <1>0 DEF Shape
        <5>2. a.wsdata[g] \in Int /\ a.wslen[g] \in Nat
          BY <1>1
        <5>3. ~OwnPart(r, g, i)
          <6> HIDE DEF L, n
          <6> QED BY <1>1, <1>2, <1>8, <1>9, <3>2, <4>3, <5>1, <5>2 DEF OwnPart
        <5> QED BY <4>1, <4>3, <5>3
      <4> QED BY <4>2, <4>3
    <3> QED BY <1>12, <3>1, <3>2
  <2> QED BY <2>1, <2>2, <2>3 DEF Segment
<1>15. (D \cup E) \ SegUnits(r) = X
  <2>1. E \cap D = {} /\ SegUnits(a) \subseteq D
    BY <1>0
  <2> HIDE DEF E
  <2> QED BY <1>13, <2>1
<1>16. \A p \in a.sent : Places(p) \subseteq 1..L /\ Reads(r, p) = Reads(a, p)
  <2> SUFFICES ASSUME NEW p \in a.sent PROVE Places(p) \subseteq 1..L /\ Reads(r, p) = Reads(a, p)
    OBVIOUS
  <2>1. p.at \in Nat /\ p.size \in Nat /\ p.at + p.size <= b
    BY <1>0, ShapeFacts DEF Delivered, Proper, Packets
  <2>2. Places(p) \subseteq 1..L
    <3> HIDE DEF L, b
    <3> QED BY <1>1, <2>1 DEF Places
  <2>3. \A i \in Places(p) : r.buf[i] = a.buf[i]
    BY <1>5, <2>2
  <2> QED BY <2>2, <2>3 DEF Reads
<1> HIDE DEF X
<1>17. Delivered(r, X)
  <2>1. \A p \in r.sent : Proper(r, X, p)
    BY <1>0, <1>4, <1>16 DEF Delivered, Proper
  <2>2. Once(r)
    <3>1. \A p \in a.sent : \A i \in Places(p) : r.buf[i] = a.buf[i]
      BY <1>5, <1>16
    <3>2. Once(a)
      BY <1>0 DEF Delivered
    <3>3. ASSUME NEW p \in a.sent, NEW q \in a.sent, q.to = p.to,
                 NEW i \in Places(p), NEW j \in Places(q), r.buf[i] = r.buf[j]
          PROVE  p = q /\ i = j
      <4>1. a.buf[i] = a.buf[j]
        BY <3>1, <3>3
      <4> QED BY <3>2, <3>3, <4>1 DEF Once
    <3> QED BY <1>4, <3>3 DEF Once
  <2>3. Reached(r, X)
    BY <1>0, <1>4, <1>16 DEF Delivered, Reached
  <2> QED BY <2>1, <2>2, <2>3 DEF Delivered
<1>18. IsFiniteSet(D \cup E)
  BY <1>0, <1>2, FS_Union
<1>19. SegUnits(r) \subseteq D \cup E /\ D \cup E \subseteq Unit
  BY <1>0, <1>2, <1>13
<1>20. Core(r, chan, D \cup E)
  <2> HIDE DEF E, b
  <2> QED BY <1>0, <1>4, <1>10, <1>14, <1>15, <1>17, <1>18, <1>19 DEF Core
<1>21. Last(r, h)
  BY <1>3, <1>5, <1>7, <1>8 DEF Last
<1> QED BY <1>9, <1>20, <1>21 DEF r

LEMMA EmptySegment ==
  ASSUME NEW acc, Shape(acc), acc.begin = Len(acc.buf)
  PROVE  \A g \in Humans : ~InSegment(acc, g)
<1> SUFFICES ASSUME NEW g \in Humans PROVE ~InSegment(acc, g)
  OBVIOUS
<1>1. acc.wsdata[g] < Len(acc.buf) /\ acc.wsdata[g] \in Int /\ Len(acc.buf) \in Nat
  BY ShapeFacts DEF Shape
<1> QED BY <1>1 DEF InSegment

\* addposition and addmessages add the data of one client.
LEMMA AddCore ==
  ASSUME Lengths, up \subseteq Humans, NEW acc, NEW chan \in {0, 1}, NEW D, Core(acc, chan, D),
         NEW c \in Cns, NEW h, h = Carrier(c), h \in up, Data(c, chan) \cap D = {}, Last(acc, h)
  PROVE  LET r == Add(acc, c, chan)
         IN  /\ Core(r, chan, D \cup Data(c, chan)) /\ Last(r, h)
             /\ \A g \in Humans : g # h /\ InSegment(r, g) => InSegment(acc, g)
<1> DEFINE r == Add(acc, c, chan)
           n == Due(c, chan)
<1>0. /\ position[c] \in Nat /\ messages[c] \in Nat /\ Header \in Nat /\ h \in Humans
      /\ Shape(acc) /\ n \in Nat
  BY UnitsFacts, WorldStateAssumption DEF Lengths, Core
<1>1. CASE n = 0
  <2>1. r = acc
    <3>1. CASE chan = 0
      BY <1>1, <3>1 DEF Due, Add, addposition
    <3>2. CASE chan = 1
      <4>1. messages[c] = 0
        BY <1>0, <1>1, <3>2 DEF Due
      <4> QED BY <3>2, <4>1 DEF Add, addmessages
    <3> QED BY <3>1, <3>2
  <2>2. Data(c, chan) = {}
    <3>1. Data(c, chan) = {<<c, chan, i>> : i \in 1..n}
      BY UnitsFacts
    <3> QED BY <1>1, <3>1
  <2>3. D \cup Data(c, chan) = D
    BY <2>2
  <2> HIDE DEF r
  <2> QED BY <2>1, <2>3 DEF r
<1>2. CASE n > 0
  <2>1. PICK room : r = AddData(acc, c, chan, room, Units(c, chan))
    <3>1. CASE chan = 0
      BY <1>0, <1>2, <3>1 DEF Due, Add, addposition
    <3>2. CASE chan = 1
      <4>1. messages[c] # 0
        BY <1>2, <3>2 DEF Due
      <4> QED BY <3>2, <4>1 DEF Add, addmessages
    <3> QED BY <3>1, <3>2
  <2> DEFINE a == IF SegmentLength(acc) + room > Mtu THEN SendSegment(acc, chan) ELSE acc
  <2>2. Core(a, chan, D) /\ Last(a, h) /\ \A g \in Humans : InSegment(a, g) => InSegment(acc, g)
    <3>1. CASE a = acc
      BY <3>1
    <3>2. CASE a = SendSegment(acc, chan)
      <4>1. Core(a, chan, D) /\ a.begin = Len(a.buf)
        BY <3>2, SendCore
      <4>2. \A g \in Humans : ~InSegment(a, g)
        BY <4>1, EmptySegment DEF Core
      <4> QED BY <1>0, <4>1, <4>2 DEF Last
    <3> QED BY <3>1, <3>2
  <2>3. r = WithData(a, c, chan)
    BY <2>1 DEF AddData, WithData
  <2> HIDE DEF a, r, n
  <2> DEFINE w == WithData(a, c, chan)
  <2>4. /\ Core(w, chan, D \cup Data(c, chan)) /\ Last(w, h)
        /\ \A g \in Humans : g # h /\ InSegment(w, g) => InSegment(a, g)
    <3>1. /\ Lengths /\ up \subseteq Humans /\ chan \in {0, 1} /\ Core(a, chan, D) /\ c \in Cns
          /\ h = Carrier(c) /\ h \in up /\ Data(c, chan) \cap D = {} /\ Due(c, chan) # 0
          /\ Last(a, h)
      BY <1>2, <2>2 DEF n
    <3> QED BY ONLY <3>1, AppendCore
  <2> HIDE DEF w
  <2>5. r = w
    BY <2>3 DEF w
  <2> QED BY <2>2, <2>4, <2>5 DEF r
<1> QED BY <1>0, <1>1, <1>2

-----------------------------------------------------------------------------
(***************************************************************************)
(* The loops                                                               *)
(***************************************************************************)
Said(C, chan) == UNION {Data(c, chan) : c \in C}
Carried(h) == {c \in Cns : Carrier(c) = h}

LEMMA SaidMore ==
  ASSUME NEW C, NEW c, NEW chan
  PROVE  Said(C \cup {c}, chan) = Said(C, chan) \cup Data(c, chan)
BY DEF Said

LEMMA SaidApart ==
  ASSUME Lengths, NEW C \in SUBSET Cns, NEW c \in Cns \ C, NEW chan \in {0, 1}
  PROVE  Data(c, chan) \cap Said(C, chan) = {}
<1>1. \A x \in Cns : \A u \in Data(x, chan) : u[1] = x
  BY UnitsFacts
<1> QED BY <1>1 DEF Said

LEMMA TurnCore ==
  ASSUME Lengths, up \subseteq Humans, owner \in [Bots -> Humans \cup {Nobody}],
         NEW acc, NEW chan \in {0, 1}, NEW D, Core(acc, chan, D),
         NEW h \in up, ~InSegment(acc, h), D \cap Said(Carried(h), chan) = {}
  PROVE  LET r == WithBots(acc, h, chan)[Len(BotOrder)]
         IN  /\ Core(r, chan, D \cup Said(Carried(h), chan))
             /\ \A g \in Humans : g # h /\ InSegment(r, g) => InSegment(acc, g)
<1> DEFINE a == WithBots(acc, h, chan)
           n == Len(BotOrder)
           Told(j) == {h} \cup {BotOrder[k] : k \in {m \in 1..j : owner[BotOrder[m]] = h}}
           Holds(j) == /\ Core(a[j], chan, D \cup Said(Told(j), chan)) /\ Last(a[j], h)
                       /\ \A g \in Humans : g # h /\ InSegment(a[j], g) => InSegment(acc, g)
           S == {j \in 0..n : Holds(j)}
<1>0. /\ n \in Nat /\ \A j \in 1..n : BotOrder[j] \in Bots
      /\ \A i, j \in 1..n : BotOrder[i] = BotOrder[j] => i = j
      /\ \A b \in Bots : \E j \in 1..n : b = BotOrder[j]
  <2>1. n \in Nat /\ DOMAIN BotOrder = 1..n
    BY WorldStateAssumption
  <2>2. \A j \in 1..n : BotOrder[j] \in Bots
    BY <2>1 DEF Bots, Range
  <2>3. \A i, j \in 1..n : BotOrder[i] = BotOrder[j] => i = j
    BY <2>1, WorldStateAssumption DEF IsInjective
  <2>4. \A b \in Bots : \E j \in 1..n : b = BotOrder[j]
    BY <2>1 DEF Bots, Range
  <2> QED BY <2>1, <2>2, <2>3, <2>4
<1>1. h \in Humans /\ h \notin Bots /\ h \in Cns /\ Carrier(h) = h /\ h \in Carried(h)
      /\ \A b \in Bots : b \in Cns /\ Carrier(b) = owner[b]
  BY WorldStateAssumption DEF Cns, Carrier, Carried
<1>2. /\ a[0] = Add(acc, h, chan)
      /\ \A j \in 1..n : a[j] = IF owner[BotOrder[j]] = h THEN Add(a[j - 1], BotOrder[j], chan) ELSE a[j - 1]
  <2>1. a = [j \in 0..n |->
               IF j = 0 THEN Add(acc, h, chan)
               ELSE IF owner[BotOrder[j]] = h THEN Add(a[j - 1], BotOrder[j], chan) ELSE a[j - 1]]
    BY BotsLoop
  <2> HIDE DEF a, n
  <2> QED BY <1>0, <2>1
<1>3. \A j \in 0..n : Told(j) \subseteq Carried(h)
  BY <1>0, <1>1 DEF Carried
<1>4. \A c \in Carried(h) : Data(c, chan) \cap D = {}
  BY DEF Said
<1> HIDE DEF a
<1>5. 0 \in S
  <2>1. Told(0) = {} \cup {h}
    OBVIOUS
  <2>2. Said(Told(0), chan) = Data(h, chan)
    <3>1. Said({}, chan) = {}
      BY DEF Said
    <3>2. Said({} \cup {h}, chan) = Said({}, chan) \cup Data(h, chan)
      BY SaidMore
    <3> HIDE DEF Told
    <3> QED BY <2>1, <3>1, <3>2
  <2>3. Last(acc, h)
    BY DEF Last
  <2>4. /\ Core(a[0], chan, D \cup Data(h, chan)) /\ Last(a[0], h)
        /\ \A g \in Humans : g # h /\ InSegment(a[0], g) => InSegment(acc, g)
    <3> DEFINE r == Add(acc, h, chan)
    <3>1. /\ Core(r, chan, D \cup Data(h, chan)) /\ Last(r, h)
          /\ \A g \in Humans : g # h /\ InSegment(r, g) => InSegment(acc, g)
      <4>1. /\ Lengths /\ up \subseteq Humans /\ chan \in {0, 1} /\ Core(acc, chan, D) /\ h \in Cns
            /\ h = Carrier(h) /\ h \in up /\ Data(h, chan) \cap D = {} /\ Last(acc, h)
        BY <1>1, <1>4, <2>3
      <4> QED BY ONLY <4>1, AddCore
    <3> HIDE DEF r
    <3> QED BY <1>2, <3>1 DEF r
  <2> HIDE DEF Told
  <2>5. Holds(0)
    <3>1. D \cup Data(h, chan) = D \cup Said(Told(0), chan)
      BY <2>2
    <3> QED BY <2>4, <3>1
  <2>6. 0 \in 0..n
    BY <1>0
  <2> HIDE DEF Holds, n
  <2> QED BY <2>5, <2>6
<1>6. ASSUME NEW j \in 1..n, j - 1 \in S PROVE j \in S
  <2> DEFINE b == BotOrder[j]
  <2>1. Holds(j - 1) /\ b \in Bots /\ j - 1 \in 0..n /\ j \in 0..n
    BY <1>0, <1>6
  <2>2. CASE owner[b] = h
    <3>1. Told(j) = Told(j - 1) \cup {b}
      <4>1. {m \in 1..j : owner[BotOrder[m]] = h} = {m \in 1..(j - 1) : owner[BotOrder[m]] = h} \cup {j}
        BY <2>2
      <4> QED BY <4>1
    <3>2. b \notin Told(j - 1)
      <4>1. \A k \in 1..(j - 1) : BotOrder[k] # b
        BY <1>0
      <4> QED BY <1>1, <2>1, <4>1
    <3>3. Told(j - 1) \in SUBSET Cns /\ b \in Cns \ Told(j - 1) /\ Carrier(b) = h /\ b \in Carried(h)
      BY <1>1, <1>3, <2>1, <2>2, <3>2 DEF Carried
    <3> HIDE DEF Told, b
    <3>4. Said(Told(j), chan) = Said(Told(j - 1), chan) \cup Data(b, chan)
      BY <3>1, SaidMore
    <3>5. Data(b, chan) \cap Said(Told(j - 1), chan) = {} /\ Data(b, chan) \cap D = {}
      BY <1>4, <3>3, SaidApart
    <3>6. Data(b, chan) \cap (D \cup Said(Told(j - 1), chan)) = {}
      BY <3>5
    <3>7. a[j] = Add(a[j - 1], b, chan)
      BY <1>2, <2>2 DEF b
    <3>8. /\ Core(a[j], chan, (D \cup Said(Told(j - 1), chan)) \cup Data(b, chan)) /\ Last(a[j], h)
          /\ \A g \in Humans : g # h /\ InSegment(a[j], g) => InSegment(a[j - 1], g)
      <4> DEFINE E == D \cup Said(Told(j - 1), chan)
                 x == a[j - 1]
                 r == Add(x, b, chan)
      <4>1. Core(x, chan, E) /\ Last(x, h) /\ Data(b, chan) \cap E = {} /\ b \in Cns /\ h = Carrier(b)
        BY <2>1, <3>3, <3>6
      <4> HIDE DEF E, x
      <4>2. /\ Core(r, chan, E \cup Data(b, chan)) /\ Last(r, h)
            /\ \A g \in Humans : g # h /\ InSegment(r, g) => InSegment(x, g)
        BY <4>1, AddCore
      <4> HIDE DEF r
      <4> QED BY <3>7, <4>2 DEF r, x, E
    <3>9. (D \cup Said(Told(j - 1), chan)) \cup Data(b, chan) = D \cup Said(Told(j), chan)
      BY <3>4
    <3>10. Holds(j)
      BY <2>1, <3>8, <3>9
    <3> QED BY <2>1, <3>10
  <2>3. CASE owner[b] # h
    <3>1. Told(j) = Told(j - 1)
      <4>1. {m \in 1..j : owner[BotOrder[m]] = h} = {m \in 1..(j - 1) : owner[BotOrder[m]] = h}
        BY <2>3
      <4> QED BY <4>1
    <3>2. a[j] = a[j - 1]
      BY <1>2, <2>3
    <3> HIDE DEF Told
    <3> QED BY <2>1, <3>1, <3>2
  <2> QED BY <2>2, <2>3
<1>7. Holds(n)
  <2>1. 0..n \subseteq S
    <3> HIDE DEF S
    <3> QED BY <1>0, <1>5, <1>6, UpTo
  <2>2. n \in 0..n
    BY <1>0
  <2> HIDE DEF Holds, n
  <2> QED BY <2>1, <2>2
<1>8. Told(n) = Carried(h)
  <2>1. ASSUME NEW c \in Carried(h) PROVE c \in Told(n)
    <3>1. CASE c \in Bots
      <4>1. PICK k \in 1..n : c = BotOrder[k]
        BY <1>0, <3>1
      <4>2. owner[BotOrder[k]] = h
        BY <1>1, <3>1, <4>1 DEF Carried
      <4> QED BY <4>1, <4>2
    <3>2. CASE c \notin Bots
      BY <3>2 DEF Carried, Carrier
    <3> QED BY <3>1, <3>2
  <2>2. Told(n) \subseteq Carried(h)
    BY <1>0, <1>3
  <2> HIDE DEF Told
  <2> QED BY <2>1, <2>2
<1> HIDE DEF Told
<1> QED BY <1>7, <1>8 DEF a

Present == {c \in Cns : Carrier(c) \in up}

LEMMA SaidSubset ==
  ASSUME NEW A, NEW B, A \subseteq B, NEW chan
  PROVE  Said(A, chan) \subseteq Said(B, chan)
BY DEF Said

LEMMA SaidUnion ==
  ASSUME NEW A, NEW B, NEW chan
  PROVE  Said(A \cup B, chan) = Said(A, chan) \cup Said(B, chan)
BY DEF Said

LEMMA SaidDisjoint ==
  ASSUME Lengths, NEW A \in SUBSET Cns, NEW B \in SUBSET Cns, A \cap B = {}, NEW chan \in {0, 1}
  PROVE  Said(A, chan) \cap Said(B, chan) = {}
<1>1. \A x \in Cns : \A u \in Data(x, chan) : u[1] = x
  BY UnitsFacts
<1> QED BY <1>1 DEF Said

LEMMA ClientsCore ==
  ASSUME Lengths, up \subseteq Humans, owner \in [Bots -> Humans \cup {Nobody}],
         NEW acc, NEW chan \in {0, 1}, NEW D, Core(acc, chan, D),
         acc.begin = Len(acc.buf), D \cap Said(Present, chan) = {}
  PROVE  Core(Everybody(acc, chan)[Len(Order)], chan, D \cup Said(Present, chan))
<1> DEFINE a == Everybody(acc, chan)
           n == Len(Order)
           First(i) == {Order[k] : k \in 1..i}
           Told(i) == {c \in Present : Carrier(c) \in First(i)}
           Holds(i) == /\ Core(a[i], chan, D \cup Said(Told(i), chan))
                       /\ \A g \in Humans : InSegment(a[i], g) => g \in First(i)
           S == {i \in 0..n : Holds(i)}
<1>0. /\ n \in Nat /\ \A j \in 1..n : Order[j] \in Humans
      /\ \A i, j \in 1..n : Order[i] = Order[j] => i = j
      /\ \A h \in Humans : \E j \in 1..n : h = Order[j]
  <2>1. n \in Nat /\ DOMAIN Order = 1..n
    BY WorldStateAssumption
  <2>2. \A j \in 1..n : Order[j] \in Humans
    BY <2>1 DEF Humans, Range
  <2>3. \A i, j \in 1..n : Order[i] = Order[j] => i = j
    BY <2>1, WorldStateAssumption DEF IsInjective
  <2>4. \A h \in Humans : \E j \in 1..n : h = Order[j]
    BY <2>1 DEF Humans, Range
  <2> QED BY <2>1, <2>2, <2>3, <2>4
<1>1. /\ a[0] = acc
      /\ \A i \in 1..n : a[i] = IF Order[i] \in up THEN WithBots(a[i - 1], Order[i], chan)[Len(BotOrder)] ELSE a[i - 1]
  <2>1. a = [i \in 0..n |->
               IF i = 0 THEN acc
               ELSE IF Order[i] \in up THEN WithBots(a[i - 1], Order[i], chan)[Len(BotOrder)] ELSE a[i - 1]]
    BY ClientsLoop
  <2> HIDE DEF a, n
  <2> QED BY <1>0, <2>1
<1> HIDE DEF a
<1>2. 0 \in S
  <2>1. Told(0) = {}
    OBVIOUS
  <2>2. D \cup Said(Told(0), chan) = D
    BY <2>1 DEF Said
  <2>3. \A g \in Humans : ~InSegment(acc, g)
    BY EmptySegment DEF Core
  <2> HIDE DEF Told, First
  <2>4. Holds(0)
    BY <1>1, <2>2, <2>3
  <2>5. 0 \in 0..n
    BY <1>0
  <2> HIDE DEF Holds, n
  <2> QED BY <2>4, <2>5
<1>3. ASSUME NEW i \in 1..n, i - 1 \in S PROVE i \in S
  <2> DEFINE h == Order[i]
             x == a[i - 1]
             E == D \cup Said(Told(i - 1), chan)
  <2>1. Holds(i - 1) /\ h \in Humans /\ i - 1 \in 0..n /\ i \in 0..n
    BY <1>0, <1>3
  <2>2. First(i) = First(i - 1) \cup {h}
    <3>1. 1..i = (1..(i - 1)) \cup {i}
      BY <1>0
    <3> QED BY <3>1
  <2>3. h \notin First(i - 1)
    <3>1. \A k \in 1..(i - 1) : k \in 1..n /\ k # i
      BY <1>0
    <3> QED BY <1>0, <3>1
  <2>4. CASE h \in up
    <3>1. Told(i) = Told(i - 1) \cup Carried(h)
      <4> HIDE DEF First
      <4> QED BY <2>2, <2>4 DEF Present, Carried
    <3>2. Told(i - 1) \cap Carried(h) = {} /\ Told(i - 1) \in SUBSET Cns /\ Carried(h) \in SUBSET Cns
          /\ Carried(h) \subseteq Present
      <4> HIDE DEF First
      <4> QED BY <2>3, <2>4 DEF Present, Carried
    <3>3. Said(Told(i), chan) = Said(Told(i - 1), chan) \cup Said(Carried(h), chan)
      <4> HIDE DEF Told
      <4> QED BY <3>1, SaidUnion
    <3>4. E \cap Said(Carried(h), chan) = {}
      <4> HIDE DEF Told, h
      <4>1. Said(Told(i - 1), chan) \cap Said(Carried(h), chan) = {}
        BY <3>2, SaidDisjoint
      <4>2. Said(Carried(h), chan) \subseteq Said(Present, chan)
        BY <3>2, SaidSubset
      <4> QED BY <4>1, <4>2
    <3>5. Core(x, chan, E) /\ ~InSegment(x, h)
      <4> HIDE DEF Told, First, h
      <4> QED BY <2>1, <2>3
    <3> DEFINE r == WithBots(x, h, chan)[Len(BotOrder)]
    <3>6. /\ Core(r, chan, E \cup Said(Carried(h), chan))
          /\ \A g \in Humans : g # h /\ InSegment(r, g) => InSegment(x, g)
      <4> HIDE DEF E, x, h
      <4>1. /\ Lengths /\ up \subseteq Humans /\ owner \in [Bots -> Humans \cup {Nobody}]
            /\ chan \in {0, 1} /\ Core(x, chan, E) /\ h \in up /\ ~InSegment(x, h)
            /\ E \cap Said(Carried(h), chan) = {}
        BY <2>4, <3>4, <3>5
      <4> QED BY ONLY <4>1, TurnCore
    <3>7. a[i] = r
      BY <1>1, <2>4
    <3>8. E \cup Said(Carried(h), chan) = D \cup Said(Told(i), chan)
      <4> HIDE DEF Told, h
      <4> QED BY <3>3
    <3> HIDE DEF r, Told, First, h
    <3>9. \A g \in Humans : InSegment(a[i], g) => g \in First(i)
      BY <2>1, <2>2, <3>6, <3>7
    <3>10. Holds(i)
      <4> HIDE DEF E
      <4> QED BY <3>6, <3>7, <3>8, <3>9
    <3> HIDE DEF Holds, n
    <3> QED BY <2>1, <3>10
  <2>5. CASE h \notin up
    <3>1. Told(i) = Told(i - 1)
      <4> HIDE DEF First
      <4> QED BY <2>2, <2>5 DEF Present
    <3>2. a[i] = a[i - 1]
      BY <1>1, <2>5
    <3> HIDE DEF Told, First, h
    <3>3. Holds(i)
      BY <2>1, <2>2, <3>1, <3>2
    <3> HIDE DEF Holds, n
    <3> QED BY <2>1, <3>3
  <2> QED BY <2>4, <2>5
<1>4. Holds(n)
  <2>1. 0..n \subseteq S
    <3> HIDE DEF S
    <3> QED BY <1>0, <1>2, <1>3, UpTo
  <2>2. n \in 0..n
    BY <1>0
  <2> HIDE DEF Holds, n
  <2> QED BY <2>1, <2>2
<1>5. Told(n) = Present
  <2>1. Humans \subseteq First(n)
    BY <1>0
  <2> HIDE DEF First
  <2> QED BY <2>1 DEF Present
<1> HIDE DEF Told, First
<1> QED BY <1>4, <1>5 DEF a

LEMMA PassCore ==
  ASSUME Lengths, up \subseteq Humans, owner \in [Bots -> Humans \cup {Nobody}],
         NEW acc, NEW chan \in {0, 1}, NEW D, Core(acc, chan, D),
         acc.begin = Len(acc.buf), D \cap Said(Present, chan) = {}, NEW next
  PROVE  LET r == Pass(acc, chan)
         IN  /\ Core(r, next, D \cup Said(Present, chan))
             /\ r.begin = Len(r.buf) /\ SegUnits(r) = {}
<1> DEFINE x == Everybody(acc, chan)[Len(Order)]
<1>1. Core(x, chan, D \cup Said(Present, chan))
  BY ClientsCore
<1> HIDE DEF x
<1>2. LET r == SendSegment(x, chan)
      IN  /\ Core(r, next, D \cup Said(Present, chan))
          /\ r.begin = Len(r.buf) /\ SegUnits(r) = {}
  BY <1>1, SendCore
<1> QED BY <1>2 DEF Pass, x

LEMMA BlankCore == Core(Blank, 0, {}) /\ Blank.begin = Len(Blank.buf)
<1>1. /\ Blank.buf = <<>> /\ Blank.begin = 0 /\ Blank.wsdata = [h \in Humans |-> -1]
      /\ Blank.wslen = [h \in Humans |-> 0] /\ Blank.sent = {}
      /\ Blank \in [buf : Seq(Unit), begin : Nat, wsdata : [Humans -> Int], wslen : [Humans -> Nat],
                    sent : SUBSET Packets]
  BY DEF Blank
<1>2. Len(Blank.buf) = 0
  BY <1>1
<1>3. \A h \in Humans : ~InSegment(Blank, h) /\ Blank.wsdata[h] < 0
  BY <1>1 DEF InSegment
<1>4. Shape(Blank)
  BY <1>1, <1>2, <1>3 DEF Shape
<1>5. Seg(Blank) = {}
  BY <1>1, <1>2 DEF Seg
<1>6. SegUnits(Blank) = {} /\ Segment(Blank, 0)
  BY <1>5 DEF SegUnits, Segment
<1>7. Delivered(Blank, {})
  BY <1>1 DEF Delivered, Once, Reached
<1>8. IsFiniteSet({}) /\ Cardinality({}) = 0
  BY FS_EmptySet
<1>9. {} \ SegUnits(Blank) = {}
  OBVIOUS
<1> QED BY <1>1, <1>2, <1>4, <1>6, <1>7, <1>8, <1>9 DEF Core

\* What everybody has to say.
Words == Said(Present, 0) \cup Said(Present, 1)

LEMMA WorldCore ==
  ASSUME Lengths, up \subseteq Humans, owner \in [Bots -> Humans \cup {Nobody}]
  PROVE  /\ Shape(World) /\ Delivered(World, Words) /\ IsFiniteSet(World.sent) /\ IsFiniteSet(Words)
         /\ World.begin = Len(World.buf) /\ Len(World.buf) = 2 * Cardinality(Words)
<1> DEFINE x == Pass(Blank, 0)
<1>1. {} \cap Said(Present, 0) = {} /\ {} \cup Said(Present, 0) = Said(Present, 0)
  OBVIOUS
<1>2. Core(x, 1, {} \cup Said(Present, 0)) /\ x.begin = Len(x.buf)
  BY <1>1, BlankCore, PassCore
<1>3. Core(x, 1, Said(Present, 0))
  BY <1>1, <1>2
<1>4. Said(Present, 0) \cap Said(Present, 1) = {}
  <2>1. \A c \in Cns : \A k \in {0, 1} : \A u \in Data(c, k) : u[2] = k
    BY UnitsFacts
  <2> QED BY <2>1 DEF Said, Present
<1> DEFINE w == Pass(x, 1)
<1> HIDE DEF x
<1>5. Core(w, 1, Said(Present, 0) \cup Said(Present, 1)) /\ w.begin = Len(w.buf) /\ SegUnits(w) = {}
  BY <1>2, <1>3, <1>4, PassCore
<1>6. w = World
  BY DEF World, x
<1> HIDE DEF w
<1>7. Core(w, 1, Words) /\ Words \ SegUnits(w) = Words
  BY <1>5 DEF Words
<1> QED BY <1>5, <1>6, <1>7 DEF Core

-----------------------------------------------------------------------------
(***************************************************************************)
(* Totals are sizes of sets of pairs                                       *)
(***************************************************************************)
Pairs(len) == UNION {{x} \X (1..len[x]) : x \in DOMAIN len}

LEMMA TotalPairs == ASSUME NEW len PROVE Total(len) = Cardinality(Pairs(len))
BY DEF Total, Pairs

LEMMA PairsOf ==
  ASSUME NEW S, NEW len \in [S -> Nat]
  PROVE  \A x : x \in Pairs(len) <=> \E k \in S : \E n \in 1..len[k] : x = <<k, n>>
<1>1. DOMAIN len = S
  OBVIOUS
<1>2. Pairs(len) = UNION {{x} \X (1..len[x]) : x \in S}
  BY <1>1 DEF Pairs
<1> HIDE <1>1
<1> QED BY <1>2

LEMMA PairsFinite ==
  ASSUME NEW S, IsFiniteSet(S), NEW len \in [S -> Nat]
  PROVE  IsFiniteSet(Pairs(len)) /\ Total(len) \in Nat
<1> DEFINE g == [k \in S |-> {k} \X (1..len[k])]
           T == {g[k] : k \in S}
<1>1. g \in Surjection(S, T)
  BY DEF Surjection
<1>2. IsFiniteSet(T)
  <2> HIDE DEF g, T
  <2> QED BY <1>1, FS_Surjection
<1>3. ASSUME NEW k \in S PROVE IsFiniteSet({k} \X (1..len[k]))
  <2>1. IsFiniteSet({k})
    BY FS_Singleton
  <2>2. IsFiniteSet(1..len[k])
    <3>1. len[k] \in Nat
      OBVIOUS
    <3> QED BY <3>1, FS_Interval
  <2> QED BY <2>1, <2>2, FS_Product
<1>4. IsFiniteSet(UNION T)
  <2>1. \A t \in T : IsFiniteSet(t)
    BY <1>3
  <2> HIDE DEF T
  <2> QED BY <1>2, <2>1, FS_UNION
<1>5. Pairs(len) = UNION T
  BY DEF Pairs
<1> QED BY <1>4, <1>5, FS_CardinalityType, TotalPairs

\* One less of one of them is one less in all.
LEMMA TotalLess ==
  ASSUME NEW S, IsFiniteSet(S), NEW len \in [S -> Nat], NEW k \in S, len[k] > 0
  PROVE  Total(len) > 0 /\ Total([len EXCEPT ![k] = @ - 1]) = Total(len) - 1
<1> DEFINE less == [len EXCEPT ![k] = @ - 1]
           x == <<k, len[k]>>
<1>1. less \in [S -> Nat] /\ less[k] = len[k] - 1 /\ \A j \in S : j # k => less[j] = len[j]
  OBVIOUS
<1>2. x \in Pairs(len)
  BY PairsOf
<1> HIDE DEF less
<1>3. \A y : y \in Pairs(less) <=> y \in Pairs(len) \ {x}
  <2>1. \A y : y \in Pairs(less) <=> \E j \in S : \E n \in 1..less[j] : y = <<j, n>>
    BY <1>1, PairsOf
  <2>2. \A y : y \in Pairs(len) <=> \E j \in S : \E n \in 1..len[j] : y = <<j, n>>
    BY PairsOf
  <2>3. ASSUME NEW j \in S, NEW n \in 1..less[j] PROVE n \in 1..len[j] /\ <<j, n>> # x
    BY <1>1
  <2>4. ASSUME NEW j \in S, NEW n \in 1..len[j], <<j, n>> # x PROVE n \in 1..less[j]
    <3>1. j = k => n # len[k]
      BY <2>4
    <3> QED BY <1>1, <3>1
  <2> HIDE DEF x
  <2> QED BY <2>1, <2>2, <2>3, <2>4
<1>4. Pairs(less) = Pairs(len) \ {x}
  <2> HIDE DEF x
  <2> QED BY <1>3
<1>5. IsFiniteSet(Pairs(len)) /\ Total(len) \in Nat
  BY PairsFinite
<1>6. Cardinality(Pairs(len) \ {x}) = Cardinality(Pairs(len)) - 1
  <2> HIDE DEF x
  <2> QED BY <1>2, <1>5, FS_RemoveElement
<1>7. Total(len) # 0
  <2>1. Pairs(len) # {}
    BY <1>2
  <2> QED BY <1>5, <2>1, FS_EmptySet, TotalPairs
<1>8. Total(less) = Total(len) - 1
  BY <1>4, <1>6, TotalPairs
<1> QED BY <1>5, <1>7, <1>8 DEF less

LEMMA TotalZero == ASSUME NEW S PROVE Total([x \in S |-> 0]) = 0
<1> DEFINE z == [x \in S |-> 0]
<1>1. z \in [S -> Nat] /\ \A k \in S : z[k] = 0
  OBVIOUS
<1> HIDE DEF z
<1>2. Pairs(z) = {}
  BY <1>1, PairsOf
<1> QED BY <1>2, TotalPairs, FS_EmptySet DEF z

\* The members of a finite set, counted by key, are the members counted.
LEMMA CountByKey ==
  ASSUME NEW S, IsFiniteSet(S), NEW P, IsFiniteSet(P), NEW key \in [P -> S]
  PROVE  Cardinality(P) = Total([k \in S |-> Cardinality({p \in P : key[p] = k})])
<1> DEFINE Of(k) == {p \in P : key[p] = k}
           len == [k \in S |-> Cardinality(Of(k))]
           en == [k \in S |-> CHOOSE f : f \in Bijection(1..Cardinality(Of(k)), Of(k))]
<1>1. ASSUME NEW k \in S
      PROVE  Cardinality(Of(k)) \in Nat /\ en[k] \in Bijection(1..Cardinality(Of(k)), Of(k))
  <2> DEFINE O == Of(k)
  <2>1. IsFiniteSet(O)
    <3>1. O \in SUBSET P
      OBVIOUS
    <3> HIDE DEF O
    <3> QED BY <3>1, FS_Subset
  <2>2. en[k] = CHOOSE f : f \in Bijection(1..Cardinality(O), O)
    OBVIOUS
  <2> HIDE DEF O, en
  <2>3. Cardinality(O) \in Nat /\ ExistsBijection(1..Cardinality(O), O)
    BY <2>1, FS_CardinalityType
  <2>4. \E f : f \in Bijection(1..Cardinality(O), O)
    BY <2>3 DEF ExistsBijection
  <2>5. en[k] \in Bijection(1..Cardinality(O), O)
    BY <2>2, <2>4
  <2> QED BY <2>3, <2>5 DEF O
<1>2. len \in [S -> Nat] /\ \A k \in S : len[k] = Cardinality(Of(k))
  BY <1>1
<1> HIDE DEF en, len
<1>3. ASSUME NEW k \in S
      PROVE  /\ \A n \in 1..len[k] : en[k][n] \in P /\ key[en[k][n]] = k
             /\ \A n, m \in 1..len[k] : en[k][n] = en[k][m] => n = m
             /\ \A p \in P : key[p] = k => \E n \in 1..len[k] : en[k][n] = p
  <2>1. en[k] \in Bijection(1..len[k], Of(k))
    BY <1>1, <1>2
  <2> QED BY <2>1 DEF Bijection, Injection, Surjection, IsInjective
<1>4. \A x : x \in Pairs(len) <=> \E k \in S : \E n \in 1..len[k] : x = <<k, n>>
  BY <1>2, PairsOf
<1> DEFINE f == [x \in Pairs(len) |-> en[x[1]][x[2]]]
<1>5. \A k \in S : \A n \in 1..len[k] : <<k, n>> \in Pairs(len) /\ f[<<k, n>>] = en[k][n]
  BY <1>4
<1>6. f \in [Pairs(len) -> P]
  BY <1>3, <1>4
<1>7. ASSUME NEW x \in Pairs(len), NEW y \in Pairs(len), f[x] = f[y] PROVE x = y
  <2>1. PICK k \in S : \E n \in 1..len[k] : x = <<k, n>>
    BY <1>4
  <2>2. PICK j \in S : \E m \in 1..len[j] : y = <<j, m>>
    BY <1>4
  <2>3. PICK n \in 1..len[k] : x = <<k, n>>
    BY <2>1
  <2>4. PICK m \in 1..len[j] : y = <<j, m>>
    BY <2>2
  <2>5. en[k][n] = en[j][m]
    BY <1>5, <1>7, <2>3, <2>4
  <2>6. k = j
    BY <1>3, <2>5
  <2>7. n = m
    BY <1>3, <2>5, <2>6
  <2> QED BY <2>3, <2>4, <2>6, <2>7
<1>8. ASSUME NEW p \in P PROVE \E x \in Pairs(len) : f[x] = p
  <2>1. key[p] \in S
    OBVIOUS
  <2>2. PICK n \in 1..len[key[p]] : en[key[p]][n] = p
    BY <1>3, <2>1
  <2> QED BY <1>5, <2>1, <2>2
<1> HIDE DEF f
<1>9. f \in Bijection(Pairs(len), P)
  BY <1>6, <1>7, <1>8 DEF Bijection, Injection, Surjection, IsInjective
<1>10. Cardinality(P) = Cardinality(Pairs(len))
  <2>1. IsFiniteSet(Pairs(len)) /\ ExistsBijection(Pairs(len), P)
    BY <1>2, <1>9, PairsFinite DEF ExistsBijection
  <2> QED BY <2>1, FS_Bijection
<1> QED BY <1>10, TotalPairs DEF len

-----------------------------------------------------------------------------
(***************************************************************************)
(* A world state fits its buffer and reaches everybody                     *)
(***************************************************************************)
LEMMA FiniteBots == IsFiniteSet(Bots)
<1>1. Len(BotOrder) \in Nat /\ DOMAIN BotOrder = 1..Len(BotOrder)
  BY WorldStateAssumption
<1>2. BotOrder \in Surjection(1..Len(BotOrder), Bots)
  BY <1>1, WorldStateAssumption DEF Surjection, Bots, Range
<1>3. IsFiniteSet(1..Len(BotOrder))
  BY <1>1, FS_Interval
<1> QED BY <1>2, <1>3, FS_Surjection

LEMMA WordsOf ==
  ASSUME Lengths
  PROVE  /\ \A u : u \in Words <=> \E c \in Present : \E k \in {0, 1} : u \in Data(c, k)
         /\ \A u \in Words : /\ u[1] \in Present /\ u[2] \in {0, 1} /\ u[3] \in 1..Due(u[1], u[2])
                             /\ u = <<u[1], u[2], u[3]>>
<1>1. \A u : u \in Words <=> \E c \in Present : \E k \in {0, 1} : u \in Data(c, k)
  BY DEF Words, Said
<1>2. ASSUME NEW u \in Words
      PROVE  /\ u[1] \in Present /\ u[2] \in {0, 1} /\ u[3] \in 1..Due(u[1], u[2])
             /\ u = <<u[1], u[2], u[3]>>
  <2>1. PICK c \in Present : \E k \in {0, 1} : u \in Data(c, k)
    BY <1>1
  <2>2. PICK k \in {0, 1} : u \in Data(c, k)
    BY <2>1
  <2>3. Data(c, k) = {<<c, k, i>> : i \in 1..Due(c, k)}
    BY UnitsFacts DEF Present
  <2>4. PICK i \in 1..Due(c, k) : u = <<c, k, i>>
    BY <2>2, <2>3
  <2>5. u[1] = c /\ u[2] = k /\ u[3] = i
    BY <2>4
  <2> QED BY <2>4, <2>5
<1> QED BY <1>1, <1>2

\* Room was made for every unit: the header that is written is no longer than
\* what is allowed for it.
LEMMA Fits ==
  ASSUME Lengths, up \subseteq Humans, owner \in [Bots -> Humans \cup {Nobody}]
  PROVE  wsmax \in Nat /\ Cardinality(Words) <= wsmax
<1> DEFINE S == up \cup Bots
           need == [c \in S |-> position[c] + IF messages[c] > 0 THEN Reserve + messages[c] ELSE 0]
           At(u) == IF u[2] = 0 THEN u[3] ELSE position[u[1]] + u[3]
           f == [u \in Words |-> <<u[1], At(u)>>]
<1>1. \A c \in Cns : position[c] \in Nat /\ messages[c] \in Nat
  BY DEF Lengths
<1>2. Reserve \in Nat /\ Header \in Nat /\ Header <= Reserve
  BY WorldStateAssumption
<1>3. S \subseteq Cns /\ Present \subseteq S
  BY DEF Cns, Present, Carrier
<1>4. need \in [S -> Nat]
  <2>1. \A c \in S : position[c] + (IF messages[c] > 0 THEN Reserve + messages[c] ELSE 0) \in Nat
    BY <1>1, <1>2, <1>3
  <2> QED BY <2>1
<1>5. IsFiniteSet(S)
  <2>1. IsFiniteSet(up)
    BY FiniteHumans, FS_Subset
  <2> QED BY <2>1, FiniteBots, FS_Union
<1>6. \A c \in S : need[c] = position[c] + IF messages[c] > 0 THEN Reserve + messages[c] ELSE 0
  OBVIOUS
<1>7. wsmax = Total(need)
  BY DEF wsmax
<1> HIDE DEF need, S
<1>8. IsFiniteSet(Pairs(need)) /\ Total(need) \in Nat
  BY <1>4, <1>5, PairsFinite
<1>9. \A x : x \in Pairs(need) <=> \E k \in S : \E n \in 1..need[k] : x = <<k, n>>
  BY <1>4, PairsOf
<1>10. ASSUME NEW u \in Words
       PROVE  /\ u[1] \in S /\ u[3] \in Nat /\ u[3] > 0 /\ u = <<u[1], u[2], u[3]>> /\ u[2] \in {0, 1}
              /\ position[u[1]] \in Nat /\ position[u[1]] <= need[u[1]] /\ need[u[1]] \in Nat
              /\ u[2] = 0 => u[3] <= position[u[1]]
              /\ u[2] = 1 => position[u[1]] + u[3] <= need[u[1]]
  <2> DEFINE c == u[1]
  <2>1. c \in Present /\ c \in S /\ c \in Cns /\ u[2] \in {0, 1} /\ u[3] \in 1..Due(c, u[2]) /\ u = <<u[1], u[2], u[3]>>
    BY <1>3, WordsOf
  <2>2. position[c] \in Nat /\ messages[c] \in Nat
        /\ need[c] = position[c] + IF messages[c] > 0 THEN Reserve + messages[c] ELSE 0
    BY <1>1, <1>6, <2>1
  <2>3. Due(c, 0) = position[c]
    BY DEF Due
  <2>4. Due(c, 1) = IF messages[c] > 0 THEN Header + messages[c] ELSE 0
    <3>1. CASE messages[c] = 0
      BY <3>1 DEF Due
    <3>2. CASE messages[c] > 0
      BY <2>2, <3>2 DEF Due
    <3> QED BY <2>2, <3>1, <3>2
  <2>5. CASE u[2] = 0
    <3>1. u[3] \in 1..position[c]
      BY <2>1, <2>3, <2>5
    <3> HIDE DEF c
    <3>2. u[3] \in Nat /\ u[3] > 0 /\ u[3] <= position[c] /\ position[c] <= need[c] /\ need[c] \in Nat
      BY <1>2, <2>2, <3>1
    <3> QED BY <2>1, <2>2, <2>5, <3>2 DEF c
  <2>6. CASE u[2] = 1
    <3>1. u[3] \in 1..(IF messages[c] > 0 THEN Header + messages[c] ELSE 0)
      BY <2>1, <2>4, <2>6
    <3> HIDE DEF c
    <3>2. u[3] \in Nat /\ u[3] > 0 /\ position[c] + u[3] <= need[c] /\ position[c] <= need[c] /\ need[c] \in Nat
      BY <1>2, <2>2, <3>1
    <3> QED BY <2>1, <2>2, <2>6, <3>2 DEF c
  <2> QED BY <2>1, <2>5, <2>6
<1>11. ASSUME NEW u \in Words PROVE f[u] \in Pairs(need)
  <2>1. CASE u[2] = 0
    <3>1. f[u] = <<u[1], u[3]>> /\ u[3] \in 1..need[u[1]]
      BY <1>10, <2>1
    <3> QED BY <1>9, <1>10, <3>1
  <2>2. CASE u[2] = 1
    <3>1. f[u] = <<u[1], position[u[1]] + u[3]>> /\ position[u[1]] + u[3] \in 1..need[u[1]]
      BY <1>10, <2>2
    <3> QED BY <1>9, <1>10, <3>1
  <2> QED BY <1>10, <2>1, <2>2
<1>12. ASSUME NEW u \in Words, NEW v \in Words, f[u] = f[v] PROVE u = v
  <2>1. f[u] = <<u[1], At(u)>> /\ f[v] = <<v[1], At(v)>>
    OBVIOUS
  <2> HIDE DEF f
  <2>2. <<u[1], At(u)>> = <<v[1], At(v)>>
    BY ONLY <1>12, <2>1
  <2>3. u[1] = v[1] /\ At(u) = At(v)
    <3> HIDE DEF At
    <3> QED BY ONLY <2>2
  <2>4. (IF u[2] = 0 THEN u[3] ELSE position[u[1]] + u[3]) = (IF v[2] = 0 THEN v[3] ELSE position[u[1]] + v[3])
    BY <2>3
  <2>5. u[2] = v[2] /\ u[3] = v[3]
    <3>1. /\ u[3] \in Nat /\ u[3] > 0 /\ u[2] \in {0, 1} /\ position[u[1]] \in Nat
          /\ u[2] = 0 => u[3] <= position[u[1]]
      BY <1>10
    <3>2. /\ v[3] \in Nat /\ v[3] > 0 /\ v[2] \in {0, 1}
          /\ v[2] = 0 => v[3] <= position[u[1]]
      BY <1>10, <2>3
    <3> QED BY ONLY <2>4, <3>1, <3>2
  <2>6. u = <<u[1], u[2], u[3]>> /\ v = <<v[1], v[2], v[3]>>
    BY <1>10
  <2> QED BY <2>3, <2>5, <2>6
<1>13. f \in Injection(Words, Pairs(need))
  <2>1. f \in [Words -> Pairs(need)]
    BY <1>11
  <2>2. DOMAIN f = Words
    OBVIOUS
  <2> HIDE DEF f
  <2> QED BY <1>12, <2>1, <2>2 DEF Injection, IsInjective
<1>14. Cardinality(Words) <= Cardinality(Pairs(need))
  <2> HIDE DEF f
  <2> QED BY <1>8, <1>13, FS_Injection
<1> QED BY <1>7, <1>8, <1>14, TotalPairs

LEMMA OthersWords ==
  ASSUME Lengths, NEW h
  PROVE  \A u : u \in Others(h) <=> u \in Words /\ Carrier(u[1]) # h
<1>1. \A c \in Cns : \A k \in {0, 1} : \A u \in Data(c, k) : u[1] = c
  BY UnitsFacts
<1>2. \A u : u \in Words <=> \E c \in Present : \E k \in {0, 1} : u \in Data(c, k)
  BY WordsOf
<1>3. \A u : u \in Others(h) <=> \E c \in {d \in Cns : Carrier(d) \in up \ {h}} : \E k \in {0, 1} : u \in Data(c, k)
  BY DEF Others
<1> QED BY <1>1, <1>2, <1>3 DEF Present

LEMMA Everyone ==
  ASSUME TypeOK
  PROVE  EverybodyElse
<1>1. Lengths /\ up \subseteq Humans /\ owner \in [Bots -> Humans \cup {Nobody}]
  BY DEF TypeOK, Lengths
<1>2. /\ Shape(World) /\ Delivered(World, Words) /\ IsFiniteSet(World.sent) /\ IsFiniteSet(Words)
      /\ World.begin = Len(World.buf) /\ Len(World.buf) = 2 * Cardinality(Words)
  BY <1>1, WorldCore
<1>3. Len(World.buf) <= 2 * wsmax
  <2>1. wsmax \in Nat /\ Cardinality(Words) <= wsmax /\ Cardinality(Words) \in Nat
    BY <1>1, <1>2, Fits, FS_CardinalityType
  <2> QED BY <1>2, <2>1
<1>4. \A p : Read(p) = Reads(World, p)
  BY DEF Read, Reads
<1>5. \A h : \A u : u \in Others(h) <=> u \in Words /\ Carrier(u[1]) # h
  BY <1>1, OthersWords
<1>6. \A p \in World.sent : Proper(World, Words, p)
  BY <1>2 DEF Delivered
<1>7. World.buf \in Seq(Unit) /\ Len(World.buf) \in Nat /\ World.sent \in SUBSET Packets
  BY <1>2, ShapeFacts
<1>8. ASSUME NEW p \in World.sent
      PROVE  /\ p.to \in up \ deaf /\ Places(p) \subseteq DOMAIN World.buf
             /\ \A u \in Read(p) : /\ u \in Others(p.to) /\ u[2] = p.chan
                                   /\ Data(u[1], u[2]) \subseteq Read(p)
  <2>1. p.at \in Nat /\ p.size \in Nat
    BY <1>7 DEF Packets
  <2>2. p.at + p.size <= Len(World.buf)
    BY <1>2, <1>6 DEF Proper
  <2>3. DOMAIN World.buf = 1..Len(World.buf)
    BY <1>7
  <2>4. Places(p) \subseteq DOMAIN World.buf
    BY <1>7, <2>1, <2>2, <2>3 DEF Places
  <2> QED BY <1>4, <1>5, <1>6, <2>4 DEF Proper
<1>9. Once(World) /\ Reached(World, Words)
  BY <1>2 DEF Delivered
<1>10. \A p, q \in World.sent : q.to = p.to =>
         \A i \in Places(p), j \in Places(q) : World.buf[i] = World.buf[j] => p = q /\ i = j
  BY <1>9 DEF Once
<1>11. \A h \in up \ deaf : \A u \in Others(h) : \E p \in World.sent : p.to = h /\ u \in Read(p)
  BY <1>4, <1>5, <1>9 DEF Reached
<1> QED BY ONLY <1>3, <1>8, <1>10, <1>11 DEF EverybodyElse

-----------------------------------------------------------------------------
(***************************************************************************)
(* The steps                                                               *)
(***************************************************************************)
\* A world state has a packet for everybody that is counted.
LEMMA SentByClient ==
  ASSUME TypeOK
  PROVE  LET n == [h \in Humans |-> Cardinality({p \in World.sent : p.to = h})]
         IN  /\ n \in [Humans -> Nat] /\ Cardinality(World.sent) \in Nat
             /\ Cardinality(World.sent) = Total(n)
<1> DEFINE P == World.sent
           n == [h \in Humans |-> Cardinality({p \in P : p.to = h})]
<1>1. IsFiniteSet(P) /\ P \in SUBSET Packets
  <2>1. Lengths /\ up \subseteq Humans /\ owner \in [Bots -> Humans \cup {Nobody}]
    BY DEF TypeOK, Lengths
  <2>2. Shape(World) /\ IsFiniteSet(World.sent)
    BY <2>1, WorldCore
  <2> QED BY <2>2, ShapeFacts
<1> HIDE DEF P
<1>2. \A h \in Humans : Cardinality({p \in P : p.to = h}) \in Nat
  <2> SUFFICES ASSUME NEW h \in Humans PROVE Cardinality({p \in P : p.to = h}) \in Nat
    OBVIOUS
  <2> DEFINE Q == {p \in P : p.to = h}
  <2>1. Q \in SUBSET P
    OBVIOUS
  <2> HIDE DEF Q
  <2>2. IsFiniteSet(Q)
    BY <1>1, <2>1, FS_Subset
  <2>3. Cardinality(Q) \in Nat
    BY <2>2, FS_CardinalityType
  <2> QED BY <2>3 DEF Q
<1>3. n \in [Humans -> Nat]
  BY <1>2
<1>4. Cardinality(P) = Total(n)
  <2> DEFINE key == [p \in P |-> p.to]
  <2>1. key \in [P -> Humans]
    BY <1>1 DEF Packets
  <2>2. \A h : {p \in P : key[p] = h} = {p \in P : p.to = h}
    OBVIOUS
  <2> HIDE DEF key
  <2>3. Cardinality(P) = Total([k \in Humans |-> Cardinality({p \in P : key[p] = k})])
    BY <1>1, <2>1, FiniteHumans, CountByKey
  <2> QED BY <2>2, <2>3
<1>5. Cardinality(P) \in Nat
  BY <1>1, FS_CardinalityType
<1> QED BY <1>3, <1>4, <1>5 DEF P

Inv == TypeOK /\ BufferLivesAsLong

LEMMA Initially == Init => Inv
<1> SUFFICES ASSUME Init PROVE Inv
  OBVIOUS
<1>1. TypeOK
  BY DEF Init, TypeOK
<1>2. \A a \in Addrs : worldstates[a] = 0 /\ flight[a] = [h \in Humans |-> 0]
  BY DEF Init
<1>3. BufferLivesAsLong
  BY <1>2, TotalZero DEF BufferLivesAsLong
<1> QED BY <1>1, <1>3 DEF Inv

LEMMA Step == Inv /\ [Next]_vars => Inv'
<1> SUFFICES ASSUME Inv, [Next]_vars PROVE Inv'
  OBVIOUS
<1> USE DEF Inv
<1>1. TypeOK /\ BufferLivesAsLong
  OBVIOUS
<1>2. /\ deaf \subseteq up /\ up \subseteq Humans /\ owner \in [Bots -> Humans \cup {Nobody}]
      /\ position \in [Cns -> Nat] /\ messages \in [Cns -> Nat]
      /\ worldstates \in [Addrs -> Nat] /\ flight \in [Addrs -> [Humans -> Nat]]
  BY DEF TypeOK
<1>3. Humans \subseteq Cns
  BY DEF Cns
<1>4. ASSUME UNCHANGED <<worldstates, flight>>,
             deaf' \subseteq up', up' \subseteq Humans, owner' \in [Bots -> Humans \cup {Nobody}],
             position' \in [Cns -> Nat], messages' \in [Cns -> Nat]
      PROVE  Inv'
  BY <1>1, <1>2, <1>4 DEF TypeOK, BufferLivesAsLong, Total
<1>5. ASSUME NEW h \in Humans, Connect(h) PROVE Inv'
  <2>1. /\ UNCHANGED <<worldstates, flight>> /\ deaf' \subseteq up' /\ up' \subseteq Humans
        /\ owner' = owner /\ position' = position /\ messages' = messages
    BY <1>2, <1>5 DEF Connect
  <2> QED BY <1>2, <1>4, <2>1
<1>6. ASSUME NEW h \in Humans, PeerLost(h) PROVE Inv'
  <2>1. /\ UNCHANGED <<worldstates, flight>> /\ deaf' \subseteq up' /\ up' \subseteq Humans
        /\ owner' = owner /\ position' = position /\ messages' = messages
    BY <1>2, <1>6 DEF PeerLost
  <2> QED BY <1>2, <1>4, <2>1
<1>7. ASSUME NEW h \in Humans, clientdisconnect(h) PROVE Inv'
  <2>1. UNCHANGED <<worldstates, flight>> /\ deaf' \subseteq up' /\ up' \subseteq Humans
    BY <1>2, <1>7 DEF clientdisconnect
  <2>2. owner' \in [Bots -> Humans \cup {Nobody}]
    BY <1>2, <1>7 DEF clientdisconnect
  <2>3. position' \in [Cns -> Nat] /\ messages' \in [Cns -> Nat]
    BY <1>2, <1>3, <1>7 DEF clientdisconnect
  <2> QED BY <1>4, <2>1, <2>2, <2>3
<1>8. ASSUME NEW b \in Bots, NEW h \in Humans, shiftai(b, h) PROVE Inv'
  <2>1. /\ UNCHANGED <<worldstates, flight>> /\ deaf' = deaf /\ up' = up
        /\ owner' \in [Bots -> Humans \cup {Nobody}] /\ position' = position /\ messages' = messages
    BY <1>2, <1>8 DEF shiftai
  <2> QED BY <1>2, <1>4, <2>1
<1>9. ASSUME NEW c \in Cns, NEW n \in 1..MaxPosition, N_POS(c, n) PROVE Inv'
  <2>1. /\ UNCHANGED <<worldstates, flight>> /\ deaf' = deaf /\ up' = up
        /\ owner' = owner /\ position' = [position EXCEPT ![c] = n] /\ messages' = messages
    BY <1>9 DEF N_POS
  <2>2. n \in Nat
    BY WorldStateAssumption
  <2>3. position' \in [Cns -> Nat]
    BY <1>2, <2>1, <2>2
  <2> QED BY <1>2, <1>4, <2>1, <2>3
<1>10. ASSUME NEW c \in Cns, NEW n \in 1..MaxMessages, QUEUE_MSG(c, n) PROVE Inv'
  <2>1. /\ UNCHANGED <<worldstates, flight>> /\ deaf' = deaf /\ up' = up
        /\ owner' = owner /\ position' = position /\ messages' = [messages EXCEPT ![c] = @ + n]
    BY <1>10 DEF QUEUE_MSG
  <2>2. n \in Nat /\ messages[c] \in Nat
    BY <1>2, WorldStateAssumption
  <2>3. messages' \in [Cns -> Nat]
    BY <1>2, <2>1, <2>2
  <2> QED BY <1>2, <1>4, <2>1, <2>3
<1>11. ASSUME NEW c \in Cns, flushclientposition(c) PROVE Inv'
  <2>1. /\ UNCHANGED <<worldstates, flight>> /\ deaf' = deaf /\ up' = up
        /\ owner' = owner /\ position' = [position EXCEPT ![c] = 0] /\ messages' = messages
    BY <1>11 DEF flushclientposition
  <2> QED BY <1>2, <1>4, <2>1
<1>12. ASSUME buildworldstate PROVE Inv'
  <2> DEFINE n == [h \in Humans |-> Cardinality({p \in World.sent : p.to = h})]
             m == Cardinality(World.sent)
  <2>1. n \in [Humans -> Nat] /\ m \in Nat /\ m = Total(n)
    BY <1>1, SentByClient
  <2>2. PICK a \in Addrs :
          /\ worldstates' = [worldstates EXCEPT ![a] = m]
          /\ flight' = [flight EXCEPT ![a] = n]
    BY <1>12 DEF buildworldstate
  <2>3. /\ position' = [c \in Cns |-> IF Carrier(c) \in up THEN 0 ELSE position[c]]
        /\ messages' = [c \in Cns |-> IF Carrier(c) \in up THEN 0 ELSE messages[c]]
        /\ UNCHANGED <<up, deaf, owner>>
    BY <1>12 DEF buildworldstate
  <2> HIDE DEF n, m
  <2>4. worldstates' \in [Addrs -> Nat] /\ flight' \in [Addrs -> [Humans -> Nat]]
    BY <1>2, <2>1, <2>2
  <2>5. position' \in [Cns -> Nat] /\ messages' \in [Cns -> Nat]
    BY <1>2, <2>3
  <2>6. TypeOK'
    BY <1>2, <2>3, <2>4, <2>5 DEF TypeOK
  <2>7. ASSUME NEW x \in Addrs PROVE worldstates'[x] = Total(flight'[x])
    <3>1. CASE x = a
      <4>1. worldstates'[x] = m /\ flight'[x] = n
        BY <1>2, <2>2, <3>1
      <4> QED BY <2>1, <4>1
    <3>2. CASE x # a
      <4>1. worldstates'[x] = worldstates[x] /\ flight'[x] = flight[x]
        BY <1>2, <2>2, <3>2
      <4> QED BY <1>1, <4>1 DEF BufferLivesAsLong
    <3> QED BY <3>1, <3>2
  <2> QED BY <2>6, <2>7 DEF BufferLivesAsLong, Total
<1>13. ASSUME NEW a \in Addrs, NEW h \in Humans, cleanworldstate(a, h) PROVE Inv'
  <2> DEFINE less == [flight[a] EXCEPT ![h] = @ - 1]
  <2>1. /\ flight[a][h] > 0 /\ flight' = [flight EXCEPT ![a] = less]
        /\ worldstates' = [worldstates EXCEPT ![a] = IF @ > 0 THEN @ - 1 ELSE 0]
        /\ UNCHANGED <<up, deaf, owner, position, messages>>
    BY <1>2, <1>13 DEF cleanworldstate
  <2>2. flight[a] \in [Humans -> Nat] /\ flight[a][h] \in Nat /\ worldstates[a] = Total(flight[a])
        /\ worldstates[a] \in Nat
    BY <1>1, <1>2 DEF BufferLivesAsLong
  <2>3. Total(flight[a]) > 0 /\ Total(less) = Total(flight[a]) - 1
    BY <2>1, <2>2, FiniteHumans, TotalLess
  <2>4. less \in [Humans -> Nat]
    BY <2>1, <2>2
  <2> HIDE DEF less
  <2>5. worldstates' = [worldstates EXCEPT ![a] = worldstates[a] - 1] /\ worldstates[a] - 1 \in Nat
    BY <1>2, <2>1, <2>2, <2>3
  <2>6. worldstates' \in [Addrs -> Nat] /\ flight' \in [Addrs -> [Humans -> Nat]]
    BY <1>2, <2>1, <2>4, <2>5
  <2>7. TypeOK'
    BY <1>2, <2>1, <2>6 DEF TypeOK
  <2>8. ASSUME NEW x \in Addrs PROVE worldstates'[x] = Total(flight'[x])
    <3>1. CASE x = a
      <4>1. worldstates'[x] = worldstates[a] - 1 /\ flight'[x] = less
        BY <1>2, <2>1, <2>5, <3>1
      <4> QED BY <2>2, <2>3, <4>1
    <3>2. CASE x # a
      <4>1. worldstates'[x] = worldstates[x] /\ flight'[x] = flight[x]
        BY <1>2, <2>1, <2>5, <3>2
      <4> QED BY <1>1, <4>1 DEF BufferLivesAsLong
    <3> QED BY <3>1, <3>2
  <2> QED BY <2>7, <2>8 DEF BufferLivesAsLong, Total
<1>14. CASE UNCHANGED vars
  BY <1>2, <1>4, <1>14 DEF vars
<1> QED BY <1>5, <1>6, <1>7, <1>8, <1>9, <1>10, <1>11, <1>12, <1>13, <1>14 DEF Next

LEMMA Always == Spec => []Inv
BY Initially, Step, PTL DEF Spec

-----------------------------------------------------------------------------
\* Whatever clients, bots and packet sizes there are: the uses of a buffer are
\* never counted below zero, and the other variables have their types.
THEOREM TypeCorrect == Spec => []TypeOK
<1>1. Inv => TypeOK
  BY DEF Inv
<1> QED BY <1>1, Always, PTL

\* A buffer of buildworldstate has exactly as many uses as ENet holds packets of
\* it, so that cleanworldstate frees it with the last one and no earlier.
THEOREM BuffersLive == Spec => []BufferLivesAsLong
<1>1. Inv => BufferLivesAsLong
  BY DEF Inv
<1> QED BY <1>1, Always, PTL

\* Whatever is queued, for any number of clients and bots and any segment length:
\* the world state fits the buffer that is allocated for it, and its packets
\* bring every client with a living peer what everybody else has queued, each
\* unit exactly once and whole, and nothing of its own.
THEOREM EverybodyElseServed == Spec => []EverybodyElse
<1>1. Inv => EverybodyElse
  BY Everyone DEF Inv
<1> QED BY <1>1, Always, PTL

=============================================================================
