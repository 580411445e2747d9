----------------------------- MODULE AuthProofs -----------------------------
(***************************************************************************)
(* Proofs about Auth, for any clients and any number of requests: the      *)
(* types, ListedLive and OutcomeBound.                                     *)
(*                                                                         *)
(* OutcomeBound is not inductive: a request may still be reported by every *)
(* way that is open to it.  Budget counts those (its place in the table    *)
(* requests, one use; a started remote request, its challenge, a send that *)
(* fails and the reply) together with the reports made.  Fresh says what   *)
(* holds of ids that are not used yet, an orphan of a deferred request     *)
(* among them.                                                             *)
(***************************************************************************)
EXTENDS Auth, TLAPS

\* The reports that a pending entry may still cause.
Weight(stage) ==
  IF stage = "started" THEN 3 ELSE IF stage = "challenged" THEN 2 ELSE IF stage \in {"unread", "sendfailed"} THEN 1 ELSE 0
InTable(i) == IF i \in requests THEN 1 ELSE 0

Named ==
  /\ conn = "opening" => deferred \in Cns
  /\ \A i \in Ids :
       /\ i \in requests \/ pending[i].stage # "none" => req[i].cn \in Cns
       /\ pending[i].stage \notin {"none", "unstarted"} => req[i].domain = "remote"

Fresh ==
  \A i \in Ids : i > issued =>
    /\ i \notin timer
    /\ outcomes[i] = 0
    /\ req[i].domain = "none"
    /\ pending[i].stage \in {"none", "unstarted"}
    /\ \A c \in Cns : i \notin clients[c].requests

FailingPending ==
  \A i \in failing : pending[i].stage \in Running \cup {"sendfailed", "unstarted"}

Budget ==
  \A i \in Ids :
    outcomes[i] + InTable(i) + Weight(pending[i].stage) <= IF req[i].domain = "local" THEN 1 ELSE 4

IInv == TypeOK /\ Named /\ Fresh /\ FailingPending /\ Budget /\ ListedLive

-----------------------------------------------------------------------------
Entry == [known: BOOLEAN, requests: SUBSET Ids, authed: SUBSET Domains]
Stage(i) == pending[i].stage

\* What completing requests may do: no request gets into a table, and what is
\* reported is paid for by a way that closes.
Closing ==
  /\ clients' \in [Cns -> Entry]
  /\ requests' \subseteq requests
  /\ \A c \in Cns : clients'[c].requests \subseteq clients[c].requests \cap requests'
  /\ outcomes' \in [Ids -> Nat]
  /\ \A j \in Ids : outcomes'[j] # outcomes[j] => j <= issued
  /\ \A j \in Ids : outcomes'[j] + InTable(j)' + Weight(Stage(j)') <= outcomes[j] + InTable(j) + Weight(Stage(j))

\* What may happen to the entries of pending_requests meanwhile.
Fading ==
  /\ pending' \in [Ids -> [stage: Stages, answered: BOOLEAN]]
  /\ \A j \in Ids : Stage(j)' # "none" => Stage(j) # "none"
  /\ \A j \in Ids : Stage(j)' \notin {"none", "unstarted"} => Stage(j) \notin {"none", "unstarted"}

LEMMA TypeFacts ==
  ASSUME IInv
  PROVE  /\ clients \in [Cns -> Entry]
         /\ requests \subseteq Ids /\ issued \in Nat
         /\ outcomes \in [Ids -> Nat]
         /\ \A j \in Ids : j \in Nat
BY AuthAssumption DEF IInv, TypeOK, Entry, Ids

LEMMA WeightNat == \A s : Weight(s) \in Nat /\ Weight(s) <= 3
BY DEF Weight

LEMMA InTableNat == \A j : InTable(j) \in {0, 1} /\ (InTable(j) = 1 <=> j \in requests)
BY DEF InTable

\* A step that closes and fades keeps the invariant.
LEMMA Settled ==
  ASSUME IInv, Closing, Fading,
         peer' \in [Cns -> Peers],
         req' = req, issued' = issued, timer' \subseteq timer,
         failing' \subseteq Ids, FailingPending',
         conn' \in Conns,
         deferred' \in Cns \cup {NoCn},
         conn' = "opening" => deferred' \in Cns
  PROVE  IInv'
<1>1. TypeOK'
  BY DEF IInv, TypeOK, Closing, Fading, Entry
<1>2. Named'
  <2>1. \A i \in Ids : /\ i \in requests \/ Stage(i) # "none" => req[i].cn \in Cns
                       /\ Stage(i) \notin {"none", "unstarted"} => req[i].domain = "remote"
    BY DEF IInv, Named, Stage
  <2>2. \A i \in Ids : /\ i \in requests' \/ Stage(i)' # "none" => req'[i].cn \in Cns
                       /\ Stage(i)' \notin {"none", "unstarted"} => req'[i].domain = "remote"
    BY <2>1 DEF Closing, Fading
  <2> QED BY <2>2 DEF Named, Stage
<1>3. Fresh'
  <2>1. SUFFICES ASSUME NEW i \in Ids, i > issued
        PROVE  /\ i \notin timer'
               /\ outcomes'[i] = 0
               /\ req'[i].domain = "none"
               /\ pending'[i].stage \in {"none", "unstarted"}
               /\ \A c \in Cns : i \notin clients'[c].requests
    BY DEF Fresh
  <2>2. /\ i \notin timer
        /\ outcomes[i] = 0
        /\ req[i].domain = "none"
        /\ Stage(i) \in {"none", "unstarted"}
        /\ \A c \in Cns : i \notin clients[c].requests
    BY <2>1 DEF IInv, Fresh, Stage
  <2>3. ~(i <= issued)
    BY <2>1, TypeFacts
  <2>4. outcomes'[i] = 0
    BY <2>2, <2>3 DEF Closing
  <2>5. pending'[i].stage \in {"none", "unstarted"}
    BY <2>2 DEF Fading, Stage
  <2> QED BY <2>2, <2>4, <2>5 DEF Closing
<1>4. Budget'
  <2>1. SUFFICES ASSUME NEW i \in Ids
        PROVE  outcomes'[i] + InTable(i)' + Weight(Stage(i)') <= IF req[i].domain = "local" THEN 1 ELSE 4
    BY DEF Budget, Stage
  <2>2. outcomes[i] + InTable(i) + Weight(Stage(i)) <= IF req[i].domain = "local" THEN 1 ELSE 4
    BY DEF IInv, Budget, Stage
  <2>3. outcomes'[i] + InTable(i)' + Weight(Stage(i)') <= outcomes[i] + InTable(i) + Weight(Stage(i))
    BY DEF Closing
  <2>4. /\ outcomes'[i] \in Nat /\ InTable(i)' \in Nat /\ Weight(Stage(i)') \in Nat
        /\ outcomes[i] \in Nat /\ InTable(i) \in Nat /\ Weight(Stage(i)) \in Nat
    BY TypeFacts, WeightNat DEF Closing, InTable
  <2> QED BY <2>2, <2>3, <2>4
<1>5. ListedLive'
  BY DEF IInv, ListedLive, Closing
<1> QED BY <1>1, <1>2, <1>3, <1>4, <1>5 DEF IInv

-----------------------------------------------------------------------------
\* What complete_request does, and what it does not do to other requests.
LEMMA CompleteEffect ==
  ASSUME TypeOK, ListedLive, NEW i \in Ids, NEW success \in BOOLEAN,
         req[i].cn \in Cns, success => req[i].domain \in Domains,
         complete_request(i, success)
  PROVE  /\ peer' \in [Cns -> Peers]
         /\ clients' \in [Cns -> Entry]
         /\ requests' \in {requests, requests \ {i}}
         /\ \A c \in Cns : /\ clients'[c].requests \subseteq clients[c].requests
                           /\ i \notin requests' => i \notin clients'[c].requests
         /\ outcomes' \in [Ids -> Nat]
         /\ \A j \in Ids \ {i} : outcomes'[j] = outcomes[j]
         /\ \/ outcomes'[i] = outcomes[i]
            \/ outcomes'[i] = outcomes[i] + 1 /\ requests' = requests \ {i}
<1> DEFINE c == req[i].cn
           A == Authed(i, success)
<1>t. /\ c \in Cns
      /\ peer \in [Cns -> Peers]
      /\ clients \in [Cns -> Entry]
      /\ outcomes \in [Ids -> Nat]
  BY DEF TypeOK, Entry
<1>a. /\ A \in [Cns -> Entry]
      /\ \A d \in Cns : A[d].requests = clients[d].requests
  <2>1. CASE success /\ clients[c].known
    <3>1. A = [clients EXCEPT ![c].authed = @ \cup {req[i].domain}]
      BY <2>1 DEF Authed
    <3>2. req[i].domain \in Domains
      BY <2>1
    <3> QED BY <3>1, <3>2, <1>t DEF Entry
  <2>2. CASE ~(success /\ clients[c].known)
    <3>1. A = clients
      BY <2>2 DEF Authed
    <3> QED BY <3>1, <1>t
  <2> QED BY <2>1, <2>2
<1>1. CASE Stops(i, success)
  <2>1. clients' = A /\ peer' = peer /\ requests' = requests /\ outcomes' = outcomes
    BY <1>1 DEF complete_request
  <2>2. \A d \in Cns : i \notin requests => i \notin clients[d].requests
    BY DEF ListedLive
  <2> QED BY <2>1, <2>2, <1>a, <1>t
<1>2. CASE ~Stops(i, success)
  <2> DEFINE joined == IF success THEN "playing" ELSE "empty"
             n == IF clients[c].known THEN 1 ELSE 0
  <2>1. /\ peer' = [peer EXCEPT ![c] = IF @ = "playing" THEN @ ELSE joined]
        /\ requests' = requests \ {i}
        /\ clients' = [A EXCEPT ![c].requests = @ \ {i}]
        /\ outcomes' = [outcomes EXCEPT ![i] = @ + n]
    BY <1>2 DEF complete_request
  <2>2. peer' \in [Cns -> Peers]
    <3>1. joined \in Peers
      BY DEF Peers
    <3> QED BY <2>1, <3>1, <1>t
  <2>3. clients' \in [Cns -> Entry]
    BY <2>1, <1>a, <1>t DEF Entry
  <2>4. \A d \in Cns : clients'[d].requests = IF d = c THEN clients[d].requests \ {i} ELSE clients[d].requests
    BY <2>1, <1>a, <1>t DEF Entry
  <2>5. \A d \in Cns : d # c => i \notin clients[d].requests
    BY DEF ListedLive
  <2>6. n \in {0, 1}
    BY <1>t DEF Entry
  <2> HIDE DEF n
  <2>7. /\ outcomes' \in [Ids -> Nat]
        /\ \A j \in Ids \ {i} : outcomes'[j] = outcomes[j]
        /\ outcomes'[i] \in {outcomes[i], outcomes[i] + 1}
    BY <2>1, <2>6, <1>t
  <2>8. \A d \in Cns : /\ clients'[d].requests \subseteq clients[d].requests
                       /\ i \notin clients'[d].requests
    BY <2>4, <2>5
  <2>9. \/ outcomes'[i] = outcomes[i]
        \/ outcomes'[i] = outcomes[i] + 1 /\ requests' = requests \ {i}
    BY <2>7, <2>1
  <2>10. requests' = requests \ {i}
    BY <2>1
  <2> HIDE DEF A, c
  <2> QED BY <2>2, <2>3, <2>7, <2>8, <2>9, <2>10
<1> QED BY <1>1, <1>2

\* The same in the words of Settled: complete_request closes, when the report
\* it makes is paid for by the request's place in the table or by its entry.
LEMMA CompleteCloses ==
  ASSUME IInv, NEW i \in Ids, NEW success \in BOOLEAN,
         req[i].cn \in Cns, success => req[i].domain \in Domains,
         complete_request(i, success), i <= issued,
         \A j \in Ids : Weight(Stage(j)') <= Weight(Stage(j)),
         i \in requests \/ Weight(Stage(i)') < Weight(Stage(i))
  PROVE  Closing /\ peer' \in [Cns -> Peers]
<1>1. TypeOK /\ ListedLive
  BY DEF IInv
<1>2. /\ peer' \in [Cns -> Peers]
      /\ clients' \in [Cns -> Entry]
      /\ requests' \in {requests, requests \ {i}}
      /\ \A c \in Cns : /\ clients'[c].requests \subseteq clients[c].requests
                        /\ i \notin requests' => i \notin clients'[c].requests
      /\ outcomes' \in [Ids -> Nat]
      /\ \A j \in Ids \ {i} : outcomes'[j] = outcomes[j]
      /\ \/ outcomes'[i] = outcomes[i]
         \/ outcomes'[i] = outcomes[i] + 1 /\ requests' = requests \ {i}
  BY <1>1, CompleteEffect
<1>3. \A c \in Cns : clients'[c].requests \subseteq clients[c].requests \cap requests'
  BY <1>1, <1>2 DEF ListedLive
<1>4. ASSUME NEW j \in Ids
      PROVE  outcomes'[j] + InTable(j)' + Weight(Stage(j)') <= outcomes[j] + InTable(j) + Weight(Stage(j))
  <2>1. /\ Weight(Stage(j)') \in Nat /\ Weight(Stage(j)) \in Nat
        /\ outcomes'[j] \in Nat /\ outcomes[j] \in Nat
    BY <1>2, WeightNat, TypeFacts
  <2>2. InTable(j)' \in {0, 1} /\ InTable(j) \in {0, 1} /\ InTable(j)' <= InTable(j)
    BY <1>2 DEF InTable
  <2>3. CASE outcomes'[j] = outcomes[j]
    BY <2>1, <2>2, <2>3
  <2>4. CASE outcomes'[j] # outcomes[j]
    <3>1. j = i /\ outcomes'[j] = outcomes[j] + 1 /\ requests' = requests \ {i}
      BY <2>4, <1>2
    <3>2. InTable(j)' = 0
      BY <3>1 DEF InTable
    <3>3. InTable(j) = 1 \/ Weight(Stage(j)') < Weight(Stage(j))
      BY <3>1 DEF InTable
    <3> QED BY <3>1, <3>2, <3>3, <2>1, <2>2
  <2> QED BY <2>3, <2>4
<1>5. \A j \in Ids : outcomes'[j] # outcomes[j] => j <= issued
  BY <1>2
<1> QED BY <1>2, <1>3, <1>4, <1>5 DEF Closing

\* Nothing is completed: what is listed and reported stays.
LEMMA SameCloses ==
  ASSUME IInv, clients' \in [Cns -> Entry], requests' = requests, outcomes' = outcomes,
         \A c \in Cns : clients'[c].requests \subseteq clients[c].requests,
         \A j \in Ids : Weight(Stage(j)') <= Weight(Stage(j))
  PROVE  Closing
<1>1. \A c \in Cns : clients'[c].requests \subseteq clients[c].requests \cap requests'
  BY DEF IInv, ListedLive
<1>2. ASSUME NEW j \in Ids
      PROVE  outcomes'[j] + InTable(j)' + Weight(Stage(j)') <= outcomes[j] + InTable(j) + Weight(Stage(j))
  <2>1. InTable(j)' = InTable(j) /\ InTable(j) \in Nat
    BY DEF InTable
  <2>2. Weight(Stage(j)') \in Nat /\ Weight(Stage(j)) \in Nat /\ outcomes[j] \in Nat
    BY WeightNat, TypeFacts
  <2> QED BY <2>1, <2>2
<1> QED BY <1>1, <1>2, TypeFacts DEF Closing

\* The entries keep their stage, or one of them completes.
PendingType == [stage: Stages, answered: BOOLEAN]

LEMMA SamePendingFades ==
  ASSUME IInv, pending' = pending
  PROVE  Fading /\ \A j \in Ids : Stage(j)' = Stage(j) /\ Weight(Stage(j)') <= Weight(Stage(j))
<1>1. \A j \in Ids : Stage(j)' = Stage(j)
  BY DEF Stage
<1>2. \A s : Weight(s) <= Weight(s)
  BY WeightNat
<1> QED BY <1>1, <1>2 DEF Fading, IInv, TypeOK

LEMMA FlagFades ==
  ASSUME IInv, NEW i \in Ids, pending' = [pending EXCEPT ![i].answered = TRUE]
  PROVE  Fading /\ \A j \in Ids : Stage(j)' = Stage(j) /\ Weight(Stage(j)') <= Weight(Stage(j))
<1>1. pending \in [Ids -> PendingType]
  BY DEF IInv, TypeOK, PendingType
<1>2. pending' \in [Ids -> PendingType]
  BY <1>1 DEF PendingType
<1>3. \A j \in Ids : Stage(j)' = Stage(j)
  BY <1>1 DEF PendingType, Stage
<1>4. \A s : Weight(s) <= Weight(s)
  BY WeightNat
<1> QED BY <1>2, <1>3, <1>4 DEF Fading, PendingType

LEMMA StageFades ==
  ASSUME IInv, NEW i \in Ids, NEW s \in {"completed", "sendfailed", "challenged"},
         Stage(i) \in Running \cup {"unread", "sendfailed"},
         Stage(i) \notin Running => s = "completed",
         s = "challenged" => Stage(i) = "started",
         pending' = [pending EXCEPT ![i].stage = s]
  PROVE  /\ Fading
         /\ \A j \in Ids : Weight(Stage(j)') <= Weight(Stage(j))
         /\ Weight(Stage(i)') < Weight(Stage(i))
         /\ \A j \in Ids \ {i} : Stage(j)' = Stage(j)
<1>1. pending \in [Ids -> PendingType]
  BY DEF IInv, TypeOK, PendingType
<1>2. /\ pending' \in [Ids -> PendingType]
      /\ Stage(i)' = s
      /\ \A j \in Ids \ {i} : Stage(j)' = Stage(j)
  BY <1>1 DEF PendingType, Stage, Stages
<1>3. Weight(s) < Weight(Stage(i))
  BY DEF Weight, Running
<1>4. \A t : Weight(t) <= Weight(t)
  BY WeightNat
<1>5. \A j \in Ids : Weight(Stage(j)') <= Weight(Stage(j))
  <2> SUFFICES ASSUME NEW j \in Ids PROVE Weight(Stage(j)') <= Weight(Stage(j))
    OBVIOUS
  <2>1. CASE j = i
    BY <2>1, <1>2, <1>3, WeightNat
  <2>2. CASE j # i
    BY <2>2, <1>2, <1>4
  <2> QED BY <2>1, <2>2
<1>6. Stage(i) \notin {"none", "unstarted"}
  BY DEF Running
<1>7. Fading
  BY <1>2, <1>6 DEF Fading, PendingType
<1> QED BY <1>2, <1>3, <1>5, <1>7

\* Unread gives up every entry it meets.
LEMMA UnreadFades ==
  ASSUME IInv, NEW ids \in SUBSET Ids
  PROVE  /\ Unread(ids) \in [Ids -> PendingType]
         /\ \A j \in Ids : LET s == Unread(ids)[j].stage
                           IN  /\ Weight(s) <= Weight(Stage(j))
                               /\ s # "none" => Stage(j) # "none"
                               /\ s \notin {"none", "unstarted"} => Stage(j) \notin {"none", "unstarted"}
                               /\ j \notin ids => s = Stage(j)
<1>1. pending \in [Ids -> PendingType]
  BY DEF IInv, TypeOK, PendingType
<1>2. ASSUME NEW j \in Ids
      PROVE  /\ Unread(ids)[j] \in PendingType
             /\ \/ Unread(ids)[j].stage = Stage(j)
                \/ j \in ids /\ Stage(j) \in Running /\ Unread(ids)[j].stage = "unread"
                \/ j \in ids /\ Stage(j) = "sendfailed" /\ Unread(ids)[j].stage = "completed"
                \/ j \in ids /\ Stage(j) = "unstarted" /\ Unread(ids)[j].stage = "none"
  <2>1. pending[j] \in PendingType
    BY <1>1
  <2>2. CASE j \in ids /\ Stage(j) \in Running
    <3>1. Unread(ids)[j] = [pending[j] EXCEPT !.stage = "unread"]
      BY <2>2 DEF Unread, Stage, Running
    <3> QED BY <2>1, <2>2, <3>1 DEF PendingType, Stages
  <2>3. CASE j \in ids /\ Stage(j) = "sendfailed"
    <3>1. Unread(ids)[j] = [pending[j] EXCEPT !.stage = "completed"]
      BY <2>3 DEF Unread, Stage, Running
    <3> QED BY <2>1, <2>3, <3>1 DEF PendingType, Stages
  <2>4. CASE j \in ids /\ Stage(j) = "unstarted"
    <3>1. Unread(ids)[j] = Pending("none")
      BY <2>4 DEF Unread, Stage, Running
    <3> QED BY <2>4, <3>1 DEF PendingType, Stages, Pending
  <2>5. CASE ~(j \in ids /\ Stage(j) \in Running \cup {"sendfailed", "unstarted"})
    <3>1. Unread(ids)[j] = pending[j]
      BY <2>5 DEF Unread, Stage
    <3> QED BY <2>1, <3>1 DEF Stage
  <2> QED BY <2>2, <2>3, <2>4, <2>5
<1>3. Unread(ids) \in [Ids -> PendingType]
  BY <1>2 DEF Unread
<1>4. ASSUME NEW j \in Ids
      PROVE  LET s == Unread(ids)[j].stage
             IN  /\ Weight(s) <= Weight(Stage(j))
                 /\ s # "none" => Stage(j) # "none"
                 /\ s \notin {"none", "unstarted"} => Stage(j) \notin {"none", "unstarted"}
                 /\ j \notin ids => s = Stage(j)
  BY <1>2, WeightNat DEF Weight, Running
<1> QED BY <1>3, <1>4

-----------------------------------------------------------------------------
(***************************************************************************)
(* New requests                                                            *)
(***************************************************************************)
LEMMA KnownEntries ==
  ASSUME IInv, NEW c \in Cns
  PROVE  /\ Known(c) \in [Cns -> Entry]
         /\ \A d \in Cns : Known(c)[d].requests \subseteq clients[d].requests
<1>1. clients \in [Cns -> Entry]
  BY TypeFacts
<1>2. NewEntry \in Entry /\ NewEntry.requests = {}
  BY DEF NewEntry, NoEntry, Entry
<1>3. Known(c) = [clients EXCEPT ![c] = IF clients[c].known THEN clients[c] ELSE NewEntry]
  BY DEF Known
<1> HIDE DEF NewEntry, Entry
<1> QED BY <1>1, <1>2, <1>3

LEMMA Created ==
  ASSUME IInv, NEW entries \in [Cns -> Entry], NEW c \in Cns, NEW domain \in Domains,
         \A d \in Cns : entries[d].requests \subseteq clients[d].requests,
         issued < MaxRequests, failing = {}, failing' = {},
         create_request(entries, c, domain),
         peer' \in [Cns -> Peers],
         \/ pending' = pending
         \/ domain = "remote" /\ pending' = [pending EXCEPT ![issued + 1] = Pending("started")],
         conn' \in Conns,
         deferred' \in Cns \cup {NoCn},
         conn' = "opening" => deferred' \in Cns
  PROVE  IInv'
<1>a. issued + 1 \in Ids /\ issued \in Nat
  BY TypeFacts, AuthAssumption DEF Ids
<1>b. PICK n \in Ids : n = issued + 1
  BY <1>a
<1>0. n \in Ids /\ issued \in Nat /\ n = issued + 1 /\ n > issued
  BY <1>a, <1>b
<1>f. /\ n \notin timer
      /\ outcomes[n] = 0
      /\ Stage(n) \in {"none", "unstarted"}
      /\ \A d \in Cns : n \notin clients[d].requests
  BY <1>0 DEF IInv, Fresh, Stage
<1>c. /\ issued' = n
      /\ req' = [req EXCEPT ![n] = [cn |-> c, domain |-> domain]]
      /\ requests' = requests \cup {n}
      /\ clients' = [entries EXCEPT ![c].requests = @ \cup {n}]
      /\ timer' = timer \cup {n}
      /\ outcomes' = [outcomes EXCEPT ![n] = 0]
  BY <1>b DEF create_request
<1>t. /\ req \in [Ids -> [cn: Cns \cup {NoCn}, domain: Domains \cup {"none"}]]
      /\ outcomes \in [Ids -> Nat]
      /\ pending \in [Ids -> PendingType]
      /\ clients \in [Cns -> Entry]
      /\ requests \subseteq Ids /\ timer \subseteq Ids
  BY DEF IInv, TypeOK, PendingType, Entry
<1>r. /\ req' \in [Ids -> [cn: Cns \cup {NoCn}, domain: Domains \cup {"none"}]]
      /\ req'[n].cn = c /\ req'[n].domain = domain
      /\ \A j \in Ids \ {n} : req'[j] = req[j]
  BY <1>0, <1>c, <1>t
<1>o. /\ outcomes' \in [Ids -> Nat]
      /\ outcomes'[n] = 0
      /\ \A j \in Ids \ {n} : outcomes'[j] = outcomes[j]
  BY <1>0, <1>c, <1>t
<1>e. /\ clients' \in [Cns -> Entry]
      /\ \A d \in Cns : clients'[d].requests \subseteq clients[d].requests \cup (IF d = c THEN {n} ELSE {})
  <2>1. clients' \in [Cns -> Entry]
    BY <1>0, <1>c DEF Entry
  <2>2. \A d \in Cns : clients'[d].requests = IF d = c THEN entries[d].requests \cup {n} ELSE entries[d].requests
    BY <1>c DEF Entry
  <2> QED BY <2>1, <2>2
<1>p. /\ pending' \in [Ids -> PendingType]
      /\ Stage(n)' \in {"none", "unstarted"} \/ (domain = "remote" /\ Stage(n)' = "started")
      /\ \A j \in Ids \ {n} : Stage(j)' = Stage(j)
  <2>1. CASE pending' = pending
    <3>1. \A j \in Ids : Stage(j)' = Stage(j)
      BY <2>1 DEF Stage
    <3>2. Stage(n)' \in {"none", "unstarted"}
      BY <3>1, <1>0, <1>f
    <3>3. pending' \in [Ids -> PendingType]
      BY <2>1, <1>t
    <3> QED BY <3>1, <3>2, <3>3
  <2>2. CASE domain = "remote" /\ pending' = [pending EXCEPT ![n] = Pending("started")]
    <3> DEFINE P == Pending("started")
    <3>1. P \in PendingType /\ P.stage = "started"
      BY DEF Pending, PendingType, Stages
    <3>2. pending' = [pending EXCEPT ![n] = P]
      BY <2>2
    <3> HIDE DEF P
    <3>3. pending' \in [Ids -> PendingType]
      BY <3>1, <3>2, <1>t, <1>0
    <3>4. pending'[n] = P /\ \A j \in Ids \ {n} : pending'[j] = pending[j]
      BY <3>2, <1>t, <1>0
    <3> QED BY <2>2, <3>1, <3>3, <3>4 DEF Stage
  <2> QED BY <2>1, <2>2, <1>b
<1>1. TypeOK'
  <2>1. issued' \in 0..MaxRequests
    BY <1>0, <1>c, AuthAssumption DEF Ids
  <2>2. requests' \subseteq Ids /\ timer' \subseteq Ids /\ failing' \subseteq Ids
    BY <1>0, <1>c, <1>t
  <2> QED BY <2>1, <2>2, <1>r, <1>o, <1>e, <1>p DEF TypeOK, PendingType, Entry
<1>2. Named'
  <2>1. ASSUME NEW j \in Ids
        PROVE  /\ j \in requests' \/ Stage(j)' # "none" => req'[j].cn \in Cns
               /\ Stage(j)' \notin {"none", "unstarted"} => req'[j].domain = "remote"
    <3>1. CASE j = n
      BY <3>1, <1>r, <1>p
    <3>2. CASE j # n
      <4>1. /\ j \in requests \/ Stage(j) # "none" => req[j].cn \in Cns
            /\ Stage(j) \notin {"none", "unstarted"} => req[j].domain = "remote"
        BY DEF IInv, Named, Stage
      <4> QED BY <3>2, <4>1, <1>c, <1>r, <1>p
    <3> QED BY <3>1, <3>2
  <2> QED BY <2>1 DEF Named, Stage
<1>3. Fresh'
  <2>1. SUFFICES ASSUME NEW j \in Ids, j > n
        PROVE  /\ j \notin timer'
               /\ outcomes'[j] = 0
               /\ req'[j].domain = "none"
               /\ Stage(j)' \in {"none", "unstarted"}
               /\ \A d \in Cns : j \notin clients'[d].requests
    BY <1>c DEF Fresh, Stage
  <2>2. j # n /\ j > issued
    BY <2>1, <1>0 DEF Ids
  <2>3. /\ j \notin timer
        /\ outcomes[j] = 0
        /\ req[j].domain = "none"
        /\ Stage(j) \in {"none", "unstarted"}
        /\ \A d \in Cns : j \notin clients[d].requests
    BY <2>2 DEF IInv, Fresh, Stage
  <2> QED BY <2>2, <2>3, <1>c, <1>r, <1>o, <1>e, <1>p
<1>4. FailingPending'
  BY DEF FailingPending
<1>5. Budget'
  <2>1. SUFFICES ASSUME NEW j \in Ids
        PROVE  outcomes'[j] + InTable(j)' + Weight(Stage(j)') <= IF req'[j].domain = "local" THEN 1 ELSE 4
    BY DEF Budget, Stage
  <2>2. CASE j = n
    <3>1. InTable(j)' = 1
      BY <2>2, <1>c DEF InTable
    <3>2. Weight(Stage(j)') = 0 \/ (domain = "remote" /\ Weight(Stage(j)') = 3)
      BY <2>2, <1>p DEF Weight
    <3> QED BY <2>2, <3>1, <3>2, <1>o, <1>r
  <2>3. CASE j # n
    <3>1. InTable(j)' = InTable(j)
      BY <2>3, <1>c DEF InTable
    <3>2. outcomes[j] + InTable(j) + Weight(Stage(j)) <= IF req[j].domain = "local" THEN 1 ELSE 4
      BY DEF IInv, Budget, Stage
    <3>3. outcomes'[j] = outcomes[j] /\ req'[j] = req[j] /\ Stage(j)' = Stage(j)
      BY <2>3, <1>o, <1>r, <1>p
    <3> QED BY <3>1, <3>2, <3>3
  <2> QED BY <2>2, <2>3
<1>6. ListedLive'
  <2>1. SUFFICES ASSUME NEW d \in Cns, NEW j \in clients'[d].requests
        PROVE  j \in requests' /\ req'[j].cn = d
    BY DEF ListedLive
  <2>2. CASE j = n
    BY <2>2, <1>e, <1>f, <1>c, <1>r
  <2>3. CASE j # n
    <3>1. j \in clients[d].requests
      BY <2>3, <1>e
    <3>2. j \in requests /\ req[j].cn = d
      BY <3>1 DEF IInv, ListedLive
    <3> QED BY <2>3, <3>2, <1>c, <1>r, <1>t
  <2> QED BY <2>2, <2>3
<1> QED BY <1>1, <1>2, <1>3, <1>4, <1>5, <1>6 DEF IInv

\* The deferred request of a client without an entry.
LEMMA Orphaned ==
  ASSUME IInv, NEW n \in Ids, n > issued, deferred \in Cns,
         failing = {}, failing' = {},
         requests' = requests \cup {n},
         req' = [req EXCEPT ![n] = [cn |-> deferred, domain |-> "none"]],
         pending' = [pending EXCEPT ![n] = Pending("unstarted")],
         conn' = "open", deferred' = NoCn,
         UNCHANGED <<clients, issued, timer, outcomes, peer>>
  PROVE  IInv'
<1>f. /\ n \notin timer
      /\ outcomes[n] = 0
      /\ \A d \in Cns : n \notin clients[d].requests
  BY DEF IInv, Fresh
<1>t. /\ req \in [Ids -> [cn: Cns \cup {NoCn}, domain: Domains \cup {"none"}]]
      /\ outcomes \in [Ids -> Nat]
      /\ pending \in [Ids -> PendingType]
      /\ requests \subseteq Ids
  BY DEF IInv, TypeOK, PendingType
<1>r. /\ req' \in [Ids -> [cn: Cns \cup {NoCn}, domain: Domains \cup {"none"}]]
      /\ req'[n].cn = deferred /\ req'[n].domain = "none"
      /\ \A j \in Ids \ {n} : req'[j] = req[j]
  BY <1>t
<1>p. /\ pending' \in [Ids -> PendingType]
      /\ Stage(n)' = "unstarted"
      /\ \A j \in Ids \ {n} : Stage(j)' = Stage(j)
  <2> DEFINE P == Pending("unstarted")
  <2>1. P \in PendingType /\ P.stage = "unstarted"
    BY DEF Pending, PendingType, Stages
  <2>2. pending' = [pending EXCEPT ![n] = P]
    OBVIOUS
  <2> HIDE DEF P
  <2>3. pending' \in [Ids -> PendingType]
    BY <2>1, <2>2, <1>t
  <2>4. pending'[n] = P /\ \A j \in Ids \ {n} : pending'[j] = pending[j]
    BY <2>2, <1>t
  <2> QED BY <2>1, <2>3, <2>4 DEF Stage
<1>1. TypeOK'
  <2>1. requests' \subseteq Ids
    BY <1>t
  <2> QED BY <2>1, <1>r, <1>p DEF IInv, TypeOK, PendingType, Conns
<1>2. Named'
  <2>1. ASSUME NEW j \in Ids
        PROVE  /\ j \in requests' \/ Stage(j)' # "none" => req'[j].cn \in Cns
               /\ Stage(j)' \notin {"none", "unstarted"} => req'[j].domain = "remote"
    <3>1. CASE j = n
      BY <3>1, <1>r, <1>p
    <3>2. CASE j # n
      <4>1. /\ j \in requests \/ Stage(j) # "none" => req[j].cn \in Cns
            /\ Stage(j) \notin {"none", "unstarted"} => req[j].domain = "remote"
        BY DEF IInv, Named, Stage
      <4> QED BY <3>2, <4>1, <1>r, <1>p
    <3> QED BY <3>1, <3>2
  <2> QED BY <2>1 DEF Named, Stage
<1>3. Fresh'
  <2>1. SUFFICES ASSUME NEW j \in Ids, j > issued
        PROVE  /\ j \notin timer
               /\ outcomes[j] = 0
               /\ req'[j].domain = "none"
               /\ Stage(j)' \in {"none", "unstarted"}
               /\ \A d \in Cns : j \notin clients[d].requests
    BY DEF Fresh, Stage
  <2>2. /\ j \notin timer
        /\ outcomes[j] = 0
        /\ req[j].domain = "none"
        /\ Stage(j) \in {"none", "unstarted"}
        /\ \A d \in Cns : j \notin clients[d].requests
    BY <2>1 DEF IInv, Fresh, Stage
  <2> QED BY <2>2, <1>r, <1>p
<1>4. FailingPending'
  BY DEF FailingPending
<1>5. Budget'
  <2>1. SUFFICES ASSUME NEW j \in Ids
        PROVE  outcomes[j] + InTable(j)' + Weight(Stage(j)') <= IF req'[j].domain = "local" THEN 1 ELSE 4
    BY DEF Budget, Stage
  <2>2. CASE j = n
    <3>1. InTable(j)' = 1
      BY <2>2 DEF InTable
    <3>2. Weight(Stage(j)') = 0
      BY <2>2, <1>p DEF Weight
    <3> QED BY <2>2, <3>1, <3>2, <1>f, <1>r
  <2>3. CASE j # n
    <3>1. InTable(j)' = InTable(j)
      BY <2>3 DEF InTable
    <3>2. outcomes[j] + InTable(j) + Weight(Stage(j)) <= IF req[j].domain = "local" THEN 1 ELSE 4
      BY DEF IInv, Budget, Stage
    <3>3. req'[j] = req[j] /\ Stage(j)' = Stage(j)
      BY <2>3, <1>r, <1>p
    <3> QED BY <3>1, <3>2, <3>3
  <2> QED BY <2>2, <2>3
<1>6. ListedLive'
  <2>1. SUFFICES ASSUME NEW d \in Cns, NEW j \in clients[d].requests
        PROVE  j \in requests' /\ req'[j].cn = d
    BY DEF ListedLive
  <2>2. j \in requests /\ req[j].cn = d
    BY DEF IInv, ListedLive
  <2> QED BY <2>2, <1>f, <1>r, <1>t
<1> QED BY <1>1, <1>2, <1>3, <1>4, <1>5, <1>6 DEF IInv

\* A step that leaves the requests alone, but for forgotten entries.
LEMMA Untouched ==
  ASSUME IInv, Fading, clients' \in [Cns -> Entry],
         \A c \in Cns : clients'[c].requests \subseteq clients[c].requests,
         \A j \in Ids : Weight(Stage(j)') <= Weight(Stage(j)),
         requests' = requests, outcomes' = outcomes, req' = req, issued' = issued,
         timer' \subseteq timer,
         peer' \in [Cns -> Peers],
         failing' \subseteq Ids, FailingPending',
         conn' \in Conns,
         deferred' \in Cns \cup {NoCn},
         conn' = "opening" => deferred' \in Cns
  PROVE  IInv'
BY SameCloses, Settled

\* start_auth_challenge keeps the invariant.
LEMMA Challenged ==
  ASSUME IInv, NEW c \in Cns, NEW domain \in Domains,
         issued < MaxRequests, failing = {}, failing' = failing,
         peer' \in [Cns -> Peers],
         start_auth_challenge(Known(c), c, domain)
  PROVE  IInv'
<1> DEFINE E == Known(c)
<1>1. E \in [Cns -> Entry] /\ \A d \in Cns : E[d].requests \subseteq clients[d].requests
  BY KnownEntries
<1>t. /\ conn \in Conns
      /\ deferred \in Cns \cup {NoCn}
      /\ conn = "opening" => deferred \in Cns
  BY DEF IInv, TypeOK, Named
<1>f. failing' \subseteq Ids /\ FailingPending'
  BY DEF FailingPending
<1> HIDE DEF E
<1>2. ASSUME NoneMade(E), pending' = pending,
             conn' \in Conns,
             deferred' \in Cns \cup {NoCn}, conn' = "opening" => deferred' \in Cns
      PROVE  IInv'
  <2>1. /\ clients' = E /\ requests' = requests /\ outcomes' = outcomes
        /\ req' = req /\ issued' = issued /\ timer' = timer
    BY <1>2 DEF NoneMade
  <2>2. Fading /\ \A j \in Ids : Weight(Stage(j)') <= Weight(Stage(j))
    BY <1>2, SamePendingFades
  <2> QED BY <2>1, <2>2, <1>1, <1>2, <1>f, Untouched
<1>3. ASSUME NEW d \in Domains, create_request(E, c, d), UNCHANGED <<conn, deferred>>,
             \/ pending' = pending
             \/ d = "remote" /\ pending' = [pending EXCEPT ![issued + 1] = Pending("started")]
      PROVE  IInv'
  BY <1>1, <1>3, <1>t, Created
<1>4. \/ NoneMade(E) /\ SamePending
      \/ create_request(E, c, "local") /\ SamePending
      \/ conn' = "opening" /\ deferred' = c /\ NoneMade(E) /\ UNCHANGED pending
      \/ send_request(E, c)
  BY DEF start_auth_challenge, E
<1>5. CASE NoneMade(E) /\ SamePending
  BY <1>5, <1>2, <1>t DEF SamePending
<1>6. CASE create_request(E, c, "local") /\ SamePending
  BY <1>6, <1>3 DEF SamePending, Domains
<1>7. CASE conn' = "opening" /\ deferred' = c /\ NoneMade(E) /\ UNCHANGED pending
  BY <1>7, <1>2 DEF Conns
<1>8. CASE send_request(E, c)
  <2>1. CASE NoneMade(E) /\ SamePending
    BY <2>1, <1>5
  <2>2. CASE /\ create_request(E, c, "remote")
             /\ pending' = [pending EXCEPT ![issued + 1] = Pending("started")]
             /\ UNCHANGED <<conn, deferred>>
    BY <2>2, <1>3 DEF Domains
  <2> QED BY <1>8, <2>1, <2>2 DEF send_request
<1> QED BY <1>4, <1>5, <1>6, <1>7, <1>8

-----------------------------------------------------------------------------
(***************************************************************************)
(* The actions                                                             *)
(***************************************************************************)
LEMMA InitIInv == Init => IInv
<1> SUFFICES ASSUME Init PROVE IInv
  OBVIOUS
<1>1. Pending("none") \in PendingType /\ Pending("none").stage = "none"
  BY DEF Pending, PendingType, Stages
<1>2. NoEntry \in Entry /\ NoEntry.requests = {}
  BY DEF NoEntry, Entry
<1>3. NoRequest \in [cn: Cns \cup {NoCn}, domain: Domains \cup {"none"}] /\ NoRequest.domain = "none"
  BY DEF NoRequest
<1>4. /\ peer = [c \in Cns |-> "empty"]
      /\ clients = [c \in Cns |-> NoEntry]
      /\ requests = {} /\ timer = {} /\ failing = {} /\ issued = 0
      /\ req = [i \in Ids |-> NoRequest]
      /\ pending = [i \in Ids |-> Pending("none")]
      /\ conn = "none" /\ deferred = NoCn
      /\ outcomes = [i \in Ids |-> 0]
  BY DEF Init
<1> HIDE DEF Pending, NoEntry, NoRequest
<1>5. TypeOK
  <2>1. 0 \in 0..MaxRequests
    BY AuthAssumption
  <2>2. /\ clients \in [Cns -> Entry] /\ pending \in [Ids -> PendingType]
        /\ req \in [Ids -> [cn: Cns \cup {NoCn}, domain: Domains \cup {"none"}]]
        /\ outcomes \in [Ids -> Nat]
    BY <1>1, <1>2, <1>3, <1>4
  <2> QED BY <2>1, <2>2, <1>4 DEF TypeOK, Entry, PendingType, Peers, Conns
<1>6. Named /\ FailingPending /\ ListedLive /\ Fresh
  BY <1>1, <1>2, <1>3, <1>4 DEF Named, FailingPending, ListedLive, Fresh
<1>7. Budget
  BY <1>1, <1>4 DEF Budget, InTable, Weight
<1> QED BY <1>5, <1>6, <1>7 DEF IInv

LEMMA HandlerCloses ==
  ASSUME IInv, NEW i \in Ids, HandlerFails(i), req[i].cn \in Cns, i <= issued,
         \A j \in Ids : Weight(Stage(j)') <= Weight(Stage(j)),
         Weight(Stage(i)') < Weight(Stage(i))
  PROVE  /\ Closing /\ peer' \in [Cns -> Peers]
         /\ conn' \in {conn, "none"}
<1>1. CASE UNCHANGED <<peer, clients, requests, outcomes, conn>>
  <2>1. Closing
    BY <1>1, SameCloses, TypeFacts
  <2> QED BY <1>1, <2>1 DEF IInv, TypeOK
<1>2. CASE complete_request(i, FALSE) /\ conn' \in {conn, "none"}
  BY <1>2, CompleteCloses
<1>3. \/ UNCHANGED <<peer, clients, requests, outcomes, conn>>
      \/ complete_request(i, FALSE) /\ conn' \in {conn, "none"}
  BY DEF HandlerFails
<1> QED BY <1>1, <1>2, <1>3

LEMMA PendingNamed ==
  ASSUME IInv, NEW i \in Ids, Stage(i) \notin {"none", "unstarted"}
  PROVE  req[i].cn \in Cns /\ req[i].domain = "remote" /\ i <= issued
<1>1. req[i].cn \in Cns /\ req[i].domain = "remote"
  BY DEF IInv, Named, Stage
<1>2. ~(i > issued)
  BY DEF IInv, Fresh, Stage
<1> QED BY <1>1, <1>2, TypeFacts

\* A reply to a request that runs: its handler completes the request, or sends
\* the challenge on; after an error the connection is not read any more.
LEMMA RepliedSafe ==
  ASSUME IInv, NEW i \in Ids, NEW success \in BOOLEAN, NEW s \in {"completed", "challenged"},
         Stage(i) \in Running, s = "challenged" => Stage(i) = "started",
         pending' = [pending EXCEPT ![i].stage = s],
         HandlerReplied(i, success), failing' = {},
         UNCHANGED <<req, issued, timer, deferred>>
  PROVE  IInv'
<1>t. /\ peer \in [Cns -> Peers] /\ clients \in [Cns -> Entry]
      /\ conn \in Conns /\ deferred \in Cns \cup {NoCn}
      /\ conn = "opening" => deferred \in Cns
  BY DEF IInv, TypeOK, Named, Entry
<1>n. failing' \subseteq Ids /\ FailingPending'
  BY DEF FailingPending
<1>1. /\ Fading /\ \A j \in Ids : Weight(Stage(j)') <= Weight(Stage(j))
      /\ Weight(Stage(i)') < Weight(Stage(i))
  BY StageFades
<1>2. req[i].cn \in Cns /\ i <= issued /\ req[i].domain \in Domains
  BY PendingNamed DEF Domains, Running
<1>3. /\ conn' \in {conn, "dead"}
      /\ complete_request(i, success) \/ UNCHANGED <<peer, clients, requests, outcomes>>
  BY DEF HandlerReplied
<1>4. conn' \in Conns /\ (conn' = "opening" => deferred' \in Cns)
  BY <1>3, <1>t DEF Conns
<1>5. CASE complete_request(i, success)
  <2>1. Closing /\ peer' \in [Cns -> Peers]
    BY <1>1, <1>2, <1>5, CompleteCloses
  <2> QED BY <1>1, <1>4, <2>1, <1>t, <1>n, Settled
<1>6. CASE UNCHANGED <<peer, clients, requests, outcomes>>
  BY <1>1, <1>4, <1>6, <1>t, <1>n, Untouched
<1> QED BY <1>3, <1>5, <1>6

LEMMA NextIInv == IInv /\ [Next]_vars => IInv'
<1> SUFFICES ASSUME IInv, [Next]_vars PROVE IInv'
  OBVIOUS
<1>t. /\ peer \in [Cns -> Peers]
      /\ clients \in [Cns -> Entry]
      /\ timer \subseteq Ids /\ failing \subseteq Ids /\ requests \subseteq Ids
      /\ conn \in Conns
      /\ deferred \in Cns \cup {NoCn}
      /\ conn = "opening" => deferred \in Cns
  BY DEF IInv, TypeOK, Named, Entry
<1>n. failing' = {} => failing' \subseteq Ids /\ FailingPending'
  BY DEF FailingPending
<1>1. ASSUME NEW c \in Cns, Join(c) PROVE IInv'
  <2>1. /\ failing' = {} /\ peer' = [peer EXCEPT ![c] = "playing"] /\ clients' = Known(c)
        /\ UNCHANGED <<requests, req, issued, timer, pending, conn, deferred, outcomes>>
    BY <1>1 DEF Join
  <2>2. Fading /\ \A j \in Ids : Weight(Stage(j)') <= Weight(Stage(j))
    BY <2>1, SamePendingFades
  <2>3. peer' \in [Cns -> Peers]
    BY <2>1, <1>t DEF Peers
  <2> QED BY <2>1, <2>2, <2>3, <1>t, <1>n, KnownEntries, Untouched
<1>2. ASSUME NEW c \in Cns, LeaveWaiting(c) PROVE IInv'
  <2>1. /\ failing' = {} /\ peer' = [peer EXCEPT ![c] = "empty"]
        /\ UNCHANGED <<clients, requests, req, issued, timer, pending, conn, deferred, outcomes>>
    BY <1>2 DEF LeaveWaiting
  <2>2. Fading /\ \A j \in Ids : Weight(Stage(j)') <= Weight(Stage(j))
    BY <2>1, SamePendingFades
  <2>3. peer' \in [Cns -> Peers]
    BY <2>1, <1>t DEF Peers
  <2> QED BY <2>1, <2>2, <2>3, <1>t, <1>n, Untouched
<1>3. ASSUME NEW c \in Cns, Leave(c) PROVE IInv'
  <2> DEFINE K == Run(clients[c].requests)
  <2>1. /\ failing' = {} /\ peer' = [peer EXCEPT ![c] = "empty"]
        /\ clients' = [clients EXCEPT ![c] = NoEntry]
        /\ requests' = requests \ K
        /\ outcomes' = [i \in Ids |-> outcomes[i] + (IF i \in K THEN 1 ELSE 0)]
        /\ UNCHANGED <<req, issued, timer, pending, conn, deferred>>
    BY <1>3 DEF Leave
  <2>2. K \subseteq clients[c].requests
    BY DEF Run
  <2> HIDE DEF K
  <2>3. /\ Fading
        /\ \A j \in Ids : Stage(j)' = Stage(j)
    BY <2>1, SamePendingFades
  <2>4. peer' \in [Cns -> Peers]
    BY <2>1, <1>t DEF Peers
  <2>5. NoEntry \in Entry /\ NoEntry.requests = {}
    BY DEF NoEntry, Entry
  <2>6. clients' \in [Cns -> Entry] /\ \A d \in Cns : clients'[d] = IF d = c THEN NoEntry ELSE clients[d]
    BY <2>1, <2>5, <1>t
  <2>7. \A d \in Cns : \A i \in clients[d].requests : i \in requests /\ req[i].cn = d
    BY DEF IInv, ListedLive
  <2>8. \A d \in Cns : clients'[d].requests \subseteq clients[d].requests \cap requests'
    BY <2>1, <2>2, <2>5, <2>6, <2>7
  <2>9. \A i \in K : i \in Ids /\ i \in requests /\ i <= issued
    <3> SUFFICES ASSUME NEW i \in K PROVE i \in Ids /\ i \in requests /\ i <= issued
      OBVIOUS
    <3>1. i \in requests /\ i \in Ids
      BY <2>2, <2>7, <1>t
    <3>2. ~(i > issued)
      BY <2>2, <3>1 DEF IInv, Fresh
    <3> QED BY <3>1, <3>2, TypeFacts
  <2>10. outcomes' \in [Ids -> Nat] /\ \A i \in Ids : outcomes'[i] # outcomes[i] => i <= issued
    BY <2>1, <2>9, TypeFacts
  <2>11. ASSUME NEW j \in Ids
         PROVE  outcomes'[j] + InTable(j)' + Weight(Stage(j)') <= outcomes[j] + InTable(j) + Weight(Stage(j))
    <3>1. Weight(Stage(j)) \in Nat /\ outcomes[j] \in Nat
      BY WeightNat, TypeFacts
    <3>2. CASE j \in K
      <4>1. InTable(j)' = 0 /\ InTable(j) = 1 /\ outcomes'[j] = outcomes[j] + 1
        BY <3>2, <2>1, <2>9 DEF InTable
      <4> QED BY <3>1, <4>1, <2>3
    <3>3. CASE j \notin K
      <4>1. InTable(j)' = InTable(j) /\ InTable(j) \in Nat /\ outcomes'[j] = outcomes[j]
        BY <3>1, <3>3, <2>1 DEF InTable
      <4> QED BY <3>1, <4>1, <2>3
    <3> QED BY <3>2, <3>3
  <2>12. Closing
    BY <2>1, <2>6, <2>8, <2>10, <2>11 DEF Closing
  <2> QED BY <2>1, <2>3, <2>4, <2>12, <1>t, <1>n, Settled
<1>4. ASSUME NEW c \in Cns, NEW domain \in Domains, AuthTry(c, domain) PROVE IInv'
  BY <1>4, <1>t, Challenged DEF AuthTry
<1>5. ASSUME NEW c \in Cns, NEW domain \in Domains, JoinByAuth(c, domain) PROVE IInv'
  <2>1. peer' \in [Cns -> Peers]
    BY <1>5, <1>t DEF JoinByAuth, Peers
  <2> QED BY <1>5, <2>1, Challenged DEF JoinByAuth
<1>6. ASSUME NEW i \in Ids, NEW success \in BOOLEAN, auth_challenge_response(i, success) PROVE IInv'
  <2>1. /\ failing' = {} /\ i \in requests /\ req[i].cn \in Cns
        /\ UNCHANGED <<req, issued, timer, conn, deferred>>
    BY <1>6 DEF auth_challenge_response, IInv, Named
  <2>2. CASE /\ pending' = [pending EXCEPT ![i].answered = TRUE]
             /\ UNCHANGED <<peer, clients, requests, outcomes>>
    <3>1. Fading /\ \A j \in Ids : Weight(Stage(j)') <= Weight(Stage(j))
      BY <2>2, FlagFades
    <3> QED BY <2>1, <2>2, <3>1, <1>t, <1>n, Untouched
  <2>3. CASE req[i].domain = "local" /\ complete_request(i, success) /\ UNCHANGED pending
    <3>1. Fading /\ \A j \in Ids : Weight(Stage(j)') <= Weight(Stage(j))
      BY <2>3, SamePendingFades
    <3>2. i <= issued
      <4>1. ~(i > issued)
        BY <2>3 DEF IInv, Fresh
      <4> QED BY <4>1, TypeFacts
    <3>3. req[i].domain \in Domains
      BY <2>3 DEF Domains
    <3>4. Closing /\ peer' \in [Cns -> Peers]
      BY <2>1, <2>3, <3>1, <3>2, <3>3, CompleteCloses
    <3> QED BY <2>1, <3>1, <3>4, <1>t, <1>n, Settled
  <2> QED BY <1>6, <2>2, <2>3 DEF auth_challenge_response
<1>7. ASSUME NEW i \in Ids, Timeout(i) PROVE IInv'
  <2>1. /\ failing' = {} /\ i \in timer /\ timer' \subseteq timer
        /\ UNCHANGED <<req, issued, pending, conn, deferred>>
        /\ \/ i \in requests /\ complete_request(i, FALSE)
           \/ UNCHANGED <<peer, clients, requests, outcomes>>
    BY <1>7 DEF Timeout, StillWanted
  <2>2. Fading /\ \A j \in Ids : Weight(Stage(j)') <= Weight(Stage(j))
    BY <2>1, SamePendingFades
  <2>3. CASE i \in requests /\ complete_request(i, FALSE)
    <3>1. req[i].cn \in Cns
      BY <2>3 DEF IInv, Named
    <3>2. i <= issued
      <4>1. ~(i > issued)
        BY <2>1 DEF IInv, Fresh
      <4> QED BY <4>1, TypeFacts
    <3>3. Closing /\ peer' \in [Cns -> Peers]
      BY <2>2, <2>3, <3>1, <3>2, CompleteCloses
    <3> QED BY <2>1, <2>2, <3>3, <1>t, <1>n, Settled
  <2>4. CASE UNCHANGED <<peer, clients, requests, outcomes>>
    BY <2>1, <2>2, <2>4, <1>t, <1>n, Untouched
  <2> QED BY <2>1, <2>3, <2>4
<1>8. ASSUME NEW i \in Ids, Collect(i) PROVE IInv'
  <2>1. /\ failing' = {} /\ timer' \subseteq timer
        /\ UNCHANGED <<peer, clients, requests, req, issued, pending, conn, deferred, outcomes>>
    BY <1>8 DEF Collect
  <2>2. Fading /\ \A j \in Ids : Weight(Stage(j)') <= Weight(Stage(j))
    BY <2>1, SamePendingFades
  <2> QED BY <2>1, <2>2, <1>t, <1>n, Untouched
<1>9. ASSUME NEW i \in Ids, chalauth(i) PROVE IInv'
  <2>1. /\ failing' = {} /\ Stage(i) = "started"
        /\ pending' = [pending EXCEPT ![i].stage = "challenged"]
        /\ HandlerReplied(i, TRUE)
        /\ UNCHANGED <<req, issued, timer, deferred>>
    BY <1>9 DEF chalauth, Stage
  <2> QED BY <2>1, RepliedSafe DEF Running
<1>10. ASSUME NEW i \in Ids, failauth(i) PROVE IInv'
  <2>1. /\ failing' = {} /\ Stage(i) \in Running
        /\ pending' = [pending EXCEPT ![i].stage = "completed"]
        /\ HandlerReplied(i, FALSE)
        /\ UNCHANGED <<req, issued, timer, deferred>>
    BY <1>10 DEF failauth, Stage
  <2> QED BY <2>1, RepliedSafe
<1>11. ASSUME NEW i \in Ids, succauth(i) PROVE IInv'
  <2>1. /\ failing' = {} /\ Stage(i) = "challenged"
        /\ pending' = [pending EXCEPT ![i].stage = "completed"]
        /\ HandlerReplied(i, TRUE)
        /\ UNCHANGED <<req, issued, timer, deferred>>
    BY <1>11 DEF succauth, Stage
  <2> QED BY <2>1, RepliedSafe DEF Running
<1>18. ASSUME NEW i \in Ids, latereply(i) PROVE IInv'
  <2>1. /\ failing' = {}
        /\ UNCHANGED <<peer, clients, requests, req, issued, timer, deferred, outcomes>>
    BY <1>18 DEF latereply
  <2>2. CASE /\ Stage(i) = "sendfailed" /\ UNCHANGED conn
             /\ pending' = [pending EXCEPT ![i].stage = "completed"]
    <3>1. Fading /\ \A j \in Ids : Weight(Stage(j)') <= Weight(Stage(j))
      BY <2>2, StageFades
    <3> QED BY <2>1, <2>2, <3>1, <1>t, <1>n, Untouched
  <2>3. CASE conn' = "dead" /\ UNCHANGED pending
    <3>1. Fading /\ \A j \in Ids : Weight(Stage(j)') <= Weight(Stage(j))
      BY <2>3, SamePendingFades
    <3> QED BY <2>1, <2>3, <3>1, <1>t, <1>n, Untouched DEF Conns
  <2> QED BY <1>18, <2>2, <2>3 DEF latereply, Stage
<1>19. ASSUME NEW c \in Cns, Connect(c) PROVE IInv'
  <2>1. /\ failing' = {} /\ peer' = [peer EXCEPT ![c] = "connecting"]
        /\ UNCHANGED <<clients, requests, req, issued, timer, pending, conn, deferred, outcomes>>
    BY <1>19 DEF Connect
  <2>2. Fading /\ \A j \in Ids : Weight(Stage(j)') <= Weight(Stage(j))
    BY <2>1, SamePendingFades
  <2>3. peer' \in [Cns -> Peers]
    BY <2>1, <1>t DEF Peers
  <2> QED BY <2>1, <2>2, <2>3, <1>t, <1>n, Untouched
<1>12. ASSUME NEW i \in Ids, send_handler(i) PROVE IInv'
  <2>1. PICK s \in {"completed", "sendfailed"} :
          /\ failing' = {} /\ Stage(i) \in Running \cup {"unread"}
          /\ Stage(i) \notin Running => s = "completed"
          /\ pending' = [pending EXCEPT ![i].stage = s]
          /\ HandlerFails(i)
          /\ UNCHANGED <<req, issued, timer, deferred>>
    <3>1. /\ failing' = {} /\ Stage(i) \in Running \cup {"unread"}
          /\ HandlerFails(i)
          /\ UNCHANGED <<req, issued, timer, deferred>>
          /\ pending' = [pending EXCEPT ![i].stage = IF pending[i].stage = "unread" THEN "completed" ELSE "sendfailed"]
      BY <1>12 DEF send_handler, Stage
    <3>2. CASE Stage(i) = "unread"
      BY <3>1, <3>2 DEF Stage
    <3>3. CASE Stage(i) # "unread"
      BY <3>1, <3>3 DEF Stage
    <3> QED BY <3>2, <3>3
  <2>2. /\ Fading /\ \A j \in Ids : Weight(Stage(j)') <= Weight(Stage(j))
        /\ Weight(Stage(i)') < Weight(Stage(i))
    BY <2>1, StageFades
  <2>3. req[i].cn \in Cns /\ i <= issued
    BY <2>1, PendingNamed DEF Running
  <2>4. /\ Closing /\ peer' \in [Cns -> Peers]
        /\ conn' \in {conn, "none"}
    BY <2>1, <2>2, <2>3, HandlerCloses
  <2> QED BY <2>1, <2>2, <2>4, <1>t, <1>n, Settled DEF Conns
<1>13. ASSUME NEW i \in Ids, ProcessFailure(i) PROVE IInv'
  <2>0. i \in failing /\ UNCHANGED <<req, issued, timer, deferred>>
    BY <1>13 DEF ProcessFailure
  <2>f. \A j \in failing : Stage(j) \in Running \cup {"sendfailed", "unstarted"}
    BY DEF IInv, FailingPending, Stage
  <2>1. CASE /\ Stage(i) # "unstarted"
             /\ HandlerFails(i)
             /\ failing' = IF HandlerStops(i) THEN {} ELSE failing \ {i}
             /\ pending' = [Unread(IF HandlerStops(i) THEN failing ELSE {}) EXCEPT ![i].stage = "completed"]
    <3> DEFINE G == IF HandlerStops(i) THEN failing ELSE {}
               U == Unread(G)
    <3>1. G \in SUBSET Ids /\ (G # {} => failing' = {}) /\ failing' \subseteq failing \ {i}
      BY <2>1, <1>t
    <3>2. /\ U \in [Ids -> PendingType]
          /\ \A j \in Ids : /\ Weight(U[j].stage) <= Weight(Stage(j))
                            /\ U[j].stage # "none" => Stage(j) # "none"
                            /\ U[j].stage \notin {"none", "unstarted"} => Stage(j) \notin {"none", "unstarted"}
                            /\ j \notin G => U[j].stage = Stage(j)
      BY <3>1, UnreadFades
    <3>3. pending' = [U EXCEPT ![i].stage = "completed"]
      BY <2>1
    <3> HIDE DEF U, G
    <3>4. /\ pending' \in [Ids -> PendingType] /\ Stage(i)' = "completed"
          /\ \A j \in Ids \ {i} : Stage(j)' = U[j].stage
      <4>1. pending' \in [Ids -> PendingType]
        BY <3>2, <3>3 DEF PendingType, Stages
      <4>2. pending'[i].stage = "completed"
        BY <3>2, <3>3 DEF PendingType
      <4>3. \A j \in Ids \ {i} : pending'[j] = U[j]
        BY <3>2, <3>3
      <4> QED BY <4>1, <4>2, <4>3 DEF Stage
    <3>5. Stage(i) \in Running \cup {"sendfailed"}
      BY <2>0, <2>1, <2>f
    <3>6. Weight(Stage(i)') < Weight(Stage(i))
      BY <3>4, <3>5 DEF Weight, Running
    <3>7. \A j \in Ids : Weight(Stage(j)') <= Weight(Stage(j))
      <4> SUFFICES ASSUME NEW j \in Ids PROVE Weight(Stage(j)') <= Weight(Stage(j))
        OBVIOUS
      <4>1. CASE j = i
        BY <4>1, <3>6, WeightNat
      <4>2. CASE j # i
        BY <4>2, <3>2, <3>4
      <4> QED BY <4>1, <4>2
    <3>8. Fading
      BY <3>2, <3>4, <3>5 DEF Fading, PendingType, Running
    <3>9. req[i].cn \in Cns /\ i <= issued
      BY <3>5, PendingNamed DEF Running
    <3>10. /\ Closing /\ peer' \in [Cns -> Peers]
           /\ conn' \in {conn, "none"}
      BY <2>1, <3>6, <3>7, <3>9, HandlerCloses
    <3>11. failing' \subseteq Ids /\ FailingPending'
      <4>1. \A j \in failing' : Stage(j)' = Stage(j)
        BY <3>1, <3>2, <3>4, <1>t
      <4> QED BY <4>1, <2>f, <3>1, <1>t DEF FailingPending, Stage
    <3> QED BY <2>0, <3>8, <3>10, <3>11, <1>t, Settled DEF Conns
  <2>2. CASE /\ failing' = {} /\ pending' = Unread(failing)
             /\ UNCHANGED <<peer, clients, requests, outcomes, conn>>
    <3>1. /\ pending' \in [Ids -> PendingType]
          /\ \A j \in Ids : /\ Weight(Stage(j)') <= Weight(Stage(j))
                            /\ Stage(j)' # "none" => Stage(j) # "none"
                            /\ Stage(j)' \notin {"none", "unstarted"} => Stage(j) \notin {"none", "unstarted"}
      BY <2>2, <1>t, UnreadFades DEF Stage
    <3>2. Fading
      BY <3>1 DEF Fading, PendingType
    <3> QED BY <2>0, <2>2, <3>1, <3>2, <1>t, <1>n, Untouched
  <2> QED BY <1>13, <2>1, <2>2 DEF ProcessFailure, Stage
<1>14. ASSUME Opened PROVE IInv'
  <2>1. /\ failing = {} /\ failing' = {} /\ peer' = peer /\ issued < MaxRequests
        /\ conn = "opening" /\ conn' = "open" /\ deferred' = NoCn
    BY <1>14 DEF Opened
  <2>2. CASE /\ create_request(clients, deferred, "remote")
             /\ pending' = [pending EXCEPT ![issued + 1] = Pending("started")]
    BY <2>1, <2>2, <1>t, Created DEF Domains, Conns
  <2>3. CASE /\ requests' = requests \cup {issued + 1}
             /\ req' = [req EXCEPT ![issued + 1] = [cn |-> deferred, domain |-> "none"]]
             /\ pending' = [pending EXCEPT ![issued + 1] = Pending("unstarted")]
             /\ UNCHANGED <<clients, issued, timer, outcomes>>
    <3>1. issued + 1 \in Ids /\ issued + 1 > issued
      BY <2>1, TypeFacts, AuthAssumption DEF Ids
    <3>2. PICK n \in Ids : n = issued + 1 /\ n > issued
      BY <3>1
    <3> QED BY <2>1, <2>3, <3>2, <1>t, Orphaned
  <2> QED BY <1>14, <2>2, <2>3 DEF Opened
<1>15. ASSUME NotOpened PROVE IInv'
  <2>1. /\ failing' = {} /\ conn' \in {"none", "dead"} /\ deferred' = NoCn
        /\ pending' = Unread(Ids)
        /\ UNCHANGED <<peer, clients, requests, req, issued, timer, outcomes>>
    BY <1>15 DEF NotOpened
  <2>2. /\ pending' \in [Ids -> PendingType]
        /\ \A j \in Ids : /\ Weight(Stage(j)') <= Weight(Stage(j))
                          /\ Stage(j)' # "none" => Stage(j) # "none"
                          /\ Stage(j)' \notin {"none", "unstarted"} => Stage(j) \notin {"none", "unstarted"}
    BY <2>1, UnreadFades DEF Stage
  <2>3. Fading
    BY <2>2 DEF Fading, PendingType
  <2> QED BY <2>1, <2>2, <2>3, <1>t, <1>n, Untouched DEF Conns
<1>16. ASSUME read_error PROVE IInv'
  <2>1. /\ conn' = "failed"
        /\ failing' = {i \in Ids : pending[i].stage \in Running \cup {"sendfailed", "unstarted"}}
        /\ UNCHANGED <<peer, clients, requests, req, issued, timer, pending, deferred, outcomes>>
    BY <1>16 DEF read_error
  <2>2. Fading /\ \A j \in Ids : Weight(Stage(j)') <= Weight(Stage(j))
    BY <2>1, SamePendingFades
  <2>3. failing' \subseteq Ids /\ FailingPending'
    BY <2>1 DEF FailingPending
  <2> QED BY <2>1, <2>2, <2>3, <1>t, Untouched DEF Conns
<1>17. CASE UNCHANGED vars
  BY <1>17 DEF vars, IInv, TypeOK, Named, Fresh, FailingPending, Budget, ListedLive, InTable
<1> QED
  BY <1>1, <1>2, <1>3, <1>4, <1>5, <1>6, <1>7, <1>8, <1>9, <1>10, <1>11, <1>12, <1>13,
     <1>14, <1>15, <1>16, <1>17, <1>18, <1>19 DEF Next

-----------------------------------------------------------------------------
(***************************************************************************)
(* Theorems                                                                *)
(***************************************************************************)
LEMMA IInvHolds == Spec => []IInv
BY InitIInv, NextIInv, PTL DEF Spec

\* The variables keep their types.
THEOREM TypeCorrect == Spec => []TypeOK
<1>1. IInv => TypeOK
  BY DEF IInv
<1> QED BY <1>1, IInvHolds, PTL

\* What the disconnect handler and complete_request go through in a client's
\* table are requests that still wait for an outcome, and the client's own.
THEOREM ListedAreLive == Spec => []ListedLive
<1>1. IInv => ListedLive
  BY DEF IInv
<1> QED BY <1>1, IInvHolds, PTL

\* However replies, failed sends, the lost connection, timeouts, disconnects
\* and collected timers follow each other, the listeners hear of a local
\* request once and of a remote one at most four times.
THEOREM OutcomesBounded == Spec => []OutcomeBound
<1>1. IInv => OutcomeBound
  <2> SUFFICES ASSUME IInv, NEW i \in Ids
               PROVE  outcomes[i] <= IF req[i].domain = "local" THEN 1 ELSE 4
    BY DEF OutcomeBound
  <2>1. outcomes[i] + InTable(i) + Weight(pending[i].stage) <= IF req[i].domain = "local" THEN 1 ELSE 4
    BY DEF IInv, Budget
  <2>2. outcomes[i] \in Nat /\ InTable(i) \in Nat /\ Weight(pending[i].stage) \in Nat
    BY TypeFacts, WeightNat DEF InTable
  <2> QED BY <2>1, <2>2
<1> QED BY <1>1, IInvHolds, PTL
=============================================================================
