-------------------------------- MODULE Auth --------------------------------
(***************************************************************************)
(* Auth requests of script/base/auth/core.lua and the connection to a      *)
(* remote auth server of script/base/auth/client.lua: a client asks for a  *)
(* challenge, answers it, and the request completes by the answer, a       *)
(* timeout, a failed connection or the client's disconnect.                *)
(*                                                                         *)
(* There is one user, a domain with keys on this server ("local") and one  *)
(* with a server of its own ("remote").  Challenges, keys and listeners    *)
(* are left out: what is kept is which request is in which table and how   *)
(* often its outcome is reported.  A Lua error ends the handler it happens *)
(* in and undoes nothing; the actions say at which line that is.           *)
(***************************************************************************)
EXTENDS Integers

CONSTANTS
  Cns,          \* client numbers
  NoCn,
  MaxRequests   \* bound on the requests

ASSUME AuthAssumption == NoCn \notin Cns /\ MaxRequests \in Nat

Ids == 1..MaxRequests
Domains == {"local", "remote"}

VARIABLES
  peer,        \* [Cns -> "empty", "connecting", "waiting" for its auth to
               \* join, "playing"]
  clients,     \* [Cns -> its entry of the table clients]
  requests,    \* the ids in the table requests
  req,         \* [Ids -> the request object last made with this id]
  issued,      \* next_request_id - 1
  timer,       \* the ids whose timeout is pending
  pending,     \* [Ids -> its entry of pending_requests]
  conn,        \* domain.server.connection of the remote domain
  deferred,    \* the client whose request waits for the connection
  failing,     \* the entries read_error still has to go through
  outcomes     \* history: [Ids -> calls of call_listeners by complete_request]

vars == <<peer, clients, requests, req, issued, timer, pending, conn, deferred, failing, outcomes>>

NoEntry == [known |-> FALSE, requests |-> {}, authed |-> {}]
NewEntry == [NoEntry EXCEPT !.known = TRUE]
NoRequest == [cn |-> NoCn, domain |-> "none"]

Peers == {"empty", "connecting", "waiting", "playing"}

\* A connection is "dead" when it is not read any more, and nobody knows.
Conns == {"none", "opening", "open", "failed", "dead"}

\* An entry of pending_requests, "challenged" when its challenge has come, and
\* whether send_answer has replaced the completion handler.  "unread" entries
\* belong to a connection that was given up, "sendfailed" ones have completed
\* but are still in the table.
Stages == {"none", "unstarted", "started", "challenged", "sendfailed", "unread", "completed"}
Running == {"started", "challenged"}
Pending(stage) == [stage |-> stage, answered |-> FALSE]

Init ==
  /\ peer = [c \in Cns |-> "empty"]
  /\ clients = [c \in Cns |-> NoEntry]
  /\ requests = {}
  /\ req = [i \in Ids |-> NoRequest]
  /\ issued = 0
  /\ timer = {}
  /\ pending = [i \in Ids |-> Pending("none")]
  /\ conn = "none"
  /\ deferred = NoCn
  /\ failing = {}
  /\ outcomes = [i \in Ids |-> 0]

-----------------------------------------------------------------------------
(***************************************************************************)
(* Completion                                                              *)
(***************************************************************************)
\* complete_request stops at clients[request.cn] or player_has_joined_game
\* when the client is gone; and after the tables, when whoever has its number
\* now has no entry.
Stops(i, success) ==
  \/ peer[req[i].cn] = "empty"
  \/ success /\ ~clients[req[i].cn].known
Errs(i, success) == Stops(i, success) \/ ~clients[req[i].cn].known

\* The table clients after authed is set, where the success gets that far.
Authed(i, success) ==
  LET c == req[i].cn
  IN  IF success /\ clients[c].known
      THEN [clients EXCEPT ![c].authed = @ \cup {req[i].domain}] ELSE clients

\* Mutated form of complete_request: a listed request stays in its client's
\* table.
complete_requestListed(i, success) ==
  LET c == req[i].cn
      joined == IF success THEN "playing" ELSE "empty"
  IN  IF Stops(i, success)
      THEN clients' = Authed(i, success) /\ UNCHANGED <<peer, requests, outcomes>>
      ELSE /\ peer' = [peer EXCEPT ![c] = IF @ = "playing" THEN @ ELSE joined]
           /\ requests' = requests \ {i}
           /\ clients' = Authed(i, success)
           /\ outcomes' = [outcomes EXCEPT ![i] = @ + (IF clients[c].known THEN 1 ELSE 0)]

\* complete_request: who has not joined, whether waiting for its auth or still
\* connecting under the number of one who has left, joins or is rejected.
complete_request(i, success) ==
  LET c == req[i].cn
      joined == IF success THEN "playing" ELSE "empty"
  IN  IF Stops(i, success)
      THEN clients' = Authed(i, success) /\ UNCHANGED <<peer, requests, outcomes>>
      ELSE /\ peer' = [peer EXCEPT ![c] = IF @ = "playing" THEN @ ELSE joined]
           /\ requests' = requests \ {i}
           /\ clients' = [Authed(i, success) EXCEPT ![c].requests = @ \ {i}]
           /\ outcomes' = [outcomes EXCEPT ![i] = @ + (IF clients[c].known THEN 1 ELSE 0)]

\* The completion handler of a remote request fails: that of start looks at
\* the connection, which may be gone; that of send_answer does not.
HandlerStops(i) == (~pending[i].answered /\ conn = "none") \/ Errs(i, FALSE)
HandlerFails(i) ==
  IF ~pending[i].answered /\ conn = "none"
  THEN UNCHANGED <<peer, clients, requests, outcomes, conn>>
  ELSE /\ complete_request(i, FALSE)
       /\ conn' = IF ~pending[i].answered /\ conn = "failed" THEN "none" ELSE conn

\* A reply calls the completion handler.  That of start sends the challenge to
\* the client; that of send_answer completes the request, also when it is the
\* challenge that comes.  After an error read_reply does not read on.
HandlerReplied(i, success) ==
  IF success /\ ~pending[i].answered
  THEN /\ UNCHANGED <<peer, clients, requests, outcomes>>
       /\ conn' = IF peer[req[i].cn] = "empty" THEN "dead" ELSE conn
  ELSE /\ complete_request(i, success)
       /\ conn' = IF Errs(i, success) THEN "dead" ELSE conn

-----------------------------------------------------------------------------
(***************************************************************************)
(* Requests                                                                *)
(***************************************************************************)
\* create_request for a client with an entry in entries; the id is new.
create_request(entries, c, domain) ==
  LET i == issued + 1
  IN  /\ issued' = i
      /\ req' = [req EXCEPT ![i] = [cn |-> c, domain |-> domain]]
      /\ requests' = requests \cup {i}
      /\ clients' = [entries EXCEPT ![c].requests = @ \cup {i}]
      /\ timer' = timer \cup {i}
      /\ outcomes' = [outcomes EXCEPT ![i] = 0]

SamePending == UNCHANGED <<pending, conn, deferred>>
NoneMade(entries) ==
  clients' = entries /\ UNCHANGED <<issued, req, requests, timer, outcomes>>

\* internal.send_request on a connection that has not failed: new_request
\* raises "request_id collison" if the id is pending.
send_request(entries, c) ==
  IF pending[issued + 1].stage # "none"
  THEN NoneMade(entries) /\ SamePending
  ELSE /\ create_request(entries, c, "remote")
       /\ pending' = [pending EXCEPT ![issued + 1] = Pending("started")]
       /\ UNCHANGED <<conn, deferred>>

\* start_auth_challenge.  The local directory may not know the user.
start_auth_challenge(entries, c, domain) ==
  \/ /\ domain \in entries[c].authed \/ domain = "local"
     /\ NoneMade(entries) /\ SamePending
  \/ /\ domain = "local" /\ domain \notin entries[c].authed
     /\ create_request(entries, c, "local") /\ SamePending
  \/ /\ domain = "remote" /\ domain \notin entries[c].authed
     /\ \/ /\ conn \in {"none", "failed"}
           /\ conn' = "opening"
           /\ deferred' = c
           /\ NoneMade(entries) /\ UNCHANGED pending
        \/ conn \notin {"none", "failed"} /\ send_request(entries, c)

\* init_client_state.
Known(c) == [clients EXCEPT ![c] = IF @.known THEN @ ELSE NewEntry]

\* N_AUTHTRY or N_AUTHKICK of a player.
AuthTry(c, domain) ==
  /\ failing = {} /\ issued < MaxRequests
  /\ peer[c] = "playing"
  /\ start_auth_challenge(Known(c), c, domain)
  /\ UNCHANGED <<peer, failing>>

\* Somebody connects, and has not sent N_CONNECT yet.
Connect(c) ==
  /\ failing = {}
  /\ peer[c] = "empty"
  /\ peer' = [peer EXCEPT ![c] = "connecting"]
  /\ UNCHANGED <<clients, requests, req, issued, timer, pending, conn, deferred, failing, outcomes>>

\* N_CONNECT that is let in, and the connect event.
Join(c) ==
  /\ failing = {}
  /\ peer[c] = "connecting"
  /\ peer' = [peer EXCEPT ![c] = "playing"]
  /\ clients' = Known(c)
  /\ UNCHANGED <<requests, req, issued, timer, pending, conn, deferred, failing, outcomes>>

\* N_CONNECT that is refused but for its auth.
JoinByAuth(c, domain) ==
  /\ failing = {} /\ issued < MaxRequests
  /\ peer[c] = "connecting"
  /\ peer' = [peer EXCEPT ![c] = "waiting"]
  /\ start_auth_challenge(Known(c), c, domain)
  /\ UNCHANGED failing

\* One who has not joined goes, a waiting client also by sending an answer:
\* the disconnect event is for players only.
LeaveWaiting(c) ==
  /\ failing = {}
  /\ peer[c] \in {"connecting", "waiting"}
  /\ peer' = [peer EXCEPT ![c] = "empty"]
  /\ UNCHANGED <<clients, requests, req, issued, timer, pending, conn, deferred, failing, outcomes>>

\* What ipairs goes through: a run of ids from 1 on.
Run(ids) == {i \in ids : 1..i \subseteq ids}

\* The disconnect handler cancels the requests of the client that ipairs
\* reaches and forgets the client.
Leave(c) ==
  LET cancelled == Run(clients[c].requests)
  IN  /\ failing = {}
      /\ peer[c] = "playing"
      /\ peer' = [peer EXCEPT ![c] = "empty"]
      /\ clients' = [clients EXCEPT ![c] = NoEntry]
      /\ requests' = requests \ cancelled
      /\ outcomes' = [i \in Ids |-> outcomes[i] + (IF i \in cancelled THEN 1 ELSE 0)]
      /\ UNCHANGED <<req, issued, timer, pending, conn, deferred, failing>>

\* N_AUTHANS of a player: a remote request sends the answer on, a local one is
\* decided, one that was never started is left alone.  The request is looked up
\* by its id alone, whoever's it is and whether its challenge has come or not.
auth_challenge_response(i, success) ==
  /\ failing = {}
  /\ \E c \in Cns : peer[c] = "playing"
  /\ i \in requests
  /\ \/ /\ req[i].domain = "remote"
        /\ pending' = [pending EXCEPT ![i].answered = TRUE]
        /\ UNCHANGED <<peer, clients, requests, outcomes>>
     \/ /\ req[i].domain = "local"
        /\ complete_request(i, success)
        /\ UNCHANGED pending
  /\ UNCHANGED <<req, issued, timer, conn, deferred, failing>>

\* Mutated form of StillWanted: the timer completes what was completed.
StillWantedAlways(i) == req[i].cn # NoCn

\* The timer asks whether the request is still in the table.
StillWanted(i) == i \in requests

\* The timeout of create_request.
Timeout(i) ==
  /\ failing = {}
  /\ i \in timer
  /\ timer' = timer \ {i}
  /\ IF StillWanted(i) THEN complete_request(i, FALSE)
     ELSE UNCHANGED <<peer, clients, requests, outcomes>>
  /\ UNCHANGED <<req, issued, pending, conn, deferred, failing>>

\* The handle sleep returns is dropped, and its collection cancels the timer
\* (deadline_timer_ptr_gc of hopmod/scheduler.cpp).
Collect(i) ==
  /\ failing = {}
  /\ i \in timer
  /\ timer' = timer \ {i}
  /\ UNCHANGED <<peer, clients, requests, req, issued, pending, conn, deferred, failing, outcomes>>

-----------------------------------------------------------------------------
(***************************************************************************)
(* The connection to the auth server                                       *)
(***************************************************************************)
\* The connection is there: the deferred request is sent; its id is not in the
\* table, which is as new as the connection.  Without an entry
\* of its client create_request stops after new_request and requests[id],
\* before the id counts as used; the remote request is never started.
Opened ==
  /\ failing = {} /\ issued < MaxRequests
  /\ conn = "opening"
  /\ conn' = "open"
  /\ deferred' = NoCn
  /\ LET i == issued + 1
     IN  \/ /\ clients[deferred].known
            /\ create_request(clients, deferred, "remote")
            /\ pending' = [pending EXCEPT ![i] = Pending("started")]
         \/ /\ ~clients[deferred].known
            /\ requests' = requests \cup {i}
            /\ req' = [req EXCEPT ![i] = [cn |-> deferred, domain |-> "none"]]
            /\ pending' = [pending EXCEPT ![i] = Pending("unstarted")]
            /\ UNCHANGED <<clients, issued, timer, outcomes>>
  /\ UNCHANGED <<peer, failing>>

\* A connection is given up, and its table with it: a send may still fail, an
\* entry that was never started is nothing any more.
Unread(ids) ==
  [i \in Ids |->
     CASE i \in ids /\ pending[i].stage \in Running    -> [pending[i] EXCEPT !.stage = "unread"]
       [] i \in ids /\ pending[i].stage = "sendfailed" -> [pending[i] EXCEPT !.stage = "completed"]
       [] i \in ids /\ pending[i].stage = "unstarted"  -> Pending("none")
       [] OTHER                                        -> pending[i]]

\* There is no connection: call_listeners stops when the client has left, and
\* then the connection is not reset.
NotOpened ==
  /\ failing = {}
  /\ conn = "opening"
  /\ conn' = IF clients[deferred].known THEN "none" ELSE "dead"
  /\ deferred' = NoCn
  /\ pending' = Unread(Ids)
  /\ UNCHANGED <<peer, clients, requests, req, issued, timer, failing, outcomes>>

\* process_reply: chalauth comes first, a second one, succauth before it and
\* failauth fail the request, succauth confirms an answer.
chalauth(i) ==
  /\ failing = {} /\ conn = "open"
  /\ pending[i].stage = "started"
  /\ pending' = [pending EXCEPT ![i].stage = "challenged"]
  /\ HandlerReplied(i, TRUE)
  /\ UNCHANGED <<req, issued, timer, deferred, failing>>

failauth(i) ==
  /\ failing = {} /\ conn = "open"
  /\ pending[i].stage \in Running
  /\ pending' = [pending EXCEPT ![i].stage = "completed"]
  /\ HandlerReplied(i, FALSE)
  /\ UNCHANGED <<req, issued, timer, deferred, failing>>

succauth(i) ==
  /\ failing = {} /\ conn = "open"
  /\ pending[i].stage = "challenged"
  /\ pending' = [pending EXCEPT ![i].stage = "completed"]
  /\ HandlerReplied(i, TRUE)
  /\ UNCHANGED <<req, issued, timer, deferred, failing>>

\* A reply to a completed request takes it from the table; one to an id that is
\* not there, or not started, is an error.
latereply(i) ==
  /\ failing = {} /\ conn = "open"
  /\ \/ /\ pending[i].stage = "sendfailed"
        /\ pending' = [pending EXCEPT ![i].stage = "completed"]
        /\ UNCHANGED conn
     \/ /\ pending[i].stage \in {"none", "unstarted", "unread", "completed"}
        /\ conn' = "dead"
        /\ UNCHANGED pending
  /\ UNCHANGED <<peer, clients, requests, req, issued, timer, deferred, failing, outcomes>>

\* send_handler with an error: the request has completed and stays pending.
send_handler(i) ==
  /\ failing = {}
  /\ pending[i].stage \in Running \cup {"unread"}
  /\ pending' = [pending EXCEPT ![i].stage = IF @ = "unread" THEN "completed" ELSE "sendfailed"]
  /\ HandlerFails(i)
  /\ UNCHANGED <<req, issued, timer, deferred, failing>>

\* read_error: the connection is lost, and process_failure is called for what
\* is pending, in any order, by the steps of ProcessFailure.
read_error ==
  /\ failing = {} /\ conn = "open"
  /\ conn' = "failed"
  /\ failing' = {i \in Ids : pending[i].stage \in Running \cup {"sendfailed", "unstarted"}}
  /\ UNCHANGED <<peer, clients, requests, req, issued, timer, pending, deferred, outcomes>>

\* One iteration of the loop of read_error; an error ends the loop.  A request
\* that was never started has no handler to call.
ProcessFailure(i) ==
  /\ i \in failing
  /\ \/ /\ pending[i].stage # "unstarted"
        /\ HandlerFails(i)
        /\ failing' = IF HandlerStops(i) THEN {} ELSE failing \ {i}
        /\ pending' = [Unread(IF HandlerStops(i) THEN failing ELSE {})
                         EXCEPT ![i].stage = "completed"]
     \/ /\ pending[i].stage = "unstarted"
        /\ failing' = {}
        /\ pending' = Unread(failing)
        /\ UNCHANGED <<peer, clients, requests, outcomes, conn>>
  /\ UNCHANGED <<req, issued, timer, deferred>>

Next ==
  \/ \E c \in Cns :
       \/ Connect(c) \/ Join(c) \/ LeaveWaiting(c) \/ Leave(c)
       \/ \E domain \in Domains : AuthTry(c, domain) \/ JoinByAuth(c, domain)
  \/ \E i \in Ids :
       \/ \E success \in BOOLEAN : auth_challenge_response(i, success)
       \/ Timeout(i) \/ Collect(i)
       \/ chalauth(i) \/ failauth(i) \/ succauth(i) \/ latereply(i) \/ send_handler(i)
       \/ ProcessFailure(i)
  \/ Opened \/ NotOpened \/ read_error

Spec == Init /\ [][Next]_vars

-----------------------------------------------------------------------------
(***************************************************************************)
(* Properties                                                              *)
(***************************************************************************)
\* The type invariant.
TypeOK ==
  /\ peer \in [Cns -> Peers]
  /\ clients \in [Cns -> [known: BOOLEAN, requests: SUBSET Ids, authed: SUBSET Domains]]
  /\ requests \subseteq Ids /\ timer \subseteq Ids /\ failing \subseteq Ids
  /\ req \in [Ids -> [cn: Cns \cup {NoCn}, domain: Domains \cup {"none"}]]
  /\ issued \in 0..MaxRequests
  /\ pending \in [Ids -> [stage: Stages, answered: BOOLEAN]]
  /\ conn \in Conns
  /\ deferred \in Cns \cup {NoCn}
  /\ outcomes \in [Ids -> Nat]

\* The two tables agree as far as a client's own goes: what is listed for a
\* client is a request that waits for its outcome, and is that client's, also
\* when a handler stopped half way, the client number was used again or an id
\* was used twice.
ListedLive ==
  \A c \in Cns : \A i \in clients[c].requests : i \in requests /\ req[i].cn = c

\* A request is not reported again and again: one with a local key has one
\* outcome, a remote one at most one from the tables (timeout or cancelled),
\* one from a challenge that comes after an answer, one from a failed send and
\* one from its reply or the lost connection.
OutcomeBound ==
  \A i \in Ids : outcomes[i] <= IF req[i].domain = "local" THEN 1 ELSE 4

\* What new_request of client.lua asserts ("request_id collison"): the next
\* id is not pending on the connection in use.
NextIdFree ==
  conn \in {"opening", "open"} /\ issued < MaxRequests => pending[issued + 1].stage = "none"
=============================================================================
