---------------------------- MODULE MasterState ----------------------------
(***************************************************************************)
(* Who rules the server: the privileges of the clients, the mastermode     *)
(* with the addresses private mode lets in, the paused game, and the list  *)
(* of privileges each client was last sent (fpsgame/server.cpp,            *)
(* hopmod/server_functions.cpp), together with the script that decides on  *)
(* /setmaster (script/base/setmaster.lua).                                 *)
(*                                                                         *)
(* Connecting is one step; who gets in with a reserved slot, the server    *)
(* password or by a script (player_join_game) is `vouched' for.            *)
(***************************************************************************)
EXTENDS Integers, FiniteSets

CONSTANTS
  Cns,                \* client numbers
  Ips,                \* addresses of clients
  reset_mm,           \* server variable reset_mastermode
  restrictpausegame,  \* only an admin keeps the game paused
  allow_setmaster,    \* /setmaster 1 without a password is allowed
  master_password,    \* a master password is set
  Mastermask          \* modes a mere master may choose (allow_mastermode_*)

ASSUME MasterAssumption ==
  /\ {reset_mm, restrictpausegame, allow_setmaster, master_password} \subseteq BOOLEAN
  /\ Mastermask \subseteq Nat

VARIABLES
  client,      \* [Cns -> connected, address, privilege ...]
  mastermode,
  allowedips,
  gamepaused,
  pauser,      \* history: "client" or "script" paused the game
  told,        \* told[r][c]: the privilege r was last told that c has
  newcomers    \* the clients whose last list came with the welcome packet

lists == <<told, newcomers>>
vars == <<client, mastermode, allowedips, gamepaused, pauser, told, newcomers>>

PRIV_NONE == 0
PRIV_MASTER == 1
PRIV_AUTH == 2
PRIV_ADMIN == 3
Privileges == PRIV_NONE..PRIV_ADMIN
MM_AUTH == -1
MM_OPEN == 0
MM_PRIVATE == 3

Client == [on: BOOLEAN, ip: Ips, vouched: BOOLEAN, privilege: Privileges,
           hide: BOOLEAN, spy: BOOLEAN]

\* Mutated form of Ranked: a public privilege is shown, whoever gets it.
RankedShow(cl, c, priv, public) ==
  IF cl[c].privilege = priv THEN cl
  ELSE [cl EXCEPT ![c].privilege = priv, ![c].hide = ~public]

\* The clients after set_player_privilege: the privilege of a spy is hidden.
Ranked(cl, c, priv, public) ==
  IF cl[c].privilege = priv THEN cl
  ELSE [cl EXCEPT ![c].privilege = priv, ![c].hide = cl[c].spy \/ ~public]

\* The clients after unset_player_privilege; hide_privilege stays as it was.
Unranked(cl, c) == [cl EXCEPT ![c].privilege = PRIV_NONE]

\* The clients after set_spy(c, val).
Spied(cl, c, val) ==
  IF cl[c].spy = val THEN cl
  ELSE IF val THEN [cl EXCEPT ![c].spy = TRUE, ![c].privilege = PRIV_ADMIN, ![c].hide = TRUE]
  ELSE [cl EXCEPT ![c].spy = FALSE, ![c].hide = FALSE]

\* A list of privileges, as N_CURRENTMASTER carries it: of those that do not
\* hide theirs, or of all.  No entry is PRIV_NONE.
Listed(cl, all) ==
  [c \in Cns |-> IF cl[c].on /\ cl[c].privilege >= PRIV_MASTER /\ (all \/ ~cl[c].hide)
                 THEN cl[c].privilege ELSE PRIV_NONE]

Nobody == [c \in Cns |-> PRIV_NONE]

hasmaster(cl) == \E c \in Cns : cl[c].on /\ cl[c].privilege >= PRIV_MASTER

Init ==
  /\ client \in [Cns -> {[on |-> FALSE, ip |-> ip, vouched |-> FALSE,
                          privilege |-> PRIV_NONE, hide |-> FALSE, spy |-> FALSE] :
                            ip \in Ips}]
  /\ mastermode = MM_OPEN
  /\ allowedips = {}
  /\ gamepaused = FALSE
  /\ pauser = "none"
  /\ told = [r \in Cns |-> Nobody]
  /\ newcomers = {}

-----------------------------------------------------------------------------
(***************************************************************************)
(* What a change of privileges brings with it.  cl are the clients after   *)
(* the change.                                                             *)
(***************************************************************************)
SetPaused(val) ==
  /\ gamepaused' = val
  /\ pauser' = IF val THEN pauser ELSE "none"

\* checkpausegame: is the game, if paused, kept paused?
keptpaused(cl) ==
  \E c \in Cns : cl[c].on /\ cl[c].privilege >= (IF restrictpausegame THEN PRIV_ADMIN
                                                                      ELSE PRIV_MASTER)

\* Mutated form of cleanup_masterstate: the mastermode is reset, but the
\* game stays paused.
cleanup_masterstatePaused(cl, check) ==
  LET reset == reset_mm /\ ~hasmaster(cl)
  IN  /\ mastermode' = IF reset THEN (IF allow_setmaster THEN MM_OPEN ELSE MM_AUTH)
                       ELSE mastermode
      /\ allowedips' = IF reset THEN {} ELSE allowedips
      /\ SetPaused(gamepaused)

\* Mutated form of cleanup_masterstate: the addresses are forgotten, the
\* mastermode is not reset.
cleanup_masterstateMode(cl, check) ==
  LET reset == reset_mm /\ ~hasmaster(cl)
  IN  /\ mastermode' = mastermode
      /\ allowedips' = IF reset THEN {} ELSE allowedips
      /\ SetPaused(gamepaused /\ ~reset)

\* cleanup_masterstate, and checkpausegame where the caller goes on to it.
cleanup_masterstate(cl, check) ==
  LET reset == reset_mm /\ ~hasmaster(cl)
  IN  /\ mastermode' = IF reset THEN (IF allow_setmaster THEN MM_OPEN ELSE MM_AUTH)
                       ELSE mastermode
      /\ allowedips' = IF reset THEN {} ELSE allowedips
      /\ SetPaused(gamepaused /\ ~reset /\ (check /\ reset_mm => keptpaused(cl)))

\* checkpausegame alone, at the end of setmaster and clientdisconnect.
checkpausegame(cl) ==
  /\ SetPaused(gamepaused /\ (reset_mm => keptpaused(cl)))
  /\ UNCHANGED <<mastermode, allowedips>>

\* Everybody connected gets the list of those who do not hide.
send_currentmaster(cl) ==
  /\ told' = [r \in Cns |-> IF cl[r].on THEN Listed(cl, FALSE) ELSE Nobody]
  /\ newcomers' = {}

\* The end of set_player_privilege: nothing is sent when nothing changed.
Announce(c) ==
  IF client'[c].privilege = client[c].privilege THEN UNCHANGED lists
  ELSE send_currentmaster(client')

\* N_CDIS: the clients forget c.
Forget(c) == [r \in Cns |-> [told[r] EXCEPT ![c] = PRIV_NONE]]

\* What set_spy sends: the spy goes from everybody's sight.
SpySent(c, val) ==
  /\ told' = IF val /\ ~client[c].spy THEN Forget(c) ELSE told
  /\ UNCHANGED newcomers

-----------------------------------------------------------------------------
(***************************************************************************)
(* Clients come and go.                                                    *)
(***************************************************************************)
\* allowconnect on the mastermode.
Welcome(ip, vouched) == vouched \/ mastermode < MM_PRIVATE \/ ip \in allowedips

\* allowconnect and connected; the admin password given when connecting makes
\* the client a visible admin (setmaster.lua calls setadmin), with /spy a spy.
\* The newcomer is not in `clients' yet when its own privilege is announced; its
\* welcome packet lists every privilege, hidden or not.
connected(c, ip, vouched, priv, spy) ==
  LET cl == [client EXCEPT ![c] =
               [on |-> TRUE, ip |-> ip, vouched |-> vouched, privilege |-> PRIV_NONE,
                hide |-> FALSE, spy |-> FALSE]]
  IN  /\ ~client[c].on
      /\ Welcome(ip, vouched)
      /\ priv = PRIV_MASTER => master_password
      /\ spy => priv = PRIV_ADMIN
      /\ client' = IF spy THEN Spied(cl, c, TRUE)
                   ELSE IF priv = PRIV_NONE THEN cl ELSE Ranked(cl, c, priv, TRUE)
      /\ LET announced == ~spy /\ priv # PRIV_NONE
         IN  /\ told' = [r \in Cns |->
                           IF r = c THEN Listed(client', TRUE)
                           ELSE IF announced /\ client[r].on THEN Listed(client, FALSE)
                           ELSE told[r]]
             /\ newcomers' = {c} \cup (IF announced THEN {} ELSE newcomers)
      /\ UNCHANGED <<mastermode, allowedips, gamepaused, pauser>>

\* clientdisconnect: a privileged client drops its privilege first; of a spy's
\* leave nobody is told.
clientdisconnect(c) ==
  LET cl == [Unranked(client, c) EXCEPT ![c].on = FALSE, ![c].vouched = FALSE,
                                         ![c].hide = FALSE, ![c].spy = FALSE]
  IN  /\ client[c].on
      /\ client' = cl
      /\ IF client[c].privilege # PRIV_NONE
         THEN cleanup_masterstate(cl, TRUE) /\ send_currentmaster(cl)
         ELSE /\ checkpausegame(cl)
              /\ told' = [(IF client[c].spy THEN told ELSE Forget(c)) EXCEPT ![c] = Nobody]
              /\ newcomers' = newcomers \ {c}

\* enddemoplayback: everybody is welcomed again.
enddemoplayback ==
  /\ told' = [r \in Cns |-> IF client[r].on THEN Listed(client, TRUE) ELSE Nobody]
  /\ newcomers' = {c \in Cns : client[c].on}
  /\ UNCHANGED <<client, mastermode, allowedips, gamepaused, pauser>>

-----------------------------------------------------------------------------
(***************************************************************************)
(* Privileges.                                                             *)
(***************************************************************************)
\* N_SETMASTER for oneself: unsetpriv, and checkpausegame in setmaster.
dropmaster(c) ==
  /\ client[c].on
  /\ client' = Unranked(client, c)
  /\ IF client[c].privilege # PRIV_NONE
     THEN cleanup_masterstate(client', TRUE) /\ send_currentmaster(client')
     ELSE checkpausegame(client') /\ UNCHANGED lists

\* N_SETMASTER without a password: free when nobody is master.
claimmaster(c) ==
  /\ client[c].on
  /\ allow_setmaster
  /\ ~hasmaster(client)
  /\ client' = Ranked(client, c, PRIV_MASTER, TRUE)
  /\ checkpausegame(client')
  /\ Announce(c)

\* N_SETMASTER with the right password: of a master, of an admin, or of a spy.
loginmaster(c, priv, spy) ==
  /\ client[c].on
  /\ priv = PRIV_MASTER => master_password
  /\ spy => priv = PRIV_ADMIN
  /\ client' = IF spy THEN Spied(client, c, TRUE) ELSE Ranked(client, c, priv, TRUE)
  /\ checkpausegame(client')
  /\ IF spy THEN SpySent(c, TRUE) ELSE Announce(c)

\* N_SETMASTER for another: the target has a lower privilege and becomes
\* master; val, whether to give or to take, matters only for a target that
\* has a privilege already.
sharemaster(c, target, val) ==
  /\ client[c].on /\ client[target].on
  /\ c # target
  /\ client[target].privilege < client[c].privilege
  /\ ~(val /\ client[target].privilege # PRIV_NONE)
  /\ client' = Ranked(client, target, PRIV_MASTER, TRUE)
  /\ Announce(target)
  /\ UNCHANGED <<mastermode, allowedips, gamepaused, pauser>>

\* set_player_privilege by scripts: auth modules, player commands; up, down or
\* away, which goes through unset_player_privilege.
set_player_privilege(c, priv, public) ==
  /\ client[c].on
  /\ priv # client[c].privilege
  /\ client' = Ranked(client, c, priv, public)
  /\ Announce(c)
  /\ IF priv = PRIV_NONE THEN cleanup_masterstate(client', FALSE)
     ELSE UNCHANGED <<mastermode, allowedips, gamepaused, pauser>>

\* set_spy by a script.
set_spy(c, val) ==
  /\ client[c].on
  /\ client' = Spied(client, c, val)
  /\ SpySent(c, val)
  /\ UNCHANGED <<mastermode, allowedips, gamepaused, pauser>>

unset_player_privilege(c) ==
  /\ client[c].on
  /\ client[c].privilege # PRIV_NONE
  /\ client' = Unranked(client, c)
  /\ cleanup_masterstate(client', FALSE)
  /\ send_currentmaster(client')

\* unsetmaster: takes the privilege of those who are exactly master.
unsetmaster ==
  /\ client' = [c \in Cns |-> IF client[c].on /\ client[c].privilege = PRIV_MASTER
                              THEN Unranked(client, c)[c] ELSE client[c]]
  /\ cleanup_masterstate(client', FALSE)
  /\ send_currentmaster(client')

-----------------------------------------------------------------------------
(***************************************************************************)
(* The mastermode and the paused game.                                     *)
(***************************************************************************)
\* Mutated form of set_mastermode_cn: those who are here are not let in again.
set_mastermode_cnForget(mm) ==
  /\ mm # mastermode
  /\ mastermode' = mm
  /\ allowedips' = {}
  /\ UNCHANGED <<client, gamepaused, pauser, lists>>

set_mastermode_cn(mm) ==
  /\ mm # mastermode
  /\ mastermode' = mm
  /\ allowedips' = IF mm >= MM_PRIVATE THEN {client[c].ip : c \in {d \in Cns : client[d].on}}
                   ELSE {}
  /\ UNCHANGED <<client, gamepaused, pauser, lists>>

\* The modes a message may ask for.
MsgModes == MM_OPEN..MM_PRIVATE

\* N_MASTERMODE.
mastermodemsg(c, mm) ==
  /\ client[c].on
  /\ client[c].privilege >= PRIV_ADMIN \/ (client[c].privilege # PRIV_NONE /\ mm \in Mastermask)
  /\ set_mastermode_cn(mm)

add_allowed_ip(ip) ==
  /\ allowedips' = allowedips \cup {ip}
  /\ UNCHANGED <<client, mastermode, gamepaused, pauser, lists>>

\* N_PAUSEGAME.
pausegamemsg(c, val) ==
  /\ client[c].on
  /\ client[c].privilege >= PRIV_ADMIN
  /\ gamepaused # val
  /\ gamepaused' = val
  /\ pauser' = IF val THEN "client" ELSE "none"
  /\ UNCHANGED <<client, mastermode, allowedips, lists>>

\* forcepaused by a script; changemap resumes the game as well.
forcepaused(val) ==
  /\ gamepaused # val
  /\ gamepaused' = val
  /\ pauser' = IF val THEN "script" ELSE "none"
  /\ UNCHANGED <<client, mastermode, allowedips, lists>>

ClientStep ==
  \E c \in Cns :
    \/ \E ip \in Ips, vouched, spy \in BOOLEAN, priv \in {PRIV_NONE, PRIV_MASTER, PRIV_ADMIN} :
         connected(c, ip, vouched, priv, spy)
    \/ clientdisconnect(c)
    \/ dropmaster(c) \/ claimmaster(c)
    \/ \E priv \in {PRIV_MASTER, PRIV_ADMIN}, spy \in BOOLEAN : loginmaster(c, priv, spy)
    \/ \E target \in Cns, val \in BOOLEAN : sharemaster(c, target, val)
    \/ \E mm \in MsgModes : mastermodemsg(c, mm)
    \/ \E val \in BOOLEAN : pausegamemsg(c, val)

ScriptStep ==
  \/ \E c \in Cns : \/ \E priv \in Privileges, public \in BOOLEAN :
                         set_player_privilege(c, priv, public)
                    \/ \E val \in BOOLEAN : set_spy(c, val)
                    \/ unset_player_privilege(c)
  \/ unsetmaster
  \/ \E mm \in MM_AUTH..MM_PRIVATE : set_mastermode_cn(mm)
  \/ \E ip \in Ips : add_allowed_ip(ip)
  \/ \E val \in BOOLEAN : forcepaused(val)

Next == ClientStep \/ ScriptStep \/ enddemoplayback

Spec == Init /\ [][Next]_vars

-----------------------------------------------------------------------------
(***************************************************************************)
(* Properties                                                              *)
(***************************************************************************)
\* The type invariant.
TypeOK ==
  /\ client \in [Cns -> Client]
  /\ mastermode \in MM_AUTH..MM_PRIVATE
  /\ allowedips \subseteq Ips
  /\ gamepaused \in BOOLEAN
  /\ pauser \in {"none", "client", "script"}
  /\ told \in [Cns -> [Cns -> Privileges]]
  /\ newcomers \subseteq Cns

\* The last privilege does not go without its traces: in whatever way it goes
\* - the client leaves, drops it, or it is taken - the mastermode is reset,
\* private mode's addresses are forgotten and the game runs.
LastMasterResets ==
  [][reset_mm /\ hasmaster(client) /\ ~hasmaster(client') =>
       /\ mastermode' \in {MM_OPEN, MM_AUTH}
       /\ allowedips' = {}
       /\ ~gamepaused']_vars

\* In private mode the server holds only clients that were there when it
\* began, came from an address that was let in, or were vouched for.
PrivateKeepsOut ==
  mastermode >= MM_PRIVATE =>
    \A c \in Cns : client[c].on => client[c].vouched \/ client[c].ip \in allowedips

\* A game that a client paused does not stay paused on a server without a
\* master: somebody with a privilege is there.
PauseHasMaster == reset_mm /\ gamepaused /\ pauser = "client" => hasmaster(client)

\* What a client was last told of privileges still holds, however they were
\* given, taken and hidden since: whom it sees ranked is there and has that
\* rank.  And no list after the welcome packet shows a spy: only a newcomer,
\* whose packet lists hidden privileges too, knows him, and only until the
\* next list is sent.
ShownIsHeld ==
  \A r, c \in Cns : told[r][c] # PRIV_NONE =>
    /\ client[r].on /\ client[c].on /\ client[c].privilege = told[r][c]
    /\ client[c].spy => r \in newcomers
=============================================================================
