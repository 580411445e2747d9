------------------------ MODULE MasterStateProofs ------------------------
(***************************************************************************)
(* For any number of clients and addresses and any server variables: the   *)
(* last privilege does not go without resetting the mastermode and the     *)
(* paused game, private mode lets nobody else in, a client's pause does    *)
(* not outlive the masters, and the ranks clients were told of are held.   *)
(*                                                                         *)
(* The invariants are inductive together with the types and the hidden     *)
(* mark every spy carries.  For the rules a step is one of three kinds,    *)
(* each with a lemma: it ends in cleanup_masterstate, it ends in           *)
(* checkpausegame, or it leaves mastermode and pause alone.  For the lists *)
(* it sends the list, hides a new spy, or changes nobody's rank.           *)
(***************************************************************************)
EXTENDS MasterState, TLAPS

\* The types of the rules: all but the lists sent to clients.
RulesTyped ==
  /\ client \in [Cns -> Client]
  /\ mastermode \in MM_AUTH..MM_PRIVATE
  /\ allowedips \subseteq Ips
  /\ gamepaused \in BOOLEAN
  /\ pauser \in {"none", "client", "script"}

\* A spy's privilege is marked hidden, however it was given.
SpyMarked == \A c \in Cns : client[c].on /\ client[c].spy => client[c].hide

RulesInv == RulesTyped /\ PrivateKeepsOut /\ PauseHasMaster /\ SpyMarked

\* One step of LastMasterResets.
Resets ==
  reset_mm /\ hasmaster(client) /\ ~hasmaster(client') =>
    /\ mastermode' \in {MM_OPEN, MM_AUTH}
    /\ allowedips' = {}
    /\ ~gamepaused'

\* Nobody comes in the step, those who are there are the same, and the spies
\* among them are hidden.
SameGuests(cl) ==
  /\ cl \in [Cns -> Client]
  /\ \A d \in Cns : cl[d].on /\ cl[d].spy => cl[d].hide
  /\ \A d \in Cns : cl[d].on => /\ client[d].on
                                /\ cl[d].ip = client[d].ip
                                /\ cl[d].vouched = client[d].vouched

\* Whoever had a privilege and is there has one after the step.
KeepsRanks(cl) ==
  \A d \in Cns : client[d].on /\ client[d].privilege >= PRIV_MASTER =>
                   cl[d].on /\ cl[d].privilege >= PRIV_MASTER

\* The numbers of the modes and privileges.
LEMMA Numbers ==
  /\ PRIV_NONE = 0 /\ PRIV_MASTER = 1 /\ PRIV_AUTH = 2 /\ PRIV_ADMIN = 3
  /\ MM_AUTH = -1 /\ MM_OPEN = 0 /\ MM_PRIVATE = 3
  /\ Privileges = 0..3
BY DEF PRIV_NONE, PRIV_MASTER, PRIV_AUTH, PRIV_ADMIN, MM_AUTH, MM_OPEN, MM_PRIVATE, Privileges

\* Masters who stay keep the server mastered.
LEMMA RanksKept ==
  ASSUME KeepsRanks(client'), hasmaster(client)
  PROVE  hasmaster(client')
BY DEF KeepsRanks, hasmaster

\* Whoever keeps the game paused is a master.
LEMMA PausersAreMasters ==
  ASSUME NEW cl \in [Cns -> Client], keptpaused(cl)
  PROVE  hasmaster(cl)
<1>1. PICK c \in Cns : cl[c].on /\ cl[c].privilege >= (IF restrictpausegame THEN PRIV_ADMIN
                                                                             ELSE PRIV_MASTER)
  BY DEF keptpaused
<1>2. cl[c].privilege \in 0..3
  BY Numbers DEF Client
<1> QED BY <1>1, <1>2, Numbers DEF hasmaster

\* Private mode keeps its promise while nobody comes and no address is
\* forgotten.
LEMMA GuestsStay ==
  ASSUME PrivateKeepsOut, SameGuests(client'), UNCHANGED mastermode,
         allowedips \subseteq allowedips'
  PROVE  PrivateKeepsOut'
BY DEF PrivateKeepsOut, SameGuests

\* A step that ends in cleanup_masterstate.
LEMMA CleanupStep ==
  ASSUME RulesInv, SameGuests(client'), NEW check \in BOOLEAN, cleanup_masterstate(client', check)
  PROVE  RulesInv' /\ Resets
<1> DEFINE reset == reset_mm /\ ~hasmaster(client')
<1>0. SpyMarked'
  BY DEF SameGuests, SpyMarked
<1>1. CASE reset
  <2>1. /\ mastermode' \in {MM_OPEN, MM_AUTH} /\ allowedips' = {} /\ gamepaused' = FALSE
        /\ pauser' = "none"
    BY <1>1 DEF cleanup_masterstate, SetPaused
  <2>2. RulesTyped'
    <3>1. mastermode' \in MM_AUTH..MM_PRIVATE
      BY <2>1, Numbers
    <3>2. allowedips' \subseteq Ips
      BY <2>1
    <3> QED BY <2>1, <3>1, <3>2 DEF RulesTyped, SameGuests
  <2>3. PrivateKeepsOut'
    BY <2>1, Numbers DEF PrivateKeepsOut
  <2>4. PauseHasMaster'
    BY <2>1 DEF PauseHasMaster
  <2> QED BY <1>0, <2>1, <2>2, <2>3, <2>4 DEF RulesInv, Resets
<1>2. CASE ~reset
  <2>1. UNCHANGED <<mastermode, allowedips>>
    BY <1>2 DEF cleanup_masterstate
  <2>2. gamepaused' \in BOOLEAN /\ pauser' \in {"none", "client", "script"}
    BY DEF cleanup_masterstate, SetPaused, RulesInv, RulesTyped
  <2>3. RulesTyped'
    BY <2>1, <2>2 DEF RulesInv, RulesTyped, SameGuests
  <2>4. PrivateKeepsOut'
    BY <2>1, GuestsStay DEF RulesInv
  <2>5. PauseHasMaster'
    BY <1>2 DEF PauseHasMaster
  <2>6. Resets
    BY <1>2 DEF Resets
  <2> QED BY <1>0, <2>3, <2>4, <2>5, <2>6 DEF RulesInv
<1> QED BY <1>1, <1>2

\* A step that ends in checkpausegame alone takes no privilege.
LEMMA CheckPauseStep ==
  ASSUME RulesInv, SameGuests(client'), KeepsRanks(client'), checkpausegame(client')
  PROVE  RulesInv' /\ Resets
<1>1. /\ UNCHANGED <<mastermode, allowedips>>
      /\ gamepaused' \in BOOLEAN /\ pauser' \in {"none", "client", "script"}
  BY DEF checkpausegame, SetPaused, RulesInv, RulesTyped
<1>2. RulesTyped'
  BY <1>1 DEF RulesInv, RulesTyped, SameGuests
<1>3. PrivateKeepsOut'
  BY <1>1, GuestsStay DEF RulesInv
<1>4. reset_mm /\ gamepaused' => hasmaster(client')
  BY PausersAreMasters DEF checkpausegame, SetPaused, SameGuests
<1>5. PauseHasMaster'
  BY <1>4 DEF PauseHasMaster
<1>6. SpyMarked'
  BY DEF SameGuests, SpyMarked
<1> QED BY <1>2, <1>3, <1>5, <1>6, RanksKept DEF RulesInv, Resets

\* A step that takes no privilege and leaves mastermode and pause alone.
LEMMA QuietStep ==
  ASSUME RulesInv, SameGuests(client'), KeepsRanks(client'),
         UNCHANGED <<mastermode, allowedips, gamepaused, pauser>>
  PROVE  RulesInv' /\ Resets
<1>1. RulesTyped'
  BY DEF RulesInv, RulesTyped, SameGuests
<1>2. PrivateKeepsOut'
  BY GuestsStay DEF RulesInv
<1>3. PauseHasMaster'
  BY RanksKept DEF RulesInv, PauseHasMaster
<1>4. SpyMarked'
  BY DEF SameGuests, SpyMarked
<1> QED BY <1>1, <1>2, <1>3, <1>4, RanksKept DEF RulesInv, Resets

\* Giving a privilege changes no guest, shows no spy and takes no privilege.
LEMMA RankedSound ==
  ASSUME NEW cl \in [Cns -> Client], NEW c \in Cns, NEW priv \in Privileges,
         NEW public \in BOOLEAN
  PROVE  LET r == Ranked(cl, c, priv, public)
         IN  /\ r \in [Cns -> Client]
             /\ \A d \in Cns : /\ r[d].on = cl[d].on /\ r[d].ip = cl[d].ip
                               /\ r[d].vouched = cl[d].vouched
                               /\ (cl[d].spy => cl[d].hide) => (r[d].spy => r[d].hide)
                               /\ cl[d].privilege >= PRIV_MASTER /\ priv # PRIV_NONE
                                    => r[d].privilege >= PRIV_MASTER
<1> DEFINE p == [cl[c] EXCEPT !.privilege = priv, !.hide = cl[c].spy \/ ~public]
           r == Ranked(cl, c, priv, public)
<1>1. cl[c] \in Client /\ (priv # PRIV_NONE => priv >= PRIV_MASTER)
  BY Numbers
<1>2. /\ p.on = cl[c].on /\ p.ip = cl[c].ip /\ p.vouched = cl[c].vouched /\ p.privilege = priv
      /\ p.spy = cl[c].spy /\ p.hide = (cl[c].spy \/ ~public)
  BY <1>1 DEF Client
<1>3. p \in Client
  <2>1. [cl[c] EXCEPT !.privilege = priv] \in Client
    BY <1>1 DEF Client
  <2>2. \A x \in Client : [x EXCEPT !.hide = cl[c].spy \/ ~public] \in Client
    BY <1>1 DEF Client
  <2>3. p = [[cl[c] EXCEPT !.privilege = priv] EXCEPT !.hide = cl[c].spy \/ ~public]
    BY <1>1 DEF Client
  <2> QED BY <2>1, <2>2, <2>3
<1>4. r = cl \/ r = [cl EXCEPT ![c] = p]
  BY <1>1 DEF Ranked
<1>5. p.spy => p.hide
  BY <1>2, Zenon
<1> HIDE DEF p, r
<1>6. r \in [Cns -> Client]
  BY <1>3, <1>4
<1>7. ASSUME NEW d \in Cns
      PROVE  /\ r[d].on = cl[d].on /\ r[d].ip = cl[d].ip /\ r[d].vouched = cl[d].vouched
             /\ (cl[d].spy => cl[d].hide) => (r[d].spy => r[d].hide)
             /\ cl[d].privilege >= PRIV_MASTER /\ priv # PRIV_NONE
                  => r[d].privilege >= PRIV_MASTER
  <2>1. r[d] = cl[d] \/ (d = c /\ r[d] = p)
    BY <1>4
  <2> QED BY <1>1, <1>2, <1>5, <2>1
<1> QED BY <1>6, <1>7 DEF r

\* Taking the privilege of one or of all masters changes no guest.
LEMMA UnrankedSound ==
  ASSUME NEW cl \in [Cns -> Client], NEW c \in Cns
  PROVE  LET u == Unranked(cl, c)
         IN  /\ u \in [Cns -> Client]
             /\ \A d \in Cns : /\ u[d].on = cl[d].on /\ u[d].ip = cl[d].ip
                               /\ u[d].vouched = cl[d].vouched
                               /\ u[d].spy = cl[d].spy /\ u[d].hide = cl[d].hide
             /\ \A d \in Cns \ {c} : u[d] = cl[d]
<1> DEFINE p == [cl[c] EXCEPT !.privilege = PRIV_NONE]
           u == Unranked(cl, c)
<1>1. cl[c] \in Client
  OBVIOUS
<1>2. /\ p.on = cl[c].on /\ p.ip = cl[c].ip /\ p.vouched = cl[c].vouched
      /\ p.spy = cl[c].spy /\ p.hide = cl[c].hide
  BY <1>1 DEF Client
<1>3. p \in Client
  BY <1>1, Numbers DEF Client
<1>4. u = [cl EXCEPT ![c] = p]
  BY <1>1 DEF Unranked
<1> HIDE DEF p, u
<1>5. u \in [Cns -> Client]
  BY <1>3, <1>4
<1>6. ASSUME NEW d \in Cns
      PROVE  /\ u[d].on = cl[d].on /\ u[d].ip = cl[d].ip /\ u[d].vouched = cl[d].vouched
             /\ u[d].spy = cl[d].spy /\ u[d].hide = cl[d].hide
  <2>1. u[d] = IF d = c THEN p ELSE cl[d]
    BY <1>4
  <2> QED BY <1>2, <2>1
<1>7. \A d \in Cns \ {c} : u[d] = cl[d]
  BY <1>4
<1> QED BY <1>5, <1>6, <1>7 DEF u

\* A spy is an admin; leaving spy mode takes no privilege.
LEMMA SpiedSound ==
  ASSUME NEW cl \in [Cns -> Client], NEW c \in Cns, NEW val \in BOOLEAN
  PROVE  LET s == Spied(cl, c, val)
         IN  /\ s \in [Cns -> Client]
             /\ \A d \in Cns : /\ s[d].on = cl[d].on /\ s[d].ip = cl[d].ip
                               /\ s[d].vouched = cl[d].vouched
                               /\ (cl[d].spy => cl[d].hide) => (s[d].spy => s[d].hide)
                               /\ cl[d].privilege >= PRIV_MASTER => s[d].privilege >= PRIV_MASTER
<1> DEFINE a == [cl[c] EXCEPT !.spy = TRUE, !.privilege = PRIV_ADMIN, !.hide = TRUE]
           b == [cl[c] EXCEPT !.spy = FALSE, !.hide = FALSE]
           s == Spied(cl, c, val)
<1>1. cl[c] \in Client
  OBVIOUS
<1>2. /\ a.on = cl[c].on /\ a.ip = cl[c].ip /\ a.vouched = cl[c].vouched
      /\ a.privilege = PRIV_ADMIN /\ a.hide = TRUE
      /\ b.on = cl[c].on /\ b.ip = cl[c].ip /\ b.vouched = cl[c].vouched
      /\ b.privilege = cl[c].privilege /\ b.spy = FALSE
  BY <1>1 DEF Client
<1>3. /\ \A x \in Client : [x EXCEPT !.privilege = PRIV_ADMIN] \in Client
      /\ \A x \in Client, v \in BOOLEAN : [x EXCEPT !.spy = v] \in Client
      /\ \A x \in Client, v \in BOOLEAN : [x EXCEPT !.hide = v] \in Client
  <2>1. \A x \in Client : [x EXCEPT !.privilege = PRIV_ADMIN] \in Client
    BY Numbers DEF Client
  <2>2. \A x \in Client, v \in BOOLEAN : [x EXCEPT !.spy = v] \in Client
    BY DEF Client
  <2>3. \A x \in Client, v \in BOOLEAN : [x EXCEPT !.hide = v] \in Client
    BY DEF Client
  <2> QED BY <2>1, <2>2, <2>3
<1>4. a \in Client
  <2>1. a = [[[cl[c] EXCEPT !.spy = TRUE] EXCEPT !.privilege = PRIV_ADMIN]
               EXCEPT !.hide = TRUE]
    BY <1>1 DEF Client
  <2> QED BY <1>1, <1>3, <2>1
<1>5. b \in Client
  <2>1. b = [[cl[c] EXCEPT !.spy = FALSE] EXCEPT !.hide = FALSE]
    BY <1>1 DEF Client
  <2> QED BY <1>1, <1>3, <2>1
<1>6. s = cl \/ s = [cl EXCEPT ![c] = a] \/ s = [cl EXCEPT ![c] = b]
  BY <1>1 DEF Spied
<1> HIDE DEF a, b, s
<1>7. s \in [Cns -> Client]
  BY <1>4, <1>5, <1>6
<1>8. ASSUME NEW d \in Cns
      PROVE  /\ s[d].on = cl[d].on /\ s[d].ip = cl[d].ip /\ s[d].vouched = cl[d].vouched
             /\ (cl[d].spy => cl[d].hide) => (s[d].spy => s[d].hide)
             /\ cl[d].privilege >= PRIV_MASTER => s[d].privilege >= PRIV_MASTER
  <2>1. s[d] = cl[d] \/ (d = c /\ s[d] = a) \/ (d = c /\ s[d] = b)
    BY <1>6
  <2> QED BY <1>2, <2>1, Numbers
<1> QED BY <1>7, <1>8 DEF s

\* A step that changes only privileges and what is shown of them.
LEMMA GuestsSame ==
  ASSUME SpyMarked, client' \in [Cns -> Client],
         \A d \in Cns : /\ client'[d].on = client[d].on /\ client'[d].ip = client[d].ip
                        /\ client'[d].vouched = client[d].vouched
                        /\ (client[d].spy => client[d].hide) => (client'[d].spy => client'[d].hide)
  PROVE  SameGuests(client')
<1> SUFFICES ASSUME NEW d \in Cns, client'[d].on
             PROVE  /\ client[d].on /\ client'[d].ip = client[d].ip
                    /\ client'[d].vouched = client[d].vouched
                    /\ client'[d].spy => client'[d].hide
  BY DEF SameGuests
<1>1. client[d].on /\ client[d].spy => client[d].hide
  BY DEF SpyMarked
<1>2. client[d].on
  BY Zenon
<1> QED BY <1>1, <1>2

\* The steps that give a privilege leave the guests and the other ranks.
LEMMA GivenRank ==
  ASSUME RulesTyped, SpyMarked, NEW c \in Cns,
         \/ \E priv \in Privileges \ {PRIV_NONE}, public \in BOOLEAN :
              client' = Ranked(client, c, priv, public)
         \/ \E val \in BOOLEAN : client' = Spied(client, c, val)
  PROVE  SameGuests(client') /\ KeepsRanks(client')
<1>0. client \in [Cns -> Client]
  BY DEF RulesTyped
<1>1. CASE \E priv \in Privileges \ {PRIV_NONE}, public \in BOOLEAN :
              client' = Ranked(client, c, priv, public)
  <2>1. PICK priv \in Privileges \ {PRIV_NONE}, public \in BOOLEAN :
               client' = Ranked(client, c, priv, public)
    BY <1>1
  <2>2. /\ client' \in [Cns -> Client]
        /\ \A d \in Cns :
             /\ client'[d].on = client[d].on /\ client'[d].ip = client[d].ip
             /\ client'[d].vouched = client[d].vouched
             /\ (client[d].spy => client[d].hide) => (client'[d].spy => client'[d].hide)
             /\ client[d].privilege >= PRIV_MASTER => client'[d].privilege >= PRIV_MASTER
    BY <1>0, <2>1, RankedSound
  <2>3. SameGuests(client')
    BY <2>2, GuestsSame
  <2> QED BY <2>2, <2>3 DEF KeepsRanks
<1>2. CASE \E val \in BOOLEAN : client' = Spied(client, c, val)
  <2>1. PICK val \in BOOLEAN : client' = Spied(client, c, val)
    BY <1>2
  <2>2. /\ client' \in [Cns -> Client]
        /\ \A d \in Cns :
             /\ client'[d].on = client[d].on /\ client'[d].ip = client[d].ip
             /\ client'[d].vouched = client[d].vouched
             /\ (client[d].spy => client[d].hide) => (client'[d].spy => client'[d].hide)
             /\ client[d].privilege >= PRIV_MASTER => client'[d].privilege >= PRIV_MASTER
    BY <1>0, <2>1, SpiedSound
  <2>3. SameGuests(client')
    BY <2>2, GuestsSame
  <2> QED BY <2>2, <2>3 DEF KeepsRanks
<1> QED BY <1>1, <1>2

\* Taking a privilege leaves the guests.
LEMMA TakenRank ==
  ASSUME RulesTyped, SpyMarked, NEW c \in Cns, client' = Unranked(client, c)
  PROVE  SameGuests(client') /\ \A d \in Cns \ {c} : client'[d] = client[d]
<1>0. client \in [Cns -> Client]
  BY DEF RulesTyped
<1>1. /\ client' \in [Cns -> Client]
      /\ \A d \in Cns :
           /\ client'[d].on = client[d].on /\ client'[d].ip = client[d].ip
           /\ client'[d].vouched = client[d].vouched
           /\ client'[d].spy = client[d].spy /\ client'[d].hide = client[d].hide
      /\ \A d \in Cns \ {c} : client'[d] = client[d]
  BY <1>0, UnrankedSound
<1>2. SameGuests(client')
  BY <1>1, GuestsSame
<1> QED BY <1>1, <1>2

\* A client without a privilege that loses it changes nobody's rank.
LEMMA NothingLost ==
  ASSUME RulesTyped, NEW c \in Cns, client[c].privilege = PRIV_NONE,
         \A d \in Cns \ {c} : client'[d] = client[d]
  PROVE  KeepsRanks(client')
BY Numbers DEF KeepsRanks

\* Who comes has an address that was let in, or is vouched for.
LEMMA ConnectedStep ==
  ASSUME RulesInv, NEW c \in Cns, NEW ip \in Ips, NEW vouched \in BOOLEAN, NEW spy \in BOOLEAN,
         NEW priv \in {PRIV_NONE, PRIV_MASTER, PRIV_ADMIN},
         connected(c, ip, vouched, priv, spy)
  PROVE  RulesInv' /\ Resets
<1> DEFINE new == [on |-> TRUE, ip |-> ip, vouched |-> vouched, privilege |-> PRIV_NONE,
                   hide |-> FALSE, spy |-> FALSE]
           cl == [client EXCEPT ![c] = new]
<1>0. RulesTyped /\ client \in [Cns -> Client]
  BY DEF RulesInv, RulesTyped
<1>1. new \in Client
  BY Numbers DEF Client
<1>2. ~client[c].on /\ Welcome(ip, vouched)
  BY DEF connected
<1>3. UNCHANGED <<mastermode, allowedips, gamepaused, pauser>>
  BY DEF connected
<1>4. \/ client' = cl
      \/ client' = Spied(cl, c, TRUE)
      \/ priv # PRIV_NONE /\ client' = Ranked(cl, c, priv, TRUE)
  BY DEF connected
<1>5. new.on /\ new.ip = ip /\ new.vouched = vouched /\ ~new.spy
  OBVIOUS
<1> HIDE DEF new
<1>6. cl \in [Cns -> Client] /\ cl[c] = new /\ \A d \in Cns \ {c} : cl[d] = client[d]
  BY <1>0, <1>1
<1> HIDE DEF cl
<1>7. /\ client' \in [Cns -> Client]
      /\ \A d \in Cns : /\ client'[d].on = cl[d].on /\ client'[d].ip = cl[d].ip
                        /\ client'[d].vouched = cl[d].vouched
                        /\ (cl[d].spy => cl[d].hide) => (client'[d].spy => client'[d].hide)
                        /\ cl[d].privilege >= PRIV_MASTER => client'[d].privilege >= PRIV_MASTER
  <2>1. CASE client' = cl
    BY <1>6, <2>1
  <2>2. CASE client' = Spied(cl, c, TRUE)
    <3>1. /\ Spied(cl, c, TRUE) \in [Cns -> Client]
          /\ \A d \in Cns :
               LET s == Spied(cl, c, TRUE)
               IN  /\ s[d].on = cl[d].on /\ s[d].ip = cl[d].ip /\ s[d].vouched = cl[d].vouched
                   /\ (cl[d].spy => cl[d].hide) => (s[d].spy => s[d].hide)
                   /\ cl[d].privilege >= PRIV_MASTER => s[d].privilege >= PRIV_MASTER
      BY <1>6, SpiedSound, Zenon
    <3> QED BY ONLY <2>2, <3>1
  <2>3. CASE priv # PRIV_NONE /\ client' = Ranked(cl, c, priv, TRUE)
    <3>1. priv \in Privileges /\ priv # PRIV_NONE
      BY <2>3, Numbers
    <3>2. \E public \in BOOLEAN : client' = Ranked(cl, c, priv, public)
      BY <2>3, <3>1, Zenon
    <3> QED BY <1>6, <3>1, <3>2, RankedSound
  <2> QED BY <1>4, <2>1, <2>2, <2>3
<1>8. KeepsRanks(client')
  <2> SUFFICES ASSUME NEW d \in Cns, client[d].on, client[d].privilege >= PRIV_MASTER
               PROVE  client'[d].on /\ client'[d].privilege >= PRIV_MASTER
    BY DEF KeepsRanks
  <2>1. d # c
    BY <1>2
  <2>2. cl[d] = client[d]
    BY <1>6, <2>1
  <2> QED BY <1>7, <2>2
<1>9. RulesTyped'
  BY <1>0, <1>3, <1>7 DEF RulesTyped
<1>10. PrivateKeepsOut'
  <2> SUFFICES ASSUME mastermode >= MM_PRIVATE, NEW d \in Cns, client'[d].on
               PROVE  client'[d].vouched \/ client'[d].ip \in allowedips
    BY <1>3 DEF PrivateKeepsOut
  <2>1. CASE d = c
    <3>1. vouched \/ ip \in allowedips
      BY <1>0, <1>2, Numbers DEF Welcome, RulesTyped
    <3> QED BY <1>5, <1>6, <1>7, <2>1, <3>1
  <2>2. CASE d # c
    <3>1. cl[d] = client[d]
      BY <1>6, <2>2
    <3>2. client[d].on => client[d].vouched \/ client[d].ip \in allowedips
      BY DEF RulesInv, PrivateKeepsOut
    <3> QED BY <1>7, <3>1, <3>2
  <2> QED BY <2>1, <2>2
<1>11. PauseHasMaster'
  BY <1>3, <1>8, RanksKept DEF RulesInv, PauseHasMaster
<1>12. SpyMarked'
  <2> SUFFICES ASSUME NEW d \in Cns, client'[d].on, client'[d].spy
               PROVE  client'[d].hide
    BY DEF SpyMarked
  <2>1. cl[d].on /\ cl[d].spy => cl[d].hide
    BY <1>5, <1>6 DEF RulesInv, SpyMarked
  <2> QED BY <1>7, <2>1
<1> QED BY <1>8, <1>9, <1>10, <1>11, <1>12, RanksKept DEF RulesInv, Resets

\* Whoever goes had no privilege, or the master state is cleaned up.
LEMMA DisconnectStep ==
  ASSUME RulesInv, NEW c \in Cns, clientdisconnect(c)
  PROVE  RulesInv' /\ Resets
<1> DEFINE u == Unranked(client, c)
           gone == [u[c] EXCEPT !.on = FALSE, !.vouched = FALSE, !.hide = FALSE, !.spy = FALSE]
<1>0. RulesTyped /\ client \in [Cns -> Client]
  BY DEF RulesInv, RulesTyped
<1>1. u \in [Cns -> Client] /\ \A d \in Cns \ {c} : u[d] = client[d]
  BY <1>0, UnrankedSound
<1>2. client' = [u EXCEPT ![c].on = FALSE, ![c].vouched = FALSE, ![c].hide = FALSE, ![c].spy = FALSE]
  BY DEF clientdisconnect
<1>3. /\ client[c].privilege # PRIV_NONE => cleanup_masterstate(client', TRUE)
      /\ client[c].privilege = PRIV_NONE => checkpausegame(client')
  BY DEF clientdisconnect
<1> HIDE DEF u
<1>4. client' = [u EXCEPT ![c] = gone]
  BY <1>1, <1>2
<1>5. gone \in Client /\ gone.on = FALSE
  <2>1. u[c] \in Client
    BY <1>1
  <2>2. [u[c] EXCEPT !.on = FALSE] \in Client
    BY <2>1 DEF Client
  <2>3. \A x \in Client : [x EXCEPT !.vouched = FALSE] \in Client
    BY DEF Client
  <2>4. \A x \in Client : [x EXCEPT !.hide = FALSE] \in Client
    BY DEF Client
  <2>5. \A x \in Client : [x EXCEPT !.spy = FALSE] \in Client
    BY DEF Client
  <2>6. gone = [[[[u[c] EXCEPT !.on = FALSE] EXCEPT !.vouched = FALSE] EXCEPT !.hide = FALSE]
                  EXCEPT !.spy = FALSE]
    BY <2>1 DEF Client
  <2>7. gone \in Client
    BY <2>2, <2>3, <2>4, <2>5, <2>6
  <2> QED BY <2>1, <2>7 DEF Client
<1> HIDE DEF gone
<1>6. /\ client' \in [Cns -> Client] /\ ~client'[c].on
      /\ \A d \in Cns \ {c} : client'[d] = client[d]
  BY <1>1, <1>4, <1>5
<1>7. SameGuests(client')
  <2> SUFFICES ASSUME NEW d \in Cns, client'[d].on
               PROVE  client[d].on /\ client'[d].ip = client[d].ip
                      /\ client'[d].vouched = client[d].vouched
                      /\ (client'[d].spy => client'[d].hide)
    BY <1>6 DEF SameGuests
  <2>1. d # c
    BY <1>6
  <2> QED BY <1>6, <2>1 DEF RulesInv, SpyMarked
<1>8. CASE client[c].privilege # PRIV_NONE
  BY <1>3, <1>7, <1>8, CleanupStep
<1>9. CASE client[c].privilege = PRIV_NONE
  BY <1>0, <1>3, <1>6, <1>7, <1>9, NothingLost, CheckPauseStep
<1> QED BY <1>8, <1>9

\* Entering private mode lets in again everybody who is there.
LEMMA ModeStep ==
  ASSUME RulesInv, NEW mm \in MM_AUTH..MM_PRIVATE, set_mastermode_cn(mm)
  PROVE  RulesInv' /\ Resets
<1>1. UNCHANGED <<client, gamepaused, pauser>> /\ mastermode' = mm
  BY DEF set_mastermode_cn
<1>2. client \in [Cns -> Client]
  BY DEF RulesInv, RulesTyped
<1>3. /\ mm >= MM_PRIVATE => allowedips' = {client[c].ip : c \in {d \in Cns : client[d].on}}
      /\ ~(mm >= MM_PRIVATE) => allowedips' = {}
  BY DEF set_mastermode_cn
<1>4. allowedips' \subseteq Ips
  BY <1>2, <1>3 DEF Client
<1>5. RulesTyped'
  BY <1>1, <1>4 DEF RulesInv, RulesTyped
<1>6. PrivateKeepsOut'
  BY <1>1, <1>3 DEF PrivateKeepsOut
<1>7. hasmaster(client') <=> hasmaster(client)
  BY <1>1 DEF hasmaster
<1>8. SpyMarked'
  BY <1>1 DEF RulesInv, SpyMarked
<1> QED BY <1>1, <1>5, <1>6, <1>7, <1>8 DEF RulesInv, PauseHasMaster, Resets

\* The steps of one client preserve the invariant and reset what they must.
LEMMA ClientStepSafe ==
  ASSUME RulesInv, ClientStep
  PROVE  RulesInv' /\ Resets
<1>0. RulesTyped /\ SpyMarked /\ client \in [Cns -> Client]
  BY DEF RulesInv, RulesTyped
<1>w. {PRIV_MASTER, PRIV_ADMIN} \subseteq Privileges \ {PRIV_NONE}
  BY Numbers
<1>1. ASSUME NEW c \in Cns, NEW ip \in Ips, NEW vouched \in BOOLEAN, NEW spy \in BOOLEAN,
             NEW priv \in {PRIV_NONE, PRIV_MASTER, PRIV_ADMIN},
             connected(c, ip, vouched, priv, spy)
      PROVE  RulesInv' /\ Resets
  BY <1>1, ConnectedStep
<1>2. ASSUME NEW c \in Cns, clientdisconnect(c)
      PROVE  RulesInv' /\ Resets
  BY <1>2, DisconnectStep
<1>3. ASSUME NEW c \in Cns, dropmaster(c)
      PROVE  RulesInv' /\ Resets
  <2>1. SameGuests(client') /\ \A d \in Cns \ {c} : client'[d] = client[d]
    BY <1>0, <1>3, TakenRank DEF dropmaster
  <2>2. CASE client[c].privilege # PRIV_NONE
    BY <1>3, <2>1, <2>2, CleanupStep DEF dropmaster
  <2>3. CASE client[c].privilege = PRIV_NONE
    BY <1>0, <1>3, <2>1, <2>3, NothingLost, CheckPauseStep DEF dropmaster
  <2> QED BY <2>2, <2>3
<1>4. ASSUME NEW c \in Cns, claimmaster(c)
      PROVE  RulesInv' /\ Resets
  <2>1. \E priv \in Privileges \ {PRIV_NONE}, public \in BOOLEAN :
          client' = Ranked(client, c, priv, public)
    BY <1>4, <1>w, Zenon DEF claimmaster
  <2>2. SameGuests(client') /\ KeepsRanks(client')
    BY <1>0, <2>1, GivenRank
  <2> QED BY <1>4, <2>2, CheckPauseStep DEF claimmaster
<1>5. ASSUME NEW c \in Cns, NEW priv \in {PRIV_MASTER, PRIV_ADMIN}, NEW spy \in BOOLEAN,
             loginmaster(c, priv, spy)
      PROVE  RulesInv' /\ Resets
  <2>1. \/ client' = Spied(client, c, TRUE)
        \/ client' = Ranked(client, c, priv, TRUE)
    BY <1>5, Zenon DEF loginmaster
  <2>2. \/ \E p \in Privileges \ {PRIV_NONE}, public \in BOOLEAN :
             client' = Ranked(client, c, p, public)
        \/ \E val \in BOOLEAN : client' = Spied(client, c, val)
    BY <1>w, <2>1, Zenon
  <2>3. SameGuests(client') /\ KeepsRanks(client')
    BY <1>0, <2>2, GivenRank
  <2> QED BY <1>5, <2>3, CheckPauseStep DEF loginmaster
<1>6. ASSUME NEW c \in Cns, NEW target \in Cns, NEW val \in BOOLEAN, sharemaster(c, target, val)
      PROVE  RulesInv' /\ Resets
  <2>1. \E p \in Privileges \ {PRIV_NONE}, public \in BOOLEAN :
             client' = Ranked(client, target, p, public)
    BY <1>6, <1>w, Zenon DEF sharemaster
  <2>2. SameGuests(client') /\ KeepsRanks(client')
    BY <1>0, <2>1, GivenRank
  <2> QED BY <1>6, <2>2, QuietStep DEF sharemaster
<1>7. ASSUME NEW c \in Cns, NEW mm \in MsgModes, mastermodemsg(c, mm)
      PROVE  RulesInv' /\ Resets
  BY <1>7, ModeStep, Numbers DEF mastermodemsg, MsgModes
<1>8. ASSUME NEW c \in Cns, NEW val \in BOOLEAN, pausegamemsg(c, val)
      PROVE  RulesInv' /\ Resets
  <2>1. hasmaster(client) /\ UNCHANGED <<client, mastermode, allowedips>>
    BY <1>0, <1>8, Numbers DEF pausegamemsg, hasmaster, Client
  <2>2. hasmaster(client')
    BY <2>1 DEF hasmaster
  <2>3. RulesTyped'
    BY <1>0, <1>8, <2>1 DEF pausegamemsg, RulesTyped
  <2>4. PrivateKeepsOut'
    BY <2>1 DEF RulesInv, PrivateKeepsOut
  <2>5. SpyMarked'
    BY <1>0, <2>1 DEF SpyMarked
  <2> QED BY <2>2, <2>3, <2>4, <2>5 DEF RulesInv, PauseHasMaster, Resets
<1> QED BY <1>1, <1>2, <1>3, <1>4, <1>5, <1>6, <1>7, <1>8 DEF ClientStep

\* The steps of the scripts preserve the invariant and reset what they must.
LEMMA ScriptStepSafe ==
  ASSUME RulesInv, ScriptStep
  PROVE  RulesInv' /\ Resets
<1>0. RulesTyped /\ SpyMarked /\ client \in [Cns -> Client]
  BY DEF RulesInv, RulesTyped
<1>1. ASSUME NEW c \in Cns, NEW priv \in Privileges, NEW public \in BOOLEAN,
             set_player_privilege(c, priv, public)
      PROVE  RulesInv' /\ Resets
  <2>1. CASE priv # PRIV_NONE
    <3>1. \E p \in Privileges \ {PRIV_NONE}, pub \in BOOLEAN : client' = Ranked(client, c, p, pub)
      BY <1>1, <2>1, Zenon DEF set_player_privilege
    <3>2. SameGuests(client') /\ KeepsRanks(client')
      BY <1>0, <3>1, GivenRank
    <3> QED BY <1>1, <2>1, <3>2, QuietStep DEF set_player_privilege
  <2>2. CASE priv = PRIV_NONE
    <3>1. SameGuests(client')
      <4>1. client' = Ranked(client, c, priv, public)
        BY <1>1 DEF set_player_privilege
      <4>2. /\ client' \in [Cns -> Client]
            /\ \A d \in Cns :
                 /\ client'[d].on = client[d].on /\ client'[d].ip = client[d].ip
                 /\ client'[d].vouched = client[d].vouched
                 /\ (client[d].spy => client[d].hide) => (client'[d].spy => client'[d].hide)
        BY <1>0, <4>1, RankedSound
      <4> QED BY <1>0, <4>2, GuestsSame
    <3> QED BY <1>1, <2>2, <3>1, CleanupStep DEF set_player_privilege
  <2> QED BY <2>1, <2>2
<1>2. ASSUME NEW c \in Cns, NEW val \in BOOLEAN, set_spy(c, val)
      PROVE  RulesInv' /\ Resets
  <2>1. \E v \in BOOLEAN : client' = Spied(client, c, v)
    BY <1>2, Zenon DEF set_spy
  <2>2. SameGuests(client') /\ KeepsRanks(client')
    BY <1>0, <2>1, GivenRank
  <2> QED BY <1>2, <2>2, QuietStep DEF set_spy
<1>3. ASSUME NEW c \in Cns, unset_player_privilege(c)
      PROVE  RulesInv' /\ Resets
  <2>1. SameGuests(client')
    BY <1>0, <1>3, TakenRank DEF unset_player_privilege
  <2> QED BY <1>3, <2>1, CleanupStep DEF unset_player_privilege
<1>4. ASSUME unsetmaster
      PROVE  RulesInv' /\ Resets
  <2>1. \A c \in Cns : client'[c] = client[c] \/ client'[c] = Unranked(client, c)[c]
    BY <1>4 DEF unsetmaster
  <2>2. \A c \in Cns : /\ client'[c] \in Client /\ client'[c].on = client[c].on
                       /\ client'[c].ip = client[c].ip
                       /\ client'[c].vouched = client[c].vouched
                       /\ client'[c].spy = client[c].spy /\ client'[c].hide = client[c].hide
    BY <1>0, <2>1, UnrankedSound
  <2>3. client' = [c \in Cns |-> client'[c]]
    BY <1>4 DEF unsetmaster
  <2>4. SameGuests(client')
    BY <1>0, <2>2, <2>3 DEF SameGuests, SpyMarked
  <2> QED BY <1>4, <2>4, CleanupStep DEF unsetmaster
<1>5. ASSUME NEW mm \in MM_AUTH..MM_PRIVATE, set_mastermode_cn(mm)
      PROVE  RulesInv' /\ Resets
  BY <1>5, ModeStep
<1>6. ASSUME NEW ip \in Ips, add_allowed_ip(ip)
      PROVE  RulesInv' /\ Resets
  <2>1. UNCHANGED <<client, mastermode, gamepaused, pauser>> /\ allowedips \subseteq allowedips'
    BY <1>6 DEF add_allowed_ip
  <2>2. RulesTyped'
    BY <1>0, <1>6 DEF RulesTyped, add_allowed_ip
  <2>3. SameGuests(client')
    BY <1>0, <2>1 DEF SameGuests, SpyMarked
  <2>4. hasmaster(client') <=> hasmaster(client)
    BY <2>1 DEF hasmaster
  <2>5. SpyMarked'
    BY <1>0, <2>1 DEF SpyMarked
  <2> QED BY <2>1, <2>2, <2>3, <2>4, <2>5, GuestsStay DEF RulesInv, PauseHasMaster, Resets
<1>7. ASSUME NEW val \in BOOLEAN, forcepaused(val)
      PROVE  RulesInv' /\ Resets
  <2>1. UNCHANGED <<client, mastermode, allowedips>> /\ pauser' # "client"
    BY <1>7 DEF forcepaused
  <2>2. RulesTyped'
    BY <1>0, <1>7 DEF RulesTyped, forcepaused
  <2>3. PrivateKeepsOut'
    BY <2>1 DEF RulesInv, PrivateKeepsOut
  <2>4. hasmaster(client') <=> hasmaster(client)
    BY <2>1 DEF hasmaster
  <2>5. SpyMarked'
    BY <1>0, <2>1 DEF SpyMarked
  <2> QED BY <2>1, <2>2, <2>3, <2>4, <2>5 DEF RulesInv, PauseHasMaster, Resets
<1> QED BY <1>1, <1>2, <1>3, <1>4, <1>5, <1>6, <1>7 DEF ScriptStep

\* The server starts with nobody in, the mode open and the game running.
LEMMA InitSafe ==
  ASSUME Init
  PROVE  RulesInv
<1> DEFINE off(ip) == [on |-> FALSE, ip |-> ip, vouched |-> FALSE, privilege |-> PRIV_NONE,
                       hide |-> FALSE, spy |-> FALSE]
<1>a. \A ip \in Ips : off(ip) \in Client /\ off(ip).on = FALSE
  BY Numbers DEF Client
<1>b. client \in [Cns -> {off(ip) : ip \in Ips}]
  BY DEF Init
<1> HIDE DEF off
<1>1. \A c \in Cns : client[c] \in Client /\ client[c].on = FALSE
  BY <1>a, <1>b
<1>2. client \in [Cns -> Client]
  BY <1>1, <1>b
<1>3. RulesTyped
  <2>1. mastermode \in MM_AUTH..MM_PRIVATE
    BY Numbers DEF Init
  <2>2. allowedips \subseteq Ips /\ gamepaused \in BOOLEAN
        /\ pauser \in {"none", "client", "script"}
    BY DEF Init
  <2> QED BY <1>2, <2>1, <2>2 DEF RulesTyped
<1>4. PrivateKeepsOut
  BY <1>1 DEF PrivateKeepsOut
<1>5. PauseHasMaster
  BY DEF Init, PauseHasMaster
<1>6. SpyMarked
  BY <1>1 DEF SpyMarked
<1> QED BY <1>3, <1>4, <1>5, <1>6 DEF RulesInv

(***************************************************************************)
(* The lists of privileges.  A list is sound when it is sent; until the    *)
(* next one a step may change nobody's rank without sending it, and who    *)
(* becomes a spy or goes is taken off the lists.                           *)
(***************************************************************************)
ListsTyped == told \in [Cns -> [Cns -> Privileges]] /\ newcomers \subseteq Cns

IInv == RulesInv /\ ListsTyped /\ ShownIsHeld

\* Every rank is told from the list of the clients cl, hiders left out.
LEMMA ListedSound ==
  ASSUME NEW cl \in [Cns -> Client], NEW all \in BOOLEAN
  PROVE  /\ Listed(cl, all) \in [Cns -> Privileges]
         /\ \A c \in Cns : Listed(cl, all)[c] # PRIV_NONE =>
              cl[c].on /\ cl[c].privilege = Listed(cl, all)[c] /\ (all \/ ~cl[c].hide)
         /\ Nobody \in [Cns -> Privileges] /\ \A c \in Cns : Nobody[c] = PRIV_NONE
<1>1. \A c \in Cns : cl[c].privilege \in Privileges
  BY DEF Client
<1>2. PRIV_NONE \in Privileges
  BY Numbers
<1> QED BY <1>1, <1>2 DEF Listed, Nobody

\* After send_currentmaster every list is sound: a spy is marked.
LEMMA SentSound ==
  ASSUME RulesInv', send_currentmaster(client')
  PROVE  ListsTyped' /\ ShownIsHeld'
<1>1. client' \in [Cns -> Client] /\ \A c \in Cns : client'[c].on /\ client'[c].spy => client'[c].hide
  BY DEF RulesInv, RulesTyped, SpyMarked
<1>2. /\ Listed(client', FALSE) \in [Cns -> Privileges]
      /\ \A c \in Cns : Listed(client', FALSE)[c] # PRIV_NONE =>
           /\ client'[c].on /\ client'[c].privilege = Listed(client', FALSE)[c]
           /\ ~client'[c].hide
      /\ Nobody \in [Cns -> Privileges] /\ \A c \in Cns : Nobody[c] = PRIV_NONE
  BY <1>1, ListedSound
<1>3. /\ told' = [r \in Cns |-> IF client'[r].on THEN Listed(client', FALSE) ELSE Nobody]
      /\ newcomers' = {}
  BY DEF send_currentmaster
<1>4. ListsTyped'
  BY <1>2, <1>3 DEF ListsTyped
<1>5. ASSUME NEW r \in Cns, NEW c \in Cns, told'[r][c] # PRIV_NONE
      PROVE  client'[r].on /\ client'[r].on /\ client'[c].on /\ client'[c].privilege = told'[r][c] /\ ~client'[c].spy
  <2>1. client'[r].on /\ told'[r] = Listed(client', FALSE)
    BY <1>2, <1>3, <1>5
  <2> QED BY <1>1, <1>2, <1>5, <2>1
<1>6. ShownIsHeld'
  BY <1>5 DEF ShownIsHeld
<1> QED BY <1>4, <1>6

\* Nothing sent, nobody's rank changed, nobody became a spy or went.
LEMMA ListsKept ==
  ASSUME IInv, UNCHANGED lists,
         \A c \in Cns : client[c].on =>
           /\ client'[c].on /\ client'[c].privilege = client[c].privilege
           /\ client'[c].spy => client[c].spy
  PROVE  ListsTyped' /\ ShownIsHeld'
<1>1. UNCHANGED <<told, newcomers>>
  BY DEF lists
<1>2. ListsTyped'
  BY <1>1 DEF IInv, ListsTyped
<1>3. ASSUME NEW r \in Cns, NEW c \in Cns, told'[r][c] # PRIV_NONE
      PROVE  /\ client'[r].on /\ client'[c].on /\ client'[c].privilege = told'[r][c]
             /\ client'[c].spy => r \in newcomers'
  <2>1. /\ client[r].on /\ client[c].on /\ client[c].privilege = told[r][c]
        /\ client[c].spy => r \in newcomers
    BY <1>1, <1>3 DEF IInv, ShownIsHeld
  <2> QED BY <1>1, <2>1
<1> QED BY <1>2, <1>3 DEF ShownIsHeld

\* Somebody's rank is given or taken with set_player_privilege.
LEMMA AnnounceSound ==
  ASSUME IInv, RulesInv', NEW c \in Cns, NEW priv \in Privileges, NEW public \in BOOLEAN,
         client' = Ranked(client, c, priv, public), Announce(c)
  PROVE  ListsTyped' /\ ShownIsHeld'
<1>0. client \in [Cns -> Client]
  BY DEF IInv, RulesInv, RulesTyped
<1>1. CASE client'[c].privilege = client[c].privilege
  <2>1. client' = client
    <3>1. CASE client[c].privilege = priv
      BY <3>1 DEF Ranked
    <3>2. CASE client[c].privilege # priv
      <4>1. client'[c].privilege = priv
        BY <1>0, <3>2 DEF Ranked, Client
      <4> QED BY <1>1, <3>2, <4>1
    <3> QED BY <3>1, <3>2
  <2>2. UNCHANGED lists
    BY <1>1 DEF Announce
  <2> QED BY <2>1, <2>2, ListsKept
<1>2. CASE client'[c].privilege # client[c].privilege
  BY <1>2, SentSound DEF Announce
<1> QED BY <1>1, <1>2

\* Somebody becomes a spy, or stops being one, with set_spy.
LEMMA SpySentSound ==
  ASSUME IInv, RulesInv', NEW c \in Cns, NEW val \in BOOLEAN,
         client' = Spied(client, c, val), SpySent(c, val)
  PROVE  ListsTyped' /\ ShownIsHeld'
<1>0. client \in [Cns -> Client]
  BY DEF IInv, RulesInv, RulesTyped
<1>1. CASE ~(val /\ ~client[c].spy)
  <2>1. \A d \in Cns : client[d].on =>
           /\ client'[d].on /\ client'[d].privilege = client[d].privilege
           /\ client'[d].spy => client[d].spy
    BY <1>0, <1>1 DEF Spied, Client
  <2>2. UNCHANGED lists
    BY <1>1 DEF SpySent, lists
  <2> QED BY <2>1, <2>2, ListsKept
<1>2. CASE val /\ ~client[c].spy
  <2>1. told' = [r \in Cns |-> [told[r] EXCEPT ![c] = PRIV_NONE]] /\ newcomers' = newcomers
    BY <1>2 DEF SpySent, Forget
  <2>2. \A d \in Cns \ {c} : client'[d] = client[d]
    BY <1>0 DEF Spied
  <2>3. \A r \in Cns : /\ told[r] \in [Cns -> Privileges]
                       /\ told'[r] = [told[r] EXCEPT ![c] = PRIV_NONE]
    BY <2>1 DEF IInv, ListsTyped
  <2>4. ListsTyped'
    BY <2>1, <2>3, Numbers DEF IInv, ListsTyped
  <2>5. ASSUME NEW r \in Cns, NEW d \in Cns, told'[r][d] # PRIV_NONE
        PROVE  /\ client'[r].on /\ client'[d].on /\ client'[d].privilege = told'[r][d]
               /\ client'[d].spy => r \in newcomers'
    <3>1. d # c /\ told'[r][d] = told[r][d]
      BY <2>3, <2>5
    <3>2. /\ client[r].on /\ client[d].on /\ client[d].privilege = told[r][d]
          /\ client[d].spy => r \in newcomers
      BY <2>5, <3>1 DEF IInv, ShownIsHeld
    <3>3. client'[r].on
      BY <1>0, <3>2, SpiedSound
    <3> QED BY <2>1, <2>2, <3>1, <3>2, <3>3
  <2> QED BY <2>4, <2>5 DEF ShownIsHeld
<1> QED BY <1>1, <1>2

\* A newcomer's own list is the welcome packet's; the others' are sent anew
\* when its privilege is announced, without it.
LEMMA ConnectedLists ==
  ASSUME IInv, RulesInv', NEW c \in Cns, NEW ip \in Ips, NEW vouched \in BOOLEAN,
         NEW spy \in BOOLEAN, NEW priv \in {PRIV_NONE, PRIV_MASTER, PRIV_ADMIN},
         connected(c, ip, vouched, priv, spy)
  PROVE  ListsTyped' /\ ShownIsHeld'
<1> DEFINE announced == ~spy /\ priv # PRIV_NONE
<1>0. client \in [Cns -> Client] /\ client' \in [Cns -> Client] /\ ~client[c].on
  BY DEF connected, IInv, RulesInv, RulesTyped
<1>1. \A d \in Cns \ {c} : client'[d] = client[d]
  BY <1>0 DEF connected, Spied, Ranked
<1>c. client'[c].on
  <2> DEFINE cl == [client EXCEPT ![c] =
               [on |-> TRUE, ip |-> ip, vouched |-> vouched, privilege |-> PRIV_NONE,
                hide |-> FALSE, spy |-> FALSE]]
  <2>1. cl[c].on /\ cl[c] \in Client /\ cl \in [Cns -> Client]
    BY <1>0, Numbers DEF Client
  <2>2. client' = IF spy THEN Spied(cl, c, TRUE)
                  ELSE IF priv = PRIV_NONE THEN cl ELSE Ranked(cl, c, priv, TRUE)
    BY DEF connected
  <2> HIDE DEF cl
  <2>3. priv \in Privileges
    BY Numbers
  <2>4. CASE spy
    <3>1. client' = Spied(cl, c, TRUE)
      BY <2>2, <2>4
    <3> QED BY <2>1, <3>1, SpiedSound
  <2>5. CASE ~spy /\ priv = PRIV_NONE
    BY <2>1, <2>2, <2>5
  <2>6. CASE ~spy /\ priv # PRIV_NONE
    <3>1. client' = Ranked(cl, c, priv, TRUE)
      BY <2>2, <2>6
    <3> QED BY <2>1, <2>3, <3>1, RankedSound
  <2> QED BY <2>4, <2>5, <2>6
<1>2. /\ told' = [r \in Cns |->
                    IF r = c THEN Listed(client', TRUE)
                    ELSE IF announced /\ client[r].on THEN Listed(client, FALSE)
                    ELSE told[r]]
      /\ newcomers' = {c} \cup (IF announced THEN {} ELSE newcomers)
  BY DEF connected
<1> HIDE DEF announced
<1>3. /\ Listed(client', TRUE) \in [Cns -> Privileges]
      /\ \A d \in Cns : Listed(client', TRUE)[d] # PRIV_NONE =>
           client'[d].on /\ client'[d].privilege = Listed(client', TRUE)[d]
      /\ Listed(client, FALSE) \in [Cns -> Privileges]
      /\ \A d \in Cns : Listed(client, FALSE)[d] # PRIV_NONE =>
           client[d].on /\ client[d].privilege = Listed(client, FALSE)[d] /\ ~client[d].hide
  BY <1>0, ListedSound
<1>4. ListsTyped'
  BY <1>2, <1>3 DEF IInv, ListsTyped
<1>5. ASSUME NEW r \in Cns, NEW d \in Cns, told'[r][d] # PRIV_NONE
      PROVE  /\ client'[r].on /\ client'[d].on /\ client'[d].privilege = told'[r][d]
             /\ client'[d].spy => r \in newcomers'
  <2>1. CASE r = c
    <3>1. told'[r] = Listed(client', TRUE) /\ r \in newcomers' /\ client'[r].on
      BY <1>2, <1>c, <2>1
    <3> QED BY <1>3, <1>5, <3>1
  <2>2. CASE r # c /\ announced /\ client[r].on
    <3>1. told'[r] = Listed(client, FALSE)
      BY <1>2, <2>2
    <3>2. client[d].on /\ client[d].privilege = told'[r][d] /\ ~client[d].hide
      BY <1>3, <1>5, <3>1
    <3>3. d # c /\ ~client[d].spy
      BY <1>0, <3>2 DEF IInv, RulesInv, SpyMarked
    <3> QED BY <1>1, <2>2, <3>2, <3>3
  <2>3. CASE r # c /\ ~(announced /\ client[r].on)
    <3>1. told'[r] = told[r]
      BY <1>2, <2>3
    <3>2. /\ client[r].on /\ client[d].on /\ client[d].privilege = told[r][d]
          /\ client[d].spy => r \in newcomers
      BY <1>5, <3>1 DEF IInv, ShownIsHeld
    <3>3. d # c
      BY <1>0, <3>2
    <3> QED BY <1>1, <1>2, <2>3, <3>1, <3>2, <3>3
  <2> QED BY <2>1, <2>2, <2>3
<1> QED BY <1>4, <1>5 DEF ShownIsHeld

\* Whoever goes is on nobody's list: a spy with a privilege drops it first, and
\* one without was on none.
LEMMA DisconnectLists ==
  ASSUME IInv, RulesInv', NEW c \in Cns, clientdisconnect(c)
  PROVE  ListsTyped' /\ ShownIsHeld'
<1>0. client \in [Cns -> Client] /\ told \in [Cns -> [Cns -> Privileges]]
  BY DEF IInv, RulesInv, RulesTyped, ListsTyped
<1>1. CASE client[c].privilege # PRIV_NONE
  BY <1>1, SentSound DEF clientdisconnect
<1>2. CASE client[c].privilege = PRIV_NONE
  <2> DEFINE kept == IF client[c].spy THEN told ELSE Forget(c)
  <2>1. told' = [kept EXCEPT ![c] = Nobody] /\ newcomers' = newcomers \ {c}
    BY <1>2 DEF clientdisconnect
  <2>2. \A d \in Cns \ {c} : client'[d] = client[d]
    BY <1>0 DEF clientdisconnect, Unranked
  <2>3. kept \in [Cns -> [Cns -> Privileges]]
        /\ \A r, d \in Cns : kept[r][d] # PRIV_NONE => d # c /\ kept[r][d] = told[r][d]
    <3>1. CASE client[c].spy
      BY <1>0, <1>2, <3>1 DEF IInv, ShownIsHeld
    <3>2. CASE ~client[c].spy
      <4>1. kept = [r \in Cns |-> [told[r] EXCEPT ![c] = PRIV_NONE]]
        BY <3>2 DEF Forget
      <4> QED BY <1>0, <4>1, Numbers
    <3> QED BY <3>1, <3>2
  <2> HIDE DEF kept
  <2>4. Nobody \in [Cns -> Privileges] /\ \A d \in Cns : Nobody[d] = PRIV_NONE
    BY Numbers DEF Nobody
  <2>5. ListsTyped'
    BY <2>1, <2>3, <2>4 DEF IInv, ListsTyped
  <2>6. ASSUME NEW r \in Cns, NEW d \in Cns, told'[r][d] # PRIV_NONE
        PROVE  /\ client'[r].on /\ client'[d].on /\ client'[d].privilege = told'[r][d]
               /\ client'[d].spy => r \in newcomers'
    <3>1. r # c /\ told'[r] = kept[r]
      BY <2>1, <2>3, <2>4, <2>6
    <3>2. d # c /\ told'[r][d] = told[r][d]
      BY <2>3, <2>6, <3>1
    <3>3. /\ client[r].on /\ client[d].on /\ client[d].privilege = told[r][d]
          /\ client[d].spy => r \in newcomers
      BY <2>6, <3>2 DEF IInv, ShownIsHeld
    <3> QED BY <2>1, <2>2, <3>1, <3>2, <3>3
  <2> QED BY <2>5, <2>6 DEF ShownIsHeld
<1> QED BY <1>1, <1>2

\* The demo's end welcomes everybody again.
LEMMA DemoEndLists ==
  ASSUME IInv, enddemoplayback
  PROVE  IInv' /\ Resets
<1>1. UNCHANGED <<client, mastermode, allowedips, gamepaused, pauser>>
  BY DEF enddemoplayback
<1>2. RulesInv'
  BY <1>1 DEF IInv, RulesInv, RulesTyped, PrivateKeepsOut, PauseHasMaster, SpyMarked, hasmaster
<1>3. Resets
  BY <1>1 DEF Resets, hasmaster
<1>4. client \in [Cns -> Client]
  BY DEF IInv, RulesInv, RulesTyped
<1>5. /\ Listed(client, TRUE) \in [Cns -> Privileges]
      /\ \A d \in Cns : Listed(client, TRUE)[d] # PRIV_NONE =>
           client[d].on /\ client[d].privilege = Listed(client, TRUE)[d]
      /\ Nobody \in [Cns -> Privileges] /\ \A c \in Cns : Nobody[c] = PRIV_NONE
  BY <1>4, ListedSound
<1>6. /\ told' = [r \in Cns |-> IF client[r].on THEN Listed(client, TRUE) ELSE Nobody]
      /\ newcomers' = {c \in Cns : client[c].on}
  BY DEF enddemoplayback
<1>7. ListsTyped'
  BY <1>5, <1>6 DEF ListsTyped
<1>8. ASSUME NEW r \in Cns, NEW d \in Cns, told'[r][d] # PRIV_NONE
      PROVE  /\ client'[r].on /\ client'[d].on /\ client'[d].privilege = told'[r][d]
             /\ client'[d].spy => r \in newcomers'
  <2>1. client[r].on /\ told'[r] = Listed(client, TRUE) /\ r \in newcomers'
    BY <1>5, <1>6, <1>8
  <2> QED BY <1>1, <1>5, <1>8, <2>1
<1> QED BY <1>2, <1>3, <1>7, <1>8 DEF IInv, ShownIsHeld

\* The steps of one client keep the lists sound.
LEMMA ClientStepLists ==
  ASSUME IInv, RulesInv', ClientStep
  PROVE  ListsTyped' /\ ShownIsHeld'
<1>w. {PRIV_MASTER, PRIV_ADMIN} \subseteq Privileges
  BY Numbers
<1>0. client \in [Cns -> Client]
  BY DEF IInv, RulesInv, RulesTyped
<1>1. ASSUME NEW c \in Cns, NEW ip \in Ips, NEW vouched \in BOOLEAN, NEW spy \in BOOLEAN,
             NEW priv \in {PRIV_NONE, PRIV_MASTER, PRIV_ADMIN},
             connected(c, ip, vouched, priv, spy)
      PROVE  ListsTyped' /\ ShownIsHeld'
  BY <1>1, ConnectedLists
<1>2. ASSUME NEW c \in Cns, clientdisconnect(c)
      PROVE  ListsTyped' /\ ShownIsHeld'
  BY <1>2, DisconnectLists
<1>3. ASSUME NEW c \in Cns, dropmaster(c)
      PROVE  ListsTyped' /\ ShownIsHeld'
  <2>1. CASE client[c].privilege # PRIV_NONE
    BY <1>3, <2>1, SentSound DEF dropmaster
  <2>2. CASE client[c].privilege = PRIV_NONE
    <3>1. UNCHANGED lists /\ client' = Unranked(client, c)
      BY <1>3, <2>2 DEF dropmaster
    <3>2. \A d \in Cns : /\ client'[d].on = client[d].on /\ client'[d].spy = client[d].spy
                         /\ client'[d].privilege = client[d].privilege
      BY <1>0, <2>2, <3>1 DEF Unranked, Client
    <3> QED BY <3>1, <3>2, ListsKept
  <2> QED BY <2>1, <2>2
<1>4. ASSUME NEW c \in Cns, claimmaster(c)
      PROVE  ListsTyped' /\ ShownIsHeld'
  BY <1>4, <1>w, AnnounceSound DEF claimmaster
<1>5. ASSUME NEW c \in Cns, NEW priv \in {PRIV_MASTER, PRIV_ADMIN}, NEW spy \in BOOLEAN,
             loginmaster(c, priv, spy)
      PROVE  ListsTyped' /\ ShownIsHeld'
  <2>1. CASE spy
    BY <1>5, <2>1, SpySentSound DEF loginmaster
  <2>2. CASE ~spy
    BY <1>5, <1>w, <2>2, AnnounceSound DEF loginmaster
  <2> QED BY <2>1, <2>2
<1>6. ASSUME NEW c \in Cns, NEW target \in Cns, NEW val \in BOOLEAN, sharemaster(c, target, val)
      PROVE  ListsTyped' /\ ShownIsHeld'
  BY <1>6, <1>w, AnnounceSound DEF sharemaster
<1>7. ASSUME NEW c \in Cns, NEW mm \in MsgModes, mastermodemsg(c, mm)
      PROVE  ListsTyped' /\ ShownIsHeld'
  BY <1>7, ListsKept DEF mastermodemsg, set_mastermode_cn
<1>8. ASSUME NEW c \in Cns, NEW val \in BOOLEAN, pausegamemsg(c, val)
      PROVE  ListsTyped' /\ ShownIsHeld'
  BY <1>8, ListsKept DEF pausegamemsg
<1> QED BY <1>1, <1>2, <1>3, <1>4, <1>5, <1>6, <1>7, <1>8 DEF ClientStep

\* The steps of the scripts keep the lists sound.
LEMMA ScriptStepLists ==
  ASSUME IInv, RulesInv', ScriptStep
  PROVE  ListsTyped' /\ ShownIsHeld'
<1>1. ASSUME NEW c \in Cns, NEW priv \in Privileges, NEW public \in BOOLEAN,
             set_player_privilege(c, priv, public)
      PROVE  ListsTyped' /\ ShownIsHeld'
  BY <1>1, AnnounceSound DEF set_player_privilege
<1>2. ASSUME NEW c \in Cns, NEW val \in BOOLEAN, set_spy(c, val)
      PROVE  ListsTyped' /\ ShownIsHeld'
  BY <1>2, SpySentSound DEF set_spy
<1>3. ASSUME NEW c \in Cns, unset_player_privilege(c)
      PROVE  ListsTyped' /\ ShownIsHeld'
  BY <1>3, SentSound DEF unset_player_privilege
<1>4. ASSUME unsetmaster
      PROVE  ListsTyped' /\ ShownIsHeld'
  BY <1>4, SentSound DEF unsetmaster
<1>5. ASSUME NEW mm \in MM_AUTH..MM_PRIVATE, set_mastermode_cn(mm)
      PROVE  ListsTyped' /\ ShownIsHeld'
  BY <1>5, ListsKept DEF set_mastermode_cn
<1>6. ASSUME NEW ip \in Ips, add_allowed_ip(ip)
      PROVE  ListsTyped' /\ ShownIsHeld'
  BY <1>6, ListsKept DEF add_allowed_ip
<1>7. ASSUME NEW val \in BOOLEAN, forcepaused(val)
      PROVE  ListsTyped' /\ ShownIsHeld'
  BY <1>7, ListsKept DEF forcepaused
<1> QED BY <1>1, <1>2, <1>3, <1>4, <1>5, <1>6, <1>7 DEF ScriptStep

\* The first lists are empty.
LEMMA InitLists ==
  ASSUME Init
  PROVE  IInv
<1>1. RulesInv
  BY InitSafe
<1>2. told = [r \in Cns |-> Nobody] /\ newcomers = {}
  BY DEF Init
<1>3. Nobody \in [Cns -> Privileges] /\ \A c \in Cns : Nobody[c] = PRIV_NONE
  BY Numbers DEF Nobody
<1>4. ListsTyped
  BY <1>2, <1>3 DEF ListsTyped
<1>5. ShownIsHeld
  BY <1>2, <1>3 DEF ShownIsHeld
<1> QED BY <1>1, <1>4, <1>5 DEF IInv

\* Every step preserves the invariant and resets what it must.
LEMMA StepSafe ==
  ASSUME IInv, [Next]_vars
  PROVE  IInv' /\ (Resets \/ UNCHANGED vars)
<1>0. RulesInv
  BY DEF IInv
<1>1. CASE ClientStep
  BY <1>0, <1>1, ClientStepSafe, ClientStepLists DEF IInv
<1>2. CASE ScriptStep
  BY <1>0, <1>2, ScriptStepSafe, ScriptStepLists DEF IInv
<1>3. CASE enddemoplayback
  BY <1>3, DemoEndLists
<1>4. CASE UNCHANGED vars
  BY <1>4 DEF vars, IInv, RulesInv, RulesTyped, PrivateKeepsOut, PauseHasMaster, SpyMarked,
              hasmaster, ListsTyped, ShownIsHeld
<1> QED BY <1>1, <1>2, <1>3, <1>4 DEF Next

\* Private mode holds only those who were there, were let in or are vouched
\* for, and a pause a client asked for does not outlive the masters.
THEOREM MasterSafety == Spec => [](TypeOK /\ PrivateKeepsOut /\ PauseHasMaster /\ ShownIsHeld)
<1>1. Init => IInv
  BY InitLists
<1>2. IInv /\ [Next]_vars => IInv'
  BY StepSafe
<1>3. IInv => TypeOK /\ PrivateKeepsOut /\ PauseHasMaster /\ ShownIsHeld
  BY DEF IInv, RulesInv, RulesTyped, ListsTyped, TypeOK
<1> QED BY <1>1, <1>2, <1>3, PTL DEF Spec

\* In whatever way the last privilege goes - the client leaves, drops it, or it
\* is taken - the mastermode, its addresses and the pause are reset.
THEOREM LastMasterSafety == Spec => LastMasterResets
<1>1. Init => IInv
  BY InitLists
<1>2. IInv /\ [Next]_vars => IInv'
  BY StepSafe
<1>3. IInv /\ [Next]_vars =>
        [reset_mm /\ hasmaster(client) /\ ~hasmaster(client') =>
           /\ mastermode' \in {MM_OPEN, MM_AUTH}
           /\ allowedips' = {}
           /\ ~gamepaused']_vars
  BY StepSafe DEF Resets
<1> QED BY <1>1, <1>2, <1>3, PTL DEF Spec, LastMasterResets

\* Every way a privilege, the mastermode or the pause changes keeps the types.
THEOREM TypeCorrect == Spec => []TypeOK
BY MasterSafety, PTL

\* A pause a client asked for does not outlive the masters (checkpausegame).
THEOREM PausesHaveMasters == Spec => []PauseHasMaster
BY MasterSafety, PTL

\* A rank a client was told of, by send_currentmaster or the welcome packet, is
\* held, and only the welcome packet tells of a spy's.
THEOREM ListsSound == Spec => []ShownIsHeld
BY MasterSafety, PTL
=============================================================================
