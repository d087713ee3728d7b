-------------------------- MODULE OperationsProofs --------------------------
(***************************************************************************)
(* What holds of two components around the events for every value of their *)
(* constants.                                                              *)
(*                                                                         *)
(* Accounts: Inv is inductive, and AccountsHold follows.  Session steps    *)
(* (Login, Issue, Ask) leave accounts and memberships alone; the requests  *)
(* about zones leave the accounts alone; the requests about accounts do to *)
(* each account what Changes says.                                         *)
(*                                                                         *)
(* ReleaseBackup: BackupInv is inductive, and contains BackupsRestore.     *)
(* The steps of a program are grouped by what they touch: the lock, the    *)
(* folders, the services, or nothing but where the program is.             *)
(***************************************************************************)
EXTENDS Accounts, ReleaseBackup, WellFoundedInduction, TLAPS

-----------------------------------------------------------------------------
\* Both components take the least of some numbers: the first zone of a worker, the
\* first expiry of a snapshot.
LEMMA FirstIsLeast ==
  ASSUME NEW S \in SUBSET Nat, S # {}
  PROVE  Min(S) \in S /\ \A y \in S : Min(S) =< y
<1>1. PICK x \in S : \A y \in S : ~(<<y, x>> \in OpToRel(<, Nat))
  BY NatLessThanWellFounded, WFMin
<1>2. \A y \in S : ~(y < x)
  BY <1>1, Zenon DEF OpToRel
<1>3. \A y \in S : x =< y
  BY <1>2
<1> QED
  BY <1>3 DEF Min

-----------------------------------------------------------------------------
LEMMA LegacyType ==
  ASSUME NEW u, NEW m
  PROVE  sync_legacy(u, m) \in ZoneNames \cup {None}
<1>1. Of(m, u) \in SUBSET Nat /\ Of(m, u) \subseteq ZoneNames
  BY AccountsAssumption DEF Of
<1> QED
  BY <1>1, FirstIsLeast DEF sync_legacy

\* The projection depends on the zones of the worker alone.
LEMMA LegacySame ==
  ASSUME NEW u, NEW m, NEW n, Of(m, u) = Of(n, u)
  PROVE  sync_legacy(u, m) = sync_legacy(u, n)
BY DEF sync_legacy

-----------------------------------------------------------------------------
\* The memberships and their projection are consistent.
ZonesHold ==
  /\ zoneName \in [Users -> ZoneNames \cup {None}]
  /\ members \subseteq Workers \X ZoneNames
  /\ \A m \in members : accounts[m[1]] # None
  /\ zones \subseteq ZoneNames
  /\ ZonesExist /\ FirstIsProjected

LEMMA JoinsKeeps ==
  ASSUME ZonesHold, NEW u \in Users, NEW zs \in SUBSET ZoneNames, MayJoin(u, zs), Joins(u, zs),
         accounts'[u] # None, \A v \in Users : accounts[v] # None => accounts'[v] # None,
         UNCHANGED zones
  PROVE  ZonesHold'
<1>1. /\ members' = {m \in members : m[1] # u} \cup ({u} \X zs)
      /\ zoneName' = [zoneName EXCEPT ![u] = sync_legacy(u, members')]
  BY DEF Joins
<1>2. members' \subseteq Workers \X ZoneNames
  BY <1>1 DEF ZonesHold, MayJoin
<1>3. \A m \in members' : m \in members \/ (m[1] = u /\ m[2] \in zs)
  BY <1>1
<1>4. /\ \A m \in members' : accounts'[m[1]] # None
      /\ ZonesExist'
  BY <1>3 DEF ZonesHold, ZonesExist, MayJoin, Users
<1>5. ASSUME NEW v \in Users, v # u
      PROVE  Of(members', v) = Of(members, v)
  BY <1>1, <1>5 DEF Of
<1>6. zoneName' \in [Users -> ZoneNames \cup {None}]
  BY <1>1, LegacyType DEF ZonesHold
<1>7. FirstIsProjected'
  <2>1. ASSUME NEW v \in Users
        PROVE  zoneName'[v] = sync_legacy(v, members')
    <3>1. CASE v = u
      BY <1>1, <3>1 DEF ZonesHold
    <3>2. CASE v # u
      BY <1>1, <1>5, <3>2, LegacySame DEF ZonesHold, FirstIsProjected
    <3> QED
      BY <3>1, <3>2
  <2> QED
    BY <2>1 DEF FirstIsProjected
<1> QED
  BY <1>2, <1>4, <1>6, <1>7 DEF ZonesHold

LEMMA ReplaceMembersKeeps ==
  ASSUME TypeOK, ZonesHold, NEW c \in Clients, ReplaceMembers(c)
  PROVE  ZonesHold'
<1> DEFINE r == request[c]
<1>1. r.op = "members" /\ r \in Requests /\ UNCHANGED <<accounts, zones>>
  BY DEF ReplaceMembers, Asked, TypeOK
<1>2. r.zone \in ZoneNames /\ r.users \in SUBSET Users
  BY <1>1 DEF Requests
<1>3. CASE UNCHANGED <<zoneName, members>>
  BY <1>1, <1>3 DEF ZonesHold, ZonesExist, FirstIsProjected
<1>4. CASE /\ r.zone \in zones /\ \A u \in r.users : u \in Workers /\ accounts[u] # None
           /\ members' = {m \in members : m[2] # r.zone} \cup (r.users \X {r.zone})
           /\ zoneName' = [u \in Users |-> IF u \in Affected(r) THEN sync_legacy(u, members')
                                           ELSE zoneName[u]]
  <2>1. members' \subseteq Workers \X ZoneNames
    BY <1>2, <1>4 DEF ZonesHold
  <2>2. \A m \in members' : m \in members \/ (m[1] \in r.users /\ m[2] = r.zone)
    BY <1>4
  <2>3. (\A m \in members' : accounts'[m[1]] # None) /\ ZonesExist'
    BY <1>1, <1>4, <2>2 DEF ZonesHold, ZonesExist
  <2>4. ASSUME NEW v \in Users, v \notin Affected(r)
        PROVE  Of(members', v) = Of(members, v)
    <3>1. v \notin r.users /\ <<v, r.zone>> \notin members
      BY <2>4 DEF Affected, ZonesHold
    <3> QED
      BY <1>4, <3>1 DEF Of
  <2>5. zoneName' \in [Users -> ZoneNames \cup {None}]
    BY <1>4, LegacyType DEF ZonesHold
  <2>6. FirstIsProjected'
    <3>1. ASSUME NEW v \in Users
          PROVE  zoneName'[v] = sync_legacy(v, members')
      <4>1. CASE v \in Affected(r)
        BY <1>4, <4>1
      <4>2. CASE v \notin Affected(r)
        BY <1>4, <2>4, <4>2, LegacySame DEF ZonesHold, FirstIsProjected
      <4> QED
        BY <4>1, <4>2
    <3> QED
      BY <3>1 DEF FirstIsProjected
  <2> QED
    BY <1>1, <2>1, <2>3, <2>5, <2>6 DEF ZonesHold
<1> QED
  BY <1>3, <1>4 DEF ReplaceMembers

LEMMA ZonesSame ==
  ASSUME ZonesHold, UNCHANGED <<zoneName, members, zones>>,
         \A u \in Users : accounts[u] # None => accounts'[u] # None
  PROVE  ZonesHold'
BY DEF ZonesHold, ZonesExist, FirstIsProjected, Users

\* Rules of zones come and go; one with members stays.
LEMMA RulesKeep ==
  ASSUME TypeOK, ZonesHold, NEW c \in Clients, SaveRule(c) \/ DeleteZone(c)
  PROVE  ZonesHold'
<1>1. request[c] \in Requests /\ request[c].op \in {"rule", "delete"}
  BY DEF SaveRule, DeleteZone, Asked, TypeOK
<1>2. request[c].zone \in ZoneNames
  BY <1>1 DEF Requests
<1>3. UNCHANGED <<accounts, zoneName, members>>
  BY DEF SaveRule, DeleteZone
<1>4. zones' \subseteq ZoneNames /\ ZonesExist'
  <2>1. CASE SaveRule(c)
    BY <1>2, <1>3, <2>1 DEF SaveRule, ZonesHold, ZonesExist
  <2>2. CASE DeleteZone(c)
    <3>1. ASSUME NEW m \in members
          PROVE  m[2] \in zones'
      <4>1. m[1] \in Workers /\ m = <<m[1], m[2]>> /\ m[2] \in zones
        BY <3>1 DEF ZonesHold, ZonesExist
      <4>2. m[2] = request[c].zone => InUse(request[c].zone)
        BY <3>1, <4>1 DEF InUse
      <4> QED
        BY <2>2, <4>1, <4>2 DEF DeleteZone
    <3> QED
      BY <1>3, <2>2, <3>1 DEF DeleteZone, ZonesHold, ZonesExist
  <2> QED
    BY <2>1, <2>2
<1> QED
  BY <1>3, <1>4 DEF ZonesHold, FirstIsProjected

-----------------------------------------------------------------------------
\* What becomes of an account in a step: it is kept as it is, or but for its activity;
\* it is added; or its sessions are ended.
Same(u) == accounts'[u] = accounts[u] /\ revoked'[u] = revoked[u]

Activated(u) ==
  /\ accounts[u] # None /\ accounts'[u] \in Account /\ revoked'[u] = revoked[u]
  /\ accounts'[u].pass = accounts[u].pass /\ accounts'[u].ver = accounts[u].ver
  /\ accounts[u].active => accounts'[u].active

Added(u) ==
  /\ accounts[u] = None /\ accounts'[u] \in Account /\ accounts'[u].ver = 0
  /\ revoked'[u] = revoked[u]

Ended(u) ==
  /\ accounts[u] # None /\ accounts'[u] \in Account
  /\ accounts'[u].ver = accounts[u].ver + 1
  /\ revoked'[u] = revoked[u] + 1 /\ revoked'[u] \in 0..MaxRevoked

Changes ==
  /\ accounts' \in [Users -> Account \cup {None}] /\ revoked' \in [Users -> 0..MaxRevoked]
  /\ \A u \in Users : Same(u) \/ Activated(u) \/ Added(u) \/ Ended(u)

\* What the accounts, tickets and requests have to do with one another.
Base == /\ TypeOK /\ VersionsCount /\ TicketsFit /\ RequestsStand /\ ZonesHold

Passive == UNCHANGED <<accounts, revoked>>

LEMMA PassiveChanges == TypeOK /\ Passive => Changes
BY DEF TypeOK, Passive, Changes, Same, Account

LEMMA EndsChanges ==
  ASSUME TypeOK, VersionsCount, NEW u \in Users, accounts[u] # None,
         NEW a \in Account, a.ver = NextVersion(u),
         accounts' = [accounts EXCEPT ![u] = a], Ends(u)
  PROVE  Changes
<1>1. revoked[u] = accounts[u].ver /\ revoked[u] \in 0..MaxRevoked /\ accounts[u] \in Account
  BY DEF VersionsCount, TypeOK, Account
<1>2. revoked' = [revoked EXCEPT ![u] = revoked[u] + 1] /\ revoked[u] + 1 \in 0..MaxRevoked
  BY <1>1, AccountsAssumption DEF Ends
<1>3. Ended(u)
  BY <1>1, <1>2 DEF Ended, NextVersion, TypeOK
<1>4. \A v \in Users : v # u => Same(v)
  BY <1>2 DEF Same
<1> QED
  BY <1>2, <1>3, <1>4 DEF Changes, TypeOK, Account

\* Who administers is not lost, unless the administrator himself was deactivated before.
AdminStays(c) ==
  \/ \A u \in Users : Alive(u) => Alive(u)'
  \/ Owner[c] \in Admins /\ (Alive(Owner[c]) => Alive(Owner[c])')

\* What all requests about accounts have in common.
Served(c) ==
  /\ Changes /\ ZonesHold' /\ AdminStays(c)
  /\ request[c] # None /\ Answer(c) /\ UNCHANGED <<login, token, overlapped>>

LEMMA KeptAccounts ==
  ASSUME Changes
  PROVE  \A u \in Users : accounts[u] # None => accounts'[u] # None
BY AccountsAssumption DEF Changes, Same, Activated, Added, Ended

LEMMA ResetServed ==
  ASSUME Base, NEW c \in Clients, ResetPassword(c)
  PROVE  Served(c)
<1> DEFINE r == request[c]
           u == r.user
           a == [accounts[u] EXCEPT !.pass = r.pass, !.ver = NextVersion(u)]
<1>1. /\ r.op = "password" /\ r \in Requests /\ r # None /\ Answer(c)
      /\ UNCHANGED <<zoneName, members, zones, login, token, overlapped>>
  BY DEF ResetPassword, Asked, Base, TypeOK, NoSession
<1>2. u \in Users /\ r.pass \in Passwords
  BY <1>1 DEF Requests
<1>3. CASE Passive
  <2>1. Changes /\ AdminStays(c)
    BY <1>3, PassiveChanges DEF Base, Passive, AdminStays, Alive
  <2> QED
    BY <1>1, <2>1, KeptAccounts, ZonesSame DEF Served, Base
<1>4. CASE accounts[u] # None /\ accounts' = [accounts EXCEPT ![u] = a] /\ Ends(u)
  <2>1. accounts[u] \in Account /\ NextVersion(u) \in 0..MaxRevoked
    BY <1>2, <1>4, AccountsAssumption DEF Base, TypeOK, VersionsCount, Ends, NextVersion, Account
  <2>2. a \in Account /\ a.ver = NextVersion(u) /\ a.active = accounts[u].active
    BY <1>2, <2>1 DEF Account
  <2>3. Changes
    BY <1>2, <1>4, <2>2, EndsChanges DEF Base
  <2>4. AdminStays(c)
    BY <1>4, <2>1, <2>2, AccountsAssumption DEF AdminStays, Alive, Base, TypeOK
  <2> QED
    BY <1>1, <2>3, <2>4, KeptAccounts, ZonesSame DEF Served, Base
<1> QED
  BY <1>3, <1>4 DEF ResetPassword, Passive

LEMMA LogoutServed ==
  ASSUME Base, NEW c \in Clients, Logout(c)
  PROVE  Served(c)
<1> DEFINE u == Owner[c]
           a == [accounts[u] EXCEPT !.ver = NextVersion(u)]
<1>1. /\ request[c] # None /\ Answer(c)
      /\ UNCHANGED <<zoneName, members, zones, login, token, overlapped>>
      /\ accounts' = [accounts EXCEPT ![u] = a] /\ Ends(u)
  BY DEF Logout, Asked, NoSession
<1>2. u \in Users /\ accounts[u] # None
  BY <1>1, AccountsAssumption DEF Base, RequestsStand
<1>3. accounts[u] \in Account /\ NextVersion(u) \in 0..MaxRevoked
  BY <1>1, <1>2, AccountsAssumption DEF Base, TypeOK, VersionsCount, Ends, NextVersion, Account
<1>4. a \in Account /\ a.ver = NextVersion(u) /\ a.active = accounts[u].active
  BY <1>3 DEF Account
<1>5. Changes
  BY <1>1, <1>2, <1>4, EndsChanges DEF Base
<1>6. AdminStays(c)
  BY <1>1, <1>3, <1>4, AccountsAssumption DEF AdminStays, Alive, Base, TypeOK
<1> QED
  BY <1>1, <1>5, <1>6, KeptAccounts, ZonesSame DEF Served, Base

LEMMA AddServed ==
  ASSUME Base, NEW c \in Clients, AddUser(c)
  PROVE  Served(c)
<1> DEFINE r == request[c]
           u == r.user
           a == [active |-> TRUE, pass |-> r.pass, ver |-> 0]
<1>1. /\ r.op = "add" /\ r \in Requests /\ r # None /\ Answer(c)
      /\ UNCHANGED <<zones, revoked, login, token, overlapped>>
  BY DEF AddUser, Asked, Base, TypeOK, NoSession
<1>2. u \in Users /\ r.pass \in Passwords /\ r.zones \in SUBSET ZoneNames
  BY <1>1 DEF Requests
<1>3. CASE UNCHANGED <<accounts, zoneName, members>>
  <2>1. Changes /\ AdminStays(c)
    BY <1>1, <1>3, PassiveChanges DEF Base, Passive, AdminStays, Alive
  <2> QED
    BY <1>1, <1>3, <2>1, KeptAccounts, ZonesSame DEF Served, Base
<1>4. CASE /\ accounts[u] = None /\ MayJoin(u, r.zones)
           /\ accounts' = [accounts EXCEPT ![u] = a] /\ Joins(u, r.zones)
  <2>1. a \in Account /\ a.ver = 0
    BY <1>2, AccountsAssumption DEF Account
  <2>2. accounts'[u] = a /\ \A v \in Users : v # u => accounts'[v] = accounts[v]
    BY <1>2, <1>4 DEF Base, TypeOK
  <2>3. Changes
    BY <1>1, <1>2, <1>4, <2>1, <2>2 DEF Changes, Same, Added, Base, TypeOK
  <2>4. AdminStays(c)
    BY <1>4, <2>2 DEF AdminStays, Alive
  <2>5. ZonesHold'
    BY <1>1, <1>2, <1>4, <2>1, <2>2, <2>3, KeptAccounts, JoinsKeeps, AccountsAssumption DEF Base
  <2> QED
    BY <1>1, <2>3, <2>4, <2>5 DEF Served
<1> QED
  BY <1>3, <1>4 DEF AddUser

\* An administrator does not deactivate the own account.
LEMMA EditServed ==
  ASSUME Base, NEW c \in Clients, EditUser(c)
  PROVE  Served(c)
<1> DEFINE r == request[c]
           u == r.user
           a == [accounts[u] EXCEPT !.active = r.active,
                                    !.ver = IF Deactivates(r) THEN NextVersion(u) ELSE accounts[u].ver]
<1>1. /\ r.op = "edit" /\ r \in Requests /\ r # None /\ Answer(c)
      /\ UNCHANGED <<zones, login, token, overlapped>>
  BY DEF EditUser, Asked, Base, TypeOK, NoSession
<1>2. u \in Users /\ r.active \in BOOLEAN \cup {None} /\ r.zones \in (SUBSET ZoneNames) \cup {None}
  BY <1>1 DEF Requests
<1>3. Owner[c] \in Admins
  BY <1>1 DEF Base, RequestsStand
<1>4. CASE UNCHANGED <<accounts, zoneName, members, revoked>>
  <2>1. Changes /\ AdminStays(c)
    BY <1>4, PassiveChanges DEF Base, Passive, AdminStays, Alive
  <2> QED
    BY <1>1, <1>4, <2>1, KeptAccounts, ZonesSame DEF Served, Base
<1>5. CASE /\ accounts[u] # None /\ (r.zones # None => MayJoin(u, r.zones))
           /\ ~Own(c, r)
           /\ IF r.zones = None THEN UNCHANGED <<zoneName, members>> ELSE Joins(u, r.zones)
           /\ IF r.active = None THEN UNCHANGED <<accounts, revoked>>
              ELSE /\ accounts' = [accounts EXCEPT ![u] = a]
                   /\ IF Deactivates(r) THEN Ends(u) ELSE UNCHANGED revoked
  <2>1. accounts[u] \in Account
    BY <1>2, <1>5 DEF Base, TypeOK
  <2>2. Changes /\ AdminStays(c)
    <3>1. CASE r.active = None
      BY <1>5, <3>1, PassiveChanges DEF Base, Passive, AdminStays, Alive
    <3>2. CASE r.active # None /\ Deactivates(r)
      <4>1. accounts' = [accounts EXCEPT ![u] = a] /\ Ends(u)
        BY <1>5, <3>2
      <4>2. NextVersion(u) \in 0..MaxRevoked
        BY <1>2, <1>5, <2>1, <4>1, AccountsAssumption
           DEF Base, TypeOK, VersionsCount, Ends, NextVersion, Account
      <4>3. a \in Account /\ a.ver = NextVersion(u)
        BY <1>2, <2>1, <3>2, <4>2 DEF Account
      <4>4. Changes
        BY <1>2, <1>5, <4>1, <4>3, EndsChanges DEF Base
      <4>5. u # Owner[c]
        BY <1>5, <3>2 DEF Own, Deactivates
      <4>6. AdminStays(c)
        BY <1>3, <4>1, <4>5 DEF AdminStays, Alive
      <4> QED
        BY <4>4, <4>6
    <3>3. CASE r.active # None /\ ~Deactivates(r)
      <4>1. accounts' = [accounts EXCEPT ![u] = a] /\ UNCHANGED revoked
        BY <1>5, <3>3
      <4>2. /\ a \in Account /\ a.ver = accounts[u].ver /\ a.pass = accounts[u].pass
            /\ a.active = r.active /\ (accounts[u].active => r.active)
        BY <1>2, <2>1, <3>3 DEF Account, Deactivates
      <4>3. accounts'[u] = a /\ \A v \in Users : v # u => accounts'[v] = accounts[v]
        BY <1>2, <4>1 DEF Base, TypeOK
      <4>4. Changes
        BY <1>2, <1>5, <4>1, <4>2, <4>3 DEF Changes, Same, Activated, Base, TypeOK
      <4>5. a # None
        BY <4>2, AccountsAssumption
      <4>6. \A v \in Users : v = u => (Alive(v) => Alive(v)')
        BY <4>2, <4>3, <4>5 DEF Alive
      <4>7. \A v \in Users : v # u => (Alive(v) => Alive(v)')
        BY <4>3 DEF Alive
      <4>8. AdminStays(c)
        BY <4>6, <4>7 DEF AdminStays
      <4> QED
        BY <4>4, <4>8
    <3> QED
      BY <3>1, <3>2, <3>3
  <2>3. ZonesHold'
    <3>1. \A v \in Users : accounts[v] # None => accounts'[v] # None
      BY <2>2, KeptAccounts
    <3>2. CASE r.zones = None
      BY <1>1, <1>5, <3>1, <3>2, ZonesSame DEF Base
    <3>3. CASE r.zones # None
      BY <1>1, <1>2, <1>5, <3>1, <3>3, JoinsKeeps DEF Base
    <3> QED
      BY <3>2, <3>3
  <2> QED
    BY <1>1, <2>2, <2>3 DEF Served
<1>6. CASE accounts[u] = None \/ (r.zones # None /\ ~MayJoin(u, r.zones))
  BY <1>4, <1>6 DEF EditUser
<1>7. CASE /\ accounts[u] # None /\ (r.zones # None => MayJoin(u, r.zones))
           /\ Own(c, r)
  BY <1>4, <1>7 DEF EditUser
<1>8. CASE /\ accounts[u] # None /\ (r.zones # None => MayJoin(u, r.zones))
           /\ ~Own(c, r)
  <2>1. ~(accounts[u] = None \/ (r.zones # None /\ ~MayJoin(u, r.zones)))
    BY <1>8
  <2>2. IF r.zones = None THEN UNCHANGED <<zoneName, members>> ELSE Joins(u, r.zones)
    BY <1>8, <2>1 DEF EditUser
  <2>3. CASE r.active = None
    BY <1>5, <1>8, <2>1, <2>2, <2>3 DEF EditUser
  <2>4. CASE r.active # None
    <3>1. accounts' = [accounts EXCEPT ![u] = a]
      BY <1>8, <2>1, <2>4 DEF EditUser
    <3>2. IF Deactivates(r) THEN Ends(u) ELSE UNCHANGED revoked
      BY <1>8, <2>1, <2>4 DEF EditUser
    <3> QED
      BY <1>5, <1>8, <2>2, <2>4, <3>1, <3>2
  <2> QED
    BY <2>3, <2>4
<1> QED
  BY <1>6, <1>7, <1>8

LEMMA ZoneServed ==
  ASSUME Base, NEW c \in Clients, ReplaceMembers(c) \/ SaveRule(c) \/ DeleteZone(c)
  PROVE  Served(c)
<1>1. Passive /\ request[c] # None /\ Answer(c) /\ UNCHANGED <<login, token, overlapped>>
  BY DEF ReplaceMembers, SaveRule, DeleteZone, Asked, Passive, NoSession
<1>2. Changes /\ AdminStays(c)
  BY <1>1, PassiveChanges DEF Base, Passive, AdminStays, Alive
<1>3. ZonesHold'
  BY ReplaceMembersKeeps, RulesKeep DEF Base
<1> QED
  BY <1>1, <1>2, <1>3 DEF Served

-----------------------------------------------------------------------------
\* The parts of Inv.
Steps == Base /\ SomeAdminRemains

LEMMA ServedStep ==
  ASSUME Steps, NEW c \in Clients, Served(c)
  PROVE  Steps'
<1>1. /\ TypeOK /\ VersionsCount /\ TicketsFit /\ RequestsStand /\ ZonesHold /\ Changes
      /\ request' = [request EXCEPT ![c] = None] /\ request[c] # None
      /\ UNCHANGED <<login, token, overlapped>>
  BY DEF Steps, Base, Served, Answer
<1>2. TypeOK'
  BY <1>1 DEF TypeOK, Changes, Served, ZonesHold
<1>3. VersionsCount'
  BY <1>1, AccountsAssumption DEF VersionsCount, Changes, Same, Activated, Added, Ended, TypeOK, Account
<1>4. ASSUME NEW u \in Users, NEW t \in Tickets, Fits(t, u)
      PROVE  Fits(t, u)'
  BY <1>1, <1>4, AccountsAssumption
     DEF Fits, Changes, Same, Activated, Added, Ended, TypeOK, Account, Tickets
<1>5. TicketsFit'
  BY <1>1, <1>4, AccountsAssumption DEF TicketsFit, TypeOK
<1>6. \A d \in Clients : request'[d] # None =>
        d # c /\ request'[d] = request[d] /\ request[d] # None
  BY <1>1 DEF TypeOK
<1>7. RequestsStand'
  BY <1>1, <1>6, KeptAccounts, AccountsAssumption DEF RequestsStand
<1>8. SomeAdminRemains'
  <2>1. ~overlapped => Alive(Owner[c])
    BY <1>1 DEF RequestsStand
  <2> QED
    BY <1>1, <2>1 DEF Served, AdminStays, Steps, SomeAdminRemains, Users
<1> QED
  BY <1>2, <1>3, <1>5, <1>7, <1>8 DEF Steps, Base, Served

\* A login, its token, and the check of a request.
LEMMA SessionStep ==
  ASSUME Steps, NEW c \in Clients, Login(c) \/ Issue(c) \/ \E r \in Requests : Ask(c, r)
  PROVE  Steps'
<1>1. TypeOK /\ VersionsCount /\ TicketsFit /\ RequestsStand /\ ZonesHold /\ SomeAdminRemains
  BY DEF Steps, Base
<1>2. Owner[c] \in Users
  BY AccountsAssumption
<1>3. UNCHANGED <<accounts, zoneName, members, zones, revoked>>
  BY DEF Login, Issue, Ask
<1>4. VersionsCount' /\ ZonesHold'
  BY <1>1, <1>3, ZonesSame DEF VersionsCount
<1>5. CASE Login(c)
  <2> DEFINE t == [ver |-> accounts[Owner[c]].ver, pass |-> accounts[Owner[c]].pass,
                   at |-> revoked[Owner[c]]]
  <2>1. accounts[Owner[c]] \in Account /\ accounts[Owner[c]] # None
    BY <1>1, <1>2, <1>5 DEF Login, Alive, TypeOK
  <2>2. t \in Tickets /\ Fits(t, Owner[c])
    BY <1>1, <1>2, <2>1, AccountsAssumption DEF TypeOK, Tickets, Fits, VersionsCount, Account
  <2>3. login' = [login EXCEPT ![c] = t] /\ UNCHANGED <<token, request, overlapped>>
    BY <1>5 DEF Login
  <2>4. TypeOK'
    BY <1>1, <1>3, <2>2, <2>3 DEF TypeOK
  <2>5. TicketsFit'
    BY <1>1, <1>3, <2>2, <2>3 DEF TypeOK, TicketsFit, Fits
  <2>6. RequestsStand' /\ SomeAdminRemains'
    BY <1>1, <1>3, <2>3 DEF RequestsStand, SomeAdminRemains, Alive
  <2> QED
    BY <1>4, <2>4, <2>5, <2>6 DEF Steps, Base
<1>6. CASE Issue(c)
  <2>1. /\ token' = [token EXCEPT ![c] = login[c]] /\ login' = [login EXCEPT ![c] = None]
        /\ login[c] # None /\ UNCHANGED <<request, overlapped>>
    BY <1>6 DEF Issue, Issued
  <2>2. TypeOK'
    BY <1>1, <1>3, <2>1 DEF TypeOK
  <2>3. TicketsFit'
    BY <1>1, <1>3, <2>1 DEF TypeOK, TicketsFit, Fits
  <2>4. RequestsStand' /\ SomeAdminRemains'
    BY <1>1, <1>3, <2>1 DEF RequestsStand, SomeAdminRemains, Alive
  <2> QED
    BY <1>4, <2>2, <2>3, <2>4 DEF Steps, Base
<1>7. ASSUME NEW r \in Requests, Ask(c, r)
      PROVE  Steps'
  <2>1. /\ request' = [request EXCEPT ![c] = r] /\ request[c] = None
        /\ Alive(Owner[c]) /\ (r.op # "logout" => Owner[c] \in Admins)
        /\ overlapped' = (overlapped \/ \E d \in Clients : request[d] # None)
        /\ UNCHANGED <<login, token>>
    BY <1>7 DEF Ask, Accepted
  <2>2. TypeOK'
    BY <1>1, <1>3, <2>1 DEF TypeOK
  <2>3. TicketsFit'
    BY <1>1, <1>3, <2>1 DEF TicketsFit, Fits
  <2>4. \A d \in Clients : d # c => request'[d] = request[d]
    BY <2>1
  <2>5. request'[c] = r
    BY <1>1, <2>1 DEF TypeOK
  <2>6. accounts'[Owner[c]] # None /\ Alive(Owner[c])'
    BY <1>3, <2>1 DEF Alive
  <2>7. RequestsStand'
    BY <1>1, <1>3, <2>1, <2>4, <2>5, <2>6 DEF RequestsStand
  <2>8. SomeAdminRemains'
    BY <1>1, <1>3, <2>1 DEF SomeAdminRemains, Alive
  <2> QED
    BY <1>4, <2>2, <2>3, <2>7, <2>8 DEF Steps, Base
<1> QED
  BY <1>5, <1>6, <1>7

LEMMA NextSteps == Steps /\ [Next]_vars => Steps'
<1> SUFFICES ASSUME Steps, [Next]_vars PROVE Steps'
  OBVIOUS
<1>1. ASSUME NEW c \in Clients,
             \/ EditUser(c) \/ ResetPassword(c) \/ Logout(c) \/ AddUser(c)
             \/ ReplaceMembers(c) \/ SaveRule(c) \/ DeleteZone(c)
      PROVE  Steps'
  BY <1>1, EditServed, ResetServed, LogoutServed, AddServed, ZoneServed, ServedStep DEF Steps
<1>2. CASE UNCHANGED vars
  BY <1>2 DEF vars, Steps, Base, TypeOK, VersionsCount, TicketsFit, Fits, RequestsStand,
              ZonesHold, ZonesExist, FirstIsProjected, SomeAdminRemains, Alive
<1> QED
  BY <1>1, <1>2, SessionStep DEF Next

LEMMA InitSteps == Init => Steps
<1> SUFFICES ASSUME Init PROVE Steps
  OBVIOUS
<1>1. PICK there \in {U \in SUBSET Users : U \cap Admins # {}}, p \in Passwords :
        accounts = [u \in Users |-> IF u \in there THEN [active |-> TRUE, pass |-> p, ver |-> 0]
                                    ELSE None]
  BY DEF Init
<1>2. [active |-> TRUE, pass |-> p, ver |-> 0] \in Account
  BY AccountsAssumption DEF Account
<1>3. \A u \in Users : accounts[u] = None \/ (accounts[u] \in Account /\ accounts[u].ver = 0)
  BY <1>1, <1>2
<1>4. TypeOK
  <2>1. accounts \in [Users -> Account \cup {None}]
    BY <1>1, <1>2
  <2>2. 0 \in 0..MaxRevoked
    BY AccountsAssumption
  <2> QED
    BY <2>1, <2>2 DEF Init, TypeOK
<1>5. VersionsCount /\ TicketsFit /\ RequestsStand
  BY <1>3 DEF Init, VersionsCount, TicketsFit, RequestsStand
<1>6. SomeAdminRemains
  BY <1>1, <1>2, AccountsAssumption DEF SomeAdminRemains, Alive, Users
<1>7. ZonesHold
  <2>1. \A u \in Users : sync_legacy(u, members) = None
    BY DEF Init, sync_legacy, Of
  <2> QED
    BY <2>1 DEF Init, ZonesHold, ZonesExist, FirstIsProjected
<1> QED
  BY <1>4, <1>5, <1>6, <1>7 DEF Steps, Base

\* A token that is accepted is of the current version.
LEMMA StepsImplyInv == Steps => Inv
<1> SUFFICES ASSUME Steps PROVE Inv
  OBVIOUS
<1>1. ASSUME NEW c \in Clients, Accepted(c)
      PROVE  token[c].pass = accounts[Owner[c]].pass /\ token[c].at = revoked[Owner[c]]
  BY <1>1, AccountsAssumption
     DEF Accepted, Alive, Steps, Base, TicketsFit, Fits, VersionsCount
<1> QED
  BY <1>1 DEF Steps, Base, Inv, AccountsHold, RevokedStaysOut, ZonesHold

-----------------------------------------------------------------------------
(* The inductive invariant: versions, tickets, requests and memberships    *)
(* agree in every reachable state.                                         *)
THEOREM Invariant == Spec => []Inv
<1>1. Spec => []Steps
  BY InitSteps, NextSteps, PTL DEF Spec
<1> QED
  BY <1>1, StepsImplyInv, PTL

(* Ended sessions stay ended, every zone of a worker has a rule, zone_name *)
(* is the first membership, and requests that do not overlap leave an      *)
(* active administrator.                                                   *)
THEOREM AccountsAlwaysHold == Spec => []AccountsHold
BY Invariant, PTL DEF Inv

(***************************************************************************)
(* ReleaseBackup.                                                          *)
(***************************************************************************)
\* The steps of a program, by what they touch.
LockStep(p) == TakeLock(p) \/ Unlock(p) \/ Kill(p)
CopyStep(p) == ListServices(p) \/ Dump(p) \/ Export(p) \/ Bundle(p)
ServiceStep(p) == Stop(p) \/ Restart(p) \/ Replace(p) \/ ReplaceFails(p) \/ Rollback(p)
PlainStep(p) == Fails(p) \/ Prepare(p) \/ \E r \in Releases : ReadRecord(p, r)
LiveStep == Serve \/ Maintain
FolderStep == (\E f \in Folders : Rehearse(f) \/ Prune(f)) \/ EndRehearsal
HandStep == RemoveLock \/ StartByHand

LEMMA BackupSteps ==
    BackupNext <=> \/ \E p \in Programs : LockStep(p) \/ CopyStep(p) \/ ServiceStep(p) \/ PlainStep(p)
                   \/ LiveStep \/ Tick \/ FolderStep \/ HandStep
BY DEF BackupNext, Work, Backup, Release, LockStep, CopyStep, ServiceStep, PlainStep, LiveStep, FolderStep,
   HandStep

\* The types without the last words on the lock.
BackupTypes ==
    /\ now \in 0..MaxTime /\ row \in [Media -> Rows] /\ until \in [Media -> 0..MaxTime]
    /\ docs \in SUBSET Documents
    /\ up \in SUBSET Services /\ image \in [Services -> Releases] /\ record \in Releases
    /\ lock \in Programs \cup {Nobody}
    /\ at \in [Programs -> {"idle", "read"} \cup Holding]
    /\ seen \in [Programs -> Releases] /\ target \in [Programs -> Releases]
    /\ writers \in [Programs -> SUBSET Services] /\ place \in [Programs -> SUBSET Folders]
    /\ folder \in [Folders -> Contents] /\ restored \in Restored
    /\ kills \in 0..MaxKills /\ trouble \in BOOLEAN

Held == \A p \in Programs : at[p] \in Holding => lock = p

LEMMA BackupTypesSplit == BackupTypeOK <=> BackupTypes /\ Held
BY DEF BackupTypeOK, BackupTypes, Held, Live, Data

LEMMA EmptyTypes == Empty \in Contents /\ NoRehearsal \in Restored
BY BackupAssumption DEF Empty, NoData, Contents, Data, NoRehearsal, Restored, Rows

LEMMA LiveIsData == ASSUME BackupTypes PROVE Live \in Data
BY DEF BackupTypes, Live, Data

LEMMA LiveTypes == ASSUME BackupTypes, LiveStep PROVE BackupTypes'
<1>1. UNCHANGED <<now, services, lock, program, folder, restored, past>>
  BY DEF LiveStep, Serve, Maintain, Quiet
<1>2. row' \in [Media -> Rows] /\ until' \in [Media -> 0..MaxTime] /\ docs' \in SUBSET Documents
  BY BackupAssumption DEF BackupTypes, LiveStep, Serve, Maintain, Publish, Retain, Condemn, Lose, Erase, Consent,
     Becomes, Rows
<1> QED
  BY <1>1, <1>2 DEF BackupTypes, services, program, past

LEMMA TickTypes == ASSUME BackupTypes, Tick PROVE BackupTypes'
BY BackupAssumption DEF BackupTypes, Tick, live, services, program, past

LEMMA HandTypes == ASSUME BackupTypes, HandStep PROVE BackupTypes'
BY DEF BackupTypes, HandStep, RemoveLock, StartByHand, live, services, program, past

LEMMA FolderTypes == ASSUME BackupTypes, FolderStep PROVE BackupTypes'
<1>1. UNCHANGED <<now, live, services, lock, program, past>>
  BY DEF FolderStep, Rehearse, Prune, EndRehearsal
<1>2. folder' \in [Folders -> Contents]
  BY EmptyTypes DEF BackupTypes, FolderStep, Rehearse, Prune, EndRehearsal
<1>3. restored' \in Restored
  <2>1. CASE \E f \in Folders : Rehearse(f)
    <3>1. PICK f \in Folders : Rehearse(f)
      BY <2>1
    <3>2. folder[f] \in Contents
      BY DEF BackupTypes
    <3>3. CASE Matches(folder[f])
      <4>1. \A m \in Media : RestoredRow(folder[f], m) \in Rows \cup {"missing"}
        BY <3>2 DEF RestoredRow, Contents, Data
      <4>2. restored' = [result |-> "pass", row |-> [m \in Media |-> RestoredRow(folder[f], m)],
                         media |-> folder[f].media, docs |-> folder[f].docs]
        BY <3>1, <3>3 DEF Rehearse
      <4> QED
        BY <3>2, <4>1, <4>2 DEF Restored, Contents
    <3>4. CASE ~ Matches(folder[f])
      BY <3>1, <3>4, EmptyTypes DEF Rehearse, NoRehearsal, Restored
    <3> QED
      BY <3>3, <3>4
  <2>2. CASE (\E f \in Folders : Prune(f)) \/ EndRehearsal
    BY <2>2, EmptyTypes DEF Prune, EndRehearsal, BackupTypes
  <2> QED
    BY <2>1, <2>2 DEF FolderStep
<1> QED
  BY <1>1, <1>2, <1>3 DEF BackupTypes, live, services, program, past

LEMMA LockTypes == ASSUME BackupTypes, NEW p \in Programs, LockStep(p) \/ PlainStep(p) PROVE BackupTypes'
<1>1. UNCHANGED <<now, live, services, folder, restored>>
  BY DEF LockStep, PlainStep, TakeLock, Unlock, Kill, Fails, Prepare, ReadRecord, services
<1>2. /\ at' \in [Programs -> {"idle", "read"} \cup Holding]
      /\ seen' \in [Programs -> Releases] /\ target' \in [Programs -> Releases]
  BY DEF BackupTypes, LockStep, PlainStep, TakeLock, Unlock, Kill, Fails, Prepare, ReadRecord, Goes, Holding,
     AfterFailure
<1>3. /\ writers' \in [Programs -> SUBSET Services] /\ place' \in [Programs -> SUBSET Folders]
      /\ lock' \in Programs \cup {Nobody}
  BY DEF BackupTypes, LockStep, PlainStep, TakeLock, Unlock, Kill, Fails, Prepare, ReadRecord
<1>4. kills' \in 0..MaxKills
  BY BackupAssumption DEF BackupTypes, LockStep, PlainStep, TakeLock, Unlock, Kill, Fails, Prepare, ReadRecord, past
<1>5. trouble' \in BOOLEAN
  BY DEF BackupTypes, LockStep, PlainStep, TakeLock, Unlock, Kill, Fails, Prepare, ReadRecord, past
<1> QED
  BY <1>1, <1>2, <1>3, <1>4, <1>5 DEF BackupTypes, live, services

LEMMA ServiceTypes == ASSUME BackupTypes, NEW p \in Programs, ServiceStep(p) PROVE BackupTypes'
<1>1. UNCHANGED <<now, live, lock, seen, writers, place, target, restored, kills>>
  BY DEF ServiceStep, Stop, Restart, Replace, ReplaceFails, Rollback, past
<1>2. at' \in [Programs -> {"idle", "read"} \cup Holding]
  BY DEF BackupTypes, ServiceStep, Stop, Restart, Replace, ReplaceFails, Rollback, Goes, Holding
<1>3. up' \in SUBSET Services
  BY DEF BackupTypes, ServiceStep, Stop, Restart, Replace, ReplaceFails, Rollback, Puts, RestoreServices
<1>4. image' \in [Services -> Releases]
  <2>1. UNCHANGED image \/ \E changed \in SUBSET Services, r \in Releases :
           image' = [s \in Services |-> IF s \in changed THEN r ELSE image[s]]
    BY DEF BackupTypes, ServiceStep, Stop, Restart, Replace, ReplaceFails, Rollback, Puts, RestoreServices
  <2> QED
    BY <2>1 DEF BackupTypes
<1>5. record' \in Releases
  BY DEF BackupTypes, ServiceStep, Stop, Restart, Replace, ReplaceFails, Rollback
<1>6. folder' \in [Folders -> Contents]
  BY EmptyTypes DEF BackupTypes, ServiceStep, Stop, Restart, Replace, ReplaceFails, Rollback, Clean
<1>7. trouble' \in BOOLEAN
  BY Zenon DEF BackupTypes, ServiceStep, Stop, Restart, Replace, ReplaceFails, Rollback, past
<1> QED
  BY <1>1, <1>2, <1>3, <1>4, <1>5, <1>6, <1>7 DEF BackupTypes, live

\* The folder a program has is one of the folders.
LEMMA SnapshotType ==
    ASSUME BackupTypes, NEW p \in Programs, place[p] # {}
    PROVE  Snapshot(p) \in Contents
<1>1. \A g : g \in place[p] => g \in Folders
  BY DEF BackupTypes
<1>2. (CHOOSE g \in place[p] : TRUE) \in place[p]
  OBVIOUS
<1> QED
  BY <1>1, <1>2 DEF Snapshot, BackupTypes

LEMMA ExpiresType ==
    ASSUME BackupTypes, NEW media \in SUBSET Media
    PROVE  /\ Expires(media) \in Nat /\ Expires(media) =< now + Day
           /\ \A m \in media : Expires(media) =< until[m]
<1> DEFINE ends == {now + Day} \cup {until[m] : m \in media}
<1>1. ends \in SUBSET Nat /\ ends # {}
  BY BackupAssumption DEF BackupTypes
<1>2. Min(ends) \in ends /\ \A y \in ends : Min(ends) =< y
  BY <1>1, FirstIsLeast
<1> QED
  BY <1>1, <1>2 DEF Expires

LEMMA CopyTypes == ASSUME BackupTypes, NEW p \in Programs, CopyStep(p) PROVE BackupTypes'
<1>1. UNCHANGED <<now, live, services, lock, seen, target, restored, past>>
  BY DEF CopyStep, ListServices, Dump, Export, Bundle
<1>2. at' \in [Programs -> {"idle", "read"} \cup Holding]
  BY DEF BackupTypes, CopyStep, ListServices, Dump, Export, Bundle, Goes, Holding
<1>3. writers' \in [Programs -> SUBSET Services] /\ place' \in [Programs -> SUBSET Folders]
  BY DEF BackupTypes, CopyStep, ListServices, Dump, Export, Bundle, Found
<1>4. folder' \in [Folders -> Contents]
  <2>1. CASE ListServices(p)
    BY <2>1 DEF ListServices, BackupTypes, Contents
  <2>2. ASSUME NEW content \in Contents, Writes(p, content)
        PROVE  folder' \in [Folders -> Contents]
    BY <2>2 DEF Writes, BackupTypes
  <2>4. CASE Dump(p)
    <3>1. [Snapshot(p) EXCEPT !.stage = "dumped", !.dump = Live] \in Contents
      BY <2>4, SnapshotType, LiveIsData DEF Dump, Writes, Contents
    <3> QED
      BY <2>2, <2>4, <3>1 DEF Dump
  <2>5. CASE Export(p)
    <3> DEFINE media == {m \in Media : Eligible(m)}
    <3>1. Writes(p, [Snapshot(p) EXCEPT !.stage = "exported", !.media = media, !.docs = docs,
                                        !.expires = Expires(media)])
      BY <2>5 DEF Export
    <3>2. Snapshot(p) \in Contents
      BY <3>1, SnapshotType DEF Writes
    <3>3. Expires(media) \in Nat
      BY ExpiresType
    <3> HIDE DEF media
    <3>4. media \in SUBSET Media
      BY DEF media
    <3>5. [Snapshot(p) EXCEPT !.stage = "exported", !.media = media, !.docs = docs,
                              !.expires = Expires(media)] \in Contents
      BY <3>2, <3>3, <3>4 DEF Contents, BackupTypes
    <3> QED
      BY <2>2, <3>1, <3>5
  <2>6. CASE Bundle(p)
    <3>1. [Snapshot(p) EXCEPT !.stage = "bundled"] \in Contents
      BY <2>6, SnapshotType DEF Bundle, Writes, Contents
    <3> QED
      BY <2>2, <2>6, <3>1 DEF Bundle
  <2> QED
    BY <2>1, <2>4, <2>5, <2>6 DEF CopyStep
<1> QED
  BY <1>1, <1>2, <1>3, <1>4 DEF BackupTypes, live, services, past

-----------------------------------------------------------------------------
ProgramStep(p) == LockStep(p) \/ CopyStep(p) \/ ServiceStep(p) \/ PlainStep(p)

\* A step of a program leaves what the others do, and have read and found.
LEMMA OthersStay ==
    ASSUME BackupTypes, NEW p \in Programs, ProgramStep(p), NEW q \in Programs, q # p
    PROVE  at'[q] = at[q] /\ seen'[q] = seen[q] /\ writers'[q] = writers[q] /\ place'[q] = place[q]
<1> USE DEF BackupTypes
<1>1. CASE LockStep(p)
  BY <1>1 DEF LockStep, TakeLock, Unlock, Kill, Goes
<1>2. CASE CopyStep(p)
  BY <1>2 DEF CopyStep, ListServices, Dump, Export, Bundle, Goes
<1>3. CASE ServiceStep(p)
  BY <1>3 DEF ServiceStep, Stop, Restart, Replace, ReplaceFails, Rollback, Goes
<1>4. CASE PlainStep(p)
  BY <1>4 DEF PlainStep, Fails, Prepare, ReadRecord, Goes
<1> QED
  BY <1>1, <1>2, <1>3, <1>4 DEF ProgramStep

\* Only who has the lock is at work; nobody else is, before the step and after.
LEMMA WorksAlone ==
    ASSUME BackupTypes, Held, NEW p \in Programs, ProgramStep(p), at[p] \in Holding,
           NEW q \in Programs, q # p
    PROVE  at[q] \notin Holding /\ at'[q] \notin Holding
BY OthersStay DEF Held

\* A program that is not at work takes the lock if nobody has it, or reads.
LEMMA BeginsAlone ==
    ASSUME BackupTypes, NEW p \in Programs, ProgramStep(p), at[p] \notin Holding
    PROVE  /\ UNCHANGED <<now, live, services, folder, restored, past, writers, place>>
           /\ \/ at[p] = "read" /\ lock = Nobody /\ lock' = p /\ at'[p] = "locked" /\ UNCHANGED seen
              \/ at[p] = "read" /\ at'[p] = "idle" /\ UNCHANGED <<lock, seen>>
              \/ at[p] = "idle" /\ at'[p] = "read" /\ UNCHANGED lock /\ seen'[p] = record
<1>1. TakeLock(p) \/ \E r \in Releases : ReadRecord(p, r)
  BY DEF ProgramStep, LockStep, CopyStep, ServiceStep, PlainStep, Unlock, Kill, ListServices, Dump, Export, Bundle,
     Stop, Restart, Replace, ReplaceFails, Rollback, Fails, Prepare, Holding
<1> QED
  BY <1>1 DEF TakeLock, ReadRecord, MayLock, Goes, BackupTypes, live, services, past

LEMMA HeldStep == ASSUME BackupTypes, Held, BackupNext PROVE Held'
<1> SUFFICES ASSUME NEW q \in Programs, at'[q] \in Holding PROVE lock' = q
  BY DEF Held
<1>1. CASE LiveStep \/ Tick \/ FolderStep
  BY <1>1 DEF Held, LiveStep, Tick, FolderStep, Serve, Maintain, Quiet, Rehearse, Prune, EndRehearsal, program
<1>2. CASE HandStep
  BY <1>2 DEF Held, HandStep, RemoveLock, StartByHand, Dead, program
<1>3. ASSUME NEW p \in Programs, ProgramStep(p) PROVE lock' = q
  <2>1. CASE at[p] \in Holding
    <3>1. q = p
      BY <1>3, <2>1, WorksAlone
    <3>2. ~ Unlock(p)
      BY <3>1 DEF Unlock, Goes, Holding, BackupTypes
    <3>3. UNCHANGED lock
      BY <1>3, <2>1, <3>2 DEF ProgramStep, LockStep, CopyStep, ServiceStep, PlainStep, TakeLock, Kill, ListServices,
         Dump, Export, Bundle, Stop, Restart, Replace, ReplaceFails, Rollback, Fails, Prepare, ReadRecord, Holding
    <3> QED
      BY <2>1, <3>1, <3>3 DEF Held
  <2>2. CASE at[p] \notin Holding
    <3>1. CASE q = p
      BY <1>3, <2>2, <3>1, BeginsAlone DEF Holding
    <3>2. CASE q # p
      <4>1. at[q] \in Holding
        BY <1>3, <3>2, OthersStay
      <4>2. lock = q /\ lock # Nobody
        BY <4>1, BackupAssumption DEF Held, Programs
      <4> QED
        BY <1>3, <2>2, <4>2, BeginsAlone
    <3> QED
      BY <3>1, <3>2
  <2> QED
    BY <2>1, <2>2
<1> QED
  BY <1>1, <1>2, <1>3, BackupSteps DEF ProgramStep

-----------------------------------------------------------------------------
\* Nothing writes while a backup copies, for it has stopped what ran.
QuietParts == NothingWritesMeanwhile /\ StopsAll /\ PlacesFit

LEMMA QuietStep ==
    ASSUME BackupTypes, Held, QuietParts, BackupNext
    PROVE  QuietParts'
<1> USE DEF QuietParts
<1>1. CASE LiveStep \/ Tick \/ FolderStep
  BY <1>1 DEF NothingWritesMeanwhile, StopsAll, PlacesFit, LiveStep, Tick, FolderStep, Serve, Maintain, Quiet,
     Rehearse, Prune, EndRehearsal, program, services
<1>2. CASE RemoveLock
  BY <1>2 DEF NothingWritesMeanwhile, StopsAll, PlacesFit, RemoveLock, program, services
<1>3. CASE StartByHand
  <2>1. \A q \in Programs : at[q] \notin Holding
    BY <1>3, BackupAssumption DEF StartByHand, Dead, Held, Programs
  <2>2. UNCHANGED at
    BY <1>3 DEF StartByHand, program
  <2> QED
    BY <2>1, <2>2 DEF NothingWritesMeanwhile, StopsAll, PlacesFit, Holding
<1>4. ASSUME NEW p \in Programs, ProgramStep(p) PROVE QuietParts'
  <2>1. CASE at[p] \notin Holding
    <3>1. UNCHANGED <<up, writers, place>> /\ at'[p] \in {"locked", "idle", "read"}
      BY <1>4, <2>1, BeginsAlone DEF services
    <3>2. \A q \in Programs : at'[q] = at[q] \/ at'[q] \in {"locked", "idle", "read"}
      BY <1>4, <3>1, OthersStay
    <3> QED
      BY <3>1, <3>2 DEF NothingWritesMeanwhile, StopsAll, PlacesFit
  <2>2. CASE at[p] \in Holding
    <3>1. \A q \in Programs : q # p => at'[q] \notin Holding
      BY <1>4, <2>2, WorksAlone
    <3>2. at'[p] \in {"dump", "export"} => up' = {}
      BY <1>4, <2>2 DEF ProgramStep, LockStep, CopyStep, ServiceStep, PlainStep, TakeLock, Unlock, Kill,
         ListServices, Dump, Export, Bundle, Stop, Restart, Replace, ReplaceFails, Rollback, Fails, Prepare,
         ReadRecord, Holding, Goes, AfterFailure, NothingWritesMeanwhile, StopsAll, BackupTypes, services
    <3>3. at'[p] = "stop" => up' \subseteq writers'[p]
      BY <1>4, <2>2 DEF ProgramStep, LockStep, CopyStep, ServiceStep, PlainStep, TakeLock, Unlock, Kill,
         ListServices, Dump, Export, Bundle, Stop, Restart, Replace, ReplaceFails, Rollback, Fails, Prepare,
         ReadRecord, Holding, Goes, AfterFailure, Found, BackupTypes, services
    <3>4. at'[p] \in {"stop", "dump", "export", "bundle", "restart"} => \E f \in Folders : place'[p] = {f}
      BY <1>4, <2>2 DEF ProgramStep, LockStep, CopyStep, ServiceStep, PlainStep, TakeLock, Unlock, Kill,
         ListServices, Dump, Export, Bundle, Stop, Restart, Replace, ReplaceFails, Rollback, Fails, Prepare,
         ReadRecord, Holding, Goes, AfterFailure, PlacesFit, BackupTypes
    <3> QED
      BY <3>1, <3>2, <3>3, <3>4 DEF NothingWritesMeanwhile, StopsAll, PlacesFit, Holding
  <2> QED
    BY <2>1, <2>2
<1> QED
  BY <1>1, <1>2, <1>3, <1>4, BackupSteps DEF ProgramStep, HandStep

-----------------------------------------------------------------------------
\* Dump and export speak of one moment, because nothing writes in between.
LEMMA FaithfulStep ==
    ASSUME BackupTypes, Held, QuietParts, FoldersFaithful, BackupNext
    PROVE  FoldersFaithful'
<1> USE DEF FoldersFaithful
<1>1. CASE LiveStep
  <2>1. \A q \in Programs : at[q] # "export"
    BY <1>1 DEF QuietParts, NothingWritesMeanwhile, LiveStep, Serve, Maintain
  <2>2. UNCHANGED <<folder, at, place>>
    BY <1>1 DEF LiveStep, Serve, Maintain, Quiet, program
  <2> QED
    BY <2>1, <2>2 DEF Faithful
<1>2. CASE Tick \/ HandStep
  <2>1. UNCHANGED <<live, folder, at, place>>
    BY <1>2 DEF Tick, HandStep, RemoveLock, StartByHand, program
  <2> QED
    BY <2>1 DEF Faithful, live, Live
<1>3. CASE FolderStep
  <2>1. UNCHANGED <<live, at, place>>
    BY <1>3 DEF FolderStep, Rehearse, Prune, EndRehearsal, program
  <2>2. CASE UNCHANGED folder
    BY <2>1, <2>2 DEF Faithful, live, Live
  <2>3. CASE \E f \in Folders : Prune(f)
    <3>1. PICK f \in Folders : Prune(f)
      BY <2>3
    <3>2. /\ folder[f].stage = "bundled" /\ folder'[f].stage = "none"
          /\ \A g \in Folders \ {f} : folder'[g] = folder[g]
      BY <3>1 DEF Prune, Empty, BackupTypes
    <3>3. \A g \in Folders : folder[g].stage # "bundled" => folder'[g] = folder[g]
      BY <3>2
    <3>4. \A q \in Programs : place[q] \subseteq Folders
      BY DEF BackupTypes
    <3>5. \A g \in Folders : folder'[g].stage \in {"exported", "bundled"} => Faithful(folder'[g])
      BY <3>2
    <3>6. ASSUME NEW q \in Programs, NEW g \in place[q]
          PROVE  /\ at'[q] = "export" => folder'[g].stage = "dumped" /\ folder'[g].dump = Live'
                 /\ at'[q] = "bundle" => folder'[g].stage = "exported"
      <4>1. g \in Folders
        BY <3>4
      <4> QED
        BY <2>1, <3>3, <4>1 DEF live, Live
    <3> QED
      BY <2>1, <3>5, <3>6 DEF Faithful
  <2> QED
    BY <1>3, <2>2, <2>3 DEF FolderStep, Rehearse, EndRehearsal
<1>4. ASSUME NEW p \in Programs, ProgramStep(p) PROVE FoldersFaithful'
  <2>0. UNCHANGED live
    BY <1>4 DEF ProgramStep, LockStep, CopyStep, ServiceStep, PlainStep, TakeLock, Unlock, Kill, ListServices, Dump,
       Export, Bundle, Stop, Restart, Replace, ReplaceFails, Rollback, Fails, Prepare, ReadRecord
  <2>1. CASE at[p] \notin Holding
    <3>1. UNCHANGED <<folder, place>> /\ at'[p] \in {"locked", "idle", "read"}
      BY <1>4, <2>1, BeginsAlone
    <3>2. \A q \in Programs : at'[q] = at[q] \/ at'[q] \in {"locked", "idle", "read"}
      BY <1>4, <3>1, OthersStay
    <3> QED
      BY <2>0, <3>1, <3>2 DEF Faithful, live, Live
  <2>2. CASE at[p] \in Holding
    <3>1. \A q \in Programs : q # p => at'[q] \notin Holding
      BY <1>4, <2>2, WorksAlone
    <3>2. SUFFICES
            /\ \A f \in Folders : folder'[f].stage \in {"exported", "bundled"} => Faithful(folder'[f])
            /\ \A f \in place'[p] :
                 /\ at'[p] = "export" => folder'[f].stage = "dumped" /\ folder'[f].dump = Live'
                 /\ at'[p] = "bundle" => folder'[f].stage = "exported"
      BY <3>1 DEF Holding, Faithful
    <3>3. CASE ListServices(p)
      <4>1. at'[p] \in {"stop", "unlock"}
        BY <3>3 DEF ListServices, Goes, BackupTypes
      <4>2. \A f \in Folders : folder'[f] = folder[f] \/ folder'[f].stage = "open"
        BY <3>3 DEF ListServices, BackupTypes, Contents
      <4> QED
        BY <4>1, <4>2
    <3>4. ASSUME NEW f \in Folders, NEW content \in Contents, place[p] = {f},
                 folder' = [folder EXCEPT ![f] = content], UNCHANGED place
          PROVE  folder'[f] = content /\ place'[p] = {f} /\ \A g \in Folders \ {f} : folder'[g] = folder[g]
      BY <3>4 DEF BackupTypes
    <3>5. CASE Dump(p) \/ Export(p) \/ Bundle(p)
      <4>1. PICK f \in Folders : place[p] = {f}
        BY <3>5 DEF QuietParts, PlacesFit, Dump, Export, Bundle
      <4>2. Snapshot(p) = folder[f] /\ folder[f] \in Contents
        BY <4>1 DEF Snapshot, BackupTypes
      <4>3. UNCHANGED place
        BY <3>5 DEF Dump, Export, Bundle
      <4>4. CASE Dump(p)
        <5> DEFINE content == [folder[f] EXCEPT !.stage = "dumped", !.dump = Live]
        <5>1. folder' = [folder EXCEPT ![f] = content]
          BY <4>1, <4>2, <4>4 DEF Dump, Writes
        <5>2. content \in Contents /\ content.stage = "dumped" /\ content.dump = Live
          BY <4>2, LiveIsData DEF Contents
        <5>3. at'[p] = "export" /\ Live' = Live
          BY <2>0, <4>4 DEF Dump, Goes, BackupTypes, live, Live
        <5> HIDE DEF content
        <5>4. folder'[f] = content /\ place'[p] = {f} /\ \A g \in Folders \ {f} : folder'[g] = folder[g]
          BY <3>4, <4>1, <4>3, <5>1, <5>2
        <5>5. \A g \in place'[p] : folder'[g].stage = "dumped" /\ folder'[g].dump = Live'
          BY <5>2, <5>3, <5>4
        <5>6. \A g \in Folders : folder'[g].stage \in {"exported", "bundled"} => Faithful(folder'[g])
          BY <5>2, <5>4
        <5> QED
          BY <5>3, <5>5, <5>6
      <4>5. CASE Export(p)
        <5> DEFINE media == {m \in Media : Eligible(m)}
                   content == [folder[f] EXCEPT !.stage = "exported", !.media = media, !.docs = docs,
                                                !.expires = Expires(media)]
        <5>1. folder' = [folder EXCEPT ![f] = content] /\ \A m \in media : row[m] # "lost"
          BY <4>1, <4>2, <4>5 DEF Export, Writes
        <5>2. folder[f].dump = Live
          BY <4>1, <4>5 DEF Export
        <5>3. media \in SUBSET Media /\ \A m \in media : row[m] \in {"retained", "lost"}
          BY DEF Eligible
        <5> HIDE DEF media
        <5>4. Expires(media) \in Nat /\ \A m \in media : Expires(media) =< until[m]
          BY <5>3, ExpiresType
        <5>5. /\ content \in Contents /\ content.stage = "exported" /\ content.dump = Live
              /\ content.media = media /\ content.docs = docs /\ content.expires = Expires(media)
          BY <4>2, <5>2, <5>3, <5>4 DEF Contents, BackupTypes
        <5>6. at'[p] = "bundle"
          BY <4>5 DEF Export, Goes, BackupTypes
        <5> HIDE DEF content
        <5>7. Faithful(content)
          BY <5>1, <5>3, <5>4, <5>5 DEF Faithful, Live
        <5>8. folder'[f] = content /\ place'[p] = {f} /\ \A g \in Folders \ {f} : folder'[g] = folder[g]
          BY <3>4, <4>1, <4>3, <5>1, <5>5
        <5>9. \A g \in Folders : folder'[g].stage \in {"exported", "bundled"} => Faithful(folder'[g])
          BY <5>7, <5>8
        <5> QED
          BY <5>5, <5>6, <5>8, <5>9
      <4>6. CASE Bundle(p)
        <5> DEFINE content == [folder[f] EXCEPT !.stage = "bundled"]
        <5>1. folder' = [folder EXCEPT ![f] = content]
          BY <4>1, <4>2, <4>6 DEF Bundle, Writes
        <5>2. Faithful(folder[f])
          BY <4>1, <4>6 DEF Bundle
        <5>3. content \in Contents /\ Faithful(content)
          BY <4>2, <5>2 DEF Contents, Faithful
        <5>4. at'[p] = "restart"
          BY <4>6 DEF Bundle, Goes, BackupTypes
        <5> HIDE DEF content
        <5> QED
          BY <3>4, <4>1, <4>3, <5>1, <5>3, <5>4
      <4> QED
        BY <3>5, <4>4, <4>5, <4>6
    <3>6. CASE Restart(p)
      <4>1. at'[p] = "unlock"
        BY <3>6 DEF Restart, Goes, BackupTypes
      <4>2. \A f \in Folders : folder'[f] \in {folder[f], Empty}
        BY <3>6 DEF Restart, Clean
      <4>3. Empty.stage = "none"
        BY DEF Empty
      <4> QED
        BY <4>1, <4>2, <4>3
    <3>7. CASE LockStep(p) \/ PlainStep(p) \/ Stop(p) \/ Replace(p) \/ ReplaceFails(p) \/ Rollback(p)
      <4>1. UNCHANGED folder
        BY <3>7 DEF LockStep, PlainStep, TakeLock, Unlock, Kill, Fails, Prepare, ReadRecord, Stop, Replace,
           ReplaceFails, Rollback
      <4>2. at'[p] \notin {"export", "bundle"}
        BY <3>7 DEF LockStep, PlainStep, TakeLock, Unlock, Kill, Fails, Prepare, ReadRecord, Stop, Replace,
           ReplaceFails, Rollback, Goes, AfterFailure, BackupTypes
      <4> QED
        BY <4>1, <4>2
    <3> QED
      BY <1>4, <3>3, <3>5, <3>6, <3>7 DEF ProgramStep, CopyStep, ServiceStep
  <2> QED
    BY <2>1, <2>2
<1> QED
  BY <1>1, <1>2, <1>3, <1>4, BackupSteps DEF ProgramStep

\* What is bundled matches the dump, so no rehearsal fails.
LEMMA RestoreStep ==
    ASSUME BackupTypes, FoldersFaithful, SnapshotsRestore, BackupNext
    PROVE  SnapshotsRestore'
<1>1. CASE \E f \in Folders : Rehearse(f)
  <2>1. PICK f \in Folders : Rehearse(f)
    BY <1>1
  <2>2. folder[f] \in Contents /\ Faithful(folder[f]) /\ now < folder[f].expires
    BY <2>1 DEF Rehearse, Valid, FoldersFaithful, BackupTypes
  <2>3. Matches(folder[f])
    BY <2>2 DEF Matches, Faithful, Contents, Data, BackupTypes
  <2>4. restored' = [result |-> "pass", row |-> [m \in Media |-> RestoredRow(folder[f], m)],
                     media |-> folder[f].media, docs |-> folder[f].docs]
    BY <2>1, <2>3 DEF Rehearse
  <2> QED
    BY <2>4 DEF SnapshotsRestore, RestoredRow
<1>2. CASE EndRehearsal
  BY <1>2 DEF EndRehearsal, SnapshotsRestore, NoRehearsal
<1>3. CASE UNCHANGED restored
  BY <1>3 DEF SnapshotsRestore
<1>4. UNCHANGED restored \/ EndRehearsal \/ \E f \in Folders : Rehearse(f)
  BY BackupSteps DEF LockStep, CopyStep, ServiceStep, PlainStep, TakeLock, Unlock, Kill, ListServices, Dump, Export,
     Bundle, Stop, Restart, Replace, ReplaceFails, Rollback, Fails, Prepare, ReadRecord, LiveStep, Serve, Maintain,
     Quiet, Tick, FolderStep, Prune, HandStep, RemoveLock, StartByHand
<1> QED
  BY <1>1, <1>2, <1>3, <1>4

\* A snapshot ends with the retention of its pictures.
LEMMA RetentionHolds == BackupTypes /\ FoldersFaithful => RetentionEndsSnapshots
BY DEF RetentionEndsSnapshots, FoldersFaithful, Faithful, Valid, BackupTypes, Contents, Data

-----------------------------------------------------------------------------
\* Unless there was trouble the services are as the record says whenever
\* nobody works on them.
RunParts == RecordIsRunning /\ RecordIsSeen /\ WorkIsSafe

LEMMA SeenStep == ASSUME BackupTypes, Held, RecordIsSeen, BackupNext PROVE RecordIsSeen'
<1> USE DEF RecordIsSeen
<1>1. CASE LiveStep \/ Tick \/ FolderStep \/ HandStep
  BY <1>1 DEF LiveStep, Tick, FolderStep, HandStep, Serve, Maintain, Quiet, Rehearse, Prune, EndRehearsal, RemoveLock,
     StartByHand, program, services
<1>2. ASSUME NEW p \in Programs, ProgramStep(p), NEW q \in Programs
      PROVE  /\ at'[q] \in {"replace", "rollback"} => q \in Releasers
             /\ ReleasesTakeTurns /\ q \in Releasers /\ at'[q] \in {"read", "locked", "replace", "rollback"}
                  => seen'[q] = record'
  <2>1. CASE Replace(p)
    <3>1. at[p] = "replace" /\ at'[p] = "unlock"
      BY <2>1 DEF Replace, Goes, BackupTypes
    <3>2. ReleasesTakeTurns /\ q \in Releasers => q = p
      BY <3>1 DEF ReleasesTakeTurns
    <3>3. q # p => at'[q] = at[q]
      BY <1>2, OthersStay
    <3> QED
      BY <3>1, <3>2, <3>3
  <2>2. CASE ~ Replace(p)
    <3>1. UNCHANGED record
      BY <1>2, <2>2 DEF ProgramStep, LockStep, CopyStep, ServiceStep, PlainStep, TakeLock, Unlock, Kill, ListServices,
         Dump, Export, Bundle, Stop, Restart, ReplaceFails, Rollback, Fails, Prepare, ReadRecord, services
    <3>2. CASE q # p
      BY <1>2, <3>1, <3>2, OthersStay
    <3>3. CASE q = p
      <4>1. CASE at[p] \in Holding
        BY <1>2, <2>2, <3>1, <3>3, <4>1 DEF ProgramStep, LockStep, CopyStep, ServiceStep, PlainStep, TakeLock, Unlock,
           Kill, ListServices, Dump, Export, Bundle, Stop, Restart, ReplaceFails, Rollback, Fails, Prepare, ReadRecord,
           Holding, Goes, AfterFailure, BackupTypes
      <4>2. CASE at[p] \notin Holding
        BY <1>2, <3>1, <3>3, <4>2, BeginsAlone
      <4> QED
        BY <4>1, <4>2
    <3> QED
      BY <3>2, <3>3
  <2> QED
    BY <2>1, <2>2
<1> QED
  BY <1>1, <1>2, BackupSteps DEF ProgramStep

LEMMA SafeStep ==
    ASSUME BackupTypes, Held, QuietParts, RunParts, BackupNext
    PROVE  RecordIsRunning' /\ WorkIsSafe'
<1> USE DEF RunParts
<1>1. CASE LiveStep \/ Tick \/ FolderStep
  <2>1. UNCHANGED <<up, image, record, lock, at, writers, trouble>>
    BY <1>1 DEF LiveStep, Tick, FolderStep, Serve, Maintain, Quiet, Rehearse, Prune, EndRehearsal, program, services,
       past
  <2> QED
    BY <2>1 DEF RecordIsRunning, WorkIsSafe, ImagesFit
<1>2. CASE HandStep
  <2>1. UNCHANGED trouble
    BY <1>2 DEF HandStep, RemoveLock, StartByHand, past
  <2>2. ~ trouble => ~ Dead /\ (lock = Nobody => up = Services)
    BY DEF WorkIsSafe, Dead, RecordIsRunning
  <2>3. trouble
    BY <1>2, <2>2 DEF HandStep, RemoveLock, StartByHand
  <2> QED
    BY <2>1, <2>3 DEF RecordIsRunning, WorkIsSafe
<1>3. ASSUME NEW p \in Programs, ProgramStep(p), at[p] \notin Holding
      PROVE  RecordIsRunning' /\ WorkIsSafe'
  <2>1. /\ UNCHANGED <<up, image, record, writers, trouble>>
        /\ \A q \in Programs : at'[q] = at[q] \/ (q = p /\ at'[q] \in {"locked", "idle", "read"})
    BY <1>3, BeginsAlone, OthersStay DEF services, past
  <2>2. CASE UNCHANGED lock
    <3>1. at'[p] \notin Holding
      BY <1>3, <2>2, BeginsAlone, BackupAssumption DEF Holding, Programs
    <3>2. \A q \in Programs : at'[q] \in Holding => at'[q] = at[q]
      BY <2>1, <3>1
    <3>3. at[lock] \in Holding => lock # p
      BY <1>3
    <3>4. lock \in Programs /\ at[lock] \in Holding => at'[lock] \in Holding
      BY <2>1, <3>3
    <3> QED
      BY <2>1, <2>2, <3>2, <3>4 DEF RecordIsRunning, WorkIsSafe, ImagesFit, Holding
  <2>3. CASE lock = Nobody /\ lock' = p /\ at'[p] = "locked"
    <3>1. \A q \in Programs : q # p => at'[q] \notin Holding
      BY <2>1, <2>3, BackupAssumption DEF Held, Programs
    <3>2. lock' # Nobody
      BY <2>3, BackupAssumption DEF Programs
    <3> QED
      BY <2>1, <2>3, <3>1, <3>2 DEF RecordIsRunning, WorkIsSafe, ImagesFit, Holding
  <2> QED
    BY <1>3, <2>2, <2>3, BeginsAlone
<1>4. ASSUME NEW p \in Programs, ProgramStep(p), at[p] \in Holding
      PROVE  RecordIsRunning' /\ WorkIsSafe'
  <2>1. \A q \in Programs : q # p => at'[q] \notin Holding
    BY <1>4, WorksAlone
  <2>2. lock = p /\ lock # Nobody
    BY <1>4, BackupAssumption DEF Held, Programs
  <2>3. SUFFICES ASSUME ~ trouble'
                 PROVE  /\ lock' = Nobody => up' = Services /\ ImagesFit'
                        /\ lock' # Nobody => lock' = p /\ at'[p] \in Holding
                        /\ at'[p] \in {"locked", "replace", "unlock"} => up' = Services /\ ImagesFit'
                        /\ at'[p] \in {"stop", "dump", "export", "bundle", "restart"}
                              => writers'[p] = Services /\ ImagesFit'
    BY <2>1 DEF RecordIsRunning, WorkIsSafe, Holding
  <2>4. ~ Kill(p)
    BY <2>3 DEF Kill
  <2>5. CASE Unlock(p)
    <3>1. ~ trouble /\ UNCHANGED <<up, image, record>> /\ at[p] = "unlock" /\ at'[p] = "idle" /\ lock' = Nobody
      BY <2>3, <2>5 DEF Unlock, Goes, BackupTypes, services, past
    <3> QED
      BY <3>1 DEF WorkIsSafe, ImagesFit
  <2>6. CASE PlainStep(p) \/ CopyStep(p)
    <3>1. ~ trouble /\ UNCHANGED <<up, image, record, lock>>
      BY <2>3, <2>6 DEF PlainStep, CopyStep, Fails, Prepare, ReadRecord, ListServices, Dump, Export, Bundle, services,
         past
    <3>2. /\ at'[p] \in {"replace", "unlock"} => at[p] = "locked"
          /\ at'[p] = "stop" => at[p] = "locked" /\ writers'[p] = up
          /\ at'[p] \in {"dump", "export", "bundle", "restart"}
                => at[p] \in {"dump", "export", "bundle"} /\ writers'[p] = writers[p]
          /\ at'[p] \in Holding \ {"locked", "rollback"}
      BY <1>4, <2>6 DEF PlainStep, CopyStep, Fails, Prepare, ReadRecord, ListServices, Dump, Export, Bundle, Goes,
         AfterFailure, Found, BackupTypes, Holding
    <3> QED
      BY <2>2, <3>1, <3>2 DEF WorkIsSafe, ImagesFit
  <2>7. CASE Stop(p)
    <3>1. /\ ~ trouble /\ UNCHANGED <<image, record, lock, writers>>
          /\ at[p] = "stop" /\ at'[p] \in {"dump", "restart"}
      BY <2>3, <2>7 DEF Stop, Goes, BackupTypes, past
    <3> QED
      BY <2>2, <3>1 DEF WorkIsSafe, ImagesFit, Holding
  <2>8. CASE Restart(p)
    <3>1. /\ UNCHANGED <<image, record, lock, writers>> /\ at[p] = "restart" /\ at'[p] = "unlock"
          /\ up \in SUBSET Services
      BY <2>8 DEF Restart, Goes, BackupTypes
    <3>2. ~ trouble /\ writers[p] \subseteq up'
      BY <2>3, <2>8 DEF Restart
    <3>3. \E started \in SUBSET writers[p] : up' = up \cup started
      BY <2>8 DEF Restart
    <3>4. writers[p] = Services /\ ImagesFit
      BY <3>1, <3>2 DEF WorkIsSafe
    <3> QED
      BY <2>2, <3>1, <3>2, <3>3, <3>4 DEF ImagesFit, Holding
  <2>9. CASE Replace(p) \/ Rollback(p)
    <3>1. ~ trouble /\ UNCHANGED lock /\ at'[p] = "unlock" /\ up \in SUBSET Services
      BY <2>3, <2>9 DEF Replace, Rollback, Goes, BackupTypes, past
    <3>2. \E r \in Releases : (ReleasesTakeTurns => r = record') /\ Puts(r, Services, {})
      <4>1. CASE Replace(p)
        BY <4>1 DEF Replace, BackupTypes
      <4>2. CASE Rollback(p)
        <5>1. Puts(seen[p], Services, {}) /\ UNCHANGED record /\ at[p] = "rollback"
          BY <2>3, <4>2 DEF Rollback, RestoreServices
        <5>2. ReleasesTakeTurns => seen[p] = record
          BY <5>1 DEF RecordIsSeen
        <5> QED
          BY <5>1, <5>2 DEF BackupTypes
      <4> QED
        BY <2>9, <4>1, <4>2
    <3> QED
      BY <2>2, <3>1, <3>2 DEF Puts, ImagesFit, Holding
  <2>10. CASE ReplaceFails(p)
    <3>1. at'[p] = "rollback" /\ UNCHANGED lock
      BY <2>10 DEF ReplaceFails, Goes, BackupTypes
    <3> QED
      BY <2>2, <3>1 DEF Holding
  <2>11. ~ TakeLock(p)
    BY <1>4 DEF TakeLock, Holding
  <2> QED
    BY <1>4, <2>4, <2>5, <2>6, <2>7, <2>8, <2>9, <2>10, <2>11 DEF ProgramStep, LockStep, ServiceStep
<1> QED
  BY <1>1, <1>2, <1>3, <1>4, BackupSteps DEF ProgramStep

-----------------------------------------------------------------------------
LEMMA BackupInitHolds == BackupInit => BackupInv
<1> SUFFICES ASSUME BackupInit PROVE BackupInv
  OBVIOUS
<1> USE DEF BackupInit
<1>1. BackupTypes
  <2>1. now \in 0..MaxTime /\ kills \in 0..MaxKills
    BY BackupAssumption
  <2>2. trouble \in BOOLEAN
    OBVIOUS
  <2>3. row \in [Media -> Rows] /\ until \in [Media -> 0..MaxTime] /\ docs \in SUBSET Documents
    <3>1. row = [m \in Media |-> "none"] /\ until = [m \in Media |-> 0] /\ docs = {}
      BY DEF NoData
    <3> HIDE DEF BackupInit
    <3> QED
      BY <3>1, BackupAssumption DEF Rows
  <2>4. up \in SUBSET Services /\ image \in [Services -> Releases] /\ record \in Releases
    BY BackupAssumption
  <2>5. lock \in Programs \cup {Nobody} /\ at \in [Programs -> {"idle", "read"} \cup Holding]
    OBVIOUS
  <2>6. seen \in [Programs -> Releases] /\ target \in [Programs -> Releases]
    BY BackupAssumption
  <2>7. writers \in [Programs -> SUBSET Services] /\ place \in [Programs -> SUBSET Folders]
    OBVIOUS
  <2>8. folder \in [Folders -> Contents] /\ restored \in Restored
    BY EmptyTypes
  <2> QED
    BY <2>1, <2>2, <2>3, <2>4, <2>5, <2>6, <2>7, <2>8 DEF BackupTypes
<1>2. Held
  BY DEF Held, Holding
<1>3. NothingWritesMeanwhile /\ StopsAll /\ PlacesFit
  BY DEF NothingWritesMeanwhile, StopsAll, PlacesFit
<1>4. FoldersFaithful
  BY DEF FoldersFaithful, Empty
<1>5. SnapshotsRestore
  BY DEF SnapshotsRestore, NoRehearsal
<1>6. RecordIsRunning /\ RecordIsSeen /\ WorkIsSafe
  BY DEF RecordIsRunning, RecordIsSeen, WorkIsSafe, ImagesFit
<1> QED
  BY <1>1, <1>2, <1>3, <1>4, <1>5, <1>6, BackupTypesSplit, RetentionHolds DEF BackupInv, BackupsRestore

LEMMA BackupNextHolds == BackupInv /\ [BackupNext]_backupVars => BackupInv'
<1> SUFFICES ASSUME BackupInv, [BackupNext]_backupVars PROVE BackupInv'
  OBVIOUS
<1>1. BackupTypes /\ Held /\ QuietParts /\ FoldersFaithful /\ SnapshotsRestore /\ RunParts
  BY BackupTypesSplit DEF BackupInv, BackupsRestore, QuietParts, RunParts
<1>2. CASE BackupNext
  <2>1. BackupTypes'
    BY <1>1, <1>2, BackupSteps, LiveTypes, TickTypes, HandTypes, FolderTypes, LockTypes, ServiceTypes, CopyTypes
  <2>2. Held' /\ QuietParts' /\ FoldersFaithful' /\ SnapshotsRestore'
    BY <1>1, <1>2, HeldStep, QuietStep, FaithfulStep, RestoreStep
  <2>3. RunParts'
    BY <1>1, <1>2, SeenStep, SafeStep DEF RunParts
  <2>4. BackupTypeOK' /\ RetentionEndsSnapshots'
    BY <2>1, <2>2, BackupTypesSplit, RetentionHolds, PTL
  <2> QED
    BY <2>2, <2>3, <2>4 DEF BackupInv, BackupsRestore, QuietParts, RunParts
<1>3. CASE UNCHANGED backupVars
  <2> USE DEF backupVars, live, services, program, past
  <2>1. BackupTypeOK'
    BY <1>1, <1>3, BackupTypesSplit DEF BackupTypeOK, BackupTypes, Held, Live, Data
  <2>2. QuietParts'
    BY <1>1, <1>3 DEF QuietParts, NothingWritesMeanwhile, StopsAll, PlacesFit
  <2>3. FoldersFaithful' /\ SnapshotsRestore' /\ RetentionEndsSnapshots'
    BY <1>1, <1>3, RetentionHolds DEF FoldersFaithful, Faithful, Live, SnapshotsRestore, RetentionEndsSnapshots, Valid
  <2>4. RunParts'
    BY <1>1, <1>3 DEF RunParts, RecordIsRunning, RecordIsSeen, WorkIsSafe, ImagesFit
  <2> QED
    BY <2>1, <2>2, <2>3, <2>4 DEF BackupInv, BackupsRestore, QuietParts, RunParts
<1> QED
  BY <1>2, <1>3

\* BackupInv is an invariant: the lock keeps programs apart (snapshot.py, Release.ps1),
\* a backup stops what it has found running, dump and export speak of one moment, and
\* the only releaser goes back to the record it has read.
THEOREM BackupInvariant == BackupSpec => []BackupInv
BY BackupInitHolds, BackupNextHolds, PTL DEF BackupSpec

\* A snapshot that may still be restored restores and ends with the retention of its
\* pictures, nothing writes while it is made, and without trouble the services run, with
\* the images of the recorded release if releases take turns (snapshot.py, restore_media,
\* Release.ps1).
THEOREM BackupsAlwaysRestore == BackupSpec => []BackupsRestore
<1>1. BackupInv => BackupsRestore
  BY DEF BackupInv
<1> QED
  BY <1>1, BackupInvariant, PTL
====
