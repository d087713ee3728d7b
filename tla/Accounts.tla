---- MODULE Accounts ----
(***************************************************************************)
(* Accounts, sessions and zone memberships (backend/auth, backend/users,   *)
(* backend/zones).  A login reads the account, checks the password and     *)
(* then issues a token with the auth_version it read; every request checks *)
(* its token in one transaction and does its work in another.              *)
(*                                                                         *)
(* A client is a browser that belongs to one account.  The fields pass and *)
(* at of a token, and the variable revoked, only record which password was *)
(* presented and how often sessions of the account had been ended then.    *)
(* Zones that cameras or equipment use are the business of SiteSetup:      *)
(* here a zone without members may always be deleted.                      *)
(***************************************************************************)
EXTENDS Naturals, FiniteSetsExt

CONSTANTS Admins, Workers,  \* accounts by role
          Clients,          \* browsers
          Owner,            \* the account of a client
          Passwords,        \* passwords, numbered
          ZoneNames,        \* zones, numbered in the order of their names
          MaxRevoked,       \* how often sessions of one account are ended
          None              \* no value

Users == Admins \cup Workers

Account == [active : BOOLEAN, pass : Passwords, ver : 0..MaxRevoked]

ASSUME AccountsAssumption ==
    /\ Admins \cap Workers = {} /\ Owner \in [Clients -> Users]
    /\ ZoneNames \subseteq Nat /\ Passwords # {} /\ MaxRevoked \in Nat
    /\ None \notin Users \cup Account

VARIABLES
    accounts,    \* rows of app_user: is_active, password and auth_version
    zoneName,    \* app_user.zone_name
    members,     \* rows of user_zone
    zones,       \* rows of zone_rule
    login,       \* the row that a login of a client has read
    token,       \* the token of a client
    request,     \* the request of a client that passed the check of its token
    revoked,     \* how often the sessions of an account were ended
    overlapped   \* two requests were under way at a time

vars == <<accounts, zoneName, members, zones, login, token, request, revoked, overlapped>>

Tickets == [ver : 0..MaxRevoked, pass : Passwords, at : 0..MaxRevoked]

Requests ==
    [op : {"edit"}, user : Users, active : BOOLEAN \cup {None}, zones : (SUBSET ZoneNames) \cup {None}]
    \cup [op : {"password"}, user : Users, pass : Passwords]
    \cup [op : {"logout"}]
    \cup [op : {"members"}, zone : ZoneNames, users : SUBSET Users]
    \cup [op : {"rule", "delete"}, zone : ZoneNames]
    \cup [op : {"add"}, user : Users, zones : SUBSET ZoneNames, pass : Passwords]

\* Type correctness; only accounts that exist have tokens and memberships.
TypeOK ==
    /\ accounts \in [Users -> Account \cup {None}]
    /\ zoneName \in [Users -> ZoneNames \cup {None}]
    /\ members \subseteq Workers \X ZoneNames
    /\ \A m \in members : accounts[m[1]] # None
    /\ zones \subseteq ZoneNames
    /\ login \in [Clients -> Tickets \cup {None}]
    /\ token \in [Clients -> Tickets \cup {None}]
    /\ request \in [Clients -> Requests \cup {None}]
    /\ revoked \in [Users -> 0..MaxRevoked]
    /\ overlapped \in BOOLEAN

\* The seeded zones, and the accounts that were made on the command line.
Init ==
    /\ \E there \in {U \in SUBSET Users : U \cap Admins # {}}, p \in Passwords :
          accounts = [u \in Users |-> IF u \in there THEN [active |-> TRUE, pass |-> p, ver |-> 0] ELSE None]
    /\ zones \in SUBSET ZoneNames
    /\ members = {}
    /\ zoneName = [u \in Users |-> None]
    /\ login = [c \in Clients |-> None]
    /\ token = [c \in Clients |-> None]
    /\ request = [c \in Clients |-> None]
    /\ revoked = [u \in Users |-> 0]
    /\ overlapped = FALSE

(***************************************************************************)
(* Sessions.                                                               *)
(***************************************************************************)
Alive(u) == accounts[u] # None /\ accounts[u].active

\* authenticate: the account is read once, with the right password presented.
Login(c) ==
    /\ login[c] = None /\ Alive(Owner[c])
    /\ login' = [login EXCEPT ![c] = [ver |-> accounts[Owner[c]].ver, pass |-> accounts[Owner[c]].pass,
                                      at |-> revoked[Owner[c]]]]
    /\ UNCHANGED <<accounts, zoneName, members, zones, token, request, revoked, overlapped>>

\* Mutant: the token carries the version of the account as it is by now.
IssuedAnew(c) == [login[c] EXCEPT !.ver = accounts[Owner[c]].ver]

\* issue_token: the token carries the version that authenticate read.
Issued(c) == login[c]

Issue(c) ==
    /\ login[c] # None
    /\ token' = [token EXCEPT ![c] = Issued(c)]
    /\ login' = [login EXCEPT ![c] = None]
    /\ UNCHANGED <<accounts, zoneName, members, zones, request, revoked, overlapped>>

\* decode_user accepts the token of a client.
Accepted(c) ==
    /\ token[c] # None /\ Alive(Owner[c])
    /\ token[c].ver = accounts[Owner[c]].ver

\* A request passes the check of its token: require_admin, or current_user
\* for a logout.  Its work follows in a transaction of its own.
Ask(c, r) ==
    /\ request[c] = None /\ Accepted(c)
    /\ r.op # "logout" => Owner[c] \in Admins
    /\ request' = [request EXCEPT ![c] = r]
    /\ overlapped' = (overlapped \/ \E d \in Clients : request[d] # None)
    /\ UNCHANGED <<accounts, zoneName, members, zones, login, token, revoked>>

Asked(c, op) == request[c] # None /\ request[c].op = op
Answer(c) == request' = [request EXCEPT ![c] = None]
NoSession == UNCHANGED <<login, token, overlapped>>

\* auth_version = auth_version + 1 ends all sessions of an account.
NextVersion(u) == accounts[u].ver + 1

Ends(u) == revoked[u] < MaxRevoked /\ revoked' = [revoked EXCEPT ![u] = @ + 1]

(***************************************************************************)
(* Memberships: zone_name is the first of the zones of a worker.           *)
(***************************************************************************)
Of(m, u) == {z \in ZoneNames : <<u, z>> \in m}

sync_legacy(u, m) == IF Of(m, u) = {} THEN None ELSE Min(Of(m, u))

\* Only workers join zones, and only zones with a rule.
MayJoin(u, zs) == (u \in Workers \/ zs = {}) /\ zs \subseteq zones

\* replace_user_zones.
Joins(u, zs) ==
    /\ members' = {m \in members : m[1] # u} \cup ({u} \X zs)
    /\ zoneName' = [zoneName EXCEPT ![u] = sync_legacy(u, members')]

(***************************************************************************)
(* Requests, each one transaction.                                         *)
(***************************************************************************)
\* An active administrator deactivates the own account.
Own(c, r) == r.active = FALSE /\ r.user = Owner[c] /\ accounts[r.user].active

Deactivates(r) == r.active = FALSE /\ accounts[r.user].active

EditUser(c) ==
    LET r == request[c] IN
    /\ Asked(c, "edit") /\ Answer(c)
    /\ IF accounts[r.user] = None \/ (r.zones # None /\ ~ MayJoin(r.user, r.zones)) THEN
            UNCHANGED <<accounts, zoneName, members, revoked>>
       ELSE IF Own(c, r) THEN UNCHANGED <<accounts, zoneName, members, revoked>>
       ELSE /\ IF r.zones = None THEN UNCHANGED <<zoneName, members>> ELSE Joins(r.user, r.zones)
            /\ IF r.active = None THEN UNCHANGED <<accounts, revoked>>
               ELSE /\ accounts' = [accounts EXCEPT ![r.user] =
                           [accounts[r.user] EXCEPT !.active = r.active,
                                !.ver = IF Deactivates(r) THEN NextVersion(r.user) ELSE accounts[r.user].ver]]
                    /\ IF Deactivates(r) THEN Ends(r.user) ELSE UNCHANGED revoked
    /\ UNCHANGED zones /\ NoSession

ResetPassword(c) ==
    LET r == request[c] IN
    /\ Asked(c, "password") /\ Answer(c)
    /\ IF accounts[r.user] = None THEN UNCHANGED <<accounts, revoked>>
       ELSE /\ accounts' = [accounts EXCEPT ![r.user] = [@ EXCEPT !.pass = r.pass, !.ver = NextVersion(r.user)]]
            /\ Ends(r.user)
    /\ UNCHANGED <<zoneName, members, zones>> /\ NoSession

\* Logging out ends the sessions of all clients of the account.
Logout(c) ==
    /\ Asked(c, "logout") /\ Answer(c)
    /\ accounts' = [accounts EXCEPT ![Owner[c]] = [@ EXCEPT !.ver = NextVersion(Owner[c])]]
    /\ Ends(Owner[c])
    /\ UNCHANGED <<zoneName, members, zones>> /\ NoSession

AddUser(c) ==
    LET r == request[c] IN
    /\ Asked(c, "add") /\ Answer(c)
    /\ IF accounts[r.user] # None \/ ~ MayJoin(r.user, r.zones)
       THEN UNCHANGED <<accounts, zoneName, members>>
       ELSE /\ accounts' = [accounts EXCEPT ![r.user] = [active |-> TRUE, pass |-> r.pass, ver |-> 0]]
            /\ Joins(r.user, r.zones)
    /\ UNCHANGED <<zones, revoked>> /\ NoSession

\* The members whose first zone may change: the old and the new ones.
Affected(r) == {u \in Workers : <<u, r.zone>> \in members} \cup r.users

ReplaceMembers(c) ==
    LET r == request[c] IN
    /\ Asked(c, "members") /\ Answer(c)
    /\ IF r.zone \notin zones \/ \E u \in r.users : u \notin Workers \/ accounts[u] = None
       THEN UNCHANGED <<zoneName, members>>
       ELSE /\ members' = {m \in members : m[2] # r.zone} \cup (r.users \X {r.zone})
            /\ zoneName' = [u \in Users |-> IF u \in Affected(r) THEN sync_legacy(u, members') ELSE zoneName[u]]
    /\ UNCHANGED <<accounts, zones, revoked>> /\ NoSession

SaveRule(c) ==
    /\ Asked(c, "rule") /\ Answer(c)
    /\ zones' = zones \cup {request[c].zone}
    /\ UNCHANGED <<accounts, zoneName, members, revoked>> /\ NoSession

\* A zone that has members is not deleted.
InUse(z) == \E u \in Workers : <<u, z>> \in members

DeleteZone(c) ==
    /\ Asked(c, "delete") /\ Answer(c)
    /\ zones' = IF InUse(request[c].zone) THEN zones ELSE zones \ {request[c].zone}
    /\ UNCHANGED <<accounts, zoneName, members, revoked>> /\ NoSession

Next ==
    \E c \in Clients :
        \/ Login(c) \/ Issue(c)
        \/ \E r \in Requests : Ask(c, r)
        \/ EditUser(c) \/ ResetPassword(c) \/ Logout(c) \/ AddUser(c)
        \/ ReplaceMembers(c) \/ SaveRule(c) \/ DeleteZone(c)

Spec == Init /\ [][Next]_vars

(***************************************************************************)
(* Properties.                                                             *)
(***************************************************************************)
\* A session that was opened with an old password is over, and so is one from
\* before a deactivation or logout, even when the account is active again and
\* when the login was under way meanwhile (decode_user compares auth_version).
RevokedStaysOut ==
    \A c \in Clients : Accepted(c) => /\ token[c].pass = accounts[Owner[c]].pass
                                      /\ token[c].at = revoked[Owner[c]]

\* Every zone of a worker has a rule, whichever of the two sides is edited.
ZonesExist == \A m \in members : m[2] \in zones

\* zone_name is the first of the memberships ("the legacy scalar is a
\* deterministic projection only", backend/zones/membership.py).
FirstIsProjected == \A u \in Users : zoneName[u] = sync_legacy(u, members)

\* Somebody can administer the accounts: requests that do not overlap cannot
\* take the last active administrator away.  Two that do can deactivate each
\* other's administrator.
SomeAdminRemains == ~overlapped => \E u \in Admins : Alive(u)

\* The invariant: the parts above, and every variable has its type.
AccountsHold ==
    TypeOK /\ RevokedStaysOut /\ ZonesExist /\ FirstIsProjected /\ SomeAdminRemains

(***************************************************************************)
(* The parts of the inductive invariant that are no properties.            *)
(***************************************************************************)
\* The version of an account counts how often its sessions were ended.
VersionsCount ==
    \A u \in Users : revoked[u] = IF accounts[u] = None THEN 0 ELSE accounts[u].ver

\* A ticket is of the password of its version, whoever still holds it.
Fits(t, u) ==
    /\ accounts[u] # None /\ t.at = t.ver /\ t.ver <= accounts[u].ver
    /\ t.ver = accounts[u].ver => t.pass = accounts[u].pass

TicketsFit ==
    \A c \in Clients : /\ login[c] # None => Fits(login[c], Owner[c])
                       /\ token[c] # None => Fits(token[c], Owner[c])

\* A request is that of an account that was active when it was checked, and
\* still is unless another request came between.
RequestsStand ==
    \A c \in Clients : request[c] # None =>
        /\ accounts[Owner[c]] # None
        /\ request[c].op # "logout" => Owner[c] \in Admins
        /\ ~overlapped => Alive(Owner[c]) /\ \A d \in Clients : request[d] # None => d = c

Inv == AccountsHold /\ VersionsCount /\ TicketsFit /\ RequestsStand
====
