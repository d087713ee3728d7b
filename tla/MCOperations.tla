---- MODULE MCOperations ----
(***************************************************************************)
(* Small instances of what surrounds the events, for TLC: accounts and     *)
(* sessions, the upgrade of the database, backups and releases.  The       *)
(* instances are checked side by side: part names the one a behaviour is   *)
(* about, and the others keep their initial state.                         *)
(***************************************************************************)
EXTENDS Accounts, ReleaseBackup, Sequences, TLC

CONSTANTS a1, a2, w1, w2, c1, c2, i1, i2, e1, e2, z1, z2, b1, b2, r1, v1, v2, m1, m2, d1, f1

VARIABLES
    part,
    version, objects, events, rows, retention, rules, column, memberships, pc, step, faults, before

database == <<version, objects, events, rows, retention, rules, column, memberships, pc, step,
              faults, before>>
allVars == <<part, vars, database, backupVars>>

TwoAdmins == {a1, a2}
TwoWorkers == {w1, w2}
OneWorker == {w1}
TwoClients == {c1, c2}
TwoPasswords == {1, 2}
TwoZoneNames == {1, 2}
OwnBrowsers == (c1 :> a1) @@ (c2 :> a2)
TwoIds == {i1, i2}
OneEvent == {e1}
TwoEvents == {e1, e2}
TwoZones == {z1, z2}
OneZone == {z2}
OldVersions == {0, 1, 4, 6, 12, 19}
AnyVersion == 0..19
TwoBackups == {b1, b2}
OneReleaser == {r1}
TwoReleases == {v1, v2}
TwoMedia == {m1, m2}
OneDocument == {d1}
OneFolder == {f1}

(* Two administrators, one at a time; both at a time; the zones of two     *)
(* workers.  Bound: a part has so many accounts, browsers, passwords and   *)
(* zones, and sessions of an account are ended so often.                   *)
PartOf ==
    [administering |-> [users |-> TwoAdmins, clients |-> {c1}, passwords |-> {1, 2},
                        names |-> {}, revoked |-> 2],
     sessions      |-> [users |-> TwoAdmins, clients |-> {c1, c2}, passwords |-> {1, 2},
                        names |-> {}, revoked |-> 1],
     memberships   |-> [users |-> {a1} \cup TwoWorkers, clients |-> {c1}, passwords |-> {1},
                        names |-> {1, 2}, revoked |-> 1]]

AccountParts == DOMAIN PartOf

Concerns(p, r) ==
    /\ "user" \in DOMAIN r => r.user \in p.users
    /\ "users" \in DOMAIN r => r.users \subseteq p.users
    /\ "zone" \in DOMAIN r => r.zone \in p.names
    /\ "zones" \in DOMAIN r => r.zones = None \/ r.zones \subseteq p.names
    /\ "pass" \in DOMAIN r => r.pass \in p.passwords

Within ==
    LET p == PartOf[part] IN
    /\ \A u \in Users : accounts[u] # None => u \in p.users /\ accounts[u].pass \in p.passwords
    /\ \A u \in Users : revoked[u] <= p.revoked
    /\ \A c \in Clients : login[c] # None => c \in p.clients
    /\ \A c \in Clients : request[c] # None => Concerns(p, request[c])
    /\ zones \subseteq p.names

(* SQLite and PostgreSQL.                                                  *)
Sqlite == INSTANCE DatabaseUpgrade WITH zones <- rules, zoneName <- column, Dialect <- "sqlite",
    Initializers <- TwoIds, Latest <- 18, Events <- OneEvent, Workers <- OneWorker,
    Zones <- TwoZones, SeedZones <- OneZone, Older <- OldVersions, MaxFaults <- 1
Postgresql == INSTANCE DatabaseUpgrade WITH zones <- rules, zoneName <- column,
    Dialect <- "postgresql", Initializers <- TwoIds, Latest <- 18, Events <- TwoEvents,
    Workers <- TwoWorkers, Zones <- TwoZones, SeedZones <- OneZone, Older <- AnyVersion,
    MaxFaults <- 1

(* A backup of a picture and a document, one of two pictures; two backups  *)
(* and a release.  Bound: a part has so many programs, releases, pictures, *)
(* documents, ticks and kills.                                             *)
BackupPartOf ==
    [snapshots   |-> [programs |-> {b1}, releases |-> {v1}, media |-> {m1}, docs |-> {d1},
                      time |-> 2, kills |-> 0],
     pictures    |-> [programs |-> {b1}, releases |-> {v1}, media |-> {m1, m2}, docs |-> {},
                      time |-> 2, kills |-> 0],
     deployments |-> [programs |-> {b1, b2, r1}, releases |-> {v1, v2}, media |-> {}, docs |-> {},
                      time |-> 0, kills |-> 1]]

BackupParts == DOMAIN BackupPartOf

BackupWithin ==
    LET p == BackupPartOf[part] IN
    /\ \A q \in Programs : at[q] # "idle" => q \in p.programs /\ target[q] \in p.releases
    /\ \A m \in Media : row[m] # "none" => m \in p.media
    /\ docs \subseteq p.docs /\ now <= p.time /\ kills <= p.kills

ASSUME Sqlite!UpgradeAssumption /\ Postgresql!UpgradeAssumption
AllInit ==
    /\ part \in AccountParts \cup BackupParts \cup {"sqlite", "postgresql"}
    /\ Init
    /\ IF part \in AccountParts THEN Within
       ELSE zones = {} /\ \A u \in Users : accounts[u] # None /\ accounts[u].pass = 1
    /\ CASE part = "sqlite" -> Sqlite!Init
         [] part = "postgresql" -> Postgresql!Init
         [] OTHER -> Sqlite!Init /\ objects = {}
    /\ BackupInit

AllNext ==
    /\ UNCHANGED part
    /\ IF part \in AccountParts THEN Next /\ Within' ELSE UNCHANGED vars
    /\ CASE part = "sqlite" -> Sqlite!Next
         [] part = "postgresql" -> Postgresql!Next
         [] OTHER -> UNCHANGED database
    /\ IF part \in BackupParts THEN BackupNext /\ BackupWithin' ELSE UNCHANGED backupVars

AllSpec == AllInit /\ [][AllNext]_allVars

-----------------------------------------------------------------------------
(* A database has every table and column of its version, one that is       *)
(* reported ready is complete, every event keeps its one media row and its *)
(* retention row, and every worker the zone the account named.             *)
UpgradeKeepsData ==
    /\ part = "sqlite" => Sqlite!UpgradeKeepsData
    /\ part = "postgresql" => Postgresql!UpgradeKeepsData
====
