---- MODULE DatabaseUpgrade ----
(***************************************************************************)
(* Bringing a database to the schema of the program: init_db.py runs the   *)
(* latest schema.sql and seed.sql over whatever is there and then the      *)
(* migrations above the version it read (SQLite, db/migrations.py), or     *)
(* does all in one transaction (PostgreSQL, db/postgres.py).  Initializers *)
(* may be killed, fail and be started again, or run at the same time; the  *)
(* API may already be at work.                                             *)
(*                                                                         *)
(* An object is <<"table", n>>, what migration n creates if it is missing, *)
(* or <<table, n>>, the columns that migration n adds to an older table.   *)
(* <<"table", 0>> stands for the tables that are older than all migrations *)
(* and <<"table", 1>> for event_media.                                     *)
(***************************************************************************)
EXTENDS Integers, FiniteSets

CONSTANTS Dialect,       \* "sqlite" or "postgresql"
          Initializers,  \* processes that run init_db
          Latest,        \* LATEST_VERSION
          Events,        \* events with one media file each
          Workers,       \* worker accounts
          Zones,         \* zone names
          SeedZones,     \* the zones of seed.sql
          Older,         \* versions that databases are found at
          MaxFaults,     \* failures and kills considered
          None           \* no value

UpgradeAssumption ==
    /\ Dialect \in {"sqlite", "postgresql"}
    /\ Latest = 18 /\ Older \subseteq 0..(Latest + 1)
    /\ SeedZones \subseteq Zones /\ None \notin Zones

VARIABLES
    version,     \* PRAGMA user_version, or the row of app_schema_version
    objects,     \* the tables and columns there are
    events,      \* rows of candidate_event
    rows,        \* the number of event_media rows of an event
    retention,   \* events with a row in event_retention
    zones,       \* rows of zone_rule
    zoneName,    \* app_user.zone_name
    memberships, \* rows of user_zone
    pc,          \* where an initializer is
    step,        \* the migration it runs next
    faults,      \* failures so far
    before       \* what the database was found with

database == <<version, objects, events, rows, retention, zones, zoneName, memberships>>
vars == <<database, pc, step, faults, before>>

\* What migrations 1 to 7 create or add, written out in their statements.
Statements(n) ==
    CASE n = 1 -> {}
      [] n \in {2, 3} -> {<<"media", n>>}
      [] n = 4 -> {<<"table", 4>>, <<"media", 4>>, <<"summary", 4>>}
      [] OTHER -> {<<"table", n>>}

\* What migrations 8 to 18 add by a script each and a column for it.
Script(n) ==
    {<<"table", n>>} \cup (IF n = 8 THEN {<<"media", 8>>} ELSE {})
                     \cup (IF n = 13 THEN {<<"requests", 13>>} ELSE {})

Ensures(n) == IF n <= 7 THEN Statements(n) ELSE Script(n)
UpTo(n) == UNION {Ensures(m) : m \in 1..n}
Everything == {<<"table", 0>>, <<"table", 1>>} \cup UpTo(Latest)

\* Type correctness; the columns of event_media and user_zone need their tables.
TypeOK ==
    /\ version \in 0..(Latest + 1)
    /\ objects \subseteq Everything
    /\ ((objects \cap {<<"media", n>> : n \in {2, 3, 4, 8}}) # {} => <<"table", 1>> \in objects)
    /\ events \subseteq Events
    /\ rows \in [Events -> 0..3]
    /\ retention \subseteq events
    /\ zones \subseteq Zones
    /\ zoneName \in [Workers -> Zones \cup {None}]
    /\ memberships \subseteq Workers \X Zones
    /\ pc \in [Initializers -> {"off", "scripts", "read", "steps", "done", "refused"}]
    /\ step \in [Initializers -> 1..(Latest + 1)]
    /\ faults \in 0..MaxFaults

(***************************************************************************)
(* A database as an older release left it, or none.  Media rows begin with *)
(* version 1, retention rows with version 2, memberships with version 7.   *)
(***************************************************************************)
Init ==
    /\ version \in Older
    /\ objects \in IF version = 0 THEN {{}, {<<"table", 0>>}}
                   ELSE {{<<"table", 0>>, <<"table", 1>>}
                         \cup UpTo(IF version > Latest THEN Latest ELSE version)}
    /\ events = IF objects = {} THEN {} ELSE Events
    /\ rows = [e \in Events |-> IF version = 0 THEN 0 ELSE 1]
    /\ retention = IF version < 2 THEN {} ELSE events
    /\ zones \in IF objects = {} THEN {{}} ELSE SUBSET Zones
    /\ zoneName \in [Workers -> IF objects = {} THEN {None} ELSE Zones \cup {None}]
    /\ version >= 7 => \A w \in Workers : zoneName[w] \in zones \cup {None}
    /\ memberships = IF version < 7 THEN {}
                     ELSE {<<w, zoneName[w]>> : w \in {w \in Workers : zoneName[w] # None}}
    /\ pc = [i \in Initializers |-> "off"]
    /\ step = [i \in Initializers |-> 1]
    /\ faults = 0
    /\ before = [version |-> version, rows |-> rows, zoneName |-> zoneName]

Goes(i, where) == pc' = [pc EXCEPT ![i] = where]
Idle == UNCHANGED <<step, faults, before>>

(***************************************************************************)
(* init_database with SQLite.                                              *)
(***************************************************************************)
\* init_db is started; a database of a newer program is refused.
Start(i) ==
    /\ Dialect = "sqlite" /\ pc[i] = "off"
    /\ Goes(i, IF version > Latest THEN "refused" ELSE "scripts")
    /\ UNCHANGED database /\ Idle

\* What schema.sql creates: tables that are there keep their columns.
BySchema ==
    {<<"table", 4>>, <<"table", 5>>, <<"table", 6>>, <<"table", 7>>}
    \cup (IF <<"table", 0>> \in objects THEN {} ELSE {<<"table", 0>>, <<"summary", 4>>})
    \cup (IF <<"table", 1>> \in objects THEN {}
          ELSE {<<"table", 1>>, <<"media", 2>>, <<"media", 3>>, <<"media", 4>>})

\* schema.sql and seed.sql, whose statements are transactions of their own.
Scripts(i) ==
    /\ pc[i] = "scripts"
    /\ objects' = objects \cup BySchema
    /\ zones' = zones \cup SeedZones
    /\ Goes(i, "read")
    /\ UNCHANGED <<version, events, rows, retention, zoneName, memberships>> /\ Idle

\* apply_migrations reads the version, once and before any lock.
Read(i) ==
    /\ pc[i] = "read"
    /\ IF version > Latest THEN Goes(i, "refused") /\ UNCHANGED step
       ELSE Goes(i, "steps") /\ step' = [step EXCEPT ![i] = version + 1]
    /\ UNCHANGED <<database, faults, before>>

\* Mutant: a path is registered although it has a media row.
UnregisteredAll == {e \in events : rows[e] < 3}

\* Migration 1: the events whose path has no media row.
Unregistered == {e \in events : rows[e] = 0}

\* Migration 2 builds event_media anew, with the columns of version 2, if it
\* is the table of version 1.
Rebuilds == <<"media", 2>> \notin objects

\* Migration 7 refuses workers whose zone has no rule.
KnownZones == \A w \in Workers : zoneName[w] \in zones \cup {None}

Firsts(members) ==
    {f \in [Workers -> Zones \cup {None}] :
        \A w \in Workers : IF \E z \in Zones : <<w, z>> \in members
                           THEN <<w, f[w]>> \in members ELSE f[w] = None}

\* What migration n does to the rows.
Converts(n) ==
    /\ rows' = IF n = 1 THEN [e \in Events |-> IF e \in Unregistered THEN rows[e] + 1 ELSE rows[e]]
               ELSE rows
    /\ retention' = IF n = 2 THEN retention \cup events ELSE retention
    /\ IF n = 7
       THEN /\ memberships' = memberships \cup {<<w, zoneName[w]>> : w \in {w \in Workers : zoneName[w] \in zones}}
            /\ zoneName' \in Firsts(memberships')
       ELSE UNCHANGED <<memberships, zoneName>>

\* One migration, a transaction that ends by writing the version.
Migrate(i) ==
    /\ pc[i] = "steps" /\ step[i] <= Latest
    /\ step[i] = 7 => KnownZones
    /\ Converts(step[i])
    /\ objects' = IF step[i] = 2 /\ Rebuilds
                  THEN {o \in objects : o[1] # "media"} \cup {<<"media", 2>>}
                  ELSE objects \cup Ensures(step[i])
    /\ version' = step[i]
    /\ step' = [step EXCEPT ![i] = @ + 1]
    /\ UNCHANGED <<events, zones, pc, faults, before>>

Finish(i) ==
    /\ pc[i] = "steps" /\ step[i] > Latest
    /\ Goes(i, "done")
    /\ UNCHANGED <<database, step, faults, before>>

\* Migration 7 raises and the initializer ends.
Refuse(i) ==
    /\ pc[i] = "steps" /\ step[i] = 7 /\ ~ KnownZones
    /\ Goes(i, "off")
    /\ UNCHANGED database /\ Idle

\* The process is killed, or a statement fails and its transaction is rolled
\* back; statements of the scripts that ran before stay.
Fault(i) ==
    /\ faults < MaxFaults /\ faults' = faults + 1
    /\ pc[i] \in {"scripts", "read", "steps"}
    /\ IF pc[i] = "scripts"
       THEN \E some \in SUBSET BySchema :
              /\ \A n \in 2..4 : <<"media", n>> \in BySchema
                                => (<<"media", n>> \in some <=> <<"table", 1>> \in some)
              /\ <<"summary", 4>> \in BySchema
                 => (<<"summary", 4>> \in some <=> <<"table", 0>> \in some)
              /\ objects' = objects \cup some
       ELSE UNCHANGED objects
    /\ Goes(i, "off")
    /\ UNCHANGED <<version, events, rows, retention, zones, zoneName, memberships, step, before>>

(***************************************************************************)
(* initialize with PostgreSQL: one transaction, or nothing.                *)
(***************************************************************************)
\* The scripts that run above version v of the row, None for no row.
ScriptsAbove(v) == IF v = None THEN UpTo(Latest) ELSE UNION {Ensures(n) : n \in (v + 1)..Latest}

Initialize(i) ==
    /\ Dialect = "postgresql" /\ pc[i] = "off"
    /\ IF version \in 7..Latest
       THEN /\ objects' = objects \cup ScriptsAbove(version)
            /\ version' = IF version < Latest THEN Latest ELSE version
            /\ Goes(i, "done") /\ UNCHANGED <<events, rows, retention, zones, zoneName, memberships>>
       ELSE IF version = 0 /\ objects = {}
       THEN /\ objects' = {<<"table", 0>>, <<"table", 1>>} \cup ScriptsAbove(None)
            /\ version' = Latest
            /\ Goes(i, "done") /\ UNCHANGED <<events, rows, retention, zones, zoneName, memberships>>
       ELSE Goes(i, "refused") /\ UNCHANGED database
    /\ Idle

(***************************************************************************)
(* Meanwhile.                                                              *)
(***************************************************************************)
\* GET /health/ready.
Ready == version = Latest

\* The API registers an event with its media row and its retention row, ready
\* or not, once the tables are there.
RegisterEvent(e) ==
    /\ {<<"table", 0>>, <<"table", 1>>, <<"table", 4>>} \subseteq objects
    /\ {<<"requests", 13>>, <<"table", 13>>} \subseteq objects
    /\ e \notin events
    /\ events' = events \cup {e}
    /\ rows' = [rows EXCEPT ![e] = 1]
    /\ retention' = retention \cup {e}
    /\ UNCHANGED <<version, objects, zones, zoneName, memberships, pc>> /\ Idle

\* An operator repairs an assignment: the zone gets its rule.
Repair(w) ==
    /\ <<"table", 0>> \in objects /\ zoneName[w] \notin zones \cup {None}
    /\ zones' = zones \cup {zoneName[w]}
    /\ UNCHANGED <<version, objects, events, rows, retention, zoneName, memberships, pc>> /\ Idle

Next ==
    \/ \E i \in Initializers :
          \/ Start(i) \/ Scripts(i) \/ Read(i) \/ Migrate(i) \/ Finish(i) \/ Refuse(i) \/ Fault(i)
          \/ Initialize(i)
    \/ \E e \in Events : RegisterEvent(e)
    \/ \E w \in Workers : Repair(w)

Spec == Init /\ [][Next]_vars

Run(i) == Start(i) \/ Scripts(i) \/ Read(i) \/ Migrate(i) \/ Finish(i) \/ Initialize(i)

(***************************************************************************)
(* Properties.                                                             *)
(***************************************************************************)
\* A database has every table and column of its version, also while two
\* initializers take turns or after one was killed: no migration undoes what
\* a later one did (the guards of apply_migrations).
VersionTellsSchema ==
    \A n \in 1..Latest : n <= version => Ensures(n) \subseteq objects

\* A database that is reported ready is complete (api/main.py, readiness).
ReadyIsComplete == Ready => objects = Everything

\* Every event has its one media row from version 1 on, and its retention row
\* from version 2 on, whoever registered it ("Upgrade an initialized database
\* without dropping existing application data").
EventsAreKept ==
    \A e \in events : /\ rows[e] <= 1
                      /\ version >= 1 => rows[e] = 1
                      /\ version >= 2 => e \in retention

\* From version 7 on every worker is a member of the zone that the account
\* named before (migration 7).
WorkersKeepZone ==
    \A w \in Workers :
        version >= 7 /\ before.zoneName[w] # None => <<w, before.zoneName[w]>> \in memberships

\* The invariant: the parts above, and every variable has its type.
UpgradeKeepsData ==
    TypeOK /\ VersionTellsSchema /\ ReadyIsComplete /\ EventsAreKept /\ WorkersKeepZone
====
