---- MODULE EquipmentRecognition ----
(***************************************************************************)
(* Recognition of equipment in a photograph (backend/equipment): an        *)
(* analysis leaves a redacted picture on disk and a row that refers to it; *)
(* administrators confirm the row, which creates equipment, or dismiss it; *)
(* maintenance erases pictures after a day, and what analyses that were    *)
(* killed have left behind.                                                *)
(*                                                                         *)
(* Every recognition has an id of its own; on disk it may have a picture   *)
(* ("jpg") and a folder for the time of the analysis ("dir").  An analysis *)
(* or a round of maintenance takes far less than the hour after which      *)
(* files count as left behind: nothing reaches that age during either.     *)
(***************************************************************************)
EXTENDS Naturals

CONSTANTS Ids,        \* recognitions
          MaxCrashes  \* bound: how often the server is killed

CrashAssumption == MaxCrashes \in Nat

VARIABLES
    phase,       \* the analysis of each recognition
    row,         \* rows of equipment_recognition
    created,     \* equipment created from a recognition
    disk,        \* files and folders
    old,         \* those of more than an hour
    sweep,       \* maintenance: idle, or visiting the files
    referenced,  \* what it read of the rows before
    todo,        \* what it has not visited yet
    crashes

sweeper == <<sweep, referenced, todo>>
vars == <<phase, row, created, disk, old, sweeper, crashes>>

Items == Ids \X {"jpg", "dir"}
jpg(i) == <<i, "jpg">>
dir(i) == <<i, "dir">>

Phases == {"new", "analysis", "stored", "insert", "failed", "done"}
Rows == [status : {"none", "analyzed", "failed", "confirmed", "dismissed"}, file : BOOLEAN, expired : BOOLEAN]

\* Type correctness; rows that failed refer to no picture.
TypeOK ==
    /\ phase \in [Ids -> Phases] /\ row \in [Ids -> Rows]
    /\ \A i \in Ids : row[i].status \in {"none", "failed"} => ~ row[i].file
    /\ created \in [Ids -> Nat]
    /\ old \subseteq disk /\ disk \subseteq Items
    /\ sweep \in {"idle", "files"} /\ referenced \subseteq Ids /\ todo \subseteq Items
    /\ crashes \in 0..MaxCrashes

Init ==
    /\ phase = [i \in Ids |-> "new"]
    /\ row = [i \in Ids |-> [status |-> "none", file |-> FALSE, expired |-> FALSE]]
    /\ created = [i \in Ids |-> 0]
    /\ disk = {} /\ old = {}
    /\ sweep = "idle" /\ referenced = {} /\ todo = {}
    /\ crashes = 0

Goes(i, to) == phase' = [phase EXCEPT ![i] = to]
Erase(items) == disk' = disk \ items /\ old' = old \ items

(***************************************************************************)
(* analyze.  A removal that fails is left to maintenance.                  *)
(***************************************************************************)
\* No provider is configured, or the folder is made.
Begin(i) ==
    /\ phase[i] = "new"
    /\ \/ Goes(i, "failed") /\ UNCHANGED disk
       \/ Goes(i, "analysis") /\ disk' = disk \cup {dir(i)}
    /\ UNCHANGED <<row, created, old, sweeper, crashes>>

\* Redaction, provider and writing succeed; the picture is on disk.
Store(i) ==
    /\ phase[i] = "analysis"
    /\ disk' = disk \cup {jpg(i)}
    /\ Goes(i, "stored")
    /\ UNCHANGED <<row, created, old, sweeper, crashes>>

\* They do not: the row will say so, unless the worker did not answer.
Fail(i) ==
    /\ phase[i] = "analysis"
    /\ Goes(i, "failed") \/ Goes(i, "done")
    /\ Erase({dir(i)})
    /\ UNCHANGED <<row, created, sweeper, crashes>>

\* The folder is removed; when that fails, so does the analysis.
Leave(i) ==
    /\ phase[i] = "stored"
    /\ \/ Goes(i, "insert") /\ Erase({dir(i)})
       \/ Goes(i, "failed") /\ \E gone \in {{}, {jpg(i)}} : Erase(gone)
    /\ UNCHANGED <<row, created, sweeper, crashes>>

Refers(i) == phase[i] = "insert"

Insert(i) ==
    /\ phase[i] \in {"insert", "failed"}
    /\ row' = [row EXCEPT ![i] = [status |-> IF phase[i] = "failed" THEN "failed" ELSE "analyzed",
                                  file |-> Refers(i), expired |-> FALSE]]
    /\ Goes(i, "done")
    /\ UNCHANGED <<created, disk, old, sweeper, crashes>>

\* The row cannot be written: the picture goes, too, and the request fails.
InsertFails(i) ==
    /\ phase[i] \in {"insert", "failed"}
    /\ \E gone \in {{}, {jpg(i)}} : Erase(IF phase[i] = "insert" THEN gone ELSE {})
    /\ Goes(i, "done")
    /\ UNCHANGED <<row, created, sweeper, crashes>>

(***************************************************************************)
(* Administrators, each request under the write lock.                      *)
(***************************************************************************)
Available(i) == row[i].file /\ ~ row[i].expired /\ jpg(i) \in disk

Confirmable(i) == row[i].status = "analyzed" /\ Available(i)

Confirm(i) ==
    /\ Confirmable(i)
    /\ created' = [created EXCEPT ![i] = @ + 1]
    /\ row' = [row EXCEPT ![i].status = "confirmed"]
    /\ UNCHANGED <<phase, disk, old, sweeper, crashes>>

Dismissible(i) == row[i].status \in {"analyzed", "failed"}

Dismiss(i) ==
    /\ Dismissible(i)
    /\ row' = [row EXCEPT ![i].status = "dismissed"]
    /\ UNCHANGED <<phase, created, disk, old, sweeper, crashes>>

(***************************************************************************)
(* cleanup: one transaction for the rows, then file by file.               *)
(***************************************************************************)
ExpiredRows == {i \in Ids : row[i].file /\ row[i].expired}

\* The pictures of `gone` are removed; the others keep their reference.
SweepRows(gone) ==
    /\ sweep = "idle" /\ disk # {} /\ gone \subseteq ExpiredRows
    /\ Erase({jpg(i) : i \in gone})
    /\ row' = [i \in Ids |-> IF i \in gone THEN [row[i] EXCEPT !.file = FALSE] ELSE row[i]]
    /\ referenced' = {i \in Ids : row'[i].file}
    /\ sweep' = "files" /\ todo' = disk'
    /\ UNCHANGED <<phase, created, crashes>>

\* An old folder, or an old picture that no row referred to.
LeftBehind(it) == it \in old /\ (it[2] = "jpg" => it[1] \notin referenced)

SweepFile(it, removed) ==
    /\ it \in todo /\ (removed => LeftBehind(it))
    /\ Erase(IF removed THEN {it} ELSE {})
    /\ todo' = todo \ {it}
    /\ UNCHANGED <<phase, row, created, sweep, referenced, crashes>>

EndSweep ==
    /\ sweep = "files" /\ todo = {}
    /\ sweep' = "idle" /\ referenced' = {}
    /\ UNCHANGED <<phase, row, created, disk, old, todo, crashes>>

(***************************************************************************)
(* Time and crashes.                                                       *)
(***************************************************************************)
Age(it) ==
    /\ it \in disk \ old /\ phase[it[1]] = "done" /\ sweep = "idle"
    /\ old' = old \cup {it}
    /\ UNCHANGED <<phase, row, created, disk, sweeper, crashes>>

\* A day has passed since the picture was stored.
Expire(i) ==
    /\ row[i].file /\ ~ row[i].expired /\ (jpg(i) \in disk => jpg(i) \in old)
    /\ row' = [row EXCEPT ![i].expired = TRUE]
    /\ UNCHANGED <<phase, created, disk, old, sweeper, crashes>>

\* The server is killed with the analyses and the maintenance under way.
Crash ==
    /\ crashes < MaxCrashes
    /\ crashes' = crashes + 1
    /\ phase' = [i \in Ids |-> IF phase[i] = "new" THEN "new" ELSE "done"]
    /\ sweep' = "idle" /\ referenced' = {} /\ todo' = {}
    /\ UNCHANGED <<row, created, disk, old>>

Analyze(i) == Begin(i) \/ Store(i) \/ Fail(i) \/ Leave(i) \/ Insert(i) \/ InsertFails(i)

Next ==
    \/ \E i \in Ids : Analyze(i) \/ Confirm(i) \/ Dismiss(i) \/ Expire(i)
    \/ \E gone \in SUBSET Ids : SweepRows(gone)
    \/ \E it \in Items : Age(it) \/ \E removed \in BOOLEAN : SweepFile(it, removed)
    \/ EndSweep \/ Crash

Spec == Init /\ [][Next]_vars

\* The parts of an analysis and of a sweep that can be relied on; what is tried again.
Progress(i) == phase[i] # "new" /\ Analyze(i)
Sweep == \E gone \in SUBSET Ids : SweepRows(gone)
Visit == \E it \in Items : SweepFile(it, FALSE) \/ SweepFile(it, TRUE)
AgeOrGo == \/ \E it \in Items : Age(it) \/ SweepFile(it, TRUE)
           \/ ExpiredRows # {} /\ SweepRows(ExpiredRows)

(***************************************************************************)
(* Properties.                                                             *)
(***************************************************************************)
\* Until it expires, the picture that a row refers to is there: maintenance, which
\* read the rows before, never takes a picture whose row is being written.
EvidenceIsThere == \A i \in Ids : row[i].file /\ ~ row[i].expired => jpg(i) \in disk

\* One piece of equipment comes from a confirmed recognition, none from any other,
\* whoever confirms, dismisses and tries again in whatever order.
ConfirmedOnce == \A i \in Ids : created[i] = (IF row[i].status = "confirmed" THEN 1 ELSE 0)

\* The invariant: the parts above, and every variable has its type.
RecognitionHolds == TypeOK /\ EvidenceIsThere /\ ConfirmedOnce
====
