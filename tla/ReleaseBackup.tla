---- MODULE ReleaseBackup ----
(***************************************************************************)
(* Snapshots, their rehearsal and releases of the server (deploy and       *)
(* backend/backup).  Programs that people start by hand stop, copy,        *)
(* restart or replace the services of one deployment: a backup             *)
(* (snapshot.py) dumps the database and exports retained pictures and      *)
(* consents while nothing writes; a release (Release.ps1) replaces images  *)
(* and goes back to the previous ones when that fails.  Both hold          *)
(* release.lock; both read the record of the release before they have it.  *)
(*                                                                         *)
(* Services that only read (web, gateway) and the database itself are left *)
(* out; a document of consent is on disk when its row is.  What a restore  *)
(* changes besides media (streams, jobs, commands, nodes, sessions) is     *)
(* assigned unconditionally and left out.  Names that Accounts uses too    *)
(* begin with Backup or backup.                                            *)
(***************************************************************************)
EXTENDS Naturals, FiniteSets, FiniteSetsExt

CONSTANTS Backups,    \* programs that take snapshots
          Releasers,  \* programs that deploy releases
          Releases,   \* releases, each with its images
          First,      \* the one that runs at first
          Media,      \* pictures
          Documents,  \* documents of consent
          Folders,    \* bound: folders of snapshots
          Day,        \* for how long a snapshot may be restored
          MaxTime,    \* bound: the clock
          MaxKills,   \* bound: how often programs are killed
          Nobody      \* holds the lock when it is free

ASSUME BackupAssumption ==
    /\ First \in Releases
    /\ Backups \cap Releasers = {} /\ Nobody \notin Backups \cup Releasers
    /\ Day \in Nat \ {0} /\ MaxTime \in Nat /\ MaxKills \in Nat

VARIABLES
    now,      \* the clock
    row,      \* rows of event_media with their retention
    until,    \* the end of the retention
    docs,     \* rows of consent_record
    up,       \* services that run
    image,    \* the release of each service's container
    record,   \* current-release.json
    lock,     \* who wrote release.lock
    at,       \* what each program does
    seen,     \* the record it has read
    writers,  \* the services a backup has found running
    place,    \* the folder a backup writes to
    target,   \* the release a program deploys
    folder,   \* folders of snapshots
    restored, \* the database and files of the last rehearsal
    kills,
    trouble   \* a program was killed, or services could not be started

live == <<row, until, docs>>
services == <<up, image, record>>
program == <<at, seen, writers, place, target>>
past == <<kills, trouble>>
backupVars == <<now, live, services, lock, program, folder, restored, past>>

Programs == Backups \cup Releasers
Services == {"api", "maintenance"}

\* "ready" is anything not retained that is not being deleted; "lost" is a retained
\* row whose file has gone.
Rows == {"none", "ready", "retained", "lost", "delete_pending", "deleted"}

Data == [row : [Media -> Rows], until : [Media -> 0..MaxTime], docs : SUBSET Documents]
Contents == [stage : {"none", "open", "dumped", "exported", "bundled"}, dump : Data,
             media : SUBSET Media, docs : SUBSET Documents, expires : Nat]
Restored == [result : {"none", "pass", "mismatch"}, row : [Media -> Rows \cup {"missing"}],
             media : SUBSET Media, docs : SUBSET Documents]
Live == [row |-> row, until |-> until, docs |-> docs]

NoData == [row |-> [m \in Media |-> "none"], until |-> [m \in Media |-> 0], docs |-> {}]
Empty == [stage |-> "none", dump |-> NoData, media |-> {}, docs |-> {}, expires |-> 0]
NoRehearsal == [result |-> "none", row |-> NoData.row, media |-> {}, docs |-> {}]

Holding == {"locked", "stop", "dump", "export", "bundle", "restart", "replace", "rollback", "unlock"}

\* Type correctness; a program in the middle of its work has the lock.
BackupTypeOK ==
    /\ now \in 0..MaxTime /\ Live \in Data
    /\ up \subseteq Services /\ image \in [Services -> Releases] /\ record \in Releases
    /\ lock \in Programs \cup {Nobody}
    /\ at \in [Programs -> {"idle", "read"} \cup Holding]
    /\ \A p \in Programs : at[p] \in Holding => lock = p
    /\ seen \in [Programs -> Releases] /\ target \in [Programs -> Releases]
    /\ writers \in [Programs -> SUBSET Services] /\ place \in [Programs -> SUBSET Folders]
    /\ folder \in [Folders -> Contents] /\ restored \in Restored
    /\ kills \in 0..MaxKills /\ trouble \in BOOLEAN

BackupInit ==
    /\ now = 0
    /\ row = NoData.row /\ until = NoData.until /\ docs = NoData.docs
    /\ up = Services /\ image = [s \in Services |-> First] /\ record = First
    /\ lock = Nobody
    /\ at = [p \in Programs |-> "idle"]
    /\ seen = [p \in Programs |-> First] /\ target = [p \in Programs |-> First]
    /\ writers = [p \in Programs |-> {}] /\ place = [p \in Programs |-> {}]
    /\ folder = [f \in Folders |-> Empty]
    /\ restored = NoRehearsal
    /\ kills = 0 /\ trouble = FALSE

(***************************************************************************)
(* What the services do meanwhile; MediaProcessing and EventReviews say    *)
(* how.  A row is marked before its file is removed.                       *)
(***************************************************************************)
Becomes(m, status) == row' = [row EXCEPT ![m] = status]
Quiet == UNCHANGED <<now, services, lock, program, folder, restored, past>>

Publish(m) == row[m] = "none" /\ Becomes(m, "ready") /\ UNCHANGED <<until, docs>>

Retain(m, t) ==
    /\ row[m] = "ready" /\ t > now
    /\ Becomes(m, "retained") /\ until' = [until EXCEPT ![m] = t]
    /\ UNCHANGED docs

Condemn(m) ==
    /\ row[m] \in {"ready", "retained", "lost"}
    /\ Becomes(m, "delete_pending") /\ until' = [until EXCEPT ![m] = 0]
    /\ UNCHANGED docs

Lose(m) == row[m] = "retained" /\ Becomes(m, "lost") /\ UNCHANGED <<until, docs>>
Erase(m) == row[m] = "delete_pending" /\ Becomes(m, "deleted") /\ UNCHANGED <<until, docs>>
Consent(d) == d \notin docs /\ docs' = docs \cup {d} /\ UNCHANGED <<row, until>>

Serve ==
    /\ "api" \in up
    /\ \/ \E m \in Media : Publish(m) \/ Condemn(m) \/ Erase(m) \/ Lose(m) \/ \E t \in 1..MaxTime : Retain(m, t)
       \/ \E d \in Documents : Consent(d)
    /\ Quiet

Maintain ==
    /\ "maintenance" \in up
    /\ \E m \in Media : Erase(m) \/ (row[m] \in {"retained", "lost"} /\ until[m] <= now /\ Condemn(m))
    /\ Quiet

Tick ==
    /\ now < MaxTime /\ now' = now + 1
    /\ UNCHANGED <<live, services, lock, program, folder, restored, past>>

(***************************************************************************)
(* The lock.  The record is read first; a lock somebody else has ends the  *)
(* program.                                                                *)
(***************************************************************************)
Goes(p, to) == at' = [at EXCEPT ![p] = to]

ReadRecord(p, r) ==
    /\ at[p] = "idle"
    /\ p \in Backups => r = record
    /\ Goes(p, "read")
    /\ seen' = [seen EXCEPT ![p] = record] /\ target' = [target EXCEPT ![p] = r]
    /\ UNCHANGED <<now, live, services, lock, writers, place, folder, restored, past>>

MayLock == lock = Nobody

TakeLock(p) ==
    /\ at[p] = "read"
    /\ IF MayLock THEN lock' = p /\ Goes(p, "locked") ELSE Goes(p, "idle") /\ UNCHANGED lock
    /\ UNCHANGED <<now, live, services, seen, writers, place, target, folder, restored, past>>

(***************************************************************************)
(* backup.  Whatever fails, the services it has stopped are started again. *)
(***************************************************************************)
\* Mutant: the service that runs the export is left alone.
KeepsApi == up \ {"api"}

Found == up

ListServices(p) ==
    /\ p \in Backups /\ at[p] = "locked"
    /\ IF "api" \in up
       THEN \E f \in Folders :
              /\ folder[f].stage = "none"
              /\ folder' = [folder EXCEPT ![f].stage = "open"]
              /\ writers' = [writers EXCEPT ![p] = Found] /\ place' = [place EXCEPT ![p] = {f}]
              /\ Goes(p, "stop")
       ELSE Goes(p, "unlock") /\ UNCHANGED <<folder, writers, place>>
    /\ UNCHANGED <<now, live, services, lock, seen, target, restored, past>>

\* Some of them may have stopped when the command fails.
Stop(p) ==
    /\ at[p] = "stop"
    /\ \E stopped \in SUBSET writers[p] :
         /\ up' = up \ stopped
         /\ \/ stopped = writers[p] /\ Goes(p, "dump")
            \/ Goes(p, "restart")
    /\ UNCHANGED <<now, live, image, record, lock, seen, writers, place, target, folder, restored, past>>

Writes(p, content) == \E f \in place[p] : folder' = [folder EXCEPT ![f] = content]
Snapshot(p) == LET f == CHOOSE g \in place[p] : TRUE IN folder[f]

Dump(p) ==
    /\ at[p] = "dump"
    /\ Writes(p, [Snapshot(p) EXCEPT !.stage = "dumped", !.dump = Live])
    /\ Goes(p, "export")
    /\ UNCHANGED <<now, live, services, lock, seen, writers, place, target, restored, past>>

Eligible(m) == row[m] \in {"retained", "lost"} /\ until[m] > now

Expires(media) == Min({now + Day} \cup {until[m] : m \in media})

\* export_media: a missing file ends it.
Export(p) ==
    /\ at[p] = "export"
    /\ LET media == {m \in Media : Eligible(m)} IN
         /\ \A m \in media : row[m] # "lost"
         /\ Writes(p, [Snapshot(p) EXCEPT !.stage = "exported", !.media = media, !.docs = docs,
                                          !.expires = Expires(media)])
    /\ Goes(p, "bundle")
    /\ UNCHANGED <<now, live, services, lock, seen, writers, place, target, restored, past>>

Valid(content) == now < content.expires

Bundle(p) ==
    /\ at[p] = "bundle" /\ Valid(Snapshot(p))
    /\ Writes(p, [Snapshot(p) EXCEPT !.stage = "bundled"])
    /\ Goes(p, "restart")
    /\ UNCHANGED <<now, live, services, lock, seen, writers, place, target, restored, past>>

AfterFailure == "restart"

Fails(p) ==
    /\ at[p] \in {"dump", "export", "bundle"}
    /\ Goes(p, AfterFailure)
    /\ UNCHANGED <<now, live, services, lock, seen, writers, place, target, folder, restored, past>>

Clean(p) == [f \in Folders |-> IF f \in place[p] /\ folder[f].stage # "bundled" THEN Empty ELSE folder[f]]

\* Starting may fail for some; then the files of an incomplete snapshot go.
Restart(p) ==
    /\ at[p] = "restart"
    /\ \E started \in SUBSET writers[p] :
         /\ up' = up \cup started
         /\ trouble' = (trouble \/ ~ writers[p] \subseteq up')
    /\ folder' = Clean(p)
    /\ Goes(p, "unlock")
    /\ UNCHANGED <<now, live, image, record, lock, seen, writers, place, target, restored, kills>>

Unlock(p) ==
    /\ at[p] = "unlock"
    /\ lock' = Nobody
    /\ Goes(p, "idle")
    /\ writers' = [writers EXCEPT ![p] = {}] /\ place' = [place EXCEPT ![p] = {}]
    /\ UNCHANGED <<now, live, services, seen, target, folder, restored, past>>

(***************************************************************************)
(* Release.ps1.  Before it replaces anything a failure changes nothing.    *)
(***************************************************************************)
Prepare(p) ==
    /\ p \in Releasers /\ at[p] = "locked"
    /\ Goes(p, "replace") \/ Goes(p, "unlock")
    /\ UNCHANGED <<now, live, services, lock, seen, writers, place, target, folder, restored, past>>

\* Containers get the images of r; of the others some may have ended.
Puts(r, changed, stopped) ==
    /\ image' = [s \in Services |-> IF s \in changed THEN r ELSE image[s]]
    /\ up' = (up \cup changed) \ stopped

Replace(p) ==
    /\ at[p] = "replace"
    /\ Puts(target[p], Services, {})
    /\ record' = target[p]
    /\ Goes(p, "unlock")
    /\ UNCHANGED <<now, live, lock, seen, writers, place, target, folder, restored, past>>

\* Containers were replaced, or some of them, and are not ready.
ReplaceFails(p) ==
    /\ at[p] = "replace"
    /\ \E changed, stopped \in SUBSET Services : Puts(target[p], changed, stopped)
    /\ Goes(p, "rollback")
    /\ UNCHANGED <<now, live, record, lock, seen, writers, place, target, folder, restored, past>>

RestoreServices == Services

Rollback(p) ==
    /\ at[p] = "rollback"
    /\ \/ Puts(seen[p], RestoreServices, {}) /\ UNCHANGED trouble
       \/ /\ \E changed, stopped \in SUBSET Services : Puts(seen[p], changed, stopped)
          /\ trouble' = TRUE
    /\ Goes(p, "unlock")
    /\ UNCHANGED <<now, live, record, lock, seen, writers, place, target, folder, restored, kills>>

(***************************************************************************)
(* Rehearsals and the removal of expired snapshots.                        *)
(***************************************************************************)
\* The checks of restore_media against the database that pg_restore has made.
Matches(content) ==
    /\ \A m \in content.media : content.dump.row[m] = "retained" /\ content.dump.until[m] > now
    /\ content.docs = content.dump.docs

RestoredRow(content, m) ==
    IF m \in content.media \/ content.dump.row[m] \in {"none", "deleted", "delete_pending"}
    THEN content.dump.row[m] ELSE "missing"

\* verify_bundle, then restore_media in a project of its own.
Rehearse(f) ==
    /\ folder[f].stage = "bundled" /\ Valid(folder[f])
    /\ restored' = IF Matches(folder[f])
                   THEN [result |-> "pass", row |-> [m \in Media |-> RestoredRow(folder[f], m)],
                         media |-> folder[f].media, docs |-> folder[f].docs]
                   ELSE [NoRehearsal EXCEPT !.result = "mismatch"]
    /\ UNCHANGED <<now, live, services, lock, program, folder, past>>

\* The isolated project is removed.
EndRehearsal ==
    /\ restored.result # "none"
    /\ restored' = NoRehearsal
    /\ UNCHANGED <<now, live, services, lock, program, folder, past>>

Prune(f) ==
    /\ folder[f].stage = "bundled" /\ ~ Valid(folder[f])
    /\ folder' = [folder EXCEPT ![f] = Empty]
    /\ UNCHANGED <<now, live, services, lock, program, restored, past>>

(***************************************************************************)
(* Programs are killed.  People remove a lock whose owner has ended and    *)
(* start what it left stopped.                                             *)
(***************************************************************************)
Kill(p) ==
    /\ at[p] \in Holding /\ kills < MaxKills
    /\ kills' = kills + 1 /\ trouble' = TRUE
    /\ Goes(p, "idle")
    /\ writers' = [writers EXCEPT ![p] = {}] /\ place' = [place EXCEPT ![p] = {}]
    /\ UNCHANGED <<now, live, services, lock, seen, target, folder, restored>>

Dead == lock # Nobody /\ at[lock] \notin Holding

RemoveLock ==
    /\ Dead
    /\ lock' = Nobody
    /\ UNCHANGED <<now, live, services, program, folder, restored, past>>

StartByHand ==
    /\ Dead \/ lock = Nobody
    /\ up # Services /\ up' = Services
    /\ UNCHANGED <<now, live, image, record, lock, program, folder, restored, past>>

Backup(p) == ListServices(p) \/ Stop(p) \/ Dump(p) \/ Export(p) \/ Bundle(p) \/ Fails(p) \/ Restart(p)
Release(p) == Prepare(p) \/ Replace(p) \/ ReplaceFails(p) \/ Rollback(p)
Work(p) == TakeLock(p) \/ Backup(p) \/ Release(p) \/ Unlock(p)

BackupNext ==
    \/ Serve \/ Maintain \/ Tick
    \/ \E p \in Programs : Work(p) \/ Kill(p) \/ \E r \in Releases : ReadRecord(p, r)
    \/ \E f \in Folders : Rehearse(f) \/ Prune(f)
    \/ EndRehearsal \/ RemoveLock \/ StartByHand

BackupSpec == BackupInit /\ [][BackupNext]_backupVars

(***************************************************************************)
(* Properties.                                                             *)
(***************************************************************************)
\* While a backup copies, nothing writes: no other backup's restart, no release and
\* no rollback of one brings a service back.
NothingWritesMeanwhile == \A p \in Programs : at[p] \in {"dump", "export"} => up = {}

\* A snapshot that may still be restored restores: dump and export speak of the same
\* pictures and documents, and the restored rows have their files.
SnapshotsRestore ==
    /\ restored.result # "mismatch"
    /\ \A m \in Media : restored.result = "pass" /\ restored.row[m] \in {"ready", "retained", "lost"}
                          => m \in restored.media

\* No snapshot that may still be restored holds a picture whose retention is over.
RetentionEndsSnapshots ==
    \A f \in Folders : folder[f].stage = "bundled" /\ Valid(folder[f])
                         => \A m \in folder[f].media : now < folder[f].dump.until[m]

\* A second releaser may replace the record that the first has read and goes back to.
ReleasesTakeTurns == \A p, q \in Releasers : p = q

ImagesFit == ReleasesTakeTurns => \A s \in Services : image[s] = record

\* Unless somebody was killed or a start has failed, the services run whenever nobody
\* has the lock, with the images of the recorded release if one person deploys.
RecordIsRunning ==
    lock = Nobody /\ ~ trouble => up = Services /\ ImagesFit

\* The invariant: the parts above, and every variable has its type.
BackupsRestore ==
    /\ BackupTypeOK /\ NothingWritesMeanwhile /\ SnapshotsRestore /\ RetentionEndsSnapshots
    /\ RecordIsRunning

(***************************************************************************)
(* The parts of the inductive invariant that are no properties.            *)
(***************************************************************************)
\* A backup writes to one folder of its own.
PlacesFit ==
    \A p \in Programs :
        at[p] \in {"stop", "dump", "export", "bundle", "restart"} => \E f \in Folders : place[p] = {f}

\* A backup stops whatever runs.
StopsAll == \A p \in Programs : at[p] = "stop" => up \subseteq writers[p]

\* The content of a folder speaks of one moment, and a picture outlives it.
Faithful(content) ==
    /\ \A m \in content.media : content.dump.row[m] = "retained" /\ content.expires <= content.dump.until[m]
    /\ content.docs = content.dump.docs

\* What is exported is faithful, and until it is the dump is what there is.
FoldersFaithful ==
    /\ \A f \in Folders : folder[f].stage \in {"exported", "bundled"} => Faithful(folder[f])
    /\ \A p \in Programs : \A f \in place[p] :
        /\ at[p] = "export" => folder[f].stage = "dumped" /\ folder[f].dump = Live
        /\ at[p] = "bundle" => folder[f].stage = "exported"

\* Releasers alone replace, and nobody else changes the record between the read of the
\* only releaser and its rollback.
RecordIsSeen ==
    \A p \in Programs :
        /\ at[p] \in {"replace", "rollback"} => p \in Releasers
        /\ ReleasesTakeTurns /\ p \in Releasers /\ at[p] \in {"read", "locked", "replace", "rollback"}
             => seen[p] = record

\* Unless there was trouble, a program that has the lock is at work, and leaves
\* the services as it found them or knows what to start.
WorkIsSafe ==
    ~ trouble =>
        /\ lock # Nobody => lock \in Programs /\ at[lock] \in Holding
        /\ \A p \in Programs :
            /\ at[p] \in {"locked", "replace", "unlock"} => up = Services /\ ImagesFit
            /\ at[p] \in {"stop", "dump", "export", "bundle", "restart"} => writers[p] = Services /\ ImagesFit

BackupInv ==
    /\ BackupsRestore
    /\ PlacesFit /\ StopsAll /\ FoldersFaithful /\ RecordIsSeen /\ WorkIsSafe
====
