# Verification of the PPE safety-monitoring system

The repository watches camera streams for missing protective equipment. Senders cut
footage into chunks; inference processes turn chunks into *candidate events* with clips;
the API keeps events and media in a database and on disk; GPU workers redact faces before
anybody sees a clip; administrators review events, retain or delete their media, send
warnings to field speakers, and declare what a site looks like. This directory holds TLA+
models of that system, the TLC configurations that check them, and TLAPS proofs about them.

Paths below are relative to the repository.

## 1. The system

All state of the server is in one database and a few directories (private originals,
processed files, temporary work, chunks, pictures, documents). Every transaction that
matters begins with `begin_write` (`backend/db/connection.py:108`: `BEGIN IMMEDIATE` on
SQLite, an advisory lock on PostgreSQL), so **one such transaction is one atomic step** in
every model. A transaction that only reads takes no lock, and on PostgreSQL (READ COMMITTED,
`connection.py:67`) each of its statements sees what is committed by then. Where that
matters to what is claimed (the policy of a camera, the version on a page, the counts of the
statistics) the models read statement by statement, or let the version be an older one.
Files are not part of a transaction, and there are several kinds of processes (API,
maintenance loop, GPU workers, inference processes, senders, field agents, programs run by
hand), each of which may die at any point.

| Component | State it keeps | What makes it hard | What must hold | Module |
|---|---|---|---|---|
| Remote media processing (`backend/processing/{service,routes,worker}.py`) | jobs, generations, worker folders with journal and copies | two checks around an upload body, lost answers, leases, restarts | one active job, one copy per node, one outcome, no copy survives a deletion | `MediaProcessing` |
| Media rows, retention, deletion (`backend/media/service.py`) | media, retention rows, clip requests, files | files outside transactions, deletion skipped while in use | deletion is complete, irreversible and eventually done | `MediaProcessing` |
| Media maintenance (`backend/media/maintenance.py`) | sets read earlier in a pass | works from sets that are old when used | never removes what is in use | `MediaProcessing` |
| AI jobs and snapshots (`backend/processing/ai_jobs.py`, `work_areas/snapshots.py`) | AI jobs, stills, results | three claims behind one gate, deadlines | one private copy per node over all kinds of jobs | `WorkerLeases` |
| Inference priority (`backend/processing/priority.py`, `inference_worker/inference_load.py`) | busy signals by session | late and lost signals | detection goes first, no signal stays behind | `InferencePriority` |
| Media redaction (`backend/media/{enhanced,redaction}.py`) | face tracks of a video | misses of the detector | a face that was found stays masked | `FaceMasking` |
| Event submission and clips (`backend/processing/events.py`, `inference_worker/event_pipeline.py`) | candidate events, clip requests, uploads | lost answers, restart between steps | one medium per request, outcomes are true | `ClipDelivery` |
| Video ingest (`backend/video/`, `video_sender/`) | streams, chunks, the sender's files | limits, duplicates, gaps | nothing deleted unsent, gaps are real | `VideoIngest` |
| Inference runners, clip buffer, tracker (`inference_worker/`) | clip buffer, observations, tracks | time boundaries, restarts | one event per observation, identities stay | `InferenceLoop`, `PersonTracking` |
| Reviews, statistics (`backend/api/main.py`, `backend/db/event_repository.py`) | reviews, aggregates, summaries | eligibility read before the write | aggregates miss no event and count only rulings | `EventReviews` |
| Event merge (`backend/event_merge/`) | parent links | chains, work in progress | depth one, a merged event stays empty | `EventReviews` |
| Consents (`backend/consents/`) | records, links | linking against revoking | what is linked is active | `EventReviews` |
| Field commands (`backend/field/`, `field_agent/`) | commands, agent state file | lossy link, cooldown | a command sounds at most once | `FieldCommands` |
| Education materials (`backend/education/`) | recommendations, drafts, publications | pages that are old, ids that are reused | shown is what was approved | `EducationMaterials` |
| Equipment recognition (`backend/equipment/recognition.py`) | pictures and rows | files against rows, two administrators | the picture is there, confirmed once | `EquipmentRecognition` |
| Provider credentials (`backend/equipment/chatgpt_auth.py`) | one session file, its lock | one-time refresh tokens | the file holds the accepted token | `ProviderCredentials` |
| Work areas, zones, cameras, groups, users (`backend/{work_areas,zones,cameras,equipment,camera_groups,users,auth}/`) | rows with versions, sessions | stale pages, policies read statement by statement | links fit, a policy of the current version is the one in force | `SiteSetup`, `WorkAreaGeometry`, `Accounts` |
| Database adapter and migrations (`backend/db/`) | schema version, tables | overlapping and interrupted upgrades | version tells schema, data is kept | `DatabaseUpgrade` |
| Backup and deployment (`backend/backup/`, `deploy/`) | snapshots, lock, record of the release | programs run by hand side by side | a snapshot restores | `ReleaseBackup` |
| Frontend | - | user interface | - | not modelled |

Interactions: inference processes, senders, workers and agents call the API over HTTP, and
the API calls none of them; the maintenance process and the API share database and
directories but no memory; deletion spans all of them (API decides, worker erases and
confirms, whoever comes last marks the row). An event's path is `VideoIngest` (chunks) ->
`InferenceLoop`, `PersonTracking` (observations) -> `ClipDelivery` (event and clip) ->
`MediaProcessing` with `WorkerLeases`, `InferencePriority`, `FaceMasking` (redaction) ->
`EventReviews` (review, decision, merge) -> `FieldCommands`, `EducationMaterials`.

The hazards of each component, with the line where each bites, are listed in
`PROJECT.json` with the properties that cover them.

## 2. How the project is laid out

| Modules | Role |
|---|---|
| the 18 modules of the table above | one per component: state, one action per transaction, request step or file step, its parts of the invariant |
| `Delivery` | abstract: a queue that executes a command at most once; implemented by `FieldCommands` |
| `CaseFile` | abstract: the life of an event's case; implemented by `EventReviews` |
| `MediaProcessingProofs`, `FieldCommandsProofs`, `EventReviewsProofs`, `SiteSetupProofs`, `WorkerLeasesProofs`, `OperationsProofs` (of `Accounts` and `ReleaseBackup`), `ClipDeliveryProofs`, `InferencePriorityProofs` | TLAPS: inductive invariants, theorems, refinements |
| `MCMediaProcessing`, `MCFieldCommands` | constants, symmetry and constraints of one module for TLC |
| `MCWorkers`, `MCFootage`, `MCCases`, `MCSite`, `MCOperations`, `MCLive` | small instances of several modules side by side |

`MCWorkers` extends `WorkerLeases` and `InferencePriority` (whose names that `WorkerLeases`
uses too begin with `load`) and instantiates `FaceMasking`; `MCFootage` extends
`ClipDelivery` and instantiates `VideoIngest`; `MCCases` extends `EventReviews` and
instantiates `InferenceLoop`; `MCSite` extends `SiteSetup` and instantiates
`WorkAreaGeometry`, `EquipmentRecognition`, `EducationMaterials`, `ProviderCredentials` and
`PersonTracking`; `MCOperations` extends `Accounts` and `ReleaseBackup` (whose names that
`Accounts` uses too begin with `Backup`) and instantiates `DatabaseUpgrade`. A property of
an extended module is stated for all parts and is the very formula that is proved.

*Parts.* Modules that share no state are checked in one run, side by side: the variable
`part` names the instance a behaviour is about, and all others keep their initial state, so
a run visits the sum of the instances' states and not their product. Where one module is
instantiated with different bounds, `Within` names, part by part, what a behaviour may
touch; steps that leave it are cut. A property of such a run says, for each part, what its
instance says.

*Correspondence.* `map` in `PROJECT.json` gives, for every definition that models code, its
file and lines. Time is reduced to the comparisons the code makes: either a set of things
that have become old, which may grow at any time, or ages counted up to the last one
anybody asks for.

## 3. The modules

### MediaProcessing

*State.* Per media: `mstatus` (`event_media.status`; "invalid" is "failed" with an error
code that forbids reprocessing), `gen`, membership in `started`, `srcRef`, `outRef`
(`processing_started_at`, `source_path`, `storage_path` set), `req` (its clip request).
Per job: media, generation, status, node, cleanup status. Disk: `srcFile`, `outFile`.
Per worker: phase of `execute()`, job, and the jobs whose copies (`payload`) are on its
disk; a job's journal is written before its first copy, so copies are always found again
and the journal is no variable. Per request handler between transactions: `requests`,
`uploading` (results between the two authorisations), `unlinkOut` (publish handlers about
to remove a file after a rollback). Deletion: `deleteDecided`, `eventDeleted`, `unlinked`.
Maintenance: `mpc` and the sets a pass has read.

*Actions.* One per transaction or file step. An upload is `Register`, `Preserve`,
`EnqueueUpload`, `Receive`, with the failure path `FailJobs`, `FailMedia`,
`FinishProcessing`; a reprocess is `Reprocess`, `EnqueueReprocess` or its failure; a
worker goes `Claim`, `AskSource`, `StoreSource`, `PostResult`, `Publish`, `ResultAnswer`,
`ErasePayload`, `RecoverCleanup`, and at each network call may instead be refused or
get no answer; `ApiCrash`, `WorkerCrash`, `MaintCrash` lose what the process had in
memory and keep what is on disk.

*Assumptions.* One worker process per node token (`worker.lock`). Upload, publish and
reprocess handlers end within `stale_after` (one hour) unless the API crashes, so the
sweeps, which compare modification and start times with the cutoff, do not see what a
live handler has just written; `MaintTxn` and `Publish` express this through `InFlight`
and `sweepOut`. Since no lease is granted or renewed beyond the TTL (`service.py:97,129`),
expiry of an original lapses the running job as well; renewal only delays `Lapse`, which is
never forced, so it is no action. Removing a file succeeds. A media that is requested is
bound to its request from registration. Of two identical handlers on one media at the same
step the model keeps one.

### WorkerLeases, InferencePriority, FaceMasking

`WorkerLeases` has the three kinds of jobs (media, stills, AI requests) that workers claim
in three transactions behind one gate: a node with a copy it has not confirmed erased gets
nothing. It follows a job from creation to the removal of every private file, with claims
and results lost or served late, deadlines, requesters that go away and kills of workers
and API. Of a media job only what the gate sees is kept: its life is that of
`MediaProcessing`.

`InferencePriority` has the signals by which detection makes workers yield: a lease per
session that is refreshed between frames and taken back, requests that are handled after
their sender has given up, the worker's question before each use of the GPU. Its
assumption, that one detection fits between refresh and end of the signal
(`Latency + Refresh + Detect < Ttl`), does not cover a client that waits out its whole
timeout of 20 s. The signal without a session of older programs is left out. A session
beyond the capacity of its node is refused (429) and tries for ever.

`FaceMasking` has the tracks that bridge misses of the face detector. Which tracks a
detection is compatible with is a choice; counters, confirmation, hold and prediction are
the code's. `mine` and `bridge` record what the properties speak about.

### VideoIngest, InferenceLoop, PersonTracking

`VideoIngest`: a tick is 15 seconds, ages are saturated, bytes are counted in chunks. A
chunk's content is its camera, the sender's session and its number. The place of a stream
that is empty and gone is used again. Gaps stand for dropped footage only within the first
session of a sender whose probe of files does not fail. While the server is unreachable a
sender stays in its loop of creating a stream and does not discard stale files.

`InferenceLoop`: `run_server.main` next to the server; the detector and the tracker are the
choice of an observation per frame. Chunks are not longer than the pre-roll, as the
repository's senders cut them (one second against two, `video_sender/capture.py:18`),
although the server would accept three. What the world does happens between calls. A
person's observation may miss frames up to one tolerance and a clip may gap up to another,
which differ by one frame in the code.

`PersonTracking`: boxes stand side by side, so a box is an interval and overlap is that of
intervals; items are the places of their centres. `KeepsIdentity` is promised only while
two people are not tangled, as greedy matching cannot do better; the order of detections is
arbitrary.

### EventReviews and CaseFile

An administrator's request that reads before its write transaction (eligibility, the
version on a page, the counts of the statistics) keeps what it has read in `calls[a]`, and
others act in between. Actions: `BeginReview`, `StoreReview`, `BeginReReview`,
`StoreReReview`, `OpenCase`, `DecideRetain`, `DecideDelete`, `OpenMerge`, `Merge`,
`BeginStatistics`, `ReadCount`, `StoreStatistics`, consent registration, linking and
revocation, and what becomes of clips meanwhile. `history`, `rulings` and the sets in
`summaries` only record what properties speak about. The two reads of a re-review are one
step. A clip id stands for a request and the medium it becomes. Bounds: `Duties` (which
requests an administrator makes), `Offered` (reviews), `MaxReviews`, `MaxVersion`.
`CaseFile` is the life of a case that this must implement: open, merged or reviewed,
retained, deleted, and nothing leads back from a merge or a deletion.

### ClipDelivery

One candidate event on its way to the server: submission with retries, clip requests, the
upload in the server's four transactions, the reference collector for cameras of the
group, and what administrators do meanwhile. An API that is killed between registering a
medium and marking its request leaves the request pending until an administrator acts;
that is why the liveness property asks it only of requests nothing has arrived for. If an
event is merged while its worker waits for the post-roll, the worker's submission raises
and ends the inference process (and, through `run_multi`, its peers): `ClipsArrive` says
that nothing else does. `footage` is "none" unless a camera of the group has footage too
(`Group`), for which the event then opens a second request. Bounds: `MaxRequests`,
`MaxCalls` (uploads), `Tries` (attempts of a client), `MaxCrashes` (kills of the API).

### FieldCommands and Delivery

*State.* The rows of `field_command` (`status`, `cmdNode`, `cmdEvent`, `cmdLang`); which
events are open to broadcasts, the output node of an event's camera, the nodes heard of
lately; broadcast requests between their read of the event and their transaction
(`askEvent`, `askOver`); per agent what its executor does (`task`) and the one record its
state file can hold (`jcmd`, `jstat`; `run()` claims only when the file is empty); what is
under way between them: claims nobody waits for any more (`stray`) and results that were
sent (`sent`). `ran` counts executions; no code reads it.

*Actions.* `AskBroadcast` and `QueueBroadcast` are the two halves of
`enqueue_event_broadcast()`: time and event are read before the write lock is waited for.
`Claim` is the claim transaction with an answer that arrives and the record saved;
`GiveUpClaim` and `ServeStrayClaim` are a claim whose answer is lost or which is served
late. `BeginExecution`, `EndExecution`, `Report`, `GiveUpReport` are the agent's loop,
`ServeStrayReport` any later arrival of a result, `Crash` and `Start` a kill and a restart.
Where a kill between two writes leaves what a kill before both leaves, the model has one
step for both.

*Abstractions.* Kinds of commands differ only in whether they have an event; sizes and
contents of results, voices, templates and the broadcast switch are left out (reasons for a
refusal). The cooldown's key is the code's: node, kind of equipment and zone (`KindOf`), and
the language, which is any at each request, for administrators change a node's language and
the default at any time; after such a change the same warning may sound again at once. The
length of the cooldown is a setting: it is taken to be the same for everybody and not to be
made longer while one runs. One agent per node token.
A relinked camera is relinked per event. Commands are claimed in the order of insertion.

### SiteSetup, WorkAreaGeometry, Accounts

`SiteSetup`: zones, cameras, equipment, links, work areas with their mode, camera groups,
and the policy that inference processes read. Administrators act on pages (`seen`, `shown`)
that may be old: the version on one is read before the rows it shows. `policy()` reads the
camera, its mode and version, the zone's rule and the areas, and for every area the camera,
the equipment and the link, in a SELECT each; without area mode it calls
`get_camera_policy()`, which reads camera, scope, rule and equipment on a connection of its
own. Each SELECT is a step (`ReadPolicy`, `ReadConfig`, ..., `ReadLink`, `TellCamera`),
`asked` keeps what has been read, `told` what the process is told, and other requests come
between. So version v may be told with areas of v + 1, and two policies of a version that is
past may differ; both are true of the code on PostgreSQL, and nothing is claimed of them (an
inference process compares `policy_version`, a fingerprint of the whole answer, and not the
configuration's version). What holds is `PoliciesInForce`: a usable policy of the version
that is *still* the camera's is the one in force, with no area left out. Of a reader in the
middle of its SELECTs the model keeps the rows that matter later; the rule's contents and
an order among the areas are left out.
Equipment classes, polygons and names are left out: a change of them is a new version. The
camera's own status plays no role in its camera-wide policy, as in the code.

`WorkAreaGeometry`: which outlines the server accepts, and whether a point lies in an
area; corners on a grid, so that the tolerance of 1e-10 is zero. The reference for
containment is independent of the code's ray casting; accepted outlines obey Pick's theorem.

`Accounts`: login reads the account, checks the password and issues a token with the
version it read; requests check their token in one transaction and work in another. That
an administrator always remains rests on the check of the token, so it is stated as long as
no two requests were under way at a time (`overlapped`): two that are can deactivate each
other's administrator.

### EducationMaterials, EquipmentRecognition, ProviderCredentials

`EducationMaterials`: one quarter. A recommendation's id is its rank, so an id on an old
page may name another scope; a manual draft does not say which scope it expects and may
end up under another one, a generated one does. `PublicationsStand` says what may happen to a
published text, with one exception that the code makes and a document denies (section 5):
generating the statistics of the quarter again deletes them all.

`EquipmentRecognition`: an analysis or a sweep is far shorter than the hour after which
files count as left behind; removals may fail and are tried again. A PostgreSQL commit
whose answer is lost is not modelled.

`ProviderCredentials`: threads of a process wait for `session.lock`, processes give up; the
provider rotates refresh tokens and accepts the last one only. A session is lost only
through a lost answer, a failed check or a kill. A lock left by a kill is removed by hand
when all programs have ended (`docs/20261011_Equipment_ChatGPT_Subscription_Setup.md:48`).

### DatabaseUpgrade, ReleaseBackup

`DatabaseUpgrade`: every migration as the objects it creates and the rows it converts; old
databases of sampled versions on SQLite and of every version on PostgreSQL; one failure or
kill. A run that is overtaken and killed after it wrote the lower `user_version` leaves the
database not ready until init_db runs again. Seed rows that were deleted come back, as
documented (`backend/db/README.md:26`).

`ReleaseBackup`: snapshots, rehearsals and releases that people start by hand. A kill
leaves the lock, stopped services and an incomplete folder, as the documents say, to be
cleaned up by hand. Both programs read the record of the release before they have the
lock. For backups that is harmless. A releaser that has waited in between may go back to
images that are not of the recorded release any more, so the last words of
`BackupsRestore`, on the images that run, are stated for deployments where one person
deploys (`ReleasesTakeTurns`); all else is for any number of them.

## 4. The runs

| Run | Instance | Shows |
|---|---|---|
| `media_crash` | 1 requested media, 2 workers, 2 jobs, 1 crash; the second worker only without crash, maintenance and deletion | one job at a time, one copy per node, erased is erased, nothing over comes back (that variables keep their types is proved) |
| `media_tracked` | 1 media, 1 job, 1 crash | violated: crash inside reprocess (finding 1) |
| `media_file` | 1 media, 2 jobs, no crash | violated: late unlink of a failed publish (finding 2) |
| `field_agent` | 2 events of a kind, 2 languages, 2 requests, 3 commands, 1 agent, 2 kills | nothing sounds twice, rows tell what happened, results stay, one broadcast per event and, in a language, per cooldown, none after review; `Delivery` is implemented |
| `field_unknown` | 1 command, 1 agent, 1 kill, fairness | violated: the command of an agent that ended stays claimed (finding 3) |
| `workers` | media and AI jobs, two stills, a still with a kill; two programs and room for one signal; one request that was given up under way; one face held for long, two near each other | one copy per node over all kinds of jobs, limits, outcomes that stay; detection goes first and no signal stays behind; a face that was found stays masked |
| `footage` | three chunks and a short buffer, two cameras at their limits, a sender that passes chunks over; two uploads of a clip, one upload with a kill and what follows a review, two requests, a clip with the footage of a second camera | what a sender deletes was stored and gaps are real; clips arrive, and what is settled stays |
| `cases` | two reviewers, a reviewer and a decider, two who merge, statistics of two quarters; failing calls, a restart, two areas with a change of policy | reviews agree, rules hold, `CaseFile` is implemented; observations make one event each |
| `reviews_once` | the two reviewers of `cases` | violated: a second review counts a false positive again (finding 4) |
| `site` | zones of two cameras; two administrators' pages; one reader of a policy of two areas, read statement by statement, and an administrator, up to version 3; a group; outlines with 5 corners on a 4 x 3 grid; two recognitions; materials in three instances; three programs with credentials; two people over four frames, three in one | setup agrees, nobody acts on an old page, materials were approved, records hold, identities stay |
| `operations` | administrators one and two at a time, two workers' zones; SQLite and PostgreSQL; a backup of a picture and a document, of two pictures, and two backups with a release | ended sessions stay ended, zones exist, an administrator remains; upgrades keep data; snapshots restore |
| `live` | ten instances of nine modules, each under its fairness; of media 1 upload, 1 worker, 1 job, 1 crash | nothing stays open: decided deletions, jobs, copies, commands, requests, chunks, ... |

*Bounds.* They are the smallest at which the interesting cases happen: two jobs of one media
give a stale holder and a fresh one (late results, failures and cleanups of the first while
the second runs); one crash at every point covers every orphan the code leaves; two commands
give a lost claim that meets a later one, and a third lets both be over; two administrators
suffice for whatever a request reads before it writes, because a write transaction excludes
all others; one reader of a policy, since readers change nothing and no property compares
two, and three versions, so that two changes come while it reads; three programs for one
that holds the lock, one that waits and one that logs out; two recognitions for a
confirmation and a sweep of another one. What a bound in a guard or constraint cuts off is
named where it stands (`Bound:`). Where a component is proved (section 6) the bounds play no
role.

`CHECK_DEADLOCK FALSE` is said of runs whose behaviours end: footage that has been filmed
and analysed, an accepted outline, versions at their bound.

*Symmetry* is used only over sets whose members the module never tells apart, and only in
runs without liveness properties.

*Fairness.* `live` states the fairness of each component beside its instance. For media
(`MediaFairness`): upload, reprocess and publish handlers, the worker loop
(`backend/processing/worker.py:215`) and the maintenance loop
(`backend/media/maintenance.py:108`) keep running, time passes, and a cleanup confirmation
that is sent again every round is answered at some round; nobody is assumed to upload, to
delete, to claim or to crash. Its upload is not one for a clip request: what becomes of
requests is the instance of `ClipDelivery`. Elsewhere loops of agents, workers, senders,
maintenance and the server's handlers go on, agents and workers that were killed are started
again, a failed initializer is run again, time passes, and what is tried again and again
(`RetryFairness`) succeeds at some time. `part` never changes, so conditions of different
parts are joined in one formula where that is equivalent, and `NothingStaysOpen` is one
leads-to for two items `k` (of media: a decided deletion that is not complete; a job that is
queued or runs, or a copy on a worker). `field_unknown` has the fairness of a running agent
only: starting one again is nobody's duty.

## 5. Findings

1. `ProcessingIsTracked` (run `media_tracked`). `reprocess()` reopens the media in one
   transaction (`backend/processing/service.py:239`) and queues it in the next (`:242`). A
   crash in between leaves `status='processing'` with no job and no start time; neither
   maintenance nor a new reprocess picks it up. The comment in between promises the opposite.
2. `ReadyHasFile` (run `media_file`). A publish whose transaction fails after the move
   removes the file after its lock is released (`backend/processing/routes.py:323`). If a
   reprocess publishes in between, the media stays `ready` without a file.
3. `UnknownWithoutResult` (run `field_unknown`). `unknown` is set in `claim_command()` alone
   (`backend/field/service.py:88`), for the node that claims. A field program that ends after
   its claim and is not started again leaves its command `claimed` for good;
   `docs/20261003_Auth_Broadcast_Setup.md:124` promises `unknown`.
4. `CountedOncePerEvent` (run `reviews_once`). Every stored false positive adds one to the
   aggregate (`backend/db/event_repository.py:408`), by an update too, and nothing is taken
   back: an event whose second review finds a false positive again counts twice.
   `backend/db/README.md:313` says that it counts once. What `FalsePositivesCounted` (run
   `cases`) claims is only that the aggregate lies between the events and the rulings: no
   event is missed, and no refused, overtaken or rolled-back request is counted.

Other disagreements between code and documents that came up while modelling; the models
follow the code, and no run is about them:

- the cleanup of an AI job is confirmed only for an enabled processor
  (`backend/processing/ai_routes.py:70`), so a node whose capability is revoked while it
  holds one owes it for ever; `routes.py:118` says that cleanup remains possible, and media
  jobs and stills keep that promise. `NothingStaysOpen` asks it of nodes that keep theirs;
- a chunk that starts up to 0.25 s before the last one ends counts as continuous
  (`inference_worker/time_utils.py:71`), and its first frame, older than the newest in the
  clip buffer, raises an error that ends the process and with it, in `run_multi`, those of
  all cameras; `docs/20261031_Inference_Buffer_Resilience.md:19` expects no such overlap;
- of two re-reviews that both found an event on hold the later one replaces a final
  confirmation (`backend/api/main.py:317`; `backend/api/README.md:274`);
- the candidates of a quarter are counted before the write lock is taken, and a merge in
  between is overwritten by the stale count (`event_repository.py:908`;
  `docs/20261023_Manual_Event_Merge_API.md:48`);
- generating statistics again deletes the quarter's education materials, published ones
  included (`event_repository.py:972` deletes the summary, and `backend/education/schema.sql:4`
  cascades); `docs/20261023_Education_Materials_API.md:64` says that materials keep a copy of
  their scope so that approved ones are not deleted. `PublicationsStand` names this as the
  exception `Regenerated`, so the run `site` does not certify what the document says;
- `backend/equipment/routes.py:227` calls its plain `BEGIN` "One snapshot for the camera,
  rules and equipment mappings", which it is on SQLite and not on PostgreSQL
  (`backend/db/connection.py:67`); the models read statement by statement;
- at up to 12 frames a second a lost track is removed before its loss can trigger the
  turned views (`backend/media/enhanced.py:249`, the comment at `:253`);
- `deploy/Release.ps1:48` reads the record before it has the lock, so a failing release that
  waited for another restores the one before that (`docs/20261013_Server_Release_Setup.md:68`).

## 6. What is proved

The proofs are for all sets of nodes, events, administrators and so on, and all bounds. The
assumptions on the constants are the named `ASSUME`s of the modules, which TLC evaluates in
the runs. Each component has one inductive invariant, `Inv` (`LoadInv`, `BackupInv`) of its
module; TLC checked it on the instances of the runs before it was proved.

**MediaProcessing** (every safety and action property of `media_crash`):

- `CopiesOweCleanup` and `OneCleanupPerNode`: whatever copy exists belongs to a job whose
  cleanup is pending, and a node has at most one of those. Hence one copy per node, and
  confirmed means erased.
- `DecidedIsCondemned`, `ErasedStaysErased`, `EventDeletedIsDone`: what deletion has
  reached stays. `ErasedStaysErased` alone is not inductive: an original may be on disk
  without a row after a crash in `_preserve_source`. `OrphanIsWatched` says that its media
  is still started, so deletion skips it, until the pass that removes the file; and this
  needs `PreserveIsFirst` (before its original is preserved a media has no job) and
  `AbsentIsUntouched`.
- `OneActiveJob`, `RowsInOrder`, `WorkerOwesCleanup`, `QueuedIsUnassigned`: what a live
  lease refers to.

Each conjunct has a lemma: one step per action that writes a variable it reads, and one
step that no other action does.

**FieldCommands** (every safety and action property of `field_agent`, its typing, and the
refinement of `Delivery`). The key is `SentIsSettled`: what has left for the server is never
in a state file as "started" again, so a result in flight, however late, speaks of an
execution that is over; `RowWasSent` carries that into the rows. `JournalTellsTheTruth`
counts executions per record; `CoolingIsBroadcast` says that no request in progress takes a
warning for cooled down that has not (warnings of another language are not compared, as in
the code). `DeliversHolds` maps each step to a step of `Delivery`
or a stutter.

**EventReviews** (`ReviewsAgree`, `RulesHold`, and the refinement of `CaseFile`). The steps
are first sorted into six classes (lemma `Steps`): one that stores a review, merges,
deletes, retains, stores a summary, or leaves the cases alone; every conjunct is then proved
class by class. What the stated invariant needs beside itself: `StatusIsReview` (the status
of an event is what its last review says), `ReReviewsHaveReview` (a request to review again
is about an event that has a review, which it cannot know at its transaction otherwise),
`AggregateCountsReviews` (the aggregate is the number of rulings, from which the weaker
`FalsePositivesCounted` follows), `DecidedIsReviewed`, `DeletedHasNoMedia` (so nothing that
is deleted gains a usable clip and with it a review), `CandidatesBeganThen` (a summary has
events of its own quarter only; that is why counting the sources' quarters again at a merge
is enough), and `CountsWereReviewed` (what a request for statistics has read so far was
ruled once, though each count was read at another time). `CasesFollowCaseFile` maps each
class to one action of `CaseFile` or a stutter.

**SiteSetup** (`SetupAgrees`, `ActedAsSeen`). The steps fall into five kinds: rows that
areas rest on, areas and modes, pages of areas, groups, reads of the policy. The argument
for `PoliciesInForce` and `ActedAsSeen` is about versions: `AreasAreCounted` (no area is
newer than its camera's configuration), `PagesFit` (a page of the current version shows the
areas there are: that is what the version a page sends back is worth), `GroupPagesFit`
alike, `PoliciesFit` (no policy is of a version to come), and `ReadersFit`: as long as the
version a reader has read is the camera's, the mode is the one it goes by, and the areas it
has resolved, has yet to resolve and is resolving (`Collected`) are the areas there are,
unless it has found an issue. It holds because the version is read *before* the areas and
every change of areas or mode is a new version, so a reader that a change overtakes keeps a
version that is past; the mutant of this property reads the version last. Nothing is proved
of policies of past versions, which may mix two of them.

**WorkerLeases** (`LeasesHold`, `OutcomesHold`). There are many actions and few things they
do, so a lemma per group of actions says of which `Shape` its steps are (rows are kept, or
one job is given to a node; copies, confirmations, images and results move in named ways),
and one lemma per conjunct says that such a step preserves it. `OneDebtPerNode` is the gate:
a node owes one cleanup at most. With `CopiesOweCleanup` it gives one copy per node.
`ConfirmsAreOver` is what keeps it while confirmations are late: one on its way is about
files that are erased and a job that is over, or that runs with its lease gone; it is thus
never taken for the confirmation of a job that still has files. `ReadyHasResult` and
`AskedIsNew` carry `ToldWithResult` over the steps between result and answer. `FewActive`
says that the jobs under the limits are finitely many, whatever the sets of jobs are.

**Accounts** (`AccountsHold`). `VersionsCount`: the version of an account is the number of
times its sessions were ended. `TicketsFit`: whatever a login has read or a token carries,
however old, is not newer than the account, and if it is of the current version it is of
the current password. Hence no session comes back. `RequestsStand`: a request that passed
the check of its token is that of an administrator who is still active, unless requests
overlapped. Sessions, requests about zones and requests about accounts are proved apart;
that `zone_name` is one of the memberships rests on the well-foundedness of the naturals.

**ClipDelivery** (`ClipsArrive`, `SettledIsFinal`). Handlers, clients, administrators and
maintenance write the same rows, but each in few ways. A lemma per group of actions
(`StoredShape`, `ReceivingShape`, `FailingShape`, ...) says in which of a few shapes its
steps change the requests, the event, the media, the handlers and the clients;
`EveryShape` collects them, and one lemma per part of `Inv` says that such a step preserves
it. What `ClipsArrive` needs beside itself: `RequestsOfEvent` (an event that is open has the
request of its own camera, so a worker that recovers always finds one), `MovedByMerge`,
`UnregisteredIsNew` and `HandlerKeeps` (what a handler found at its first transaction is
still so at its last, or the transaction refuses), `ReadyWasReceived` (what keeps a report
of failure from a request whose upload is done), `ClientsKnow` (an answer is about the
request its client asked for) and `OutIsLast`. That no step takes back an outcome
(`OutcomesStay`) follows from the shapes alone.

**InferencePriority** (`SignalsHold`, `DetectionFirst`), from
`Latency + Refresh + Detect < Ttl`. Types and capacity come first: a refresh is refused
while the other sessions of the node fill it. The rest speaks of one session: `SignalLasts`
bounds what is left of a signal by what its program has yet to do. When the acknowledgement
comes, at most `Latency` of it has gone; while the program waits for the next refresh,
`Ttl - Latency - Refresh + due` is left; while it detects, more than
`Ttl - Latency - Refresh - spent`; a tick takes one from both sides. `ProgramsInOrder` says
that only marked programs ask for a refresh, hence that no signal is left that its program
does not know of. `WorkersYield` (a worker that may use the GPU asked in this tick, when no
signal counted) gives `DetectionFirst`.

**ReleaseBackup** (`BackupsRestore`). A program in the middle of its work has the lock, so
a step of one changes nothing that another at work rests on (`OthersStay`, `WorksAlone`).
`StopsAll` (whatever runs when a backup stops services is among those it has found) gives
`NothingWritesMeanwhile`, and this keeps `FoldersFaithful`: between dump and export the dump
is what there is, so what is exported are rows of the dump with their files, and none
outlives its retention. A snapshot that is valid therefore passes the checks of a rehearsal,
however much later and whatever the services did meanwhile. `WorkIsSafe` carries the state
of the services through a program's work: they run, or the backup knows what to start.
`RecordIsSeen` (what the only releaser has read before it had the lock is still the record)
makes the rollback right; with two releasers it is false, and so is the conclusion.

`PROJECT.json` lists the theorems with the property each states.

Only model-checked:

- liveness (`NothingStaysOpen`) and the fairness it rests on, which are beyond TLAPS here;
- the properties of `FaceMasking`, `VideoIngest`, `InferenceLoop`, `PersonTracking`,
  `EducationMaterials`, `EquipmentRecognition`, `ProviderCredentials` and
  `DatabaseUpgrade`, on the instances of section 4;
- what computes over data of any size: outlines against their reference
  (`WorkAreaGeometry`, up to five corners), the matching of tracks (`PersonTracking`).

## 7. Not modelled

- The frontend; its calls are the requests of the modelled handlers.
- The networks, optical flow and pixels of redaction and detection; encoding of video.
- The translation of SQL in `backend/db/connection.py`; seed data.
- `run_local` and `run_chunks` (inspection tools), `sender.py` (a one-shot trial program),
  the legacy scripts `src/realtime_helmet_monitor.py` and `src/helmet_event_logger.py`,
  training and data scripts.
- Broadcast settings, templates, inventories and choice of voices, registration of nodes.
- Statistics per kind, zone and trend (replaced with the summary), texts of
  recommendations, the form of a provider's answer, checks of consent documents.
- The first release, access modes, tunnel and preparation of a host, `run_multi.supervise`.
- Local redaction without workers (`_process`, `reprocess_media` in local mode).
- Sizes and contents of results, and limits on them. A result that the server refuses with
  another status than 404 or 409 (413, beyond 64 KiB) is retried for good and its agent claims
  nothing else (`field_agent/main.py:69`); it would take an inventory of several hundred voices.
