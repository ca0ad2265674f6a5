# Live Auto Recorder: TLA+ models and proofs

Live Auto Recorder watches channels of streaming services, records each broadcast
with streamlink and ffmpeg, and processes the finished files. This directory holds
TLA+ modules of the parts where a wrong interleaving, a crash or a late answer could
lose a recording, record twice, or destroy a file; the configurations with which TLC
checks them; and TLAPS proofs of the results that do not depend on the instance.

Paths below are relative to the repository's root; line numbers are those of the
modelled commit.

    tlc -workers 2 -config JobStore.cfg MCJobStore.tla     # any row of the table of runs
    tlapm MediaWorkerProofs.tla                            # any proof module

`PROJECT.json` lists the runs, for every definition the source lines it stands for,
for every property a change of the code that would break it, the hazards of the code
and what covers them.

## 1. Inventory

One Python process runs a FastAPI application on one asyncio event loop. Recorders and
media tools are child processes in process groups of their own. Threads exist only for
the two lanes of the media worker, for blocking calls, and for the v1 verification pool.
Durable state is in SQLite (`v2_repository.py`, `recording_catalog.py`), in JSON files,
in a marker file for captures, and in the media files themselves.

| component | state | operations | interacts with |
|---|---|---|---|
| durable job tables (`v2_repository.py` 86-126, 252-552) | rows of jobs, attempts, publications, idempotency keys | create, claim, heartbeat, set/clear process, record/reconcile/reject publication, finish, cancel, retry, recover | clients (API), both lanes, recovery |
| media worker (`v2_worker.py`) | lanes, `_active`, `_ready`, child processes, work directories, final paths | start, stop, claim loop, heartbeat, execute, publish, reconcile | job tables, file system, processes |
| channel tables (`v2_repository.py` 553-660) | desired mode, observed state, commands, suppressions, broadcasts | upsert, set mode, observe, create/update command, suppress | controller |
| channel controller (`v2_channels.py`) | `_once`, `_continuing`, `_current`, `_captures`, `_owned_processes`, `_blocked_processes`, `_stopping`, a lock per channel | `command`, `patch_mode`, `legacy_stop`, `admit_metadata`, `capture_started/finished`, `session_finished` | state machine, watch task, repository, guard |
| state machine (`channel_fsm.py`) | per channel: state, stop flag, watch task, respawn task, a lock | `userStart`, `stop`, `stopAll`, `onRecordEnabledChanged`, respawn | controller, recorder, operations |
| recorder (`live_recorder.py`, `recording_session.py`) | one attempt: metadata, launch, wait, verdict; in segmented mode two processes, a pump, and batches that encode the segments | `record_once`, `chzzkStartRecording`, `runSegLoop`, `gracefulTerminate`, post-processing | controller, processes, `data_manager` |
| YouTube recorder (`youtube_recorder.py`) | one attempt of ytarchive: fragments, merged file, two helper tasks, three movers of the file | `ytStartRecording`, `checkStopRequest`, `readPipe`, `cleanupTmp`, `moveAfterProcessingTask` | state machine, controller, processes, `data_manager` |
| capture guard (`v2_runtime.py` 71-162) | marker file, `_capture_tracking_uncertain`, `_capture_reconciliation_required` | begin, admit, record a launch, finish | lifespan, controller, recorder |
| application lifespan (`live_auto_recorder.py` 100-230, `lar_app/bootstrap.py`) | background tasks, shutdown verdict | start order, stop order, 20 s limit for `stopAll` | everything |
| operations, health (`operations_common.py`, `_health.py`, `_features.py`) | rules, blocked channels, health rows, restart tasks | monitor, start guard, rule enforcement, restart, manual recovery, clean-up | state machine (past the controller), catalogue, files |
| operations, platform (`operations_platform_v3.py`) | tables `archive_jobs` and `notification_queue`, settings | enqueue, upload, deliver, retry, recover | catalogue, rclone, destinations |
| recorder manager, configuration (`data_manager.py`, `DebouncedSaver`) | status flags, processes, JSON files with `.bak` | status setters, save, load, move | recorder, routes |
| v1 merge and verification (`recording_merge.py`, `recording_verify.py`) | active merges, pending set, queue | merge, validate, repair | catalogue, ffmpeg |
| metadata cache (`meta_cache.py`) | entries, channels being refreshed | refresh loop, read-through, thumbnails | routes, channels |
| catalogue (`recording_catalog.py`, rest of `v2_repository.py`) | recordings, broadcasts, sessions, segments, artifacts | event writes, queries | recorder, API |
| watchdogs, readiness, storage checks, file manager, web layer, front end, scripts | little or none | see `PROJECT.json` | |

What is hard in it, and what would make each part correct:

* **Job tables.** A worker may act on a lease it has lost, two recoveries may follow one
  another, a cancellation may arrive at any point. Correct: a committed output stays
  committed, only the current attempt of an active job can change it, every state has a
  way out, and seen from outside a job lives one simple life.
* **Media worker.** Crashes between starting a process, recording it, opening its gate,
  linking its output and committing. Correct: a tool never runs unrecorded, no verdict is
  given beside a live tool, and files and rows agree whatever crashed.
* **Channel control.** Commands, mode changes, watch tasks, respawns, rules, health
  restarts and shutdown interleave at every `await`. Correct: one recorder at a time,
  owned until it is gone, stoppable; suppression and pause respected by metadata that was
  fetched before them; no command left unanswered and no channel left unwatched.
* **Capture guard.** A crash leaves recorders behind. Correct: no capture starts beside
  one of an earlier run until an operator has looked.
* **YouTube attempts.** A stop meets the attempt, its process and its helper tasks at any
  point; three parties move the merged file. Correct: one capture at a time, silence after a
  stop, and a complete merge is in the output folder or in the destination at every moment.
* **Notifications and archives.** Every row is written in a transaction of its own, by two
  threads and a loop, and the remote store has one object of a file name. Correct: nothing is called
  archived, announced or removed before the upload, a notification filed as sent was received, both queues settle.
* **Health and rules.** The monitor decides on samples, its restarts act seconds later,
  users act in between. Correct: restarts are bounded, cut nothing that grows, answer every
  stall, and the rule wins.
* **Repair, merge, retention.** Threads rename, link and delete the same files, and each of these
  calls may fail. Correct: some file holds what was recorded.
* **Catalogue.** Events, projections of different age and verifications overlap. Correct: a
  verdict stands beside the file it is about, the newest projection prevails, a capture that ended is on record as
  ended and its file is to be verified.
* **Segmented recording.** Without the controller, a stop cancels the task that waits for
  a recording and leaves the recording to notice it; batches of one session run beside the
  next. Correct: a stop ends every recording, flags never outlive their session, each
  finished segment is processed, no source goes without a complete output.
* **Configuration files, caches, the queue before the v1 verification.** Temporary names shared
  by two savers, single-flight refresh, a full queue.

`PROJECT.json` lists these hazards one by one, with their lines.

## 2. Modules

    DurableJob          what a job promises, seen from outside
    JobStore            the job tables, every transaction       implements DurableJob
      MediaWorker       lanes, processes, files, crashes        EXTENDS JobStore
        MediaWorkerProofs
    CaptureGuard        the marker across starts and crashes
      ChannelControl    one channel with everyone who acts on it  EXTENDS CaptureGuard
        ChannelControlProofs
    SegmentedRecording  one channel without the controller, split recording and its batches
      SegmentedRecordingProofs
    YouTubeCapture      one YouTube channel: attempt, process, movers, stops
      YouTubeCaptureProofs
    OperationsHealth    the monitor, its restarts and everyone else at the state machine
      OperationsHealthProofs
    PlatformQueues      archive jobs and notifications
      PlatformQueuesProofs
    RecordingFiles      repair, merge and retention of one broadcast's files
      RecordingFilesProofs
    CaptureCatalogue    events, rows, projection and verdicts of a channel's captures
      CaptureCatalogueProofs

Each has an `MC` module that gives the constants of its configurations, and states its state
invariants in one conjunction of named parts (`StoreInv`, `ChannelInv`, `YtInv`, ...).

`MediaWorker` and `ChannelControl` are compositions: every step of theirs is either
local or also a step of the module they extend. That is a property (`UsesTheStore`,
`UsesTheGuard`), checked by a run and proved for any instance, which carries the theorems about
`JobStore` and `CaptureGuard` over to the composed systems. `MediaWorkerProofs` and
`ChannelControlProofs` begin with the proofs about the module that is extended.

### JobStore

`job`, `attempt`, `pub` and `keys` are the rows of `jobs`, `job_attempts`, `publications` and
`idempotency_keys`. Each action is one `_transaction()` of the repository, so it is
atomic in the model as it is in SQLite (`BEGIN IMMEDIATE`). A job's error code is kept
only as far as later calls read it. Time is an action, `LeaseExpires`, that may take a lease away
whenever one is held: a lease is compared with the clock only. `MaxGen` bounds the number
of claims a job ever gets, and `RetryGrant` is how many a retry adds (five in the code).

Hashing, option parsing, listing, and the catalogue's own tables are left out. The
revision of a job's input is a flag, `inputChanged`.

### DurableJob

The life of a job as a client sees it: open, executing, then one of the verdicts; success
exactly when an output is committed; a verdict other than success may be reopened.
`ImplementsDurableJob` is the refinement, with the mapping in `JobStore`.

### MediaWorker

`app` is the application's phase and the identity of its worker (a fresh one per start),
`lane` the two lanes with the claim they work on, `recon` the reconciliation pass that
runs in the verification lane's thread, `proc` the process group of every attempt, `file`
what is at a job's final path.

A step of a lane is what happens between two points at which another actor can see it:
one transaction, one file operation, one process operation. `LaneFails` stands for an
exception of any of those calls and takes the lane to the `except` or `finally` that is
next in the code. `Crash` loses the lanes and the pass; processes and files survive.
The leader of a process group may exit while members live (`orphaned`), as with a tool
that forks.

The work directory, the tool's arguments, the pinning of inputs and the probe's verdict
are data. A media job that runs several tools has `MediaTools` of them.

### CaptureGuard

`group` says of each launched process group whether its leader lives, only members of
it, or nobody; `mine` and `recorded` which were launched by this run and which made it to
the marker file. `guard` is the marker and the flags of `v2_runtime`. The code removes
the marker when the shutdown was clean and nothing recorded is left; the operator's
removal after an unclean one is the action `OfflineReconcile` (external), which is only
possible when nothing survives, as `docs/v2/README.md` asks for.

`GuardNext` assumes of its environment that a shutdown is called clean only if no
capture lives that the guard never heard of (`Trustworthy`). `ChannelControl` discharges
it: `UsesTheGuard`.

### ChannelControl

One channel. `chan` holds its rows and what the controller keeps about it; `fsm`,
`watch` and `respawn` are `ChannelRuntime` and its two tasks; `svc` and `halt` say who
holds the controller's lock and the state machine's lock across awaits.

One event loop runs all of it, so a step is what happens between two awaits that really
suspend. An uncontended `asyncio.Lock` does not suspend; contended, its waiters are
served in order. `watch.pc` follows a watch task: `born` (created, not begun), `meta`
(metadata requested), `admitted` (admission passed, the launch awaited), `wait`
(recorder running), `raised` (the launch failed in a way that ends it), `drain` (the
recorder ended, the attempt's cleanup awaits). A cancelled task that has not begun runs
nothing, not even its `finally`.

Requests: `StartOnce`, `StopCurrent` (with any broadcast id, current or stale),
`LegacyStop`, `PatchAuto`, `PatchPaused`. Past the controller: `OutsideStart`,
`OutsideStop` (automation API, rules, health). Provider: a broadcast is live or not and
has an id or none, chosen at every poll; a broadcast without an id gets a fresh one from
`Heuristics`. Environment: storage may refuse, a launch may fail in each way the code
distinguishes, a recorder may end, the application may shut down, run out of its 20
seconds, or crash, and start again.

The take of a watch task is its entry of `_captures` together with its records in
`_owned_processes`, which the code makes and drops together. The recorder is the
single-file path of `chzzkStartRecording`.

### SegmentedRecording

The default deployment: v2 is off, the state machine acts alone, a broadcast is split into
segments, and the segments are encoded when the session ends. `rm` is what the class
variables of `RecorderManager` say of the channel: the stop and recording flags, the handle
and the file (named by their session), and the mark of a batch in flight. `watch` and `respawn` are the state
machine's tasks, `halt` the stop that holds its lock. `loop[s]` is the task of
`runSegLoop`, `enc[s]` its ffmpeg, `seg[s]` its files, `out[s]` the best output of
each file, `batch` the running tasks of `batchEncodeSegments`.

The attempt awaits its loop through `asyncio.shield`. A stop cancels the attempt
(`WatchDetaches`), which sleeps 0.2 s, asks for the batch and ends (`WatchLeaves`); the
loop goes on until it polls the stop flag or its ffmpeg is gone. So up to three parties ask for one session's
batch: the loop (`LoopQueues`), the attempt, and a stop over the API (`StopEnds`). The mark
lets one of them through. A loop in the middle of its launch is not yet known to
a stop, and its end (`LoopLeaves`) clears the channel's flag, handle and file whoever set them.

An encoder reads what a file holds when it gets to its end: a segment that is still
written gives a partial output. `disturbed` is a history variable: the sessions that a stop met, or that
began beside another one.

Abstractions: the channel stays enabled; streamlink is part of the loop's launch and
closing (it is not followed when ffmpeg's launch fails and leaves it behind); requests that
meet a stop wait for it, as they would for the lock; the request of a stop's batch runs
with the stop's end. The tail guard (`recent_live_block`, live_recorder.py 2046-2059) is
left out: with `single_attempt` it is armed just before the attempt that holds it returns, and
nothing reads it.

### YouTubeCapture

A session is one launch of ytarchive: `proc[s]` its process (downloading, merging, done),
`frags[s]` its fragments, `final` what is at the output paths. The clean-up goes by the video's id, so it may take the
fragments of earlier sessions with those of its own (`Cleaned` is a set of outcomes). `run` is the attempt in the watch
task, with the awaits of `ytStartRecording` as places: `meta`, `launch`, `wait`, `join` (of the
reader of the output), `grace` (8 s for an output that is not there yet), `settle` and
`move`, `last` in its `finally`. `mover[s, m]` are the three who move the file: the reader that
sees the merge's line, the attempt, and the `finally` clause. `moveDirectory` takes a lock,
so one copies at a time, and a cancelled one goes on in its thread (`loose`). `halt` is a stop:
it cancels the attempt, then terminates the process tree it can name. ytarchive is external:
it may end, fail to merge or write a partial file at any point.

### OperationsHealth

The default deployment again, with the operations on top. `line` is the channel's lock: who holds
it, and who waits in order. `act` says how far each caller is: the monitor, its restart task,
the user, the duration limit. `sample` and `health` are what the monitor remembers of the last
sample and its row of attempts and cool-down. Time is whether the file grew since the last sample
(`fresh`), the age of the last growth in samples, and delays that end at some point. The provider's
broadcast may begin and end, the process may write, fall silent, fail or end.

### PlatformQueues

`jobs` and `notes` are the two tables, `status` the recordings' archive status, `remote` and `local` the two
copies. The remote store has one object of a file name (`Name`), so an upload replaces what another recording
left there (`At`, `Leaves`); `Before` are recordings that earlier jobs archived. `delete_after` and
`verify_size` are read anew by each attempt, `Events` are those that the settings announce. `arch` and `sender`
are the two loops with what their threads hold; `todo` holds the transactions that a callback of the event loop
has still to commit, between which the application may die and a thread may run. A destination takes a
notification or not; those in `Swallows` hide it (`sendTelegram` catches its own failures). `unread` and
`replaced` are history: recordings filed as archived without the comparison, and those whose object another
one's upload took the place of.

### RecordingFiles

`path` and `backup` are the file of each recording and the `.unrepaired` one beside it, `merged`
the recordings each merged output holds, `left` the copies that a crash or a failing removal left behind. A step is
one call of the file system or of the database, or one program that is run; a call that may fail in the code
has a branch for it. ffmpeg fails at a segment that it cannot read, or ends well without it, alone or with all that follow
(`LeftOut`). `raced`, `refused` and `omitted` are history: two repairs of a recording at once, a copy that could not
take its place, a segment missing in a published output. Merges are admitted by `active`, in memory;
`row` is the merge on record, which survives a crash. This is the deployment without v2: with it
`merge_broadcast` enqueues a durable job and the clean-up is refused.

### CaptureCatalogue

`rows` are the recordings of the legacy catalogue, `proj` the artifact the projection makes of each, with a
revision for its content. The event loop sends what `capture_started` and `capture_finished` say, one event at a
time (`todo`), and each stop queues an automatic verification behind a projection; helper threads project too. A
projection reads all rows in one transaction and imports them one by one, so two of them overlap (`sync`).
`bound` is the idempotency key of the automatic verification; a capture whose first name returns takes over the
row and meets the key of the earlier one (`reused`), as does one whose row another thread still imports as it
was (`raced`). A verification reads the artifact, probes the file, and commits under the revision that its job
names.

## 3. Runs

| run | instance | distinct states | what it shows |
|---|---|---|---|
| `job_store` | one job, two workers, one key, up to 3 claims, limits 1 and 2 | 259,250 | every sequence of calls keeps rows, attempts and publications in agreement, and implements `DurableJob` |
| `media_worker` | a media job of 2 tools or a verification, 2 claims, one crash or restart | 971,834 | crash, lease expiry, failure, cancellation, a foreign file at every point |
| `media_worker_live` | a media job of one tool or a verification, 2 claims, one crash or restart | 116,911 | executions end, intents are settled, cancellations reach a verdict |
| `channel_control` | two launches, an identified and an unidentified broadcast, two keys for both commands | 1,129,632 | every caller at once; the marker protects against survivors of earlier runs |
| `channel_live` | one launch, one broadcast, one command of each kind | 90,970 | stops are answered, a `start_once` is decided, automatic channels keep looking |
| `segmented_recording` | two sessions of two segments, two batches at a time, sources deleted | 2,163,172 | starts, stops, failing launches and batches at every point |
| `segmented_live` | two sessions of one segment | 241,671 | a stop ends every recording |
| `youtube` | two sessions under distinct names, owned by the controller, with a move | 316,080 | stops at every point, failing merges and moves: one capture, no complete merge lost, every stop returns |
| `platform` | two recordings of one file name, one archived before, one job, two destinations, two attempts each, every setting, a crash, a user's retry | 1,748,561 | archived means uploaded, sent means received, both queues settle |
| `health` | start delay, limit, two restarts, one user's request, one change of rule or storage | 557,775 | bounded restarts that answer every stall and cut nothing that grows; the rule wins |
| `files` | two segments, two verifications, two merges that delete them, one deletion by the retention, one crash, failing calls | 6,579,452 | media survive, but for two named coincidences |
| `catalogue` | two captures, one or two broadcasts, split or not, a projecting helper, a note, one lost event or crash | 4,890,410 | verdicts keep to their file, the newest projection prevails, ended captures are settled and queued |

Why these bounds are enough for what they are to show:

* Jobs interact only through the lanes (one job per lane at a time) and not through the
  tables, so one job at a time is enough (the constraint `OneJob`, which also keeps a changed
  input and another program's file apart); the passes of the verification lane still run beside
  a media job. Claims matter pairwise, the current one against an earlier one, so two or three
  generations are. In `job_store`, `Limits = {1, 2}` has a job exhaust its attempts at once and after
  one more; the worker's runs have the second. The theorems of section 5 are for any number.
* Owners are used once per start, so two of them allow one crash or restart; a second
  restart meets nothing that the first did not, since only rows, files and processes survive.
* A channel records once at a time; the second launch is there to be the wrong one. Two
  keys are a command and the next one. One broadcast with an id and one without are a
  current and a suppressed or stale one.
* Symmetry is used for captures, for commands and for verifying threads, and in safety runs only; nothing orders
  them or names one. `channel_control` uses a VIEW that drops `mine` and `recorded` for captures that are gone:
  no action or property reads them there.
* A second session is there to meet the first one's loop and batches, a second segment to be
  complete while another is written, and two batches to run at once after a new session dropped
  the mark. The VIEW of these runs drops what no action reads any more: the files of a session
  that is over and that no batch works on, and the outputs of a disturbed session. It keeps the
  value of `UndisturbedIsProcessed`, the only property that reads them. Two batches may change places.
* Two YouTube sessions are one whose files and helpers are still about while the next runs. Distinct
  output names are those of a pattern with the time in it; what one name for two sessions leads to is finding 5.
* `platform`: two attempts are one that is tried again and a last one; the second destination is there to
  succeed where the first fails. Jobs of different recordings share the loop, which takes them one by one, and
  the remote name: the second recording has the first one's name and was archived before, so that the job may be
  about either.
* `health`: one restart to be bounded by, one beyond it, and one decision of a user or of the world
  in the middle of each. An age of one sample and two confirmations make a stall that is suspected first.
* `files`: races are between two threads over one file, or between two callers over one broadcast. The threads
  that verify may change places (`MCSymmetry`).
* `catalogue`: the second capture takes the row, the directory or the verdict of the first.
* Deadlock is checked except where the bounds let the system stop: `job_store`, `platform`,
  `health`, `files`, `catalogue`.

The hazard that a bound hides a case is answered by the mutants: for every property
there is a plausible change of the code under which the same run finds it violated.

### Properties worth reading

* `StoreInv`, with `UnresolvedHasAWayOut` in it: the three error codes that close retry and
  cancel are only ever on a row that some recovery looks for.
* `StaleAttemptsAreFrozen`: once a job has moved on to another claim, neither the
  earlier attempt's row nor its publication ever changes again.
* `NoVerdictWhileAlive`: no job is finished, retried or cancelled while a tool of it lives.
* `OutputMatchesVerdict`, `CommitsOnlyItsOutput`: the file at the final path is the one
  the committed publication names, and nobody else's is taken for it.
* `CapturesAreReachable`: whatever fails in a launch or a stop, a recorder that lives is owned, and
  the row's and the controller's current broadcast agree while it matters.
* `DecisionsAreKept`: metadata judged late, under a pause or a suppression that came in between.
* `NothingIsOrphaned`, `OneWatcher`: the races of stop, respawn and `finally`.
* `UndisturbedIsProcessed`: between a batch of the session before, the mark that a new
  session drops and two requests for one folder, no segment is forgotten and none is taken too early.
* `StopEndsRecording`: also for the session that the stop did not see.
* `MergedIsKept`: three movers, failing moves and stops, and never a moment without the file.
* `SentMeansReceived`: over retries per destination, a user's reset and a crash between delivery and its record.
* `OnlyFailingIsRestarted`, `StalledIsAnswered`: the two ways in which a late decision can be wrong.
* `PlatformInv` (`ArchivedIsKept`): a name that two recordings share, a setting that changes between two attempts, and a
  crash between upload, row, word and removal.
* `FilesInv` (`MediaSurvives`): the moment between the two renames of a repair, for two threads, failing calls
  and a crash; its two exceptions name all that must come together for media to be lost.
* `CatalogueInv` (`VerdictIsOfItsFile`): a verification that ends after the file moved and its row followed.
* `EndedIsSettled`: the job that the key of a row stands for is about the very file that the row has, through renamed
  files and overlapping projections; the two cases that it excepts are finding 15.

## 4. Fairness

`media_worker_live`: threads go on (weak fairness of each lane's steps and of the
pass); a supervisor restarts the application; a lease runs out when its lane is gone;
processes end. Recovery retries while the worker runs, and its transient failures come to an end,
and the lane looks for a job between two of its passes, as
`_lane` does (`<>[][~ReconcileFails /\ ~PassBeforeWork]`: without the second part the passes may keep a
verification waiting for ever); the steps of a pass that other work can disable for a moment
have strong fairness, because the pass comes back to them every time. Inputs keep
their revision and no other program writes to the final path (`QuietSpec`): with a
foreign file an operator has to act.

`channel_live`: the event loop runs what is ready (weak fairness of watch, respawn and
stop); the waiters of an `asyncio.Lock` are served in order, which gives the request
that holds the controller's lock the state machine's lock in the end (strong fairness
of `ServiceStep`); a group that is being terminated dies (SIGTERM, then SIGKILL); a
shutdown ends within its limit. Nothing is assumed of users, providers, broadcasts,
storage or crashes. `AutoKeepsLooking` excuses what the code excuses: a running or
blocked capture, a pause, a legacy stop, which leaves the channel stopped by design.

`segmented_live`: the event loop runs what is ready (the watch, the loops, the stop);
encoders end; an ffmpeg ends when its loop or a stop that has its handle ends it. No broadcast
has to end, no respawn to fire, nobody to start or stop.

`youtube`: the attempt and the tasks of the event loop go on, a move that has begun ends, a
killed process dies. ytarchive need not end, merge or say anything.

`platform`: the loops and their threads go on, a call of rclone or of a destination returns
(each has a timeout), and a supervisor restarts the application. Nothing is assumed of what they answer.

`health`: the event loop runs what is ready, delays and cool-downs end, the lock's waiters are served in
order (`line`). Nothing is assumed of the process, the provider, users, or the storage.

## 5. Proofs

All proofs are for any value of the constants under the assumptions that the modules name, and
under no other; TLC evaluates each of them in the runs. They say that sentinels are not members, that
flags are Booleans and bounds are numbers, and otherwise: a job's limits are at most `MaxGen`
(`ConstantsAssumption`); a media job has a tool (`MediaToolsAssumption`); ids made up for a broadcast are
not a provider's (`ChannelAssumption`); a broadcast to merge has several segments, in an order
(`FilesAssumption`; `merge_broadcast` refuses fewer); a destination is configured once
and no two recordings were archived before under one name (`PlatformAssumption`); names of whole captures and of parts are
unique, and the ones are not the others (`CatalogueAssumption`).

Every safety property that a run checks, invariants and steps alike, is a theorem. Each rests on an inductive
invariant that TLC found to hold on the run's instance before it was proved:

* **The job tables** (`MediaWorkerProofs`, first part). `StoreInv` is the conjunction of the type invariant
  and five others, which need each other. A claim or a retry keeps
  `CommittedIsFinal` and `PendingIsCurrent` because a job whose publication is pending is
  executing or blocked, hence not claimable, and one of the codes of `UnresolvedHasAWayOut` bars its retry;
  a fenced write touches the current attempt of an active job only, which is what `LeasedIffActive` and
  `LedgerAgrees` say of the row and of the attempt. `StoreInvariant` proves it, one lemma per
  transaction. From it: `PendingPublicationIsCurrent`, `CommitsOnce`,
  `StaleOwnersCannotCommit` (an action property: what an attempt that is not current can
  no longer do), `SucceededForever`, and `StoreImplementsDurableJob`, the refinement:
  every transaction maps to a step of `DurableJob` or to a stutter.
* **The worker** (`MediaWorkerProofs`). `WorkerIInv` is `StoreInv` with `WorkerInv` and the two statements about
  tools and outputs. A lane's lease may run out between any two of its steps, and others cancel its job;
  `LaneHolds` says what it still finds as it left it: its generation, its intent, its process and its file.
  No verdict is given
  beside a live tool because a tool behind its gate is on record (`ReleasedIsRecorded`) and every path
  to a verdict passes the check of that record; the file at a final path has an intent because the intent is
  committed before the link. `WorkerUsesTheStore` shows every step to be a stutter or a transaction of the tables
  with arguments that `StoreNext` allows; `WorkerImplementsDurableJob` and
  `WorkerLeavesStaleAttempts` are then two lines each. `CommitsOnlyOwnOutputs` is about the two steps
  that commit.
* **The guard** (`ChannelControlProofs`, first part). `GuardInv` is the type invariant and three facts: a capture
  that survives is covered by the marker (`MarkerCovers`), what was admitted belongs to this run
  (`AdmissionsAreMine`), and beside a survivor of an earlier run the guard refuses and this run
  has launched nothing (`SurvivorsRefuse`). The first carries the last over a crash. `GuardInvariant` proves
  it inductive; `NeverBesideASurvivor` follows.
* **The channel** (`ChannelControlProofs`). `ChannelIInv` joins what each coroutine relies on after
  its awaits (`AdmissionHolds`, `WatchHolds`, `HaltHolds`, `ServiceHolds`), the decisions that a recording
  rests on, ownership and commands. They are one induction: the admission is the only one and is judged by the
  decisions that were made last (`AdmissionHolds`), so the launch that follows finds the row's and the controller's
  current broadcast the same, and until the recorder is gone nobody changes either (`TakeHolds`); a stop that holds
  the state machine's lock finds no respawn (`HaltHolds`), so whoever says WATCHING afterwards has a task or
  a request at hand (`WatchingHolds`). The methods of the controller are lemmas of their own about the record
  they return (`FinishOnceGives` and the like), so that a step is a composition of them.
  `ChannelImplementsCaptureGuard` discharges the guard's assumption about shutdowns that call themselves clean.
* **Segmented recording** (`SegmentedRecordingProofs`). Neither `FlagsAreBacked` nor `WatchIsAttended` is
  inductive: a launch that
  fails leaves the flag up, a session is born without a flag, the handles are set later than
  the flag, and a respawn that fires during a stop makes no watch. `SegInv`, which the run checks, adds what
  bridges those steps: a session has its watch until its loop's first step (`BornIsWatched`), the
  handles name a loop past its launch (`HandlesAreRegistered`), the flag outlives a failed launch only while
  a watch or a stop will clear it (`FlagIsBacked`), and only a stop that is carried
  out finds the channel watching (`WatchedStopIsHeld`). `UndisturbedIsProcessed` needs `ProcessedIInv`: a session
  that nothing met has the channel to itself (`HasChannel`), so nobody but its own loop and watch can
  hold the mark, and whoever asks for its batch reads finished segments (`BatchesHold`).
* **YouTube** (`YouTubeCaptureProofs`). `AttemptHolds` ties the attempt's place to its process; with the controller's
  ownership, `CaptureHolds` has any live process in the hands of the attempt or of the stop. For the files,
  `OwnFiles` keeps sessions apart, `MergeHolds` says that no mover touches what is not merged and that what is merged
  is whole wherever it went, and `MoveHolds` that one mover has the lock. `OneCaptureOfAChannel` is for
  channels of the controller (`Controlled`) and the other two for patterns that name each session
  differently (`~OneName`), as the run has it; without these the code does not keep them (finding 5).
* **Queues** (`PlatformQueuesProofs`). Every row is written in a transaction of its own, so the invariant is
  what each actor leaves behind for the next: a job in the thread's hands is marked and the thread's place says
  what is done (`ThreadHasJob`), no write that waits to be committed calls a recording archived
  (`WritesAreBehind`), a destination without an outcome is still to be tried and one with success has accepted
  (`DeliveriesAreReceived`), whoever waits has an attempt left. `DeadIsIdle` carries it over crashes. Of the
  remote store it says that a name has one object, so an upload that replaces a whole one is on record in
  `replaced`, and that what was filed with the comparison was whole when it was made. `ArchivedMediaIsKept` is
  about the recordings outside `unread` and `replaced`; for the others the code does not keep it (finding 14).
* **Files** (`RecordingFilesProofs`). Two lines of defence stand for a recording. While a file has stepped aside, the
  thread that set it aside holds the repaired copy and is about to move it in (`CopiesAreMade`, `CopyStands`), which
  may only fail for a recording in `refused`. And the backup beside the path is kept until a file is at the path again
  (`BackupStands`), which only a second repair can undo: outside `raced` one thread at most repairs a recording
  (`OneRepairs`). So media are lost only where both fail. A merge that deletes segments has an output with all of them,
  but for those in `omitted` (`MergesAreKept`), and finds a free name to publish under (`NamesAreLeft`). The theorems
  have no hypothesis about ffmpeg or the settings; what `MediaSurvives` excepts is in findings 12 and 13.
* **Catalogue** (`CaptureCatalogueProofs`). A revision stands for one path, so that a verdict committed under a
  revision is about the file (`ArtsHold`, `WorkHolds`); a thread that projects has imported what it is past, and
  the newest rows if no row changed and nobody else projects (`SyncsHold`); an event of a capture keeps its base
  name and an announced part ends later (`EventsHold`), so a row that says recording has its end to come
  (`SettlementHolds`). On top of it a second layer, `QueueIInv`, follows the loop's request from the row to the
  job: the row's key is free until the verification is queued (`KeysAreFree`), the projection before it takes
  the row as it is and no other thread has an older one to import (`ProjectedAsItIs`), a revision stands for one
  file in the jobs too (`JobsAreAbout`), so what is completed is queued under its file or about to be
  (`CompletedIsQueued`). The numbering of a broadcast's rows is by counting, for which the cardinality theorems
  of the library are cited.
* **Health** (`OperationsHealthProofs`). `RestartsAreBounded` is not inductive: the cut comes seconds after the attempt
  was counted. `SettleHolds` bridges it: while a restart settles the monitor takes no sample, so the count is not
  forgotten in between. `OnlyFailingIsRestarted` needs `WaitHolds`: whatever grows while a restart waits
  for the lock is under somebody's stop already, and that stop ends the capture before the lock is handed on,
  which in turn needs that the lock's line and the callers' places agree (`LineHolds`).

Out of the prover's reach, and left to TLC on the runs' instances: the liveness properties, which rest
on fairness (`ExecutionEnds`, `CommitmentsSettle`, `StopSettles`, `OnceIsDecided`, `AutoKeepsLooking`,
`StopEndsRecording`, `StopReturns`, `QueuesSettle`, `RuleHolds`, `StalledIsAnswered`).

## 6. Where the code differs from what is said of it

Each of the following is stated as a property in its module, outside the runs' lists; given as an
`INVARIANT` or `PROPERTY` to the configuration named, TLC shows how the code gets there.

1. **An output of a changed input is committed by reconciliation** (`ChangedInputIsNotCommitted`,
   `MediaWorker.cfg`). `finish_job` refuses the commit when the input's revision moved; the publication then
   stays pending, and reconciliation finds the linked file and commits it without looking
   at the revision.
2. **A `start_once` stranded by a stop past the controller** (`OnceIsAttended`, `ChannelControl.cfg`).
   The automation API (`operations_platform_v3.py:672`) and the rules
   (`operations_health.py:321`) stop the state machine and leave the controller's scope. If
   nothing is left that would notice (a respawn slept, or the watch task had not begun),
   the command runs until a restart, and the next `start_once` is answered `already_active`.
3. **A refused stop has suppressed** (`RejectedStopSuppressesNothing`, `ChannelControl.cfg`). `create_command` commits the
   suppression when the row names the broadcast; the controller compares with its own
   current broadcast afterwards and refuses. They differ after an admission that the storage refused.
4. **A stop can cost the segment that is being written** (`SourcesOutliveTheirOutputs`,
   `SegmentedRecording.cfg`). The attempt's `finally`
   asks for the batch 0.2 s after the stop cancelled it, without the wait that `runSegLoop`
   puts before the same request (`live_recorder.py` 1724). The batch encodes the unfinished
   segment, and with `deleteAfterPostProcessing` removes its source.
5. **Fragments of an unmerged YouTube recording are removed** (`CleanupSparesUnmerged`, `YouTubeCapture.cfg`). A
   file of the output's name is enough for the clean-up (`youtube_recorder.py` 1257, 1425), a partial one or
   that of an earlier session of the day; the exit code is not looked at.
6. **An archived recording is reported as failed** (`ArchivedIsNotFailed`, `PlatformQueues.cfg`). With
   `delete_after`, a crash between the removal of the file and the completion of the job
   (`operations_platform_v3.py` 427, 446) has the job tried again, without a file.
7. **A user's stop is undone by a restart** (`StopIsKept`, `OperationsHealth.cfg`). The restart stops,
   sleeps two seconds and starts (`operations_health.py` 456) without looking again.
   The ends of a low-storage phase (57) and of a rule (325) start stopped channels too.
8. **The retention deletes what it is told to keep** (`KeptSurvives`, `RecordingFiles.cfg` with a
   non-empty `Kept`). The protection goes by the paths of rows; a merged output has none, and its segments may be gone.
9. **A merge that a crash interrupts is never taken up** (`MergingIsUnderWay`, `RecordingFiles.cfg`). The row
   stays `merging`, which `list_merge_candidates` (540) skips; only a request by hand merges it.
10. **A second split session of a day takes over the rows of the first** (`EveryFileIsListed`,
   `CaptureCatalogue.cfg` with `Moves = FALSE`). A row's identity is channel and base name
   (`recording_catalog.py` 209); parts have the same base names in every session directory.
11. **The projection resets a verdict though the file is the same** (`SyncPreservesVerdict`,
   `CaptureCatalogue.cfg`). The verdict is saved with a size, the row has none; any later
   change of the row then looks like another file (`v2_repository.py` 774).

12. **A merge on record may lack a segment** (`CompletedMergeIsWhole`, `RecordingFiles.cfg`). ffmpeg is called
   without `-xerror` and the output must only last longer than 0 s (`recording_merge.py` 126-137), so a segment
   that cannot be read may be missing in a merge that is completed, after which `delete_segments` removes its
   file.
13. **Two repairs and one failing rename lose a recording** (`RepairLosesNothing`, `RecordingFiles.cfg` with
   `DeletesSegments = FALSE`). The second repair unlinks the original that the first has set aside
   (`recording_verify.py` 105); if the first cannot move its copy in (107) it drops it, and the second finds no file and
   drops its own.
14. **A name that two recordings share costs the archived one** (`SomeCopyIsWhole`, `PlatformQueues.cfg`). The
   target is the remote and the base name (`operations_platform_v3.py` 394): the second upload overwrites the
   first, whose local file `delete_after` removed. With `verify_size` off (405) a partial upload is enough for
   that removal.
15. **A file that was captured is never verified** (`EveryEndIsQueued`, `CaptureCatalogue.cfg`). A second capture of a
   row meets the key `auto-verify:<row>` of the first; `create_job` raises (`v2_repository.py` 240), `log_event` goes on
   (`recording_history.py` 66). The same happens when another thread imports the row as it had read it earlier.

Seen while modelling, without a property: the end of a stopped session clears the flag and the handle of a
session that was started meanwhile, which then records without being shown or recognized (`live_recorder.py`
1794-1801; the comment at `live_auto_recorder.py` 410 wants a live session preserved). The guard against a
second recording (`live_recorder.py` 1952) reads a flag that the state machine cleared one call earlier. A batch
that ends before the attempt's `finally` runs is asked for again and encodes every kept segment a second time,
although `live_recorder.py` 1741 counts on the mark to ignore duplicates. A failing launch of ffmpeg leaves
streamlink running. Further: a publication that its lane settles after the pass listed it makes
`reject_publication` raise out of `reconcile`, and the lane's handler clears `_ready`, so the worker reports
itself not ready until the next start (`v2_worker.py` 975; the jobs go on, which is what `CommitmentsSettle`
depends on). A stopped broadcast without a provider id gets a new heuristic id at the next poll
(`v2_channels.py` 222-224), so its stop suppresses every broadcast of the channel (`'*'`, `v2_repository.py`
606-608; `Every` in `ChannelControl`). Nothing removes that row: later broadcasts, those with an id too, are
recorded by `start_once` only.

In the operations: `sendTelegram` logs a failed delivery and returns, so the queue files it as sent
(`data_manager.py` 863-890; `SentMeansReceived` is about the other destinations). A quiet time that starts
and ends at the same minute is quiet all day (`operations_platform_v3.py` 183-190). Settings are
merged one level deep, so a partial section sent to the platform settings falls back to defaults for what it leaves out
(610). A crash between the job's row and the recording's leaves their states apart
(`RowFollowsJob` of `PlatformQueues`). A read error of the storage counts as recovered
(`operations_common.py` 292, `operations_health.py` 52). The circuit breaker opens at five attempts, the
restarts end at three, so with the defaults it never does (`operations_common.py` 44-49). A capture
whose file stays empty never counts as stalled (`operations_health.py` 247). In the
catalogue: the events of a post-processing go to the latest row of the channel, whichever recording it was about
(`recording_catalog.py` 324-332); a crash leaves a row at `recording`, and jobs about it are refused from then on.

## 7. Not modelled, and why

Within the modelled components:

* segmented recording under the controller: the controller sees the same calls;
* in `SegmentedRecording`: duplicates of outputs, the moving of outputs, `onRecordEnabledChanged`;
* a second cancellation of a task that is being cancelled, the cancellation of a
  request's own task, and failures of the database inside a watch task's `finally`:
  each needs a failure branch at almost every call, and the first question, whether
  anything is left running, is answered by the guard;
* in `ChannelControl`, the delay of the operations' start guard and their direct writes to the
  user-stopped flag; both are in `OperationsHealth`, without the controller;
* in `YouTubeCapture`: a scheduled live that is polled until it begins, cookies, the progress text, the
  two waits of a merge that are timed out (they end at some point);
* in `PlatformQueues`: quiet hours, a remote or an archive that is switched off, names that change between two attempts,
  `auto_after_validation`; the run has one archive job, the theorems any number;
* in `OperationsHealth`: a second channel, and the resource and post-processing jobs of the same file;
* in `RecordingFiles`: the bounded queue before the verification and its set of pending items;
* in `CaptureCatalogue`: merged and rendered artifacts, other storage roots, captures without v2 (which
  send no such events);
* a capture launched in the window in which `create_subprocess_exec` itself is cancelled:
  the event loop kills it unseen, as asyncio does;
* `legacy_stop`'s snapshot before its lock: a stale one behaves as a `stop_current` of a
  stale id, which is modelled.

Components without a module yet are listed in `PROJECT.json` with the reason.

## 8. What would come next

1. **Proofs**: every safety property of the runs is proved; what remains is the non-temporal part of the
   liveness arguments, stated as action properties (that no step undoes what a stop, the settling of an
   intent or a queue's row has come closer to).
2. **Configuration files**: `saveChannels`, `_writeJsonAtomic`, `.bak` recovery and the debounced saver, two
   savers and a crash: what is loaded after a crash was saved at some time, and the last save is not lost.
3. **The health job over the controller**: `OperationsHealth` composed with `ChannelControl`, in place of its
   outside start and stop.
4. **Two channels**: `stopAll` with one failing channel, over `ChannelControl`'s interface.
5. The single-file post-processing with its fingerprints, the bounded v1 queue, the metadata cache.
