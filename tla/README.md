# Verification of the Personal Agent Toolkit

TLA+ models of the parts of this repository whose correctness depends on the
order of events: what happens between an `await` and the next, between a walk
of a folder and the processing of what it found, between a commit and the
answer that reports it. The models are checked by TLC on small instances, and
their invariants are proved by TLAPS for every value of the constants.

All paths below are relative to the repository, which is at `src/` here.
`PROJECT.json` lists every run, mutant, hazard, finding and theorem, and maps
each definition to the lines it models.

## 1. The system

The toolkit keeps an owner's documents, profile and work in remote services
(Cloudflare Workers with D1, Durable Objects and R2) and works on the owner's
machines through two local apps. One owner, several devices, several agents.

    agents, sites --> services/remote-context --------> CorpusShard (Durable Object,
                      (Worker, D1 STATE_DB)              SQLite, one per Connection)
                            |      ^                           ^
               SyncBroker   v      | heartbeat (HTTP)          | begin/append/commit,
            (Durable Object, |     |                           | sourceState, maintain
             one per device) v     |                           | (HTTP)
                         apps/sync: SyncDaemon ---------------+
                         (SQLite state.db, a Source folder on disk)

### Components

**Job path** (`services/remote-context/src/sync-broker.ts`, `corpus.ts`
1191-1311 and 1558-1604, `apps/sync/.../daemon.py` 545-716, `state.py`
1472-1511). *State*: the row of each job in `sync_jobs`
(`queued`, `dispatched`, `succeeded`, `failed`, `expired`), the sockets of a device
with their `ready` flag, the map of waiting callers, `completed_jobs` on the
device. *Operations*: `runJob`, `execute`, the socket messages `hello` and
`job_result`, `jobStatus`, the daemon's execution of one job at a time.
*Hard*: the handlers of one Durable Object interleave at every `await`; a link
breaks with messages on it in both directions; a job is replayed after a
reconnect although its first result is still on the way; deadlines pass at any
point; the app or the object restarts. *Correct* when a job has one outcome
that never changes, success implies effect, nothing open is forgotten while
the device is online, the in-flight bound holds and the backlog drains.

**Source synchronisation** (`apps/sync/.../reconcile.py`, `state.py` 677-1466,
`daemon.py` 98-543, `paths.py`, `remote.py`; `corpus-shard.ts` as its server).
*State*: the files, the `documents` and `change_queue` tables, the change in
work, the shard's record of each document. *Operations*: walks
(`reconcile_connection`: `observe_file`, `mark_missing`), due batches,
`_process_change` (capture, mark, analyse, upload, prune, complete or fail),
`request_refresh`, `detach_registration`. *Hard*: files change during a walk
and between the steps of an upload; events of a document merge into one row;
a commit may be stored although its answer is lost; a full queue. *Correct*
when what is settled is shown as the folder has it, the last good projection
stays readable, no two documents own a path, superseded projections do not
pile up, and the remote Corpus converges to the folder.

**Corpus shard storage** (`corpus-shard.ts`). *State*: documents, projections,
staged uploads, items, reservations, retention actions. *Operations*: `begin`,
`append`, `commit`, `sourceState`, `maintain`, `reserve`, searches. *Hard*:
chunks repeated or out of order, a commit that arrives late, maintenance between
chunks, records referenced by Contexts. *Correct* when a staged upload never replaces the last good
projection before a complete commit, a repeated commit returns its receipt and
maintenance never takes what is current or referenced.

**Registration detach** (`registration-management.ts`, `http.ts` 190-403,
`migrations/0007_sync_detachments.sql`, `SyncBroker.completeJob`,
`state.detach_registration`). *State*: `corpus_registration_detachments`, the
Connection's configuration state and generation, the device's tombstone.
*Operations*: preview, detach, dispatch, acknowledgement, heartbeat. *Hard*: a
heartbeat of the old configuration after the claim; an acknowledgement that is
lost, repeated or inexact. *Correct* when a detached registration is never
made ready again and its device has confirmed exactly the generation detached.

**Trash groups** (`corpus-management.ts`, `sense-management.ts`,
`trash-maintenance.ts`; Library and Design have their own). *State*: groups
(`trashed`, `blocked`, `purging`, `purged`, `restored`), members, receipts.
*Operations*: preview, trash, restore, purge, the daily sweep of five groups.
*Hard*: three parties act on one group after reading it; a purge runs in
batches and may stop between two; retries with the same key. *Correct* when
restore and purge have a single winner, nothing that is referenced is purged,
a started purge can always be finished and a repeated request has no second effect.

**Documents and Contexts** (`corpus-documents.ts`): versioned documents whose
Source references are pinned in shards (`protectedWrite`) before a guarded D1
batch. *Hard*: the two stores do not commit together. *Correct* when no
reference is left dangling and pins of failed writes are released.

**Remote Sense and Hypes** (`sense.ts`, `hypes.ts`): one versioned profile,
one versioned graph; every write is a compare-and-set in one batch.

**Imports** (`imports.ts`), **Host bridge** (`host.ts`), **HTTP, MCP and sites
glue**, **remote runtime packages**: one-shot or stateless.

**Journal** (`services/journal`). *State*: weeks (open, closed), items with
versions, events, ingestion receipts, closures. *Operations*: ingest, resolve,
`closeWeek` with rollover, corrections, promotion receipts. *Hard*: items
change while a week is being closed. *Correct* when a closed week never
changes, each open item continues in exactly one later week, and a repeated
ingestion has no second effect.

**Library** and **Design** (`services/library`, `services/design`). *State*:
rows with versions, asset inventory, upload reservations, R2 objects. *Hard*:
an object is uploaded while the issue that owns it is purged; a bulk delete
fails half-way; unknown outcomes. *Correct* when no live row refers to a
deleted object and no deletion is blocked for ever.

**Authorization** (`auth`): login flows in a key-value store around an OAuth
library.

**Host** (`apps/host`). *Jobs*: queued, running, recovered processes; workers
own them across a restart. *Transfers*: staged uploads committed by rename.
*Hard*: cancellation during a start; restart while workers run. *Correct* when
a job has one outcome, the slots are never exceeded and no process is lost
sight of.

**Local engines** (`engines/corpus`, `sense`, `hypes`): SQLite under file
locks. The work folders of `engines/corpus` (`workspaces.py`) write files by
exchange with recovery records. *Correct* when a crash at any step loses
neither content and leaves no record for ever.

**Document Files**, **Flow**, the **Context site**, plugins, skills and
scripts: conversions, front ends and packaging.

### Interactions

- A detach is a job: D1 claims it, the broker carries it, the device retires
  the Connection under `source_change_lock`, the result finishes the claim.
- A refresh is a job too: it enqueues a change and processes it on the spot,
  under the same lock as the loop.
- Walks write the same tables as the processing of changes, in separate
  transactions; only some walks hold the lock (`daemon.py:178` does not).
- The shard is written by requests of the device, by its own retention and by
  management operations of the Worker.

## 2. What is modelled

| module | models | of |
|---|---|---|
| `JobLifecycle` | what the job path promises, abstractly | - |
| `SyncJobs` | the job path from caller to device and back | `sync-broker.ts`, `corpus.ts`, `daemon.py`, `state.py` |
| `SourceSync` | walks, the queue, processing and the shard's records | `reconcile.py`, `state.py`, `daemon.py`, `corpus-shard.ts` |
| `Retirement` | what the retirement of a registration promises, abstractly | - |
| `RegistrationDetach` | a detach on the service, the broker and the device | `registration-management.ts`, migration 0007, `http.ts`, `sync-broker.ts`, `daemon.py`, `state.py` |
| `TrashGroups` | deletion groups of the Corpus and the daily sweep | `corpus-management.ts`, `trash-maintenance.ts`, `corpus-documents.ts`, `corpus.ts` |
| `ShardPins` | references from D1 into a shard, uploads and maintenance | `corpus-shard.ts`, `corpus-documents.ts` |
| `JournalWeeks` | ingestion, resolutions, closing of weeks | `services/journal` |
| `LibraryAssets` | issues, their objects, uploads, purges | `services/library` |
| `HostJobs` | commands of a Host and their workers | `jobs.py`, `worker.py` |
| `HostFiles` | uploads, downloads, writes, moves and the trash of a Host's root | `transfers.py`, `workspace_files.py`, `files.py` |
| `FolderChanges` | what operations do to a work folder, abstractly | - |
| `WorkFolder` | saves, deletions, undo and recovery records of a work folder | `workspaces.py` |
| `LocalContexts` | registrations, contexts and linked Sources of the local Corpus | `contexts.py`, `database.py`, `session_sources.py`, `workspaces.py` |
| `LocalCorpus` | watcher, scan, extraction and acknowledgement of changes | `maintenance.py`, `scanner.py`, `service.py` |

`MC*` modules give the constants that a `.cfg` cannot write; a `*Proofs` module
holds the theorems about the module it is named after. `HostProofs` is about
`HostJobs` and `HostFiles`, `CorpusProofs` about `TrashGroups` and `ShardPins`,
`LocalStoresProofs` about `WorkFolder` and `LocalContexts`, and
`JournalLibraryProofs` about `JournalWeeks` and `LibraryAssets`.

Composition: `SyncJobs` implements `JobLifecycle`, `RegistrationDetach`
implements `Retirement`, and `WorkFolder` implements `FolderChanges`, with
which `LocalCorpus` is composed (it EXTENDS it and lets its steps interleave with
its own). A detach rides on a job whose queueing, limits and replays are
`SyncJobs`'s subject; `RegistrationDetach` keeps only that an open job reaches a
connected device, perhaps twice.

### SyncJobs

A step is one D1 statement with the code that follows it up to the next
`await`, or one step of the device. What a handler keeps across an `await` is
in its record in `task`, so two handlers of one object overlap as they do in
JavaScript; `Slots` bounds how many are alive at once.

| code | model |
|---|---|
| `runJob`, `execute` | `Submit`, `ExecuteSend`, `ExecuteMark`, `WaitTimeout` |
| `jobStatus` | `PollRead`, `PollExpire` |
| `hello`: ready and acknowledged, expire, delete, select, send, mark | `HelloArrives`, `HelloReady`, `HelloExpire`, `HelloPurge`, `HelloSelect`, `DispatchMark` |
| `job_result`: select, guarded update, next job | `ResultArrives`, `ResultLookup`, `ResultComplete`, `ResultSelect`, `DispatchMark` |
| daemon session: connect, next message, execute, `remember_job`, send | `DeviceConnect`, `DeviceTake`, `DevicePerform`, `DeviceRemember`, `DeviceSend`, `DeviceLeave` |
| broken link, app killed, object evicted, statement failed | `LinkDown` (and `SocketClose`), `DeviceCrash`, `BrokerRestart`, `TaskFails` |

Abstractions:

- Time is the set `passed` of jobs whose deadline is over. One clock serves
  D1 and the broker, as they read the same platform clock. Seven days of
  retention are a choice for the jobs in `Aging`.
- Jobs are numbered by `created_at`, the order of `dispatchQueued`.
- Whether `getWebSockets()` still lists sockets that are being closed is the
  platform's affair: `ListsReplaced`.
- `upsertDevice` and the `SELECT` of `execute` are one step with what follows.
- A broken connection drops what the daemon had buffered (`DeviceLeave`).
- Left out: revoked devices, the import that deletes job rows, and results
  refused for their size (the device's own check comes first).

### SourceSync

A step is one SQLite transaction, one look at the folder, or one request to
the shard. `work` is the change in `_process_change`, which holds
`source_change_lock`; `loop` is where `_source_loop` stands.

| code | model |
|---|---|
| `os.walk`, then `lstat` and `observe_file` of each name, then `mark_missing` | `WalkStart`, `WalkFile`, `WalkEnd`; `WalkFails` for `change_queue_full` |
| `_enqueue` and its `ON CONFLICT` merge | `EnqueueAll`, `Entry`, `Merged` |
| `due_changes`, `_process_changes` | `DueChanges`, `ClaimChange`, `ProcessEnd` |
| `request_refresh` in a job | `RequestRefresh`, `ClaimRefresh` |
| `capture_snapshot` and the choice that follows | `Capture`, `NextStep` |
| deletion, reuse, `changed` mark, upload, removal of the superseded projection, unsupported | `ProcessDeleted`, `Reuse`, `Mark`, `Upload`, `Prune`, `Unsupported` |
| `_change_condition` and the three completions; `fail_change` | `SameChange`, `Complete`; `Deferred` |
| `detach_registration`; shard retention; restart | `Retire`; `RemotePurge`; `Crash` |

`forgot` is no column: it remembers that a version without extraction has
made the row forget the projection that the shard keeps.

Every request is a `Call`: it is stored and answered, stored with the answer
lost, or lost. Files change at any step (`FileChange`): they are created, also
over others as an atomic save does, rewritten, touched, renamed, removed and
restored. Abstractions:

- A document is its device and inode, which is how `_document_id` derives its
  id. A reused inode is a restored and rewritten file.
- One flat directory; its listing is one step, each `lstat` another.
- A content is a positive number; with `MayRevert = FALSE` a file never
  returns to a smaller one. `stamp` stands for times and size and grows with
  each write.
- `begin`, `append` and `commit` are one request (`Upload`); a request is
  executed at once or never. `ShardPins` has them one by one.
- Walks never hold the lock. In the code the hourly one does; the model's
  walks therefore interleave with more than those of the code.
- The two timestamps `_change_condition` compares are taken as equal: what
  distinguishes the rows is their event, path, stamp and missing flag.
- The delay of `fail_change` is not a number: see fairness.
- Suffixes are values of `Format`; `MixedFormat` has one supported and one
  unsupported path.
- Left out: local-only Connections, location states, `rebind_connection_root`,
  analyzer refreshes, materialisation of provider files, projections protected
  by Context references.

### RegistrationDetach

| code | model |
|---|---|
| `detachRegistration`: tombstone, state and job in one batch | `Detach`; `PurgeRow` for a group's purge |
| `upsertSyncConnections` of a configuration read before | `PublishStart`, `PublishRead`, `PublishCommit`; the triggers of 0007 are `NoTombstone` |
| `hello`, dispatch, the device's loop | `Connect`, `Dispatch`, `Take` |
| `detach_registration` under `source_change_lock`, then the answer | `Retire`, `RetireAnswer` (`Remember`) |
| a Work job admitted before; an upload under the lock, its commit in `http.ts` | `SubmitWork`, `Work`; `UploadStart`, `UploadCheck`, `UploadCommit` |
| `job_result`, `completeJob`, `finishRegistrationDetach`, the row's update | `Receive`, `Look`, `Finish`, `Update` |
| lost link, evicted object, crash or stop of the app, new configuration, an upload given up | `Drop`, `Evict`, `Crash`, `Reconfigure`, `GiveUpload` |

A configuration is its generation. Left out: the preview, the capability check,
and the update of several Connections in one publication.

### TrashGroups

A request reads, decides and commits one guarded batch; each of the three is a
step, and a request may be abandoned between two (`Abandon`).

| code | model |
|---|---|
| trash of a document, item, Skill or Space | `TrashRead`, `TrashCommit` |
| restore | `RestoreRead`, `RestoreCommit` |
| purge: replay, joining a started one, blockers, claim | `PurgeAgain`, `PurgeJoin`, `PurgeRead`, `PurgeBlocked`, `PurgeUnblocked`, `PurgeClaim` |
| batches of members, count, last batch with the row and its receipts | `BatchRead`, `BatchDone`, `BatchDelete`, `BatchCount`, `BatchFinal` |
| the sweep of due groups, oldest touched first | `SweepStart`, `SweepGroup`; `Deadline` |
| ordinary writes that race them | `Create`, `ReviseDocument`, `ReviseItem`, `SkillRead`, `SkillCommit`, `Move`, `ReviseSpace`, `Detached` |

`Inactive` are the imported items whose lifecycle state is not "active": no
request shows, marks or revises them, they may refer to others, and they go with
the Context of their Space. Left out: aliases, previews, lists, and the pins of a
move's Sources (`ShardPins`).

### ShardPins

| code | model |
|---|---|
| `beginUpload`, `appendUpload`, `commitUpload` | `Begin`, `AddUnits`, `Commit` |
| maintenance: the records chosen, D1 read, deletion under the gate | `MaintainStart`, `MaintainRead`, `MaintainApply`, `RemoveUpload` |
| a document's write: reserve, batch in D1, release or confirm | `Propose`, `Protect`, `Save`, `Release`, `Keep` |
| a lost answer, a batch of unknown outcome, a batch that lands late | `Lost`, `SaveUnknown`, `LateSave` |

Which records a stage of retention names is a choice over all records: what
the deletion must respect is checked for every choice. One shard.

### JournalWeeks

| code | model |
|---|---|
| `ingestItems`: latest item, then observe, insert or continue | `Aim`, `Look`, `Observe`, `Insert`, `ContinueObserved` |
| `setResolution`, with the continuation of open work | `Decide`, `Resolve`, `ContinueResolved` |
| `confirmWeekClose`: what is left, the owner's view, the guarded batch | `Confirm`, `AsShown`, `Close` |

### LibraryAssets

| code | model |
|---|---|
| saving an issue, the inventory of old ones, trash, restore | `CreateIssue`, `UpdateIssueSource`, `IndexAll`, `Index`, `Trash`, `Restore` |
| `uploadAsset`: reservation, put if absent, confirmation | `Admit`, `PutObject`, `ConfirmUpload`; `UploadLost`, `LatePut` |
| purge: blockers, claim, batches of a bulk delete, end | `Judge`, `Claim`, `TakeBatch`, `Delete`, `DeleteFails`, `Mark`, `Finish` |

### HostJobs

A step of the manager is what runs between two `await`s; a worker and its
command are processes of their own that the manager knows through files.

| code | model |
|---|---|
| `start_job`, `_run_job`: slot, spawn, launch, first record | `Submit`, `Acquire`, `Spawn`, `Launched`, `Published`, `PublishTimeout` |
| `_monitor_job` | `Monitor`, `Check`, `Missing` |
| `cancel_job`, `_terminate` | `Cancel`, `Terminate`, `Kill`, `Answer` |
| `worker.py` | `Popen`, `PublishRun`, `Watch`, `TerminateGroup`, `PublishResult`; the command's `Exit` |
| `start()`, `stop()` | `Start`, `StartSync`, `StartLook`, `Started`; `Stop` |
| failures | `Crash`, `KillWorker`, `Reboot` |

### HostFiles

A root is a few directories with one file name in each; a file is a sequence of
chunks with a stamp for its inode and times. `Transfers._lock` is the variable
`transfer`, the root's lock `work`; a commit takes the second inside the first.
What reads no other actor's state is one step; what is durable on its own is a
step of its own, so that a crash or another program comes between.

| code | model |
|---|---|
| `begin_upload`, `write_chunk`, `commit` | `BeginUpload`, `CreateStaging`, `Record`; `Chunk`, `RecordOffset`; `Commit`, `CheckTarget`, `KeepTarget`, `ReplaceTarget`, `Save` |
| `cancel`, `_expire`, `_load` | `CancelTransfer`, `ExpireTransfers`; `ServerEnds`, `ServerStarts`, `Loadable` |
| `begin_download`, `read_chunk` | `BeginDownload`, `OpenDownload`, `ReadDownload`, `Deliver` |
| `write_file`, `mkdir`, `move` | `Write`, `KeepWritten`, `PutWritten`, `Mkdir`, `MoveDirectory`, `MoveFile`, `Move` |
| `trash`, `restore`, the sweep | `Trash`, `PutPayload`, `Restore`, `TakePayload`, `ExpireTrash`, `RemovePart`, `ClearContainer` |
| other programs | `EditorWrites`, `EditorDeletes`, `EditorRemoves` |

`MCHost` checks both Host modules in one run: they share no state, so a behaviour
exercises one of them.

### FolderChanges and WorkFolder

A file is an inode under a name, and an inode never changes its content: other
programs save by rename. `ctime` counts how often an inode was linked, renamed
or unlinked, which is what the version token of the code tells apart.

| code | model |
|---|---|
| write, create, delete, restore: what they check first | `BeginReplace`, `BeginCreate`, `BeginDelete`, `BeginRestore`, each with `Maintain` |
| recovery row, temporary file and queue entry | `Record`, `Stage` |
| exchange, check, private copy, observation, rollback | `Swap`, `Exchange`, `Verify`, `CopyBegin`, `CopyEnd`, `Observe`, `Rollback`, `Undo`, `GiveUp` |
| link of a new file, unlink of a deleted one, cleanup | `Link`, `Unlink`, `Cleanup` |
| mark dirty, make available, end | `MarkDirty`, `Available`, `FinishReplace`, `FinishRestore` |
| recovery maintenance, expiry | `MaintainRecoveries`, `MaintainCrash`, `RecoveryAges` |

A private copy has its final name from its first byte on; `stored` is how far its
writing came, and a process that dies while it writes leaves it `cut`. What is
restored of such a copy may be any content (`Contents`).

`FolderChanges` keeps the directory and the queue only, with a phase in place
of the steps. Left out: the connection of a folder (`LocalContexts`), its current file, several
paths, metadata that changes without the file, writes of other programs in
place.

### LocalContexts

Every write is one transaction under `context_writer_lock` or the registry's
locks, so it is one action. What interleaves are the requests: a client reads a
version, an item or a page of its mail (`Sends`) and its request arrives at any
later time, any number of times; a refresh reads the provider's files between its
own writes. A behaviour makes the requests of one set in `Plans`.

| code | model |
|---|---|
| `_prune_history`, before every write but a revision and a selector's new form | `Prune` |
| `source_update`: bind, a page, a refresh of sessions | `Bind`, `ObservePage`; `BeginRefresh`, `Discover`, `Renormalise`, `RefreshPage` |
| `update`: create, append, supersede, archive; `revise_items` | `Create`, `WriteItems`, `Archive`; `ReviseItems` |
| register, rebind and unregister a Source | `Register`, `RebindSource`, `Unregister` |
| connect, rebind and disconnect a folder | `Connect`, `RebindFolder`, `Disconnect` |
| records change or grow old, documents change | `SourceChanges`, `SourceAges`, `UnitChanges` |

Abstractions: an item is named by the request that added it; a record's metadata
is its version, 0 when only the id is known; an input's hash is the request and
the item it names. `MCLocalStores` checks this module beside `WorkFolder`, with
which it shares no state: a behaviour exercises one of the two.

### LocalCorpus

| code | model |
|---|---|
| a sync: lock, scan, commit of the scan, capture, extraction's commit | `CallerSyncs`, `WatcherSyncs`, `ScanPath`, `ScanTemporary`, `ScanCommit`, `Capture`, `Commit` |
| what remains to be done, what a limit or a recorded failure leaves out | `Refreshable`, `TooLarge`, `Failed` |
| `_reconcile_workspace_index_changes` | `Judge`, `Clear` |
| `run_once`, `watch` | `EnqueueReconcile`, `NothingQueued`, `EnqueueChanges`, `Reconcile` |
| restarts of the worker, a failing step | `WatcherStops`, `WatcherStarts`, `SyncFails` |

A row's `by` tells of the projection of its current revision: made by the
registered adapter, by an earlier one, or by an earlier one after the registered
one failed on that content. A content is no value of the model, so a failing
extraction may be of the content of the current revision (the failure is recorded
on it) or of another (it is not). `left` is a ghost: a sync acknowledged the row's
version as too large for it. `missed` is one too: a change came while nobody was
listening. An entry in the queue stands for both, and ends them.

Abstractions: one file, one sync at a time with its reconcile; `scan` and
`ingest` alone are beginnings of a sync. Any entry of the queue triggers a full
sync, so the queue is a Boolean. A temporary name matters only by vanishing
under a scan (which is then incomplete) and by carrying the path's row away
once; a row that comes back counts as new. Draining and queueing are one step;
a lock that is not to be had in 30 seconds is a failure.

## 3. What the runs check

`CHECK_DEADLOCK FALSE` stands in every `.cfg` whose system comes to rest when
the bounded requests of its actors are over.

| run | instance | properties |
|---|---|---|
| `jobs_faults` | 1 job that may fail, be late, be purged and be polled; 1 failure of any of 4 kinds | `SuccessWasPerformed`, `PerformedOncePerCrash`, `VerdictsAgree`, `ImplementsLifecycle` |
| `jobs_backlog` | 4 queued jobs, bound 2, an app crash or a broker restart | `BacklogDrains` |
| `sync_faults` | 2 files on 1 path, 3 contents (one refused), 2 edits, a refresh, a retirement, retention, a queue of 1, 2 failures | `Faithful`, `LastGoodReadable`, `NothingLeftBehind` |
| `sync_converge` | 2 files on 2 paths (one unsupported), 1 edit with its renames, a lost response or a crash | `OneDocumentPerPath`, `Converges` |
| `detach` | 1 registration of either kind, 2 generations, 2 failures | `RecordsAgree`, `DetachSettles`, `KeepsPromise` |
| `trash` | 2 Spaces, 6 things (one inactive), 2 groups, an owner's request and the sweep, 1 write, 1 abandoned request | `NothingDangles`, `OnlyPurgeDestroys`, `DueGroupsAreSettled` |
| `shard` | 1 document, 2 revisions, 3 projections, 2 uploads, a citing document written 3 times, 1 maintenance, 1 lost answer | `NoReferenceDangles`, `RecordsAreWhole`, `WritesEnd` |
| `journal` | 1 source, 3 weeks, 2 ingestions, an owner's decision, a close | `OpenWorkContinues`, `ClosedAsShown`, `ResolutionIsOwners` |
| `library` | 2 issues, 2 objects, 2 groups, an upload, a request and the sweep, 1 failure | `UnusedWhilePurging`, `GoneForGood`, `PurgesEnd` |
| `host` | 2 commands, 1 slot, a slow worker, 2 failures; or 2 directories, an upload, a download, 2 requests and either an edit or a crash with an expiry | `CancelledIsOver`, `VerdictIsFinal`, `MonitorIsPatient`, `JobsSettle`; `TransfersAreWhole`, `NothingVanishes` |
| `localstores` | 2 operations, 2 edits, 2 contents, 1 failure, 1 expiry; or one of 7 plans of 4 to 12 requests, a context created twice, 1 change outside, pages of one record | `ReplacedIsKept`, `UndoIsTrue`, `ImplementsChanges`; `ReferencesHold`, `MembersWereSeen`, `TakesEffectOnce` |
| `localcorpus` | 1 operation, 1 edit, 1 failure or sync with too low a limit; the registered adapter has failed on the first content | `NoChangeForgotten`, `EvidenceRecovers` |

**Why the bounds are enough to be of interest.** One job already meets its own
replay: a reconnect puts two sessions, two handlers and a cached answer in
play, and a second session is what a first failure makes possible. Four jobs
with a bound of two make the pump refill the window twice. Of source files, two
that replace each other on one path show every order of events and a path that
changes owner; two on two paths are the least for a displaced owner that owns
another path. Two failures are needed for a lost answer whose repair is itself
interrupted. Two groups let one hold what another refers to; a batch of one
member leaves a purge half-done. Two projections of one revision and a third of
another let maintenance take what is about to be cited. Three weeks are the
least in which work continues past a closed week. Two objects with one per
bulk delete leave a deletion half-done. Two commands on one slot make one wait
for the other across a restart. Two requests on two directories let one directory
take the place of another while a commit or a download is under way. Two operations on a folder are an operation and
its undo; the second edit is one that meets the undo. In all passing runs
together every action and every disjunct of the next-state relations fires.

**The properties.**

- `SuccessWasPerformed`: what is recorded or told as succeeded has happened.
- `PerformedOncePerCrash`: replays do not repeat an operation; only an app that
  dies between the operation and `remember_job` does.
- `VerdictsAgree`: no two parties ever hold different verdicts of one job.
- `ImplementsLifecycle`: a job opens once, has effect, and is settled once; no
  late message or poll changes its outcome.
- `BacklogDrains`: the backlog empties, and what was done is recorded.
- `Faithful`: a document without a pending entry and seen as it is, is shown
  as it is, or as ineligible when its type or content is not supported; one
  that is gone is not shown as available.
- `LastGoodReadable`: the projection a record shows is stored.
- `NothingLeftBehind`: a settled document has one projection, as long as nothing
  failed and no unsupported version made its row forget one (`forgot`).
- `OneDocumentPerPath`: the `UNIQUE(connection_key, relative_path_nfc)`
  constraint, of which `observe_file` has to take care itself.
- `Converges`: when edits and failures end, the remote Corpus becomes and
  stays equal to the folder, or the Connection is retired.
- `RecordsAgree`: whatever is published, a registration that is claimed is not
  ready, nor its generation another; a refusal means the device has not retired it, and the
  service says detached only of what the device has retired.
- `DetachSettles`: a claim is answered in the end.
- `NothingDangles`: nothing lives in a Space that is in the trash, and nothing
  that stays cites a Space or supersedes an active item that a purge took.
- `OnlyPurgeDestroys`: rows go only by a claimed purge, which nothing undoes: as
  members of its group or, inactive, with its Space.
- `DueGroupsAreSettled`: the sweep purges each due group or finds it blocked.
- `NoReferenceDangles`: a cited projection is stored with all its units.
- `RecordsAreWhole`: a document shows exactly one projection, with all its
  units; no revision without document and projection, nor a projection without revision.
- `WritesEnd`: a write that began is answered.
- `OpenWorkContinues`: the latest item of a source that is still open is in an
  open week.
- `ClosedAsShown`: a week closes with exactly the items that the owner was shown,
  and neither they nor the week change afterwards.
- `ResolutionIsOwners`: only the owner changes a resolution.
- `UnusedWhilePurging`: no issue uses an object that is being purged.
- `GoneForGood`: what is recorded as purged is not in the bucket, and stays out.
- `PurgesEnd`: the sweep finishes every purge that was claimed.
- `CancelledIsOver`: the command of a job recorded as cancelled does not run.
- `VerdictIsFinal`: no restart or late file changes a verdict.
- `MonitorIsPatient`: a monitored job whose worker has answered or lives is not
  recorded as lost.
- `JobsSettle`: every job ends, unless a command that outlives its worker keeps a slot.
- `TransfersAreWhole`: a commit puts the acknowledged chunks in the place of the
  version agreed on, and a download delivers one version.
- `NothingVanishes`: no step of the Host loses the content of a file that it has
  seen, except when the trash's time is over.
- `ReplacedIsKept`: what a save took from under the file's name is under a
  temporary name or in a recovery copy until its record is resolved.
- `UndoIsTrue`: what an available record offers is what its save replaced, whole
  unless the process died while it wrote the copy.
- `NoChangeForgotten`: with nothing heard or queued, the index row is that of
  the file, or no event and no acknowledged scan has told of the change, or the
  row names this version and the sync that met it had a limit below its size.
- `EvidenceRecovers`: when the edits end the index catches up for good and the
  path's marker goes, unless the registered adapter failed on the content.
- `ReferencesHold`: runs, records and links refer to rows that exist, as do a
  context and a binding to their corpus and a folder to its context; folders lie
  apart.
- `MembersWereSeen`: what the last complete run saw is a member, and a member was
  seen by it or by a run that is not complete.
- `TakesEffectOnce`: a request that is repeated changes a context once.

### Disagreements without a run

Cases in which the code differs from what a document, a comment or a reader
would expect, found while modelling. Each is excluded from the passing runs by
the bound or constant named, or lies outside the models.

*Job path*

- `execute()` dispatches beyond `MAX_IN_FLIGHT_JOBS`. With more than
  `MaxInFlight` submissions a dispatched job may be
  in no window of a later connection, which is why the bound is on a backlog.
- A refused result ends the pump (`sync-broker.ts:437`): a reconnect over a full
  backlog can leave jobs queued on an online device.
- A queued job can be stranded at a hello while replaced sockets are listed
  (`ListsReplaced`), and a failed statement in the hello handler leaves a session
  that looks online and is not served (`sync-broker.ts:419`).
- `completeJob` tells its caller `succeeded` when the row has expired between
  its `SELECT` and its guarded `UPDATE`, and `jobStatus` tells `expired` in the
  mirrored case.
- A result that arrives while `execute()` awaits its own UPDATE finds no
  waiting caller (`sync-broker.ts:328`); a job replayed after a thousand others
  is executed again (`state.py:1505`).

*Source synchronisation*

- After a commit whose answer was lost, a file that returns to its earlier
  bytes is marked available with the newer content (`daemon.py:341-382`, against
  `apps/sync/README.md:208-210`): `Faithful` fails with `MayRevert = TRUE`.
- With two supported suffixes `Faithful` fails: a `deleted` event replaces a
  pending `format_refresh` (`state.py:1112`), the file that returns under the
  new suffix is `changed`, and its unchanged bytes reuse the projection of the
  old format, against `apps/sync/README.md:210-212`.
- An unsupported version makes the table forget the projection the shard keeps,
  so it is never removed (`state.py:1410`): `NothingLeftBehind` excepts such
  documents, and `sync_faults` would fail without the exception.
- A purged document that returns under an unsupported suffix is recorded again
  without content. When that answer is lost and the file goes back to the
  supported suffix by way of a deletion, its unchanged digest marks the empty
  record available (`daemon.py:341-382`), and nothing uploads the content again:
  `Faithful` fails with `MayPurge` and an unsupported path.
- A walk outside the lock fills the queue of a Connection that was retired
  meanwhile (`daemon.py:178`).
- A full queue with an entry whose file has moved fails for ever (`state.py:1104`):
  `Converges` fails with `MaxPending = 1`.
- A commit that the client gave up on may be executed after a later upload and
  make older content current (`remote.py:122`); a document id is reused by the
  inode of a rebound root (`state.py:980`); `analyzer_refresh` merges with file
  events as `changed` does (`state.py:1165`); completions read outside the lock
  (`daemon.py:383`, `state.py:1251`).

*Retirement*

- `blocked` is terminal for a detach, and its update does not bump the group's
  version. One retiring Connection fails a whole `upsertSyncConnections` with
  409. `finishRegistrationDetach` throws inside `webSocketMessage`, so no
  acknowledgement is sent. An upload given up by the device may commit after the
  detach was acknowledged.

*Corpus*

- `members()` takes active items only (`corpus-management.ts:530`), while an
  import may bring others (`schemas.ts:754-759`, `imports.ts:256-275`). These go
  with the Context of their Space (1315-1321, `migrations/0001:170-171`) without
  having been in a group, and no blocker asks who supersedes them (660-664): an
  active item of another Space that does then refers to nothing. `NothingDangles`
  excepts references to such items and would fail in `trash` without that. In the other
  direction an inactive item that stays in the Space of a group blocks its purge
  for ever if it supersedes a member or cites the Space's own Source.
- `reviseContextSkill`'s UPDATE guards version and open Space only
  (`corpus.ts:794`). Two requests that purge one group both report it
  (`corpus-management.ts:1583`).
- `commit()` of the shard overwrites `last_user_access_at` with null and leaves
  `archived_at` and `trashed_at`. Reservations of a create or revise are under
  random ids and leak when the Worker dies.

*Journal and Library*

- Two first ingestions of one source in different weeks both insert, giving two
  logical ids (`DESIGN.md:36`). An observation dated ahead continues a current
  item into a future week, where the owner cannot resolve it
  (`repository.ts:225`). Of two observations in one millisecond the event and
  receipt of one may be inserted although its UPDATE changed nothing
  (`repository.ts:519-560`).
- Reservations of lost uploads are never deleted, so the purge of their issue
  stays blocked.

*Host*

- Lowering `max_concurrent_jobs` leaves the semaphore above the limit
  (`jobs.py:223-235`). Queued jobs are lost on a restart. A worker that needs
  more than a second to publish `run.json` is recorded as lost while it runs
  (`jobs.py:211-220`, against the comment at 526). `stop()` saves a stale copy
  over a cancelled verdict.
- A Host that stops between a chunk's `fsync`, or a commit's rename, and `_save`
  refuses to start (`transfers.py:301-311`), and so does one whose staging another
  request or program has carried away, against `skills/use-host/SKILL.md:25`, which
  has clients resume at the offset that `GET /status` tells.
- `begin_upload` creates its staging without the root's lock, so a directory may be
  moved or trashed with an upload in it, which `_reject_tree` refuses. A crash
  there leaves a staging file that keeps its directory from being moved for ever.
- A container whose removal was interrupted is listed and restored without its
  content (`workspace_files.py`). A restore checks the target, then replaces it: what
  another program creates in between is overwritten. Both are why
  `NothingVanishes` excepts what the trash no longer owes and what others wrote
  after a check.

*Work folders and the local index*

- An edit that lands between the exchange and its rollback is carried to the
  temporary name and deleted there (`workspaces.py:2167` says outside edits are
  kept); the same in restore. Between the `stat` and the `unlink` of a deletion
  an edit is lost as well.
- The observation after an exchange may see an outside edit and record it as
  the save's own result, so that an undo replaces it (docstring at 2947).
- A crash between the exchange and the end of the private copy leaves the old
  content under a temporary name that nothing cleans up or offers.
- The private copy is written under its final name (`workspaces.py:1833-1853`).
  When the process dies meanwhile, maintenance makes the record available
  (2040-2105), having looked at the copy's type, mode and link count only
  (2886-2937), and an undo puts the beginning of the old content at the path
  (3002-3029). `UndoIsTrue` excepts a copy that was cut short and fails in
  `localstores` without that.
- Restore does not clear `recovery_relative_path`: when its discard is lost, the
  private copy is referenced for ever.
- A scan that visits the temporary name before the path moves the path's row
  there; the path then gets a new document id, and evidence that cited the
  old one is reported as unavailable.
- `_reconcile_workspace_index_changes` decides outside the lock and clears
  whatever entry is there; a file created after the last complete scan has no
  row, and its marker is cleared although the index has not seen it (docstring at
  `service.py:1885`). Readers compare the live file, so they are not misled.
- Changes between the worker's scan and the start of its observer are missed
  until the next reconcile; drained events are lost when `enqueue` meets
  `WriterBusyError`. Unregistering takes two locks in the order opposite to a
  sync's, and both wait 30 seconds.
- A document above a sync's `max_file_bytes` does not count as remaining
  (`service.py:3598-3613`), so the sync of a caller, 25 MiB by default,
  acknowledges its change unextracted (4300-4309); the worker, whose limit is 250
  MiB (2625-2631), then finds its queue empty and extracts the file at its next
  reconcile, in up to fifteen minutes. `NoChangeForgotten` excepts that version and
  fails in `localcorpus` without that.
- A failed extraction of new content is retried at every sync and keeps the queue
  from being acknowledged: its failure is recorded on a revision that does not
  become current (4508-4516, 4733-4742), so the row stays outdated. When the content is that of
  the current revision, which an earlier adapter extracted, the failure is that
  revision's, which is observed anew: the document counts as failed, is not tried
  again, and does not keep the queue (3376-3384, 3598-3613). The marker of a save
  of such a path is never cleared (1946-1950); `EvidenceRecovers` excepts it.
- Recovery maintenance takes the 100 oldest records, so others can starve.

*Local contexts and registrations*

- Pruning forgets an open run without records, a superseded run that no record
  names and a completed run that another followed (`contexts.py:396-405`). A late
  page of such a run opens it as a new one instead of being refused as stale or
  answered as a replay (`contexts.py:926-957`): it supersedes the open run, and when
  it is the last page removes what it does not list.
- A context that is removed and created again starts at version 1, so a delayed
  request may name a version of its predecessor; `TakesEffectOnce` counts per
  creation.
- A Source may be registered at the root of a connected folder whose context does
  not list it (`service.py:764`), which connecting refuses (`workspaces.py:897`).
- A corpus with linked Sources and no context cannot be unregistered. After a
  crash between the commits of `database.py:1716` and 1846 the retry has to leave
  the context's options out.

## 4. Fairness

No fairness is ever put on the owner, on callers, on edits or on failures.

`SyncJobs`, in `jobs_backlog`: a D1 statement returns and its handler goes
on, an arrived message is handled, a client's timeout fires, a broken socket
is closed in the end, the device takes, executes, remembers and sends, and a
daemon without a session connects again (`_broker_loop` retries for ever).
The failure `statement` is not enabled: a handler that dies of a failed
statement is left to the platform. Deadlines do not pass, so that a job is not
settled merely by expiring.

`SourceSync`: a started walk, the loop and a change in work go on (weak
fairness). Two strong ones remain. `SF(WalkStart)`: `_source_loop` walks
whenever `full_reconcile_seconds` have passed, between whatever else it does.
`SF(DueChanges /\ i \in loop'.batch)` for each document: `fail_change` puts an
entry off for a time that doubles, and `due_changes` orders by age, so entries
behind a failing one have their turn.

`RegistrationDetach`: the device reconnects, takes and works; handlers of the
broker go on; an upload ends. `SF(Retire)` and `SF(RetireAnswer)`, since crashes
and the upload lock disable them now and then and the replay brings the job back.

`TrashGroups`: the sweep is scheduled daily, so its own steps go on (`WF`).
`LibraryAssets`: the steps of a request that runs, and `SF(PurgeBatch(Sweep, g))`
for each group, which the sweep meets again every day.

`ShardPins`: maintenance ends once begun, and each writer's own request goes on;
strong, because maintenance closes the gate in between.

`HostJobs`: the manager is started again, its tasks, the workers and the answers to
a cancellation go on. `SF(Acquire)`: a semaphore serves its waiters in order. A
command itself need not end; `JobsSettle` is about jobs whose command ends,
is cancelled or times out.

`LocalCorpus`: a sync goes on (`WF`), an operation that holds the folder's lock
lets it go, and `SF(WorkerStep)`: the worker's timer fires, its service is
restarted and its syncs get the lock, however often other callers take it. Syncs
of callers whose limit the file exceeds are bounded by `MaxFaults`, as failures are:
without a bound they could acknowledge each reconcile's entry just before the worker
reads the queue, and the file would wait for ever.

`WorkFolder`, `HostFiles`, `LocalContexts` and `JournalWeeks` are checked for safety alone: no loop of theirs
retries anything.

## 5. What is proved

TLAPS proves, for every value of the constants:

| theorem | of | statement |
|---|---|---|
| `TypeCorrect` | `SyncJobs` | `Spec => []TypeOK` |
| `JobInvariant` | `SyncJobs` | `Spec => []JobInv` |
| `SuccessPerformed` | `SyncJobs` | `Spec => []SuccessWasPerformed` |
| `OneWriter` | `SyncJobs` | `Spec => []OneActiveWriter` |
| `OutcomeFinal` | `SyncJobs` | `Spec => OutcomeIsFinal` |
| `LifecycleImplemented` | `SyncJobs` | `Spec => ImplementsLifecycle` |
| `MemoryInvariant` | `SyncJobs` | with `MemorySuffices`: `Spec => []MemoryInv` |
| `PerformedOnce`, `VerdictsNeverDiffer` | `SyncJobs` | with `MemorySuffices`: `Spec => []PerformedOncePerCrash`, `Spec => []VerdictsAgree` |
| `SyncInvariant`, `TypeCorrect` | `SourceSync` | `Spec => []SyncInv`, `Spec => []TypeOK` |
| `PathsUnique` | `SourceSync` | `Spec => []OneDocumentPerPath` |
| `LastGoodKept` | `SourceSync` | `Spec => []LastGoodReadable` |
| `ShelfInvariant`, `NothingAccumulates` | `SourceSync` | `Spec => []ShelfInv`, `Spec => []NothingLeftBehind` |
| `FaithInvariant`, `ShownFaithfully` | `SourceSync` | with `Steady`: `Spec => []FaithInv`, `Spec => []Faithful` |
| `DetachInvariant`, `TypeCorrect` | `RegistrationDetach` | `Spec => []DetachInv`, `Spec => []TypeOK` |
| `TombstonesHold` | `RegistrationDetach` | `Spec => []TombstoneHolds` |
| `RecordsAlwaysAgree` | `RegistrationDetach` | `Spec => []RecordsAgree` |
| `Implements` | `RegistrationDetach` | `Spec => KeepsPromise` |
| `TrashInvariant`, `TrashTypeCorrect` | `TrashGroups` | `Spec => []TrashInv`, `Spec => []TrashTypeOK` |
| `PurgesLeaveNothingDangling` | `TrashGroups` | `Spec => []NothingDangles` |
| `PurgesAloneDestroy` | `TrashGroups` | `Spec => OnlyPurgeDestroys` |
| `PinInvariant`, `TypeCorrect` | `ShardPins` | `Spec => []PinInv`, `Spec => []TypeOK` |
| `ReferencesNeverDangle` | `ShardPins` | `Spec => []NoReferenceDangles` |
| `RecordInvariant`, `RecordsWhole` | `ShardPins` | `Spec => []RecordInv`, `Spec => []RecordsAreWhole` |
| `JournalInvariant`, `TypeCorrect` | `JournalWeeks` | `Spec => []JournalInv`, `Spec => []TypeOK` |
| `WorkContinues` | `JournalWeeks` | `Spec => []OpenWorkContinues` |
| `WeeksCloseAsShown`, `OwnerDecidesResolutions` | `JournalWeeks` | `Spec => ClosedAsShown`, `Spec => ResolutionIsOwners` |
| `LibraryInvariant`, `LibraryTypeCorrect` | `LibraryAssets` | `Spec => []LibraryInv`, `Spec => []LibraryTypeOK` |
| `PurgedIsUnused`, `PurgedIsGone` | `LibraryAssets` | `Spec => []UnusedWhilePurging`, `Spec => GoneForGood` |
| `HostInvariant`, `TypeCorrect` | `HostJobs` | `Spec => []HostInv`, `Spec => []TypeOK` |
| `CancelledOver` | `HostJobs` | `Spec => []CancelledIsOver` |
| `VerdictFinal` | `HostJobs` | `Spec => VerdictIsFinal` |
| `WatchInvariant`, `MonitorPatient` | `HostJobs` | `Spec => []WatchInv`, `Spec => MonitorIsPatient` |
| `FilesInvariant`, `FilesTypeCorrect` | `HostFiles` | `Spec => []FilesInv`, `Spec => []FilesTypeOK` |
| `TransfersWhole`, `ContentsKept` | `HostFiles` | `Spec => []TransfersAreWhole`, `Spec => NothingVanishes` |
| `FolderInvariant` | `WorkFolder` | `Spec => []FolderInv` |
| `ReplacedKept`, `UndoTrue` | `WorkFolder` | `Spec => []ReplacedIsKept`, `Spec => []UndoIsTrue` |
| `ChangesImplemented` | `WorkFolder` | `Spec => ImplementsChanges` |
| `ContextInvariant`, `ContextTypeCorrect` | `LocalContexts` | `Spec => []ContextInv`, `Spec => []ContextTypeOK` |
| `ReferencesAlwaysHold`, `MembersSeen`, `EffectOnce` | `LocalContexts` | `Spec => []ReferencesHold`, `Spec => []MembersWereSeen`, `Spec => []TakesEffectOnce` |
| `IndexInvariant`, `TypeCorrect` | `LocalCorpus` | `Spec => []IndexInv`, `Spec => []TypeOK` |
| `ChangesRemembered` | `LocalCorpus` | `Spec => []NoChangeForgotten` |

They assume the named assumptions on the constants, which stand in the modules
that declare them and which TLC evaluates in every run. Some theorems have a
hypothesis besides, since the code does not keep the property otherwise:

- `MemorySuffices`: there are no more jobs than `MAX_COMPLETED_JOBS`, so no answer
  is pushed out of the memory. A job replayed after a thousand others is executed
  again (`state.py:1505`).
- `Steady`: files do not return to earlier bytes, one suffix is supported among
  the paths, and retention deletes only what keeps a supported suffix. Without any
  one of the three `Faithful` fails (section 3).

The constants of `jobs_faults` satisfy the first, those of `sync_faults` the second.

**The job path.** `SuccessWasPerformed` is not inductive: a result may be
anywhere between the device and the row. `JobInv` adds *evidence*: wherever a
success is remembered, sent, handled or recorded, the operation has taken
effect; and *provenance*: a job travels, is run, or is found late only after
it was submitted. Each action preserves each conjunct; one lemma per action
family, over lemmas on channels (prefixes, appends, tails). The refinement maps
the row (queued and dispatched are `open`), the performed jobs and the passed
deadlines; most actions stutter, `HelloExpire` and `HelloPurge` are `Maintain`,
`ResultComplete` is `Succeed` or `Fail` by the evidence for its verdict.

**Repetition.** `MemoryInv` says that each job is answered once (`AnsweredOnce`),
that whoever has a verdict, a channel, a handler, the row or a caller, has the
remembered one (`Testimony`), and that an operation that was performed and is
not remembered is either in the device's hands or was forgotten in a crash
(`Repetition`). The memory drops nothing as long as it is injective in its
jobs and there are no more of them than it holds, which is a pigeonhole argument
over the cardinality of `Jobs`.

**Source synchronisation.** `OneDocumentPerPath` is preserved by
`observe_file` only because *all* rivals are displaced, missing ones included
(the mutant `Rivals_LiveOnly` breaks it), and the displaced path has to leave
the documents typed. `LastGoodReadable` depends on `Prune` comparing the
record's current projection and on `Upload` storing what it shows, which needs
captured bytes and a supported suffix: hence `WorkIsSound`. `TableIsSound` ties
queue entries to known documents, without which a claim would snapshot a row
that does not exist; the same conjunct says a refresh still finds the entry it
made, which is what the lock is for. Frame lemmas (what a step does not touch
stays as it was) keep the proof of each action to the conjuncts it can disturb;
every remote request goes through `CallStep`.

`Faithful` needs to know what the shard has been told. `FaithInv`: the table
never runs ahead of the folder (`TableFollows`); a pending entry tells where its
document was seen last and whether it is gone (`QueueTells`); what a record shows
lies between the remembered revision and the file, so bytes that are the remembered
ones are the shown ones (`RecordFits`, the place where reverting files break it);
what the change in work has captured is the file, unless the row has become stale
since (`WorkFits`); and what it is about to report is what the record shows
(`OutcomeFits`). `Complete` drops the entry only when the row is the one it started
from, which is why `SettledTells` survives it; every other step of a locked change
leaves its entry in the queue. `NothingLeftBehind` follows from `ShelfInv`: while
nothing has failed a shelf holds what the row remembers and what the change in work
has just added, and the change that adds also removes.

**Retirement.** That the tombstone and the row agree (`HeldRow`) survives a late
publication because the batch fails on the trigger. That `detached` implies
retired needs the evidence to be followed along the whole way of an answer
(`EvidenceOf`): remembered, on the wire, in a handler. That nothing has effect
after `GiveUp` needs `LockHolds`: an upload in flight keeps the lock that
`Retire` waits for. The refinement maps the tombstone to the phase.

**Trash groups.** `TrashInv` makes the groups, the marks of their members, the
marks of their Spaces and the requests under way tell one story (`GroupsTell`,
`ThingsTell`, `SpacesTell`, `RequestsTell`). `PurgesTell` carries what the blockers
were read for past the claim: nothing outside a group that is being purged needs
what it holds, until the last batch; inactive items are never marked
(`ThingsTell`), so no group holds one. Requests read long before they commit, so each
action has to show that what the others have read still says something of the
groups; groups only go forward (`Goes`), and that is what the lemma on foreign
requests rests on.

**References.** `NoReferenceDangles` needs `PinsHold`: what a write has reserved
is stored whole, and between the reading of D1 and the deletion every citation
is in what maintenance saw, or pinned. A commit never shortens a projection
that is whole. `RecordsAreWhole` needs `RowsHold`: a document's row has exactly
one active projection of its current revision, all rows are whole from their commit
on, and a revision has a document and a projection.

**Journal and Library.** `JournalInv` ties what an ingestion or a close has read to
the rows it guards (`RequestsHold`) and a continued item to the item it continues
(`ItemsHold`). `LibraryInv` follows a purge across its steps: what it is about to
mark has left the bucket (`CallsHold`), and what it takes no issue may take up
again (`AssetsHold`).

**Host jobs.** `HostInv` says what the files tell of the worker (`FilesTell`:
a result means that the command is over), what the row tells of the files
(`RowTells`: a recorded verdict is over, or comes from the result) and what the
manager's task knows (`TaskTells`: one that is about to record a loss has
found no process). `WatchTells` adds that a row has the identity of its processes
only when they ran, and that the monitor misses them only when the worker has gone.

**Host files.** `FilesInv` relates stamps to contents (`StampsHold`), what an upload
or a download has agreed on to the file it named (`UploadTells`, `DownloadTells`,
`CommitIsAsAgreed`), and an operation on a path to what it checked
(`WorkTells`); `TransferTells` carries it over the steps of a request. `NothingVanishes` further needs `Inside`: only a
directory that is there holds a file, so that moving or deleting a directory takes
its contents along.

**Work folders.** `FolderInv` ties the step of an operation to its phase, its
kind and its temporary name (`Progress`, `Staged`). `Versions`: whatever was
exchanged has a larger `ctime`, so a file that carries the version found first
has not been exchanged, and withdrawing the queue entry is right. `OwedIsHeld`:
an inode that a save took away is under a temporary name or is a whole copy that a
record links. `RowsAreTrue`: a record's copy is the inode of its base, and is being
written only while its save is at that step. The
refinement to `FolderChanges` maps the steps to phases.

**Local contexts.** References hold although rows go, because every action that
removes a row removes what refers to it in the same transaction. `TakesEffectOnce`
needs `EffectIsPast`: a request that took effect named a version that is past, so
the guarded update of its repetition matches no row. `MembersWereSeen` needs that
a run and its base are of one binding (`OneBinding`), and that no open run saw what
was removed (`RemovedIsPast`).

**The local index.** A step of the folder leaves the names alone or is noted,
by an event or as `missed`; what a scan has passed is as it found it unless
noted (`ScanIsTrue`, `IngestIsTrue`); a row carried to a temporary name leaves
something pending (`StraysPend`). So an acknowledgement that drops the queue does
so only when a complete scan saw the file as it is, and the row it stored is in step
or was left out by that sync's limit: `left` is kept only as long as the row names the
same version. An entry that is queued may end `left` and `missed`, because it goes
only with such an acknowledgement.

**What the proofs found.** Gaps that no run had shown, since each has one set of
constants: `ShardPins` could begin with a document whose current revision is of
another one, a transfer of `HostFiles` could take the id of an earlier one, and
nothing was assumed of what the requests of `LocalContexts` name. The order of the
sweep in `TrashGroups` became a function of the times, which is what the column is.
`NothingLeftBehind` held in a run only since too few edits were allowed to make a
row forget a projection; it now excepts such rows and holds for any number. And the
attempt to prove `Faithful` with retention showed the record that becomes available
without content (section 3).

**Only model-checked.** Liveness, which is out of the prover's reach: `BacklogDrains`,
`Converges`, `DetachSettles`, `DueGroupsAreSettled`, `WritesEnd`, `PurgesEnd`,
`JobsSettle`, `EvidenceRecovers`. Every other property of the runs is a theorem.

## 6. What is not modelled

The reasons are in `PROJECT.json`, one per component. In short: Sense, Hypes and
Design write one guarded batch each; the local Sense and Hypes engines write
under one file lock and are the predecessors of the remote services; migrations and imports are run once by an operator; auth, HTTP, sites, Flow, Document Files and
scripts keep no state of their own or leave it to a library. Of the modelled
components, the notes name the operations that are left out: mostly reads,
previews, receipts of repeated keys, and configuration. In `LocalCorpus`, a file
above the worker's own 250 MiB, which only a caller who names the document can have
extracted (`ingest`), and a sync that puts a file off for its `max_bytes`, which keeps the
queue, are outside.

## 7. Plan

What would be added next, in this order:

1. The stages of the shard's retention and the reservations of keyed moves.
2. Sense's trash groups, which share the protocol of `TrashGroups`.
3. Proofs: `VerdictsAgree` for more jobs than the memory holds, as long as none is
   replayed after it was pushed out; `Faithful` for any suffixes as long as the
   retention waits.

