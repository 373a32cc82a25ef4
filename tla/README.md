# RepoMemo in TLA+

Specifications of the parts of the RepoMemo server (`apps/server`, `crates/`) whose correctness depends
on interleavings, failures and restarts, with TLC instances and TLAPS proofs. RepoMemo keeps the evidence
of a team (uploaded files, git repositories, tracker items, notes) in workspaces, indexes it and answers
searches and questions from it. One Rust process serves everything: an HTTP API on tokio, background
workers in the same process, SQLite (one writer, WAL readers) and a folder of files named by their hash.

Paths below are relative to the repository's root. A path without a directory is in `apps/server/src/`,
`storage/` stands for `crates/storage/src/` and `api/` for `crates/api/src/`.

## The modules

| Module | What it models |
| --- | --- |
| `SingleFlight` | what a queue with retries promises for each thing it works on: the abstract specification of `IndexQueue` |
| `IndexQueue` | `indexing.rs`: the fair queue of indexing requests, its dispatcher, tasks, retries and the jobs people ask for |
| `IndexQueue_proofs` | theorems about `IndexQueue`, with the refinement of `SingleFlight` |
| `BlobStore` | `storage/artifacts.rs`, `storage/staging.rs`: stored contents, files that refer to them, versions, collection and sweep |
| `BlobStore_proofs` | theorems about `BlobStore` |
| `Maintenance` | `maintenance.rs`: the passes of `BlobStore` run by the loop or by a person, one at a time; extends `BlobStore` |
| `Maintenance_proofs` | theorems about `Maintenance`, resting on those of `BlobStore` |
| `RepoSync` | `repositories.rs`, `api/repo_sync.rs`, `storage/repo.rs`: one linked repository, its settings and the syncs that follow it |
| `RepoSync_proofs` | theorems about `RepoSync` |
| `Upkeep` | what a background queue promises for the things it keeps up to date: the abstract specification of `Embedding` |
| `Embedding` | `embedding.rs`, `api/embeddings.rs`, `api/budget.rs`: the coalescing queue of workspaces, the passes and their allowance |
| `VectorIndex` | `storage/vectors.rs`: the copies of vectors that searches by meaning read; extends `Embedding` |
| `Embedding_proofs` | theorems about `Embedding`, with the refinement of `Upkeep` |
| `VectorIndex_proofs` | theorems about `VectorIndex`, resting on those of `Embedding` |
| `MailOutbox` | `mail.rs`, `storage/mail.rs`, `crates/mail/src/smtp.rs`: outgoing mail, its worker, deliveries and digests |
| `MailOutbox_proofs` | theorems about `MailOutbox` |
| `Backup` | `backup.rs`, `backup_copy.rs`: backups, second copies, restores, new keys; extends `BlobStore` |
| `Backup_proofs` | theorems about `Backup`, resting on those of `BlobStore` |
| `MCIndexQueue`, `MCBlobStore`, `MCMaintenance`, `MCRepoSync`, `MCVectorIndex`, `MCMailOutbox`, `MCBackup` | the instances TLC checks |

`PROJECT.json` maps every definition to the lines it translates, and lists the runs, the mutants (for every
checked property a change of the code that breaks it), the hazards and the theorems.

Some instances explore *scenes*: an action constraint of the MC module (`Explored`) keeps TLC to states where
only some of the actors are at work. A scene restricts what is explored, never what a step does; under fairness
it is the fair steps within the scene that are fair. The proofs have no scenes.

To check one run: `tlc -config IndexQueue_queue.cfg MCIndexQueue`; to check one module's proofs:
`tlapm BlobStore_proofs.tla`.

## Inventory

State is in the database unless it says *memory*; what is in memory is gone after a restart.

| Component | State | Operations | Interacts with | Hard because | Correct when |
| --- | --- | --- | --- | --- | --- |
| Indexing queue (`indexing.rs`) | *memory*: requests by workspace, turns, `queued`, `manual`; rows: `indexing_jobs`, `artifacts.indexed_at`, failures | enqueue, enqueue_manual, resume_pending, dispatch, retry | uploads, maintenance, embedding queue | a mark that suppresses a second request, claims between two locks, sleeping retries, restarts | one pass over a file at a time; no mark without work; every job ends; what is stored is indexed or its failure recorded |
| Stored contents (`storage/artifacts.rs`, `storage/staging.rs`) | rows `blobs`, `artifacts`, `artifact_versions`; files | store, replace, restore, delete, collect, sweep | uploads, maintenance, backups | file and row are two writes; equal contents are shared; dropped handlers | whatever is referred to can be read; nothing is kept for ever; no version is lost |
| Maintenance (`maintenance.rs`) | *memory*: `running` | scheduled and manual pass | stored contents, indexing and embedding queues | two starters, a handler that may be dropped | one pass at a time, and passes go on |
| Repository syncs (`repositories.rs`, `api/repo_sync.rs`, `storage/repo.rs`) | *memory*: `running`, `auto_attempts`; rows: the source's metadata, `repo_files`, artifacts | poll, start, sync, cancel, edit | git, indexing, webhooks, quotas | a sync may stop anywhere; renames; read-modify-write of one metadata document | a complete sync leaves exactly the commit's files; identities survive renames; a moved branch is followed |
| Embedding queue (`embedding.rs`, `api/embeddings.rs`, `api/budget.rs`) | *memory*: `waiting`; rows: `chunk_embeddings`, jobs | request, pass of two batches, yield, resume | indexing, providers, vector index | requests that arrive during a pass | no lost request; busy workspaces do not starve others |
| Vector index (`storage/vectors.rs`, `api/meaning.rs`) | *memory*: copies of vectors, stamps | build, apply, forget | embedding, search | writes during a paged build | a search sees what the database has |
| Backups (`backup.rs`, `backup_copy.rs`, `backup_crypto.rs`) | folders; *memory*: status | make, copy, seal again, prune, delete, restore | database, stored contents | a snapshot and a walk at different times; renames with a crash between | a listed backup is whole; no operation loses one |
| Mail outbox (`mail.rs`, `storage/mail.rs`) | rows `mail_outbox` | queue, claim, deliver, retry, give up, digests, prune | SMTP server | crash between acceptance and record; check then insert | tried a bounded number of times; nothing stays `sending` |
| Webhooks (`webhooks.rs`) | *memory*: delivery ids, rate counters; rows: deliveries | receive, redeliver | syncs of repositories and trackers | repeated and absorbed deliveries | a push that was announced is synced |
| Tracker connectors (`connectors.rs`, `api/connectors.rs`) | as for repository syncs, with a paging cursor | poll, sync, pause | trackers | rate limits, partial pages | as for repository syncs |
| Workspace archives (`workspace_export.rs`, `workspace_import.rs`) | *memory*: import jobs; rows | export, import | indexing, quotas | one per person, stops half way | an import is whole or reported |
| Folders and re-index (`artifacts.rs`, `storage/artifacts.rs`) | rows `folders`, jobs | create, rename, move, delete, index workspace | indexing | check, then act | the folders form a forest of bounded depth; one re-index at a time |
| Sessions and sign-in (`auth.rs`, `identity.rs`, `mfa.rs`, `web_session.rs`, `storage/users.rs`) | rows: tokens, codes | sign in, rotate, revoke | rate limits | rotation that races itself | one use of a token, with its grace |
| Organizations and access (`access.rs`, `organizations.rs`, `workspaces.rs`) | rows: memberships, roles, invitations | invite, accept, change, remove | everything | last owner, races of removal | the roles' rules hold |
| Limits (`security.rs`, `load.rs`, `ai_access.rs`, `quotas.rs`) | *memory*: counters | check | everything | time windows, check then act | bounds are kept |
| Events (`events.rs`, `streams.rs`) | *memory*: broadcast channels | publish, subscribe | web app | slow readers | a reader that lost events knows it |
| Conversion and ingestion (`conversion.rs`, `crates/ingestion`) | *memory*: in flight; a cache | convert, read | uploads | one at a time, time limit, child process | no conversion twice at once |
| Derived results (`derived.rs`, `api/health.rs`, `api/knowledge_map.rs`, `review.rs`) | *memory*: cache by content version | compute | everything stored | staleness | as of the version they are kept under |
| Search, AI, assistant, templates, collaboration, memory cards | rows | single requests | providers | ranking, prompts, text | data, not control |
| Environments, setup, configuration, system administration, logs, health | files, rows | attach, create, set up, report | the process | process life cycle | — |
| Git and SMTP access, indexer, retrieval, domain (`crates/git`, `crates/mail`, `crates/indexer`, `crates/retrieval`, `crates/domain`) | none | functions and external programs | — | parsing | — |
| Web app, desktop app, console (`apps/desktop`, `apps/console`) | UI state | — | the API | — | — |

`PROJECT.json` lists all of them under `components`, with what is left out of each and why, and the places
where the code is hard to test under `hazards`.

## IndexQueue

A handler that stored a content, a person who asks for a pass, and `resume_pending` all queue a file.
`queued` suppresses a request for a file that already has one; `manual` carries the job of a person's
request to the pass that will do it. The dispatcher takes a permit and the next workspace's oldest request
and spawns a task, which claims the manual entry, reads the bytes, analyses them, writes the passages in one
transaction and closes its job. A failed automatic pass sleeps and is pushed again (`RETRY_DELAYS`).

Each critical section of a lock and each database statement or transaction is an action: `Store`,
`ReadSummary`, `Enqueue` for an upload; `AskForPass`, `ListAsked`, `QueueAsked` for `enqueue_manual`; `Pick`,
`Claim`, `ReadBlob`, `WriteIndex`, `Succeed`, … , `Unlist`, `Forget`, `CheckManual`, `Requeue` for a task;
`Disconnect` drops a handler at an await; `Restart` empties the memory and closes the interrupted jobs. A content
is the number of times the file was stored, so a newer one is larger.

`enqueue_manual` makes a job, stamps it with who asked and only then gives it its entry, all under the lock of
`manual` (`Locked`, for which tasks that want the lock wait). The stamp may fail and the handler may be dropped
in it (`Disconnect` of a handler that has `made` a job): the job then runs with nobody to close it. So it does
when `update_indexing_job` fails at the end of a pass (`CloseJob`), and when the pass of an earlier request
removes its entry while it waits (`Unlist`). `strays`, a history variable, has these jobs until a restart closes
them; a failed statement is counted in `faults`.

- `JobsAreOwned`: a running job that is no stray is with the handler that makes it, in its waiting entry, or in
  the hands of a task.
- `OneJobPerFile`: of two such jobs of one file, one is `Overtaken`: a task still works for it, but its entry was
  removed or is another's. The other one waits or is being made.
- `JobsEnd`: a running job ends or is a stray.

The stronger claims of the comments, that ten requests make one job and that an entry stays until the work is
done, are not kept by the code, see *Disagreements*.

`SingleFlight` says what all of this is for: a file has one request, which waits, is worked on and ends, or rests
after a failure and waits again, with one attempt more, while delays are left (`indexing.rs:20`). With `Waiting`
(what the queues hold), `Working` (what tasks hold) and `sleeping` in their places, `IndexQueue` implements it.

Left out: the wait for a free permit before the pop, the manual job's cancellation, events and audit.
`NeedsIndex` has the files that were never indexed and leaves out those of an older indexer. Passes outside the
queue (workspace re-index, imports, syncs) are not in the model, so `ChunksNeverGoBack` is about the queue's own
passes.

| Run | Instance | Shows |
| --- | --- | --- |
| `index_queue` | scenes: 1 file, 2 permits, 2 handlers, 1 job, 2 contents, 1 retry, 1 restart or failed statement; or 3 files in 2 workspaces, 1 permit, each stored once | one request, retry or task for a file; marks are backed; the passages only advance; turns and queues agree; each request taken brings the others one turn nearer; `SingleFlight` is implemented |
| `index_jobs` | 1 file, 2 permits, 2 handlers, 2 jobs, 1 retry, fair; scenes: stored once and asked for, with two permits while nothing else fails, or with one and a deletion, a restart or a failed statement; stored twice, nobody asks | running jobs are owned and closed but for strays; a second job only beside an overtaken one; a stored file settles |
| `index_stale` | 1 file, 1 permit, 1 handler, 2 contents, fair | **violated**: see *Disagreements* |

Two permits are needed for two tasks of one file to meet, two handlers for two requests, one retry and one
restart for their interleavings; a second file adds nothing to properties about one file, since files share
only the turns, which the second scene checks with two files in one workspace and a third elsewhere. The scenes
of `index_jobs` are apart because liveness over their union is too large; the theorems about jobs cover every
combination. Two jobs are what a second job for a file takes.

Fairness (`FairSpec`): weak fairness of every task's and every handler's next step (tokio polls what is
ready), of the dispatcher, of the end of a retry's sleep, and of `resume_pending`, which the maintenance
loop and the startup call. Nobody has to upload, ask, delete or disconnect. The last assumption fails when a
pass started by a person was dropped, see *Disagreements*.

## BlobStore and Maintenance

A content is a row of `blobs` and a file named by its hash. `store_blob` holds `blob_lock` while it renews
the row and puts the file in place; the handler then makes a file refer to it (`StoreArtifact`) or replaces
a file's content and keeps the one before as a version (`ReadCurrent`, `ReplaceContent`). A pass lists
unreferenced rows older than an hour, looks again at each under the lock and deletes the row and then the
file (`ListOrphans`, `DeleteRow`, `RemoveFile`); a sweep removes files without a row (`ListFiles`,
`SweepFile`). `Drop` ends a handler at any await; what it had handed to the database or to the disk may
still be done. `Restart` ends the process with the file operation in flight done or not.

`Maintenance` composes these passes with the `running` flag of `run_tracked`: `Start`, `Stop` and
`DropManual`, after which a row's deletion or a file's removal may still be done without the lock (`late`).

Assumptions: a handler refers to what it has stored within the grace hour (the guard of `Age`), which is far
above the request timeout; the age of a file is abstracted, since every file the sweep finds may be old.
Left out: temporary names, the batch size of a collection, the setting that turns it off, power failure
without fsync, workspaces (two files of one path stand for the unique index).

| Run | Instance | Shows |
| --- | --- | --- |
| `blobs` | 2 files, 3 contents, 2 handlers, 1 pass, up to 2 versions | what is referred to, or was just stored, is never collected or swept |
| `versions_lost` | 1 file, 3 contents, 2 handlers, no pass | **violated**: see *Disagreements* |
| `reclaim` | 1 file, 2 contents, 1 handler, the loop's pass and a person's, 1 restart, fair | one pass at a time; what nothing refers to is reclaimed while passes go on |

Three contents are the current one, the one before and a new one; two files share one of them; two handlers
and a pass are the actors of every race between storing, replacing and collecting. `OrphansReclaimed` is
under the premise `[]<>~running`, which a pass that is dropped with its handler breaks for ever (see
*Disagreements*).

Fairness in `Maintenance`: time passes (`Age`), the loop comes round and its steps succeed again and again
(strong fairness of the steps that may also fail or wait for the lock, which tokio's mutex grants in order),
handlers that hold the lock go on. A person's pass has no fairness.

## RepoSync

One repository. `start` (called by the poller, a person or a webhook, and the startup) enters it in
`running` (`Claim`), makes the job and spawns the task (`Begin`), or undoes the entry (`BeginFails`); a
handler dropped in between leaves the entry behind (`DropPerson`). The task reads the metadata once
(`ReadSource`), resolves the branch and either finds nothing to do (`Skip`) or compares the commit with the
stored rows (`Plan`), stores each changed file (`LeaveBinary`, `AddFile`, `ChangeFile`), marks the vanished
ones removed (`RemoveFile`), writes the commit into the metadata (`Record`), indexes what waits
(`IndexFile`, `IndexFails`) and writes the outcome (`Finish`). It looks for a cancellation every
`ProgressEvery` files. `ReadLink` and `SaveSettings` are `update_repo_source`, which writes back the
metadata it read. `SyncFails`, `Cancel`, `Restart` stop a sync anywhere.

A path is a number in git's order, a content a value, rules a set of paths. A row of `repo_files` and its
artifact are one record: the artifact, the content, whether it is removed and indexed, and what its stored
passages were cut from. `plan` gives each changed path the row it takes over: its own, that of a vanished
path with the same content or that git's rename detection names, or none. `GitRenames` is external: git
pairs equal contents first and may pair any others. `Clash` is the failure on the unique index when one row
was given to two paths.

Left out: other repositories and the permit they share, credentials, authors, owners, mentions, the
overview, the indexer's version, connecting and deleting a link. Polling is on. `last_error` is written in
one step although the code reads and writes.

| Run | Instance | Shows |
| --- | --- | --- |
| `sync` | scenes: 5 paths, 2 commits that replace each other, 2 sets of rules, 1 edit or 1 fault; or 3 of the paths, with poller, people and startup, 1 edit and 1 fault, fair | one sync at a time; a complete sync leaves the commit's files; search answers from them; no artifact is lost; a branch that moved and stays is synced |
| `sync_shortcut` | 3 paths, 2 commits, 1 fault | **violated**: see *Disagreements* |

The two commits of `sync` have two files of equal content that move, one of them edited, and a third
that turns binary; going back and forth between them, with the fault at any file, covers new, changed,
renamed, removed, restored and binary files over half-done syncs. A fault is a failure, a failed
index, a cancellation, a dropped handler, a refused start or a restart.

Fairness: tasks and calls of `start` go on, the poller makes its rounds, and the hour of
`AUTO_SYNC_RETRY_AFTER` passes. `FollowsWhenPolled` is `Follows` in the scene with the poller. It leaves
out two cases, both named in its comment: a repository that was never synced is not polled, and one left in `running` by a dropped handler stays so until a restart.

## Embedding and VectorIndex

Passages that have no vector of their workspace's current model are missing. Whoever writes passages or saves
a provider requests the workspace (`IndexFile`, `SaveProvider`, `ClearVectors`, then `Request`); a workspace
waits once in `waiting` and in the channel (`Queue`). The worker receives the next one (`Receive`), takes it
out of `waiting` once it has a permit and spawns its pass (`Spawn`), which reads the provider, counts what is
missing and embeds it batch by batch (`ReadProvider`, `Count`, `Look`, `StoreVectors`, `Proceed`), within the
daily allowance. After `MaxBatches` it requests its own workspace again. A pass may be cancelled, its provider
or its transaction may fail, a caller's request may be lost with its handler; `Resume` is `resume_pending`.

`MissingIsRequested` says that no workspace is forgotten: what is behind is waiting, about to be requested, at
work with the present model, or was let off by a fault until the next maintenance. `KeepsVectorsUp` says it as
a refinement: with `behind` and `arranged` as the mapping shows, `Embedding` implements `Upkeep`.

`VectorIndex` adds the copies of vectors that searches by meaning use. A search counts the rows, takes the
copy when the numbers agree, and otherwise builds one page by page under the build lock while passes go on
committing (`CountRows`, `BeginBuild`, `ReadPage`, `StoreCopy`); a pass applies what it has committed to the
copy that exists at that moment (`ApplyVectors`). `CopiesAreComplete` is about the copies that were built while
nothing of their model was committed; the others are the disagreement `vectors_stale`.

Left out: errors that are logged and change nothing, the job's progress, how a vector is normalised or ranked,
memory in bytes (the budget is a number of vectors; that `apply` may grow a copy beyond it is true in the model
too).

| Run | Instance | Shows |
| --- | --- | --- |
| `embedding` | 3 passages in 2 workspaces, 1 permit, batches of 1, yield after 1, 1 search at a time, pages of 1; scenes: two workspaces in turns; one edited, failing, restarted, at its allowance; one edited and searched | no workspace is forgotten; each is embedded in the end; copies lack nothing; `Upkeep` is implemented |
| `vectors_stale` | 2 passages, 1 workspace, 1 search | **violated**: see *Disagreements* |

Batches, pages and turns of one make every loop go round at least twice with two passages; a third passage in
another workspace makes the turns meet. Fairness: the worker, the passes, the callers and `Resume` go on, as
tokio polls what is ready and maintenance comes round; nobody has to edit, search or fail.

## MailOutbox

A feature looks whether mail is set up and few enough mails wait, and then inserts one (`CheckOutbox`,
`Enqueue`). The worker's round queues the digests of the day (`BeginRound`, `ReadNotices`, `QueueDigest`,
`RecordDigest`; one that cannot be inserted is passed over, `SkipDigest`; one that is inserted and cannot be read
back is in the outbox and not recorded), claims a batch (`Claim`, `ClaimFails`), reads the settings once (`ReadSettings`) and delivers the mails side
by side. A delivery is the SMTP dialogue up to the server's acceptance (`Try`), its answer (`Answer`), `QUIT`
(`Quit`) and the record (`Record`, `RecordFails`). `Requeue` is what a start does for mails left 'sending'.

The properties are bounds in terms of the faults and restarts that happened: how often a mail is tried
(`TriesAreBounded`) and may be received (`CopiesAreBounded`), how many mails wait (`WaitingIsBounded`: the limit
and the senders who looked at the same moment), how many digests a person gets (`OneDigestADay`).

Left out: the text of mails, addresses, TLS and authentication, the times between attempts (a mail falls due
at any time), and the batch that other environments of the process have.

| Run | Instance | Shows |
| --- | --- | --- |
| `mail` | 3 mails, 2 senders, 1 person, batches of 2, 2 attempts, 1 fault, 1 restart, 1 change of settings, 1 day; scenes in `MCMailOutbox` | the bounds above; a mail is 'sending' only while the worker has it; every mail ends |

Two senders at a limit of one are the smallest case of a limit overrun; two attempts are one retry; a batch of
two of three mails leaves one behind. Fairness: the worker's loop, time and every delivery go on; each reply of
the server has a time limit, and so has the whole delivery.

## Backup

`Backup` extends `BlobStore`: files go on being stored, replaced, deleted and collected while a backup is made.
`BackupStatus::running` admits one operation: a backup (snapshot of the database, walk over the stored files,
manifest, rename into place, pruning: `BeginBackup` to `PrunePartials`) followed by its second copy; a copy; a
restore; or a reseal of one backup with a new key. Deleting a backup only looks whether one runs and then removes
the folder piece by piece (`DeleteBackup`, `OpenFolder`, `RemovePiece`, `EndRemoval`: an open removal follows a
folder that is renamed). Every step of the file system may fail (`FailBackup`, `FailCopy`, `FailReseal`,
`FailRestore`, and `PutBack` with `DropLeftover` when the second rename of a reseal fails), and the process may end between any two and start with other keys (`RestartServer`).

A folder is a record: whether database, manifest and copy record are there, the contents that its database
refers to, those it holds and how each is sealed, and what was collected since its snapshot (`lost`, a history
variable). A backup is `Whole` when it holds, sealed as the manifest says, what its database names, except what
was `lost`. `finished`, `doomed`, `aside` and `trimmed` remember which backups were put in place, were
ever to be removed, and were left without a folder by a reseal.

- `BackupsAreKept`: a finished backup that nobody removes stands whole, unless a reseal was cut off between its
  two renames.
- `RestoredIsWhole`: an environment that a restore reports holds what its database names, except `lost` and
  backups that were being removed meanwhile.
- `RecordMeansCopy`: a backup recorded as copied has its copy, unless that was trimmed since.

Abstracted: sizes and checksums (a file is the content it should be, sealed one way), the key file, formats,
bit rot. So a file of a second copy that was linked to an older copy, which the code does not read back, is good when
the older one was; and a backup whose folder has `SHA256SUMS` (a second copy that somebody put among the backups,
which nothing in the model does) is not verified by `BeginRestore`. Assumed: one backup in a second, clocks that do not jump, `copy.json` written whole or not, and
leftovers that can be cleared.

| Run | Instance | Shows |
| --- | --- | --- |
| `backups` | 2 backups, 2 contents, 1 handler, 1 pass, 1 environment, 2 keys and 3 ways of sealing, 1 backup kept | the three properties |

Its scenes are a plain backup while contents change, and, with one content stored and left alone, two backups
with one removal and copies, one with removals and restores, or two that are sealed with new keys and restored.
The content at rest is what those operations copy; that contents change beneath them too is left to the proofs,
which cover every combination of them, any number of backups, contents and environments.

## Proofs

`tlapm` checks every proof to its leaves, for all values of the constants that satisfy the modules' assumptions
(`ConstantsOK` and its like), which say only which constants are numbers, which sets are disjoint, the shape of
the given functions and, for the page-wise build, that it starts before the first row (`vectors.rs:296`). What a
theorem needs beyond them is in its statement: one permit of the embedding queue (`OnePermit`), which
is the server's default, or a premise about the steps that is said below.

- `IndexQueue_proofs`: `TypeCorrect`, `OneToken` (`OneTokenPerFile`), `MarksBacked` (`MarksAreBacked`),
  `TurnsMatch` (`TurnsMatchQueues`), `ChunksAdvance` (`ChunksNeverGoBack`) and `TurnsCome` (`TurnsComeRound`),
  after lemmas about pushing to and popping the fair queue. Neither of the first three is inductive
  alone: that a file has one token needs that an unmarked file has none, and a pop keeps the queues apart only if
  the turns match them. `ChunksAdvance` needs besides that a task's `read` is never
  behind the stored passages while it holds its file's only token. `JobsOwned` (`JobsAreOwned`) and `OneJob` (`OneJobPerFile`)
  hold for any number of permits, from `JobInv`: the lock of `manual` lets one handler at a time make a job, of a
  file without an entry (`MakingOK`), so that no two jobs of a file have a handler or an entry; and each step that takes
  a job out of one hand puts it into another, closes it, or makes it a stray. `OneJob` uses `OneTokenPerFile`
  besides: two tasks do not work on one file at once, so of two jobs one is not a task's.
  `OneFlightEach` (`OneFlight`) is the refinement of `SingleFlight`, for any number of permits: each action that
  touches a request maps to one step, the others to a stutter. It rests on `OneTokenPerFile`: the request a
  pop takes out waits nowhere else, and the one a task lets go is in no other task's hands.
- `BlobStore_proofs`: `TypeCorrect`, `ContentStored` (`ContentIsStored`) and `StoredKept` (`StoredIsKept`). The
  invariant adds what makes a content safe against the passes at work: it has a row that no pass counts
  among its old ones, or it is referred to; what a pass is removing is neither; every handler between storing
  and referring has such a content; and the lock is held exactly in the phases that need it.
  `VersionsStay`: `Spec /\ []OneReplacer => []VersionsKept`. While no two handlers replace one file at once the
  content a handler has read is the one it replaces (`SeenIsCurrent`) and no version is lost, so the overlap that
  `versions_lost` exhibits is the only way to lose one.
- `Maintenance_proofs`: `OnePass` (`OnePassAtATime`): a pass that is at work implies `running`. `DroppedPassesKeep`
  takes `BlobStore`'s invariant to passes that are dropped with their handlers: `ContentIsStored` and
  `StoredIsKept` hold as long as what a dropped pass still removes without the lock is a file whose content has
  no row by then (`LateIsForgotten`).
- `RepoSync_proofs`: `TypeCorrect`; `OneSync` (`OneSyncAtATime`), from `OneOwner`: the entry in `running` stands
  for one claimed call of `start` or one task, and neither is there without it; `SearchIsCurrent`
  (`IndexedIsCurrent`), for which only live files may wait for indexing (`WorkIsLive`); `ArtifactsAreKept`
  (`ArtifactsStay`), for which no two rows share an artifact (`ArtsDiffer`) and a path that takes over or gets a
  row has none (`NewHasNone`); and `SyncStores` (`SyncStoresTree`), from `TreeInv`: while the tree of a commit is
  stored, the files left to store are of that commit and none of them takes over the row of another of its
  files, every other text of it is there, and what does not belong there is going to be removed or taken over
  (`OnTheWay`); what is complete stays so until the sync ends (`InStep`). `SearchIsCurrent`, `ArtifactsAreKept` and
  `SyncStores` rest on `OneOwner`: no other task changes the rows under a sync. `NothingIsInStep` (`NothingMeansInStep`) is what
  remains of the claim that `sync_shortcut` violates: it holds while every sync that has begun to store goes on
  until it has recorded (`SyncsRecord`) and no edit writes back a record that is gone (`EditsKeepRecord`). Then
  the record of the last whole sync is that of the stored files whenever no sync is storing (`RecordInv`).
- `Embedding_proofs`: `TypeCorrect` and `WaitingQueued` (`WaitingIsQueued`: the worker's line has each waiting
  workspace once); `NothingForgotten` (`MissingIsRequested`) and `QueueKeepsUp` (`KeepsVectorsUp`, the
  refinement of `Upkeep`). The last two assume `OnePermit`, at most one permit, which is the server's default
  (`config.rs:405`). What a workspace can lose is one step's work: `StepIsAboutOne` shows that a step changes
  what is behind and arranged for one workspace at most, and `SparedStays` that the others stay. A pass that
  ends because nothing was missing in its batch needs that the missing passages have a first one
  (`NoBatchNoneMissing`, from well-foundedness).
- `VectorIndex_proofs`: `IndexImplements`: with copies and searches the queue is still an `Embedding`, so that
  its theorems hold beside them; `IndexTypeCorrect`; `CopiesComplete` (`CopiesAreComplete`), with `SearchesRight`:
  what a build has not read yet is ahead of the row it stopped at, or about to be applied. `WholeCopiesExact` adds
  that such a copy has no vector that is not a row once the numbers agree, so comparing them decides rightly; the
  copies that `vectors_stale` shows to be wrong are those that a commit came into.
- `MailOutbox_proofs`: `MailTypeCorrect`; `NothingLeftBehind` (`SendingIsHandled`); `TriesBounded`,
  `CopiesBounded`, `DigestsBounded`, `WaitingBounded`. The bounds are invariants about one mail or person with a
  case for each place it may be in: a mail at the worker has been tried at most once more than was counted, one
  that was accepted and not recorded has cost a fault or will, a person past a digest that is not recorded is
  the worker's; and the mails that wait, with the senders who are past their look at the outbox, are within the
  bound.
- `Backup_proofs`: `BackupTypeCorrect`; `FinishedKept` (`BackupsAreKept`), from `KeepInv`: what no removal has
  opened is whole (`StandingWhole`), a backup being made holds what it has walked and its database names only
  contents of the store or lost ones (`MakingOK`), a resealed folder holds what its origin holds (`ResealOK`),
  and the original is in one of its two places (`StillThere`). It uses `BlobStore`'s invariant: at the moment of
  the snapshot every content referred to has its file, which is `ContentIsStored`. `RestoredWhole`
  (`RestoredIsWhole`) and `RecordsHold` (`RecordMeansCopy`) rest on it.

Only model-checked: everything under fairness (`JobsEnd`, `FilesSettle`, `OrphansReclaimed`,
`FollowsWhenPolled`, `PassagesAreEmbedded`, `MailsEnd`), because TLAPS proves neither liveness under fairness nor
ENABLED. Every invariant and action property of the passing runs has its theorem. Three of the four violated claims have
one that says what remains of them under a premise about the steps (`VersionsStay`, `NothingIsInStep`,
`CopiesComplete`); that the premise is not empty was seen with TLC, which finds the claim kept, and the interesting
steps taken, in behaviours that satisfy it. Two limits
shape the modules: what a recursive definition computes cannot be proved for every input (the theorems of
induction over data take an operator), and a module with a theorem uses no RECURSIVE operator, so all of them
are written without recursion.

## Disagreements

Where the code does not do what a comment of it says; each is a run whose property TLC finds violated.

- `index_stale`: a content stored while a pass has already read the previous one is not indexed: its request
  is dropped because the file is marked (`indexing.rs:261`), and the pass then sets `indexed_at`.
- `versions_lost`: two replacements of one file in flight both record the content they read before their
  transactions (`storage/artifacts.rs:1026`); the first one's own content is lost.
- `sync_shortcut`: a sync that ends after its removals leaves the record of the sync before it; when the branch
  or the rules go back to that record, syncs find nothing to do and the removed files stay out
  (`api/repo_sync.rs:455`).
- `vectors_stale`: vectors committed while a copy is built are applied to none; when as many passages were
  removed, the numbers agree and later searches miss the new passages (`storage/vectors.rs:279`).

Met while modelling, without a run of their own:

- `running` of maintenance is reset after an await (`maintenance.rs:157`), which a handler that is dropped never
  reaches: no pass runs again until a restart.
- Settings saved during a sync are overwritten with those it read (`api/repo_sync.rs:838`).
- A person's job runs from its insert (`indexing.rs:198`), but gets its entry only after the stamp of who asked,
  which may fail or be dropped with its handler: the job runs until a restart with nobody to close it, and asking
  again makes a second one ("ten requests make one", `indexing.rs:190`). This is the first of the three events that
  make a job a stray in `IndexQueue`.
- With two permits, the default (`config.rs:404`), a task that looks for a request that came meanwhile may remove the
  entry that another task is working for ("the entry stays until the work is done", `indexing.rs:130`). Asking again
  then makes a second job, and the end of the first removes the entry of the second while it waits. `Overtaken`
  names the first half, the third event the second.
- A job that `update_indexing_job` fails to close stays running until a restart (`api/lib.rs:553`).
- A pass dropped with its handler goes on removing a file in a thread without `blob_lock`; a content stored
  again meanwhile loses its file (`late` in `Maintenance`; `BlobStore`'s own theorems are about passes that
  are not dropped, `DroppedPassesKeep` about those that are).
- `Clash`: one row may be given to two new paths (`api/repo_sync.rs:643`); the sync fails, the next one
  succeeds, and the second file has lost its identity.
- `start` dropped between its entry and its spawn (`DropPerson`) leaves the repository unsynced until a restart.
- An edit that reads the link before the first sync and writes after it puts back metadata without a commit,
  and the repository is not polled any more.

Of the embedding queue:

- With two permits (`config.rs:405`), a pass for the old model may end after the pass for the new one and
  overwrite its vectors (`embeddings.rs:183`); `MissingIsRequested` then fails, since nobody requests the
  workspace again.
- A transaction that fails leaves the job running until a restart, and `embeddings rebuild` refuses as long.
- "At most 64 chunks before yielding" (`embedding.rs:131`) is not kept by a pass that found fewer missing when
  it counted than there are now; and a request for a workspace at work is queued, not coalesced as the header
  has it.

Of the outbox:

- "Tried this many times in all" (`mail.rs`, `MAX_ATTEMPTS`) does not count a try that a restart interrupts; the
  limit of waiting mails is looked at before the insert, and digests are not held to it.
- A `QUIT` that is answered too late for `DELIVERY_TIMEOUT` makes an accepted mail be sent again.
- A record that fails leaves the mail 'sending' until the server starts again; settings that cannot be read, or
  are off, fail the mails that were claimed for good.
- Notices that arrive between reading and recording a digest are in none.

Of backups:

- A content collected between the snapshot and the walk is not copied and not counted in `missing_blobs` (the
  comment at `backup.rs:386`); this is `lost`.
- A backup deleted while it is restored: the restore may report success with files missing.
- A reseal that ends between its two renames leaves both folders with a suffix of unfinished ones, and the next
  pruning deletes both ("never left without a folder", `backup.rs:956`); this is `aside`.
- A removal that is cut off may leave a folder with its manifest: it is still listed as complete
  (`backup.rs:256`), counted among those kept, can be restored, and every copy fails on it before newer backups
  are copied.
- A second copy may be trimmed while its backup is kept and recorded as copied.
- A restore that ended half way blocks the name of its environment.

## Not modelled

Webhooks: a call is one more caller of `RepoSync`'s `start`, whose `Claim` stands for it. Read, but not
modelled: a delivery's id is used up before the calls of the minute are counted (`webhooks.rs:329`), so a call
that is refused and sent again is answered as received; and a call absorbed by a sync that has already resolved
its branch is followed by the next poll only. Trackers are synced by the same scheme as repositories, with a
cursor.

Folders, archives, sign-in, organizations, limits and streams are request handlers over few rows: what can go
wrong is between a check and a write, and `hazards` lists the places (`storage/artifacts.rs:1005`,
`artifacts.rs:1066`). Re-indexing a workspace and imports index files beside the queue; `ChunksNeverGoBack` does
not speak of them. Everything that is data rather than control (conversion, chunking, search, prompts, formats)
has no state that a model of steps would tell apart, and the clients are outside the server.

