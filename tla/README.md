# Formal models of thinkingface

thinkingface is a self-hosted model and dataset hub: git repositories whose
authority is a write-ahead log on object storage, a database with a leased job
queue that re-indexes what was pushed, and an API that also writes to the
repositories itself. This directory holds TLA+ models of the parts whose
correctness rests on the order of concurrent steps, the TLC configurations that
check them, and proofs that TLAPS checks.

Paths below are relative to `src/backend` unless they begin with `src/`.

## 1. The system

### Inventory

| component | state it keeps | operations | what makes it correct |
|---|---|---|---|
| **write-ahead log, push** (`internal/wal`: `push.go`, `wal.go`, `pack.go`, `entry.go`; `internal/storage/gcs.go`) | per repository one `index.json` (base, entries, refs) under a generation, and immutable packs | read the index, pack, upload, compare-and-swap with retries and re-packs | the index can always be materialised; refs move as one atomic map; every push is answered |
| **write-ahead log, maintenance** (`compact.go`, `gc.go`, `cmd/thinkingface/walops.go`) | a scratch copy and the packs of the bucket | compact to one base, sweep orphans older than 24 h, purge a deleted repository | nothing named is deleted; readers get a grace period; orphans go in the end |
| **local copies** (`materialize.go`, `internal/gitrepo/wal.go`, `AdoptIfConverged`) | per instance a bare repository and `thinkingface-wal-state.json` | rebuild, incremental catch-up, adopt after a push, evict | the copy holds the closure of its refs; the state file is true; a copy converges |
| **seed and verify** (`seed.go`, `verify.go`) | none of their own | create an index from the disk, compare the two | no acknowledged push is missed between seeding and cut-over |
| **pre-receive hook, API commits** (`cmd/thinkingface/hook.go`, `internal/api/wal.go`, `git.go`) | local refs, a lock per repository | push to the log before (hook) or after (API) the local ref moves; roll back | a ref the log refused is never served for good |
| **sync job queue** (`internal/store/jobs.go`) | `sync_jobs` rows | enqueue, claim, heartbeat, finish, requeue, retry | one job of a ref runs at a time; late workers settle nothing; every job settles |
| **sync workers, metrics flush** (`internal/syncer`, `internal/experiments/flush.go`) | `repo_files`, buffered points, a lock per ref and process | re-read the tree and replace the index; commit points as parquet, re-index, drop them | the index is never older than a finished job; no point leaves the chart |
| **webhook queue** (`internal/webhooks`, `internal/store/webhooks.go`) | webhooks and `webhook_deliveries` rows | fire, claim with a sweep, deliver, finish, redeliver | two workers never carry one attempt; the last answer is the verdict; every delivery settles |
| **blob store and collection** (`internal/store/gc.go`, `files.go`, `syncer`, `cmd/thinkingface/gc.go`) | `blobs/` objects, `repo_files`, the ledger `blob_deletions` | publish, replace the index, repair; list, record, claim, remove, prune | a file an index lists is served, or its loss is on record and gets repaired; garbage goes |
| **LFS, quota and collection** (`internal/lfs`, `internal/store/files.go`, `quota.go`, `gc.go`) | staged uploads, `lfs/` objects, `lfs_objects`, `repo_lfs_objects` | batch, promote, commit, link, prune, collect | an object hashes to its name; a link has bytes behind it; a committed link is permanent |
| **experiment ingest and metrics chain** (`internal/experiments`, `internal/store/experiments.go`, `api/experiments_ingest.go`) | `exp_runs`, `exp_points`, the parquet files `metrics.parquet`, `metrics-1.parquet`, ... in git | log, flush, rotate, re-index, prune vanished runs | an accepted point is kept, and is in one file; only runs without data are pruned |
| **run delivery** (`clients/python/thinkingface/trackio`, `tfcli/experiments_sync.go`) | the shim's buffer, run directories with `run.jsonl` and `sync-state.json` | log, flush, heartbeat, finish, spill; replay of a directory | a point is delivered, spilled or reported as dropped while the process lives; the cursor is never ahead of the server; a finished run stays finished |
| **accounts, organisations, names, transfers** (`internal/store/orgs.go`, `users.go`, `repos.go`, `redirects.go`, `transfers.go` and their handlers in `internal/api`) | `users`, `namespaces`, `org_members`, `repositories`, `repo_redirects`, `repo_transfers` | change members, administrators and gates; create and delete organisations and repositories; move at once or by request, accept, reject, cancel; archive | an administrator always remains; a name leads to one repository; a transfer is completed on its requester's authority; transactions do not wait for each other |
| transports (`gitserver`, `sshserver`), other HTTP handlers, auth, viewers, the rest of `tf` and of the Python client, the frontend, infrastructure | - | - | no protocol of their own beyond the above; not modelled |

### How the parts meet

```
 git push / API commit                         LFS client -> lfs/ (staged, promoted)
     |  EnsureLocal: materialise the copy,           |
     |  under the repository's lock                  |  links: commit, sync job
     v                                               v
 pre-receive hook or commitThroughWAL --- upload pack, CAS ---> object storage
     |                                                          index.json, packs,
     |  the push is accepted                                    blobs/, lfs/
     v                                                            ^          ^
 EnqueueSync -> sync_jobs -> worker of some replica        `compact`, `gc`  materialise
                                |    re-reads the ref      (scheduled)     (any instance)
                                v
    blobs/, repo_files, LFS links, experiment index  --> webhook_deliveries -> dispatcher
                                ^
                                |  metrics flush (same ref, no job)
 trackio shim, `tf experiments sync` -> ingest API -> exp_points
```

Shared state is the bucket (through compare-and-swap and nothing else), the
database rows, and inside one process the repository lock and the ref lock. No
lock spans two processes.

### Hard behaviours

* A push decides which objects to leave out of its pack on one version of the
  index and publishes over another; compaction and deletions come in between.
* A compare-and-swap may land and lose its answer.
* The maintenance job compacts and sweeps in one run, two runs may overlap, and
  the age of a pack says when it was uploaded, not when it stopped being named.
* Leases lapse under workers that are alive; the token that fences them must
  survive the reset of the attempt counter by a push or an operator.
* The metrics flusher writes to the ref and to its index beside the workers.
* On Postgres, rows become visible in no order of their ids, and a claim judges
  a snapshot.
* A collection decides on one reading of the database and deletes from the
  bucket, which is in no transaction; whoever names an object meanwhile skips
  publishing what an index says is there.
* Every replica flushes the same buffer into the same chain of files, and a
  flush guards only the file it reads.
* A request outlives the client that gave up on it, and a client outlives
  requests, spilling to disk what it could not deliver. A flush goes out in
  chunks, each of which may be accepted, fail, or be refused for good.
* Two transactions on members, accounts or transfers each read what the other is
  about to change; row locks order them, and locks taken in two orders would
  make them wait for each other. What a handler checked before its transaction
  may be false inside it, and a request to transfer is accepted days later.
* A local copy is written from three sides: materialisations and API commits
  under a lock, `receive-pack` without it. An API commit moves the local ref
  before the log has accepted it, a git push after, and a copy at the current
  generation is never looked at again. A branch is created at a commit that was
  looked up before the copy was last materialised.

`PROJECT.json` lists every such hazard at its line with the properties that
cover it, or with the reason why none does.

## 2. Modules

| module | models | runs |
|---|---|---|
| `GitRefs` | commits, what they reach, refs, updates of several refs; `checkPreconditions`, the ref half of `apply`, `pack-objects` | through `Wal` |
| `WalIndex` | `index.json` and its pure functions: `packStillValid`, `plannedUpdates`, `apply`, `referencedKeys`, the order of application | through `Wal` |
| `RefStore` | abstract: one map of refs moved by whole, checked updates | `wal_live` |
| `Wal` | the log of one repository: pushes, maintenance runs, materialisations | `wal_*` |
| `WalInv` | the inductive invariant | `wal_push` |
| `WalIndexProofs` | facts about packs, reachability and index documents, for the proofs about the log and about copies of it | - |
| `WalProofs` | theorems about `Wal`, the refinement of `RefStore` among them | - |
| `MCWal` | instances of `Wal` | `wal_*` |
| `LocalCopy`, `MCLocalCopy` | one instance's bare repository and state file: materialisation, API writes and git pushes with their rollbacks, adoption, eviction, crashes; other instances as pushes to the log | `copy_*` |
| `SyncQueue` | queue, workers, sweeper, flusher around one ref | `work_safe`, `server_live`, `queue_race` |
| `Webhooks` | subscriptions of a namespace and their delivery queue | `storage_safe`, `server_live` |
| `BlobStore` | `blobs/`, the indexes that name them, the deletion ledger, `gc` | `storage_safe`, `server_live` |
| `LfsStore` | staging, promotion, links, quota, the LFS passes of `gc` | `storage_safe`, `server_live`, `lfs_ghost` |
| `MetricsChain` | ingest, the flushes of several replicas, the chain of parquet files, its index | `work_safe`, `server_live`, `flush_twice` |
| `RunDelivery` | the Python shim, run directories, `tf experiments sync`, the ingest handlers | `work_safe` |
| `Registry` | accounts, organisations, repository names, redirects, transfers: handlers, and PostgreSQL transactions with their row locks | `storage_safe` |
| `RegistryInv` | the inductive invariant of `Registry` | - |
| `LocalCopyProofs`, `SyncQueueProofs`, `RegistryProofs`, `ChainProofs`, `DeliveryProofs` | theorems about `LocalCopy`, `SyncQueue`, `Registry`, `MetricsChain`, `RunDelivery`, and the invariants they need | - |
| `StorageProofs` | theorems about `Webhooks`, `BlobStore` and `LfsStore`, and their invariants | - |
| `MCStorage` | instances of `Webhooks`, `BlobStore`, `LfsStore`, `Registry` | `storage_safe`, `lfs_ghost` |
| `MCWork` | instances of `SyncQueue`, `MetricsChain`, `RunDelivery` | `work_safe`, `queue_race`, `flush_twice` |
| `MCServer` | both, with fairness | `server_live` |

`MCStorage`, `MCWork` and `MCServer` put several components into one run. The
components share no variable, so their interleaving would show nothing that each
does not show alone: the first state of a behaviour picks the component it is of
(`storagePart`, `workPart`), the others stay in their initial states, and the
states of the run are the sum of the components' and not the product. In
`MCServer` a fairness condition names one action of each of several components;
in a behaviour of one of them it says what that component's module states
(`HookFairness`, `BlobFairness`, `LfsFairness`, `Fairness`), and
`InstanceAssumption` checks that every actor of the instance is named.

### Correspondence: `Wal`

| model | code |
|---|---|
| `revs[g]`, `Generation` | contents of `index.json` at generation `g`; 0 is "no object" |
| `content[p]`, `stored` | packs by order of upload; a pack is the set of commits whose objects it carries |
| `aged` | uploads so far older than `minAge`: age follows upload order |
| `push[p]` | the locals of `pushToIndex`, `pushOnce`, `updateIndex`: `basis` and `exclude` from the first read, `gen` from the attempt's read, `tries` and `rounds` the two loop counters |
| `PushPlan`, `PushUpload`, `PushCheck`, `PushPut` | one step per storage call: read and pack, upload, re-read and check, conditional write |
| `PushPutUnanswered`, `PushError`, `MaintError` | the write landed and the answer was lost; a call failed |
| `job[m]` | the locals of `CompactAndSweep`: `seen` is what `protectAlso` is taken from |
| `MaintBegin` ... `MaintDelete` | read, materialise in a scratch directory, fetch packs, upload the base, publish, list, re-read and decide, delete one by one |
| `reader[r]` | an instance rebuilding its copy; `fresh` is a history variable: no maintenance run began since it read the index |

Objects are abstracted to the commits that introduce them: `Reach[c]` is
`rev-list c`, a pack carries `Reach(want) \ Reach(exclude)`. Which tips the
pushing copy can resolve, and so exclude, is a choice over every closed copy
that has what the push needs.

### Correspondence: `LocalCopy`

| model | code |
|---|---|
| `index`, `generation`, `content` | the log, replaced in one step: what `Wal` is proved to be |
| `copy` | the directory: is it a repository, its objects, its refs, `thinkingface-wal-state.json` |
| `lock` | the mutex of `lockFor(dir)`, with the locals of the `MaterializeWith` or `AdoptIfConverged` that holds it |
| `writer[w]` | a write request of this instance (`Local`) or a push of another (`Remote`), from `EnsureLocal` to the adoption |
| `EnsureHit`, `EnsureAlarm`, `MatBegin` | the read of the index: cache hit or nothing to do, `ErrIndexMissing`, something to apply |
| `MatRecreate`, `MatApply`, `MatDelete`, `MatUpdate`, `MatStamp` | `recreateBare`, `applyPack`, the two transactions of `writeRefs`, `writeLocalState` |
| `Commit`, `DeleteRef` | `Repo.Commit`, `Repo.DeleteRef`: the local ref moves first |
| `Resolve`, `CreateRef` | a branch is created: `resolveRev` finds its commit, on whatever copy there is; then `createRefThroughWAL` opens the repository again, which may rebuild it, and `Repo.CreateRef` sets the ref, without a look at the object |
| `copy.absent` | history: the commits a ref was set to while the directory did not hold them |
| `Receive`, `Move`, `MoveFails` | `receive-pack` before and after its hook: no lock, objects in a quarantine inside the directory |
| `Plan`, `Publish`, `PublishRefused`, `PublishFault` | `AuthoritativePush`: read and pack; re-check and replace; refuse or pack again; fail, landed or not |
| `Reset` | `ResetBranch`, or the rollback of `createRefOn`, `deleteRefThroughWAL`; then `commitThroughWAL`'s next attempt |
| `AdoptRead`, `AdoptStamp` | `AdoptIfConverged`: read the index, compare the refs, stamp |
| `Evict`, `Crash` | `evictDown`; the process dies, its disk kept (a volume) or lost (memory) |

The upload, the compare-and-swap and their retries, which `Wal` takes apart, are
one step here. That is what `AlwaysIntact` and `Refinement` permit: the index is
always complete, and it moves as a map of refs. The copies of other instances
are current, so their pushes can pack anything. `evictMinIdle` (ten minutes) is
taken to outlast every request, which is why `Evict` waits for idle writers.
Packs and refs are per commit as in `Wal`; a local write moves one ref; `HEAD`
is left out. A revision is any commit on the disk, for `Resolve` accepts full
ids. A ref whose object is missing can still be deleted or overwritten, but git
does not advertise it (`Advertised`), and no commit is made on top of it.
`RemoveAll` is one step unless a crash cuts it short. `Move` may fail at any
time, because the request that carries it may be killed. No claim rests on which
fresh commit is made: `NewCommits` picks one of those not yet made on the
parent.

### Correspondence: `SyncQueue`

| model | code |
|---|---|
| `history`, `indexed` | versions of the ref, each with the point batches it carries; the version `repo_files` describes |
| `rows` | the ref's `sync_jobs`: status, attempts, `claim_seq`, whether the lease is live and the backoff over |
| `EnqueueUpdate`, `EnqueueInsert`, `EnqueueCommit` | the two statements of `EnqueueSync`; on Postgres the row has its id before it is visible |
| `Claim`; `ClaimPick`, `ClaimCommit` | `ClaimSyncJob` on SQLite (one writer); on Postgres (sub-select with `SKIP LOCKED`, then commit) |
| `TakeLock`, `ReadTree`, `WriteIndex`, `Fail` | `processPush` and the pipeline: lock, read, replace the index, fail anywhere |
| `Finish`, `Heartbeat`, `Sweep`, `RetrySyncJob`, `BackoffElapses` | the other statements of `jobs.go` and the clock |
| `Lapse` | a lease runs out, whether its worker is dead or late |
| `Flush...` | `FlushProject`: lock if free, commit, re-read, replace the index, delete the points |
| `Crash` | a replica dies: its workers and flusher are gone, its leases stay |

`EnqueueCommit` changes the status `"inserted"`, which stands for a row in an
uncommitted transaction and has no counterpart in the table.

### Correspondence: `Webhooks`

| model | code |
|---|---|
| `delivery[i]` | a `webhook_deliveries` row; `due` is `next_attempt_at <= now()` |
| `ListMatchingWebhooks`, `CreateWebhookDelivery`, `FireAborted` | `Fire`: the list, then one insert at a time, the loop ended by the first that fails |
| `ClaimWebhookDelivery` | one transaction: park what is spent, claim the first due row |
| `Deliver`, `FinishWebhookDelivery`, `OutcomeLost` | the POST; the update fenced on `attempts`; a worker that dies |
| `RedeliverWebhookDelivery`, `UpdateWebhook`, `DeleteWebhook` | the handlers of `api/webhooks.go` |
| `AttemptDue` | a lease or a backoff runs out |
| `recorded` | history: per row, the latest attempt whose outcome was written |

### Correspondence: `BlobStore`

| model | code |
|---|---|
| `tree`, `files` | the blobs of a ref's tip in git, and of its `repo_files` |
| `bucket`, `ledger`, `held` | `blobs/` objects; `blob_deletions` rows, old or not; rows locked by a transaction |
| `ReadBlobTree`, `PublishBlob`, `ReplaceRepoFiles`, `RepairDeletedBlobs` | `runPushPipeline`: what the previous index covers is not published again; the repair pass closes the job |
| `PublishAhead` | the viewer and the experiment indexer publish what they read |
| `ListBlobs`, `OrphanedBlobs` | `gcBlobs`: the bucket, then the references |
| `RecordBlobDeletion`, `ClaimBlobDeletion`, `RemoveBlob`, `CommitBlobDeletion` | `DeleteOrphanedBlob`: intent, re-check under the row's lock, removal, commit |
| `PruneBlobDeletions`, `LedgerAges` | old rows are forgotten; a day passes |
| `overlap`, `repaired` | which pipelines a day is sure to outlast; history: refs repaired since their index was replaced |

### Correspondence: `LfsStore`

| model | code |
|---|---|
| `staged`, `lfs` | `tmp/uploads/` with its generation; `lfs/` objects and whether they hash to their name |
| `lfsRow`, `claimed`, `link` | `lfs_objects`; rows a collector's transaction holds; `repo_lfs_objects` and `committed_at` |
| `Batch`, `Dedup` | `batch` for an upload of bytes that are there: check, then link |
| `PutStaged`, `PromoteStaged`, `ConfirmDigest`, `PublishStaged`, `RecordPromoted`, `DeleteStaged` | the signed URL, and `promote.go` from `verify` on, every step pinned to a generation |
| `VerifyCommitLFSFile`, `CommitLands`, `StampCommit` | an API commit that names an object |
| `ReadPointers` ... `PruneRepoLFSLinks` | the LFS part of a repository's sync job, quota included |
| `ListLfs` ... `DeleteLfsRow`, `GcStaging` | `gcLFS` and `gcStaging` |
| `torn` | history: objects whose collection died between bucket and row |

### Correspondence: `MetricsChain`

| model | code |
|---|---|
| `buffered`, `owner` | `exp_points`; the run a point was logged under. A point is its row id, which is its ingest id in parquet |
| `chain[n]` | the ids in part `n`; `Oversize` is a file pushed by hand with more rows than a flush rebuilds |
| `UpsertRun`, `InsertPoints`, `CountPoints` | `POST /log`, one statement each |
| `FlushList`, `ResolveMetricsTarget`, `ReadExisting`, `CommitFlush`, `DeletePoints` | `FlushProject`; its own index is the steps of a job in between |
| `BeginJob`, `IndexChain`, `ScanChain`, `PruneRuns` | `runPushPipeline` and `IndexRepo`, reading the chain at the head |
| `PushToChain`, `DeleteExpRun` | users: delete or replace a file, delete a run |
| `BlockLapses` | `flush_blocked_at` is an hour old |

### Correspondence: `RunDelivery`

| model | code |
|---|---|
| `shim` | the run object of `trackio/__init__.py`: buffer, what the flush under way has not got accepted yet, `_send_lock`, how far `finish()` is, its spill directory; `dropped` is history: the points it has warned of dropping |
| `lines[d]`, `syncState[d]` | `run.jsonl` and `sync-state.json` of a directory |
| `calls` | requests the server has not finished; `awaited` says whether the client still listens |
| `LoadRun`, `UpsertStatus`, `InsertBatch`, `UpsertCounters` | the statements of the log and finish handlers |
| `FlushBuffer`, `Ping`, `FinishRun`, `DrainFlush`, `EndDrain`, `PostFinish`, `CloseSpill` | `flush`, `_maybe_heartbeat`, `finish` and `_drain_for_finish` |
| `LateTick` | the flush of a timer that `_on_timer` armed while `finish()` cancelled the one before |
| `Chunk`, `Sent`, `NextChunk`, `PutBack`, `Dropped` | `_send`: chunk after chunk under one lock; a failed one goes back with the rest (`_requeue`), one refused for good is dropped with the rest |
| `Spills` | `_spill_points`: the directory is made on first use, and a disk may refuse it, or a line of it |
| `OpenDir` ... `WriteDone` | `syncDir`: the name on disk before anything is sent, the cursor after each answer |
| `LoseCall`, `TimeOut`, `RefuseCall`, `ShimDies`, `SyncerDies` | a lost call, an abandoned one, one refused for good (a 4xx, or a body that is no JSON), killed processes |

### Correspondence: `Registry`

| model | code |
|---|---|
| `org`, `role`, `siteAdmin`, `shut` | `namespaces` of kind `org`, `org_members`, `users.is_admin`, the columns that close an account |
| `place`, `archived`, `redirect` | `repositories` with namespace and name; `archived_at`; `repo_redirects` by the name they stand at |
| `request` | the rows of `repo_transfers` that were ever pending; `lapsed` is `expires_at` in the past |
| `call[s]`, `rowLock[s]` | a request that has passed its handler's checks, how many of its locking statements are done, and the row locks of its transaction |
| `Statements`, `Finds` | per store function, what each statement locks, and what it must find for the transaction to go on |
| `Statement`, `TurnedDown`, `RolledBack` | one more statement; the function returns early, perhaps writing the request's new status; the transaction is lost |
| `SetOrgMember`, `SetAccount`, `TransferRepo`, `AcceptRepoTransfer`, `CreateRepoTransfer`, `DecideRepoTransfer`, `DeleteOrg`, `CreateRepo`, `DropRepo` | the commits |
| `RepoMade`, `RollbackCreateRepo` | the rest of `createRepo`, or its undoing after the row is committed |
| `AskMember` ... `AskDeleteRepo` | the handlers: role checks made before and outside the transaction |
| `CreateOrg`, `AddOrgMember`, `SetRepoArchived` | calls that are one statement, or that nothing can interrupt |

An organisation that is deleted stays deleted: one made later under the same
name is another element of `Orgs`, and a redirect left at a deleted one is what
a later owner of its name would inherit. Repositories are of one kind: names,
redirects and transfers are per kind, so two kinds never meet. The accepted row
that an immediate move leaves for the audit is not kept; redirects, lineage and
the webhooks of a repository are written under the repository's lock and take no
part in the ordering. The role `read`, which allows none of these calls, is left
out. A `PATCH` of several fields is several calls, as it is in the code. Both
gates of an account go through `setUserGate`; the instance has one of them.

## 3. What the runs check

| run | instance | question |
|---|---|---|
| `wal_push` | 2 strict pushers, 1 maintenance run, 1 reader, 2 refs, 3 commits in a line, a new log or one pushed to | `TypeOK`; `IndexIntact`: can the published index always be materialised? `ReaderGrace`: does a reader keep its packs until another run begins? `IInv`: is the invariant of the proofs true of reachable states? |
| `wal_live` | 2 contending pushers, 1 maintenance run, 1 fault or lost answer, fairness | `ImplementsRefStore`: is the log an atomic map of refs? `PushesAnswered`, `OrphansCollected` |
| `copy_calm` | 1 branch, 2 local writers (commit, push), 1 elsewhere, no rewinds, evictions, a compaction, a fault, fairness | `TypeOK`; `CopyIntact`: does a copy that would be continued hold what its refs reach? `QuietCopyAgrees`: at the current generation and at rest, are its refs the log's? `CatchUpApplies`: does every pack find what it builds on? `CopyConverges`: do reads bring the copy back to the log, again and again? |
| `copy_rough` | 2 branches, 1 local writer (commit, create, delete, push) and 1 elsewhere with deletions and forced moves, a compaction, a fault, a crash with either disk | `CopyIntact`, with the commits excepted that a ref was set to while they were absent |
| `storage_safe` | see below | `StorageTypeOK`; webhooks: `VerdictIsLastAnswer`; blobs: `LossesRecorded`, `RepairedRefsServe`; LFS: `ContentAddressed`, `LinksServe`, `CommittedLinksStay`; accounts and names: `AdminsRemain`: can concurrent changes remove the last administrator? `NamesLead`: do redirects and requests ever lead astray? `AcceptedWithAuthority`: is a transfer completed after its requester lost the right to it? `NoLockCycle`: do transactions wait for each other? |
| `work_safe` | see below | `WorkTypeOK`; queue: `ClaimsAlone`, `DoneIsIndexed`, `ChartKeepsPoints`; chain: `PointsKept`, `PointsOnce`, `PruneOnlyGhosts`; delivery: `PointsSurvive`: is every point of a living shim somewhere, or among those it reported as dropped? `SyncStateHonest`: does `sync-state.json` ever claim what the server has not heard, or change runs? `FinishedUnlessLate`: does a finished run stay finished, if no client gave up on a request and no late timer found points? |
| `server_live` | see below, fairness | queue on Postgres: `EveryJobSettles`; `DeliveriesSettle`, `UnnamedBlobsGo`, `LostBlobsReturn`, `StrandedBytesGo`, `BufferDrains` |
| `queue_race` | Postgres, 2 processes | a violation of `ClaimsAlone`, see section 6 |
| `copy_refs` | 2 branches, deletions here and elsewhere | a violation of `QuietCopyAgrees`, see section 6 |
| `copy_adopt` | 2 branches, pushes with rewinds, 2 of them elsewhere | a violation of `CatchUpApplies`, see section 6 |
| `lfs_ghost` | `LfsStore` as in `storage_safe` | a violation of `LinkedObjectsExist`, see section 6 |
| `flush_twice` | `MetricsChain` with 2 replicas and no failure | a violation of `PointsOnce`, see section 6 |

Each property's comment in its module says what it means and for which code.

`QuietCopyAgrees` and `CatchUpApplies` hold where branches only grow and are not
created or deleted through the API (`copy_calm`), and fail where they are
(`copy_refs`, `copy_adopt`); that is also what separates the bounds of
`copy_calm` and `copy_rough`. `CopyIntact` does not speak of a copy that the next
materialisation would rebuild anyway, nor of a commit in `copy.absent`: one that a
creation, or the undoing of a refused deletion, set a ref to while the directory
did not hold it. This happens (section 6); `copy_rough` and `CopyStaysIntact` show
that nothing else leaves a hole, and that it does not spread: the log, and a copy
rebuilt from it, lack nothing. Without creations and
deletions through the API, as in `copy_calm`, the exception is empty.

`PointsSurvive` counts among the safe points those the shim said it was dropping.
There are two ways to that, and both are in the code's own words: the server
refuses a batch for good, which drops the chunks behind it as well, or the disk
does not take what should be spilled. `work_safe` has both, in every order with
lost calls, overflows and `finish()`. `FinishedUnlessLate` excepts the two cases
of section 6.

`ClaimsAlone` is checked on SQLite, where it holds, and on Postgres, where it
does not. `DoneIsIndexed` and `ChartKeepsPoints` are about one process: between
processes the code has no ref lock, and a straggler of another replica can write
an older index until the next job of the ref re-reads it. `PointsOnce` is about
one replica for the same reason, and about at most one interrupted flush or job:
with `MaxFlushFailures` 2, TLC finds it violated by two interruptions around a
rotation, the finding of `flush_twice` in another order.

`LinksServe` and `LinkedObjectsExist` differ by one case, the collection that
dies between the bucket and its commit; `storage_safe` shows that nothing else
breaks the second.

`NoLockCycle` leaves the deletion of an organisation out. With it the property
fails: an accept holds the request and wants a key-share lock on the
destination, the deletion of that (empty) destination holds its row and cascades
to the request. PostgreSQL then aborts one of the two, which the model has as
`RolledBack`; the comments promise an order between accepts and moves only.

The liveness properties are of the form "once no more come, every one in the
end ...": `<>[]` of a state that is quiet. Within bounded arrivals this is the
same as a leads-to from each arrival, and TLC checks it on larger instances.

### Bounds, and why they are enough

* Three commits in a line and two refs: the hazard of leaving objects out needs
  an object only one branch holds, a second branch that is deleted, and a push
  that builds on the deleted branch's commit.
* Two pushes over a behaviour: every race of the log is between one push and one
  other writer, a push or a maintenance run.
* `MaxCASAttempts` is 2 where the code has 5: the loops have a first attempt, a
  further one and an end, and each is reached.
* `Threshold` is 0 where the default is larger, so that every entry warrants a
  compaction; maintenance runs are not bounded in number.
* `MaxFaults` bounds failures: none in `wal_push`, where every interleaving of the
  steps themselves is the question, and one, of any call, in `wal_live`.
* `SyncMaxAttempts` is 2: first claim, last claim, parked. Lapses, sweeps,
  failures and crashes are unbounded; rows are bounded by `MaxPushes`.
* Two pushes let the second find the first pending, running, done, parked or
  still uncommitted. Fencing needs a lapse, a sweep, a push that resets the
  attempts and a second claim, all within these bounds.
* `MaxAsked` bounds the write requests here and elsewhere: 2 in `copy_calm`, where
  two API commits chain on a branch while a fault refuses the first, or one of
  them races a write elsewhere; 3 in `copy_rough`, where a
  commit has to appear, be looked up and be forced away, 4 in `copy_adopt`.
  `MaxAttempts` is 2 where the code has 3. Five commits, a root and two lines on
  top of it, leave every branch something to diverge to.
* One compaction forces a rebuild in the middle of anything; one fault, and in
  `copy_rough` one crash, strike every step. Deadlock is not checked in `copy_*` and in the runs of
  several components: requests are bounded, and a system nobody uses may rest.
* `storage_safe`: 2 webhooks and 2 dispatchers, 2 attempts where the code has
  more, 2 rows (an event's own, or one and its redelivery), 1 edit of a webhook;
  2 refs, 2 blobs and 2 pipelines, so that a blob goes from one ref and comes
  with another while a collection (1) takes it, 2 pushes or deletions, 1 failure;
  2 repositories that share 1 object under a quota of 1, so that the second link
  does not fit, 1 request at a time, 2 uploads to staging, 2 pushes, commits or
  deletions, 1 failure. Leases lapse and grace periods pass at any time. 2 users,
  1 organisation and 1 personal namespace, 2 repositories and 2 names, 2
  sessions, 2 requests: every pair of transactions, started from any tables
  earlier calls may have left (`RegistryInit`, with requests already pending, so
  that an accept and a change of roles are the two), except that each repository
  starts under a name of its own and that the requests pending keep the names
  and cross (`OwnNames`). Losing an administrator, a stale accept and a lock cycle each take two
  transactions.
* `work_safe`: 2 workers of 1 process, 2 pushes, 1 batch of points, 1 operator
  retry; 2 runs, 3 points and files of 2 rows, so that the third forces a
  rotation, 1 interrupted flush, 1 file or run removed by a user; the shim with
  a buffer of 1 and 2 points, so that a failed batch overflows it, chunks of 1
  (`PerRequest`), so that a flush of both points is two requests, 1 heartbeat,
  1 offline directory of 1 point that asks for the name the shim has, 1 mishap.
  The clients come twice (`InDelivery`, `InShim`): all of them with that one
  mishap, and the shim alone, without heartbeat, death or replay, with 2 mishaps
  and 1 refusal (`MaxRefusals`), by the server or by the disk. Two mishaps put
  points back behind `finish()`: one for its own flush and one for the timer's.
  There is at most one late timer.
* `server_live`: 2 processes with a worker each, 2 pushes; 1 of each other actor,
  2 deliveries, 3 pushes or deletions of 1 blob (named, gone, named again), 1
  upload, 1 failure of each component.

Symmetry is used for pushers, maintenance runs, writers, refs, blobs,
repositories and sessions in safety runs only; the properties do not tell them
apart.

### Fairness

* `Wal`: weak fairness of each push's own steps (a push is a running request),
  of each maintenance run (a scheduled job), and of `Age` (time passes). Faults
  and arrivals are left to chance.
* `SyncQueue`: weak fairness of the sweeper's ticker, of time (backoff, the
  lease of a claim no worker works on) and of the pipeline's steps. Strong
  fairness of claiming and of taking the ref lock: a worker polls, so it is
  disabled again and again while siblings run; the ref lock is a Go channel,
  which serves waiters in turn; crashes do not strike every claim. Pushes,
  failures, lapses under live workers and crashes have no fairness.
* `LocalCopy`: whoever holds the lock goes on (weak fairness of its steps); Go's
  mutex does not starve who waits, so what needs the lock has strong fairness:
  the reads that keep coming, and each request's next step. Pushes to the log
  take their steps. Requests, compactions, evictions, faults and crashes are
  left to chance.
* `Webhooks`: a worker polls every fifteen seconds and a POST times out, so each
  dispatcher goes on, if only by losing its outcome; leases and backoffs run out.
* `BlobStore`: the queue retries a pipeline, and a transaction that waits for a
  row gets it. `gc` runs on a schedule, and an object that stays is in the end
  older than its grace period: strong fairness of the listing that sees all of
  the bucket, weak fairness of the collection's other steps.
* `LfsStore`: requests and sync jobs go on; the collection as above.
* `MetricsChain`: a replica's flusher and workers go on, and a block lapses.
  Users, ingest requests and failures have no fairness. `RunDelivery` claims no
  liveness: a client may never run again.

## 4. What is proved

Each theorem holds for every number of actors and items and every value of the
bounds that its module's named assumptions admit. Those assumptions ask for
natural numbers, for different names to be different values, for the earlier
contents of a log to be complete, and where a proof counts, for finite sets
(`Users`, `OfflineDirs`); the hypotheses beyond that are in the table, and what
each stands for is said below it. Every safety property of a passing run is the
conclusion of one of them, but for `StorageTypeOK` and `WorkTypeOK`, which join
the type invariants of several components.

| module | theorem | statement | hypotheses |
|---|---|---|---|
| `WalProofs` | `Invariance` | `Spec => []IInv` | |
| | `TypeCorrect`, `AlwaysIntact`, `GraceHolds` | `[]TypeOK`, `[]IndexIntact` under either policy, `[]ReaderGrace` | |
| | `Refinement` | `Spec => ImplementsRefStore` | `Policy = "strict"` |
| `LocalCopyProofs` | `CopyTypesHold` | `Spec => []TypeOK` | |
| | `CopyStaysIntact` | `[]CopyIntact` | |
| | `CatchUpsApply` | `[]CatchUpApplies` | `Work \subseteq {"commit", "push"}`, `~Rewinds`, `HistoriesLinked` |
| | `QuietCopiesAgree` | `[]QuietCopyAgrees` | `Work \subseteq {"commit", "push"}`, `~Rewinds`, `"kept" \notin Disks`, `HistoriesLinked`, `Acyclic` |
| `SyncQueueProofs` | `TypeCorrect` | `Spec => []TypeOK` | |
| | `AlwaysAlone` | `[]ClaimsAlone` | SQLite |
| | `DoneVouches` | `[]DoneIsIndexed` | one replica |
| | `ChartNeverLoses` | `[]ChartKeepsPoints` | one replica |
| `RegistryProofs` | `TypeCorrect`, `AlwaysAdministered`, `NamesAlwaysLead`, `AcceptsWithAuthority` | `RegistrySpec =>` the types, `[]AdminsRemain`, `[]NamesLead`, `AcceptedWithAuthority` | |
| | `LocksOrdered` | `[]NoLockCycle` | |
| `ChainProofs` | `ChainTypeCorrect`, `NoPointLost` | `ChainSpec => []ChainTypeOK`, `[]PointsKept` | |
| | `OnlyGhostsPruned` | `PruneOnlyGhosts` | one replica |
| | `OnceUnlessTwice` | `[](flushFailures <= 1 => PointsOnce)` | one replica |
| `DeliveryProofs` | `DeliveryTypeCorrect`, `NoPointDropped`, `CursorHonest`, `FinishedKeeps` | `DeliverySpec =>` the types, `[]PointsSurvive`, `[]SyncStateHonest`, `[]FinishedUnlessLate` | |
| `StorageProofs` | `HookTypeCorrect`, `VerdictStands` | `HookSpec => []HookTypeOK`, `[]VerdictIsLastAnswer` | |
| | `BlobTypesHold`, `BlobLossesRecorded`, `BlobRepairedRefsServe` | `BlobSpec => []BlobTypeOK`, `[]LossesRecorded`, `[]RepairedRefsServe` | |
| | `LfsTypesHold`, `LfsContentAddressed`, `LfsLinksServe`, `LfsCommittedLinksStay` | `LfsSpec => []LfsTypeOK`, `[]ContentAddressed`, `[]LinksServe`, `CommittedLinksStay` | |

The hypotheses are where the code's promise ends: without any one of them TLC
finds the property violated, except for `HistoriesLinked` and `Acyclic`.

* `Policy = "strict"`, the log as authority: a mirrored push writes what the disk
  has, whatever the index says.
* SQLite: on Postgres `queue_race` violates `ClaimsAlone`.
* One replica: the ref lock is one per process, so between replicas a straggler
  may write an older index, a pruning job may have read the chain before another
  replica's flush, and `flush_twice` writes points twice. In `SyncQueueProofs`
  that one replica has any number of workers.
* `flushFailures <= 1`: see section 3. The number of interruptions the system may
  meet is not bounded; the theorem speaks of the states before the second.
* `~Rewinds`: branches only grow. `copy_adopt` violates `CatchUpApplies` without it;
  `QuietCopyAgrees` fails with `MaxAsked = 3` in the instance of `copy_calm`.
* `Work \subseteq {"commit", "push"}`: no branch is created or deleted through the
  API of this instance. `copy_refs` violates `QuietCopyAgrees` with deletions here
  and elsewhere; the rollback of a creation is unconditional in the same way, and
  `Work = {"create"}` violates it too. For `CatchUpApplies` it is what the proof
  uses: a deletion here is a rewind, and a ref set to an absent commit is no
  evidence that the copy has what the log builds on.
* `"kept" \notin Disks`: a crash between an API commit and its push, on a disk
  that survives, leaves the branch ahead of the log (section 5).
* `HistoriesLinked`: the log the repository had to begin with can be applied from
  nothing. A log written by pushes that only grow branches can.
* `Acyclic`: two commits that reach each other are one; commit names are hashes of
  what they reach. No run looks for a cycle, since there are none.

The invariants were tried with TLC on the instances of their components, and on
larger ones, before they were proved, `IInv` in the run `wal_push`.

### `Wal`

**Assumptions.** `GitAssumption` (reachability is reflexive and transitive),
`WalAssumption` (a repository's earlier log is complete), and the guard of `Age`:
`minAge`, 24 hours, outlasts the window between a push's upload and its
compare-and-swap, and one maintenance run. The code bounds the former by
`walPushTimeout` and the latter by the schedule of the job.

**The argument.** `IndexIntact` is not inductive: a push publishes packs whose
fate the published index does not determine. `IInv` adds

* `HistoryComplete`: every version the index ever had was complete. Packs are
  immutable, so this outlives the sweep, and it is what a push relies on when
  it excludes tips of the version it was packed against.
* `PushInv`: what a push has uploaded is stored and too young to be swept, and
  carries all that its excluded tips do not; when it is about to write, its
  expectations and its basis hold of the version it will replace.
* `JobInv`: names published since a run began are young, so a run deletes only
  aged packs named by neither the current index nor the one it began with.
* `ReaderInv`: what a reader has still to fetch was named when it read, so it is
  in every running job's protected set or younger than the job.

The step that carries the weight is `PushWins`: the new index is complete
because each object the pack left out is held either by the entries of the basis,
all of which are still named (`HasPrefix` and the same base), or through a tip
that is still a ref (the current index is complete). `MaintDeleteKeeps` and
`AgeKeeps` hold because what is unpublished is young and what is doomed is not
named.

The refinement maps a won compare-and-swap to `Commit` and everything else to a
refusal or a stutter. A lost answer is a `Commit` that stays pending: the second
attempt then finds the values moved and refuses, or finds that they still hold
only because another push put them back.

### `LocalCopy`

The log is one variable here, so what it promises (`AlwaysIntact`, `Refinement`)
is used and not proved again: its entries carry all its refs reach. On top of
`TypeInv` there are three layers, each for one theorem.

* `CopyInv`, for `CopyIntact`. The directory is complete (`CopySound`): its objects
  are closed, and it has the tips of its refs and of its state file, to which a
  refused commit is rolled back, but for those set while they were absent; or it is what a crash left of a removal, which
  the next holder of the lock rebuilds before any request gets past it
  (`CutShort`). The state file is never ahead of the log, and says what the index
  says when it is level with it (`StateCurrent`, `LockCurrent`). A quarantine
  counts together with the copy it will go into (`QuarantinesFit`), which is why a
  push may be received without the lock; the second ref transaction of a
  materialisation relies on what the first was given (`ListedThere`).
* `CatchUpInv`, for `CatchUpApplies`. The log can be applied from nothing, and
  from the copy onwards (`LogApplies`, `CopyResumes`); so can what a
  materialisation has left, whatever is appended meanwhile (`TodoApplies`), and
  what lies behind an index an adoption has read (`AdoptedResumes`). This is where
  branches must grow: what a pack leaves out then stays reachable
  (`WritersForward`), so a copy with the refs of an index has what later packs
  build on, whichever packs it has.
* `AgreeInv`, for `QuietCopyAgrees`. At the current generation each ref is where the
  index has it, or a commit that is still in flight put it there (`RefsAgree`). A
  rollback is safe because a value the log refused is never made again
  (`RefsMade`, `WritesMade`), and a `receive-pack` that comes late finds its old
  value gone, since the log is already past it (`PushesMove`, `MovesPast`). What a
  materialisation does not write is as in the index it read, unless a write that
  is in flight has changed it (`MatAgrees`).

### `SyncQueue`

`TypeInv` and four small invariants, each as strong as its theorem needs.

* `AloneInv`: on SQLite a claim is one step, no worker is ever between its pick
  and its commit, so a row becomes running only while no sibling runs.
* `DoneInv`: writers of the index take turns (`Serial`, the ref lock), so what one
  is about to write is not older than what is there (`Fresh`) and the index never
  goes back. A row's `claim_seq` only grows (`TokensGrow`), so a worker whose
  token is still the row's has lost its claim to nobody; what such a worker has
  read, and then written, is new enough for the row (`Vouched`), and only such a
  worker can mark it done.
* `ChartInv`: versions carry ever more points (`VersionsGrow`), and a flush that
  is about to delete points has committed them and re-indexed (`FlushCarries`).

### `Registry`

`RegistryInv` says what the locks are for. Locks that clash are never held
together (`LocksExclude`), and what a transaction writes others see when it
commits. Each call has a guard: what its statements have found is still true,
because whoever would make it false must hold a lock that clashes with one the
call holds. So the proof has three parts: every step keeps the guards of the
*other* sessions (the lemmas `...Kept`); a statement establishes the next part
of its own session's guard (`...Advances`); and, with the guard as the only
thing known about the past, each commit leaves an administrator and names that
lead to one repository (`AdminsStep`, `...Names`). `CreatesApart` says
that a repository is made by one request, so its name is set once;
`RedirectsSingle` restates, without counting, that a redirect leads to one
repository. `AcceptedWithAuthority` is the guard of the accept at its commit.

For `NoLockCycle` the invariant also says which locks a call of each kind can
hold after so many statements (`LocksFit`). A circle would be a set of sessions
that each wait for another of the set. In it, nobody waits for a request:
whoever holds one has locked its repository before, as the one who waits has, or
is done. Nobody waits for a namespace: only a change of members and the deletion
of an organisation lock one exclusively, and the first is done after that lock
while the second is excepted. Nobody waits for a place, whose holder could then
only wait for one of these. So an accept in the circle has locked no account,
everybody waits at their first statement, holding nothing, and nobody is waited
for. The argument needs no order of locks as numbers, and no finite set of
sessions.

### `MetricsChain`

`ChainInv`: what a flush is about to commit contains the file it has read, so a
commit under the file's precondition takes no point out of the chain; and what a
flush is about to delete from the buffer is in the file it writes, in the chain,
or removed by a user (`Carries`). No step of another replica takes that away, so
`NoPointLost` needs no hypothesis on replicas. For `OnlyGhostsPruned`, `PruneInv`
adds that what a scan has found is still all the chain has when the prune comes
(`FoundAll`), which is where one replica is needed: no flush commits between the
two. A run whose points were counted has logged some (`CountedLogged`).

For `OnceUnlessTwice`, `OnceInv` follows the points that are in the chain and
would be written again (`Late`). Undisturbed there are none but between a commit
and its deletion. The first interruption leaves at most the points of one flush:
they are in one file, the one the next flush will read, because the chain goes
at most one part beyond the index (`Within`) and is followed to its end; and
they are among the oldest that are buffered, so that the next flush takes all of
them (`LateFound`) and finds them in what it reads (`WritesNew`). Newer points
and deleted runs leave the oldest the oldest (`OldestWithNewer`,
`OldestOfFewer`), which is what `FlushLimit` could break. A second interruption
can leave points of two flushes, in two files, of which the next flush reads one.

### `RunDelivery`

`DeliveryInv` rests on one fact: a client waits for at most one call, and its
own variables say which. For the shim (`ShimWaits`) the first chunk of the batch
it is sending is that call's; for a pass of `tf experiments sync` (`SyncWaits`,
`PassAt`) the call carries the lines between the cursor and `upTo`. A handler
past its insert has inserted its batch (`Inserted`). So an answer says what the
server has, and only then does the shim let go of the chunk or the pass move its
cursor (`OnDisk`); a call that fails changes neither. What the shim lets go of
otherwise it spills, or counts among the dropped (`NothingLetGo`). Directories
only grow and a finish record is the last line (`LinesEnd`), so a pass that saw
one has seen all. A name is on disk before anything is sent under it, hence
`OneRun`. `FinishedBy`: as long as no client has abandoned a request, every
request has a client that waits for it; the shim waits for nothing once it has
posted `/finish` and heard of it, unless a late timer finds points, and a
complete spill directory means the shim is done, so nothing that would set the
run back to running is under way.

### `Webhooks`

`HookInv`: an attempt is counted before it is made (`AttemptsCounted`), no two
dispatchers carry the same attempt of a row (`AttemptsApart`), outcomes on record
are of attempts before the current one (`RecordsBehind`). The update of a late
dispatcher is fenced by the attempt it carries, so the verdict of a row is that
of its last recorded attempt (`Verdict`).

### `BlobStore`

`BlobInv`: a ledger row that a collection holds has one holder and is recent, so
nobody prunes it (`RowsHeldOnce`). What an index names is in the bucket or has a
recent row (`IndexCovered`); so is what a pipeline has published, or skipped
because the previous index covers it, and then the pipeline was running when
the row was written, so that a day does not pass before its repair
(`PublishedCovered`). A collection about to remove a blob holds its row, and a
repair waits for the rows of its blobs that are held before it puts the objects
back, so no repaired index names the blob (`RemovalsUnrepaired`).

### `LfsStore`

`LfsInv`: a generation of `tmp/uploads/` is of one upload, so what was hashed is
what is copied, or the copy fails (`GenerationsPin`), hence `ContentAddressed`.
The collector's transaction holds the row it is about to delete, nothing links
to it (`ClaimsUnlinked`), every link has a row, and a row has bytes behind it,
or a collection died on it, or is about to delete it (`RowsBacked`).
`CommittedLinksStay` is a property of each step under that invariant.

### How the models were made fit to prove about

Nothing was weakened. `SyncQueue`, `MetricsChain` and `RunDelivery` extend the
community modules they had taken as local instances, whose operators a proof
could not name; a `CASE` over calls whose branches overlapped, or whose arms the
provers cannot read, became a disjunction, a conjunction of implications or an
`IF`; each component got a specification of its own (`HookSpec`, `BlobSpec`,
`LfsSpec`, `RegistrySpec`, `ChainSpec`, `DeliverySpec`) of the initial states and
steps the runs explore;
finiteness of `Users` and `OfflineDirs` and
the distinctness of the names of a point's writers are now stated.

## 5. Only model-checked, and not modelled

Liveness under fairness (`PushesAnswered`, `OrphansCollected`,
`EveryJobSettles`, `CopyConverges`, `DeliveriesSettle`, `UnnamedBlobsGo`,
`LostBlobsReturn`, `StrandedBytesGo`, `BufferDrains`) is out of the prover's
reach. The mirror policy of the log is covered by the theorems; the runs are
strict. Safety that no theorem states:

* `StorageTypeOK` and `WorkTypeOK` say of the component a behaviour is of that its
  variables keep their types. The type theorems of `StorageProofs`,
  `RegistryProofs`, `SyncQueueProofs`, `ChainProofs` and `DeliveryProofs` prove each
  part of it.
* The cases the hypotheses of section 4 leave out. `NoLockCycle` fails once
  organisations are deleted, and leaves them out itself.

Left out of the modelled parts, on purpose:

* `SyncQueue`: the pipeline's stages after the index is replaced are one success
  or failure here and in `BlobStore`, `LfsStore` and `MetricsChain` in detail;
  lineage and model cards are derived afresh from the tree on every run. Jobs of
  other refs, which the claim treats independently; the resync command, which is
  the code's repair for a push whose enqueue was lost.
* `Webhooks`: payloads, signatures, and the creation of webhooks, which adds one
  more of the initial ones. A deletion in the middle of `Fire` costs the webhooks
  behind it the event; deliveries are best effort, so no property forbids it.
* `BlobStore`: sizes and dry runs. A job parked for longer than the ledger keeps
  a row waits for its operator; `LedgerAges` excludes it and says so.
* `LfsStore`: every object has size one and every repository is of one
  namespace; multipart uploads are one body; downloads change nothing.
  The window between the check and the landing of a commit is in the model, and a
  link pruned in it is not restored; the grace of a week makes it improbable.
* `MetricsChain`: values and columns of points; several row ids stand for a
  file's rows. Summaries, artifacts, alerts and system metrics are reads, or one
  statement each.
* `RunDelivery`: retries inside one HTTP call are one call; artifacts. A refusal
  drops the batch with the chunks behind it whatever its reason, as in the code,
  where one chunk that is no JSON takes the others with it; that the points of a
  spilled record which cannot be encoded are left out of it, without a word
  (`_spill_points` ignores what `_append_log_record` returns), is not modelled, nor
  are lines torn by a crash. The
  configuration of a run, of which two concurrent log requests can lose a key to
  each other; a second pass over the same directory, which nothing excludes.
* `Registry`: profiles, the audit log, tokens, keys and sessions; sign-up, which
  adds one more user; lineage targets and the webhooks of a moved repository.
* Formatting, headers and logging everywhere.

The index of a deleted branch is dropped without the ref lock, and a pipeline
that read the tree before writes it back: `BlobStore` has both steps, and the
property "a deleted ref is not indexed" fails in it. Nothing in the code claims
it, so no run states it.

Hazards no property covers, each with its reason in `PROJECT.json`: an eviction
under a request that outlasts `evictMinIdle`, which `Evict` assumes away as the
code does; the link of a git push that is pruned between the landing of a commit
and its enqueue, or between the look at the queue and the prune; another
replica's flush between the scan of a chain and the prune of its runs, with which
`PruneOnlyGhosts` fails (it is checked and proved for one replica).

Three behaviours of local copies are known from the model and no run allows them.
A process that dies between an API commit and its push, on a disk that survives
(`Disks = {"kept"}`, `MaxCrashes = 1`), leaves the branch at a commit no index
has, at the current generation: `QuietCopyAgrees` fails. A removal that
fails half-way without a crash leaves refs that compare equal to the index over
missing objects, which an adoption then stamps: `CopyIntact` fails. An eviction
that dies half-way on a disk that survives is not modelled.

Not modelled:

* `Seed`, `Verify`, shadow mode and `Purge`: operator commands of the migration
  and of deletion; the last needs the identity of repositories over time.
* SSH and git transports: supervision of `git` and byte streams.
* HTTP handlers other than those above, sign-in and tokens, search, viewers: reads
  and single statements over the database, and parsing.
* The rest of `tf` and of the Python client, the frontend, infrastructure: user
  interfaces and deployment.

Most of the repository's lines are in these last three.

## 6. Disagreements found

`queue_race`. The comment on `ClaimSyncJob` says that looking for a pending
sibling of lower id closes the window in which an earlier claim has not
committed. It does when the uncommitted claim is of the lower id. On Postgres
two pushes that find no pending row both insert; ids come from a sequence but
the inserts commit in any order, so the higher id can be visible, and be claimed,
first. While that claim is uncommitted the lower id appears, and a second worker
sees it pending, with no running sibling and no lower pending one, and claims it
too. Both run. In one process the ref lock still takes them in turn; in two,
two pipelines replace the index of one ref at once.

`copy_refs`. The comment on `recordRefUpdate` says that a ref the log never
accepted must not survive its rollback, because no materialisation would repair
it. `ResetBranch` is written with care for that; the rollbacks of a creation and
of a deletion are not. Two instances delete the same branch; the other one wins;
a read here materialises the index without the branch; then the loser's rollback
finds no such ref and re-creates it, on a copy stamped with the current
generation. It is served until another write moves the generation.

`copy_adopt`. The comment on `AdoptIfConverged` takes equal refs as evidence that
the copy is what a materialisation would produce. Refs say nothing of an entry
whose branch has come and gone elsewhere: the copy is stamped with it and never
fetches it. A push packed while that branch existed leaves its objects out and
may be published all the same, and this instance then fails to apply it on
every read, until a compaction or an eviction. The log itself is intact.

`lfs_ghost`. The comment on `LinkLFSObjects` says that an object the table has
never heard of links to nothing, rather than producing a row that promises
bytes which are not there. A collection removes the bytes inside its transaction
and commits afterwards; when it dies in between, the row is back and the bytes
are not. The next sync job of a repository that names the object links to the
row, and that link keeps the row from ever being collected. An upload of the
same bytes mends it.

`flush_twice`. Two comments say that replicas racing on a project are resolved
by the path precondition of the commit and that a point is recognised instead
of being appended twice. Both are true of one file. Replica 2 lists points 1 and
2 and still has its target to resolve. Replica 1 writes them to part 0,
re-indexes, deletes them, and flushes point 3 into the new part 1. Replica 2
resolves part 1 as the active one, reads and guards nothing else, and commits 1
and 2 again, behind it. Nothing fails in this; one replica needs two
interrupted flushes around a rotation for the same result.

Four more were found with the same modules and have no run of their own.

`RefsHaveObjects` in `LocalCopy` fails with `Work = {"create"}`, `Rewinds`, 3
requests and 1 compaction, in a behaviour of 24 states. The comment on
`WriteTagObject` says that every write here puts the object before the ref,
because a ref naming an absent object is a broken repository, and the one on
`createTagRefThroughWAL` explains that a tag object and its ref need one `Open`,
since an `Open` in between may rebuild the directory. The commit a branch starts
at crosses just that: it is resolved under one `Open`, `createRefThroughWAL`
opens again, and `CreateRef` does not look. Another instance forces back the
only branch that had the commit, a compaction changes the base, the second
`Open` rebuilds the copy, and the new branch names an object that is not there,
on a copy stamped as current. The push that follows fails and the branch is
deleted again, unless the process dies on a disk that stays. The rollback of a
refused deletion does the same through the same `CreateRef`: a branch is deleted
through the API, the answer of the log is lost, a compaction follows, a read
rebuilds the copy without the branch's commit, and the rollback puts the ref
back (`Work = {"delete"}`, one fault).

`NothingStranded` in `RunDelivery` fails with two failed requests. The shim's doc
says that `finish()` never leaves points to sit in a buffer nothing will ever
flush again, and the comment on `flush` that an empty buffer means nothing is
unsent, because the lock is held across the drain. `_drain_for_finish` looks at the
buffer without the lock. The timer's flush, which waited for the lock while
`finish()`'s own flush failed, has drained the buffer by then; it fails after that
look and puts its points back. They are neither sent nor spilled, and
`PointsSurvive` counts them as kept, for that buffer is where they are.

`FinishedUnlessAbandoned` fails with the same two. The comment in `_on_timer`
admits that a timer may outlive `finish()` and says that it finds an empty buffer
and makes no request. It finds the points just left there, in the narrow window
where the failed flush's `_on_timer` still reads `_finished` unset, and its request
sets the finished run back to running. No request was abandoned.
`FinishedUnlessLate` is what holds.

`FinishedStays` fails as soon as `MaxMishaps` is 1. `keepsTerminalStatus` and the
comment on `flush` in the shim say that no `/log` lands after `/finish`. One whose
client timed out is still being handled, and sets a finished run back to running.

Observed while modelling `Registry`, and claimed otherwise by nothing in the code:

* `TransferRepo`, the immediate move, trusts what its handler read: it looks
  again under the lock at where the repository is, but not at roles, nor whether
  the repository was archived or moved meanwhile. The accept of a request looks
  at all of them.
* `transferMove` does not map a unique violation to a conflict: two moves to one
  free name end with one answered 500.
* The creation of a repository clears the redirect at its name before git is
  ready; when the creation is rolled back, the redirect does not come back.
* A request whose destination name is taken by the time it is accepted answers a
  conflict and stays pending until it is cancelled or lapses.

## 7. Plan

1. **`Shadow`**: the disk, the mirrored log, `Seed`, `Verify`, the cut-over, loss
   of the index; `Purge` and a recreated repository. Properties: what `Verify`
   accepts loses no acknowledged push at the cut-over; a lost index is never
   silently replaced.
2. **Composition** of the log and the queue: an accepted push is indexed in the
   end, or is one of those whose enqueue the code admits it can lose.
3. **Theorems** whose hypotheses a change of the code would lift: those about
   `LocalCopy` with creations and deletions, once `CreateRef` looks for its object
   and the rollbacks are as careful as `ResetBranch`; `NoLockCycle` with deletions of organisations, once
   these lock requests before namespaces; `ClaimsAlone` on Postgres.

The runs together take a quarter of an hour as they are; where a theorem has
answered the question of a run, a new one may take its place.
