------------------------------ MODULE SyncQueue ------------------------------
(***************************************************************************)
(* The post-push pipeline of one ref (backend/internal/syncer) over the    *)
(* leased job queue of backend/internal/store/jobs.go: pushes enqueue,     *)
(* workers of several processes claim, re-index and finish, a sweeper      *)
(* returns lapsed claims, and each process's metrics flusher commits and   *)
(* re-indexes the same ref without a job.                                  *)
(***************************************************************************)
EXTENDS Naturals, Sequences, FiniteSets

CONSTANTS
    Processes,        \* replicas of the server
    Workers,          \* sync workers
    Host,             \* the process each worker runs in
    Engine,           \* "sqlite" or "postgres"
    SyncMaxAttempts,  \* claims of a job before it parks
    MaxPushes,        \* bound: pushes over a behaviour
    MaxPoints,        \* bound: batches of metric points ingested
    MaxRetries        \* bound: parked jobs an operator retries

ASSUME QueueAssumption ==
    /\ Host \in [Workers -> Processes]
    /\ Engine \in {"sqlite", "postgres"}
    /\ SyncMaxAttempts \in Nat \ {0}
    /\ MaxPushes \in Nat
    /\ MaxPoints \in Nat
    /\ MaxRetries \in Nat

VARIABLES
    history,    \* versions of the ref; history[v] counts the point batches v carries
    indexed,    \* the version repo_files describes
    rows,       \* sync_jobs rows of the ref, in id order
    unqueued,   \* versions pushed, their EnqueueSync not begun
    inserting,  \* versions whose EnqueueSync found no pending row to update
    worker,     \* each worker
    flush,      \* each process's flusher
    points,     \* batches of points ingested so far
    deleted,    \* batches dropped from the buffer
    pushes,     \* pushes so far
    retries     \* operator retries so far

vars == <<history, indexed, rows, unqueued, inserting, worker, flush, points,
          deleted, pushes, retries>>

Tip == Len(history)

WorkerIdle ==
    [pc |-> "idle", row |-> 0, seq |-> 0, attempts |-> 0, read |-> 0, ok |-> FALSE]
FlushIdle == [pc |-> "idle", read |-> 0, upTo |-> 0]

\* A fresh row of EnqueueSync's INSERT.  due is "next_attempt_at is null or
\* past", live "lease_expires_at is in the future".  Under Postgres a row has
\* its id before its transaction commits.
NewRow(v, status) ==
    [status |-> status, attempts |-> 0, seq |-> 0, live |-> FALSE, due |-> TRUE, sha |-> v]

\* The ref exists and is indexed; nothing is queued.
Init ==
    /\ history = <<0>>
    /\ indexed = 1
    /\ rows = <<>>
    /\ unqueued = {}
    /\ inserting = {}
    /\ worker = [w \in Workers |-> WorkerIdle]
    /\ flush = [p \in Processes |-> FlushIdle]
    /\ points = 0
    /\ deleted = 0
    /\ pushes = 0
    /\ retries = 0

-----------------------------------------------------------------------------
(* Pushes and EnqueueSync                                                  *)

\* A push moves the ref; its follow-up work is scheduled afterwards.
Push ==
    /\ pushes < MaxPushes
    /\ pushes' = pushes + 1
    /\ history' = Append(history, history[Tip])
    /\ unqueued' = unqueued \cup {Tip + 1}
    /\ UNCHANGED <<indexed, rows, inserting, worker, flush, points, deleted, retries>>

\* Rows a claim has locked and not yet committed: an UPDATE of them waits.
Locked == {worker[w].row : w \in {x \in Workers : worker[x].pc = "claiming"}}

PendingRows == {i \in 1..Len(rows) : rows[i].status = "pending"}

\* EnqueueSync's UPDATE of a pending row: new target, fresh budget, no backoff.
\* claim_seq stays.
Refreshed(row, v) == [row EXCEPT !.sha = v, !.attempts = 0, !.due = TRUE]

EnqueueUpdate(v) ==
    /\ v \in unqueued
    /\ unqueued' = unqueued \ {v}
    /\ PendingRows \cap Locked = {}
    /\ IF PendingRows = {}
       THEN inserting' = inserting \cup {v} /\ UNCHANGED rows
       ELSE /\ rows' = [i \in 1..Len(rows) |->
                          IF i \in PendingRows THEN Refreshed(rows[i], v) ELSE rows[i]]
            /\ UNCHANGED inserting
    /\ UNCHANGED <<history, indexed, worker, flush, points, deleted, pushes, retries>>

\* EnqueueSync's INSERT, which the UPDATE is not in one transaction with.
EnqueueInsert(v) ==
    /\ v \in inserting
    /\ inserting' = inserting \ {v}
    /\ rows' = Append(rows, NewRow(v, IF Engine = "postgres" THEN "inserted" ELSE "pending"))
    /\ UNCHANGED <<history, indexed, unqueued, worker, flush, points, deleted, pushes,
                   retries>>

\* Postgres: the INSERT's transaction commits, in no particular order of ids.
EnqueueCommit(i) ==
    /\ rows[i].status = "inserted"
    /\ rows' = [rows EXCEPT ![i].status = "pending"]
    /\ UNCHANGED <<history, indexed, unqueued, inserting, worker, flush, points, deleted,
                   pushes, retries>>

\* The process dies first, or the database refuses: the error is only logged.
EnqueueLost(v) ==
    /\ v \in unqueued \cup inserting
    /\ unqueued' = unqueued \ {v}
    /\ inserting' = inserting \ {v}
    /\ UNCHANGED <<history, indexed, rows, worker, flush, points, deleted, pushes, retries>>

-----------------------------------------------------------------------------
(* ClaimSyncJob                                                            *)

\* As if running siblings were no obstacle to a claim.
ClaimableBesideRunning(i) ==
    /\ rows[i].status = "pending"
    /\ rows[i].due
    /\ \A j \in PendingRows : i <= j

\* Pending, due, and no sibling of the ref running or pending with a lower id.
Claimable(i) ==
    /\ rows[i].status = "pending"
    /\ rows[i].due
    /\ \A j \in 1..Len(rows) : rows[j].status # "running"
    /\ \A j \in PendingRows : i <= j

Claimed(row) ==
    [row EXCEPT !.status = "running", !.attempts = @ + 1, !.seq = @ + 1, !.live = TRUE]

\* The claim goes through: the worker learns its token and its attempt.
Grant(w, i) ==
    /\ rows' = [rows EXCEPT ![i] = Claimed(@)]
    /\ worker' = [worker EXCEPT ![w] = [WorkerIdle EXCEPT
                    !.pc = "lock", !.row = i,
                    !.seq = rows[i].seq + 1, !.attempts = rows[i].attempts + 1]]

\* SQLite: the whole statement runs alone on the writer connection.
Claim(w, i) ==
    /\ Engine = "sqlite"
    /\ worker[w].pc = "idle"
    /\ Claimable(i)
    /\ Grant(w, i)
    /\ UNCHANGED <<history, indexed, unqueued, inserting, flush, points, deleted, pushes,
                   retries>>

\* Postgres: the sub-select judges the committed rows and locks the one it
\* picks, passing over rows others have locked...
ClaimPick(w, i) ==
    /\ Engine = "postgres"
    /\ worker[w].pc = "idle"
    /\ Claimable(i)
    /\ i \notin Locked
    /\ worker' = [worker EXCEPT ![w] = [WorkerIdle EXCEPT !.pc = "claiming", !.row = i]]
    /\ UNCHANGED <<history, indexed, rows, unqueued, inserting, flush, points, deleted,
                   pushes, retries>>

\* ... and the UPDATE shows when its transaction commits.
ClaimCommit(w) ==
    /\ worker[w].pc = "claiming"
    /\ Grant(w, worker[w].row)
    /\ UNCHANGED <<history, indexed, unqueued, inserting, flush, points, deleted, pushes,
                   retries>>

-----------------------------------------------------------------------------
(* processPush                                                             *)

\* As if the flusher left the ref's lock alone.
LockFreeOfWorkers(p) ==
    \A w \in Workers : Host[w] = p => worker[w].pc \notin {"read", "write"}

\* refLocks: one pipeline per ref and process.
LockFree(p) ==
    /\ \A w \in Workers : Host[w] = p => worker[w].pc \notin {"read", "write"}
    /\ flush[p].pc = "idle"

TakeLock(w) ==
    /\ worker[w].pc = "lock"
    /\ LockFree(Host[w])
    /\ worker' = [worker EXCEPT ![w].pc = "read"]
    /\ UNCHANGED <<history, indexed, rows, unqueued, inserting, flush, points, deleted,
                   pushes, retries>>

\* runPushPipeline reads the tree the ref points at now...
ReadTree(w) ==
    /\ worker[w].pc = "read"
    /\ worker' = [worker EXCEPT ![w].pc = "write", ![w].read = Tip]
    /\ UNCHANGED <<history, indexed, rows, unqueued, inserting, flush, points, deleted,
                   pushes, retries>>

\* ... and replaces the whole index of the ref with it.  What follows may fail
\* the job all the same.  Returning releases the lock.
WriteIndex(w) ==
    /\ worker[w].pc = "write"
    /\ indexed' = worker[w].read
    /\ \E ok \in BOOLEAN :
        worker' = [worker EXCEPT ![w].pc = "finish", ![w].ok = ok]
    /\ UNCHANGED <<history, rows, unqueued, inserting, flush, points, deleted, pushes,
                   retries>>

\* The pipeline fails before it writes.
Fail(w) ==
    /\ worker[w].pc \in {"lock", "read", "write"}
    /\ worker' = [worker EXCEPT ![w].pc = "finish", ![w].ok = FALSE]
    /\ UNCHANGED <<history, indexed, rows, unqueued, inserting, flush, points, deleted,
                   pushes, retries>>

\* As if the attempt counter were still the fencing token.
HoldsByAttempts(w) ==
    /\ worker[w].row \in 1..Len(rows)
    /\ rows[worker[w].row].status = "running"
    /\ rows[worker[w].row].attempts = worker[w].attempts

\* status = 'running' AND claim_seq = the value the claim returned.
Holds(w) ==
    /\ worker[w].row \in 1..Len(rows)
    /\ rows[worker[w].row].status = "running"
    /\ rows[worker[w].row].seq = worker[w].seq

\* As if a parked job got a status of its own.
FinishedParked(row, q) ==
    [row EXCEPT
        !.status = CASE q.ok -> "done"
                     [] ~q.ok /\ q.attempts >= SyncMaxAttempts -> "parked"
                     [] OTHER -> "pending",
        !.live = FALSE,
        !.due = q.ok \/ q.attempts >= SyncMaxAttempts]

\* FinishSyncJob: done, parked when the budget is spent, or back with a backoff.
Finished(row, q) ==
    [row EXCEPT
        !.status = CASE q.ok -> "done"
                     [] ~q.ok /\ q.attempts >= SyncMaxAttempts -> "failed"
                     [] OTHER -> "pending",
        !.live = FALSE,
        !.due = q.ok \/ q.attempts >= SyncMaxAttempts]

\* A worker that lost its claim changes nothing.
Finish(w) ==
    /\ worker[w].pc = "finish"
    /\ rows' = IF Holds(w)
               THEN [rows EXCEPT ![worker[w].row] = Finished(@, worker[w])]
               ELSE rows
    /\ worker' = [worker EXCEPT ![w] = WorkerIdle]
    /\ UNCHANGED <<history, indexed, unqueued, inserting, flush, points, deleted, pushes,
                   retries>>

\* The database refuses the outcome; the lease is left to lapse.
FinishLost(w) ==
    /\ worker[w].pc = "finish"
    /\ worker' = [worker EXCEPT ![w] = WorkerIdle]
    /\ UNCHANGED <<history, indexed, rows, unqueued, inserting, flush, points, deleted,
                   pushes, retries>>

-----------------------------------------------------------------------------
(* Leases, backoff, operator                                               *)

\* Runs beside process; stopped before FinishSyncJob.
Heartbeat(w) ==
    /\ worker[w].pc \in {"lock", "read", "write"}
    /\ Holds(w)
    /\ ~rows[worker[w].row].live
    /\ rows' = [rows EXCEPT ![worker[w].row].live = TRUE]
    /\ UNCHANGED <<history, indexed, unqueued, inserting, worker, flush, points, deleted,
                   pushes, retries>>

\* A lease runs out, its worker gone or only late.
Lapse(i) ==
    /\ rows[i].status = "running"
    /\ rows[i].live
    /\ rows' = [rows EXCEPT ![i].live = FALSE]
    /\ UNCHANGED <<history, indexed, unqueued, inserting, worker, flush, points, deleted,
                   pushes, retries>>

\* As if only jobs with budget left were taken back.
ExpiredWithBudget ==
    {i \in 1..Len(rows) :
        rows[i].status = "running" /\ ~rows[i].live /\ rows[i].attempts < SyncMaxAttempts}

Expired == {i \in 1..Len(rows) : rows[i].status = "running" /\ ~rows[i].live}

Requeued(row) ==
    [row EXCEPT !.status = IF row.attempts >= SyncMaxAttempts THEN "failed" ELSE "pending"]

\* RequeueExpiredSyncJobs, one statement over every lapsed claim.
Sweep ==
    /\ Expired # {}
    /\ rows' = [i \in 1..Len(rows) |-> IF i \in Expired THEN Requeued(rows[i]) ELSE rows[i]]
    /\ UNCHANGED <<history, indexed, unqueued, inserting, worker, flush, points, deleted,
                   pushes, retries>>

\* next_attempt_at passes.
BackoffElapses(i) ==
    /\ rows[i].status = "pending"
    /\ ~rows[i].due
    /\ rows' = [rows EXCEPT ![i].due = TRUE]
    /\ UNCHANGED <<history, indexed, unqueued, inserting, worker, flush, points, deleted,
                   pushes, retries>>

RetrySyncJob(i) ==
    /\ retries < MaxRetries
    /\ rows[i].status = "failed"
    /\ retries' = retries + 1
    /\ rows' = [rows EXCEPT ![i] =
                   [@ EXCEPT !.status = "pending", !.attempts = 0, !.due = TRUE, !.live = FALSE]]
    /\ UNCHANGED <<history, indexed, unqueued, inserting, worker, flush, points, deleted,
                   pushes>>

-----------------------------------------------------------------------------
(* The metrics flush                                                       *)

\* The ingest API buffers points.
Ingest ==
    /\ points < MaxPoints
    /\ points' = points + 1
    /\ UNCHANGED <<history, indexed, rows, unqueued, inserting, worker, flush, deleted,
                   pushes, retries>>

\* FlushProject takes the lock only if it is free.
FlushBegin(p) ==
    /\ flush[p].pc = "idle"
    /\ deleted < points
    /\ LockFree(p)
    /\ flush' = [flush EXCEPT ![p].pc = "commit"]
    /\ UNCHANGED <<history, indexed, rows, unqueued, inserting, worker, points, deleted,
                   pushes, retries>>

\* Flush commits the buffered points the parquet does not hold yet.  Committing
\* the same tree again leaves the ref as it is; an empty buffer ends the flush.
FlushCommit(p) ==
    /\ flush[p].pc = "commit"
    /\ IF deleted = points
       THEN flush' = [flush EXCEPT ![p] = FlushIdle] /\ UNCHANGED history
       ELSE /\ flush' = [flush EXCEPT ![p].pc = "read", ![p].upTo = points]
            /\ history' = IF points > history[Tip] THEN Append(history, points) ELSE history
    /\ UNCHANGED <<indexed, rows, unqueued, inserting, worker, points, deleted, pushes,
                   retries>>

FlushReadTree(p) ==
    /\ flush[p].pc = "read"
    /\ flush' = [flush EXCEPT ![p].pc = "write", ![p].read = Tip]
    /\ UNCHANGED <<history, indexed, rows, unqueued, inserting, worker, points, deleted,
                   pushes, retries>>

FlushWriteIndex(p) ==
    /\ flush[p].pc = "write"
    /\ indexed' = flush[p].read
    /\ flush' = [flush EXCEPT ![p].pc = "delete"]
    /\ UNCHANGED <<history, rows, unqueued, inserting, worker, points, deleted, pushes,
                   retries>>

\* DeletePoints of the points this flush listed, then the lock is released.
FlushDelete(p) ==
    /\ flush[p].pc = "delete"
    /\ deleted' = IF flush[p].upTo > deleted THEN flush[p].upTo ELSE deleted
    /\ flush' = [flush EXCEPT ![p] = FlushIdle]
    /\ UNCHANGED <<history, indexed, rows, unqueued, inserting, worker, points, pushes,
                   retries>>

\* Any of its steps fails: the points stay buffered.
FlushFail(p) ==
    /\ flush[p].pc # "idle"
    /\ flush' = [flush EXCEPT ![p] = FlushIdle]
    /\ UNCHANGED <<history, indexed, rows, unqueued, inserting, worker, points, deleted,
                   pushes, retries>>

\* A process dies and restarts: its claims are left to their leases.
Crash(p) ==
    /\ worker' = [w \in Workers |-> IF Host[w] = p THEN WorkerIdle ELSE worker[w]]
    /\ flush' = [flush EXCEPT ![p] = FlushIdle]
    /\ UNCHANGED <<history, indexed, rows, unqueued, inserting, points, deleted, pushes,
                   retries>>

-----------------------------------------------------------------------------

Enqueuing(v) == EnqueueUpdate(v) \/ EnqueueInsert(v) \/ EnqueueLost(v)

Claiming(w) == \E i \in 1..Len(rows) : Claim(w, i) \/ ClaimPick(w, i)

Working(w) == TakeLock(w) \/ ReadTree(w) \/ WriteIndex(w) \/ Finish(w)

Flushing(p) ==
    \/ FlushBegin(p) \/ FlushCommit(p) \/ FlushReadTree(p) \/ FlushWriteIndex(p)
    \/ FlushDelete(p) \/ FlushFail(p)

Next ==
    \/ Push
    \/ \E v \in unqueued \cup inserting : Enqueuing(v)
    \/ \E i \in 1..Len(rows) :
        EnqueueCommit(i) \/ Lapse(i) \/ BackoffElapses(i) \/ RetrySyncJob(i)
    \/ \E w \in Workers :
        \/ Claiming(w) \/ ClaimCommit(w) \/ Working(w) \/ Fail(w)
        \/ FinishLost(w) \/ Heartbeat(w)
    \/ Sweep
    \/ Ingest
    \/ \E p \in Processes : Flushing(p) \/ Crash(p)

Spec == Init /\ [][Next]_vars

-----------------------------------------------------------------------------
(* Properties *)

RowState ==
    [status : {"inserted", "pending", "running", "done", "failed"}, attempts : Nat,
     seq : Nat, live : BOOLEAN, due : BOOLEAN, sha : Nat]

WorkerState ==
    [pc : {"idle", "claiming", "lock", "read", "write", "finish"},
     row : Nat, seq : Nat, attempts : Nat, read : Nat, ok : BOOLEAN]

FlushState == [pc : {"idle", "commit", "read", "write", "delete"}, read : Nat, upTo : Nat]

TypeOK ==
    /\ history \in Seq(Nat) /\ history # <<>>
    /\ indexed \in 1..Tip
    /\ rows \in Seq(RowState)
    /\ unqueued \subseteq 1..Tip
    /\ inserting \subseteq 1..Tip
    /\ worker \in [Workers -> WorkerState]
    /\ flush \in [Processes -> FlushState]
    /\ points \in Nat
    /\ deleted \in Nat
    /\ pushes \in Nat
    /\ retries \in Nat

\* The claim serialises work on the ref: whatever lapses, sweeps, retries and
\* pushes come in between, no two jobs of the ref are running at once.
ClaimsAlone ==
    \A i, j \in 1..Len(rows) :
        rows[i].status = "running" /\ rows[j].status = "running" => i = j

\* A job marked done vouches for the index: repo_files describes the version it
\* was enqueued for or a newer one, even while a straggler whose lease was taken
\* away is still re-indexing, and a flush with it.
DoneIsIndexed ==
    \A i \in 1..Len(rows) : rows[i].status = "done" => rows[i].sha <= indexed

\* No state loses a point from the chart: points leave the buffer only once the
\* indexed version carries them, and no later index write takes them out again.
ChartKeepsPoints == deleted <= history[indexed]

-----------------------------------------------------------------------------
(* Liveness.  Workers, the sweeper and time go on; pushes, failures, lapses   *)
(* and crashes are left to chance.  A waiting worker is handed the lock, a Go *)
(* channel, in its turn.                                                      *)

Fairness ==
    /\ \A v \in 1..(MaxPushes + MaxPoints + 1) :
        WF_vars(v \in unqueued \cup inserting /\ Enqueuing(v))
    /\ \A i \in 1..MaxPushes :
        /\ WF_vars(i \in 1..Len(rows) /\ EnqueueCommit(i))
        /\ WF_vars(i \in 1..Len(rows) /\ BackoffElapses(i))
        /\ WF_vars(/\ i \in 1..Len(rows)
                   /\ \A w \in Workers : worker[w].row # i
                   /\ Lapse(i))
    /\ WF_vars(Sweep)
    /\ \A w \in Workers :
        /\ SF_vars(Claiming(w))
        /\ SF_vars(ClaimCommit(w))
        /\ SF_vars(TakeLock(w))
        /\ WF_vars(ReadTree(w) \/ WriteIndex(w) \/ Finish(w))
    /\ \A p \in Processes : WF_vars(Flushing(p))

LiveSpec == Spec /\ Fairness

\* Once the pushes stop, every job settles: however often workers fail, crash or
\* lose their lease, it is done or parked where an operator sees it.
EveryJobSettles ==
    <>[](\A i \in 1..Len(rows) : rows[i].status \in {"done", "failed"})

=============================================================================
