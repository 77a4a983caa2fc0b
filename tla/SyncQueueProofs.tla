--------------------------- MODULE SyncQueueProofs ---------------------------
(***************************************************************************)
(* The sync job queue, for any number of workers, pushes, flushes, crashes *)
(* and retries.  First what any step may do to one piece of the state (a   *)
(* row, a worker, a flusher, the versions), then the invariants, each from *)
(* those lemmas.  The claim is exclusive on SQLite; what a finished job    *)
(* vouches for, and what the chart keeps, hold where one replica's         *)
(* refLocks see every writer of the index.                                 *)
(***************************************************************************)
EXTENDS SyncQueue, TLAPS

(***************************************************************************)
(* Types, and the rows.                                                    *)
(***************************************************************************)

\* A busy worker works on a row of the table.
RowsPointed == \A w \in Workers : worker[w].pc # "idle" => worker[w].row \in 1..Len(rows)

\* What was read to be written into the index is a version of the repository.
ReadsKnown ==
    /\ \A w \in Workers : worker[w].pc = "write" => worker[w].read \in 1..Tip
    /\ \A p \in Processes : flush[p].pc = "write" => flush[p].read \in 1..Tip

\* A job asks for a version of the repository.
ShasKnown == \A i \in 1..Len(rows) : rows[i].sha \in 1..Tip

\* Type correctness, made inductive.
TypeInv == TypeOK /\ RowsPointed /\ ReadsKnown /\ ShasKnown

\* Replacing one row of the table.
LEMMA RowsUpdated ==
    ASSUME NEW S, NEW s \in Seq(S), NEW i \in 1..Len(s), NEW x \in S
    PROVE  /\ [s EXCEPT ![i] = x] \in Seq(S)
           /\ Len([s EXCEPT ![i] = x]) = Len(s)
           /\ [s EXCEPT ![i] = x][i] = x
           /\ \A j \in 1..Len(s) : j # i => [s EXCEPT ![i] = x][j] = s[j]
OBVIOUS

\* EnqueueSync on a pending row only changes the version it asks for.
LEMMA RefreshedFacts ==
    ASSUME NEW row \in RowState, NEW v \in Nat
    PROVE  /\ Refreshed(row, v) \in RowState
           /\ Refreshed(row, v).status = row.status
           /\ Refreshed(row, v).seq = row.seq
           /\ Refreshed(row, v).sha = v
BY DEF Refreshed, RowState

\* A claim makes the row running and takes the next token.
LEMMA ClaimedFacts ==
    ASSUME NEW row \in RowState
    PROVE  /\ Claimed(row) \in RowState
           /\ Claimed(row).status = "running"
           /\ Claimed(row).seq = row.seq + 1
           /\ Claimed(row).sha = row.sha
<1>1. row.seq \in Nat /\ row.attempts \in Nat
  BY DEF RowState
<1>2. row.seq + 1 \in Nat /\ row.attempts + 1 \in Nat
  BY <1>1
<1>3. QED
  BY <1>2 DEF Claimed, RowState

\* The sweep puts a row back, or gives it up, and keeps its token.
LEMMA RequeuedFacts ==
    ASSUME NEW row \in RowState
    PROVE  /\ Requeued(row) \in RowState
           /\ Requeued(row).status \in {"failed", "pending"}
           /\ Requeued(row).seq = row.seq
           /\ Requeued(row).sha = row.sha
BY QueueAssumption DEF Requeued, RowState

\* Only work that went well makes the row done.
LEMMA FinishedFacts ==
    ASSUME NEW row \in RowState, NEW q \in WorkerState
    PROVE  /\ Finished(row, q) \in RowState
           /\ Finished(row, q).status \in {"done", "failed", "pending"}
           /\ Finished(row, q).status = "done" => q.ok
           /\ Finished(row, q).seq = row.seq
           /\ Finished(row, q).sha = row.sha
<1> DEFINE status == CASE q.ok -> "done"
                     [] ~q.ok /\ q.attempts >= SyncMaxAttempts -> "failed"
                     [] OTHER -> "pending"
<1>0. q.ok \in BOOLEAN /\ q.attempts \in Nat
  BY DEF WorkerState
<1>1. status \in {"done", "failed", "pending"} /\ (status = "done" => q.ok)
  BY <1>0, ZenonT(30)
<1>2. Finished(row, q) = [row EXCEPT !.status = status, !.live = FALSE,
                          !.due = q.ok \/ q.attempts >= SyncMaxAttempts]
  BY DEF Finished
<1> HIDE DEF status
<1>3. (q.ok \/ q.attempts >= SyncMaxAttempts) \in BOOLEAN
  BY <1>0, QueueAssumption
<1>4. QED
  BY <1>1, <1>2, <1>3 DEF RowState

\* Row i is claimed by the step: it could be, or Postgres judged so before.
Granted(i) ==
    \E w \in Workers : Grant(w, i) /\ (worker[w].pc = "claiming" \/ Claimable(i))

\* What a step may do to a row: its token never goes back, the version it asks
\* for changes only while it is pending, it runs by a claim, and it is done by a
\* worker that holds it.
RowStep(i) ==
    /\ rows[i].seq <= rows'[i].seq
    /\ rows'[i].sha # rows[i].sha =>
            rows[i].status = "pending" /\ rows'[i].status = "pending" /\ rows'[i].sha \in unqueued
    /\ rows'[i].status = "running" =>
            \/ rows[i].status = "running" /\ rows'[i].seq = rows[i].seq
            \/ rows'[i].seq = rows[i].seq + 1 /\ Granted(i)
    /\ rows'[i].status = "done" =>
            \/ rows[i].status = "done"
            \/ \E w \in Workers :
                worker[w].pc = "finish" /\ worker[w].ok /\ Holds(w) /\ worker[w].row = i

\* What a row looks like when it appears.
NewRowStep(i) ==
    rows'[i].sha \in inserting /\ rows'[i].status \in {"inserted", "pending"}

\* What a step may do to the table.
RowsStep ==
    /\ rows' \in Seq(RowState)
    /\ Len(rows) <= Len(rows')
    /\ \A i \in 1..Len(rows) : RowStep(i)
    /\ \A i \in (Len(rows) + 1)..Len(rows') : NewRowStep(i)

\* A row left alone.
LEMMA RowKept ==
    ASSUME NEW i, rows[i] \in RowState, rows'[i] = rows[i] PROVE RowStep(i)
<1>1. rows[i].seq \in Nat
  BY DEF RowState
<1>2. QED
  BY <1>1 DEF RowStep

\* The table left alone.
LEMMA RowsUnchanged == ASSUME TypeOK, rows' = rows PROVE RowsStep
<1>1. /\ rows \in Seq(RowState)
      /\ Len(rows) \in Nat
      /\ \A i \in 1..Len(rows) : rows[i] \in RowState
  BY DEF TypeOK
<1>2. QED
  BY <1>1, RowKept DEF RowsStep

\* One row written.
LEMMA RowsOneChanged ==
    ASSUME TypeOK, NEW i \in 1..Len(rows), NEW x \in RowState,
           rows' = [rows EXCEPT ![i] = x], RowStep(i)
    PROVE  RowsStep
<1>1. /\ rows' \in Seq(RowState) /\ Len(rows') = Len(rows)
      /\ \A j \in 1..Len(rows) : j # i => rows'[j] = rows[j]
  BY RowsUpdated DEF TypeOK
<1>2. \A j \in 1..Len(rows) : rows[j] \in RowState
  BY DEF TypeOK
<1>3. \A j \in 1..Len(rows) : RowStep(j)
  BY <1>1, <1>2, RowKept
<1>4. QED
  BY <1>1, <1>3 DEF RowsStep, TypeOK

\* EnqueueSync finds a pending job of the ref.
LEMMA EnqueueUpdateRows == ASSUME TypeOK, NEW v, EnqueueUpdate(v) PROVE RowsStep
<1>1. v \in Nat /\ v \in unqueued
  BY DEF TypeOK, EnqueueUpdate, Tip
<1>2. CASE PendingRows = {}
  BY <1>2, RowsUnchanged DEF EnqueueUpdate
<1>3. CASE PendingRows # {}
  <2>1. rows' = [i \in 1..Len(rows) |-> IF i \in PendingRows THEN Refreshed(rows[i], v) ELSE rows[i]]
    BY <1>3 DEF EnqueueUpdate
  <2>2. \A i \in 1..Len(rows) : rows[i] \in RowState /\ (i \in PendingRows <=> rows[i].status = "pending")
    BY DEF TypeOK, PendingRows
  <2>3. ASSUME NEW i \in 1..Len(rows) PROVE rows'[i] \in RowState /\ RowStep(i)
    <3>1. CASE i \in PendingRows
      <4>1. rows'[i] = Refreshed(rows[i], v)
        BY <2>1, <3>1
      <4>2. rows[i].seq \in Nat
        BY <2>2 DEF RowState
      <4>3. /\ rows'[i] \in RowState
            /\ rows'[i].status = "pending" /\ rows[i].status = "pending"
            /\ rows'[i].seq = rows[i].seq
            /\ rows'[i].sha = v
        BY <1>1, <2>2, <3>1, <4>1, RefreshedFacts
      <4>4. QED
        BY <1>1, <4>2, <4>3 DEF RowStep
    <3>2. CASE i \notin PendingRows
      BY <2>1, <2>2, <3>2, RowKept
    <3>3. QED
      BY <3>1, <3>2
  <2>4. rows' \in Seq(RowState) /\ Len(rows') = Len(rows)
    BY <2>1, <2>3 DEF TypeOK
  <2>5. QED
    BY <2>3, <2>4 DEF RowsStep, TypeOK
<1>4. QED
  BY <1>2, <1>3

\* EnqueueSync inserts a job.
LEMMA EnqueueInsertRows == ASSUME TypeOK, NEW v, EnqueueInsert(v) PROVE RowsStep
<1> DEFINE x == NewRow(v, IF Engine = "postgres" THEN "inserted" ELSE "pending")
<1>1. v \in Nat /\ v \in inserting
  BY DEF TypeOK, EnqueueInsert, Tip
<1>2. x \in RowState /\ x.sha = v /\ x.status \in {"inserted", "pending"}
  BY <1>1 DEF NewRow, RowState
<1>3. rows' = Append(rows, x)
  BY DEF EnqueueInsert
<1> HIDE DEF x
<1>4. /\ rows' \in Seq(RowState) /\ Len(rows') = Len(rows) + 1
      /\ \A i \in 1..Len(rows) : rows'[i] = rows[i]
      /\ rows'[Len(rows) + 1] = x
  BY <1>2, <1>3 DEF TypeOK
<1>5. \A i \in 1..Len(rows) : rows[i] \in RowState
  BY DEF TypeOK
<1>6. \A i \in 1..Len(rows) : RowStep(i)
  BY <1>4, <1>5, RowKept
<1>7. Len(rows) \in Nat
  BY DEF TypeOK
<1>8. \A i \in (Len(rows) + 1)..Len(rows') : NewRowStep(i)
  BY <1>1, <1>2, <1>4, <1>7 DEF NewRowStep
<1>9. QED
  BY <1>4, <1>6, <1>7, <1>8 DEF RowsStep

\* An inserted job is committed.
LEMMA EnqueueCommitRows ==
    ASSUME TypeOK, NEW i \in 1..Len(rows), EnqueueCommit(i) PROVE RowsStep
<1>1. /\ rows' = [rows EXCEPT ![i] = [rows[i] EXCEPT !.status = "pending"]]
      /\ rows[i] \in RowState
  BY DEF EnqueueCommit, TypeOK
<1>2. [rows[i] EXCEPT !.status = "pending"] \in RowState
  BY <1>1 DEF RowState
<1>3. RowStep(i)
  BY <1>1 DEF RowStep, RowState, TypeOK
<1>4. QED
  BY <1>1, <1>2, <1>3, RowsOneChanged

\* A worker gets its claim.
LEMMA GrantRows ==
    ASSUME TypeOK, NEW w \in Workers, NEW i \in 1..Len(rows), Grant(w, i),
           worker[w].pc = "claiming" \/ Claimable(i)
    PROVE  RowsStep
<1>1. rows' = [rows EXCEPT ![i] = Claimed(rows[i])] /\ rows[i] \in RowState
  BY DEF Grant, TypeOK
<1>2. RowStep(i)
  <2>1. rows'[i] = Claimed(rows[i])
    BY <1>1, ClaimedFacts, RowsUpdated DEF TypeOK
  <2>2. rows[i].seq \in Nat
    BY <1>1 DEF RowState
  <2>3. QED
    BY <1>1, <2>1, <2>2, ClaimedFacts DEF RowStep, Granted
<1>3. QED
  BY <1>1, <1>2, ClaimedFacts, RowsOneChanged

\* FinishSyncJob.
LEMMA FinishRows == ASSUME TypeOK, NEW w \in Workers, Finish(w) PROVE RowsStep
<1>1. CASE ~Holds(w)
  BY <1>1, RowsUnchanged DEF Finish
<1>2. CASE Holds(w)
  <2> DEFINE i == worker[w].row
  <2>1. i \in 1..Len(rows) /\ rows[i] \in RowState /\ worker[w] \in WorkerState
    BY <1>2 DEF Holds, TypeOK
  <2>2. rows' = [rows EXCEPT ![i] = Finished(rows[i], worker[w])] /\ worker[w].pc = "finish"
    BY <1>2 DEF Finish
  <2> HIDE DEF i
  <2>3. /\ rows'[i] = Finished(rows[i], worker[w])
        /\ rows'[i].status \in {"done", "failed", "pending"}
        /\ rows'[i].status = "done" => worker[w].ok
        /\ rows'[i].seq = rows[i].seq
        /\ rows'[i].sha = rows[i].sha
    BY <2>1, <2>2, FinishedFacts, RowsUpdated DEF TypeOK
  <2>4. RowStep(i)
    BY <1>2, <2>1, <2>2, <2>3 DEF RowStep, RowState, i
  <2>5. QED
    BY <2>1, <2>2, <2>4, FinishedFacts, RowsOneChanged
<1>3. QED
  BY <1>1, <1>2

\* A worker renews its lease.
LEMMA HeartbeatRows == ASSUME TypeOK, NEW w \in Workers, Heartbeat(w) PROVE RowsStep
<1> DEFINE i == worker[w].row
<1>1. i \in 1..Len(rows) /\ rows[i] \in RowState
  BY DEF Heartbeat, Holds, TypeOK
<1>2. rows' = [rows EXCEPT ![i] = [rows[i] EXCEPT !.live = TRUE]]
  BY DEF Heartbeat
<1> HIDE DEF i
<1>3. [rows[i] EXCEPT !.live = TRUE] \in RowState
  BY <1>1 DEF RowState
<1>4. RowStep(i)
  BY <1>1, <1>2 DEF RowStep, RowState, TypeOK
<1>5. QED
  BY <1>1, <1>2, <1>3, <1>4, RowsOneChanged

\* A lease lapses.
LEMMA LapseRows ==
    ASSUME TypeOK, NEW i \in 1..Len(rows), Lapse(i) PROVE RowsStep
<1>1. /\ rows' = [rows EXCEPT ![i] = [rows[i] EXCEPT !.live = FALSE]]
      /\ rows[i] \in RowState
  BY DEF Lapse, TypeOK
<1>2. [rows[i] EXCEPT !.live = FALSE] \in RowState
  BY <1>1 DEF RowState
<1>3. RowStep(i)
  BY <1>1 DEF RowStep, RowState, TypeOK
<1>4. QED
  BY <1>1, <1>2, <1>3, RowsOneChanged

\* A job falls due again.
LEMMA BackoffElapsesRows ==
    ASSUME TypeOK, NEW i \in 1..Len(rows), BackoffElapses(i) PROVE RowsStep
<1>1. /\ rows' = [rows EXCEPT ![i] = [rows[i] EXCEPT !.due = TRUE]]
      /\ rows[i] \in RowState
  BY DEF BackoffElapses, TypeOK
<1>2. [rows[i] EXCEPT !.due = TRUE] \in RowState
  BY <1>1 DEF RowState
<1>3. RowStep(i)
  BY <1>1 DEF RowStep, RowState, TypeOK
<1>4. QED
  BY <1>1, <1>2, <1>3, RowsOneChanged

\* An administrator retries a failed job.
LEMMA RetrySyncJobRows ==
    ASSUME TypeOK, NEW i \in 1..Len(rows), RetrySyncJob(i) PROVE RowsStep
<1> DEFINE x == [rows[i] EXCEPT !.status = "pending", !.attempts = 0, !.due = TRUE, !.live = FALSE]
<1>1. rows' = [rows EXCEPT ![i] = x] /\ rows[i] \in RowState
  BY DEF RetrySyncJob, TypeOK
<1>2. x \in RowState /\ x.status = "pending" /\ x.seq = rows[i].seq /\ x.sha = rows[i].sha
  BY <1>1 DEF RowState
<1> HIDE DEF x
<1>3. RowStep(i)
  BY <1>1, <1>2 DEF RowStep, RowState, TypeOK
<1>4. QED
  BY <1>1, <1>2, <1>3, RowsOneChanged

\* The sweep of lapsed leases.
LEMMA SweepRows == ASSUME TypeOK, Sweep PROVE RowsStep
<1>1. rows' = [i \in 1..Len(rows) |-> IF i \in Expired THEN Requeued(rows[i]) ELSE rows[i]]
  BY DEF Sweep
<1>2. \A i \in 1..Len(rows) : rows[i] \in RowState
  BY DEF TypeOK
<1>3. \A i \in 1..Len(rows) : rows'[i] \in RowState /\ RowStep(i)
  BY <1>1, <1>2, RequeuedFacts DEF RowStep, RowState
<1>4. rows' \in Seq(RowState) /\ Len(rows') = Len(rows)
  BY <1>1, <1>3 DEF TypeOK
<1>5. QED
  BY <1>3, <1>4 DEF RowsStep, TypeOK

(***************************************************************************)
(* Workers, flushers and versions.                                         *)
(***************************************************************************)

\* Every step does to the table what RowsStep allows.
LEMMA RowsAlways == ASSUME TypeOK, RowsPointed, [Next]_vars PROVE RowsStep
<1>1. ASSUME UNCHANGED rows PROVE RowsStep
  BY <1>1, RowsUnchanged
<1>2. CASE Push
  BY <1>1, <1>2 DEF Push
<1>3. ASSUME NEW v, Enqueuing(v) PROVE RowsStep
  BY <1>1, <1>3, EnqueueUpdateRows, EnqueueInsertRows DEF Enqueuing, EnqueueLost
<1>4. ASSUME NEW i \in 1..Len(rows),
             EnqueueCommit(i) \/ Lapse(i) \/ BackoffElapses(i) \/ RetrySyncJob(i)
      PROVE  RowsStep
  BY <1>4, EnqueueCommitRows, LapseRows, BackoffElapsesRows, RetrySyncJobRows
<1>5. ASSUME NEW w \in Workers, Claiming(w) \/ ClaimCommit(w) PROVE RowsStep
  BY <1>1, <1>5, GrantRows DEF Claiming, Claim, ClaimPick, ClaimCommit, RowsPointed
<1>6. ASSUME NEW w \in Workers, Working(w) \/ Fail(w) \/ FinishLost(w) \/ Heartbeat(w)
      PROVE  RowsStep
  BY <1>1, <1>6, FinishRows, HeartbeatRows
     DEF Working, TakeLock, ReadTree, WriteIndex, Fail, FinishLost
<1>7. CASE Sweep
  BY <1>7, SweepRows
<1>8. CASE Ingest
  BY <1>1, <1>8 DEF Ingest
<1>9. ASSUME NEW p \in Processes, Flushing(p) \/ Crash(p) PROVE RowsStep
  BY <1>1, <1>9 DEF Flushing, FlushBegin, FlushCommit, FlushReadTree, FlushWriteIndex,
                    FlushDelete, FlushFail, Crash
<1>10. CASE UNCHANGED vars
  BY <1>1, <1>10 DEF vars
<1>11. QED
  BY <1>2, <1>3, <1>4, <1>5, <1>6, <1>7, <1>8, <1>9, <1>10 DEF Next

\* A change of the versions: none goes away or changes.
HistoryStep ==
    /\ history' \in Seq(Nat)
    /\ Tip <= Tip' /\ Tip' <= Tip + 1
    /\ \A v \in 1..Tip : history'[v] = history[v]
    /\ \A v \in (Tip + 1)..Tip' : history[Tip] <= history'[v] /\ history'[v] \in {history[Tip], points}

\* Every step leaves the versions that were there.
LEMMA HistoryAlways == ASSUME TypeOK, [Next]_vars PROVE HistoryStep
<1>1. ASSUME UNCHANGED history PROVE HistoryStep
  BY <1>1 DEF HistoryStep, TypeOK, Tip
<1>2. ASSUME NEW n \in Nat, history' = Append(history, n), n \in {history[Tip], points}, history[Tip] <= n
      PROVE  HistoryStep
  BY <1>2 DEF HistoryStep, TypeOK, Tip
<1>3. CASE Push
  <2>1. history[Tip] \in Nat
    BY DEF TypeOK, Tip
  <2>2. QED
    BY <1>2, <1>3, <2>1 DEF Push
<1>4. ASSUME NEW p \in Processes, FlushCommit(p) PROVE HistoryStep
  <2>1. history[Tip] \in Nat /\ points \in Nat
    BY DEF TypeOK, Tip
  <2>2. QED
    BY <1>1, <1>2, <1>4, <2>1 DEF FlushCommit
<1>5. CASE UNCHANGED vars
  BY <1>1, <1>5 DEF vars
<1>6. ASSUME Next, ~Push, \A p \in Processes : ~FlushCommit(p) PROVE UNCHANGED history
  BY <1>6 DEF Next, Enqueuing, EnqueueUpdate, EnqueueInsert, EnqueueLost, EnqueueCommit, Lapse,
     BackoffElapses, RetrySyncJob, Claiming, Claim, ClaimPick, ClaimCommit, Working, TakeLock,
     ReadTree, WriteIndex, Finish, Fail, FinishLost, Heartbeat, Sweep, Ingest, Flushing,
     FlushBegin, FlushReadTree, FlushWriteIndex, FlushDelete, FlushFail, Crash
<1>7. QED
  BY <1>1, <1>3, <1>4, <1>5, <1>6

\* What a step may do to a worker, whoever takes it.
WorkerStep(w) ==
    \/ worker'[w] = worker[w]
    \/ worker'[w] = WorkerIdle
    \/ \E i \in 1..Len(rows) :
        /\ worker[w].pc \in {"idle", "claiming"}
        /\ \/ Engine = "postgres" /\ worker'[w] = [WorkerIdle EXCEPT !.pc = "claiming", !.row = i]
           \/ /\ worker'[w] = [WorkerIdle EXCEPT !.pc = "lock", !.row = i,
                                 !.seq = rows[i].seq + 1, !.attempts = rows[i].attempts + 1]
              /\ rows'[i].seq = rows[i].seq + 1
    \/ /\ worker[w].pc = "lock" /\ worker'[w] = [worker[w] EXCEPT !.pc = "read"]
       /\ TakeLock(w)
    \/ worker[w].pc = "read" /\ worker'[w] = [worker[w] EXCEPT !.pc = "write", !.read = Tip]
    \/ /\ worker[w].pc = "write" /\ WriteIndex(w)
       /\ \E ok \in BOOLEAN : worker'[w] = [worker[w] EXCEPT !.pc = "finish", !.ok = ok]
    \/ /\ worker[w].pc \in {"lock", "read", "write"}
       /\ worker'[w] = [worker[w] EXCEPT !.pc = "finish", !.ok = FALSE]

\* What a step may do to the workers.
WorkersStep ==
    /\ DOMAIN worker' = Workers /\ worker' = [w \in Workers |-> worker'[w]]
    /\ \A w \in Workers : WorkerStep(w)

\* A step of one worker.
LEMMA OneWorker ==
    ASSUME TypeOK, NEW w \in Workers, NEW q, worker' = [worker EXCEPT ![w] = q],
           WorkerStep(w)
    PROVE  WorkersStep
BY DEF TypeOK, WorkersStep, WorkerStep

\* Every step does to the workers what WorkersStep allows.
LEMMA WorkersAlways == ASSUME TypeOK, RowsPointed, [Next]_vars PROVE WorkersStep
<1> USE DEF TypeOK
<1>1. ASSUME UNCHANGED worker PROVE WorkersStep
  BY <1>1 DEF WorkersStep, WorkerStep
<1>2. ASSUME NEW w \in Workers, NEW i \in 1..Len(rows), Grant(w, i),
             worker[w].pc \in {"idle", "claiming"}
      PROVE  WorkersStep
  <2>1. rows'[i].seq = rows[i].seq + 1
    <3>1. rows[i] \in RowState /\ rows' = [rows EXCEPT ![i] = Claimed(rows[i])]
      BY <1>2 DEF Grant
    <3>2. QED
      BY <3>1, ClaimedFacts, RowsUpdated
  <2>2. QED
    BY <1>2, <2>1, OneWorker DEF Grant, WorkerStep
<1>3. ASSUME NEW w \in Workers, Claiming(w) PROVE WorkersStep
  BY <1>2, <1>3, OneWorker DEF Claiming, Claim, ClaimPick, WorkerStep
<1>4. ASSUME NEW w \in Workers, ClaimCommit(w) PROVE WorkersStep
  BY <1>2, <1>4 DEF ClaimCommit, RowsPointed
<1>5. ASSUME NEW w \in Workers, TakeLock(w) PROVE WorkersStep
  BY <1>5, OneWorker DEF TakeLock, WorkerStep
<1>6. ASSUME NEW w \in Workers, ReadTree(w) PROVE WorkersStep
  BY <1>6, OneWorker DEF ReadTree, WorkerStep
<1>7. ASSUME NEW w \in Workers, WriteIndex(w) PROVE WorkersStep
  <2>1. PICK ok \in BOOLEAN : worker' = [worker EXCEPT ![w].pc = "finish", ![w].ok = ok]
    BY <1>7 DEF WriteIndex
  <2>2. worker[w] \in WorkerState
    OBVIOUS
  <2>3. worker' = [worker EXCEPT ![w] = [worker[w] EXCEPT !.pc = "finish", !.ok = ok]]
    BY <2>1, <2>2 DEF WorkerState
  <2>4. WorkerStep(w)
    BY <1>7, <2>3 DEF WriteIndex, WorkerStep
  <2>5. QED
    BY <2>3, <2>4, OneWorker
<1>8. ASSUME NEW w \in Workers, Fail(w) PROVE WorkersStep
  BY <1>8, OneWorker DEF Fail, WorkerStep
<1>9. ASSUME NEW w \in Workers, Finish(w) \/ FinishLost(w) PROVE WorkersStep
  BY <1>9, OneWorker DEF Finish, FinishLost, WorkerStep
<1>10. ASSUME NEW p \in Processes, Crash(p) PROVE WorkersStep
  BY <1>10 DEF Crash, WorkersStep, WorkerStep
<1>11. CASE UNCHANGED vars
  BY <1>1, <1>11 DEF vars
<1>12. ASSUME Next, \A w \in Workers : ~(Claiming(w) \/ ClaimCommit(w) \/ Working(w) \/ Fail(w) \/ FinishLost(w)),
              \A p \in Processes : ~Crash(p)
       PROVE  UNCHANGED worker
  BY <1>12 DEF Next, Push, Enqueuing, EnqueueUpdate, EnqueueInsert, EnqueueLost, EnqueueCommit, Lapse,
     BackoffElapses, RetrySyncJob, Heartbeat, Sweep, Ingest, Flushing,
     FlushBegin, FlushCommit, FlushReadTree, FlushWriteIndex, FlushDelete, FlushFail
<1>13. QED
  BY <1>1, <1>3, <1>4, <1>5, <1>6, <1>7, <1>8, <1>9, <1>10, <1>11, <1>12 DEF Working

\* What a step may do to a flusher.
FlushStep(p) ==
    \/ flush'[p] = flush[p]
    \/ flush'[p] = FlushIdle
    \/ /\ flush[p].pc = "idle" /\ flush'[p] = [flush[p] EXCEPT !.pc = "commit"]
       /\ FlushBegin(p)
    \/ /\ flush[p].pc = "commit" /\ flush'[p] = [flush[p] EXCEPT !.pc = "read", !.upTo = points]
       /\ history' = IF points > history[Tip] THEN Append(history, points) ELSE history
    \/ flush[p].pc = "read" /\ flush'[p] = [flush[p] EXCEPT !.pc = "write", !.read = Tip]
    \/ /\ flush[p].pc = "write" /\ FlushWriteIndex(p)
       /\ flush'[p] = [flush[p] EXCEPT !.pc = "delete"]

\* What a step may do to the flushers.
FlushesStep ==
    /\ DOMAIN flush' = Processes /\ flush' = [p \in Processes |-> flush'[p]]
    /\ \A p \in Processes : FlushStep(p)

\* A step of one flusher.
LEMMA OneFlush ==
    ASSUME TypeOK, NEW p \in Processes, NEW f, flush' = [flush EXCEPT ![p] = f], FlushStep(p)
    PROVE  FlushesStep
BY DEF TypeOK, FlushesStep, FlushStep

\* Every step does to the flushers what FlushesStep allows.
LEMMA FlushesAlways == ASSUME TypeOK, [Next]_vars PROVE FlushesStep
<1> USE DEF TypeOK
<1>1. ASSUME UNCHANGED flush PROVE FlushesStep
  BY <1>1 DEF FlushesStep, FlushStep
<1>2. ASSUME NEW p \in Processes, FlushBegin(p) PROVE FlushesStep
  BY <1>2, OneFlush DEF FlushBegin, FlushStep
<1>3. ASSUME NEW p \in Processes, FlushCommit(p) PROVE FlushesStep
  <2>1. flush[p] \in FlushState /\ flush[p].pc = "commit"
    BY <1>3 DEF FlushCommit
  <2>2. CASE deleted = points
    BY <1>3, <2>2, OneFlush DEF FlushCommit, FlushStep
  <2>3. CASE deleted # points
    <3>1. flush' = [flush EXCEPT ![p] = [flush[p] EXCEPT !.pc = "read", !.upTo = points]]
      BY <1>3, <2>1, <2>3 DEF FlushCommit, FlushState
    <3>2. history' = IF points > history[Tip] THEN Append(history, points) ELSE history
      BY <1>3, <2>3 DEF FlushCommit
    <3>3. FlushStep(p)
      BY <2>1, <3>1, <3>2 DEF FlushStep
    <3>4. QED
      BY <3>1, <3>3, OneFlush
  <2>4. QED
    BY <2>2, <2>3
<1>4. ASSUME NEW p \in Processes, FlushReadTree(p) PROVE FlushesStep
  BY <1>4, OneFlush DEF FlushReadTree, FlushStep
<1>5. ASSUME NEW p \in Processes, FlushWriteIndex(p) PROVE FlushesStep
  BY <1>5, OneFlush DEF FlushWriteIndex, FlushStep
<1>6. ASSUME NEW p \in Processes, FlushDelete(p) \/ FlushFail(p) \/ Crash(p) PROVE FlushesStep
  BY <1>6, OneFlush DEF FlushDelete, FlushFail, Crash, FlushStep
<1>7. CASE UNCHANGED vars
  BY <1>1, <1>7 DEF vars
<1>8. ASSUME Next, \A p \in Processes : ~(Flushing(p) \/ Crash(p)) PROVE UNCHANGED flush
  BY <1>8 DEF Next, Push, Enqueuing, EnqueueUpdate, EnqueueInsert, EnqueueLost, EnqueueCommit, Lapse,
     BackoffElapses, RetrySyncJob, Claiming, Claim, ClaimPick, ClaimCommit, Working, TakeLock,
     ReadTree, WriteIndex, Finish, Fail, FinishLost, Heartbeat, Sweep, Ingest
<1>9. QED
  BY <1>1, <1>2, <1>3, <1>4, <1>5, <1>6, <1>7, <1>8 DEF Flushing

\* The index is only ever replaced by a worker or a flusher that writes.
IndexStep ==
    \/ indexed' = indexed
    \/ \E w \in Workers : WriteIndex(w)
    \/ \E p \in Processes : FlushWriteIndex(p)

\* The counters and the pushes under way keep their types.
CountersStep ==
    /\ unqueued' \subseteq unqueued \cup {Tip'}
    /\ inserting' \subseteq inserting \cup unqueued
    /\ points' \in Nat /\ points <= points'
    /\ deleted' \in Nat
    /\ deleted' # deleted => \E p \in Processes : flush[p].pc = "delete" /\ deleted' = flush[p].upTo
    /\ pushes' \in Nat
    /\ retries' \in Nat

\* Every step does to the index and the counters what these two allow.
LEMMA RestAlways == ASSUME TypeOK, [Next]_vars PROVE IndexStep /\ CountersStep
<1> USE DEF TypeOK
<1>1. points <= points /\ Tip \in Nat
  BY DEF Tip
<1>2. CASE Push
  <2>1. Tip' = Tip + 1
    BY <1>2 DEF Push, Tip
  <2>2. QED
    BY <1>1, <1>2, <2>1 DEF Push, IndexStep, CountersStep
<1>3. ASSUME NEW v, Enqueuing(v) PROVE IndexStep /\ CountersStep
  BY <1>1, <1>3 DEF Enqueuing, EnqueueUpdate, EnqueueInsert, EnqueueLost, IndexStep, CountersStep
<1>4. ASSUME NEW i \in 1..Len(rows),
             EnqueueCommit(i) \/ Lapse(i) \/ BackoffElapses(i) \/ RetrySyncJob(i)
      PROVE  IndexStep /\ CountersStep
  BY <1>1, <1>4 DEF EnqueueCommit, Lapse, BackoffElapses, RetrySyncJob, IndexStep, CountersStep
<1>5. ASSUME NEW w \in Workers, Claiming(w) \/ ClaimCommit(w) \/ Fail(w) \/ FinishLost(w) \/ Heartbeat(w)
      PROVE  IndexStep /\ CountersStep
  BY <1>1, <1>5 DEF Claiming, Claim, ClaimPick, ClaimCommit, Fail, FinishLost, Heartbeat, IndexStep,
                    CountersStep
<1>6. ASSUME NEW w \in Workers, Working(w) PROVE IndexStep /\ CountersStep
  BY <1>1, <1>6 DEF Working, TakeLock, ReadTree, WriteIndex, Finish, IndexStep, CountersStep
<1>7. CASE Sweep \/ Ingest
  BY <1>1, <1>7 DEF Sweep, Ingest, IndexStep, CountersStep
<1>8. ASSUME NEW p \in Processes, FlushDelete(p) PROVE IndexStep /\ CountersStep
  <2>1. flush[p].upTo \in Nat
    BY DEF FlushState
  <2>2. QED
    BY <1>1, <1>8, <2>1 DEF FlushDelete, IndexStep, CountersStep
<1>9. ASSUME NEW p \in Processes, Flushing(p) \/ Crash(p), ~FlushDelete(p)
      PROVE  IndexStep /\ CountersStep
  BY <1>1, <1>9 DEF Flushing, FlushBegin, FlushCommit, FlushReadTree, FlushWriteIndex, FlushFail,
                    Crash, IndexStep, CountersStep
<1>10. CASE UNCHANGED vars
  BY <1>1, <1>10 DEF vars, IndexStep, CountersStep
<1>11. QED
  BY <1>2, <1>3, <1>4, <1>5, <1>6, <1>7, <1>8, <1>9, <1>10 DEF Next

(***************************************************************************)
(* Type correctness.                                                       *)
(***************************************************************************)

\* A worker keeps its type, its row, and a version it has read.
LEMMA WorkerStepTyped ==
    ASSUME TypeInv, NEW w \in Workers, WorkerStep(w), Len(rows) <= Len(rows'), Len(rows') \in Nat,
           Tip <= Tip', Tip' \in Nat
    PROVE  /\ worker'[w] \in WorkerState
           /\ worker'[w].pc # "idle" => worker'[w].row \in 1..Len(rows')
           /\ worker'[w].pc = "write" => worker'[w].read \in 1..Tip'
<1>1. /\ worker[w] \in WorkerState
      /\ worker[w].pc # "idle" => worker[w].row \in 1..Len(rows)
      /\ worker[w].pc = "write" => worker[w].read \in 1..Tip
      /\ Tip \in Nat \ {0}
  BY DEF TypeInv, TypeOK, RowsPointed, ReadsKnown, Tip
<1>2. /\ \A v \in 1..Tip : v \in 1..Tip'
      /\ \A i \in 1..Len(rows) : i \in 1..Len(rows') /\ i \in Nat
      /\ Tip \in 1..Tip'
  BY <1>1 DEF TypeInv, TypeOK
<1>3. CASE worker'[w] = worker[w]
  BY <1>1, <1>2, <1>3
<1>4. CASE worker'[w] = WorkerIdle
  BY <1>4 DEF WorkerIdle, WorkerState
<1>5. ASSUME NEW i \in 1..Len(rows),
             \/ worker'[w] = [WorkerIdle EXCEPT !.pc = "claiming", !.row = i]
             \/ worker'[w] = [WorkerIdle EXCEPT !.pc = "lock", !.row = i,
                                 !.seq = rows[i].seq + 1, !.attempts = rows[i].attempts + 1]
      PROVE  worker'[w] \in WorkerState /\ worker'[w].row = i /\ worker'[w].pc # "write"
  <2>1. rows[i] \in RowState
    BY DEF TypeInv, TypeOK
  <2>2. rows[i].seq \in Nat /\ rows[i].attempts \in Nat
    BY <2>1 DEF RowState
  <2>3. rows[i].seq + 1 \in Nat /\ rows[i].attempts + 1 \in Nat
    BY <2>2
  <2>4. i \in Nat /\ WorkerIdle \in WorkerState
    BY <1>2 DEF WorkerIdle, WorkerState
  <2>5. ASSUME NEW m \in Nat, NEW n \in Nat,
               worker'[w] = [WorkerIdle EXCEPT !.pc = "lock", !.row = i, !.seq = m, !.attempts = n]
        PROVE  worker'[w] \in WorkerState /\ worker'[w].row = i /\ worker'[w].pc # "write"
    BY <2>4, <2>5 DEF WorkerState
  <2>6. CASE worker'[w] = [WorkerIdle EXCEPT !.pc = "claiming", !.row = i]
    BY <2>4, <2>6 DEF WorkerState
  <2>7. QED
    BY <1>5, <2>3, <2>5, <2>6
<1>6. CASE worker[w].pc = "lock" /\ worker'[w] = [worker[w] EXCEPT !.pc = "read"]
  BY <1>1, <1>2, <1>6 DEF WorkerState
<1>7. CASE worker[w].pc = "read" /\ worker'[w] = [worker[w] EXCEPT !.pc = "write", !.read = Tip]
  BY <1>1, <1>2, <1>7 DEF WorkerState
<1>8. ASSUME NEW ok \in BOOLEAN, worker[w].pc \in {"lock", "read", "write"},
             worker'[w] = [worker[w] EXCEPT !.pc = "finish", !.ok = ok]
      PROVE  worker'[w] \in WorkerState /\ worker'[w].pc = "finish" /\ worker'[w].row = worker[w].row
  BY <1>1, <1>8 DEF WorkerState
<1>9. QED
  BY <1>1, <1>2, <1>3, <1>4, <1>5, <1>6, <1>7, <1>8 DEF WorkerStep

\* So does a flusher.
LEMMA FlushStepTyped ==
    ASSUME TypeInv, NEW p \in Processes, FlushStep(p), Tip <= Tip', Tip' \in Nat
    PROVE  /\ flush'[p] \in FlushState
           /\ flush'[p].pc = "write" => flush'[p].read \in 1..Tip'
<1>1. /\ flush[p] \in FlushState
      /\ flush[p].pc = "write" => flush[p].read \in 1..Tip
      /\ Tip \in Nat \ {0}
      /\ points \in Nat
  BY DEF TypeInv, TypeOK, ReadsKnown, Tip
<1>2. (\A v \in 1..Tip : v \in 1..Tip') /\ Tip \in 1..Tip'
  BY <1>1
<1>3. CASE flush'[p] = flush[p] \/ flush'[p] = FlushIdle
  BY <1>1, <1>2, <1>3 DEF FlushIdle, FlushState
<1>4. CASE flush'[p] = [flush[p] EXCEPT !.pc = "commit"] \/ flush'[p] = [flush[p] EXCEPT !.pc = "delete"]
  BY <1>1, <1>4 DEF FlushState
<1>5. CASE flush'[p] = [flush[p] EXCEPT !.pc = "read", !.upTo = points]
  BY <1>1, <1>5 DEF FlushState
<1>6. CASE flush'[p] = [flush[p] EXCEPT !.pc = "write", !.read = Tip]
  BY <1>1, <1>2, <1>6 DEF FlushState
<1>7. QED
  BY <1>3, <1>4, <1>5, <1>6 DEF FlushStep

\* Every step keeps the types.
LEMMA TypeStep == TypeInv /\ [Next]_vars => TypeInv'
<1> SUFFICES ASSUME TypeInv, [Next]_vars PROVE TypeInv'
  OBVIOUS
<1>1. RowsStep /\ HistoryStep /\ WorkersStep /\ FlushesStep /\ IndexStep /\ CountersStep
  BY RowsAlways, HistoryAlways, WorkersAlways, FlushesAlways, RestAlways DEF TypeInv
<1>2. /\ history' \in Seq(Nat) /\ Tip' \in Nat \ {0} /\ Tip <= Tip' /\ Tip \in Nat \ {0}
      /\ rows' \in Seq(RowState) /\ Len(rows') \in Nat /\ Len(rows) <= Len(rows') /\ Len(rows) \in Nat
  BY <1>1 DEF TypeInv, TypeOK, HistoryStep, RowsStep, Tip
<1>3. history' # <<>>
  BY <1>2 DEF Tip
<1>4. indexed' \in 1..Tip'
  <2>1. indexed' \in 1..Tip
    BY <1>1 DEF IndexStep, WriteIndex, FlushWriteIndex, TypeInv, TypeOK, ReadsKnown
  <2>2. QED
    BY <1>2, <2>1
<1>5. unqueued' \subseteq 1..Tip' /\ inserting' \subseteq 1..Tip'
  BY <1>1, <1>2 DEF CountersStep, TypeInv, TypeOK
<1>6. worker' \in [Workers -> WorkerState] /\ RowsPointed'
  BY <1>1, <1>2, WorkerStepTyped DEF WorkersStep, RowsPointed
<1>7. flush' \in [Processes -> FlushState]
  BY <1>1, <1>2, FlushStepTyped DEF FlushesStep
<1>8. ReadsKnown'
  BY <1>1, <1>2, WorkerStepTyped, FlushStepTyped DEF FlushesStep, WorkersStep, ReadsKnown
<1>9. ShasKnown'
  <2>1. ASSUME NEW i \in 1..Len(rows') PROVE rows'[i].sha \in 1..Tip'
    <3>1. \A v \in 1..Tip : v \in 1..Tip'
      BY <1>2
    <3>2. \A v \in unqueued \cup inserting : v \in 1..Tip'
      BY <3>1 DEF TypeInv, TypeOK
    <3>3. CASE i \in 1..Len(rows)
      <4>1. rows[i].sha \in 1..Tip /\ RowStep(i)
        BY <1>1, <3>3 DEF RowsStep, TypeInv, ShasKnown
      <4>2. rows'[i].sha = rows[i].sha \/ rows'[i].sha \in unqueued
        BY <4>1 DEF RowStep
      <4>3. QED
        BY <3>1, <3>2, <4>1, <4>2
    <3>4. CASE i \in (Len(rows) + 1)..Len(rows')
      <4>1. rows'[i].sha \in inserting
        BY <1>1, <3>4 DEF RowsStep, NewRowStep
      <4>2. QED
        BY <3>2, <4>1
    <3>5. QED
      BY <1>2, <3>3, <3>4
  <2>2. QED
    BY <2>1 DEF ShasKnown
<1>10. QED
  BY <1>1, <1>2, <1>3, <1>4, <1>5, <1>6, <1>7, <1>8, <1>9 DEF TypeInv, TypeOK, CountersStep

\* The first state has them.
LEMMA TypeInit == Init => TypeInv
<1> SUFFICES ASSUME Init PROVE TypeInv
  OBVIOUS
<1>1. /\ history = <<0>> /\ rows = <<>> /\ Tip = 1 /\ Len(rows) = 0
  BY DEF Init, Tip
<1>2. QED
  BY <1>1 DEF Init, TypeInv, TypeOK, RowsPointed, ReadsKnown, ShasKnown, WorkerIdle, WorkerState,
              FlushIdle, FlushState

\* The strengthened type invariant holds throughout.
LEMMA TypeInvariance == Spec => []TypeInv
BY TypeInit, TypeStep, PTL DEF Spec

\* The state keeps its shape: rows, workers, flushers and counters, whatever
\* crashes, lapses and retries there are.
THEOREM TypeCorrect == Spec => []TypeOK
<1>1. TypeInv => TypeOK
  BY DEF TypeInv
<1>2. QED
  BY <1>1, TypeInvariance, PTL

(***************************************************************************)
(* One claim at a time, on SQLite.                                         *)
(***************************************************************************)

\* A worker at rest.
LEMMA IdleTyped == WorkerIdle \in WorkerState /\ WorkerIdle.pc = "idle" /\ WorkerIdle.row = 0
BY DEF WorkerIdle, WorkerState

\* The states of a worker a step may lead to, by its program counter.
LEMMA WorkerPcStep ==
    ASSUME TypeOK, NEW w \in Workers, WorkerStep(w)
    PROVE  \/ worker'[w] = worker[w]
           \/ worker'[w].pc = "idle"
           \/ worker'[w].pc = "claiming" /\ Engine = "postgres"
           \/ /\ worker'[w].pc = "lock"
              /\ worker'[w].row \in 1..Len(rows)
              /\ worker'[w].seq = rows'[worker'[w].row].seq
           \/ /\ worker[w].pc \notin {"idle", "claiming"}
              /\ worker'[w].row = worker[w].row /\ worker'[w].seq = worker[w].seq
              /\ \/ worker'[w].pc = "read" /\ TakeLock(w)
                 \/ worker'[w].pc = "write" /\ worker'[w].read = Tip /\ worker[w].pc = "read"
                 \/ worker'[w].pc = "finish" /\ WriteIndex(w)
                 \/ worker'[w].pc = "finish" /\ worker'[w].ok = FALSE
<1>1. worker[w] \in WorkerState /\ \A i \in 1..Len(rows) : rows[i] \in RowState
  BY DEF TypeOK
<1>2. CASE worker'[w] = WorkerIdle
  BY <1>2, IdleTyped
<1>3. ASSUME NEW i \in 1..Len(rows), Engine = "postgres",
             worker'[w] = [WorkerIdle EXCEPT !.pc = "claiming", !.row = i]
      PROVE  worker'[w].pc = "claiming"
  BY <1>3, IdleTyped DEF WorkerState
<1>4. ASSUME NEW i \in 1..Len(rows),
             worker'[w] = [WorkerIdle EXCEPT !.pc = "lock", !.row = i,
                                 !.seq = rows[i].seq + 1, !.attempts = rows[i].attempts + 1]
      PROVE  worker'[w].pc = "lock" /\ worker'[w].row = i /\ worker'[w].seq = rows[i].seq + 1
  BY <1>4, IdleTyped DEF WorkerState
<1>5. QED
  BY <1>1, <1>2, <1>3, <1>4 DEF WorkerStep, WorkerState

\* On SQLite a claim is one statement, so no worker is between the read of a
\* claimable row and its update.
AloneInv ==
    /\ TypeInv
    /\ \A w \in Workers : worker[w].pc # "claiming"
    /\ ClaimsAlone

\* Every step keeps one claim at a time.
LEMMA AloneStep == ASSUME Engine = "sqlite", AloneInv, [Next]_vars PROVE AloneInv'
<1>1. TypeInv' /\ RowsStep /\ WorkersStep
  BY TypeStep, RowsAlways, WorkersAlways DEF AloneInv, TypeInv
<1>2. ASSUME NEW w \in Workers PROVE worker'[w].pc # "claiming"
  BY <1>1, WorkerPcStep DEF WorkersStep, AloneInv, TypeInv
<1>3. ASSUME NEW i \in 1..Len(rows'), NEW j \in 1..Len(rows'),
             rows'[i].status = "running", rows'[j].status = "running"
      PROVE  i = j
  <2>1. Len(rows) \in Nat /\ Len(rows') \in Nat
    BY <1>1 DEF AloneInv, TypeInv, TypeOK
  <2>2. i \in 1..Len(rows) /\ j \in 1..Len(rows)
    BY <1>1, <1>3, <2>1 DEF RowsStep, NewRowStep
  <2>3. ASSUME NEW k \in 1..Len(rows), Granted(k), NEW l \in 1..Len(rows), l # k
        PROVE  rows'[l].status # "running"
    <3>1. PICK w \in Workers : Grant(w, k) /\ Claimable(k)
      BY <2>3 DEF Granted, AloneInv
    <3>2. rows[l].status # "running"
      BY <3>1 DEF Claimable
    <3>3. rows'[l] = rows[l]
      BY <2>3, <3>1 DEF Grant, AloneInv, TypeInv, TypeOK
    <3>4. QED
      BY <3>2, <3>3
  <2>4. ASSUME NEW k \in {i, j} PROVE rows[k].status = "running" \/ Granted(k)
    BY <1>1, <1>3, <2>2 DEF RowsStep, RowStep
  <2>5. QED
    BY <1>3, <2>2, <2>3, <2>4 DEF AloneInv, ClaimsAlone
<1>4. QED
  BY <1>1, <1>2, <1>3 DEF AloneInv, ClaimsAlone

\* On SQLite a ref never has two jobs running, however many workers poll, leases
\* lapse and workers die (ClaimSyncJob, store/jobs.go).
THEOREM AlwaysAlone == Engine = "sqlite" => (Spec => []ClaimsAlone)
<1> SUFFICES ASSUME Engine = "sqlite" PROVE Spec => []ClaimsAlone
  OBVIOUS
<1>1. Init => AloneInv
  BY TypeInit, IdleTyped DEF Init, AloneInv, ClaimsAlone
<1>2. AloneInv /\ [Next]_vars => AloneInv'
  BY AloneStep
<1>3. AloneInv => ClaimsAlone
  BY DEF AloneInv
<1>4. QED
  BY <1>1, <1>2, <1>3, PTL DEF Spec

(***************************************************************************)
(* What a finished job vouches for, in one replica.                        *)
(***************************************************************************)

\* One replica serves the instance, with any number of workers.
OneReplica == \A p, q \in Processes : p = q

\* Worker w is between its read of the tree and its write of the index.
Indexing(w) == worker[w].pc \in {"read", "write"}

\* refLocks keep the index writers of the process apart.
Serial ==
    /\ \A v, w \in Workers : Indexing(v) /\ Indexing(w) => v = w
    /\ \A w \in Workers, p \in Processes : Indexing(w) => flush[p].pc = "idle"

\* What is about to be written is not older than what is there.
Fresh ==
    /\ \A w \in Workers : worker[w].pc = "write" => indexed <= worker[w].read
    /\ \A p \in Processes : flush[p].pc = "write" => indexed <= flush[p].read

\* A claim of the row later than a worker's has a higher token.
TokensGrow ==
    \A w \in Workers :
        worker[w].pc \notin {"idle", "claiming"} => worker[w].seq <= rows[worker[w].row].seq

\* While a worker holds its claim, what it read is new enough for the job.
Vouched ==
    \A w \in Workers : Holds(w) =>
        /\ worker[w].pc = "write" => rows[worker[w].row].sha <= worker[w].read
        /\ worker[w].pc = "finish" /\ worker[w].ok => rows[worker[w].row].sha <= indexed

\* The inductive invariant: a finished job vouches for the index because writers
\* take turns, the index never goes back, and a worker that lost its claim has an
\* older token.
DoneInv == TypeInv /\ Serial /\ Fresh /\ TokensGrow /\ Vouched /\ DoneIsIndexed

\* The states of a flusher a step may lead to, by its program counter.
LEMMA FlushPcStep ==
    ASSUME TypeOK, NEW p \in Processes, FlushStep(p)
    PROVE  \/ flush'[p] = flush[p]
           \/ flush'[p].pc = "idle"
           \/ flush'[p].pc = "commit" /\ FlushBegin(p)
           \/ /\ flush[p].pc = "commit" /\ flush'[p].pc = "read" /\ flush'[p].upTo = points
              /\ history' = IF points > history[Tip] THEN Append(history, points) ELSE history
           \/ /\ flush[p].pc = "read" /\ flush'[p].pc = "write"
              /\ flush'[p].read = Tip /\ flush'[p].upTo = flush[p].upTo
           \/ /\ flush[p].pc = "write" /\ flush'[p].pc = "delete"
              /\ FlushWriteIndex(p) /\ flush'[p].upTo = flush[p].upTo
<1>1. flush[p] \in FlushState /\ FlushIdle \in FlushState /\ FlushIdle.pc = "idle"
  BY DEF TypeOK, FlushIdle, FlushState
<1>2. QED
  BY <1>1 DEF FlushStep, FlushState

\* Every step keeps the writers apart.
LEMMA SerialStep == ASSUME OneReplica, DoneInv, [Next]_vars PROVE Serial'
<1>1. WorkersStep /\ FlushesStep
  BY WorkersAlways, FlushesAlways DEF DoneInv, TypeInv
<1>2. /\ \A w \in Workers, p \in Processes : Host[w] = p
      /\ \A w \in Workers : Host[w] \in Processes
  BY QueueAssumption DEF OneReplica
<1>3. ASSUME NEW w \in Workers, TakeLock(w) PROVE Serial'
  <2>1. /\ \A v \in Workers : v # w => worker'[v] = worker[v]
        /\ \A v \in Workers : ~Indexing(v)
        /\ \A p \in Processes : flush'[p].pc = "idle"
    <3>1. worker \in [Workers -> WorkerState]
      BY DEF DoneInv, TypeInv, TypeOK
    <3>2. \A v \in Workers : v # w => worker'[v] = worker[v]
      BY <1>3, <3>1 DEF TakeLock
    <3>3. QED
      <4>1. LockFree(Host[w]) /\ flush' = flush
        BY <1>3 DEF TakeLock
      <4>2. \A v \in Workers : Host[v] = Host[w]
        BY <1>2
      <4>3. QED
        BY <1>2, <3>2, <4>1, <4>2 DEF LockFree, Indexing
  <2>2. QED
    BY <2>1 DEF Serial, Indexing
<1>4. ASSUME NEW p \in Processes, FlushBegin(p) PROVE Serial'
  BY <1>2, <1>4 DEF FlushBegin, LockFree, Serial, Indexing
<1>5. ASSUME \A w \in Workers : ~TakeLock(w), \A p \in Processes : ~FlushBegin(p) PROVE Serial'
  <2>1. ASSUME NEW w \in Workers, Indexing(w)' PROVE Indexing(w)
    BY <1>1, <1>5, <2>1, WorkerPcStep DEF WorkersStep, DoneInv, TypeInv, Indexing
  <2>2. ASSUME NEW p \in Processes, flush[p].pc = "idle" PROVE flush'[p].pc = "idle"
    BY <1>1, <1>5, <2>2, FlushPcStep DEF FlushesStep, DoneInv, TypeInv
  <2>3. QED
    BY <2>1, <2>2 DEF DoneInv, Serial
<1>6. QED
  BY <1>3, <1>4, <1>5

\* Every step keeps what is about to be written fresh; the index never goes back.
LEMMA FreshStep ==
    ASSUME OneReplica, DoneInv, [Next]_vars PROVE Fresh' /\ indexed <= indexed'
<1>1. WorkersStep /\ FlushesStep /\ IndexStep
  BY WorkersAlways, FlushesAlways, RestAlways DEF DoneInv, TypeInv
<1>2. /\ indexed \in Nat /\ Tip \in Nat /\ indexed <= Tip
      /\ worker \in [Workers -> WorkerState] /\ flush \in [Processes -> FlushState]
  BY DEF DoneInv, TypeInv, TypeOK, Tip
<1>3. CASE indexed' = indexed
  <2>1. ASSUME NEW w \in Workers, worker'[w].pc = "write" PROVE indexed <= worker'[w].read
    <3>1. worker'[w] = worker[w] \/ worker'[w].read = Tip
      BY <1>1, <2>1, WorkerPcStep DEF WorkersStep, DoneInv, TypeInv
    <3>2. QED
      BY <1>2, <2>1, <3>1 DEF DoneInv, Fresh
  <2>2. ASSUME NEW p \in Processes, flush'[p].pc = "write" PROVE indexed <= flush'[p].read
    <3>1. flush'[p] = flush[p] \/ flush'[p].read = Tip
      BY <1>1, <2>2, FlushPcStep DEF FlushesStep, DoneInv, TypeInv
    <3>2. QED
      BY <1>2, <2>2, <3>1 DEF DoneInv, Fresh
  <2>3. QED
    BY <1>2, <1>3, <2>1, <2>2 DEF Fresh
<1>4. ASSUME NEW w \in Workers, WriteIndex(w) PROVE Fresh' /\ indexed <= indexed'
  <2>1. /\ worker[w].pc = "write" /\ indexed' = worker[w].read
        /\ \A v \in Workers : v # w => worker'[v] = worker[v]
        /\ worker'[w].pc = "finish" /\ flush' = flush
    BY <1>2, <1>4 DEF WriteIndex, WorkerState
  <2>2. /\ \A v \in Workers : v # w => worker[v].pc # "write"
        /\ \A p \in Processes : flush[p].pc = "idle"
    BY <2>1 DEF DoneInv, Serial, Indexing
  <2>3. QED
    BY <2>1, <2>2 DEF DoneInv, Fresh
<1>5. ASSUME NEW p \in Processes, FlushWriteIndex(p) PROVE Fresh' /\ indexed <= indexed'
  <2>1. /\ flush[p].pc = "write" /\ indexed' = flush[p].read
        /\ \A q \in Processes : q = p
        /\ flush'[p].pc = "delete" /\ worker' = worker
    BY <1>2, <1>5 DEF FlushWriteIndex, FlushState, OneReplica
  <2>2. \A w \in Workers : worker[w].pc # "write"
    BY <2>1 DEF DoneInv, Serial, Indexing
  <2>3. QED
    BY <2>1, <2>2 DEF DoneInv, Fresh
<1>6. QED
  BY <1>1, <1>3, <1>4, <1>5 DEF IndexStep

\* A worker that holds its claim after a step held it before, for the same job.
LEMMA ClaimKept ==
    ASSUME TypeInv, TokensGrow, RowsStep, NEW w \in Workers,
           worker[w].pc \notin {"idle", "claiming"},
           worker'[w].row = worker[w].row, worker'[w].seq = worker[w].seq, Holds(w)'
    PROVE  Holds(w) /\ rows'[worker[w].row].sha = rows[worker[w].row].sha
<1> DEFINE i == worker[w].row
<1>1. /\ i \in 1..Len(rows) /\ RowStep(i)
      /\ rows[i] \in RowState /\ worker[w] \in WorkerState
      /\ worker[w].seq <= rows[i].seq
  BY DEF TypeInv, TypeOK, RowsPointed, TokensGrow, RowsStep
<1>2. rows'[i].status = "running" /\ rows'[i].seq = worker[w].seq
  BY DEF Holds
<1> HIDE DEF i
<1>3. rows[i].seq \in Nat /\ worker[w].seq \in Nat
  BY <1>1 DEF RowState, WorkerState
<1>4. rows[i].seq <= rows'[i].seq
  BY <1>1 DEF RowStep
<1>5. rows[i].seq = worker[w].seq /\ rows'[i].seq # rows[i].seq + 1
  BY <1>1, <1>2, <1>3, <1>4
<1>6. rows[i].status = "running" /\ rows'[i].sha = rows[i].sha
  BY <1>1, <1>2, <1>5 DEF RowStep
<1>7. QED
  BY <1>1, <1>5, <1>6 DEF Holds, i

\* Every step keeps the tokens of old claims old.
LEMMA TokensStep == ASSUME TypeInv, TokensGrow, [Next]_vars PROVE TokensGrow'
<1>1. RowsStep /\ WorkersStep /\ TypeInv'
  BY RowsAlways, WorkersAlways, TypeStep DEF TypeInv
<1>2. ASSUME NEW w \in Workers, worker'[w].pc \notin {"idle", "claiming"}
      PROVE  worker'[w].seq <= rows'[worker'[w].row].seq
  <2>1. CASE worker[w].pc \notin {"idle", "claiming"} /\ worker'[w].row = worker[w].row
             /\ worker'[w].seq = worker[w].seq
    <3> DEFINE i == worker[w].row
    <3>1. i \in 1..Len(rows) /\ worker[w].seq <= rows[i].seq /\ rows[i].seq <= rows'[i].seq
      BY <1>1, <2>1 DEF TypeInv, RowsPointed, TokensGrow, RowsStep, RowStep
    <3>2. i \in 1..Len(rows')
      BY <1>1, <1>2, <2>1 DEF TypeInv, RowsPointed
    <3>3. rows[i] \in RowState /\ rows'[i] \in RowState /\ worker[w] \in WorkerState
      BY <1>1, <3>1, <3>2 DEF TypeInv, TypeOK
    <3>4. rows[i].seq \in Nat /\ rows'[i].seq \in Nat /\ worker[w].seq \in Nat
      BY <3>3 DEF RowState, WorkerState
    <3>5. QED
      BY <2>1, <3>1, <3>4
  <2>2. CASE worker'[w].seq = rows'[worker'[w].row].seq /\ worker'[w].pc = "lock"
    <3>1. worker'[w] \in WorkerState
      BY <1>1 DEF TypeInv, TypeOK
    <3>2. worker'[w].seq \in Nat
      BY <3>1 DEF WorkerState
    <3>3. QED
      BY <2>2, <3>2
  <2>3. QED
    BY <1>1, <1>2, <2>1, <2>2, WorkerPcStep DEF WorkersStep, TypeInv
<1>3. QED
  BY <1>2 DEF TokensGrow

\* Every step keeps what a holder of a claim may vouch for.
LEMMA VouchedStep == ASSUME OneReplica, DoneInv, [Next]_vars PROVE Vouched'
<1>1. RowsStep /\ WorkersStep /\ TypeInv' /\ TypeInv /\ indexed <= indexed'
  BY RowsAlways, WorkersAlways, TypeStep, FreshStep DEF DoneInv, TypeInv
<1>2. indexed \in Nat /\ indexed' \in Nat /\ Tip \in Nat
  BY <1>1 DEF TypeInv, TypeOK, Tip
<1>3. ASSUME NEW w \in Workers, Holds(w)'
      PROVE  /\ worker'[w].pc = "write" => rows'[worker'[w].row].sha <= worker'[w].read
             /\ worker'[w].pc = "finish" /\ worker'[w].ok => rows'[worker'[w].row].sha <= indexed'
  <2> DEFINE i == worker[w].row
  <2>1. CASE worker'[w].pc \notin {"write", "finish"}
    BY <2>1
  <2>2. CASE worker'[w].pc \in {"write", "finish"}
    <3>1. /\ worker[w].pc \notin {"idle", "claiming"}
          /\ worker'[w].row = i /\ worker'[w].seq = worker[w].seq
          /\ \/ worker'[w] = worker[w]
             \/ worker'[w].pc = "write" /\ worker'[w].read = Tip /\ worker[w].pc = "read"
             \/ worker'[w].pc = "finish" /\ WriteIndex(w)
             \/ worker'[w].pc = "finish" /\ worker'[w].ok = FALSE
      BY <1>1, <2>2, WorkerPcStep DEF WorkersStep, TypeInv
    <3>2. Holds(w) /\ rows'[i].sha = rows[i].sha
      BY <1>1, <1>3, <3>1, ClaimKept DEF DoneInv
    <3>3. i \in 1..Len(rows) /\ rows[i].sha \in 1..Tip
      BY <1>1, <3>1 DEF TypeInv, RowsPointed, ShasKnown
    <3>4. /\ worker[w].pc = "write" => rows[i].sha <= worker[w].read
          /\ worker[w].pc = "finish" /\ worker[w].ok => rows[i].sha <= indexed
      BY <3>2 DEF DoneInv, Vouched
    <3> HIDE DEF i
    <3>5. CASE worker'[w] = worker[w]
      BY <1>1, <1>2, <3>1, <3>2, <3>3, <3>4, <3>5
    <3>6. CASE worker'[w].pc = "write" /\ worker'[w].read = Tip
      BY <1>2, <3>1, <3>2, <3>3, <3>6
    <3>7. CASE worker'[w].pc = "finish" /\ WriteIndex(w)
      BY <3>1, <3>2, <3>4, <3>7 DEF WriteIndex
    <3>8. QED
      BY <3>1, <3>5, <3>6, <3>7
  <2>3. QED
    BY <2>1, <2>2
<1>4. QED
  BY <1>3 DEF Vouched

\* Every step keeps finished jobs indexed.
LEMMA DoneStep == ASSUME OneReplica, DoneInv, [Next]_vars PROVE DoneIsIndexed'
<1>1. RowsStep /\ TypeInv' /\ TypeInv /\ indexed <= indexed'
  BY RowsAlways, TypeStep, FreshStep DEF DoneInv, TypeInv
<1>2. indexed \in Nat /\ indexed' \in Nat /\ Len(rows) \in Nat /\ Len(rows') \in Nat
  BY <1>1 DEF TypeInv, TypeOK
<1>3. ASSUME NEW i \in 1..Len(rows'), rows'[i].status = "done" PROVE rows'[i].sha <= indexed'
  <2>1. i \in 1..Len(rows)
    BY <1>1, <1>2, <1>3 DEF RowsStep, NewRowStep
  <2>2. RowStep(i) /\ rows[i].sha \in Nat
    BY <1>1, <2>1 DEF RowsStep, TypeInv, ShasKnown
  <2>3. rows'[i].sha = rows[i].sha
    BY <1>3, <2>2 DEF RowStep
  <2>4. rows[i].sha <= indexed
    BY <1>3, <2>1, <2>2 DEF RowStep, DoneInv, DoneIsIndexed, Vouched
  <2>5. QED
    BY <1>1, <1>2, <2>2, <2>3, <2>4
<1>4. QED
  BY <1>3 DEF DoneIsIndexed

\* The first state has all of it.
LEMMA DoneInit == Init => DoneInv
BY TypeInit, IdleTyped
   DEF Init, DoneInv, Serial, Fresh, TokensGrow, Vouched, DoneIsIndexed, Indexing, FlushIdle, Holds

\* With one replica the inductive invariant holds throughout.
LEMMA DoneInvariance == OneReplica => (Spec => []DoneInv)
<1> SUFFICES ASSUME OneReplica PROVE Spec => []DoneInv
  OBVIOUS
<1>1. ASSUME DoneInv, [Next]_vars PROVE DoneInv'
  BY <1>1, TypeStep, SerialStep, FreshStep, TokensStep, VouchedStep, DoneStep DEF DoneInv
<1>2. QED
  BY <1>1, DoneInit, PTL DEF Spec

\* With one replica a job marked done has its version, or a later one, in the
\* index, even when its worker was presumed dead and another took it over
\* (FinishSyncJob writes only under the token, store/jobs.go).
THEOREM DoneVouches == OneReplica => (Spec => []DoneIsIndexed)
<1>1. DoneInv => DoneIsIndexed
  BY DEF DoneInv
<1>2. QED
  BY <1>1, DoneInvariance, PTL

(***************************************************************************)
(* Points stay in the chart, in one replica.                               *)
(***************************************************************************)

\* A later version carries no fewer points, and none that were not ingested.
VersionsGrow ==
    /\ \A u, v \in 1..Tip : u <= v => history[u] <= history[v]
    /\ history[Tip] <= points

\* What a flush will delete is in what it committed, read and indexed.
FlushCarries ==
    \A p \in Processes :
        /\ flush[p].pc = "read" => flush[p].upTo <= history[Tip]
        /\ flush[p].pc = "write" => flush[p].upTo <= history[flush[p].read]
        /\ flush[p].pc = "delete" => flush[p].upTo <= history[indexed]

\* The inductive invariant of the chart.
ChartInv == DoneInv /\ VersionsGrow /\ FlushCarries /\ ChartKeepsPoints

\* Versions and what they count, before a step and after it.
LEMMA VersionsTyped ==
    /\ TypeInv =>
        /\ Tip \in Nat \ {0} /\ indexed \in 1..Tip /\ points \in Nat
        /\ \A v \in 1..Tip : history[v] \in Nat
    /\ TypeInv' =>
        /\ Tip' \in Nat \ {0} /\ indexed' \in 1..Tip' /\ points' \in Nat
        /\ \A v \in 1..Tip' : history'[v] \in Nat
<1>1. TypeInv =>
        /\ Tip \in Nat \ {0} /\ indexed \in 1..Tip /\ points \in Nat
        /\ \A v \in 1..Tip : history[v] \in Nat
  BY DEF TypeInv, TypeOK, Tip
<1>2. TypeInv' =>
        /\ Tip' \in Nat \ {0} /\ indexed' \in 1..Tip' /\ points' \in Nat
        /\ \A v \in 1..Tip' : history'[v] \in Nat
  BY DEF TypeInv, TypeOK, Tip
<1>3. QED
  BY <1>1, <1>2

\* Every step keeps the versions growing.
LEMMA VersionsStep ==
    ASSUME TypeInv, VersionsGrow, [Next]_vars
    PROVE  VersionsGrow' /\ history[Tip] <= history'[Tip']
<1>1. HistoryStep /\ CountersStep /\ TypeInv'
  BY HistoryAlways, RestAlways, TypeStep DEF TypeInv
<1>2. /\ Tip \in Nat \ {0} /\ Tip' \in Nat \ {0} /\ Tip <= Tip' /\ Tip' <= Tip + 1
      /\ points \in Nat /\ points' \in Nat /\ points <= points'
  BY <1>1, VersionsTyped DEF HistoryStep, CountersStep
<1>3. \A v \in 1..Tip : history'[v] = history[v] /\ history[v] \in Nat
  BY <1>1, VersionsTyped DEF HistoryStep
<1>4. \A v \in (Tip + 1)..Tip' : history[Tip] <= history'[v] /\ history'[v] \in {history[Tip], points}
  BY <1>1 DEF HistoryStep
<1>5. history[Tip] \in Nat /\ history[Tip] <= points /\ \A v \in 1..Tip : history[v] <= history[Tip]
  BY <1>2, <1>3 DEF VersionsGrow
<1>6. CASE Tip' = Tip
  BY <1>2, <1>3, <1>5, <1>6 DEF VersionsGrow
<1>7. CASE Tip' = Tip + 1
  <2>1. /\ history'[Tip'] \in Nat /\ history[Tip] <= history'[Tip'] /\ history'[Tip'] <= points
    BY <1>2, <1>4, <1>5, <1>7
  <2>2. ASSUME NEW u \in 1..Tip', NEW v \in 1..Tip', u <= v PROVE history'[u] <= history'[v]
    <3>1. CASE v = Tip'
      BY <1>2, <1>3, <1>5, <1>7, <2>1, <3>1
    <3>2. CASE v # Tip'
      BY <1>2, <1>3, <1>7, <2>2, <3>2 DEF VersionsGrow
    <3>3. QED
      BY <3>1, <3>2
  <2>3. QED
    BY <1>2, <2>1, <2>2 DEF VersionsGrow
<1>8. QED
  BY <1>2, <1>6, <1>7

\* The version the index describes carries no fewer points than before.
LEMMA IndexedGrows ==
    ASSUME OneReplica, ChartInv, [Next]_vars
    PROVE  history[indexed] <= history'[indexed']
<1>1. /\ HistoryStep /\ TypeInv /\ TypeInv' /\ VersionsGrow' /\ indexed <= indexed'
  BY HistoryAlways, FreshStep, TypeStep, VersionsStep DEF ChartInv, DoneInv, TypeInv
<1>2. history[indexed] = history'[indexed] /\ indexed \in 1..Tip'
  BY <1>1 DEF HistoryStep, TypeInv, TypeOK, Tip
<1>3. indexed' \in 1..Tip'
  BY <1>1 DEF TypeInv, TypeOK
<1>4. QED
  BY <1>1, <1>2, <1>3 DEF VersionsGrow

\* Every step keeps what a flush is to delete in what it committed.
LEMMA FlushCarriesStep ==
    ASSUME OneReplica, ChartInv, [Next]_vars
    PROVE  FlushCarries'
<1>1. /\ HistoryStep /\ FlushesStep /\ TypeInv /\ TypeInv' /\ VersionsGrow
      /\ history[Tip] <= history'[Tip'] /\ history[indexed] <= history'[indexed']
  BY HistoryAlways, FlushesAlways, TypeStep, VersionsStep, IndexedGrows DEF ChartInv, DoneInv, TypeInv
<1>2. /\ Tip \in Nat \ {0} /\ Tip' \in Nat \ {0} /\ Tip <= Tip' /\ indexed \in 1..Tip /\ indexed' \in 1..Tip'
      /\ points \in Nat
  BY <1>1, VersionsTyped DEF HistoryStep
<1>3. /\ \A v \in 1..Tip : history'[v] = history[v] /\ history[v] \in Nat
      /\ history'[Tip'] \in Nat /\ history'[indexed'] \in Nat
  BY <1>1, <1>2, VersionsTyped DEF HistoryStep
<1>4. ASSUME NEW p \in Processes
      PROVE  /\ flush'[p].pc = "read" => flush'[p].upTo <= history'[Tip']
             /\ flush'[p].pc = "write" => flush'[p].upTo <= history'[flush'[p].read]
             /\ flush'[p].pc = "delete" => flush'[p].upTo <= history'[indexed']
  <2>1. flush[p] \in FlushState /\ (flush[p].pc = "write" => flush[p].read \in 1..Tip)
    BY <1>1 DEF TypeInv, TypeOK, ReadsKnown
  <2>2. flush[p].upTo \in Nat
    BY <2>1 DEF FlushState
  <2>3. /\ flush[p].pc = "read" => flush[p].upTo <= history[Tip]
        /\ flush[p].pc = "write" => flush[p].upTo <= history[flush[p].read]
        /\ flush[p].pc = "delete" => flush[p].upTo <= history[indexed]
    BY DEF ChartInv, FlushCarries
  <2>4. CASE flush'[p] = flush[p]
    BY <1>1, <1>2, <1>3, <2>1, <2>2, <2>3, <2>4
  <2>5. CASE flush'[p].pc \in {"idle", "commit"}
    BY <2>5
  <2>6. CASE /\ flush'[p].pc = "read" /\ flush'[p].upTo = points
             /\ history' = IF points > history[Tip] THEN Append(history, points) ELSE history
    <3>1. CASE points > history[Tip]
      <4>1. history \in Seq(Nat)
        BY <1>1 DEF TypeInv, TypeOK
      <4>2. Tip' = Tip + 1 /\ history'[Tip + 1] = points
        BY <1>2, <2>6, <3>1, <4>1 DEF Tip
      <4>3. history'[Tip'] = points
        BY <4>2
      <4>4. flush'[p].pc = "read" /\ flush'[p].upTo <= history'[Tip']
        <5>1. flush'[p].pc = "read" /\ flush'[p].upTo = points
          BY <2>6
        <5>2. QED
          BY <1>2, <4>3, <5>1
      <4>5. QED
        BY <4>4
    <3>2. CASE ~(points > history[Tip])
      BY <1>1, <1>2, <1>3, <2>6, <3>2
    <3>3. QED
      BY <3>1, <3>2
  <2>7. CASE /\ flush[p].pc = "read" /\ flush'[p].pc = "write"
             /\ flush'[p].read = Tip /\ flush'[p].upTo = flush[p].upTo
    BY <1>2, <1>3, <2>3, <2>7
  <2>8. CASE /\ flush[p].pc = "write" /\ flush'[p].pc = "delete"
             /\ FlushWriteIndex(p) /\ flush'[p].upTo = flush[p].upTo
    BY <1>2, <1>3, <2>1, <2>3, <2>8 DEF FlushWriteIndex
  <2>9. QED
    BY <1>1, <2>4, <2>5, <2>6, <2>7, <2>8, FlushPcStep DEF FlushesStep, TypeInv
<1>5. QED
  BY <1>4 DEF FlushCarries

\* Every step keeps the points in the chart.
LEMMA ChartStep == ASSUME OneReplica, ChartInv, [Next]_vars PROVE ChartKeepsPoints'
<1>1. /\ CountersStep /\ TypeInv /\ TypeInv' /\ history[indexed] <= history'[indexed']
  BY RestAlways, TypeStep, IndexedGrows DEF ChartInv, DoneInv, TypeInv
<1>2. /\ history[indexed] \in Nat /\ history'[indexed'] \in Nat /\ deleted \in Nat /\ deleted' \in Nat
  BY <1>1 DEF TypeInv, TypeOK, Tip
<1>3. deleted' <= history[indexed]
  BY <1>1, <1>2 DEF CountersStep, ChartInv, ChartKeepsPoints, FlushCarries
<1>4. QED
  BY <1>1, <1>2, <1>3 DEF ChartKeepsPoints

\* The first state has all of it.
LEMMA ChartInit == Init => ChartInv
<1> SUFFICES ASSUME Init PROVE ChartInv
  OBVIOUS
<1>1. history = <<0>> /\ Tip = 1 /\ history[1] = 0
  BY DEF Init, Tip
<1>2. QED
  BY <1>1, DoneInit DEF Init, ChartInv, VersionsGrow, FlushCarries, ChartKeepsPoints, FlushIdle

\* With one replica the chart never shows fewer points than were deleted from the
\* buffer: a flush deletes only what the version it indexed carries, whatever
\* workers index meanwhile (metrics flush and sync worker on one ref).
THEOREM ChartNeverLoses == OneReplica => (Spec => []ChartKeepsPoints)
<1> SUFFICES ASSUME OneReplica PROVE Spec => []ChartKeepsPoints
  OBVIOUS
<1>1. ASSUME ChartInv, [Next]_vars PROVE ChartInv'
  <2>1. DoneInv'
    BY <1>1, TypeStep, SerialStep, FreshStep, TokensStep, VouchedStep, DoneStep DEF ChartInv, DoneInv
  <2>2. QED
    BY <1>1, <2>1, VersionsStep, FlushCarriesStep, ChartStep DEF ChartInv, DoneInv
<1>2. ChartInv => ChartKeepsPoints
  BY DEF ChartInv
<1>3. QED
  BY <1>1, <1>2, ChartInit, PTL DEF Spec

=============================================================================
