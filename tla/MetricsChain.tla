---------------------------- MODULE MetricsChain ----------------------------
(***************************************************************************)
(* The metric points of one experiment project (backend/internal/          *)
(* experiments/flush.go and indexer.go, syncer/flush.go): buffered in      *)
(* exp_points by the ingest API, moved by each replica's flusher into a    *)
(* chain of parquet files in git, part 0 being metrics.parquet, and read   *)
(* back by the indexer that keeps the project's run list.                  *)
(***************************************************************************)
EXTENDS Naturals, FiniteSets, FiniteSetsExt

CONSTANTS
    ChainRuns,         \* run names
    Replicas,          \* server processes, each with a flusher and a ref lock
    MaxRows,           \* maxExistingFlushRows
    FlushLimit,        \* MaxFlushPoints
    MaxIngested,       \* bound: points ever inserted
    MaxFlushFailures,  \* bound: flushes or jobs interrupted
    MaxChainEdits      \* bound: pushes to the chain, and runs deleted

ASSUME ChainAssumption ==
    /\ MaxRows \in Nat \ {0} /\ FlushLimit \in 1..MaxRows
    /\ MaxIngested \in Nat /\ MaxFlushFailures \in Nat /\ MaxChainEdits \in Nat

VARIABLES
    owner,          \* the run each point was logged under; a point is its row id
    buffered,       \* exp_points
    expRun,         \* exp_runs: "none", "bare" (num_points = 0) or "counted"
    ingest,         \* per run, the statement its /log request is about to make
    chain,          \* part number -> ids in that file, at the head of the branch
    chainIndex,     \* the parts repo_files lists
    unindexed,      \* a push to the chain waits for its sync job
    flushBlocked,   \* flush_blocked_at is recent
    replica,        \* each process: the flush or job holding its ref lock
    taken,          \* points users removed, with a file or a run (history)
    flushFailures,
    chainEdits

chainVars == <<owner, buffered, expRun, ingest, chain, chainIndex, unindexed,
               flushBlocked, replica, taken, flushFailures, chainEdits>>

Points == 1..MaxIngested

\* A file pushed by hand with more rows than a flush can rebuild.  Its rows
\* carry no ingest id.
Oversize == {0}
RowCount(rows) == IF rows = Oversize THEN MaxRows + 1 ELSE Cardinality(rows)

\* What a path precondition compares: the blob, or its absence.
Blob(n) == IF n \in DOMAIN chain THEN [here |-> TRUE, rows |-> chain[n]]
           ELSE [here |-> FALSE, rows |-> {}]

RunPoints(r) == {i \in DOMAIN owner : owner[i] = r}
ChainPoints == UNION {chain[n] : n \in DOMAIN chain}

ReplicaIdle ==
    [pc |-> "idle", ids |-> {}, path |-> 0, next |-> 0, restore |-> FALSE,
     pre |-> [here |-> FALSE, rows |-> {}], write |-> {}, keep |-> {}]

ChainInit ==
    /\ owner = [i \in {} |-> 0]
    /\ buffered = {}
    /\ expRun = [r \in ChainRuns |-> "none"]
    /\ ingest = [r \in ChainRuns |-> "idle"]
    /\ chain = [n \in {} |-> {}]
    /\ chainIndex = {}
    /\ unindexed = FALSE
    /\ flushBlocked = FALSE
    /\ replica = [p \in Replicas |-> ReplicaIdle]
    /\ taken = {}
    /\ flushFailures = 0
    /\ chainEdits = 0

Reach(p, pc) == replica' = [replica EXCEPT ![p].pc = pc]
Release(p) == replica' = [replica EXCEPT ![p] = ReplicaIdle]

(***************************************************************************)
(* POST .../log, one point to a batch, statement by statement.             *)
(***************************************************************************)

\* UpsertExpRunWith creates the row or keeps it.
UpsertRun(r) ==
    /\ ingest[r] = "idle"
    /\ expRun' = [expRun EXCEPT ![r] = IF @ = "none" THEN "bare" ELSE @]
    /\ ingest' = [ingest EXCEPT ![r] = "insert"]
    /\ UNCHANGED <<owner, buffered, chain, chainIndex, unindexed, flushBlocked,
                   replica, taken, flushFailures, chainEdits>>

\* A request without points inserts nothing; one whose run was deleted under
\* it fails on the foreign key.
InsertPoints(r) ==
    /\ ingest[r] = "insert"
    /\ IF expRun[r] # "none"
       THEN /\ ingest' = [ingest EXCEPT ![r] = "count"]
            /\ \/ /\ Cardinality(DOMAIN owner) < MaxIngested
                  /\ LET i == Cardinality(DOMAIN owner) + 1
                     IN /\ owner' = [j \in DOMAIN owner \cup {i} |->
                                        IF j = i THEN r ELSE owner[j]]
                        /\ buffered' = buffered \cup {i}
               \/ UNCHANGED <<owner, buffered>>
       ELSE /\ ingest' = [ingest EXCEPT ![r] = "idle"]
            /\ UNCHANGED <<owner, buffered>>
    /\ UNCHANGED <<expRun, chain, chainIndex, unindexed, flushBlocked,
                   replica, taken, flushFailures, chainEdits>>

\* CountPoints and the second upsert, which raises num_points and re-creates a
\* row deleted since.
CountPoints(r) ==
    /\ ingest[r] = "count"
    /\ ingest' = [ingest EXCEPT ![r] = "idle"]
    /\ expRun' = [expRun EXCEPT ![r] =
                    IF @ = "counted" \/ RunPoints(r) \cap buffered # {}
                    THEN "counted" ELSE "bare"]
    /\ UNCHANGED <<owner, buffered, chain, chainIndex, unindexed, flushBlocked,
                   replica, taken, flushFailures, chainEdits>>

Ingesting(r) == UpsertRun(r) \/ InsertPoints(r) \/ CountPoints(r)

(***************************************************************************)
(* FlushProject, under the replica's lock of the ref.                      *)
(***************************************************************************)

\* The oldest FlushLimit points.
Oldest(ids) ==
    {i \in ids : Cardinality({j \in ids : j < i}) < FlushLimit}

FlushList(p) ==
    /\ replica[p].pc = "idle"
    /\ buffered # {}
    /\ ~flushBlocked
    /\ replica' = [replica EXCEPT ![p].pc = "resolve", ![p].ids = Oldest(buffered)]
    /\ UNCHANGED <<owner, buffered, expRun, ingest, chain, chainIndex, unindexed,
                   flushBlocked, taken, flushFailures, chainEdits>>

Highest(parts) == Max(parts \cup {0})

\* As if the tree were not looked at.
ActiveByIndex == Highest(chainIndex)

\* resolveMetricsTarget: from the highest part repo_files lists, forward over
\* the parts the tree holds and the index does not yet.
Active ==
    LET h == Highest(chainIndex)
        run == {n \in DOMAIN chain : n > h /\ \A m \in h + 1..n : m \in DOMAIN chain}
    IN Max({h} \cup run)

ResolveMetricsTarget(p) ==
    /\ replica[p].pc = "resolve"
    /\ replica' = [replica EXCEPT ![p].pc = "read", ![p].path = Active,
                                  ![p].next = Active + 1,
                                  ![p].restore = 0 \notin DOMAIN chain]
    /\ UNCHANGED <<owner, buffered, expRun, ingest, chain, chainIndex, unindexed,
                   flushBlocked, taken, flushFailures, chainEdits>>

\* As if a full file were still written to.
MaybeRotateNever(rows, new) == FALSE

\* maybeRotate: points already in the file cost no rows.
MaybeRotate(rows, new) ==
    new # {} /\ Cardinality(rows) + Cardinality(new) > MaxRows

\* As if the points that cannot be flushed were dropped.
BlockedBufferDropped(ids) == buffered \ ids

\* What blockFlush does with the points: it keeps them.
BlockedBuffer(ids) == buffered

\* readExisting, maybeRotate and mergePoints; or blockFlush, when the file
\* cannot be rebuilt.
ReadExisting(p) ==
    /\ replica[p].pc = "read"
    /\ LET n == replica[p].path
           rows == Blob(n).rows
           new == replica[p].ids \ rows
           rotate == MaybeRotate(rows, new)
       IN IF RowCount(rows) > MaxRows
          THEN /\ flushBlocked' = TRUE
               /\ buffered' = BlockedBuffer(replica[p].ids)
               /\ Release(p)
          ELSE /\ replica' =
                    [replica EXCEPT
                        ![p].pc = "commit",
                        ![p].path = IF rotate THEN replica[p].next ELSE n,
                        ![p].pre = IF rotate THEN ReplicaIdle.pre ELSE Blob(n),
                        ![p].write = IF rotate THEN new ELSE rows \cup new]
               /\ UNCHANGED <<buffered, flushBlocked>>
    /\ UNCHANGED <<owner, expRun, ingest, chain, chainIndex, unindexed, taken,
                   flushFailures, chainEdits>>

\* The base file is put back, empty, when the points go to a later part.
Restores(p) == replica[p].restore /\ replica[p].path # 0

Preconditions(p) ==
    /\ Blob(replica[p].path) = replica[p].pre
    /\ Restores(p) => 0 \notin DOMAIN chain

CommitFlush(p) ==
    /\ replica[p].pc = "commit"
    /\ IF Preconditions(p)
       THEN /\ chain' = [n \in DOMAIN chain \cup {replica[p].path}
                                \cup (IF Restores(p) THEN {0} ELSE {}) |->
                            IF n = replica[p].path THEN replica[p].write
                            ELSE IF n \in DOMAIN chain THEN chain[n] ELSE {}]
            /\ flushBlocked' = FALSE
            /\ Reach(p, "index")
       ELSE Release(p) /\ UNCHANGED <<chain, flushBlocked>>
    /\ UNCHANGED <<owner, buffered, expRun, ingest, chainIndex, unindexed, taken,
                   flushFailures, chainEdits>>

DeletePoints(p) ==
    /\ replica[p].pc = "delete"
    /\ buffered' = buffered \ replica[p].ids
    /\ Release(p)
    /\ UNCHANGED <<owner, expRun, ingest, chain, chainIndex, unindexed,
                   flushBlocked, taken, flushFailures, chainEdits>>

\* The block is an hour old.
BlockLapses ==
    /\ flushBlocked
    /\ flushBlocked' = FALSE
    /\ UNCHANGED <<owner, buffered, expRun, ingest, chain, chainIndex, unindexed,
                   replica, taken, flushFailures, chainEdits>>

(***************************************************************************)
(* runPushPipeline, for a flush's own commit or for a job, and IndexRepo.  *)
(***************************************************************************)

BeginJob(p) ==
    /\ replica[p].pc = "idle"
    /\ unindexed
    /\ unindexed' = FALSE
    /\ Reach(p, "index")
    /\ UNCHANGED <<owner, buffered, expRun, ingest, chain, chainIndex,
                   flushBlocked, taken, flushFailures, chainEdits>>

IndexChain(p) ==
    /\ replica[p].pc = "index"
    /\ chainIndex' = DOMAIN chain
    /\ Reach(p, "scan")
    /\ UNCHANGED <<owner, buffered, expRun, ingest, chain, unindexed,
                   flushBlocked, taken, flushFailures, chainEdits>>

AfterIndex(p) == IF replica[p].ids = {} THEN "idle" ELSE "delete"

\* indexProject reads every listed part at the head.  A part gone since fails
\* the project, which IndexRepo only logs; a chain without rows ends it.
ScanChain(p) ==
    /\ replica[p].pc = "scan"
    /\ LET found == {owner[i] : i \in ChainPoints \ {0}}
       IN IF chainIndex \subseteq DOMAIN chain /\ found # {}
          THEN replica' = [replica EXCEPT ![p].pc = "prune", ![p].keep = found]
          ELSE Reach(p, AfterIndex(p))
    /\ UNCHANGED <<owner, buffered, expRun, ingest, chain, chainIndex, unindexed,
                   flushBlocked, taken, flushFailures, chainEdits>>

\* As if buffered points were no reason to keep a run.
GhostRunWithBuffer(r, keep) == r \notin keep /\ expRun[r] = "counted"

\* DeleteProjectRunsNotIn's WHERE clause.
GhostRun(r, keep) ==
    /\ r \notin keep
    /\ expRun[r] = "counted"
    /\ RunPoints(r) \cap buffered = {}

\* The runs found are upserted with their count, the vanished ones deleted.
PruneRuns(p) ==
    /\ replica[p].pc = "prune"
    /\ LET keep == replica[p].keep
       IN expRun' = [r \in ChainRuns |->
                        IF r \in keep THEN "counted"
                        ELSE IF GhostRun(r, keep) THEN "none" ELSE expRun[r]]
    /\ replica' = [replica EXCEPT ![p].pc = AfterIndex(p), ![p].keep = {}]
    /\ UNCHANGED <<owner, buffered, ingest, chain, chainIndex, unindexed,
                   flushBlocked, taken, flushFailures, chainEdits>>

\* A statement fails, the pipeline fails or the process dies.  A failed job is
\* claimed again.
FlushInterrupted(p) ==
    /\ replica[p].pc # "idle"
    /\ flushFailures < MaxFlushFailures
    /\ flushFailures' = flushFailures + 1
    /\ unindexed' = (unindexed \/ replica[p].ids = {})
    /\ Release(p)
    /\ UNCHANGED <<owner, buffered, expRun, ingest, chain, chainIndex,
                   flushBlocked, taken, chainEdits>>

ReplicaStep(p) ==
    \/ FlushList(p) \/ ResolveMetricsTarget(p) \/ ReadExisting(p) \/ CommitFlush(p)
    \/ BeginJob(p) \/ IndexChain(p) \/ ScanChain(p) \/ PruneRuns(p)
    \/ DeletePoints(p)

(***************************************************************************)
(* Users.                                                                  *)
(***************************************************************************)

\* A push that deletes a file of the chain, or replaces it by an oversize one.
PushToChain(n, after) ==
    /\ n \in DOMAIN chain
    /\ chainEdits < MaxChainEdits
    /\ chain' = [m \in DOMAIN chain \ ({n} \ after) |->
                    IF m = n THEN Oversize ELSE chain[m]]
    /\ taken' = taken \cup (chain[n] \ {0})
    /\ unindexed' = TRUE
    /\ chainEdits' = chainEdits + 1
    /\ UNCHANGED <<owner, buffered, expRun, ingest, chainIndex, flushBlocked,
                   replica, flushFailures>>

\* The points go by cascade.
DeleteExpRun(r) ==
    /\ expRun[r] # "none"
    /\ chainEdits < MaxChainEdits
    /\ expRun' = [expRun EXCEPT ![r] = "none"]
    /\ buffered' = buffered \ RunPoints(r)
    /\ taken' = taken \cup (buffered \cap RunPoints(r))
    /\ chainEdits' = chainEdits + 1
    /\ UNCHANGED <<owner, ingest, chain, chainIndex, unindexed, flushBlocked,
                   replica, flushFailures>>

ChainNext ==
    \/ \E r \in ChainRuns : Ingesting(r) \/ DeleteExpRun(r)
    \/ \E p \in Replicas : ReplicaStep(p) \/ FlushInterrupted(p)
    \/ \E n \in DOMAIN chain : PushToChain(n, {}) \/ PushToChain(n, {n})
    \/ BlockLapses

ChainSpec == ChainInit /\ [][ChainNext]_chainVars

(***************************************************************************)
(* Properties                                                              *)
(***************************************************************************)

ReplicaState ==
    [pc : {"idle", "resolve", "read", "commit", "index", "scan", "prune", "delete"},
     ids : SUBSET Points, path : Nat, next : Nat, restore : BOOLEAN,
     pre : [here : BOOLEAN, rows : SUBSET (Points \cup {0})],
     write : SUBSET Points, keep : SUBSET ChainRuns]

ChainTypeOK ==
    /\ DOMAIN owner \subseteq Points /\ \A i \in DOMAIN owner : owner[i] \in ChainRuns
    /\ buffered \subseteq Points /\ taken \subseteq Points
    /\ expRun \in [ChainRuns -> {"none", "bare", "counted"}]
    /\ ingest \in [ChainRuns -> {"idle", "insert", "count"}]
    /\ \A n \in DOMAIN chain :
          n \in Nat /\ (chain[n] = Oversize \/ chain[n] \subseteq Points)
    /\ chainIndex \subseteq Nat
    /\ unindexed \in BOOLEAN /\ flushBlocked \in BOOLEAN
    /\ replica \in [Replicas -> ReplicaState]

\* A point the ingest API accepted is never lost: until a user deletes its run
\* or its file it is buffered or in the chain, whatever is interrupted, blocked,
\* refused by a precondition or rotated in between.
PointsKept == DOMAIN owner \subseteq buffered \cup ChainPoints \cup taken

\* "the next attempt recognises the points it already wrote instead of appending
\* them twice" (parquetwrite.go): no ingest id is in two files of the chain.
PointsOnce ==
    \A m, n \in DOMAIN chain : m # n => chain[m] \cap chain[n] \subseteq {0}

\* The index deletes only the rows of runs whose data is gone: never of a run
\* with a point in the buffer or in the chain, nor of one that never logged any.
PruneOnlyGhosts ==
    [][\A r \in ChainRuns :
        (expRun[r] # "none" /\ expRun'[r] = "none" /\ chainEdits' = chainEdits) =>
            /\ RunPoints(r) # {}
            /\ RunPoints(r) \cap (buffered \cup ChainPoints) = {}]_chainVars

\* Once no more points come, the buffer empties into the chain, unless a
\* hand-made oversize file is in the way: what a flush writes, a later one reads.
BufferDrains ==
    <>[](buffered = {} \/ \E n \in DOMAIN chain : chain[n] = Oversize)

=============================================================================
