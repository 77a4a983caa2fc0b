------------------------------- MODULE MCServer -------------------------------
(***************************************************************************)
(* Liveness of the server's background machinery, one part to a behaviour. *)
(* A fairness condition stands for one action of each part: a behaviour is *)
(* of one part only, and for that part the condition says what its module  *)
(* names.                                                                  *)
(***************************************************************************)
EXTENDS MCStorage, MCWork

CONSTANTS d1, b1, c1, u1, r1, q1   \* one of each kind of actor

Alone ==
    \/ storagePart \in StorageParts /\ workPart = "none"
    \/ storagePart = "none" /\ workPart \in WorkParts

ServerInit ==
    /\ Alone
    /\ HookInit /\ BlobInit /\ LfsInit /\ EmptyTables /\ Init /\ ChainInit /\ DeliveryInit

Stored(A) == A /\ UNCHANGED workVars
Worked(A) == A /\ UNCHANGED storageVars

ServerNext == Stored(StorageNext) \/ Worked(WorkNext)

serverVars == <<storageVars, workVars>>

QueueRow(i, A) == Worked(InQueue(i \in 1..Len(rows) /\ A))

\* Dispatchers, pipelines, uploads, syncs and flushes go on; so do the
\* collectors' sweeps, the queue's sweeper and time.
WeakFairness ==
    /\ WF_serverVars(\/ Stored(InHooks(Dispatch(d1)))
                     \/ Stored(InBlobs(Pipeline(b1)))
                     \/ Stored(InLfs(UploadStep(u1)))
                     \/ Worked(InQueue(Sweep))
                     \/ Worked(InChain(ReplicaStep(q1))))
    /\ WF_serverVars(\/ Stored(InBlobs(Collect(c1)))
                     \/ Stored(InLfs(SyncStep(r1)))
                     \/ Worked(InQueue(Flushing(p1)))
                     \/ Worked(InChain(BlockLapses)))
    /\ WF_serverVars(\/ Stored(InLfs(SweepStep))
                     \/ Worked(InQueue(Flushing(p2))))
    /\ \A i \in 1..2 :
        /\ WF_serverVars(\/ Stored(InHooks(i \in DOMAIN delivery /\ AttemptDue(i)))
                         \/ QueueRow(i, EnqueueCommit(i)))
        /\ WF_serverVars(QueueRow(i, BackoffElapses(i)))
        /\ WF_serverVars(QueueRow(i, (\A w \in Workers : worker[w].row # i) /\ Lapse(i)))
    /\ \A v \in 1..3 :
        WF_serverVars(Worked(InQueue(v \in unqueued \cup inserting /\ Enqueuing(v))))
    /\ \A w \in Workers :
        WF_serverVars(Worked(InQueue(ReadTree(w) \/ WriteIndex(w) \/ Finish(w))))

StrongFairness ==
    /\ SF_serverVars(\/ Stored(InBlobs(ListBlobs(c1, bucket)))
                     \/ Stored(InLfs(ListLfs(Present)))
                     \/ Worked(InQueue(Claiming(w1))))
    /\ SF_serverVars(Worked(InQueue(Claiming(w2))))
    /\ \A w \in Workers :
        /\ SF_serverVars(Worked(InQueue(ClaimCommit(w))))
        /\ SF_serverVars(Worked(InQueue(TakeLock(w))))

\* The conditions above name every actor of the instance.
ASSUME InstanceAssumption ==
    /\ Dispatchers = {d1} /\ Publishers = {b1} /\ Collectors = {c1}
    /\ Uploads = {u1} /\ LfsRepos = {r1} /\ Replicas = {q1}
    /\ Processes = {p1, p2} /\ Workers = {w1, w2}
    /\ MaxDeliveries <= 2 /\ MaxPushes + MaxPoints <= 2

ServerSpec ==
    ServerInit /\ [][ServerNext]_serverVars /\ WeakFairness /\ StrongFairness

=============================================================================
