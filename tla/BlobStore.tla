------------------------------ MODULE BlobStore ------------------------------
(***************************************************************************)
(* The blobs/ layer: content-addressed objects published by the post-push  *)
(* pipeline (backend/internal/syncer), counted through repo_files, and     *)
(* reclaimed by `thinkingface gc` (cmd/thinkingface/gc.go) under the       *)
(* blob_deletions ledger of store/gc.go.                                   *)
(***************************************************************************)
EXTENDS Naturals, FiniteSets

CONSTANTS
    BlobRefs,          \* refs, of any repository
    Shas,              \* blob hashes
    Publishers,        \* sync workers, of any process
    Collectors,        \* runs of `thinkingface gc` that may overlap
    MaxTrees,          \* bound: pushes and deletions of refs
    MaxBlobFailures    \* bound: pipelines and collections that die

ASSUME BlobAssumption == MaxTrees \in Nat /\ MaxBlobFailures \in Nat

VARIABLES
    tree,          \* the plain blobs of each ref's tip in git
    dropping,      \* deleted refs whose cached index is about to be dropped
    queued,        \* refs with an unfinished sync job
    files,         \* repo_files: the blobs the index names, per ref
    repaired,      \* refs whose index was followed by a finished repair pass
    bucket,        \* the blobs/ objects there are
    ledger,        \* blob_deletions rows: "none", "recent" or "old"
    held,          \* the ledger rows a collector's transaction has locked
    overlap,       \* per row, the pipelines a day from its stamp is sure to outlast
    publisher,     \* each sync worker
    collector,     \* each collection
    trees,         \* pushes so far
    blobFailures   \* failures so far

blobVars == <<tree, dropping, queued, files, repaired, bucket, ledger, held, overlap,
              publisher, collector, trees, blobFailures>>

PublisherIdle == [pc |-> "idle", ref |-> "none", tree |-> {}, todo |-> {}]

CollectorIdle == [pc |-> "idle", todo |-> {}, sha |-> "none"]

Referenced == UNION {files[r] : r \in BlobRefs}

\* Nothing is pushed yet.
BlobInit ==
    /\ tree = [r \in BlobRefs |-> {}]
    /\ dropping = {}
    /\ queued = {}
    /\ files = [r \in BlobRefs |-> {}]
    /\ repaired = BlobRefs
    /\ bucket = {}
    /\ ledger = [s \in Shas |-> "none"]
    /\ held = {}
    /\ overlap = [s \in Shas |-> {}]
    /\ publisher = [p \in Publishers |-> PublisherIdle]
    /\ collector = [c \in Collectors |-> CollectorIdle]
    /\ trees = 0
    /\ blobFailures = 0

(***************************************************************************)
(* Pushes and deletions of refs.                                          *)
(***************************************************************************)

\* A push moves the ref and enqueues its job.
PushTree(r) ==
    \E t \in (SUBSET Shas) \ {{}, tree[r]} :
        /\ trees < MaxTrees
        /\ trees' = trees + 1
        /\ tree' = [tree EXCEPT ![r] = t]
        /\ queued' = queued \cup {r}
        /\ UNCHANGED <<dropping, files, repaired, bucket, ledger, held, overlap, publisher,
                       collector, blobFailures>>

\* The ref is deleted; its cached index goes in a step of its own, taken
\* without the ref lock.
DeleteRef(r) ==
    /\ trees < MaxTrees
    /\ tree[r] # {}
    /\ trees' = trees + 1
    /\ tree' = [tree EXCEPT ![r] = {}]
    /\ dropping' = dropping \cup {r}
    /\ UNCHANGED <<queued, files, repaired, bucket, ledger, held, overlap, publisher,
                   collector, blobFailures>>

DeleteRefIndex(r) ==
    /\ r \in dropping
    /\ dropping' = dropping \ {r}
    /\ files' = [files EXCEPT ![r] = {}]
    /\ UNCHANGED <<tree, queued, repaired, bucket, ledger, held, overlap, publisher, collector,
                   trees, blobFailures>>

(***************************************************************************)
(* The pipeline (runPushPipeline): read the tree, publish what the ref's   *)
(* previous index does not cover, swap the index, repair.                  *)
(***************************************************************************)

MovePublisher(p, to) == publisher' = [publisher EXCEPT ![p] = to]

\* A pipeline that ends no longer counts against the age of any ledger row.
EndPipeline(p) ==
    /\ MovePublisher(p, PublisherIdle)
    /\ overlap' = [s \in Shas |-> overlap[s] \ {p}]

\* A ref that does not resolve has nothing to index.  Two processes may run
\* one ref's jobs at a time: the ref lock is per process.
ReadBlobTree(p, r) ==
    /\ publisher[p].pc = "idle"
    /\ r \in queued
    /\ IF tree[r] = {}
       THEN queued' = queued \ {r} /\ UNCHANGED <<publisher, overlap>>
       ELSE /\ MovePublisher(p, [pc |-> "publish", ref |-> r, tree |-> tree[r],
                                 todo |-> tree[r] \ files[r]])
            /\ overlap' = [s \in Shas |->
                   IF s \in files[r] /\ ledger[s] # "none" THEN overlap[s] \cup {p}
                                                          ELSE overlap[s]]
            /\ UNCHANGED queued
    /\ UNCHANGED <<tree, dropping, files, repaired, bucket, ledger, held, collector, trees,
                   blobFailures>>

\* An object that is there is left as it is.
PublishBlob(p) ==
    \E s \in publisher[p].todo :
        /\ publisher[p].pc = "publish"
        /\ bucket' = bucket \cup {s}
        /\ MovePublisher(p, [publisher[p] EXCEPT !.todo = @ \ {s}])
        /\ UNCHANGED <<tree, dropping, queued, files, repaired, ledger, held, overlap, collector,
                       trees, blobFailures>>

\* A reader ahead of the worker (the parquet viewer, the experiment indexer)
\* publishes a blob of any revision.
PublishAhead(s) ==
    /\ \E r \in BlobRefs : s \in tree[r]
    /\ s \notin bucket
    /\ bucket' = bucket \cup {s}
    /\ UNCHANGED <<tree, dropping, queued, files, repaired, ledger, held, overlap, publisher,
                   collector, trees, blobFailures>>

ReplaceRepoFiles(p) ==
    LET r == publisher[p].ref IN
    /\ publisher[p].pc = "publish"
    /\ publisher[p].todo = {}
    /\ files' = [files EXCEPT ![r] = publisher[p].tree]
    /\ repaired' = repaired \ {r}
    /\ MovePublisher(p, [publisher[p] EXCEPT !.pc = "repair"])
    /\ UNCHANGED <<tree, dropping, queued, bucket, ledger, held, overlap, collector, trees,
                   blobFailures>>

\* As if the repair did not wait for the rows a collector has locked.
RepairDeletedBlobsAtOnce(p) ==
    LET r == publisher[p].ref
        lost == {s \in files[r] : ledger[s] # "none"}
    IN  /\ publisher[p].pc = "repair"
        /\ bucket' = bucket \cup lost
        /\ ledger' = [s \in Shas |-> IF s \in lost THEN "none" ELSE ledger[s]]
        /\ repaired' = repaired \cup {r}
        /\ queued' = IF tree[r] = publisher[p].tree THEN queued \ {r} ELSE queued
        /\ EndPipeline(p)
        /\ UNCHANGED <<tree, dropping, files, held, collector, trees, blobFailures>>

\* RepairDeletedBlobs: one transaction over the ledger rows of the ref's blobs,
\* waiting for a collector that holds one; the objects go back, the rows go.
RepairDeletedBlobs(p) ==
    LET r == publisher[p].ref
        lost == {s \in files[r] : ledger[s] # "none"}
    IN  /\ publisher[p].pc = "repair"
        /\ lost \cap held = {}
        /\ bucket' = bucket \cup lost
        /\ ledger' = [s \in Shas |-> IF s \in lost THEN "none" ELSE ledger[s]]
        /\ repaired' = repaired \cup {r}
        /\ queued' = IF tree[r] = publisher[p].tree THEN queued \ {r} ELSE queued
        /\ EndPipeline(p)
        /\ UNCHANGED <<tree, dropping, files, held, collector, trees, blobFailures>>

\* As if a failed job were not retried.
PipelineFailsForGood(p) ==
    /\ blobFailures < MaxBlobFailures
    /\ blobFailures' = blobFailures + 1
    /\ publisher[p].pc # "idle"
    /\ queued' = queued \ {publisher[p].ref}
    /\ EndPipeline(p)
    /\ UNCHANGED <<tree, dropping, files, repaired, bucket, ledger, held, collector, trees>>

\* The pipeline fails or its process dies; the job stays and is retried.
PipelineFails(p) ==
    /\ blobFailures < MaxBlobFailures
    /\ blobFailures' = blobFailures + 1
    /\ publisher[p].pc # "idle"
    /\ EndPipeline(p)
    /\ UNCHANGED <<tree, dropping, queued, files, repaired, bucket, ledger, held, collector,
                   trees>>

(***************************************************************************)
(* The collector (gcBlobs, DeleteOrphanedBlob).                            *)
(***************************************************************************)

MoveCollector(c, to) == collector' = [collector EXCEPT ![c] = to]

\* old are the objects that blobGrace has passed for.
ListBlobs(c, old) ==
    /\ collector[c].pc = "idle"
    /\ old \subseteq bucket
    /\ MoveCollector(c, [collector[c] EXCEPT !.pc = "listed", !.todo = old])
    /\ UNCHANGED <<tree, dropping, queued, files, repaired, bucket, ledger, held, overlap,
                   publisher, trees, blobFailures>>

\* The reference set is read after the bucket listing.
OrphanedBlobs(c) ==
    /\ collector[c].pc = "listed"
    /\ MoveCollector(c, [collector[c] EXCEPT !.pc = "next", !.todo = @ \ Referenced])
    /\ UNCHANGED <<tree, dropping, queued, files, repaired, bucket, ledger, held, overlap,
                   publisher, trees, blobFailures>>

Busy == {p \in Publishers : publisher[p].pc # "idle"}

\* As if a row already there were somebody else's deletion.
RecordBlobDeletionOnce(c) ==
    \E s \in collector[c].todo :
        /\ collector[c].pc = "next"
        /\ IF ledger[s] # "none"
           THEN /\ MoveCollector(c, [collector[c] EXCEPT !.todo = @ \ {s}])
                /\ UNCHANGED <<ledger, overlap>>
           ELSE /\ ledger' = [ledger EXCEPT ![s] = "recent"]
                /\ overlap' = [overlap EXCEPT ![s] = Busy]
                /\ MoveCollector(c,
                       [pc |-> "claim", todo |-> collector[c].todo \ {s}, sha |-> s])
        /\ UNCHANGED <<tree, dropping, queued, files, repaired, bucket, held, publisher, trees,
                       blobFailures>>

\* The intent is durable before anything is removed; the upsert waits for the
\* row's lock and refreshes its stamp.
RecordBlobDeletion(c) ==
    \E s \in collector[c].todo :
        /\ collector[c].pc = "next"
        /\ s \notin held
        /\ ledger' = [ledger EXCEPT ![s] = "recent"]
        /\ overlap' = [overlap EXCEPT ![s] = Busy]
        /\ MoveCollector(c, [pc |-> "claim", todo |-> collector[c].todo \ {s}, sha |-> s])
        /\ UNCHANGED <<tree, dropping, queued, files, repaired, bucket, held, publisher, trees,
                       blobFailures>>

\* As if repo_files were not read again under the row.
ClaimBlobDeletionBlind(c) ==
    LET s == collector[c].sha IN
    /\ collector[c].pc = "claim"
    /\ s \notin held
    /\ MoveCollector(c, [collector[c] EXCEPT !.pc = "remove"])
    /\ held' = held \cup {s}
    /\ UNCHANGED <<tree, dropping, queued, files, repaired, bucket, ledger, overlap, publisher,
                   trees, blobFailures>>

\* The row is locked and repo_files read again under it.  No row means a repair
\* took it; a reference means the blob is live again: either way, hands off.
ClaimBlobDeletion(c) ==
    LET s == collector[c].sha IN
    /\ collector[c].pc = "claim"
    /\ s \notin held
    /\ IF ledger[s] = "none" \/ s \in Referenced
       THEN MoveCollector(c, [collector[c] EXCEPT !.pc = "next", !.sha = "none"])
            /\ UNCHANGED held
       ELSE MoveCollector(c, [collector[c] EXCEPT !.pc = "remove"])
            /\ held' = held \cup {s}
    /\ UNCHANGED <<tree, dropping, queued, files, repaired, bucket, ledger, overlap, publisher,
                   trees, blobFailures>>

\* The object goes while the row is held.
RemoveBlob(c) ==
    LET s == collector[c].sha IN
    /\ collector[c].pc = "remove"
    /\ bucket' = bucket \ {s}
    /\ overlap' = [overlap EXCEPT ![s] = Busy]
    /\ MoveCollector(c, [collector[c] EXCEPT !.pc = "commit"])
    /\ UNCHANGED <<tree, dropping, queued, files, repaired, ledger, held, publisher, trees,
                   blobFailures>>

\* As if the row went with the object.
CommitBlobDeletionAndForget(c) ==
    /\ collector[c].pc = "commit"
    /\ held' = held \ {collector[c].sha}
    /\ ledger' = [ledger EXCEPT ![collector[c].sha] = "none"]
    /\ MoveCollector(c, [collector[c] EXCEPT !.pc = "next", !.sha = "none"])
    /\ UNCHANGED <<tree, dropping, queued, files, repaired, bucket, overlap, publisher, trees,
                   blobFailures>>

\* The row is kept: it is what a later reference is repaired from.
CommitBlobDeletion(c) ==
    /\ collector[c].pc = "commit"
    /\ held' = held \ {collector[c].sha}
    /\ MoveCollector(c, [collector[c] EXCEPT !.pc = "next", !.sha = "none"])
    /\ UNCHANGED <<tree, dropping, queued, files, repaired, bucket, ledger, overlap, publisher,
                   trees, blobFailures>>

Prunable(s) == ledger[s] = "old" /\ s \notin Referenced /\ s \notin held

\* The run ends by forgetting old rows nothing references.
PruneBlobDeletions(c) ==
    /\ collector[c].pc = "next"
    /\ collector[c].todo = {}
    /\ ledger' = [s \in Shas |-> IF Prunable(s) THEN "none" ELSE ledger[s]]
    /\ MoveCollector(c, CollectorIdle)
    /\ UNCHANGED <<tree, dropping, queued, files, repaired, bucket, held, overlap, publisher,
                   trees, blobFailures>>

\* The run dies; the database releases its lock, the bucket keeps what it did.
CollectorDies(c) ==
    /\ blobFailures < MaxBlobFailures
    /\ blobFailures' = blobFailures + 1
    /\ collector[c].pc # "idle"
    /\ held' = IF collector[c].pc \in {"remove", "commit"} THEN held \ {collector[c].sha}
                                                           ELSE held
    /\ MoveCollector(c, CollectorIdle)
    /\ UNCHANGED <<tree, dropping, queued, files, repaired, bucket, ledger, overlap, publisher,
                   trees>>

\* deletionLedgerGrace passes for a row: a day, which outlasts the transaction
\* that follows the stamp, every pipeline under way by the time it removes the
\* object, and the retries of a job that died before its repair (a parked job
\* may wait for its operator longer than that, and is left out).
LedgerAges(s) ==
    /\ ledger[s] = "recent"
    /\ overlap[s] = {}
    /\ \A r \in BlobRefs \ repaired : s \notin files[r]
    /\ \A c \in Collectors : collector[c].sha = s =>
           collector[c].pc \notin {"claim", "remove", "commit"}
    /\ ledger' = [ledger EXCEPT ![s] = "old"]
    /\ UNCHANGED <<tree, dropping, queued, files, repaired, bucket, held, overlap, publisher,
                   collector, trees, blobFailures>>

Pipeline(p) ==
    \/ \E r \in BlobRefs : ReadBlobTree(p, r)
    \/ PublishBlob(p)
    \/ ReplaceRepoFiles(p)
    \/ RepairDeletedBlobs(p)

Collect(c) ==
    \/ \E old \in SUBSET Shas : ListBlobs(c, old)
    \/ OrphanedBlobs(c)
    \/ RecordBlobDeletion(c)
    \/ ClaimBlobDeletion(c)
    \/ RemoveBlob(c)
    \/ CommitBlobDeletion(c)
    \/ PruneBlobDeletions(c)

BlobNext ==
    \/ \E r \in BlobRefs : PushTree(r) \/ DeleteRef(r) \/ DeleteRefIndex(r)
    \/ \E p \in Publishers : Pipeline(p) \/ PipelineFails(p)
    \/ \E c \in Collectors : Collect(c) \/ CollectorDies(c)
    \/ \E s \in Shas : PublishAhead(s) \/ LedgerAges(s)

\* The queue retries a failed job, a transaction that waits for a row gets it
\* when it is released, gc runs on a schedule, and an object that stays gets old
\* enough for it.
BlobFairness ==
    /\ \A p \in Publishers : WF_blobVars(Pipeline(p))
    /\ \A c \in Collectors :
          /\ WF_blobVars(Collect(c))
          /\ SF_blobVars(ListBlobs(c, bucket))

BlobSpec == BlobInit /\ [][BlobNext]_blobVars /\ BlobFairness

(***************************************************************************)
(* Properties.                                                             *)
(***************************************************************************)

\* Shapes, and that a held ledger row exists and has one holder.
BlobTypeOK ==
    /\ tree \in [BlobRefs -> SUBSET Shas] /\ files \in [BlobRefs -> SUBSET Shas]
    /\ queued \cup dropping \subseteq BlobRefs /\ repaired \subseteq BlobRefs
    /\ bucket \subseteq Shas
    /\ ledger \in [Shas -> {"none", "recent", "old"}]
    /\ \A s \in held : ledger[s] # "none"
    /\ \A c \in Collectors :
          collector[c].pc \in {"remove", "commit"} => collector[c].sha \in held

\* Nothing is lost without a record: a blob the index names is in the bucket,
\* or the ledger says it was taken and a repair will put it back.
LossesRecorded ==
    \A s \in Referenced : s \in bucket \/ ledger[s] # "none"

\* Once a ref's pipeline has run to the end of its repair pass every file of
\* its index can be served, and no collection under way can change that.
RepairedRefsServe ==
    \A r \in repaired : \A s \in files[r] : s \in bucket

\* A blob that nothing names, in git or in the index, is in the end collected.
UnnamedBlobsGo ==
    \A s \in Shas :
        <>[](s \notin Referenced /\ \A r \in BlobRefs : s \notin tree[r]) =>
            <>[](s \notin bucket)

\* A collected blob that a ref names again, in git and in its index, comes back
\* once the refs are left alone.
Wanted == UNION {files[r] \cap tree[r] : r \in BlobRefs}

LostBlobsReturn ==
    <>[](Wanted \subseteq bucket)

=============================================================================
