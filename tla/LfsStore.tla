------------------------------- MODULE LfsStore -------------------------------
(***************************************************************************)
(* Large objects: uploads staged by clients and promoted to the shared     *)
(* content-addressed lfs/ layer (backend/internal/lfs), the ledger of      *)
(* lfs_objects and repo_lfs_objects (store/files.go), the links a commit   *)
(* or a sync job makes, and the three passes of `thinkingface gc` over     *)
(* them (store/gc.go, cmd/thinkingface/gc.go).  Every object has size one, *)
(* every pointer declares the size its object has, and the repositories    *)
(* share one namespace.                                                    *)
(***************************************************************************)
EXTENDS Naturals, FiniteSets

CONSTANTS
    LfsRepos,        \* repositories
    Oids,            \* object hashes
    Uploads,         \* request slots of the API
    LfsQuotas,       \* the storage quotas the namespace may have
    MaxPuts,         \* bound: uploads to staging
    MaxNamings,      \* bound: pushes, commits and deletions
    MaxLfsFailures   \* bound: requests, sync jobs and collections that die

ASSUME LfsAssumption ==
    /\ LfsQuotas \subseteq Nat /\ LfsQuotas # {}
    /\ {MaxPuts, MaxNamings, MaxLfsFailures} \subseteq Nat

VARIABLES
    live,          \* repositories not deleted
    quota,         \* the namespace's quota, fixed at the start
    staged,        \* tmp/uploads/ objects: body and generation
    lfs,           \* lfs/ objects: "absent", "good" or "forged"
    lfsRow,        \* lfs_objects
    claimed,       \* oids a collector's transaction holds
    link,          \* repo_lfs_objects: "none", "uploaded" or "committed"
    tip,           \* the objects each branch tip names
    unannounced,   \* repositories whose moved tip has no sync job yet
    jobs,          \* repositories with a pending sync job
    lfsIndex,      \* repo_files: the objects the index names
    upload,        \* each request
    indexer,       \* each repository's running sync job
    sweep,         \* the collection
    torn,          \* objects whose collection died between bucket and row
    puts, namings, lfsFailures

lfsVars == <<live, quota, staged, lfs, lfsRow, claimed, link, tip,
             unannounced, jobs, lfsIndex, upload, indexer, sweep, torn, puts, namings,
             lfsFailures>>

bucketVars == <<lfs, torn>>
ledgerVars == <<lfsRow, claimed, link>>
gitVars == <<tip, unannounced, jobs, lfsIndex, indexer>>
adminVars == <<live, quota>>

Unstaged == [body |-> "none", gen |-> 0]

UploadIdle == [pc |-> "idle", repo |-> "none", oid |-> "none", gen |-> 0]

IndexerIdle == [pc |-> "idle", tree |-> {}, allowed |-> {}]

SweepIdle == [pc |-> "idle", seen |-> {}, orphans |-> {}, untracked |-> {}, oid |-> "none"]

LfsInit ==
    /\ live = LfsRepos
    /\ quota \in LfsQuotas
    /\ staged = [r \in LfsRepos |-> [o \in Oids |-> Unstaged]]
    /\ lfs = [o \in Oids |-> "absent"]
    /\ torn = {} /\ lfsRow = {} /\ claimed = {}
    /\ link = [r \in LfsRepos |-> [o \in Oids |-> "none"]]
    /\ tip = [r \in LfsRepos |-> {}]
    /\ lfsIndex = [r \in LfsRepos |-> {}]
    /\ unannounced = {} /\ jobs = {}
    /\ upload = [u \in Uploads |-> UploadIdle]
    /\ indexer = [r \in LfsRepos |-> IndexerIdle]
    /\ sweep = SweepIdle
    /\ puts = 0 /\ namings = 0 /\ lfsFailures = 0

(***************************************************************************)
(* Quota: every link of every repository is charged to the namespace.  A   *)
(* link the repository has costs nothing more.                             *)
(***************************************************************************)

UsedBytes == Cardinality({e \in LfsRepos \X Oids : link[e[1]][e[2]] # "none"})

WithinQuota(r, o) == link[r][o] # "none" \/ UsedBytes + 1 <= quota

(***************************************************************************)
(* The ledger.                                                             *)
(***************************************************************************)

\* A link the repository has answers at once; anything else takes the row's
\* lock, which a collector may hold, and looks at the bucket under it.
CanRecord(r, o) == link[r][o] # "none" \/ o \notin claimed

Recorded(r, o) == link[r][o] # "none" \/ (r \in live /\ lfs[o] # "absent")

RecordLFSObject(r, o) ==
    IF link[r][o] = "none" /\ Recorded(r, o)
    THEN /\ lfsRow' = lfsRow \cup {o}
         /\ link' = [link EXCEPT ![r][o] = "uploaded"]
         /\ UNCHANGED claimed
    ELSE UNCHANGED ledgerVars

\* Locks the rows there are; an object without a row links to nothing, and one
\* with a row is not looked for in the bucket.
LinkLFSObjects(r, S) ==
    /\ S \cap lfsRow \cap claimed = {}
    /\ link' = [link EXCEPT ![r] = [o \in Oids |-> IF o \in S \cap lfsRow THEN "committed"
                                                                       ELSE @[o]]]
    /\ UNCHANGED <<lfsRow, claimed>>

(***************************************************************************)
(* Requests.                                                               *)
(***************************************************************************)

MoveUpload(u, to) == upload' = [upload EXCEPT ![u] = to]

\* The LFS batch endpoint, for one object to upload: bytes that are there are
\* linked (a repository that has the link needs nothing), bytes that are not are
\* given a signed URL to staging.
Batch(u, r, o) ==
    /\ upload[u].pc = "idle"
    /\ r \in live
    /\ lfs[o] # "absent"
    /\ link[r][o] = "none"
    /\ WithinQuota(r, o)
    /\ MoveUpload(u, [UploadIdle EXCEPT !.pc = "dedup", !.repo = r, !.oid = o])
    /\ UNCHANGED <<adminVars, staged, bucketVars, ledgerVars, gitVars, sweep, puts, namings,
                   lfsFailures>>

\* The bytes may be gone by the time the link is recorded: the client is given
\* a URL after all.
Dedup(u) ==
    /\ upload[u].pc = "dedup"
    /\ CanRecord(upload[u].repo, upload[u].oid)
    /\ RecordLFSObject(upload[u].repo, upload[u].oid)
    /\ MoveUpload(u, UploadIdle)
    /\ UNCHANGED <<adminVars, staged, bucketVars, gitVars, sweep, puts, namings, lfsFailures>>

\* A signed URL may be used at any time, more than once, and for bytes that do
\* not hash to the object's name.
PutStaged(r, o) ==
    \E body \in {"good", "forged"} :
        /\ puts < MaxPuts
        /\ puts' = puts + 1
        /\ staged' = [staged EXCEPT ![r][o] = [body |-> body, gen |-> puts + 1]]
        /\ UNCHANGED <<adminVars, bucketVars, ledgerVars, gitVars, upload, sweep, namings,
                       lfsFailures>>

\* Verify: there is a staged object, of the declared size, and room for it.
PromoteStaged(u, r, o) ==
    /\ upload[u].pc = "idle"
    /\ r \in live
    /\ staged[r][o] # Unstaged
    /\ WithinQuota(r, o)
    /\ MoveUpload(u, [pc |-> "hash", repo |-> r, oid |-> o, gen |-> staged[r][o].gen])
    /\ UNCHANGED <<adminVars, staged, bucketVars, ledgerVars, gitVars, sweep, puts, namings,
                   lfsFailures>>

StagedBy(u) == staged[upload[u].repo][upload[u].oid]

\* The bytes of the generation that was measured are hashed.
ConfirmDigest(u) ==
    /\ upload[u].pc = "hash"
    /\ MoveUpload(u, IF StagedBy(u) = [body |-> "good", gen |-> upload[u].gen]
                     THEN [upload[u] EXCEPT !.pc = "publish"]
                     ELSE UploadIdle)
    /\ UNCHANGED <<adminVars, staged, bucketVars, ledgerVars, gitVars, sweep, puts, namings,
                   lfsFailures>>

\* What lfs/ holds once a body is copied there.
Landed(o, body) ==
    /\ lfs' = [lfs EXCEPT ![o] = body]
    /\ torn' = torn \ {o}

\* As if whatever is staged by now were copied.
PublishStagedUnpinned(u) ==
    /\ upload[u].pc = "publish"
    /\ IF StagedBy(u) # Unstaged
       THEN /\ Landed(upload[u].oid, StagedBy(u).body)
            /\ MoveUpload(u, [upload[u] EXCEPT !.pc = "record"])
       ELSE MoveUpload(u, UploadIdle) /\ UNCHANGED bucketVars
    /\ UNCHANGED <<adminVars, staged, ledgerVars, gitVars, sweep, puts, namings, lfsFailures>>

\* The copy names the generation that was hashed (CopyGeneration).
PublishStaged(u) ==
    /\ upload[u].pc = "publish"
    /\ IF StagedBy(u).gen = upload[u].gen
       THEN /\ Landed(upload[u].oid, StagedBy(u).body)
            /\ MoveUpload(u, [upload[u] EXCEPT !.pc = "record"])
       ELSE MoveUpload(u, UploadIdle) /\ UNCHANGED bucketVars
    /\ UNCHANGED <<adminVars, staged, ledgerVars, gitVars, sweep, puts, namings, lfsFailures>>

RecordPromoted(u) ==
    LET r == upload[u].repo
        o == upload[u].oid
    IN  /\ upload[u].pc = "record"
        /\ CanRecord(r, o)
        /\ RecordLFSObject(r, o)
        /\ MoveUpload(u, IF Recorded(r, o) THEN [upload[u] EXCEPT !.pc = "clean"]
                                           ELSE UploadIdle)
        /\ UNCHANGED <<adminVars, staged, bucketVars, gitVars, sweep, puts, namings, lfsFailures>>

\* The staged object goes last, whatever it holds by now.
DeleteStaged(u) ==
    /\ upload[u].pc = "clean"
    /\ staged' = [staged EXCEPT ![upload[u].repo][upload[u].oid] = Unstaged]
    /\ MoveUpload(u, UploadIdle)
    /\ UNCHANGED <<adminVars, bucketVars, ledgerVars, gitVars, sweep, puts, namings, lfsFailures>>

\* A commit through the API names an object the repository holds a link to and
\* the bucket has (verifyCommitLFSFile).
VerifyCommitLFSFile(u, r, o) ==
    /\ upload[u].pc = "idle"
    /\ r \in live
    /\ link[r][o] # "none"
    /\ lfs[o] # "absent"
    /\ MoveUpload(u, [UploadIdle EXCEPT !.pc = "commit", !.repo = r, !.oid = o])
    /\ UNCHANGED <<adminVars, staged, bucketVars, ledgerVars, gitVars, sweep, puts, namings,
                   lfsFailures>>

CommitLands(u) ==
    /\ upload[u].pc = "commit"
    /\ namings < MaxNamings
    /\ upload[u].repo \in live
    /\ namings' = namings + 1
    /\ tip' = [tip EXCEPT ![upload[u].repo] = @ \cup {upload[u].oid}]
    /\ MoveUpload(u, [upload[u] EXCEPT !.pc = "stamp"])
    /\ UNCHANGED <<adminVars, staged, bucketVars, ledgerVars, unannounced, jobs, lfsIndex, indexer,
                   sweep, puts, lfsFailures>>

\* The commit's links are stamped before its sync job is queued.
StampCommit(u) ==
    LET r == upload[u].repo IN
    /\ upload[u].pc = "stamp"
    /\ IF r \in live
       THEN LinkLFSObjects(r, {upload[u].oid}) /\ unannounced' = unannounced \cup {r}
       ELSE UNCHANGED <<ledgerVars, unannounced>>
    /\ MoveUpload(u, UploadIdle)
    /\ UNCHANGED <<adminVars, staged, bucketVars, tip, jobs, lfsIndex, indexer, sweep, puts, namings,
                   lfsFailures>>

\* A request fails or its process dies.
UploadDies(u) ==
    /\ upload[u].pc # "idle"
    /\ lfsFailures < MaxLfsFailures
    /\ lfsFailures' = lfsFailures + 1
    /\ MoveUpload(u, UploadIdle)
    /\ UNCHANGED <<adminVars, staged, bucketVars, ledgerVars, gitVars, sweep, puts, namings>>

(***************************************************************************)
(* Pushes, the sync job and the repository's end.                          *)
(***************************************************************************)

\* git push checks no pointer: it may name any objects.
PushPointers(r) ==
    \E S \in (SUBSET Oids) \ {tip[r]} :
        /\ namings < MaxNamings
        /\ r \in live
        /\ namings' = namings + 1
        /\ tip' = [tip EXCEPT ![r] = S]
        /\ unannounced' = unannounced \cup {r}
        /\ UNCHANGED <<adminVars, staged, bucketVars, ledgerVars, jobs, lfsIndex, indexer, upload,
                       sweep, puts, lfsFailures>>

EnqueueSync(r) ==
    /\ r \in unannounced
    /\ unannounced' = unannounced \ {r}
    /\ jobs' = IF r \in live THEN jobs \cup {r} ELSE jobs
    /\ UNCHANGED <<adminVars, staged, bucketVars, ledgerVars, tip, lfsIndex, indexer, upload, sweep,
                   puts, namings, lfsFailures>>

MoveIndexer(r, to) == indexer' = [indexer EXCEPT ![r] = to]

\* A job that fails is queued again, by hand or by its retry.
IndexerDies(r) ==
    /\ indexer[r].pc # "idle"
    /\ lfsFailures < MaxLfsFailures
    /\ lfsFailures' = lfsFailures + 1
    /\ jobs' = jobs \cup ({r} \cap live)
    /\ MoveIndexer(r, IndexerIdle)
    /\ UNCHANGED <<adminVars, staged, bucketVars, ledgerVars, tip, unannounced, lfsIndex, upload,
                   sweep, puts, namings>>

ReadPointers(r) ==
    /\ indexer[r].pc = "idle"
    /\ r \in jobs
    /\ jobs' = jobs \ {r}
    /\ MoveIndexer(r, [IndexerIdle EXCEPT !.pc = "filter", !.tree = tip[r]])
    /\ UNCHANGED <<adminVars, staged, bucketVars, ledgerVars, tip, unannounced, lfsIndex, upload,
                   sweep, puts, namings, lfsFailures>>

\* Objects the namespace has no room for stay unlinked; the order is the
\* tree's.
FilterLFSByQuota(r) ==
    LET linked == {o \in indexer[r].tree : link[r][o] # "none"}
        others == indexer[r].tree \ linked
        room   == IF UsedBytes < quota THEN quota - UsedBytes ELSE 0
    IN  /\ indexer[r].pc = "filter"
        /\ \E fit \in SUBSET others :
              /\ Cardinality(fit) = IF room < Cardinality(others) THEN room
                                                                  ELSE Cardinality(others)
              /\ MoveIndexer(r, [indexer[r] EXCEPT !.pc = "link", !.allowed = linked \cup fit])
        /\ UNCHANGED <<adminVars, staged, bucketVars, ledgerVars, tip, unannounced, jobs, lfsIndex,
                       upload, sweep, puts, namings, lfsFailures>>

\* A repository deleted under its job leaves nothing to index.
IndexerGivesUp(r) ==
    /\ indexer[r].pc # "idle"
    /\ r \notin live
    /\ MoveIndexer(r, IndexerIdle)
    /\ UNCHANGED <<adminVars, staged, bucketVars, ledgerVars, tip, unannounced, jobs, lfsIndex,
                   upload, sweep, puts, namings, lfsFailures>>

LinkRevision(r) ==
    /\ indexer[r].pc = "link"
    /\ r \in live
    /\ LinkLFSObjects(r, indexer[r].allowed)
    /\ MoveIndexer(r, [indexer[r] EXCEPT !.pc = "index"])
    /\ UNCHANGED <<adminVars, staged, bucketVars, tip, unannounced, jobs, lfsIndex, upload, sweep,
                   puts, namings, lfsFailures>>

IndexRevision(r) ==
    /\ indexer[r].pc = "index"
    /\ r \in live
    /\ lfsIndex' = [lfsIndex EXCEPT ![r] = indexer[r].tree]
    /\ MoveIndexer(r, [indexer[r] EXCEPT !.pc = "quiet"])
    /\ UNCHANGED <<adminVars, staged, bucketVars, ledgerVars, tip, unannounced, jobs, upload, sweep,
                   puts, namings, lfsFailures>>

\* Links are released only if the repository has no other unsettled job.
HasUnsettledSyncJobs(r) ==
    /\ indexer[r].pc = "quiet"
    /\ MoveIndexer(r, IF r \in jobs THEN IndexerIdle ELSE [indexer[r] EXCEPT !.pc = "prune"])
    /\ UNCHANGED <<adminVars, staged, bucketVars, ledgerVars, tip, unannounced, jobs, lfsIndex,
                   upload, sweep, puts, namings, lfsFailures>>

\* As if any link the index does not name were released.
PruneRepoLFSLinksOfTip(r) ==
    /\ indexer[r].pc = "prune"
    /\ link' = [link EXCEPT ![r] = [o \in Oids |-> IF o \notin lfsIndex[r] THEN "none" ELSE @[o]]]
    /\ MoveIndexer(r, IndexerIdle)
    /\ UNCHANGED <<adminVars, staged, bucketVars, lfsRow, claimed, tip, unannounced, jobs, lfsIndex,
                   upload, sweep, puts, namings, lfsFailures>>

\* Uploads that no commit named lose their link, those that lfsLinkGrace has
\* passed for.
PruneRepoLFSLinks(r) ==
    \E old \in SUBSET {o \in Oids : link[r][o] = "uploaded" /\ o \notin lfsIndex[r]} :
        /\ indexer[r].pc = "prune"
        /\ link' = [link EXCEPT ![r] = [o \in Oids |-> IF o \in old THEN "none" ELSE @[o]]]
        /\ MoveIndexer(r, IndexerIdle)
        /\ UNCHANGED <<adminVars, staged, bucketVars, lfsRow, claimed, tip, unannounced, jobs,
                       lfsIndex, upload, sweep, puts, namings, lfsFailures>>

\* The rows of a deleted repository go with it; its staged objects stay.
DeleteRepo(r) ==
    /\ r \in live
    /\ namings < MaxNamings
    /\ namings' = namings + 1
    /\ live' = live \ {r}
    /\ link' = [link EXCEPT ![r] = [o \in Oids |-> "none"]]
    /\ lfsIndex' = [lfsIndex EXCEPT ![r] = {}]
    /\ jobs' = jobs \ {r}
    /\ tip' = [tip EXCEPT ![r] = {}]
    /\ UNCHANGED <<quota, staged, bucketVars, lfsRow, claimed, unannounced, upload, indexer,
                   sweep, puts, lfsFailures>>

(***************************************************************************)
(* The collection (gcLFS, gcStaging).                                      *)
(***************************************************************************)

Present == {o \in Oids : lfs[o] # "absent"}

\* gcLFS lists the bucket first, so that a row committed meanwhile counts.  old
\* are the objects that untrackedLFSGrace has passed for.
ListLfs(old) ==
    /\ sweep.pc = "idle"
    /\ old \subseteq Present
    /\ sweep' = [SweepIdle EXCEPT !.pc = "rows", !.seen = old]
    /\ UNCHANGED <<adminVars, staged, bucketVars, ledgerVars, gitVars, upload, puts, namings,
                   lfsFailures>>

\* As if only objects with a row were collected.
ListLFSObjectsTracked ==
    /\ sweep.pc = "rows"
    /\ sweep' = [sweep EXCEPT !.pc = "links", !.orphans = lfsRow, !.seen = {}]
    /\ UNCHANGED <<adminVars, staged, bucketVars, ledgerVars, gitVars, upload, puts, namings,
                   lfsFailures>>

\* Then the rows; a collector's own claim is not visible to the listing.
ListLFSObjects ==
    /\ sweep.pc = "rows"
    /\ sweep' = [sweep EXCEPT !.pc = "links", !.untracked = sweep.seen \ lfsRow, !.orphans = lfsRow,
                              !.seen = {}]
    /\ UNCHANGED <<adminVars, staged, bucketVars, ledgerVars, gitVars, upload, puts, namings,
                   lfsFailures>>

LinkedOids == {o \in Oids : \E r \in LfsRepos : link[r][o] # "none"}

ListReferencedLFSOIDs ==
    /\ sweep.pc = "links"
    /\ sweep' = [sweep EXCEPT !.pc = "next", !.orphans = @ \ LinkedOids]
    /\ UNCHANGED <<adminVars, staged, bucketVars, ledgerVars, gitVars, upload, puts, namings,
                   lfsFailures>>

\* As if the links were not read again under the row's lock.
ClaimOrphanedBlind(o) ==
    /\ sweep.pc = "next"
    /\ o \in sweep.orphans
    /\ IF o \in lfsRow
       THEN /\ claimed' = claimed \cup {o}
            /\ sweep' = [sweep EXCEPT !.pc = "remove", !.orphans = @ \ {o}, !.oid = o]
       ELSE /\ sweep' = [sweep EXCEPT !.orphans = @ \ {o}]
            /\ UNCHANGED claimed
    /\ UNCHANGED <<adminVars, staged, bucketVars, lfsRow, link, gitVars, upload, puts, namings,
                   lfsFailures>>

\* An orphan is claimed by locking its row, if it still has no link.
ClaimOrphaned(o) ==
    /\ sweep.pc = "next"
    /\ o \in sweep.orphans
    /\ IF o \in lfsRow \ LinkedOids
       THEN /\ claimed' = claimed \cup {o}
            /\ sweep' = [sweep EXCEPT !.pc = "remove", !.orphans = @ \ {o}, !.oid = o]
       ELSE /\ sweep' = [sweep EXCEPT !.orphans = @ \ {o}]
            /\ UNCHANGED claimed
    /\ UNCHANGED <<adminVars, staged, bucketVars, lfsRow, link, gitVars, upload, puts, namings,
                   lfsFailures>>

\* An untracked object is claimed by inserting the row it does not have.
ClaimUntracked(o) ==
    /\ sweep.pc = "next"
    /\ sweep.orphans = {}
    /\ o \in sweep.untracked
    /\ IF o \notin lfsRow
       THEN /\ claimed' = claimed \cup {o}
            /\ sweep' = [sweep EXCEPT !.pc = "remove", !.untracked = @ \ {o}, !.oid = o]
       ELSE /\ sweep' = [sweep EXCEPT !.untracked = @ \ {o}]
            /\ UNCHANGED claimed
    /\ UNCHANGED <<adminVars, staged, bucketVars, lfsRow, link, gitVars, upload, puts, namings,
                   lfsFailures>>

\* The bytes go first, inside the transaction.
RemoveLfs ==
    /\ sweep.pc = "remove"
    /\ lfs' = [lfs EXCEPT ![sweep.oid] = "absent"]
    /\ sweep' = [sweep EXCEPT !.pc = "delete"]
    /\ UNCHANGED <<adminVars, staged, torn, ledgerVars, gitVars, upload, puts, namings, lfsFailures>>

DeleteLfsRow ==
    /\ sweep.pc = "delete"
    /\ lfsRow' = lfsRow \ {sweep.oid}
    /\ torn' = torn \ {sweep.oid}
    /\ claimed' = claimed \ {sweep.oid}
    /\ sweep' = [sweep EXCEPT !.pc = "next", !.oid = "none"]
    /\ UNCHANGED <<adminVars, staged, lfs, link, gitVars, upload, puts, namings,
                   lfsFailures>>

SweepEnds ==
    /\ sweep.pc = "next"
    /\ sweep.orphans \cup sweep.untracked = {}
    /\ sweep' = SweepIdle
    /\ UNCHANGED <<adminVars, staged, bucketVars, ledgerVars, gitVars, upload, puts, namings,
                   lfsFailures>>

\* The run dies or its commit fails: the database forgets the transaction, the
\* bucket does not.
SweepDies ==
    /\ sweep.pc # "idle"
    /\ lfsFailures < MaxLfsFailures
    /\ lfsFailures' = lfsFailures + 1
    /\ torn' = IF sweep.pc = "delete" THEN torn \cup ({sweep.oid} \cap lfsRow) ELSE torn
    /\ claimed' = claimed \ {sweep.oid}
    /\ sweep' = SweepIdle
    /\ UNCHANGED <<adminVars, staged, lfs, lfsRow, link, gitVars, upload, puts, namings>>

\* gcStaging removes staged objects by age alone.
GcStaging(r, o) ==
    /\ staged[r][o] # Unstaged
    /\ staged' = [staged EXCEPT ![r][o] = Unstaged]
    /\ UNCHANGED <<adminVars, bucketVars, ledgerVars, gitVars, upload, sweep, puts, namings,
                   lfsFailures>>

(***************************************************************************)
(* The specification.                                                      *)
(***************************************************************************)

UploadStep(u) ==
    \/ Dedup(u)
    \/ ConfirmDigest(u)
    \/ PublishStaged(u)
    \/ RecordPromoted(u)
    \/ DeleteStaged(u)
    \/ CommitLands(u)
    \/ StampCommit(u)

Request(u) ==
    \E r \in LfsRepos, o \in Oids :
        Batch(u, r, o) \/ PromoteStaged(u, r, o) \/ VerifyCommitLFSFile(u, r, o)

SyncStep(r) ==
    \/ EnqueueSync(r)
    \/ ReadPointers(r)
    \/ FilterLFSByQuota(r)
    \/ IndexerGivesUp(r)
    \/ LinkRevision(r)
    \/ IndexRevision(r)
    \/ HasUnsettledSyncJobs(r)
    \/ PruneRepoLFSLinks(r)

SweepStep ==
    \/ \E old \in SUBSET Oids : ListLfs(old)
    \/ ListLFSObjects
    \/ ListReferencedLFSOIDs
    \/ \E o \in Oids : ClaimOrphaned(o) \/ ClaimUntracked(o)
    \/ RemoveLfs
    \/ DeleteLfsRow
    \/ SweepEnds

LfsNext ==
    \/ \E u \in Uploads : Request(u) \/ UploadStep(u) \/ UploadDies(u)
    \/ \E r \in LfsRepos, o \in Oids : PutStaged(r, o) \/ GcStaging(r, o)
    \/ \E r \in LfsRepos : PushPointers(r) \/ SyncStep(r) \/ IndexerDies(r) \/ DeleteRepo(r)
    \/ SweepStep \/ SweepDies

\* Requests are served, the queue runs its jobs, gc runs on a schedule,
\* and an object that stays gets old enough for it.
LfsFairness ==
    /\ \A u \in Uploads : WF_lfsVars(UploadStep(u))
    /\ \A r \in LfsRepos : WF_lfsVars(SyncStep(r))
    /\ WF_lfsVars(SweepStep)
    /\ SF_lfsVars(ListLfs(Present))

LfsSpec == LfsInit /\ [][LfsNext]_lfsVars /\ LfsFairness

(***************************************************************************)
(* Properties.                                                             *)
(***************************************************************************)

\* Shapes, the foreign key of a link, and that a claim has its holder.
LfsTypeOK ==
    /\ live \subseteq LfsRepos /\ quota \in LfsQuotas
    /\ lfs \in [Oids -> {"absent", "good", "forged"}]
    /\ link \in [LfsRepos -> [Oids -> {"none", "uploaded", "committed"}]]
    /\ LinkedOids \subseteq lfsRow /\ lfsRow \subseteq Oids
    /\ claimed = IF sweep.pc \in {"remove", "delete"} THEN {sweep.oid} ELSE {}

\* Whatever clients do to their staged objects while a promotion is under way,
\* an object of lfs/ hashes to its name (lfs/promote.go).
ContentAddressed == \A o \in Oids : lfs[o] \in {"absent", "good"}

\* The collectors never take the bytes behind a link: a link names bytes that
\* are there, unless a collection died between the bucket and the row.
LinksServe == \A o \in LinkedOids : lfs[o] # "absent" \/ o \in torn

\* No link is to an object without bytes: LinkLFSObjects "links to nothing at
\* all, rather than producing a row promising bytes that are not there".
LinkedObjectsExist == \A o \in LinkedOids : lfs[o] # "absent"

\* A link a commit was stamped with is permanent: history stays readable until
\* the repository goes.
CommittedLinksStay ==
    [][\A r \in live', o \in Oids : link[r][o] = "committed" => link'[r][o] = "committed"]_lfsVars

\* Bytes nobody links to any more, and no request is about to, are in the end
\* collected, also those a crash stranded without a row.
StrandedBytesGo ==
    \A o \in Oids :
        <>[](o \notin LinkedOids /\ \A u \in Uploads : upload[u].oid # o) =>
            <>[](lfs[o] = "absent")

=============================================================================
