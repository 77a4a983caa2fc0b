--------------------------------- MODULE Wal ---------------------------------
(***************************************************************************)
(* The write-ahead log of one repository on object storage                 *)
(* (backend/internal/wal): pushes that pack, upload and compare-and-swap   *)
(* the index; the maintenance job that compacts and sweeps; instances that *)
(* materialise.  Each read, upload, compare-and-swap, list and delete is a *)
(* storage call of its own and so a step of its own.                       *)
(***************************************************************************)
EXTENDS WalIndex, FiniteSets

CONSTANTS
    Pushers,        \* concurrent pushes: receive-pack hooks and API commits
    Jobs,           \* concurrent runs of the `compact` job on the repository
    Readers,        \* instances materialising the repository
    Policy,         \* "strict": the WAL is authoritative; "mirror": it shadows the disk
    MaxCASAttempts, \* maxCASAttempts, for the CAS loop and for the re-pack rounds
    Histories,      \* the logs a repository may already have: seeded, pushed to
    Requests,       \* what clients push: the refs touched and the values wanted
    Threshold,      \* a WAL with more entries than this is compacted
    MaxPushes,      \* bound: pushes over a behaviour
    MaxFaults       \* bound: storage errors and lost answers over a behaviour

ASSUME WalAssumption ==
    /\ Policy \in {"strict", "mirror"}
    /\ MaxCASAttempts \in Nat \ {0}
    /\ \A h \in Histories :
        /\ h.index \in Index
        /\ h.content \in Seq(SUBSET Commits)
        /\ Names(h.index) \subseteq 1..Len(h.content)
        /\ Complete(h.index, h.content)
    /\ Requests \subseteq [touch : SUBSET Refs, new : RefMap]
    /\ Threshold \in Nat
    /\ MaxPushes \in Nat
    /\ MaxFaults \in Nat

VARIABLES
    revs,       \* every version of index.json; generation g is revs[g]
    content,    \* content[p]: what the p-th pack uploaded carries
    stored,     \* the packs still in the bucket
    aged,       \* packs 1..aged were uploaded more than minAge ago
    push,       \* each push
    job,        \* each maintenance run
    reader,     \* each materialisation
    pushes,     \* pushes begun
    faults      \* faults so far

vars == <<revs, content, stored, aged, push, job, reader, pushes, faults>>

-----------------------------------------------------------------------------
(* Object storage.  Generation 0 is "no index yet".                        *)

Generation == Len(revs)
IndexAt(g) == IF g = 0 THEN EmptyIndex ELSE revs[g]
Current == IndexAt(Generation)

Uploaded == 1..Len(content)
LastUpload == Len(content)

\* PutIfGeneration: the write lands only on the generation it was read at.
Matches(g) == g = Generation
PutIndex(ix) == revs' = Append(revs, ix)

\* Put: the whole pack or nothing, under a key never used before.
Upload(objects) ==
    /\ content' = Append(content, objects)
    /\ stored' = stored \cup {LastUpload + 1}

Fault ==
    /\ faults < MaxFaults
    /\ faults' = faults + 1

-----------------------------------------------------------------------------
(* State of the actors *)

PushIdle ==
    [pc |-> "idle", upd |-> NoUpdate, basis |-> 0, exclude |-> {},
     entry |-> NoPack, gen |-> 0, tries |-> 0, rounds |-> 0]

JobIdle ==
    [pc |-> "idle", seen |-> 0, floor |-> 0, gen |-> 0, todo |-> <<>>,
     base |-> NoPack, doomed |-> {}]

ReaderIdle == [pc |-> "idle", todo |-> <<>>, fresh |-> FALSE]

\* A repository is new, or has a log from before.
Init ==
    /\ \/ revs = <<>> /\ content = <<>>
       \/ \E h \in Histories : revs = <<h.index>> /\ content = h.content
    /\ stored = Uploaded
    /\ aged = 0
    /\ push = [p \in Pushers |-> PushIdle]
    /\ job = [m \in Jobs |-> JobIdle]
    /\ reader = [r \in Readers |-> ReaderIdle]
    /\ pushes = 0
    /\ faults = 0

-----------------------------------------------------------------------------
(* Pushing: pushToIndex, pushOnce, updateIndex                             *)

\* A request arrives.  Its <old> values are those of the copy EnsureLocal just
\* brought up to date; by the time the index is read again they may be stale.
PushBegin(p) ==
    /\ push[p].pc = "idle"
    /\ pushes < MaxPushes
    /\ \E q \in Requests :
        /\ \A r \in q.touch : q.new[r] # Current.refs[r]
        /\ push' = [push EXCEPT ![p] = [PushIdle EXCEPT
                        !.pc = "plan",
                        !.upd = [touch |-> q.touch,
                                 old |-> [r \in Refs |-> IF r \in q.touch
                                            THEN Current.refs[r] ELSE NoCommit],
                                 new |-> q.new]]]
    /\ pushes' = pushes + 1
    /\ UNCHANGED <<revs, content, stored, aged, job, reader, faults>>

\* The tips of the index the pushing copy can resolve: it has what it was asked
\* to push and what it moves the refs from, and may have or lack the rest.
Excludable(ix, u) ==
    {Tips(ix.refs) \cap have : have \in
        {h \in Closed : Want(u) \cup Tips(u.old) \subseteq h}}

\* pushOnce up to the upload: read the index, plan, and pack against its refs.
\* An empty pack is not uploaded.
PushPlan(p) ==
    /\ push[p].pc = "plan"
    /\ LET u == PlannedUpdate(Current, push[p].upd, Policy)
       IN  \/ /\ u.touch = {}
              /\ push' = [push EXCEPT ![p].pc = "ok"]
           \/ /\ u.touch # {}
              /\ \E exclude \in Excludable(Current, u) :
                    push' = [push EXCEPT ![p] = [@ EXCEPT
                        !.pc = IF PackObjects(Want(u), exclude) = {}
                               THEN "check" ELSE "upload",
                        !.basis = Generation,
                        !.exclude = exclude,
                        !.entry = NoPack,
                        !.tries = 0]]
    /\ UNCHANGED <<revs, content, stored, aged, job, reader, pushes, faults>>

\* The update as planned against the index it was packed for.
Planned(q) == PlannedUpdate(IndexAt(q.basis), q.upd, Policy)

\* UploadEntry returns once the pack is durable.
PushUpload(p) ==
    /\ push[p].pc = "upload"
    /\ Upload(PackObjects(Want(Planned(push[p])), push[p].exclude))
    /\ push' = [push EXCEPT ![p] = [@ EXCEPT
                    !.pc = "check", !.entry = LastUpload + 1]]
    /\ UNCHANGED <<revs, aged, job, reader, pushes, faults>>

\* As if a push that uploaded nothing relied on nothing.
NeedsBasisForEntry(q) == q.entry # NoPack /\ q.exclude # {}

\* Whether the WAL's existing contents stood in for any object.
NeedsBasis(q) == Want(Planned(q)) # {} /\ q.exclude # {}

\* As if nothing could have been compacted away since the push was packed.
BasisHoldsAlways(q, cur) == TRUE

BasisHolds(q, cur) ==
    NeedsBasis(q) => PackStillValid(IndexAt(q.basis), q.exclude, cur)

\* As if a retry after a lost compare-and-swap skipped the check.
FreshOnFirstTry(q, cur) ==
    q.tries = 0 => CheckPreconditions(cur.refs, Planned(q))

\* The client's <old> values still hold.  Checked on every attempt.
Fresh(q, cur) == CheckPreconditions(cur.refs, Planned(q))

\* After errBasisGone: re-pack against the index as it is now, or give up.
NextRound(q) ==
    [q EXCEPT !.pc = IF q.rounds + 1 < MaxCASAttempts THEN "plan" ELSE "refused",
              !.rounds = @ + 1]

\* One attempt of updateIndex: read the index and re-check everything.
PushCheck(p) ==
    /\ push[p].pc = "check"
    /\ \/ /\ ~Fresh(push[p], Current)      \* ErrStaleRef
          /\ push' = [push EXCEPT ![p].pc = "refused"]
       \/ /\ Fresh(push[p], Current)
          /\ ~BasisHolds(push[p], Current)                  \* errBasisGone
          /\ push' = [push EXCEPT ![p] = NextRound(@)]
       \/ /\ Fresh(push[p], Current)
          /\ BasisHolds(push[p], Current)
          /\ push' = [push EXCEPT ![p] = [@ EXCEPT
                        !.pc = "put", !.gen = Generation]]
    /\ UNCHANGED <<revs, content, stored, aged, job, reader, pushes, faults>>

\* The document the push writes: the index it read and checked, updated.
NextIndex(q) == Apply(IndexAt(q.gen), Planned(q), q.entry)

\* As if the retry wrote the document it had again, without reading a newer one.
NextAttemptBlind(q) == [q EXCEPT !.pc = "put"]

\* After a 412: re-read and re-check, or give up with ErrRetryExhausted.
NextAttempt(q) ==
    [q EXCEPT !.pc = IF q.tries + 1 < MaxCASAttempts THEN "check" ELSE "refused",
              !.tries = @ + 1]

\* The compare-and-swap of updateIndex, won or lost.
PushPut(p) ==
    /\ push[p].pc = "put"
    /\ \/ /\ Matches(push[p].gen)
          /\ PutIndex(NextIndex(push[p]))
          /\ push' = [push EXCEPT ![p].pc = "ok"]
       \/ /\ ~Matches(push[p].gen)
          /\ push' = [push EXCEPT ![p] = NextAttempt(@)]
          /\ UNCHANGED revs
    /\ UNCHANGED <<content, stored, aged, job, reader, pushes, faults>>

\* The write lands but its answer does not arrive: the storage client's own
\* retry is told 412, or the call fails.
PushPutUnanswered(p) ==
    /\ push[p].pc = "put"
    /\ Fault
    /\ Matches(push[p].gen)
    /\ PutIndex(NextIndex(push[p]))
    /\ \/ push' = [push EXCEPT ![p] = NextAttempt(@)]
       \/ push' = [push EXCEPT ![p].pc = "refused"]
    /\ UNCHANGED <<content, stored, aged, job, reader, pushes>>

\* Any storage call failed: the push is refused and nothing is undone.
PushError(p) ==
    /\ push[p].pc \in {"plan", "upload", "check", "put"}
    /\ Fault
    /\ push' = [push EXCEPT ![p].pc = "refused"]
    /\ UNCHANGED <<revs, content, stored, aged, job, reader, pushes>>

\* The client is answered (or the process dies before it can be).
PushAnswer(p) ==
    /\ push[p].pc \in {"ok", "refused"}
    /\ push' = [push EXCEPT ![p] = PushIdle]
    /\ UNCHANGED <<revs, content, stored, aged, job, reader, pushes, faults>>

Pushing(p) ==
    \/ PushBegin(p) \/ PushPlan(p) \/ PushUpload(p) \/ PushCheck(p)
    \/ PushPut(p) \/ PushPutUnanswered(p) \/ PushError(p) \/ PushAnswer(p)

-----------------------------------------------------------------------------
(* Maintenance: CompactAndSweep, Compact, gcOrphans                        *)

\* Packs uploaded and not yet published by whoever uploaded them.
InFlight ==
    ({push[p].entry : p \in {q \in Pushers : push[q].pc \in {"check", "put"}}}
      \cup {job[m].base : m \in {n \in Jobs : job[n].pc = "publish"}}) \ {NoPack}

\* The pre-run index is read: what it names survives this run.  floor is the
\* oldest pack that may be published after this moment.
MaintBegin(m) ==
    /\ job[m].pc = "idle"
    /\ \E floor \in InFlight \cup {LastUpload + 1} :
        /\ \A q \in InFlight : floor <= q
        /\ job' = [job EXCEPT ![m] = [JobIdle EXCEPT
                        !.pc = IF Len(Current.entries) > Threshold
                               THEN "materialise" ELSE "list",
                        !.seen = Generation,
                        !.floor = floor]]
    /\ reader' = [r \in Readers |-> [reader[r] EXCEPT !.fresh = FALSE]]
    /\ UNCHANGED <<revs, content, stored, aged, push, pushes, faults>>

\* Materialize of the scratch directory reads the index again.  A directory kept
\* from an earlier run may already hold the first of its packs.
MaintMaterialise(m) ==
    /\ job[m].pc = "materialise"
    /\ \E held \in 0..Len(ApplyOrder(Current)) :
        job' = [job EXCEPT ![m] = [@ EXCEPT
                    !.pc = "fetch", !.gen = Generation,
                    !.todo = Beyond(ApplyOrder(Current), held)]]
    /\ UNCHANGED <<revs, content, stored, aged, push, reader, pushes, faults>>

\* applyPack, one pack at a time; a missing one fails the run.
MaintFetch(m) ==
    /\ job[m].pc = "fetch"
    /\ job[m].todo # <<>>
    /\ IF Head(job[m].todo) \in stored
       THEN job' = [job EXCEPT ![m].todo = Tail(@)]
       ELSE job' = [job EXCEPT ![m] = JobIdle]
    /\ UNCHANGED <<revs, content, stored, aged, push, reader, pushes, faults>>

\* `repack -a -d` keeps what the materialised refs reach; the pack it leaves
\* becomes the base.  A repository without objects has nothing to fold.
MaintUploadBase(m) ==
    /\ job[m].pc = "fetch"
    /\ job[m].todo = <<>>
    /\ LET tips == Tips(IndexAt(job[m].gen).refs)
       IN  \/ /\ tips = {}
              /\ job' = [job EXCEPT ![m].pc = "list"]
              /\ UNCHANGED <<content, stored>>
           \/ /\ tips # {}
              /\ Upload(ReachAll(tips))
              /\ job' = [job EXCEPT ![m] = [@ EXCEPT
                            !.pc = "publish", !.base = LastUpload + 1]]
    /\ UNCHANGED <<revs, aged, push, reader, pushes, faults>>

\* The compaction's compare-and-swap, anchored at the generation materialised.
\* A lost race is not retried.
MaintPublish(m) ==
    /\ job[m].pc = "publish"
    /\ IF Matches(job[m].gen)
       THEN PutIndex(Compacted(IndexAt(job[m].gen), job[m].base))
       ELSE UNCHANGED revs
    /\ job' = [job EXCEPT ![m].pc = "list"]
    /\ UNCHANGED <<content, stored, aged, push, reader, pushes, faults>>

\* gcOrphans lists the packs before it reads the index.  No packs, no sweep.
MaintList(m) ==
    /\ job[m].pc = "list"
    /\ job' = IF stored = {}
              THEN [job EXCEPT ![m] = JobIdle]
              ELSE [job EXCEPT ![m] = [@ EXCEPT !.pc = "mark", !.doomed = stored]]
    /\ UNCHANGED <<revs, content, stored, aged, push, reader, pushes, faults>>

\* As if the sweep spared what the index names now and nothing else.
CollectableNow(listed, cur, seen) == {p \in listed : p \notin Names(cur) /\ p <= aged}

\* As if every base a version ever had were spared.
CollectableEntries(listed, cur, seen) ==
    {p \in listed :
        /\ p \notin {IndexAt(g).base : g \in 1..Generation}
        /\ p \notin Names(cur) /\ p \notin Names(seen) /\ p <= aged}

\* What the sweep may delete of what it listed: packs neither the index as it is
\* now nor the pre-run index names, older than minAge.
Collectable(listed, cur, seen) ==
    {p \in listed : p \notin Names(cur) /\ p \notin Names(seen) /\ p <= aged}

\* The index is read, and the cutoff taken.  Packs without an index are left
\* alone (ErrIndexMissing): they are what an index is recovered from.
MaintMark(m) ==
    /\ job[m].pc = "mark"
    /\ job' = IF Generation = 0
              THEN [job EXCEPT ![m] = JobIdle]
              ELSE [job EXCEPT ![m] = [@ EXCEPT
                        !.pc = "delete",
                        !.doomed = Collectable(job[m].doomed, Current, IndexAt(job[m].seen))]]
    /\ UNCHANGED <<revs, content, stored, aged, push, reader, pushes, faults>>

\* One delete per step; the run ends when nothing is left to delete.
MaintDelete(m) ==
    /\ job[m].pc = "delete"
    /\ \/ /\ job[m].doomed = {}
          /\ job' = [job EXCEPT ![m] = JobIdle]
          /\ UNCHANGED stored
       \/ \E p \in job[m].doomed :
            /\ stored' = stored \ {p}
            /\ job' = [job EXCEPT ![m].doomed = @ \ {p}]
    /\ UNCHANGED <<revs, content, aged, push, reader, pushes, faults>>

\* A storage call failed or the job was killed: the run stops where it is.
MaintError(m) ==
    /\ job[m].pc # "idle"
    /\ Fault
    /\ job' = [job EXCEPT ![m] = JobIdle]
    /\ UNCHANGED <<revs, content, stored, aged, push, reader, pushes>>

Maintaining(m) ==
    \/ MaintBegin(m) \/ MaintMaterialise(m) \/ MaintFetch(m) \/ MaintUploadBase(m)
    \/ MaintPublish(m) \/ MaintList(m) \/ MaintMark(m) \/ MaintDelete(m)
    \/ MaintError(m)

-----------------------------------------------------------------------------
(* Materialising from nothing: MaterializeWith's rebuild                   *)

ReaderBegin(r) ==
    /\ reader[r].pc = "idle"
    /\ Generation # 0
    /\ reader' = [reader EXCEPT ![r] =
                    [pc |-> "apply", todo |-> ApplyOrder(Current), fresh |-> TRUE]]
    /\ UNCHANGED <<revs, content, stored, aged, push, job, pushes, faults>>

\* A pack that is gone fails the materialisation; the next request starts over.
ReaderApply(r) ==
    /\ reader[r].pc = "apply"
    /\ IF reader[r].todo # <<>> /\ Head(reader[r].todo) \in stored
       THEN reader' = [reader EXCEPT ![r].todo = Tail(@)]
       ELSE reader' = [reader EXCEPT ![r] = ReaderIdle]
    /\ UNCHANGED <<revs, content, stored, aged, push, job, pushes, faults>>

-----------------------------------------------------------------------------
(* Time.  minAge (24 h) outlasts the window between a push's upload and its *)
(* compare-and-swap, and one maintenance run with the pushes in flight when *)
(* it began: packs of those windows are not yet of age.                    *)

Age ==
    /\ aged < LastUpload
    /\ aged + 1 \notin InFlight
    /\ \A m \in Jobs : job[m].pc # "idle" => aged + 1 < job[m].floor
    /\ aged' = aged + 1
    /\ UNCHANGED <<revs, content, stored, push, job, reader, pushes, faults>>

-----------------------------------------------------------------------------

Next ==
    \/ \E p \in Pushers : Pushing(p)
    \/ \E m \in Jobs : Maintaining(m)
    \/ \E r \in Readers : ReaderBegin(r) \/ ReaderApply(r)
    \/ Age

Spec == Init /\ [][Next]_vars

-----------------------------------------------------------------------------
(* Properties *)

PushState ==
    [pc : {"idle", "plan", "upload", "check", "put", "ok", "refused"},
     upd : Update, basis : Nat, exclude : SUBSET Commits, entry : Nat,
     gen : Nat, tries : Nat, rounds : Nat]

JobState ==
    [pc : {"idle", "materialise", "fetch", "publish", "list", "mark", "delete"},
     seen : Nat, floor : Nat, gen : Nat, todo : Seq(Pack), base : Nat,
     doomed : SUBSET Pack]

ReaderState == [pc : {"idle", "apply"}, todo : Seq(Pack), fresh : BOOLEAN]

TypeOK ==
    /\ revs \in Seq(Index)
    /\ content \in Seq(SUBSET Commits)
    /\ stored \subseteq Uploaded
    /\ aged \in 0..LastUpload
    /\ push \in [Pushers -> PushState]
    /\ job \in [Jobs -> JobState]
    /\ reader \in [Readers -> ReaderState]
    /\ pushes \in Nat
    /\ faults \in Nat

\* The published index names only packs that are in the bucket, and between
\* them they hold everything its refs reach: a fresh instance can always be
\* built from it, whatever deletions, compactions, sweeps and lost races came
\* between the moment a push was packed and the moment it was published.
IndexIntact ==
    /\ Names(Current) \subseteq stored
    /\ Complete(Current, content)

\* Invariant 3 of the design: a materialisation keeps every pack it has still to
\* fetch at least until another maintenance run begins, however many runs were
\* already compacting and sweeping when it read the index.
ReaderGrace ==
    \A r \in Readers : reader[r].fresh => Members(reader[r].todo) \subseteq stored

-----------------------------------------------------------------------------
(* The log implements an atomic map of refs.                               *)

Answer(q) ==
    CASE q.pc = "idle" -> "none"
      [] q.pc \in {"ok", "refused"} -> q.pc
      [] OTHER -> "pending"

RefStoreView ==
    INSTANCE RefStore WITH
        Clients <- Pushers,
        refs    <- Current.refs,
        upd     <- [p \in Pushers |-> push[p].upd],
        answer  <- [p \in Pushers |-> Answer(push[p])]

\* Whatever the pushers, compactions, sweeps and faults do, clients see one map
\* of refs: an acknowledged push was applied exactly over the values its client
\* expected, and nothing else (a compaction least of all) moves a ref.
ImplementsRefStore == RefStoreView!Spec

-----------------------------------------------------------------------------
(* Liveness.  Pushes and runs take their next step; time passes.  Arrival of *)
(* requests and faults are left to chance.                                 *)

PushSteps(p) ==
    PushPlan(p) \/ PushUpload(p) \/ PushCheck(p) \/ PushPut(p) \/ PushAnswer(p)

Fairness ==
    /\ \A p \in Pushers : WF_vars(PushSteps(p))
    /\ \A m \in Jobs : WF_vars(Maintaining(m))
    /\ WF_vars(Age)

LiveSpec == Spec /\ Fairness

\* Once no more pushes come, all are answered: the CAS loop and the re-pack
\* rounds both give up.
PushesAnswered == <>[](\A p \in Pushers : push[p].pc = "idle")

\* Packs nothing names any more do not stay in the bucket for good.
OrphansCollected == []<>(Generation = 0 \/ stored = Names(Current))

=============================================================================
