------------------------------ MODULE LocalCopy ------------------------------
(***************************************************************************)
(* The bare repository one instance keeps on its disk and serves clients   *)
(* from, when the write-ahead log is the authority: materialised before    *)
(* use, written ahead of the log by API commits and behind it by git       *)
(* pushes, rolled back when the log refuses, evicted when idle             *)
(* (wal/materialize.go, wal/push.go, gitrepo/wal.go, api/wal.go).          *)
(*                                                                         *)
(* The log itself is seen as Wal is proved to behave: an index that is     *)
(* replaced in one step, and whose packs hold all its refs reach.          *)
(***************************************************************************)
EXTENDS WalIndex, FiniteSets

CONSTANTS
    Local,          \* write requests this instance serves at once
    Remote,         \* pushes other instances have in flight at once
    Reader,         \* the request that only reads, as the holder of the lock
    Work,           \* what clients ask of this instance
    Rewinds,        \* whether pushes may delete branches or force them back
    Evicts,         \* whether the cache has a byte budget (TF_GIT_CACHE_BYTES)
    Disks,          \* what a crash may do to the disk: "kept" (a volume), "lost" (tmpfs)
    MaxAttempts,    \* maxAttempts of commitThroughWAL
    Histories,      \* the logs a repository may already have
    MaxAsked,       \* bound: write requests over a behaviour, here and elsewhere
    MaxCompactions, \* bound: compactions over a behaviour
    MaxFaults,      \* bound: storage and disk errors over a behaviour
    MaxCrashes      \* bound: crashes of this instance over a behaviour

ASSUME LocalCopyAssumption ==
    /\ Local \cap Remote = {}
    /\ Reader \notin Local
    /\ Work \subseteq {"commit", "create", "delete", "push"}
    /\ Rewinds \in BOOLEAN
    /\ Evicts \in BOOLEAN
    /\ Disks \subseteq {"kept", "lost"}
    /\ MaxAttempts \in Nat \ {0}
    /\ \A h \in Histories :
        /\ h.index \in Index
        /\ h.content \in Seq(SUBSET Commits)
        /\ Names(h.index) \subseteq 1..Len(h.content)
        /\ Complete(h.index, h.content)
    /\ {MaxAsked, MaxCompactions, MaxFaults, MaxCrashes} \subseteq Nat

VARIABLES
    index,          \* the current index
    generation,     \* its generation; 0 before the first one
    content,        \* content[p]: what the p-th pack uploaded carries
    made,           \* the commits that exist anywhere
    copy,           \* the directory on this instance's disk
    lock,           \* the repository's lock, with what its holder has in memory
    writer,         \* each write in flight
    spent           \* how much of each bound is used up

vars == <<index, generation, content, made, copy, lock, writer, spent>>
log == <<index, generation, content>>

-----------------------------------------------------------------------------
(* State *)

\* The state file: the index a materialisation ended at.  Generation 0: no file.
NoState == [gen |-> 0, base |-> NoPack, applied |-> <<>>, refs |-> NoRefs]
StateOf(gen, ix) == [gen |-> gen, base |-> ix.base, applied |-> ix.entries, refs |-> ix.refs]

\* The directory: a bare repository or not, its objects, refs and state file.
\* absent is history, for the properties: the commits a ref was set to while the
\* directory did not hold them.
Gone == [bare |-> FALSE, objs |-> {}, refs |-> NoRefs, state |-> NoState, absent |-> {}]
Bare == [Gone EXCEPT !.bare = TRUE]

LockFree ==
    [pc |-> "free", who |-> Reader, gen |-> 0, ix |-> EmptyIndex,
     todo |-> <<>>, listed |-> NoRefs]

WriterIdle ==
    [pc |-> "idle", work |-> "commit", upd |-> NoUpdate, quar |-> {},
     basis |-> EmptyIndex, exclude |-> {}, tries |-> 0, stale |-> FALSE]

Unspent == [asked |-> 0, compactions |-> 0, faults |-> 0, crashes |-> 0]

\* A repository just created, or one with a log this instance never served.
Init ==
    /\ \/ /\ index = EmptyIndex /\ generation = 0 /\ content = <<>>
          /\ made = {} /\ copy = Bare
       \/ \E h \in Histories :
            /\ index = h.index /\ generation = 1 /\ content = h.content
            /\ made = Holds(h.index, h.content) /\ copy = Gone
    /\ lock = LockFree
    /\ writer = [w \in Local \cup Remote |-> WriterIdle]
    /\ spent = Unspent

Spend(what, limit) ==
    /\ spent[what] < limit
    /\ spent' = [spent EXCEPT ![what] = @ + 1]

Fault == Spend("faults", MaxFaults)

IsFree == lock.pc = "free"

\* One ref, as every write of this instance moves.
Moving(r, old, new) ==
    [touch |-> {r}, old |-> [NoRefs EXCEPT ![r] = old], new |-> [NoRefs EXCEPT ![r] = new]]

RefOf(w) == CHOOSE r \in writer[w].upd.touch : TRUE
OldOf(w) == writer[w].upd.old[RefOf(w)]
NewOf(w) == writer[w].upd.new[RefOf(w)]

\* A commit nobody has made yet, on top of parent.
Children(parent) ==
    {c \in Commits \ made :
        Reach[c] = {c} \cup (IF parent = NoCommit THEN {} ELSE Reach[parent])}
NewCommits(parent) ==
    IF Children(parent) = {} THEN {} ELSE {CHOOSE c \in Children(parent) : TRUE}

\* Where a push may take a ref: a new commit on top of it, a descendant it
\* already has elsewhere, and, with rewinds, anywhere.
Targets(refs, old) ==
    LET known == ReachAll(Tips(refs))
    IN  NewCommits(old)
        \cup {c \in known \ {old} : old # NoCommit => old \in Reach[c]}
        \cup (IF Rewinds THEN (known \cup {NoCommit}) \ {old} ELSE {})

-----------------------------------------------------------------------------
(* EnsureLocal: MaterializeWith under the repository's lock                *)

IsPrefix(applied, entries) == HasPrefix(entries, applied)

\* As if an index with the base the copy was built on had nothing new.
CacheHitByBase(c, gen, ix) ==
    c.bare /\ c.state.gen # 0 /\ c.state.base = ix.base

\* Generation equality is the whole check.
CacheHit(c, gen, ix) == c.bare /\ c.state.gen # 0 /\ c.state.gen = gen

\* Whatever cannot be continued precisely is rebuilt from scratch.
Rebuilds(c, ix) ==
    \/ c.state.gen = 0
    \/ ~c.bare
    \/ c.state.base # ix.base
    \/ ~IsPrefix(c.state.applied, ix.entries)

\* As if a rebuild forgot that an index may have no base.
RemainingFromBase(c, ix) ==
    IF Rebuilds(c, ix) THEN <<ix.base>> \o ix.entries
    ELSE Beyond(ix.entries, Len(c.state.applied))

\* The packs a materialisation still has to apply.
Remaining(c, ix) ==
    IF Rebuilds(c, ix) THEN ApplyOrder(ix)
    ELSE Beyond(ix.entries, Len(c.state.applied))

\* Whom the lock is taken for: a write request on its way in, or a reader.
Ensuring(who) == who = Reader \/ (who \in Local /\ writer[who].pc = "ensure")

Served(who) ==
    IF who = Reader THEN writer ELSE [writer EXCEPT ![who].pc = "open"]
Failed(who) ==
    IF who = Reader THEN writer ELSE [writer EXCEPT ![who] = WriterIdle]

\* Requests that find the copy current, or a repository that was never written.
EnsureHit(who) ==
    /\ IsFree
    /\ Ensuring(who)
    /\ \/ generation # 0 /\ CacheHit(copy, generation, index)
       \/ generation = 0 /\ copy.refs = NoRefs
    /\ writer' = Served(who)
    /\ UNCHANGED <<log, made, copy, lock, spent>>

\* ErrIndexMissing: no index, but a copy that holds refs.
EnsureAlarm(who) ==
    /\ IsFree
    /\ Ensuring(who)
    /\ generation = 0
    /\ copy.refs # NoRefs
    /\ writer' = Failed(who)
    /\ UNCHANGED <<log, made, copy, lock, spent>>

MatBegin(who) ==
    /\ IsFree
    /\ Ensuring(who)
    /\ generation # 0
    /\ ~CacheHit(copy, generation, index)
    /\ lock' = [LockFree EXCEPT
                    !.pc = IF Rebuilds(copy, index) THEN "recreate" ELSE "apply",
                    !.who = who, !.gen = generation, !.ix = index,
                    !.todo = Remaining(copy, index)]
    /\ UNCHANGED <<log, made, copy, writer, spent>>

\* Everything under the directory goes, a receive-pack's quarantine with it.
WithoutQuarantines(ws) ==
    [w \in DOMAIN ws |-> IF w \in Local THEN [ws[w] EXCEPT !.quar = {}] ELSE ws[w]]

\* recreateBare: RemoveAll and `git init --bare`.
MatRecreate ==
    /\ lock.pc = "recreate"
    /\ copy' = Bare
    /\ writer' = WithoutQuarantines(writer)
    /\ lock' = [lock EXCEPT !.pc = "apply"]
    /\ UNCHANGED <<log, made, spent>>

\* `index-pack --strict`: what the pack's objects refer to is there already.
LinksFound(p, objs) == ReachAll(content[p]) \subseteq objs \cup content[p]

\* As if the refs were projected along with the first pack.
AppliedWithRefs(c, p, ix) == [c EXCEPT !.objs = @ \cup content[p], !.refs = ix.refs]

\* Objects only: refs wait until every pack is there.
Applied(c, p, ix) == [c EXCEPT !.objs = @ \cup content[p]]

\* applyPack: the next pack, or an error that ends the materialisation.
MatApply ==
    /\ lock.pc = "apply"
    /\ lock.todo # <<>>
    /\ IF LinksFound(Head(lock.todo), copy.objs)
       THEN /\ copy' = Applied(copy, Head(lock.todo), lock.ix)
            /\ lock' = [lock EXCEPT !.todo = Tail(@)]
            /\ UNCHANGED writer
       ELSE /\ lock' = LockFree
            /\ writer' = Failed(lock.who)
            /\ UNCHANGED copy
    /\ UNCHANGED <<log, made, spent>>

\* writeRefs, first transaction: refs the index does not have are deleted.
MatDelete ==
    /\ lock.pc = "apply"
    /\ lock.todo = <<>>
    /\ copy' = [copy EXCEPT !.refs =
                    [r \in Refs |-> IF lock.ix.refs[r] = NoCommit THEN NoCommit ELSE @[r]]]
    /\ lock' = [lock EXCEPT !.pc = "update", !.listed = copy.refs]
    /\ UNCHANGED <<log, made, writer, spent>>

\* The refs whose value differs from the index in the listing taken before.
ToUpdate ==
    {r \in Refs : lock.ix.refs[r] # NoCommit /\ lock.ix.refs[r] # lock.listed[r]}

\* Second transaction: every other ref is set, whatever it holds by now.  A ref
\* is not moved to an object that is not there.
MatUpdate ==
    /\ lock.pc = "update"
    /\ IF {lock.ix.refs[r] : r \in ToUpdate} \subseteq copy.objs
       THEN /\ copy' = [copy EXCEPT !.refs =
                    [r \in Refs |-> IF r \in ToUpdate THEN lock.ix.refs[r] ELSE @[r]]]
            /\ lock' = [lock EXCEPT !.pc = "stamp"]
            /\ UNCHANGED writer
       ELSE /\ lock' = LockFree
            /\ writer' = Failed(lock.who)
            /\ UNCHANGED copy
    /\ UNCHANGED <<log, made, spent>>

\* writeLocalState, last of all; the request goes on.
MatStamp ==
    /\ lock.pc = "stamp"
    /\ copy' = [copy EXCEPT !.state = StateOf(lock.gen, lock.ix)]
    /\ lock' = LockFree
    /\ writer' = Served(lock.who)
    /\ UNCHANGED <<log, made, spent>>

\* A storage call, git or the disk fails: what was done so far stays.  The
\* removal itself is all or nothing here; only a crash leaves Debris.
MatFault ==
    /\ lock.pc \in {"recreate", "apply", "update", "stamp"}
    /\ Fault
    /\ \/ copy' = copy /\ writer' = Failed(lock.who)
       \/ /\ lock.pc = "recreate"
          /\ copy' = Gone
          /\ writer' = WithoutQuarantines(Failed(lock.who))
    /\ lock' = LockFree
    /\ UNCHANGED <<log, made>>

Materialising ==
    MatRecreate \/ MatApply \/ MatDelete \/ MatUpdate \/ MatStamp \/ MatFault

-----------------------------------------------------------------------------
(* Writes served by this instance, up to the push                          *)

Ask(w) ==
    /\ w \in Local
    /\ writer[w].pc = "idle"
    /\ Spend("asked", MaxAsked)
    /\ \E r \in Refs, k \in Work :
        writer' = [writer EXCEPT ![w] = [WriterIdle EXCEPT
                    !.pc = "ensure", !.work = k, !.upd = Moving(r, NoCommit, NoCommit)]]
    /\ UNCHANGED <<log, made, copy, lock>>

\* A request is refused before it changes anything: a stale parent, a ref that
\* exists already or does not, a copy that cannot be opened.
Refuse(w) ==
    /\ writer[w].pc = "open"
    /\ writer' = [writer EXCEPT ![w] = WriterIdle]
    /\ UNCHANGED <<log, made, copy, lock, spent>>

\* The writer goes on to the log with ref r moved from old to new on disk.
Ahead(w, r, old, new) ==
    writer' = [writer EXCEPT ![w] = [@ EXCEPT !.pc = "plan", !.upd = Moving(r, old, new)]]

\* Repo.Commit: under the lock, a commit on top of whatever the branch is now,
\* and the branch on top of it.
Commit(w) ==
    /\ writer[w].pc = "open" /\ writer[w].work = "commit"
    /\ IsFree
    /\ copy.bare
    /\ LET r == RefOf(w)
           old == copy.refs[r]
       IN  /\ old # NoCommit => old \in copy.objs
           /\ \E c \in NewCommits(old) :
                /\ copy' = [copy EXCEPT !.objs = @ \cup {c}, !.refs[r] = c]
                /\ made' = made \cup {c}
                /\ Ahead(w, r, old, c)
    /\ UNCHANGED <<log, lock, spent>>

\* A branch to be created starts at a revision that is looked up first, without
\* the lock: any commit on the disk will do.  The copy is then opened again.
Resolve(w) ==
    /\ writer[w].pc = "open" /\ writer[w].work = "create"
    /\ NewOf(w) = NoCommit
    /\ copy.bare
    /\ \E target \in copy.objs :
        writer' = [writer EXCEPT ![w] = [@ EXCEPT
                    !.pc = "ensure", !.upd = Moving(RefOf(w), NoCommit, target)]]
    /\ UNCHANGED <<log, made, copy, lock, spent>>

\* A ref that is not there is set, and nothing looks whether its commit is.
WithRef(c, r, target) ==
    [c EXCEPT !.refs[r] = target, !.absent = @ \cup ({target} \ c.objs)]

\* CreateRef never overwrites; it writes to disk first, like DeleteRef.
CreateRef(w) ==
    /\ writer[w].pc = "open" /\ writer[w].work = "create"
    /\ NewOf(w) # NoCommit
    /\ IsFree
    /\ copy.bare
    /\ copy.refs[RefOf(w)] = NoCommit
    /\ copy' = WithRef(copy, RefOf(w), NewOf(w))
    /\ Ahead(w, RefOf(w), NoCommit, NewOf(w))
    /\ UNCHANGED <<log, made, lock, spent>>

DeleteRef(w) ==
    /\ writer[w].pc = "open" /\ writer[w].work = "delete"
    /\ IsFree
    /\ copy.refs[RefOf(w)] # NoCommit
    /\ copy' = [copy EXCEPT !.refs[RefOf(w)] = NoCommit]
    /\ Ahead(w, RefOf(w), copy.refs[RefOf(w)], NoCommit)
    /\ UNCHANGED <<log, made, lock, spent>>

\* The refs receive-pack tells its client of: git leaves out the broken ones.
Advertised ==
    [r \in Refs |-> IF copy.refs[r] \in copy.objs THEN copy.refs[r] ELSE NoCommit]

\* receive-pack takes no lock: it reads the refs as they are and keeps what the
\* client sends in a quarantine until the pre-receive hook has answered.
Receive(w) ==
    /\ writer[w].pc = "open" /\ writer[w].work = "push"
    /\ copy.bare
    /\ LET r == RefOf(w)
           old == Advertised[r]
       IN  \E new \in Targets(Advertised, old) :
            LET sent == PackObjects({new} \ {NoCommit}, Tips(Advertised))
            IN  /\ made' = made \cup sent
                /\ writer' = [writer EXCEPT ![w] = [@ EXCEPT
                        !.pc = "plan", !.upd = Moving(r, old, new), !.quar = sent]]
    /\ UNCHANGED <<log, copy, lock, spent>>

-----------------------------------------------------------------------------
(* The push itself, of this instance or of another: pushOnce, updateIndex. *)
(* It takes no lock.                                                       *)

\* Another instance, whose copy is current, accepts a push.
AskElsewhere(w) ==
    /\ w \in Remote
    /\ writer[w].pc = "idle"
    /\ Spend("asked", MaxAsked)
    /\ \E r \in Refs : \E new \in Targets(index.refs, index.refs[r]) :
        /\ made' = made \cup ({new} \ {NoCommit})
        /\ writer' = [writer EXCEPT ![w] = [WriterIdle EXCEPT
                        !.pc = "plan", !.upd = Moving(r, index.refs[r], new)]]
    /\ UNCHANGED <<log, copy, lock>>

\* What a refused push does next: an API write rolls its ref back, a git push
\* tries to adopt the copy as an accepted one does.
Refused(q, w, stale) ==
    IF w \in Remote THEN WriterIdle
    ELSE [q EXCEPT !.pc = IF q.work = "push" THEN "adopt" ELSE "reset",
                   !.quar = {}, !.stale = stale]

Accepted(q, w) ==
    IF w \in Remote THEN WriterIdle
    ELSE [q EXCEPT !.pc = IF q.work = "push" THEN "move" ELSE "adopt"]

\* The objects the pushing copy can read, its own quarantine included.
Readable(w) == IF w \in Remote THEN Commits ELSE copy.objs \cup writer[w].quar

\* Read the index, and pack against those of its tips that resolve here.
Plan(w) ==
    /\ writer[w].pc = "plan"
    /\ LET exclude == Tips(index.refs) \cap Readable(w)
           pack == PackObjects(Want(writer[w].upd), exclude)
       IN  writer' = [writer EXCEPT ![w] =
                        IF pack \subseteq Readable(w)
                        THEN [@ EXCEPT !.pc = "publish", !.basis = index, !.exclude = exclude]
                        ELSE Refused(@, w, FALSE)]
    /\ UNCHANGED <<log, made, copy, lock, spent>>

Fresh(q) == CheckPreconditions(index.refs, q.upd)

BasisHolds(q) ==
    (Want(q.upd) # {} /\ q.exclude # {}) => PackStillValid(q.basis, q.exclude, index)

\* The pack is uploaded and the index replaced.
Land(q) ==
    LET pack == PackObjects(Want(q.upd), q.exclude)
        entry == IF pack = {} THEN NoPack ELSE Len(content) + 1
    IN  /\ index' = Apply(index, q.upd, entry)
        /\ generation' = generation + 1
        /\ content' = IF pack = {} THEN content ELSE Append(content, pack)

Publish(w) ==
    /\ writer[w].pc = "publish"
    /\ Fresh(writer[w])
    /\ BasisHolds(writer[w])
    /\ Land(writer[w])
    /\ writer' = [writer EXCEPT ![w] = Accepted(@, w)]
    /\ UNCHANGED <<made, copy, lock, spent>>

\* ErrStaleRef, or errBasisGone: pack again, or give up after enough rounds.
PublishRefused(w) ==
    /\ writer[w].pc = "publish"
    /\ \/ /\ ~Fresh(writer[w])
          /\ writer' = [writer EXCEPT ![w] = Refused(@, w, TRUE)]
       \/ /\ Fresh(writer[w])
          /\ ~BasisHolds(writer[w])
          /\ \/ writer' = [writer EXCEPT ![w].pc = "plan"]
             \/ writer' = [writer EXCEPT ![w] = Refused(@, w, FALSE)]
    /\ UNCHANGED <<log, made, copy, lock, spent>>

\* A storage error: the write did not land, or it did and its answer was lost;
\* a retry of a write that landed finds the ref moved, by itself.
PublishFault(w) ==
    /\ writer[w].pc \in {"plan", "publish"}
    /\ Fault
    /\ \/ /\ writer' = [writer EXCEPT ![w] = Refused(@, w, FALSE)]
          /\ UNCHANGED log
       \/ /\ writer[w].pc = "publish"
          /\ Fresh(writer[w])
          /\ BasisHolds(writer[w])
          /\ Land(writer[w])
          /\ \E stale \in BOOLEAN :
                writer' = [writer EXCEPT ![w] = Refused(@, w, stale)]
    /\ UNCHANGED <<made, copy, lock>>

\* The maintenance job folds the log into one pack of what its refs reach.
Compact ==
    /\ index.entries # <<>>
    /\ Tips(index.refs) # {}
    /\ Spend("compactions", MaxCompactions)
    /\ content' = Append(content, ReachAll(Tips(index.refs)))
    /\ index' = Compacted(index, Len(content) + 1)
    /\ generation' = generation + 1
    /\ UNCHANGED <<made, copy, lock, writer>>

-----------------------------------------------------------------------------
(* After the push                                                          *)

\* receive-pack, told that the hook accepted: the quarantine is migrated and the
\* ref moved if it still has the value the client named, without the lock.
Move(w) ==
    /\ writer[w].pc = "move"
    /\ copy.bare
    /\ copy.refs[RefOf(w)] = OldOf(w)
    /\ NewOf(w) # NoCommit => Reach[NewOf(w)] \subseteq copy.objs \cup writer[w].quar
    /\ copy' = [copy EXCEPT !.objs = @ \cup writer[w].quar, !.refs[RefOf(w)] = NewOf(w)]
    /\ writer' = [writer EXCEPT ![w] = [@ EXCEPT !.pc = "adopt", !.quar = {}]]
    /\ UNCHANGED <<log, made, lock, spent>>

\* The ref was taken or has moved, the quarantine is gone, or receive-pack was
\* killed with its request, before or after the migration.
MoveFails(w) ==
    /\ writer[w].pc = "move"
    /\ \E kept \in IF copy.bare THEN {{}, writer[w].quar} ELSE {{}} :
        copy' = [copy EXCEPT !.objs = @ \cup kept]
    /\ writer' = [writer EXCEPT ![w] = [@ EXCEPT !.pc = "adopt", !.quar = {}]]
    /\ UNCHANGED <<log, made, lock, spent>>

\* AdoptIfConverged reads the index with the lock held...
AdoptRead(w) ==
    /\ writer[w].pc = "adopt"
    /\ IsFree
    /\ IF generation = 0
       THEN writer' = [writer EXCEPT ![w] = WriterIdle] /\ UNCHANGED lock
       ELSE /\ lock' = [LockFree EXCEPT
                            !.pc = "adopt", !.who = w, !.gen = generation, !.ix = index]
            /\ UNCHANGED writer
    /\ UNCHANGED <<log, made, copy, spent>>

\* As if the copy were known to agree once the push went through.
ConvergedAlways(c, ix) == c.bare

Converged(c, ix) == c.bare /\ c.refs = ix.refs

\* ...and stamps the copy with it when the refs on disk are the index's.
AdoptStamp ==
    /\ lock.pc = "adopt"
    /\ copy' = IF Converged(copy, lock.ix)
               THEN [copy EXCEPT !.state = StateOf(lock.gen, lock.ix)]
               ELSE copy
    /\ lock' = LockFree
    /\ writer' = [writer EXCEPT ![lock.who] = WriterIdle]
    /\ UNCHANGED <<log, made, spent>>

\* Adoption is best effort: an error is logged.
AdoptFault(w) ==
    /\ writer[w].pc = "adopt"
    /\ IsFree
    /\ Fault
    /\ writer' = [writer EXCEPT ![w] = WriterIdle]
    /\ UNCHANGED <<log, made, copy, lock>>

\* As if the rollback went back to the commit's parent.
RollbackToParent(q, r, c) == q.upd.old[r]

\* walRefOr: the value the log last recorded for the ref here; no file, no value.
Rollback(q, r, c) == c.state.refs[r]

\* ResetBranch undoes a commit only while the branch is still at it; the undoing
\* of a creation or a deletion looks no further than DeleteRef and CreateRef do.
Undone(q, r, c) ==
    IF q.work = "commit" /\ c.refs[r] = q.upd.new[r]
    THEN [c EXCEPT !.refs[r] = Rollback(q, r, c)]
    ELSE IF q.work = "create" THEN [c EXCEPT !.refs[r] = NoCommit]
    ELSE IF q.work = "delete" /\ c.refs[r] = NoCommit THEN WithRef(c, r, q.upd.old[r])
    ELSE c

\* The next attempt of commitThroughWAL, for the callers that ask for one.
Attempts(q) ==
    {WriterIdle} \cup
    (IF q.work = "commit" /\ q.stale /\ q.tries + 1 < MaxAttempts
     THEN {[q EXCEPT !.pc = "ensure", !.tries = @ + 1]} ELSE {})

Reset(w) ==
    /\ writer[w].pc = "reset"
    /\ IsFree
    /\ copy' = IF copy.bare THEN Undone(writer[w], RefOf(w), copy) ELSE copy
    /\ \E q \in Attempts(writer[w]) : writer' = [writer EXCEPT ![w] = q]
    /\ UNCHANGED <<log, made, lock, spent>>

-----------------------------------------------------------------------------
(* Eviction and crashes                                                    *)

\* evictDown removes a copy the log can rebuild, under its lock.  evictMinIdle
\* (10 min) outlasts every request that began by stamping the copy as used.
Evict ==
    /\ Evicts
    /\ IsFree
    /\ copy.state.gen # 0
    /\ \A w \in Local : writer[w].pc = "idle"
    /\ copy' = Gone
    /\ UNCHANGED <<log, made, lock, writer, spent>>

\* What is left of a directory whose removal was cut short.
Debris ==
    {[copy EXCEPT !.bare = TRUE, !.objs = o, !.refs = rs, !.state = s] :
        o \in {copy.objs, {}}, rs \in {copy.refs, NoRefs}, s \in {copy.state, NoState}}

\* The process dies with all it had in memory.  Its disk is a volume that keeps
\* what was written (compose) or memory that goes with it (Cloud Run).
Crash ==
    /\ Spend("crashes", MaxCrashes)
    /\ \E disk \in Disks :
        copy' \in IF disk = "lost" THEN {Gone}
                  ELSE {copy} \cup (IF lock.pc = "recreate" THEN Debris ELSE {})
    /\ lock' = LockFree
    /\ writer' = [w \in DOMAIN writer |-> IF w \in Local THEN WriterIdle ELSE writer[w]]
    /\ UNCHANGED <<log, made>>

-----------------------------------------------------------------------------

Opened(w) ==
    Refuse(w) \/ Commit(w) \/ Resolve(w) \/ CreateRef(w) \/ DeleteRef(w) \/ Receive(w)
Pushing(w) == Plan(w) \/ Publish(w) \/ PublishRefused(w) \/ PublishFault(w)
Finishing(w) == Move(w) \/ MoveFails(w) \/ AdoptRead(w) \/ AdoptFault(w) \/ Reset(w)

Next ==
    \/ \E who \in Local \cup {Reader} : EnsureHit(who) \/ EnsureAlarm(who) \/ MatBegin(who)
    \/ Materialising \/ AdoptStamp
    \/ \E w \in Local : Ask(w) \/ Opened(w) \/ Finishing(w)
    \/ \E w \in Local \cup Remote : Pushing(w)
    \/ \E w \in Remote : AskElsewhere(w)
    \/ Compact \/ Evict \/ Crash

Spec == Init /\ [][Next]_vars

-----------------------------------------------------------------------------
(* Properties *)

LocalState == [gen : Nat, base : Nat, applied : Seq(Pack), refs : RefMap]

Directory ==
    [bare : BOOLEAN, objs : SUBSET Commits, refs : RefMap, state : LocalState,
     absent : SUBSET (Commits \cup {NoCommit})]

LockState ==
    [pc : {"free", "recreate", "apply", "update", "stamp", "adopt"},
     who : Local \cup {Reader}, gen : Nat, ix : Index, todo : Seq(Pack), listed : RefMap]

WriterState ==
    [pc : {"idle", "ensure", "open", "plan", "publish", "move", "adopt", "reset"},
     work : {"commit", "create", "delete", "push"}, upd : Update,
     quar : SUBSET Commits, basis : Index, exclude : SUBSET Commits,
     tries : 0..(MaxAttempts - 1), stale : BOOLEAN]

TypeOK ==
    /\ index \in Index
    /\ generation \in Nat
    /\ content \in Seq(SUBSET Commits)
    /\ made \subseteq Commits
    /\ copy \in Directory
    /\ lock \in LockState
    /\ writer \in [Local \cup Remote -> WriterState]
    /\ spent \in [{"asked", "compactions", "faults", "crashes"} -> Nat]

\* A copy that would be continued rather than rebuilt has every object its refs
\* reach, at every point a request or a crash can find it: objects come before
\* refs, refs before the state file, and nothing written from two sides at once
\* (a materialisation under the lock, receive-pack without it) leaves a hole.  Only
\* a commit that a creation, or an undone deletion, set a ref to while it was not
\* there may be missing: a copy never used for those has no such commit.
CopyIntact ==
    ~Rebuilds(copy, index) => ReachAll(Tips(copy.refs) \ copy.absent) \subseteq copy.objs

\* What the comments of gitrepo/refs.go have every write keep to: a copy that
\* would be continued has no ref that names an object it does not hold.
RefsHaveObjects ==
    ~Rebuilds(copy, index) => Tips(copy.refs) \subseteq copy.objs

\* A copy at the current generation, with no write in flight, has the index's
\* refs: no refused commit, lost answer or late receive-pack leaves behind a ref
\* that no materialisation would ever repair.
QuietCopyAgrees ==
    (/\ IsFree
     /\ \A w \in Local : writer[w].pc = "idle"
     /\ generation # 0
     /\ CacheHit(copy, generation, index)) => copy.refs = index.refs

\* A copy brought up to date pack by pack never meets a pack that builds on an
\* object it lacks: what the state file says was applied is really there.
CatchUpApplies ==
    (lock.pc = "apply" /\ lock.todo # <<>>) =>
        LinksFound(Head(lock.todo), copy.objs)

-----------------------------------------------------------------------------
(* Liveness.  Whoever holds the lock goes on, and a mutex is fair to those  *)
(* who wait for it; writes in flight take their next step; somebody reads  *)
(* the repository again and again.                                         *)

Unlocking == MatRecreate \/ MatApply \/ MatDelete \/ MatUpdate \/ MatStamp \/ AdoptStamp

Ensure(who) == EnsureHit(who) \/ EnsureAlarm(who) \/ MatBegin(who)

Fairness ==
    /\ WF_vars(Unlocking)
    /\ SF_vars(MatBegin(Reader))
    /\ \A w \in Local :
        /\ SF_vars(Ensure(w))
        /\ SF_vars(Opened(w))
        /\ SF_vars(Finishing(w))
    /\ \A w \in Local \cup Remote : WF_vars(Pushing(w))

LiveSpec == Spec /\ Fairness

\* The copy always catches up with the log again.
CopyConverges == []<>(copy.refs = index.refs)

=============================================================================
