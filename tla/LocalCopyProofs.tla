--------------------------- MODULE LocalCopyProofs ---------------------------
(***************************************************************************)
(* The copy of a repository one instance keeps, for any number of writers, *)
(* commits and refs.                                                       *)
(***************************************************************************)
EXTENDS LocalCopy, WalIndexProofs

(***************************************************************************)
(* Types                                                                   *)
(***************************************************************************)

\* The packs uploaded so far.
Packs == 1..Len(content)

LogOK ==
    /\ index \in Index
    /\ generation \in Nat
    /\ content \in Seq(SUBSET Commits)
    /\ Names(index) \subseteq Packs

\* A copy's state file names packs that exist, and only creations and deletions set
\* a ref to a commit without a look.
CopyOK(c) ==
    /\ c \in Directory
    /\ c.absent # {} => Work \cap {"create", "delete"} # {}
    /\ c.state.base \in Packs \cup {NoPack}
    /\ Members(c.state.applied) \subseteq Packs

\* So does whoever holds the lock, and only a write request adopts.
LockOK(k) ==
    /\ k \in LockState
    /\ Names(k.ix) \subseteq Packs
    /\ Members(k.todo) \subseteq Packs
    /\ k.pc = "adopt" => k.who \in Local

\* A write in flight moves one ref, of its own kind of work, and keeps a
\* quarantine only until receive-pack has been answered.
WriterOK(w, q) ==
    /\ q \in WriterState
    /\ q.pc # "idle" => \E r \in Refs : q.upd.touch = {r}
    /\ (q.work # "push" \/ q.pc \notin {"plan", "publish", "move"}) => q.quar = {}
    /\ q.pc = "reset" => q.work # "push"
    /\ q.pc = "move" => q.work = "push"
    /\ (w \in Local /\ q.pc # "idle") => q.work \in Work
    /\ w \in Remote => q.pc \in {"idle", "plan", "publish"} /\ q.quar = {}

WritersOK ==
    /\ writer \in [Local \cup Remote -> WriterState]
    /\ \A w \in Local \cup Remote : WriterOK(w, writer[w])

RestOK ==
    /\ made \subseteq Commits
    /\ spent \in [{"asked", "compactions", "faults", "crashes"} -> Nat]

\* Whoever holds the lock waits for what it was taken for.
HolderOK ==
    /\ lock.pc \in {"recreate", "apply", "update", "stamp"} => Ensuring(lock.who)
    /\ lock.pc = "adopt" => writer[lock.who].pc = "adopt"

\* The shape of the state, with what keeps it: packs named anywhere exist.
TypeInv ==
    /\ LogOK
    /\ CopyOK(copy)
    /\ LockOK(lock)
    /\ WritersOK
    /\ HolderOK
    /\ RestOK

\* The parts that constants alone make.
LEMMA NoRefsFacts ==
    /\ NoRefs \in RefMap
    /\ Tips(NoRefs) = {}
    /\ ReachAll({}) = {}
    /\ \A r \in Refs : NoRefs[r] = NoCommit
BY DEF NoRefs, RefMap, Tips, ReachAll

\* An update of one ref.
LEMMA MovingFacts ==
    ASSUME NEW r \in Refs, NEW old \in Commits \cup {NoCommit}, NEW new \in Commits \cup {NoCommit}
    PROVE  /\ Moving(r, old, new) \in Update
           /\ Moving(r, old, new).touch = {r}
           /\ Moving(r, old, new).old[r] = old
           /\ Moving(r, old, new).new[r] = new
<1>1. /\ [NoRefs EXCEPT ![r] = old] \in RefMap
      /\ [NoRefs EXCEPT ![r] = new] \in RefMap
      /\ [NoRefs EXCEPT ![r] = old][r] = old
      /\ [NoRefs EXCEPT ![r] = new][r] = new
  BY NoRefsFacts DEF RefMap
<1>2. QED
  BY <1>1 DEF Moving, Update

\* A write in flight has one ref, with the values it moves it from and to.
LEMMA RefOfFacts ==
    ASSUME WritersOK, NEW w \in Local \cup Remote, writer[w].pc # "idle"
    PROVE  /\ RefOf(w) \in Refs
           /\ writer[w].upd.touch = {RefOf(w)}
           /\ writer[w].upd \in Update
           /\ OldOf(w) \in Commits \cup {NoCommit}
           /\ NewOf(w) \in Commits \cup {NoCommit}
           /\ Want(writer[w].upd) = {NewOf(w)} \ {NoCommit}
           /\ Want(writer[w].upd) \subseteq Commits
<1>1. WriterOK(w, writer[w]) /\ writer[w] \in WriterState
  BY DEF WritersOK
<1>2. writer[w].upd \in Update
  BY <1>1 DEF WriterState
<1>3. PICK r \in Refs : writer[w].upd.touch = {r}
  BY <1>1 DEF WriterOK
<1>4. RefOf(w) = r
  BY <1>3 DEF RefOf
<1>5. QED
  BY <1>2, <1>3, <1>4 DEF OldOf, NewOf, Update, RefMap, Want

\* An idle writer, a free lock, an empty copy and no copy are in order.
LEMMA IdleFacts ==
    ASSUME NEW w
    PROVE  /\ WriterIdle \in WriterState
           /\ WriterIdle.pc = "idle"
           /\ WriterIdle.quar = {}
           /\ WriterOK(w, WriterIdle)
<1>1. NoUpdate \in Update
  BY NoRefsFacts DEF NoUpdate, Update
<1>2. 0 \in 0..(MaxAttempts - 1)
  BY LocalCopyAssumption
<1>3. WriterIdle \in WriterState
  BY <1>1, <1>2, EmptyIndexFacts DEF WriterIdle, WriterState
<1>4. QED
  BY <1>3 DEF WriterIdle, WriterOK

\* A free lock, an empty copy and no copy at all have the right types.
LEMMA BlankFacts ==
    ASSUME LogOK
    PROVE  /\ LockOK(LockFree) /\ LockFree.pc = "free"
           /\ CopyOK(Bare) /\ CopyOK(Gone)
           /\ NoState \in LocalState
<1>1. <<>> \in Seq(Pack) /\ Len(<<>>) = 0 /\ Members(<<>>) = {}
  BY DEF Members
<1>2. LockFree \in LockState
  BY <1>1, EmptyIndexFacts, NoRefsFacts DEF LockFree, LockState
<1>3. LockOK(LockFree)
  BY <1>1, <1>2, EmptyIndexFacts DEF LockOK, LockFree
<1>4. NoState \in LocalState /\ NoState.base = NoPack /\ NoState.applied = <<>>
  BY <1>1, NoRefsFacts DEF NoState, LocalState, NoPack
<1>5. Gone \in Directory /\ Gone.state = NoState /\ Gone.absent = {}
  BY <1>4, NoRefsFacts DEF Gone, Directory
<1>6. Bare \in Directory /\ Bare.state = NoState /\ Bare.absent = {}
  BY <1>5 DEF Bare, Directory, Gone
<1>7. QED
  BY <1>1, <1>3, <1>4, <1>5, <1>6 DEF CopyOK, LockFree

(***************************************************************************)
(* The log                                                                 *)
(***************************************************************************)

\* The log moves on: a new generation, packs added and none changed.
LogGrows ==
    /\ LogOK'
    /\ generation' = generation + 1
    /\ Packs \subseteq Packs'
    /\ \A p \in Packs : content'[p] = content[p]

\* A push that lands appends at most one pack, which is new, and moves refs.
Landed(q) ==
    LET pack == PackObjects(Want(q.upd), q.exclude)
    IN  /\ index'.base = index.base
        /\ index'.refs = UpdatedRefs(index.refs, q.upd)
        /\ \/ pack = {} /\ index'.entries = index.entries /\ content' = content
           \/ /\ pack # {}
              /\ index'.entries = Append(index.entries, Len(content) + 1)
              /\ content' = Append(content, pack)
              /\ content'[Len(content) + 1] = pack

\* A write that lands makes the log grow, by the pack it uploaded.
LEMMA LandFacts ==
    ASSUME LogOK, NEW q \in WriterState, Land(q)
    PROVE  LogGrows /\ Landed(q)
<1> DEFINE pack == PackObjects(Want(q.upd), q.exclude)
           entry == IF pack = {} THEN NoPack ELSE Len(content) + 1
<1>1. /\ index' = Apply(index, q.upd, entry)
      /\ generation' = generation + 1
      /\ content' = IF pack = {} THEN content ELSE Append(content, pack)
  BY DEF Land
<1>2. q.upd \in Update /\ Len(content) \in Nat /\ index \in Index /\ generation \in Nat
      /\ content \in Seq(SUBSET Commits) /\ Names(index) \subseteq Packs
  BY DEF WriterState, LogOK
<1>3. pack \in SUBSET Commits
  <2>1. Want(q.upd) \subseteq Commits /\ index.refs \in RefMap
    BY <1>2, UpdateFacts DEF Index
  <2>2. ReachAll(Want(q.upd)) \subseteq Commits
    BY <2>1, ReachAllFacts
  <2>3. QED
    BY <2>2 DEF PackObjects
<1>4. entry \in Nat
  BY <1>2 DEF NoPack
<1>5. /\ index' \in Index
      /\ Names(index') = Names(index) \cup ({entry} \ {NoPack})
  BY <1>1, <1>2, <1>4, ApplyFacts
<1>6. /\ index'.base = index.base
      /\ index'.refs = UpdatedRefs(index.refs, q.upd)
      /\ index'.entries = AppendEntry(index.entries, entry)
  BY <1>1 DEF Apply
<1> HIDE DEF pack
<1>7. CASE pack = {}
  <2>1. content' = content /\ entry = NoPack /\ index'.entries = index.entries
    BY <1>1, <1>6, <1>7 DEF AppendEntry
  <2>2. Names(index') \subseteq Packs'
    BY <1>2, <1>5, <2>1 DEF Packs
  <2>3. LogOK'
    BY <1>1, <1>2, <1>5, <2>1, <2>2 DEF LogOK
  <2>4. LogGrows
    BY <1>1, <2>1, <2>3 DEF LogGrows, Packs
  <2>5. QED
    BY <1>6, <1>7, <2>1, <2>4 DEF Landed, pack
<1>8. CASE pack # {}
  <2>1. /\ content' = Append(content, pack)
        /\ entry = Len(content) + 1
        /\ entry # NoPack
    BY <1>1, <1>2, <1>8 DEF NoPack
  <2>2. /\ content' \in Seq(SUBSET Commits)
        /\ Len(content') = Len(content) + 1
        /\ \A i \in 1..Len(content) : content'[i] = content[i]
        /\ content'[Len(content) + 1] = pack
    BY <1>2, <1>3, <2>1, AppendFacts
  <2>3. index'.entries = Append(index.entries, Len(content) + 1)
    BY <1>6, <2>1 DEF AppendEntry
  <2>4. Packs \subseteq Packs' /\ entry \in Packs'
    BY <1>2, <2>1, <2>2 DEF Packs
  <2>5. LogOK'
    BY <1>1, <1>2, <1>5, <2>2, <2>4 DEF LogOK
  <2>6. LogGrows
    BY <1>1, <2>2, <2>4, <2>5 DEF LogGrows, Packs
  <2>7. QED
    BY <1>6, <1>8, <2>1, <2>2, <2>3, <2>6 DEF Landed, pack
<1>9. QED
  BY <1>7, <1>8

\* A compaction names one new pack, with everything the refs reach.
LEMMA CompactFacts ==
    ASSUME LogOK, Compact
    PROVE  /\ LogGrows
           /\ index'.base = Len(content) + 1
           /\ index'.entries = <<>>
           /\ index'.refs = index.refs
           /\ content' = Append(content, ReachAll(Tips(index.refs)))
           /\ content'[Len(content) + 1] = ReachAll(Tips(index.refs))
<1> DEFINE base == Len(content) + 1
           all == ReachAll(Tips(index.refs))
<1>1. /\ content' = Append(content, all)
      /\ index' = Compacted(index, base)
      /\ generation' = generation + 1
  BY DEF Compact
<1>2. Len(content) \in Nat /\ index \in Index /\ generation \in Nat
      /\ content \in Seq(SUBSET Commits) /\ Names(index) \subseteq Packs
  BY DEF LogOK
<1>3. all \in SUBSET Commits
  BY <1>2, TipsFacts, ReachAllFacts DEF Index
<1>4. base \in Pack
  BY <1>2 DEF Pack
<1>5. /\ index' \in Index /\ Names(index') = {base}
  BY <1>1, <1>2, <1>4, CompactedFacts
<1>6. index'.base = base /\ index'.entries = <<>> /\ index'.refs = index.refs
  BY <1>1 DEF Compacted
<1> HIDE DEF all
<1>7. /\ content' \in Seq(SUBSET Commits)
      /\ Len(content') = Len(content) + 1
      /\ \A i \in 1..Len(content) : content'[i] = content[i]
      /\ content'[Len(content) + 1] = all
  BY <1>1, <1>2, <1>3, AppendFacts
<1>8. Packs \subseteq Packs' /\ base \in Packs'
  BY <1>2, <1>7 DEF Packs
<1>9. LogOK'
  BY <1>1, <1>2, <1>5, <1>7, <1>8 DEF LogOK
<1>10. LogGrows
  BY <1>1, <1>7, <1>8, <1>9 DEF LogGrows, Packs
<1>11. QED
  BY <1>1, <1>6, <1>7, <1>10 DEF all

\* What was in order before the log moved on is in order after.
LEMMA GrowthFacts ==
    ASSUME LogGrows
    PROVE  /\ \A c : CopyOK(c) => CopyOK(c)'
           /\ \A k : LockOK(k) => LockOK(k)'
BY DEF LogGrows, CopyOK, LockOK

(***************************************************************************)
(* Steps that keep the types                                               *)
(***************************************************************************)

\* One writer moves and the log may grow.
LEMMA WriterTypes ==
    ASSUME TypeInv, UNCHANGED log \/ LogGrows, UNCHANGED <<copy, lock>>, RestOK',
           NEW w \in Local \cup Remote, NEW q, WriterOK(w, q),
           writer' = [writer EXCEPT ![w] = q],
           IsFree \/ writer[w].pc \notin {"ensure", "adopt"}
    PROVE  TypeInv'
<1>1. LogOK'
  BY DEF TypeInv, LogOK, LogGrows, log, Packs
<1>2. CopyOK(copy)' /\ LockOK(lock)'
  <2>1. CASE UNCHANGED log
    BY <2>1 DEF TypeInv, CopyOK, LockOK, log, Packs
  <2>2. CASE LogGrows
    BY <2>2, GrowthFacts DEF TypeInv, CopyOK, LockOK
  <2>3. QED
    BY <2>1, <2>2
<1>3. WritersOK'
  BY DEF TypeInv, WritersOK, WriterOK
<1>4. HolderOK'
  BY LocalCopyAssumption DEF TypeInv, WritersOK, LockOK, LockState, HolderOK, IsFree, Ensuring
<1>5. QED
  BY <1>1, <1>2, <1>3, <1>4 DEF TypeInv

\* The copy, the lock and one writer move, and the log does not.
LEMMA CopyTypes ==
    ASSUME TypeInv, UNCHANGED log, RestOK', CopyOK(copy'), LockOK(lock'),
           WritersOK', HolderOK'
    PROVE  TypeInv'
<1>1. LogOK' /\ Packs' = Packs
  BY DEF TypeInv, LogOK, log, Packs
<1>2. CopyOK(copy)' /\ LockOK(lock)'
  BY <1>1 DEF CopyOK, LockOK
<1>3. QED
  BY <1>1, <1>2 DEF TypeInv

\* One writer of several moves.
LEMMA OneWriter ==
    ASSUME WritersOK, NEW w \in Local \cup Remote, NEW q, WriterOK(w, q),
           writer' = [writer EXCEPT ![w] = q]
    PROVE  WritersOK'
BY DEF WritersOK, WriterOK

\* Giving up on a materialisation, or carrying on after it, moves whom the lock
\* was taken for at most.
LEMMA ServedFacts ==
    ASSUME WritersOK, NEW who \in Local \cup {Reader}
    PROVE  /\ writer' = Failed(who) => WritersOK'
           /\ (Ensuring(who) /\ writer' = Served(who)) => WritersOK'
<1>1. CASE who = Reader
  BY <1>1 DEF Failed, Served, WritersOK
<1>2. CASE who # Reader
  <2>1. who \in Local /\ WriterOK(who, writer[who]) /\ who \notin Remote
    BY <1>2, LocalCopyAssumption DEF WritersOK
  <2>2. writer' = Failed(who) => WritersOK'
    BY <1>2, <2>1, IdleFacts, OneWriter DEF Failed
  <2>3. ASSUME Ensuring(who), writer' = Served(who) PROVE WritersOK'
    <3> DEFINE q == [writer[who] EXCEPT !.pc = "open"]
    <3>1. writer' = [writer EXCEPT ![who] = q]
      BY <1>2, <2>3 DEF Served
    <3>2. writer[who].pc = "ensure" /\ writer[who] \in WriterState
      BY <1>2, <2>1, <2>3 DEF Ensuring, WriterOK
    <3>3. q \in WriterState /\ q.pc = "open" /\ q.upd = writer[who].upd
          /\ q.quar = writer[who].quar /\ q.work = writer[who].work
      BY <3>2 DEF WriterState
    <3> HIDE DEF q
    <3>4. WriterOK(who, q)
      BY <2>1, <3>2, <3>3 DEF WriterOK
    <3>5. QED
      BY <2>1, <3>1, <3>4, OneWriter
  <2>4. QED
    BY <2>2, <2>3
<1>3. QED
  BY <1>1, <1>2

\* The fields of a step's actors.
LEMMA ShapeFacts ==
    ASSUME TypeInv
    PROVE  /\ index \in Index /\ index.refs \in RefMap /\ index.base \in Nat
           /\ index.entries \in Seq(Pack)
           /\ copy \in Directory /\ copy.bare \in BOOLEAN /\ copy.objs \subseteq Commits
           /\ copy.refs \in RefMap /\ copy.state \in LocalState
           /\ copy.absent \subseteq Commits \cup {NoCommit}
           /\ copy.state.gen \in Nat /\ copy.state.base \in Nat
           /\ copy.state.applied \in Seq(Pack) /\ copy.state.refs \in RefMap
           /\ lock \in LockState /\ lock.who \in Local \cup {Reader} /\ lock.gen \in Nat
           /\ lock.ix \in Index /\ lock.ix.refs \in RefMap /\ lock.ix.base \in Nat
           /\ lock.ix.entries \in Seq(Pack) /\ lock.todo \in Seq(Pack) /\ lock.listed \in RefMap
           /\ \A w \in Local \cup Remote : WriterOK(w, writer[w]) /\ writer[w] \in WriterState
           /\ made \subseteq Commits
BY DEF TypeInv, LogOK, CopyOK, LockOK, WritersOK, RestOK, Index, Directory, LocalState,
   LockState, WriterOK

\* Requests served from the copy as it is, or not at all.
LEMMA EnsureTypes ==
    ASSUME TypeInv, NEW who \in Local \cup {Reader}, EnsureHit(who) \/ EnsureAlarm(who)
    PROVE  TypeInv'
<1>1. UNCHANGED <<log, made, copy, lock, spent>> /\ IsFree /\ Ensuring(who)
      /\ (writer' = Served(who) \/ writer' = Failed(who))
  BY DEF EnsureHit, EnsureAlarm
<1>2. WritersOK'
  BY <1>1, ServedFacts DEF TypeInv
<1>3. CopyOK(copy') /\ LockOK(lock') /\ RestOK' /\ HolderOK'
  BY <1>1 DEF TypeInv, RestOK, HolderOK, IsFree
<1>4. QED
  BY <1>1, <1>2, <1>3, CopyTypes

\* What is left to apply is made of packs the index names.
LEMMA RemainingTypes ==
    ASSUME TypeInv
    PROVE  Remaining(copy, index) \in Seq(Pack) /\ Members(Remaining(copy, index)) \subseteq Packs
<1>1. index \in Index /\ Names(index) \subseteq Packs /\ index.entries \in Seq(Pack)
      /\ copy.state.applied \in Seq(Pack)
  BY ShapeFacts DEF TypeInv, LogOK
<1>2. CASE Rebuilds(copy, index)
  BY <1>1, <1>2, ApplyOrderFacts DEF Remaining
<1>3. CASE ~Rebuilds(copy, index)
  <2> DEFINE s == Beyond(index.entries, Len(copy.state.applied))
  <2>1. Len(copy.state.applied) \in 0..Len(index.entries)
    BY <1>1, <1>3 DEF Rebuilds, IsPrefix, HasPrefix
  <2>2. s \in Seq(Pack) /\ Members(s) \subseteq Members(index.entries)
    BY <1>1, <2>1, BeyondFacts
  <2>4. Members(index.entries) \subseteq Names(index)
    <3>1. NoPack \notin Members(index.entries)
      BY <1>1 DEF Members, Pack, NoPack
    <3>2. QED
      BY <3>1 DEF Names
  <2>5. Remaining(copy, index) = s
    BY <1>3 DEF Remaining
  <2>6. QED
    BY <1>1, <2>2, <2>4, <2>5
<1>4. QED
  BY <1>2, <1>3

\* A materialisation starts, over the packs it lacks.
LEMMA MatBeginTypes ==
    ASSUME TypeInv, NEW who \in Local \cup {Reader}, MatBegin(who)
    PROVE  TypeInv'
<1> DEFINE pc == IF Rebuilds(copy, index) THEN "recreate" ELSE "apply"
           todo == Remaining(copy, index)
           k == [LockFree EXCEPT !.pc = pc, !.who = who, !.gen = generation, !.ix = index,
                                 !.todo = todo]
<1>1. lock' = k /\ UNCHANGED <<log, made, copy, writer, spent>> /\ Ensuring(who)
  BY DEF MatBegin
<1>2. pc \in {"recreate", "apply"}
  OBVIOUS
<1>3. todo \in Seq(Pack) /\ Members(todo) \subseteq Packs
  BY RemainingTypes
<1>4. LockFree \in LockState /\ index \in Index /\ generation \in Nat /\ Names(index) \subseteq Packs
  BY BlankFacts DEF TypeInv, LogOK, LockOK
<1> HIDE DEF pc, todo
<1>5. /\ k \in LockState /\ k.pc = pc /\ k.who = who /\ k.ix = index /\ k.todo = todo
      /\ k.gen = generation
  BY <1>2, <1>3, <1>4 DEF LockState
<1> HIDE DEF k
<1>6. LockOK(k)
  BY <1>2, <1>3, <1>4, <1>5 DEF LockOK
<1>7. WritersOK' /\ RestOK' /\ CopyOK(copy')
  BY <1>1 DEF TypeInv, WritersOK, RestOK
<1>8. HolderOK'
  BY <1>1, <1>2, <1>5 DEF HolderOK, Ensuring
<1>9. QED
  BY <1>1, <1>6, <1>7, <1>8, CopyTypes

\* A lock that moves to another phase of the same materialisation.
LEMMA PhaseFacts ==
    ASSUME TypeInv, NEW pc \in {"apply", "update", "stamp"}, NEW todo \in Seq(Pack),
           Members(todo) \subseteq Packs, NEW listed \in RefMap,
           lock.pc \in {"recreate", "apply", "update"},
           lock' = [lock EXCEPT !.pc = pc, !.todo = todo, !.listed = listed],
           \A w \in Local : writer'[w].pc = writer[w].pc
    PROVE  /\ LockOK(lock') /\ HolderOK' /\ lock'.pc = pc /\ lock'.todo = todo
           /\ lock'.listed = listed
           /\ lock'.who = lock.who /\ lock'.gen = lock.gen /\ lock'.ix = lock.ix
<1>1. lock \in LockState /\ LockOK(lock) /\ HolderOK
  BY DEF TypeInv, LockOK
<1>2. /\ lock' \in LockState /\ lock'.pc = pc /\ lock'.todo = todo
      /\ lock'.listed = listed
      /\ lock'.who = lock.who /\ lock'.gen = lock.gen /\ lock'.ix = lock.ix
  BY <1>1 DEF LockState
<1>3. LockOK(lock')
  BY <1>1, <1>2 DEF LockOK
<1>4. Ensuring(lock.who)
  BY <1>1 DEF HolderOK
<1>5. HolderOK'
  BY <1>2, <1>4 DEF HolderOK, Ensuring
<1>6. QED
  BY <1>2, <1>3, <1>5

\* Quarantines may go with the directory they are in.
LEMMA EmptiedFacts ==
    ASSUME NEW ws \in [Local \cup Remote -> WriterState],
           \A w \in Local \cup Remote : WriterOK(w, ws[w]),
           writer' = WithoutQuarantines(ws)
    PROVE  /\ WritersOK'
           /\ \A w \in Local \cup Remote : writer'[w].pc = ws[w].pc
           /\ \A w \in Remote : writer'[w] = ws[w]
           /\ \A w \in Local : writer'[w] = [ws[w] EXCEPT !.quar = {}]
           /\ \A w \in Local \cup Remote : writer'[w].upd = ws[w].upd /\ writer'[w].work = ws[w].work
<1>1. DOMAIN ws = Local \cup Remote /\ Local \cap Remote = {}
  BY LocalCopyAssumption
<1>2. ASSUME NEW w \in Local \cup Remote
      PROVE  /\ writer'[w] \in WriterState /\ WriterOK(w, writer'[w])
             /\ writer'[w].pc = ws[w].pc
             /\ writer'[w].upd = ws[w].upd /\ writer'[w].work = ws[w].work
             /\ w \in Remote => writer'[w] = ws[w]
             /\ w \in Local => writer'[w] = [ws[w] EXCEPT !.quar = {}]
  <2>1. CASE w \in Local
    <3> DEFINE q == [ws[w] EXCEPT !.quar = {}]
    <3>1. writer'[w] = q
      BY <1>1, <2>1 DEF WithoutQuarantines
    <3>2. ws[w] \in WriterState
      OBVIOUS
    <3>3. q \in WriterState /\ q.pc = ws[w].pc /\ q.upd = ws[w].upd /\ q.quar = {}
          /\ q.work = ws[w].work
      BY <3>2 DEF WriterState
    <3>4. WriterOK(w, ws[w])
      OBVIOUS
    <3>5. w \notin Remote
      BY <1>1, <2>1
    <3> HIDE DEF q
    <3>6. WriterOK(w, q)
      BY <3>3, <3>4 DEF WriterOK
    <3>7. QED
      BY <3>1, <3>3, <3>5, <3>6 DEF q
  <2>2. CASE w \notin Local
    <3>1. writer'[w] = ws[w]
      BY <1>1, <2>2 DEF WithoutQuarantines
    <3>2. QED
      BY <2>2, <3>1
  <2>3. QED
    BY <2>1, <2>2
<1>3. writer' = [w \in Local \cup Remote |->
                    IF w \in Local THEN [ws[w] EXCEPT !.quar = {}] ELSE ws[w]]
  BY <1>1 DEF WithoutQuarantines
<1>4. writer' \in [Local \cup Remote -> WriterState]
  BY <1>2, <1>3
<1>5. WritersOK'
  BY <1>2, <1>4 DEF WritersOK, WriterOK
<1>6. QED
  BY <1>2, <1>5

\* It clears the directory.
LEMMA MatRecreateTypes ==
    ASSUME TypeInv, MatRecreate
    PROVE  TypeInv'
<1>1. /\ lock.pc = "recreate" /\ copy' = Bare /\ writer' = WithoutQuarantines(writer)
      /\ lock' = [lock EXCEPT !.pc = "apply"]
      /\ UNCHANGED <<log, made, spent>>
  BY DEF MatRecreate
<1>2. /\ WritersOK' /\ \A w \in Local \cup Remote : writer'[w].pc = writer[w].pc
  BY <1>1, EmptiedFacts DEF TypeInv, WritersOK
<1>3. lock \in LockState /\ Members(lock.todo) \subseteq Packs
      /\ lock.todo \in Seq(Pack) /\ lock.listed \in RefMap
  BY ShapeFacts DEF TypeInv, LockOK
<1>4. lock' = [lock EXCEPT !.pc = "apply", !.todo = lock.todo, !.listed = lock.listed]
  BY <1>1, <1>3 DEF LockState
<1>5. LockOK(lock') /\ HolderOK'
  BY <1>1, <1>2, <1>3, <1>4, PhaseFacts
<1>6. CopyOK(copy') /\ RestOK'
  BY <1>1, BlankFacts DEF TypeInv, RestOK
<1>7. QED
  BY <1>1, <1>2, <1>5, <1>6, CopyTypes

\* The lock is freed by a materialisation that gives up.
LEMMA GivenUpTypes ==
    ASSUME TypeInv, UNCHANGED <<log, copy, made>>, RestOK',
           lock' = LockFree, writer' = Failed(lock.who)
    PROVE  TypeInv'
<1>1. WritersOK' /\ LockOK(lock') /\ lock'.pc = "free"
  BY ShapeFacts, ServedFacts, BlankFacts DEF TypeInv
<1>2. HolderOK'
  BY <1>1 DEF HolderOK
<1>3. QED
  BY <1>1, <1>2, CopyTypes DEF TypeInv

\* The pack that is next carries objects.
LEMMA NextPackFacts ==
    ASSUME TypeInv, lock.todo # <<>>
    PROVE  /\ Head(lock.todo) \in Packs
           /\ content[Head(lock.todo)] \subseteq Commits
           /\ Tail(lock.todo) \in Seq(Pack)
           /\ Members(Tail(lock.todo)) \subseteq Packs
           /\ Len(Tail(lock.todo)) = Len(lock.todo) - 1
           /\ \A i \in 1..Len(Tail(lock.todo)) : Tail(lock.todo)[i] = lock.todo[i + 1]
           /\ Head(lock.todo) = lock.todo[1]
           /\ Len(lock.todo) \in Nat \ {0}
<1>1. lock.todo \in Seq(Pack) /\ Members(lock.todo) \subseteq Packs
      /\ content \in Seq(SUBSET Commits)
  BY ShapeFacts DEF TypeInv, LockOK, LogOK
<1>2. /\ Head(lock.todo) = lock.todo[1] /\ 1 \in 1..Len(lock.todo)
      /\ Len(Tail(lock.todo)) = Len(lock.todo) - 1
      /\ \A i \in 1..Len(Tail(lock.todo)) : Tail(lock.todo)[i] = lock.todo[i + 1]
      /\ Len(lock.todo) \in Nat \ {0}
  BY <1>1
<1>3. Head(lock.todo) \in Packs
  BY <1>1, <1>2 DEF Members
<1>4. content[Head(lock.todo)] \in SUBSET Commits
  BY <1>1, <1>3 DEF Packs
<1>5. Tail(lock.todo) \in Seq(Pack) /\ Members(Tail(lock.todo)) \subseteq Packs
  BY <1>1, TailFacts
<1>6. QED
  BY <1>2, <1>3, <1>4, <1>5

\* A step that writes to the directory but not its state file.
LEMMA WrittenFacts ==
    ASSUME TypeInv, UNCHANGED log, NEW objs \in SUBSET Commits, NEW refs \in RefMap,
           copy' = [copy EXCEPT !.objs = objs, !.refs = refs]
    PROVE  /\ CopyOK(copy')
           /\ copy'.objs = objs /\ copy'.refs = refs
           /\ copy'.state = copy.state /\ copy'.bare = copy.bare /\ copy'.absent = copy.absent
<1>1. copy \in Directory /\ CopyOK(copy)
  BY DEF TypeInv, CopyOK
<1>2. /\ copy' \in Directory
      /\ copy'.objs = objs /\ copy'.refs = refs
      /\ copy'.state = copy.state /\ copy'.bare = copy.bare /\ copy'.absent = copy.absent
  BY <1>1 DEF Directory
<1>3. QED
  BY <1>1, <1>2 DEF CopyOK

\* It applies a pack, or gives up.
LEMMA MatApplyTypes ==
    ASSUME TypeInv, MatApply
    PROVE  TypeInv'
<1>1. /\ lock.pc = "apply" /\ lock.todo # <<>> /\ UNCHANGED <<log, made, spent>>
  BY DEF MatApply
<1>2. RestOK'
  BY <1>1 DEF TypeInv, RestOK
<1>3. CASE lock' = LockFree /\ writer' = Failed(lock.who) /\ UNCHANGED copy
  BY <1>1, <1>2, <1>3, GivenUpTypes
<1>4. CASE /\ copy' = Applied(copy, Head(lock.todo), lock.ix)
           /\ lock' = [lock EXCEPT !.todo = Tail(@)]
           /\ UNCHANGED writer
  <2> DEFINE objs == copy.objs \cup content[Head(lock.todo)]
  <2>1. copy \in Directory /\ lock \in LockState /\ lock.listed \in RefMap
        /\ copy.refs \in RefMap /\ copy.objs \subseteq Commits
    BY ShapeFacts
  <2>2. objs \in SUBSET Commits
    BY <1>1, <2>1, NextPackFacts
  <2>3. copy' = [copy EXCEPT !.objs = objs, !.refs = copy.refs]
    BY <1>4, <2>1 DEF Applied, Directory
  <2> HIDE DEF objs
  <2>4. CopyOK(copy')
    BY <1>1, <2>1, <2>2, <2>3, WrittenFacts
  <2>5. lock' = [lock EXCEPT !.pc = "apply", !.todo = Tail(lock.todo), !.listed = lock.listed]
    BY <1>1, <1>4, <2>1 DEF LockState
  <2>6. LockOK(lock') /\ HolderOK'
    BY <1>1, <1>4, <2>1, <2>5, NextPackFacts, PhaseFacts
  <2>7. WritersOK'
    BY <1>4 DEF TypeInv, WritersOK
  <2>8. QED
    BY <1>1, <1>2, <2>4, <2>6, <2>7, CopyTypes
<1>5. QED
  BY <1>3, <1>4 DEF MatApply

\* It deletes refs.
LEMMA MatDeleteTypes ==
    ASSUME TypeInv, MatDelete
    PROVE  TypeInv'
<1> DEFINE refs == [r \in Refs |-> IF lock.ix.refs[r] = NoCommit THEN NoCommit ELSE copy.refs[r]]
<1>1. /\ lock.pc = "apply" /\ UNCHANGED <<log, made, writer, spent>>
      /\ copy' = [copy EXCEPT !.refs = refs]
      /\ lock' = [lock EXCEPT !.pc = "update", !.listed = copy.refs]
  BY DEF MatDelete
<1>2. /\ copy \in Directory /\ lock \in LockState /\ lock.todo \in Seq(Pack)
      /\ copy.refs \in RefMap /\ copy.objs \subseteq Commits /\ Members(lock.todo) \subseteq Packs
  BY ShapeFacts DEF TypeInv, LockOK
<1>3. refs \in RefMap
  BY <1>2 DEF RefMap
<1> HIDE DEF refs
<1>4. copy' = [copy EXCEPT !.objs = copy.objs, !.refs = refs]
  BY <1>1, <1>2 DEF Directory
<1>5. lock' = [lock EXCEPT !.pc = "update", !.todo = lock.todo, !.listed = copy.refs]
  BY <1>1, <1>2 DEF LockState
<1>6. CopyOK(copy')
  BY <1>1, <1>2, <1>3, <1>4, WrittenFacts
<1>7. LockOK(lock') /\ HolderOK'
  BY <1>1, <1>2, <1>5, PhaseFacts
<1>8. WritersOK' /\ RestOK'
  BY <1>1 DEF TypeInv, WritersOK, RestOK
<1>9. QED
  BY <1>1, <1>6, <1>7, <1>8, CopyTypes

\* It sets refs, or gives up.
LEMMA MatUpdateTypes ==
    ASSUME TypeInv, MatUpdate
    PROVE  TypeInv'
<1>1. lock.pc = "update" /\ UNCHANGED <<log, made, spent>>
  BY DEF MatUpdate
<1>2. RestOK'
  BY <1>1 DEF TypeInv, RestOK
<1>3. CASE lock' = LockFree /\ writer' = Failed(lock.who) /\ UNCHANGED copy
  BY <1>1, <1>2, <1>3, GivenUpTypes
<1>4. CASE /\ copy' = [copy EXCEPT !.refs =
                    [r \in Refs |-> IF r \in ToUpdate THEN lock.ix.refs[r] ELSE @[r]]]
           /\ lock' = [lock EXCEPT !.pc = "stamp"]
           /\ UNCHANGED writer
  <2> DEFINE refs == [r \in Refs |-> IF r \in ToUpdate THEN lock.ix.refs[r] ELSE copy.refs[r]]
  <2>1. /\ copy \in Directory /\ lock \in LockState /\ lock.todo \in Seq(Pack)
        /\ lock.listed \in RefMap /\ lock.ix.refs \in RefMap
        /\ copy.refs \in RefMap /\ copy.objs \subseteq Commits /\ Members(lock.todo) \subseteq Packs
    BY ShapeFacts DEF TypeInv, LockOK
  <2>2. refs \in RefMap
    BY <2>1 DEF RefMap
  <2>3. copy' = [copy EXCEPT !.refs = refs]
    BY <1>4
  <2> HIDE DEF refs
  <2>4. copy' = [copy EXCEPT !.objs = copy.objs, !.refs = refs]
    BY <2>1, <2>3 DEF Directory
  <2>5. lock' = [lock EXCEPT !.pc = "stamp", !.todo = lock.todo, !.listed = lock.listed]
    BY <1>4, <2>1 DEF LockState
  <2>6. CopyOK(copy')
    BY <1>1, <2>1, <2>2, <2>4, WrittenFacts
  <2>7. LockOK(lock') /\ HolderOK'
    BY <1>1, <1>4, <2>1, <2>5, PhaseFacts
  <2>8. WritersOK'
    BY <1>4 DEF TypeInv, WritersOK
  <2>9. QED
    BY <1>1, <1>2, <2>6, <2>7, <2>8, CopyTypes
<1>5. QED
  BY <1>3, <1>4 DEF MatUpdate

\* The state file says which index the copy was brought up to.
LEMMA StampedFacts ==
    ASSUME TypeInv, UNCHANGED log, NEW k, LockOK(k),
           copy' = [copy EXCEPT !.state = StateOf(k.gen, k.ix)]
    PROVE  /\ CopyOK(copy')
           /\ copy'.state = StateOf(k.gen, k.ix)
           /\ copy'.objs = copy.objs /\ copy'.refs = copy.refs /\ copy'.bare = copy.bare
           /\ copy'.absent = copy.absent
<1>1. k \in LockState /\ k.gen \in Nat /\ k.ix \in Index /\ Names(k.ix) \subseteq Packs
      /\ k.ix.base \in Nat /\ k.ix.entries \in Seq(Pack) /\ k.ix.refs \in RefMap
  BY DEF LockOK, LockState, Index
<1>2. /\ StateOf(k.gen, k.ix) \in LocalState
      /\ StateOf(k.gen, k.ix).base = k.ix.base
      /\ StateOf(k.gen, k.ix).applied = k.ix.entries
  BY <1>1 DEF StateOf, LocalState
<1>3. k.ix.base \in Packs \cup {NoPack} /\ Members(k.ix.entries) \subseteq Packs
  <2>1. NoPack \notin Members(k.ix.entries)
    BY <1>1 DEF Members, Pack, NoPack
  <2>2. QED
    BY <1>1, <2>1 DEF Names
<1>4. copy \in Directory
  BY ShapeFacts
<1>5. /\ copy' \in Directory /\ copy'.state = StateOf(k.gen, k.ix)
      /\ copy'.objs = copy.objs /\ copy'.refs = copy.refs /\ copy'.bare = copy.bare
      /\ copy'.absent = copy.absent
  BY <1>2, <1>4 DEF Directory
<1>6. QED
  BY <1>2, <1>3, <1>5 DEF CopyOK, TypeInv

\* It writes the state file.
LEMMA MatStampTypes ==
    ASSUME TypeInv, MatStamp
    PROVE  TypeInv'
<1>1. /\ lock.pc = "stamp" /\ UNCHANGED <<log, made, spent>>
      /\ copy' = [copy EXCEPT !.state = StateOf(lock.gen, lock.ix)]
      /\ lock' = LockFree /\ writer' = Served(lock.who)
  BY DEF MatStamp
<1>2. LockOK(lock) /\ Ensuring(lock.who) /\ lock.who \in Local \cup {Reader}
  BY <1>1, ShapeFacts DEF TypeInv, HolderOK
<1>3. CopyOK(copy')
  BY <1>1, <1>2, StampedFacts
<1>4. WritersOK' /\ LockOK(lock') /\ HolderOK' /\ RestOK'
  BY <1>1, <1>2, ServedFacts, BlankFacts DEF TypeInv, RestOK, HolderOK
<1>5. QED
  BY <1>1, <1>3, <1>4, CopyTypes

\* It meets a storage or disk error.
LEMMA MatFaultTypes ==
    ASSUME TypeInv, MatFault
    PROVE  TypeInv'
<1>1. /\ lock' = LockFree /\ UNCHANGED <<log, made>> /\ Fault
  BY DEF MatFault
<1>2. RestOK'
  BY <1>1, LocalCopyAssumption DEF TypeInv, RestOK, Fault, Spend
<1>3. CASE copy' = copy /\ writer' = Failed(lock.who)
  BY <1>1, <1>2, <1>3, GivenUpTypes
<1>4. CASE copy' = Gone /\ writer' = WithoutQuarantines(Failed(lock.who))
  <2> DEFINE ws == Failed(lock.who)
  <2>1. ws \in [Local \cup Remote -> WriterState]
        /\ \A w \in Local \cup Remote : WriterOK(w, ws[w])
    BY ShapeFacts, IdleFacts DEF TypeInv, WritersOK, Failed
  <2>2. writer' = WithoutQuarantines(ws)
    BY <1>4
  <2> HIDE DEF ws
  <2>3. WritersOK'
    BY <2>1, <2>2, EmptiedFacts
  <2>4. CopyOK(copy') /\ LockOK(lock') /\ HolderOK'
    BY <1>1, <1>4, BlankFacts DEF TypeInv, HolderOK
  <2>5. QED
    BY <1>1, <1>2, <2>3, <2>4, CopyTypes
<1>5. QED
  BY <1>3, <1>4 DEF MatFault

\* One writer moves and the others do not.
Alone(w, q) ==
    /\ writer'[w] = q
    /\ \A v \in (Local \cup Remote) \ {w} : writer'[v] = writer[v]

\* Changing one entry of the writers changes that one.
LEMMA AloneFacts ==
    ASSUME WritersOK, NEW w \in Local \cup Remote, NEW q,
           writer' = [writer EXCEPT ![w] = q]
    PROVE  Alone(w, q)
BY DEF WritersOK, Alone

\* A request begins.
LEMMA AskTypes ==
    ASSUME TypeInv, NEW w \in Local, Ask(w)
    PROVE  /\ TypeInv'
           /\ \E q : Alone(w, q) /\ q.pc = "ensure" /\ q.quar = {}
<1>1. /\ writer[w].pc = "idle" /\ UNCHANGED <<log, made, copy, lock>>
      /\ Spend("asked", MaxAsked)
  BY DEF Ask
<1>2. PICK r \in Refs, k \in Work :
        writer' = [writer EXCEPT ![w] = [WriterIdle EXCEPT
                    !.pc = "ensure", !.work = k, !.upd = Moving(r, NoCommit, NoCommit)]]
  BY DEF Ask
<1> DEFINE u == Moving(r, NoCommit, NoCommit)
           q == [WriterIdle EXCEPT !.pc = "ensure", !.work = k, !.upd = u]
<1>3. u \in Update /\ u.touch = {r}
  BY MovingFacts
<1>4. RestOK'
  BY <1>1, LocalCopyAssumption DEF TypeInv, RestOK, Spend
<1>5. writer' = [writer EXCEPT ![w] = q]
  BY <1>2
<1>6. k \in {"commit", "create", "delete", "push"} /\ WriterIdle \in WriterState
      /\ WriterIdle.quar = {} /\ w \notin Remote
  BY LocalCopyAssumption, IdleFacts
<1> HIDE DEF u
<1>7. q \in WriterState /\ q.pc = "ensure" /\ q.work = k /\ q.upd = u /\ q.quar = {}
  BY <1>3, <1>6 DEF WriterState
<1> HIDE DEF q
<1>8. WriterOK(w, q)
  BY <1>3, <1>6, <1>7 DEF WriterOK
<1>9. TypeInv'
  BY <1>1, <1>4, <1>5, <1>8, WriterTypes
<1>10. QED
  BY <1>5, <1>7, <1>9, AloneFacts DEF TypeInv

\* A request is over.
LEMMA EndTypes ==
    ASSUME TypeInv, NEW w \in Local \cup Remote, writer' = [writer EXCEPT ![w] = WriterIdle],
           UNCHANGED <<log, made, copy, lock>>, RestOK',
           IsFree \/ writer[w].pc \notin {"ensure", "adopt"}
    PROVE  TypeInv' /\ Alone(w, WriterIdle)
BY IdleFacts, WriterTypes, AloneFacts DEF TypeInv

\* A request is turned down.
LEMMA RefuseTypes ==
    ASSUME TypeInv, NEW w \in Local, Refuse(w)
    PROVE  TypeInv' /\ Alone(w, WriterIdle)
<1>1. /\ writer[w].pc = "open" /\ UNCHANGED <<log, made, copy, lock, spent>>
      /\ writer' = [writer EXCEPT ![w] = WriterIdle]
  BY DEF Refuse
<1>2. RestOK'
  BY <1>1 DEF TypeInv, RestOK
<1>3. QED
  BY <1>1, <1>2, EndTypes

\* A write goes ahead of the log by one ref, and says so in its fields.
GoesAhead(w, r, old, new, quar) ==
    writer' = [writer EXCEPT ![w] = [@ EXCEPT
                    !.pc = "plan", !.upd = Moving(r, old, new), !.quar = quar]]

IsAhead(w, q, r, old, new, quar) ==
    /\ Alone(w, q)
    /\ WriterOK(w, q)
    /\ writer' = [writer EXCEPT ![w] = q]
    /\ q.pc = "plan"
    /\ q.work = writer[w].work
    /\ q.quar = quar
    /\ q.upd.touch = {r}
    /\ q.upd.old[r] = old
    /\ q.upd.new[r] = new

\* A write that goes on to the log is in order.
LEMMA AheadFacts ==
    ASSUME TypeInv, NEW w \in Local, writer[w].pc = "open",
           NEW r \in Refs, NEW old \in Commits \cup {NoCommit}, NEW new \in Commits \cup {NoCommit},
           NEW quar \in SUBSET Commits, writer[w].work = "push" \/ quar = {},
           GoesAhead(w, r, old, new, quar)
    PROVE  \E q : IsAhead(w, q, r, old, new, quar)
<1> DEFINE u == Moving(r, old, new)
           q == [writer[w] EXCEPT !.pc = "plan", !.upd = u, !.quar = quar]
<1>1. writer' = [writer EXCEPT ![w] = q]
  BY DEF GoesAhead
<1>2. u \in Update /\ u.touch = {r} /\ u.old[r] = old /\ u.new[r] = new
  BY MovingFacts
<1>3. writer[w] \in WriterState /\ WriterOK(w, writer[w]) /\ w \notin Remote
  BY LocalCopyAssumption, ShapeFacts
<1> HIDE DEF u
<1>4. q \in WriterState /\ q.pc = "plan" /\ q.work = writer[w].work /\ q.upd = u /\ q.quar = quar
  BY <1>2, <1>3 DEF WriterState
<1> HIDE DEF q
<1>5. WriterOK(w, q)
  BY <1>2, <1>3, <1>4 DEF WriterOK
<1>6. Alone(w, q)
  BY <1>1, AloneFacts DEF TypeInv
<1>7. QED
  BY <1>1, <1>2, <1>4, <1>5, <1>6 DEF IsAhead

\* A commit nobody has made yet.
LEMMA NewCommitFacts ==
    ASSUME NEW parent, NEW c \in NewCommits(parent)
    PROVE  /\ c \in Commits /\ c \notin made
           /\ Reach[c] = {c} \cup (IF parent = NoCommit THEN {} ELSE Reach[parent])
BY DEF NewCommits, Children

\* A write goes ahead of the log: the directory and one writer move.
LEMMA AheadTypes ==
    ASSUME TypeInv, NEW w \in Local, writer[w].pc = "open", UNCHANGED <<log, lock>>, RestOK',
           CopyOK(copy'), NEW q, writer' = [writer EXCEPT ![w] = q], WriterOK(w, q)
    PROVE  TypeInv'
<1>1. WritersOK'
  BY OneWriter DEF TypeInv
<1>2. HolderOK' /\ LockOK(lock')
  BY LocalCopyAssumption
     DEF TypeInv, WritersOK, LockOK, LockState, HolderOK, IsFree, Ensuring
<1>3. QED
  BY <1>1, <1>2, CopyTypes

\* A commit: a new object, and the branch on top of what it was.
Committed(w, q, c) ==
    LET r == RefOf(w)
        old == copy.refs[r]
    IN  /\ writer[w].pc = "open" /\ writer[w].work = "commit"
        /\ c \in NewCommits(old)
        /\ old # NoCommit => old \in copy.objs
        /\ copy'.objs = copy.objs \cup {c}
        /\ copy'.refs = [copy.refs EXCEPT ![r] = c]
        /\ copy'.state = copy.state /\ copy'.bare = copy.bare /\ copy'.absent = copy.absent
        /\ made' = made \cup {c}
        /\ Alone(w, q) /\ q.pc = "plan" /\ q.work = "commit" /\ q.quar = {}
        /\ q.upd.touch = {r} /\ q.upd.old[r] = old /\ q.upd.new[r] = c
        /\ UNCHANGED <<log, lock>>

\* A commit is made on a branch of the copy.
LEMMA CommitTypes ==
    ASSUME TypeInv, NEW w \in Local, Commit(w)
    PROVE  TypeInv' /\ copy.bare /\ IsFree /\ \E q, c : Committed(w, q, c)
<1> DEFINE r == RefOf(w)
           old == copy.refs[r]
<1>1. /\ writer[w].pc = "open" /\ writer[w].work = "commit" /\ IsFree /\ copy.bare
      /\ old # NoCommit => old \in copy.objs
      /\ UNCHANGED <<log, lock, spent>>
  BY DEF Commit
<1>2. PICK c \in NewCommits(old) :
        /\ copy' = [copy EXCEPT !.objs = @ \cup {c}, !.refs[r] = c]
        /\ made' = made \cup {c}
        /\ Ahead(w, r, old, c)
  BY DEF Commit
<1> DEFINE objs == copy.objs \cup {c}
           refs == [copy.refs EXCEPT ![r] = c]
<1>3. r \in Refs /\ copy.refs \in RefMap /\ copy.objs \subseteq Commits /\ copy \in Directory
      /\ writer[w] \in WriterState /\ WriterOK(w, writer[w])
  BY <1>1, ShapeFacts, RefOfFacts DEF TypeInv
<1>4. c \in Commits
  BY NewCommitFacts
<1>5. old \in Commits \cup {NoCommit} /\ refs \in RefMap /\ objs \in SUBSET Commits
  BY <1>3, <1>4 DEF RefMap
<1>6. copy' = [copy EXCEPT !.objs = objs, !.refs = refs]
  BY <1>2, <1>3 DEF Directory
<1>7. GoesAhead(w, r, old, c, {})
  <2>1. writer[w].quar = {}
    BY <1>1, <1>3 DEF WriterOK
  <2>2. [writer[w] EXCEPT !.pc = "plan", !.upd = Moving(r, old, c), !.quar = {}]
            = [writer[w] EXCEPT !.pc = "plan", !.upd = Moving(r, old, c)]
    BY <1>3, <2>1 DEF WriterState
  <2>3. writer' = [writer EXCEPT ![w] =
                        [writer[w] EXCEPT !.pc = "plan", !.upd = Moving(r, old, c)]]
    BY <1>2 DEF Ahead
  <2>4. QED
    BY <2>2, <2>3 DEF GoesAhead
<1>8. PICK q : IsAhead(w, q, r, old, c, {})
  <2> HIDE DEF r, old, objs, refs
  <2>1. /\ writer[w].pc = "open" /\ r \in Refs /\ old \in Commits \cup {NoCommit}
        /\ c \in Commits \cup {NoCommit} /\ {} \in SUBSET Commits
    BY <1>1, <1>3, <1>4, <1>5
  <2>2. QED
    BY <1>7, <2>1, AheadFacts
<1>9. RestOK'
  BY <1>1, <1>2, <1>4 DEF TypeInv, RestOK
<1>10. /\ CopyOK(copy') /\ copy'.objs = objs /\ copy'.refs = refs
       /\ copy'.state = copy.state /\ copy'.bare = copy.bare /\ copy'.absent = copy.absent
  <2> HIDE DEF objs, refs
  <2>1. QED
    BY <1>1, <1>5, <1>6, WrittenFacts
<1>11. TypeInv'
  BY <1>1, <1>8, <1>9, <1>10, AheadTypes DEF IsAhead
<1>12. Committed(w, q, c)
  BY <1>1, <1>2, <1>8, <1>10 DEF Committed, IsAhead
<1>13. QED
  BY <1>1, <1>11, <1>12

\* A ref created or deleted: the branch alone moves.
Changed(w, q, new) ==
    LET r == RefOf(w)
    IN  /\ writer[w].pc = "open"
        /\ \/ /\ writer[w].work = "create" /\ new = NewOf(w) /\ new # NoCommit
              /\ copy.bare /\ copy.refs[r] = NoCommit
              /\ copy'.absent = copy.absent \cup ({new} \ copy.objs)
           \/ /\ writer[w].work = "delete" /\ new = NoCommit
              /\ copy'.absent = copy.absent
        /\ copy'.objs = copy.objs
        /\ copy'.refs = [copy.refs EXCEPT ![r] = new]
        /\ copy'.state = copy.state /\ copy'.bare = copy.bare
        /\ Alone(w, q) /\ q.pc = "plan" /\ q.work = writer[w].work /\ q.quar = {}
        /\ q.upd.touch = {r} /\ q.upd.old[r] = copy.refs[r] /\ q.upd.new[r] = new
        /\ UNCHANGED <<log, made, lock>>

\* A ref set by a creation or the undoing of a deletion.
LEMMA SetFacts ==
    ASSUME TypeInv, UNCHANGED log, NEW r \in Refs, NEW new \in Commits \cup {NoCommit},
           Work \cap {"create", "delete"} # {}, copy' = WithRef(copy, r, new)
    PROVE  /\ CopyOK(copy')
           /\ copy'.objs = copy.objs /\ copy'.refs = [copy.refs EXCEPT ![r] = new]
           /\ copy'.state = copy.state /\ copy'.bare = copy.bare
           /\ copy'.absent = copy.absent \cup ({new} \ copy.objs)
<1> DEFINE refs == [copy.refs EXCEPT ![r] = new]
           absent == copy.absent \cup ({new} \ copy.objs)
<1>1. copy \in Directory /\ CopyOK(copy) /\ copy.refs \in RefMap
      /\ copy.absent \subseteq Commits \cup {NoCommit}
  BY ShapeFacts DEF TypeInv
<1>2. refs \in RefMap /\ absent \in SUBSET (Commits \cup {NoCommit})
  BY <1>1 DEF RefMap
<1>3. copy' = [copy EXCEPT !.refs = refs, !.absent = absent]
  BY <1>1 DEF Directory, WithRef
<1> HIDE DEF refs, absent
<1>4. /\ copy' \in Directory /\ copy'.objs = copy.objs /\ copy'.refs = refs
      /\ copy'.state = copy.state /\ copy'.bare = copy.bare /\ copy'.absent = absent
  BY <1>1, <1>2, <1>3 DEF Directory
<1>5. CopyOK(copy')
  BY <1>1, <1>4 DEF CopyOK
<1>6. QED
  BY <1>4, <1>5 DEF refs, absent

\* A ref removed by a deletion or the undoing of a creation.
LEMMA ClearedFacts ==
    ASSUME TypeInv, UNCHANGED log, NEW r \in Refs, copy' = [copy EXCEPT !.refs[r] = NoCommit]
    PROVE  /\ CopyOK(copy')
           /\ copy'.objs = copy.objs /\ copy'.refs = [copy.refs EXCEPT ![r] = NoCommit]
           /\ copy'.state = copy.state /\ copy'.bare = copy.bare /\ copy'.absent = copy.absent
<1> DEFINE refs == [copy.refs EXCEPT ![r] = NoCommit]
<1>1. copy \in Directory /\ CopyOK(copy) /\ copy.refs \in RefMap
  BY ShapeFacts DEF TypeInv
<1>2. refs \in RefMap
  BY <1>1 DEF RefMap
<1>3. copy' = [copy EXCEPT !.refs = refs]
  BY <1>1 DEF Directory
<1> HIDE DEF refs
<1>4. /\ copy' \in Directory /\ copy'.objs = copy.objs /\ copy'.refs = refs
      /\ copy'.state = copy.state /\ copy'.bare = copy.bare /\ copy'.absent = copy.absent
  BY <1>1, <1>2, <1>3 DEF Directory
<1>5. CopyOK(copy')
  BY <1>1, <1>4 DEF CopyOK
<1>6. QED
  BY <1>4, <1>5 DEF refs

\* A creation or a deletion goes on to the log as the commits do.
LEMMA PointedTypes ==
    ASSUME TypeInv, NEW w \in Local, writer[w].pc = "open", writer[w].work \in {"create", "delete"},
           UNCHANGED <<log, made, lock, spent>>, NEW new \in Commits \cup {NoCommit},
           Ahead(w, RefOf(w), copy.refs[RefOf(w)], new), CopyOK(copy')
    PROVE  TypeInv' /\ \E q : IsAhead(w, q, RefOf(w), copy.refs[RefOf(w)], new, {})
<1> DEFINE r == RefOf(w)
           old == copy.refs[r]
<1>1. r \in Refs /\ copy.refs \in RefMap /\ writer[w] \in WriterState /\ WriterOK(w, writer[w])
  BY ShapeFacts, RefOfFacts DEF TypeInv
<1>2. old \in Commits \cup {NoCommit} /\ {} \in SUBSET Commits
  BY <1>1 DEF RefMap
<1>3. GoesAhead(w, r, old, new, {})
  <2>1. writer[w].quar = {}
    BY <1>1 DEF WriterOK
  <2>2. [writer[w] EXCEPT !.pc = "plan", !.upd = Moving(r, old, new), !.quar = {}]
            = [writer[w] EXCEPT !.pc = "plan", !.upd = Moving(r, old, new)]
    BY <1>1, <2>1 DEF WriterState
  <2>3. writer' = [writer EXCEPT ![w] =
                        [writer[w] EXCEPT !.pc = "plan", !.upd = Moving(r, old, new)]]
    BY DEF Ahead
  <2>4. QED
    BY <2>2, <2>3 DEF GoesAhead
<1> HIDE DEF r, old
<1>4. PICK q : IsAhead(w, q, r, old, new, {})
  BY <1>1, <1>2, <1>3, AheadFacts
<1>5. RestOK'
  BY DEF TypeInv, RestOK
<1>6. TypeInv'
  BY <1>4, <1>5, AheadTypes DEF IsAhead
<1>7. QED
  BY <1>4, <1>6 DEF r, old

\* A branch is created at the revision looked up before.
LEMMA CreateRefTypes ==
    ASSUME TypeInv, NEW w \in Local, CreateRef(w)
    PROVE  TypeInv' /\ IsFree /\ \E q, new : Changed(w, q, new)
<1> DEFINE r == RefOf(w)
           new == NewOf(w)
<1>1. /\ writer[w].pc = "open" /\ writer[w].work = "create" /\ IsFree
      /\ new # NoCommit /\ copy.bare /\ copy.refs[r] = NoCommit
      /\ copy' = WithRef(copy, r, new) /\ Ahead(w, r, copy.refs[r], new)
      /\ UNCHANGED <<log, made, lock, spent>>
  BY DEF CreateRef
<1>2. r \in Refs /\ new \in Commits \cup {NoCommit} /\ "create" \in Work
  BY <1>1, ShapeFacts, RefOfFacts DEF TypeInv, WriterOK
<1> HIDE DEF r, new
<1>3. /\ CopyOK(copy')
      /\ copy'.objs = copy.objs /\ copy'.refs = [copy.refs EXCEPT ![r] = new]
      /\ copy'.state = copy.state /\ copy'.bare = copy.bare
      /\ copy'.absent = copy.absent \cup ({new} \ copy.objs)
  BY <1>1, <1>2, SetFacts
<1>4. TypeInv' /\ \E q : IsAhead(w, q, r, copy.refs[r], new, {})
  BY <1>1, <1>2, <1>3, PointedTypes DEF r
<1>5. QED
  BY <1>1, <1>3, <1>4 DEF Changed, IsAhead, r, new

\* A branch is deleted.
LEMMA DeleteRefTypes ==
    ASSUME TypeInv, NEW w \in Local, DeleteRef(w)
    PROVE  TypeInv' /\ IsFree /\ \E q, new : Changed(w, q, new)
<1> DEFINE r == RefOf(w)
<1>1. /\ writer[w].pc = "open" /\ writer[w].work = "delete" /\ IsFree
      /\ copy' = [copy EXCEPT !.refs[r] = NoCommit] /\ Ahead(w, r, copy.refs[r], NoCommit)
      /\ UNCHANGED <<log, made, lock, spent>>
  BY DEF DeleteRef
<1>2. r \in Refs /\ "delete" \in Work
  BY <1>1, ShapeFacts, RefOfFacts DEF TypeInv, WriterOK
<1> HIDE DEF r
<1>3. /\ CopyOK(copy')
      /\ copy'.objs = copy.objs /\ copy'.refs = [copy.refs EXCEPT ![r] = NoCommit]
      /\ copy'.state = copy.state /\ copy'.bare = copy.bare /\ copy'.absent = copy.absent
  BY <1>1, <1>2, ClearedFacts
<1>4. TypeInv' /\ \E q : IsAhead(w, q, r, copy.refs[r], NoCommit, {})
  BY <1>1, <1>2, <1>3, PointedTypes DEF r
<1>5. QED
  BY <1>1, <1>3, <1>4 DEF Changed, IsAhead, r

\* A revision is looked up, and the copy is opened once more.
LookedUp(w, q) ==
    /\ writer[w].pc = "open" /\ writer[w].work = "create"
    /\ Alone(w, q) /\ q.pc = "ensure" /\ q.quar = {} /\ q.work = "create"
    /\ WriterOK(w, q) /\ writer' = [writer EXCEPT ![w] = q]
    /\ UNCHANGED <<log, made, copy, lock, spent>>

LEMMA ResolveTypes ==
    ASSUME TypeInv, NEW w \in Local, Resolve(w)
    PROVE  TypeInv' /\ \E q : LookedUp(w, q)
<1>1. /\ writer[w].pc = "open" /\ writer[w].work = "create"
      /\ UNCHANGED <<log, made, copy, lock, spent>>
  BY DEF Resolve
<1>2. PICK target \in copy.objs :
        writer' = [writer EXCEPT ![w] = [@ EXCEPT
                    !.pc = "ensure", !.upd = Moving(RefOf(w), NoCommit, target)]]
  BY DEF Resolve
<1>3. writer[w] \in WriterState /\ WriterOK(w, writer[w]) /\ w \notin Remote /\ RefOf(w) \in Refs
      /\ copy.objs \subseteq Commits
  BY <1>1, LocalCopyAssumption, ShapeFacts, RefOfFacts DEF TypeInv
<1> DEFINE u == Moving(RefOf(w), NoCommit, target)
           q == [writer[w] EXCEPT !.pc = "ensure", !.upd = u]
<1>4. writer' = [writer EXCEPT ![w] = q]
  BY <1>2
<1>5. u \in Update /\ u.touch = {RefOf(w)}
  BY <1>3, MovingFacts
<1> HIDE DEF u
<1>6. q \in WriterState /\ q.pc = "ensure" /\ q.work = "create" /\ q.upd = u /\ q.quar = writer[w].quar
  BY <1>1, <1>3, <1>5 DEF WriterState
<1> HIDE DEF q
<1>7. WriterOK(w, q) /\ q.quar = {}
  BY <1>1, <1>3, <1>5, <1>6 DEF WriterOK
<1>8. Alone(w, q)
  BY <1>4, AloneFacts DEF TypeInv
<1>9. RestOK'
  BY <1>1 DEF TypeInv, RestOK
<1>10. TypeInv'
  BY <1>1, <1>4, <1>7, <1>9, WriterTypes
<1>11. QED
  BY <1>1, <1>4, <1>6, <1>7, <1>8, <1>10 DEF LookedUp

\* Where a push may take a ref is a commit, or nowhere.
LEMMA TargetsFacts ==
    ASSUME NEW refs \in RefMap, NEW old
    PROVE  Targets(refs, old) \subseteq Commits \cup {NoCommit}
<1>1. ReachAll(Tips(refs)) \subseteq Commits
  BY TipsFacts, ReachAllFacts
<1>2. QED
  BY <1>1, NewCommitFacts DEF Targets

\* What receive-pack tells its client: the refs, if the copy holds all their
\* commits.
LEMMA AdvertisedFacts ==
    ASSUME TypeInv
    PROVE  /\ Advertised \in RefMap /\ Tips(Advertised) \subseteq copy.objs
           /\ Tips(copy.refs) \subseteq copy.objs => Advertised = copy.refs
<1>1. copy.refs \in RefMap
  BY ShapeFacts
<1>2. Advertised \in RefMap /\ Tips(Advertised) \subseteq copy.objs
  BY <1>1 DEF Advertised, RefMap, Tips
<1>3. ASSUME Tips(copy.refs) \subseteq copy.objs PROVE Advertised = copy.refs
  BY <1>1, <1>3 DEF Advertised, RefMap, Tips
<1>4. QED
  BY <1>2, <1>3

\* A push received: its objects are in quarantine.
Received(w, q, new, sent) ==
    LET r == RefOf(w)
    IN  /\ writer[w].pc = "open" /\ writer[w].work = "push"
        /\ new \in Targets(Advertised, Advertised[r])
        /\ sent = PackObjects({new} \ {NoCommit}, Tips(Advertised))
        /\ made' = made \cup sent
        /\ Alone(w, q) /\ q.pc = "plan" /\ q.work = "push" /\ q.quar = sent
        /\ q.upd.touch = {r} /\ q.upd.old[r] = Advertised[r] /\ q.upd.new[r] = new
        /\ UNCHANGED <<log, lock, copy>>

\* A receive-pack takes what its client sends.
LEMMA ReceiveTypes ==
    ASSUME TypeInv, NEW w \in Local, Receive(w)
    PROVE  TypeInv' /\ copy.bare /\ \E q, new, sent : Received(w, q, new, sent)
<1> DEFINE r == RefOf(w)
           old == Advertised[r]
<1>1. /\ writer[w].pc = "open" /\ writer[w].work = "push" /\ copy.bare
      /\ UNCHANGED <<log, copy, lock, spent>>
  BY DEF Receive
<1>2. PICK new \in Targets(Advertised, old) :
        LET sent == PackObjects({new} \ {NoCommit}, Tips(Advertised))
        IN  /\ made' = made \cup sent
            /\ writer' = [writer EXCEPT ![w] = [@ EXCEPT
                    !.pc = "plan", !.upd = Moving(r, old, new), !.quar = sent]]
  BY DEF Receive
<1> DEFINE sent == PackObjects({new} \ {NoCommit}, Tips(Advertised))
<1>3. r \in Refs /\ Advertised \in RefMap /\ copy.objs \in SUBSET Commits /\ copy \in Directory
  BY <1>1, ShapeFacts, RefOfFacts, AdvertisedFacts DEF TypeInv
<1>4. new \in Commits \cup {NoCommit}
  BY <1>3, TargetsFacts
<1>5. old \in Commits \cup {NoCommit}
  BY <1>3 DEF RefMap
<1>6. sent \in SUBSET Commits
  <2>1. {new} \ {NoCommit} \subseteq Commits
    BY <1>4
  <2>2. QED
    BY <2>1, ReachAllFacts DEF PackObjects
<1>7. GoesAhead(w, r, old, new, sent)
  BY <1>2 DEF GoesAhead
<1>8. made' = made \cup sent
  BY <1>2
<1> HIDE DEF sent
<1>9. PICK q : IsAhead(w, q, r, old, new, sent)
  <2> HIDE DEF r, old
  <2>1. QED
    BY <1>1, <1>3, <1>4, <1>5, <1>6, <1>7, AheadFacts
<1>10. RestOK'
  BY <1>1, <1>6, <1>8 DEF TypeInv, RestOK
<1>11. CopyOK(copy')
  BY <1>1 DEF TypeInv
<1>12. TypeInv'
  BY <1>1, <1>9, <1>10, <1>11, AheadTypes DEF IsAhead
<1>13. Received(w, q, new, sent)
  BY <1>1, <1>2, <1>8, <1>9 DEF Received, IsAhead, sent
<1>14. QED
  BY <1>1, <1>12, <1>13

\* A push accepted by another instance.
AskedElsewhere(w, q, r, new) ==
    /\ writer[w].pc = "idle"
    /\ r \in Refs
    /\ new \in Targets(index.refs, index.refs[r])
    /\ made' = made \cup ({new} \ {NoCommit})
    /\ Alone(w, q) /\ q.pc = "plan" /\ q.work = "commit" /\ q.quar = {}
    /\ q.upd.touch = {r} /\ q.upd.old[r] = index.refs[r] /\ q.upd.new[r] = new
    /\ UNCHANGED <<log, lock, copy>>

\* Another instance accepts a push.
LEMMA AskElsewhereTypes ==
    ASSUME TypeInv, NEW w \in Remote, AskElsewhere(w)
    PROVE  TypeInv' /\ \E q, r, new : AskedElsewhere(w, q, r, new)
<1>1. /\ writer[w].pc = "idle" /\ Spend("asked", MaxAsked)
      /\ UNCHANGED <<log, copy, lock>>
  BY DEF AskElsewhere
<1>2. PICK r \in Refs : \E new \in Targets(index.refs, index.refs[r]) :
        /\ made' = made \cup ({new} \ {NoCommit})
        /\ writer' = [writer EXCEPT ![w] = [WriterIdle EXCEPT
                        !.pc = "plan", !.upd = Moving(r, index.refs[r], new)]]
  BY DEF AskElsewhere
<1>3. PICK new \in Targets(index.refs, index.refs[r]) :
        /\ made' = made \cup ({new} \ {NoCommit})
        /\ writer' = [writer EXCEPT ![w] = [WriterIdle EXCEPT
                        !.pc = "plan", !.upd = Moving(r, index.refs[r], new)]]
  BY <1>2
<1> DEFINE old == index.refs[r]
           u == Moving(r, old, new)
           q == [WriterIdle EXCEPT !.pc = "plan", !.upd = u]
<1>4. writer' = [writer EXCEPT ![w] = q]
  BY <1>3
<1>5. index.refs \in RefMap
  BY ShapeFacts
<1>6. new \in Commits \cup {NoCommit} /\ old \in Commits \cup {NoCommit}
  BY <1>5, TargetsFacts DEF RefMap
<1>7. u \in Update /\ u.touch = {r} /\ u.old[r] = old /\ u.new[r] = new
  <2> HIDE DEF old
  <2>1. QED
    BY <1>6, MovingFacts
<1>8. w \notin Local /\ WriterIdle \in WriterState /\ WriterIdle.quar = {}
      /\ WriterIdle.work = "commit"
  BY LocalCopyAssumption, IdleFacts DEF WriterIdle
<1> HIDE DEF u
<1>9. q \in WriterState /\ q.pc = "plan" /\ q.work = "commit" /\ q.upd = u /\ q.quar = {}
  BY <1>7, <1>8 DEF WriterState
<1> HIDE DEF q
<1>10. WriterOK(w, q)
  BY <1>7, <1>8, <1>9 DEF WriterOK
<1>11. RestOK'
  BY <1>1, <1>3, <1>6, LocalCopyAssumption DEF TypeInv, RestOK, Spend
<1>12. TypeInv' /\ Alone(w, q)
  BY <1>1, <1>4, <1>10, <1>11, WriterTypes, AloneFacts DEF TypeInv
<1>13. AskedElsewhere(w, q, r, new)
  BY <1>1, <1>3, <1>7, <1>9, <1>12 DEF AskedElsewhere
<1>14. QED
  BY <1>12, <1>13

\* A push that is refused, and one that is accepted.
WasRefused(w, q) ==
    /\ writer[w].pc \in {"plan", "publish"}
    /\ Alone(w, q)
    /\ q.quar = {}
    /\ w \in Remote => q.pc = "idle"
    /\ w \in Local =>
        /\ q.pc = IF writer[w].work = "push" THEN "adopt" ELSE "reset"
        /\ q.upd = writer[w].upd
        /\ q.work = writer[w].work

WasAccepted(w, q) ==
    /\ writer[w].pc = "publish"
    /\ Alone(w, q)
    /\ w \in Remote => q.pc = "idle"
    /\ w \in Local =>
        /\ q.pc = IF writer[w].work = "push" THEN "move" ELSE "adopt"
        /\ q.upd = writer[w].upd
        /\ q.work = writer[w].work
        /\ q.quar = writer[w].quar

\* A write the log refuses is in order.
LEMMA RefusedFacts ==
    ASSUME TypeInv, NEW w \in Local \cup Remote, writer[w].pc \in {"plan", "publish"},
           NEW stale \in BOOLEAN, writer' = [writer EXCEPT ![w] = Refused(@, w, stale)]
    PROVE  \E q : WasRefused(w, q) /\ WriterOK(w, q) /\ writer' = [writer EXCEPT ![w] = q]
<1> DEFINE q == Refused(writer[w], w, stale)
<1>1. writer[w] \in WriterState /\ WriterOK(w, writer[w]) /\ Local \cap Remote = {}
  BY ShapeFacts, LocalCopyAssumption
<1>2. writer' = [writer EXCEPT ![w] = q]
  OBVIOUS
<1>3. CASE w \in Remote
  <2>1. q = WriterIdle /\ w \notin Local
    BY <1>1, <1>3 DEF Refused
  <2>2. WriterOK(w, q) /\ q.pc = "idle" /\ q.quar = {}
    BY <2>1, IdleFacts
  <2> HIDE DEF q
  <2>3. Alone(w, q)
    BY <1>2, AloneFacts DEF TypeInv
  <2>4. QED
    BY <1>2, <2>1, <2>2, <2>3 DEF WasRefused
<1>4. CASE w \notin Remote
  <2> DEFINE pc == IF writer[w].work = "push" THEN "adopt" ELSE "reset"
             n == [writer[w] EXCEPT !.pc = pc, !.quar = {}, !.stale = stale]
  <2>1. q = n
    BY <1>4 DEF Refused
  <2>2. pc \in {"adopt", "reset"} /\ (pc = "reset" => writer[w].work # "push")
    OBVIOUS
  <2>3. n \in WriterState /\ n.pc = pc /\ n.quar = {} /\ n.upd = writer[w].upd
        /\ n.work = writer[w].work
    BY <1>1, <2>2 DEF WriterState
  <2> HIDE DEF n
  <2>4. WriterOK(w, n)
    BY <1>1, <1>4, <2>2, <2>3 DEF WriterOK
  <2>5. Alone(w, n)
    BY <1>2, <2>1, AloneFacts DEF TypeInv
  <2>6. QED
    BY <1>2, <1>4, <2>1, <2>3, <2>4, <2>5 DEF WasRefused
<1>5. QED
  BY <1>3, <1>4

\* So is one the log accepts.
LEMMA AcceptedFacts ==
    ASSUME TypeInv, NEW w \in Local \cup Remote, writer[w].pc = "publish",
           writer' = [writer EXCEPT ![w] = Accepted(@, w)]
    PROVE  \E q : WasAccepted(w, q) /\ WriterOK(w, q) /\ writer' = [writer EXCEPT ![w] = q]
<1> DEFINE q == Accepted(writer[w], w)
<1>1. writer[w] \in WriterState /\ WriterOK(w, writer[w]) /\ Local \cap Remote = {}
  BY ShapeFacts, LocalCopyAssumption
<1>2. writer' = [writer EXCEPT ![w] = q]
  OBVIOUS
<1>3. CASE w \in Remote
  <2>1. q = WriterIdle /\ w \notin Local
    BY <1>1, <1>3 DEF Accepted
  <2>2. WriterOK(w, q) /\ q.pc = "idle"
    BY <2>1, IdleFacts
  <2> HIDE DEF q
  <2>3. Alone(w, q)
    BY <1>2, AloneFacts DEF TypeInv
  <2>4. QED
    BY <1>2, <2>1, <2>2, <2>3 DEF WasAccepted
<1>4. CASE w \notin Remote
  <2> DEFINE pc == IF writer[w].work = "push" THEN "move" ELSE "adopt"
             n == [writer[w] EXCEPT !.pc = pc]
  <2>1. q = n
    BY <1>4 DEF Accepted
  <2>2. pc \in {"move", "adopt"} /\ (pc = "move" <=> writer[w].work = "push")
    OBVIOUS
  <2>3. n \in WriterState /\ n.pc = pc /\ n.quar = writer[w].quar /\ n.upd = writer[w].upd
        /\ n.work = writer[w].work
    BY <1>1, <2>2 DEF WriterState
  <2> HIDE DEF n
  <2>4. WriterOK(w, n)
    <3> HIDE DEF pc
    <3>1. QED
      BY <1>1, <1>4, <2>2, <2>3 DEF WriterOK
  <2>5. Alone(w, n)
    BY <1>2, <2>1, AloneFacts DEF TypeInv
  <2>6. QED
    BY <1>2, <1>4, <2>1, <2>3, <2>4, <2>5 DEF WasAccepted
<1>5. QED
  BY <1>3, <1>4

\* A push packed against the tips of an index that resolve here.
WasPacked(w, q) ==
    /\ writer[w].pc = "plan"
    /\ Alone(w, q)
    /\ q.pc = "publish" /\ q.basis = index
    /\ q.exclude = Tips(index.refs) \cap Readable(w)
    /\ PackObjects(Want(writer[w].upd), q.exclude) \subseteq Readable(w)
    /\ q.upd = writer[w].upd /\ q.work = writer[w].work /\ q.quar = writer[w].quar

\* A write is packed, or refused for want of objects.
LEMMA PlanTypes ==
    ASSUME TypeInv, NEW w \in Local \cup Remote, Plan(w)
    PROVE  TypeInv' /\ \E q : WasPacked(w, q) \/ WasRefused(w, q)
<1> DEFINE exclude == Tips(index.refs) \cap Readable(w)
           pack == PackObjects(Want(writer[w].upd), exclude)
<1>1. /\ writer[w].pc = "plan" /\ UNCHANGED <<log, made, copy, lock, spent>>
      /\ writer' = [writer EXCEPT ![w] =
                        IF pack \subseteq Readable(w)
                        THEN [@ EXCEPT !.pc = "publish", !.basis = index, !.exclude = exclude]
                        ELSE Refused(@, w, FALSE)]
  BY DEF Plan
<1>2. RestOK'
  BY <1>1 DEF TypeInv, RestOK
<1>3. CASE pack \subseteq Readable(w)
  <2> DEFINE q == [writer[w] EXCEPT !.pc = "publish", !.basis = index, !.exclude = exclude]
  <2>1. writer' = [writer EXCEPT ![w] = q]
    BY <1>1, <1>3
  <2>2. writer[w] \in WriterState /\ WriterOK(w, writer[w]) /\ index \in Index
        /\ exclude \in SUBSET Commits
    BY ShapeFacts, TipsFacts
  <2> HIDE DEF exclude
  <2>3. /\ q \in WriterState /\ q.pc = "publish" /\ q.basis = index /\ q.exclude = exclude
        /\ q.upd = writer[w].upd /\ q.work = writer[w].work /\ q.quar = writer[w].quar
    BY <2>2 DEF WriterState
  <2> HIDE DEF q
  <2>4. WriterOK(w, q)
    BY <1>1, <2>2, <2>3 DEF WriterOK
  <2>5. TypeInv' /\ Alone(w, q)
    BY <1>1, <1>2, <2>1, <2>4, WriterTypes, AloneFacts DEF TypeInv
  <2>6. WasPacked(w, q)
    BY <1>1, <1>3, <2>3, <2>5 DEF WasPacked, exclude
  <2>7. QED
    BY <2>5, <2>6
<1>4. CASE ~(pack \subseteq Readable(w))
  <2>1. writer' = [writer EXCEPT ![w] = Refused(@, w, FALSE)]
    BY <1>1, <1>4
  <2>2. PICK q : WasRefused(w, q) /\ WriterOK(w, q) /\ writer' = [writer EXCEPT ![w] = q]
    BY <1>1, <2>1, RefusedFacts
  <2>3. TypeInv'
    BY <1>1, <1>2, <2>2, WriterTypes
  <2>4. QED
    BY <2>2, <2>3
<1>5. QED
  BY <1>3, <1>4

\* What a push finds when it lands: the index as it expects it.
Landing(w) ==
    /\ writer[w].pc = "publish"
    /\ Fresh(writer[w])
    /\ BasisHolds(writer[w])
    /\ LogGrows
    /\ Landed(writer[w])
    /\ UNCHANGED <<made, copy, lock>>

\* A write lands.
LEMMA PublishTypes ==
    ASSUME TypeInv, NEW w \in Local \cup Remote, Publish(w)
    PROVE  TypeInv' /\ Landing(w) /\ \E q : WasAccepted(w, q)
<1>1. /\ writer[w].pc = "publish" /\ UNCHANGED <<made, copy, lock, spent>>
      /\ Fresh(writer[w]) /\ BasisHolds(writer[w]) /\ Land(writer[w])
      /\ writer' = [writer EXCEPT ![w] = Accepted(@, w)]
  BY DEF Publish
<1>2. PICK q : WasAccepted(w, q) /\ WriterOK(w, q) /\ writer' = [writer EXCEPT ![w] = q]
  BY <1>1, AcceptedFacts
<1>3. LogGrows /\ Landed(writer[w])
  BY <1>1, ShapeFacts, LandFacts DEF TypeInv
<1>4. RestOK'
  BY <1>1 DEF TypeInv, RestOK
<1>5. TypeInv'
  BY <1>1, <1>2, <1>3, <1>4, WriterTypes
<1>6. QED
  BY <1>1, <1>2, <1>3, <1>5 DEF Landing

\* A refused push packs again, or is over.
WasSentBack(w, q) ==
    /\ writer[w].pc = "publish"
    /\ Alone(w, q)
    /\ q.pc = "plan"
    /\ q.upd = writer[w].upd /\ q.work = writer[w].work /\ q.quar = writer[w].quar

\* A write finds the index changed.
LEMMA PublishRefusedTypes ==
    ASSUME TypeInv, NEW w \in Local \cup Remote, PublishRefused(w)
    PROVE  TypeInv' /\ \E q : WasSentBack(w, q) \/ WasRefused(w, q)
<1>1. writer[w].pc = "publish" /\ UNCHANGED <<log, made, copy, lock, spent>>
  BY DEF PublishRefused
<1>2. RestOK'
  BY <1>1 DEF TypeInv, RestOK
<1>3. ASSUME NEW stale \in BOOLEAN, writer' = [writer EXCEPT ![w] = Refused(@, w, stale)]
      PROVE  TypeInv' /\ \E q : WasRefused(w, q)
  <2>1. PICK q : WasRefused(w, q) /\ WriterOK(w, q) /\ writer' = [writer EXCEPT ![w] = q]
    BY <1>1, <1>3, RefusedFacts
  <2>2. TypeInv'
    BY <1>1, <1>2, <2>1, WriterTypes
  <2>3. QED
    BY <2>1, <2>2
<1>4. CASE writer' = [writer EXCEPT ![w].pc = "plan"]
  <2> DEFINE q == [writer[w] EXCEPT !.pc = "plan"]
  <2>1. writer' = [writer EXCEPT ![w] = q]
    BY <1>4
  <2>2. writer[w] \in WriterState /\ WriterOK(w, writer[w])
    BY ShapeFacts
  <2>3. /\ q \in WriterState /\ q.pc = "plan"
        /\ q.upd = writer[w].upd /\ q.work = writer[w].work /\ q.quar = writer[w].quar
    BY <2>2 DEF WriterState
  <2> HIDE DEF q
  <2>4. WriterOK(w, q)
    BY <1>1, <2>2, <2>3 DEF WriterOK
  <2>5. TypeInv' /\ Alone(w, q)
    BY <1>1, <1>2, <2>1, <2>4, WriterTypes, AloneFacts DEF TypeInv
  <2>6. QED
    BY <1>1, <2>3, <2>5 DEF WasSentBack
<1>5. QED
  BY <1>3, <1>4 DEF PublishRefused

\* A write meets a storage error, landed or not.
LEMMA PublishFaultTypes ==
    ASSUME TypeInv, NEW w \in Local \cup Remote, PublishFault(w)
    PROVE  /\ TypeInv'
           /\ (UNCHANGED <<log, made, copy, lock>> \/ Landing(w))
           /\ \E q : WasRefused(w, q)
<1>1. writer[w].pc \in {"plan", "publish"} /\ UNCHANGED <<made, copy, lock>> /\ Fault
  BY DEF PublishFault
<1>2. RestOK'
  BY <1>1, LocalCopyAssumption DEF TypeInv, RestOK, Fault, Spend
<1>3. PICK stale \in BOOLEAN : writer' = [writer EXCEPT ![w] = Refused(@, w, stale)]
  BY DEF PublishFault
<1>4. PICK q : WasRefused(w, q) /\ WriterOK(w, q) /\ writer' = [writer EXCEPT ![w] = q]
  BY <1>1, <1>3, RefusedFacts
<1>5. CASE UNCHANGED log
  BY <1>1, <1>2, <1>4, <1>5, WriterTypes
<1>6. CASE /\ writer[w].pc = "publish" /\ Fresh(writer[w]) /\ BasisHolds(writer[w])
           /\ Land(writer[w])
  <2>1. LogGrows /\ Landed(writer[w])
    BY <1>6, ShapeFacts, LandFacts DEF TypeInv
  <2>2. TypeInv'
    BY <1>1, <1>2, <1>4, <2>1, WriterTypes
  <2>3. QED
    BY <1>1, <1>4, <1>6, <2>1, <2>2 DEF Landing
<1>7. QED
  BY <1>5, <1>6 DEF PublishFault

\* The log is folded into one pack.
LEMMA CompactTypes ==
    ASSUME TypeInv, Compact
    PROVE  TypeInv' /\ LogGrows
<1>1. LogGrows /\ UNCHANGED <<made, copy, lock, writer>>
  BY CompactFacts DEF TypeInv, Compact
<1>2. RestOK'
  BY <1>1, LocalCopyAssumption DEF TypeInv, RestOK, Compact, Spend
<1>3. LogOK' /\ CopyOK(copy)' /\ LockOK(lock)'
  BY <1>1, GrowthFacts DEF TypeInv, LogGrows, CopyOK, LockOK
<1>4. WritersOK' /\ HolderOK'
  BY <1>1 DEF TypeInv, WritersOK, HolderOK, Ensuring
<1>5. QED
  BY <1>1, <1>2, <1>3, <1>4 DEF TypeInv

\* A receive-pack that is over goes on to adopt the copy, its ref moved or not.
WasAnswered(w, q) ==
    /\ writer[w].pc = "move" /\ writer[w].work = "push"
    /\ Alone(w, q)
    /\ q.pc = "adopt" /\ q.quar = {}
    /\ q.upd = writer[w].upd /\ q.work = writer[w].work
    /\ copy'.state = copy.state /\ copy'.bare = copy.bare /\ copy'.absent = copy.absent
    /\ UNCHANGED <<log, made, lock>>

\* A receive-pack that has been answered goes on to adopt the copy.
LEMMA AnsweredFacts ==
    ASSUME TypeInv, NEW w \in Local, writer[w].pc = "move",
           UNCHANGED <<log, made, lock, spent>>,
           NEW objs \in SUBSET Commits, NEW refs \in RefMap,
           copy' = [copy EXCEPT !.objs = objs, !.refs = refs],
           writer' = [writer EXCEPT ![w] = [@ EXCEPT !.pc = "adopt", !.quar = {}]]
    PROVE  /\ TypeInv' /\ copy'.objs = objs /\ copy'.refs = refs
           /\ \E q : WasAnswered(w, q)
<1> DEFINE q == [writer[w] EXCEPT !.pc = "adopt", !.quar = {}]
<1>1. writer' = [writer EXCEPT ![w] = q]
  OBVIOUS
<1>2. writer[w] \in WriterState /\ WriterOK(w, writer[w]) /\ w \notin Remote
  BY ShapeFacts, LocalCopyAssumption
<1>3. /\ q \in WriterState /\ q.pc = "adopt"
      /\ q.upd = writer[w].upd /\ q.work = writer[w].work /\ q.quar = {}
  BY <1>2 DEF WriterState
<1> HIDE DEF q
<1>4. WriterOK(w, q)
  BY <1>2, <1>3 DEF WriterOK
<1>5. /\ CopyOK(copy') /\ copy'.objs = objs /\ copy'.refs = refs
      /\ copy'.state = copy.state /\ copy'.bare = copy.bare /\ copy'.absent = copy.absent
  BY WrittenFacts
<1>6. WritersOK' /\ Alone(w, q)
  BY <1>1, <1>4, OneWriter, AloneFacts DEF TypeInv
<1>7. RestOK' /\ LockOK(lock')
  BY DEF TypeInv, RestOK
<1>8. HolderOK'
  BY <1>1, LocalCopyAssumption
     DEF TypeInv, WritersOK, LockOK, LockState, HolderOK, IsFree, Ensuring
<1>9. TypeInv'
  BY <1>5, <1>6, <1>7, <1>8, CopyTypes
<1>10. WasAnswered(w, q)
  BY <1>2, <1>3, <1>5, <1>6 DEF WasAnswered, WriterOK
<1>11. QED
  BY <1>5, <1>9, <1>10

\* It migrates its quarantine and moves its ref.
LEMMA MoveTypes ==
    ASSUME TypeInv, NEW w \in Local, Move(w)
    PROVE  /\ TypeInv'
           /\ copy'.objs = copy.objs \cup writer[w].quar
           /\ copy'.refs = [copy.refs EXCEPT ![RefOf(w)] = NewOf(w)]
           /\ \E q : WasAnswered(w, q)
<1> DEFINE objs == copy.objs \cup writer[w].quar
           refs == [copy.refs EXCEPT ![RefOf(w)] = NewOf(w)]
<1>1. /\ writer[w].pc = "move" /\ UNCHANGED <<log, made, lock, spent>>
      /\ copy' = [copy EXCEPT !.objs = @ \cup writer[w].quar, !.refs[RefOf(w)] = NewOf(w)]
      /\ writer' = [writer EXCEPT ![w] = [@ EXCEPT !.pc = "adopt", !.quar = {}]]
  BY DEF Move
<1>2. copy \in Directory /\ copy.refs \in RefMap /\ copy.objs \subseteq Commits
      /\ writer[w] \in WriterState
  BY ShapeFacts
<1>3. copy' = [copy EXCEPT !.objs = objs, !.refs = refs]
  BY <1>1, <1>2 DEF Directory
<1>4. objs \in SUBSET Commits /\ refs \in RefMap
  <2>1. NewOf(w) \in Commits \cup {NoCommit}
    BY <1>1, RefOfFacts DEF TypeInv
  <2>2. QED
    BY <1>2, <2>1 DEF WriterState, RefMap
<1> HIDE DEF objs, refs
<1>5. TypeInv' /\ copy'.objs = objs /\ copy'.refs = refs /\ \E q : WasAnswered(w, q)
  BY <1>1, <1>3, <1>4, AnsweredFacts
<1>6. QED
  BY <1>5 DEF objs, refs

\* It fails to, before or after the migration.
LEMMA MoveFailsTypes ==
    ASSUME TypeInv, NEW w \in Local, MoveFails(w)
    PROVE  /\ TypeInv'
           /\ \E kept \in {{}, writer[w].quar} :
                copy'.objs = copy.objs \cup kept /\ (kept # {} => copy.bare)
           /\ copy'.refs = copy.refs
           /\ \E q : WasAnswered(w, q)
<1>1. /\ writer[w].pc = "move" /\ UNCHANGED <<log, made, lock, spent>>
      /\ writer' = [writer EXCEPT ![w] = [@ EXCEPT !.pc = "adopt", !.quar = {}]]
  BY DEF MoveFails
<1>2. PICK kept \in {{}, writer[w].quar} :
        copy' = [copy EXCEPT !.objs = @ \cup kept] /\ (kept # {} => copy.bare)
  BY DEF MoveFails
<1> DEFINE objs == copy.objs \cup kept
<1>3. copy \in Directory /\ copy.refs \in RefMap /\ copy.objs \subseteq Commits
      /\ writer[w] \in WriterState
  BY ShapeFacts
<1>4. copy' = [copy EXCEPT !.objs = objs, !.refs = copy.refs]
  BY <1>2, <1>3 DEF Directory
<1>5. objs \in SUBSET Commits
  BY <1>3 DEF WriterState
<1> HIDE DEF objs
<1>6. TypeInv' /\ copy'.objs = objs /\ copy'.refs = copy.refs /\ \E q : WasAnswered(w, q)
  BY <1>1, <1>3, <1>4, <1>5, AnsweredFacts
<1>7. QED
  BY <1>2, <1>6 DEF objs

\* An adoption takes the lock with the index it read.
LEMMA AdoptReadTypes ==
    ASSUME TypeInv, NEW w \in Local, AdoptRead(w)
    PROVE  /\ TypeInv'
           /\ writer[w].pc = "adopt" /\ IsFree
           /\ \/ Alone(w, WriterIdle) /\ UNCHANGED <<log, made, copy, lock>> /\ generation = 0
              \/ /\ lock'.pc = "adopt" /\ lock'.who = w /\ lock'.gen = generation
                 /\ lock'.ix = index /\ generation # 0
                 /\ UNCHANGED <<log, made, copy, writer>>
<1>1. /\ writer[w].pc = "adopt" /\ IsFree /\ UNCHANGED <<log, made, copy, spent>>
  BY DEF AdoptRead
<1>2. RestOK'
  BY <1>1 DEF TypeInv, RestOK
<1>3. CASE generation = 0
  <2>1. writer' = [writer EXCEPT ![w] = WriterIdle] /\ UNCHANGED lock
    BY <1>3 DEF AdoptRead
  <2>2. QED
    BY <1>1, <1>2, <1>3, <2>1, EndTypes
<1>4. CASE generation # 0
  <2> DEFINE k == [LockFree EXCEPT !.pc = "adopt", !.who = w, !.gen = generation, !.ix = index]
  <2>1. lock' = k /\ UNCHANGED writer
    BY <1>4 DEF AdoptRead
  <2>2. LockFree \in LockState /\ LockOK(LockFree) /\ index \in Index /\ generation \in Nat
        /\ Names(index) \subseteq Packs
    BY BlankFacts DEF TypeInv, LogOK, LockOK
  <2>3. k \in LockState /\ k.pc = "adopt" /\ k.who = w /\ k.gen = generation /\ k.ix = index
        /\ k.todo = LockFree.todo
    BY <2>2 DEF LockState
  <2> HIDE DEF k
  <2>4. LockOK(k)
    BY <2>2, <2>3 DEF LockOK
  <2>5. WritersOK' /\ CopyOK(copy') /\ HolderOK'
    BY <1>1, <2>1, <2>3 DEF TypeInv, WritersOK, HolderOK
  <2>6. TypeInv'
    BY <1>1, <1>2, <2>1, <2>4, <2>5, CopyTypes
  <2>7. QED
    BY <1>1, <1>4, <2>1, <2>3, <2>6
<1>5. QED
  BY <1>3, <1>4

\* An adoption ends, with the copy stamped or not.
LEMMA AdoptStampTypes ==
    ASSUME TypeInv, AdoptStamp
    PROVE  /\ TypeInv'
           /\ lock.pc = "adopt" /\ lock.who \in Local /\ writer[lock.who].pc = "adopt"
           /\ lock' = LockFree /\ Alone(lock.who, WriterIdle)
           /\ UNCHANGED <<log, made>>
           /\ \/ UNCHANGED copy
              \/ /\ copy.bare /\ copy.refs = lock.ix.refs
                 /\ copy'.state = StateOf(lock.gen, lock.ix)
                 /\ copy'.objs = copy.objs /\ copy'.refs = copy.refs /\ copy'.bare = copy.bare
                 /\ copy'.absent = copy.absent
<1>1. /\ lock.pc = "adopt" /\ UNCHANGED <<log, made, spent>>
      /\ lock' = LockFree
      /\ copy' = IF Converged(copy, lock.ix)
                 THEN [copy EXCEPT !.state = StateOf(lock.gen, lock.ix)]
                 ELSE copy
      /\ writer' = [writer EXCEPT ![lock.who] = WriterIdle]
  BY DEF AdoptStamp
<1>2. LockOK(lock) /\ lock.who \in Local /\ writer[lock.who].pc = "adopt"
  BY <1>1 DEF TypeInv, LockOK, HolderOK
<1>3. WritersOK' /\ Alone(lock.who, WriterIdle) /\ LockOK(lock') /\ HolderOK' /\ RestOK'
  BY <1>1, <1>2, IdleFacts, OneWriter, AloneFacts, BlankFacts DEF TypeInv, RestOK, HolderOK
<1>4. CASE ~Converged(copy, lock.ix)
  <2>1. UNCHANGED copy /\ CopyOK(copy')
    BY <1>1, <1>4 DEF TypeInv
  <2>2. TypeInv'
    BY <1>1, <1>3, <2>1, CopyTypes
  <2>3. QED
    BY <1>1, <1>2, <1>3, <2>1, <2>2
<1>5. CASE Converged(copy, lock.ix)
  <2>1. copy' = [copy EXCEPT !.state = StateOf(lock.gen, lock.ix)]
    BY <1>1, <1>5
  <2>2. /\ CopyOK(copy') /\ copy'.state = StateOf(lock.gen, lock.ix)
        /\ copy'.objs = copy.objs /\ copy'.refs = copy.refs /\ copy'.bare = copy.bare
        /\ copy'.absent = copy.absent
    BY <1>1, <1>2, <2>1, StampedFacts
  <2>3. TypeInv'
    BY <1>1, <1>3, <2>2, CopyTypes
  <2>4. QED
    BY <1>1, <1>2, <1>3, <1>5, <2>2, <2>3 DEF Converged
<1>6. QED
  BY <1>4, <1>5

\* An adoption fails.
LEMMA AdoptFaultTypes ==
    ASSUME TypeInv, NEW w \in Local, AdoptFault(w)
    PROVE  TypeInv' /\ Alone(w, WriterIdle)
<1>1. /\ writer[w].pc = "adopt" /\ IsFree /\ Fault
      /\ writer' = [writer EXCEPT ![w] = WriterIdle]
      /\ UNCHANGED <<log, made, copy, lock>>
  BY DEF AdoptFault
<1>2. RestOK'
  BY <1>1, LocalCopyAssumption DEF TypeInv, RestOK, Fault, Spend
<1>3. QED
  BY <1>1, <1>2, EndTypes

\* What the undoing of a refused write makes of the copy.
RolledBackTo(w) ==
    LET r == RefOf(w)
    IN  \/ writer[w].work # "create" /\ UNCHANGED copy
        \/ writer[w].work = "create" /\ ~copy.bare /\ UNCHANGED copy
        \/ /\ writer[w].work = "commit" /\ copy.bare /\ copy.refs[r] = NewOf(w)
           /\ copy'.refs = [copy.refs EXCEPT ![r] = copy.state.refs[r]]
           /\ copy'.absent = copy.absent
        \/ /\ writer[w].work = "create" /\ copy.bare
           /\ copy'.refs = [copy.refs EXCEPT ![r] = NoCommit]
           /\ copy'.absent = copy.absent
        \/ /\ writer[w].work = "delete" /\ copy.bare /\ copy.refs[r] = NoCommit
           /\ copy'.refs = [copy.refs EXCEPT ![r] = OldOf(w)]
           /\ copy'.absent = copy.absent \cup ({OldOf(w)} \ copy.objs)

\* A write rolled back: its ref is as Undone says, and it ends or tries again.
RolledBack(w, q) ==
    /\ writer[w].pc = "reset" /\ IsFree
    /\ Alone(w, q)
    /\ q.pc \in {"idle", "ensure"} /\ q.quar = {}
    /\ copy'.objs = copy.objs /\ copy'.state = copy.state /\ copy'.bare = copy.bare
    /\ RolledBackTo(w)
    /\ writer[w].work = "commit" /\ copy.bare /\ copy.refs[RefOf(w)] = NewOf(w) =>
          copy'.refs = [copy.refs EXCEPT ![RefOf(w)] = copy.state.refs[RefOf(w)]]
    /\ UNCHANGED <<log, made, lock>>

\* Another attempt is one more.
LEMMA AttemptsFacts ==
    ASSUME TypeInv, NEW w \in Local, writer[w].pc = "reset", NEW q \in Attempts(writer[w])
    PROVE  WriterOK(w, q) /\ q.pc \in {"idle", "ensure"} /\ q.quar = {}
<1>1. writer[w] \in WriterState /\ WriterOK(w, writer[w]) /\ w \notin Remote
  BY ShapeFacts, LocalCopyAssumption
<1>2. CASE q = WriterIdle
  BY <1>2, IdleFacts
<1>3. CASE q # WriterIdle
  <2> DEFINE more == writer[w].tries + 1
             n == [writer[w] EXCEPT !.pc = "ensure", !.tries = more]
  <2>1. q = n /\ more < MaxAttempts
    BY <1>3 DEF Attempts
  <2>2. more \in 0..(MaxAttempts - 1)
    BY <1>1, <2>1, LocalCopyAssumption DEF WriterState
  <2> HIDE DEF more
  <2>3. n \in WriterState /\ n.pc = "ensure" /\ n.quar = writer[w].quar
        /\ n.upd = writer[w].upd /\ n.work = writer[w].work
    BY <1>1, <2>2 DEF WriterState
  <2> HIDE DEF n
  <2>4. QED
    BY <1>1, <2>1, <2>3 DEF WriterOK
<1>4. QED
  BY <1>2, <1>3

\* A refused write is rolled back.
LEMMA ResetTypes ==
    ASSUME TypeInv, NEW w \in Local, Reset(w)
    PROVE  TypeInv' /\ \E q : RolledBack(w, q)
<1> DEFINE r == RefOf(w)
           work == writer[w].work
<1>1. /\ writer[w].pc = "reset" /\ IsFree /\ UNCHANGED <<log, made, lock, spent>>
      /\ copy' = IF copy.bare THEN Undone(writer[w], r, copy) ELSE copy
  BY DEF Reset
<1>2. PICK q \in Attempts(writer[w]) : writer' = [writer EXCEPT ![w] = q]
  BY DEF Reset
<1>3. /\ r \in Refs /\ copy \in Directory /\ copy.refs \in RefMap /\ copy.objs \in SUBSET Commits
      /\ copy.state.refs \in RefMap /\ CopyOK(copy) /\ work \in Work
      /\ OldOf(w) \in Commits \cup {NoCommit}
  BY <1>1, ShapeFacts, RefOfFacts DEF TypeInv, WriterOK
<1>4. /\ CopyOK(copy')
      /\ copy'.objs = copy.objs /\ copy'.state = copy.state /\ copy'.bare = copy.bare
      /\ RolledBackTo(w)
      /\ work = "commit" /\ copy.bare /\ copy.refs[r] = NewOf(w) =>
            copy'.refs = [copy.refs EXCEPT ![r] = copy.state.refs[r]]
  <2>1. CASE work = "commit" /\ copy.bare /\ copy.refs[r] = NewOf(w)
    <3> DEFINE refs == [copy.refs EXCEPT ![r] = copy.state.refs[r]]
    <3>1. copy' = [copy EXCEPT !.refs[r] = copy.state.refs[r]]
      BY <1>1, <2>1 DEF Undone, Rollback, NewOf
    <3>2. refs \in RefMap
      BY <1>3 DEF RefMap
    <3>3. copy' = [copy EXCEPT !.objs = copy.objs, !.refs = refs]
      BY <1>3, <3>1 DEF Directory
    <3> HIDE DEF refs
    <3>4. /\ CopyOK(copy') /\ copy'.objs = copy.objs /\ copy'.refs = refs
          /\ copy'.state = copy.state /\ copy'.bare = copy.bare /\ copy'.absent = copy.absent
      BY <1>1, <1>3, <3>2, <3>3, WrittenFacts
    <3>5. QED
      BY <2>1, <3>4 DEF RolledBackTo, refs
  <2>2. CASE work = "create" /\ copy.bare
    <3>1. copy' = [copy EXCEPT !.refs[r] = NoCommit]
      BY <1>1, <2>2 DEF Undone
    <3> HIDE DEF r
    <3>2. /\ CopyOK(copy') /\ copy'.objs = copy.objs
          /\ copy'.refs = [copy.refs EXCEPT ![r] = NoCommit]
          /\ copy'.state = copy.state /\ copy'.bare = copy.bare /\ copy'.absent = copy.absent
      BY <1>1, <1>3, <2>2, <3>1, ClearedFacts
    <3>3. QED
      BY <2>2, <3>2 DEF RolledBackTo, r
  <2>3. CASE work = "delete" /\ copy.bare /\ copy.refs[r] = NoCommit
    <3>1. copy' = WithRef(copy, r, OldOf(w))
      BY <1>1, <2>3 DEF Undone, OldOf
    <3> HIDE DEF r
    <3>2. /\ CopyOK(copy') /\ copy'.objs = copy.objs
          /\ copy'.refs = [copy.refs EXCEPT ![r] = OldOf(w)]
          /\ copy'.state = copy.state /\ copy'.bare = copy.bare
          /\ copy'.absent = copy.absent \cup ({OldOf(w)} \ copy.objs)
      BY <1>1, <1>3, <2>3, <3>1, SetFacts
    <3>3. QED
      BY <2>3, <3>2 DEF RolledBackTo, r
  <2>4. CASE /\ ~(work = "commit" /\ copy.bare /\ copy.refs[r] = NewOf(w))
             /\ ~(work = "create" /\ copy.bare)
             /\ ~(work = "delete" /\ copy.bare /\ copy.refs[r] = NoCommit)
    <3>1. UNCHANGED copy
      BY <1>1, <2>4 DEF Undone, NewOf
    <3>2. QED
      BY <1>3, <2>4, <3>1 DEF RolledBackTo
  <2>5. QED
    BY <2>1, <2>2, <2>3, <2>4
<1>5. WriterOK(w, q) /\ q.pc \in {"idle", "ensure"} /\ q.quar = {}
  BY <1>1, <1>2, AttemptsFacts
<1>6. WritersOK' /\ Alone(w, q)
  BY <1>2, <1>5, OneWriter, AloneFacts DEF TypeInv
<1>7. RestOK' /\ LockOK(lock') /\ HolderOK'
  BY <1>1 DEF TypeInv, RestOK, HolderOK, IsFree
<1>8. TypeInv'
  BY <1>1, <1>4, <1>6, <1>7, CopyTypes
<1>9. RolledBack(w, q)
  BY <1>1, <1>4, <1>5, <1>6 DEF RolledBack
<1>10. QED
  BY <1>8, <1>9

\* The copy is evicted.
LEMMA EvictTypes ==
    ASSUME TypeInv, Evict
    PROVE  TypeInv'
<1>1. /\ copy' = Gone /\ UNCHANGED <<log, made, lock, writer, spent>>
  BY DEF Evict
<1>2. CopyOK(copy') /\ LockOK(lock') /\ WritersOK' /\ RestOK' /\ HolderOK'
  BY <1>1, BlankFacts DEF TypeInv, WritersOK, RestOK, HolderOK, Ensuring
<1>3. QED
  BY <1>1, <1>2, CopyTypes

\* What a crash may leave of the directory.
LEMMA DebrisFacts ==
    ASSUME TypeInv, NEW c \in Debris
    PROVE  /\ CopyOK(c) /\ c.bare /\ c.absent = copy.absent
           /\ c.state = copy.state \/ c.state = NoState
<1>1. PICK o \in {copy.objs, {}}, rs \in {copy.refs, NoRefs}, s \in {copy.state, NoState} :
        c = [copy EXCEPT !.bare = TRUE, !.objs = o, !.refs = rs, !.state = s]
  BY DEF Debris
<1>2. copy.objs \subseteq Commits /\ copy.refs \in RefMap /\ copy.state \in LocalState
      /\ NoState \in LocalState /\ NoRefs \in RefMap /\ copy \in Directory
  BY ShapeFacts, BlankFacts, NoRefsFacts DEF TypeInv
<1>3. o \in SUBSET Commits /\ rs \in RefMap /\ s \in LocalState
  BY <1>2
<1>4. c \in Directory /\ c.state = s /\ c.bare /\ c.absent = copy.absent
  BY <1>1, <1>2, <1>3 DEF Directory
<1>5. CopyOK(copy) /\ CopyOK(Gone) /\ Gone.state = NoState
  BY BlankFacts DEF TypeInv, Gone
<1>6. QED
  BY <1>4, <1>5 DEF CopyOK

\* After a crash nobody here is at work, and the disk is gone, as it was, or what
\* the removal left of it.
Crashed ==
    /\ lock' = LockFree
    /\ \A w \in Local : writer'[w] = WriterIdle
    /\ \A w \in Remote : writer'[w] = writer[w]
    /\ UNCHANGED <<log, made>>
    /\ \/ copy' = Gone /\ "lost" \in Disks
       \/ UNCHANGED copy /\ "kept" \in Disks
       \/ copy' \in Debris /\ lock.pc = "recreate" /\ "kept" \in Disks

\* The process dies.
LEMMA CrashTypes ==
    ASSUME TypeInv, Crash
    PROVE  TypeInv' /\ Crashed
<1>1. /\ lock' = LockFree /\ UNCHANGED <<log, made>> /\ Spend("crashes", MaxCrashes)
      /\ writer' = [w \in DOMAIN writer |-> IF w \in Local THEN WriterIdle ELSE writer[w]]
  BY DEF Crash
<1>2. \/ copy' = Gone /\ "lost" \in Disks
      \/ UNCHANGED copy /\ "kept" \in Disks
      \/ copy' \in Debris /\ lock.pc = "recreate" /\ "kept" \in Disks
  BY LocalCopyAssumption DEF Crash
<1>3. Local \cap Remote = {} /\ DOMAIN writer = Local \cup Remote
  BY LocalCopyAssumption DEF TypeInv, WritersOK
<1>4. /\ \A w \in Local : writer'[w] = WriterIdle
      /\ \A w \in Remote : writer'[w] = writer[w]
  BY <1>1, <1>3
<1>5. \A w \in Local \cup Remote : WriterOK(w, writer'[w]) /\ writer'[w] \in WriterState
  BY <1>3, <1>4, IdleFacts, ShapeFacts
<1>6. WritersOK'
  BY <1>1, <1>3, <1>5 DEF WritersOK, WriterOK
<1>7. CopyOK(copy')
  BY <1>2, BlankFacts, DebrisFacts DEF TypeInv
<1>8. LockOK(lock') /\ HolderOK' /\ RestOK'
  BY <1>1, BlankFacts, LocalCopyAssumption DEF TypeInv, RestOK, HolderOK, Spend
<1>9. TypeInv'
  BY <1>1, <1>6, <1>7, <1>8, CopyTypes
<1>10. QED
  BY <1>1, <1>2, <1>4, <1>9 DEF Crashed

\* A repository begins with no log and an empty copy, or a log and no copy.
LEMMA InitTypes == ASSUME Init PROVE TypeInv
<1>1. LogOK /\ made \subseteq Commits /\ copy \in {Bare, Gone}
  <2>1. CASE index = EmptyIndex /\ generation = 0 /\ content = <<>> /\ made = {} /\ copy = Bare
    BY <2>1, EmptyIndexFacts DEF LogOK
  <2>2. ASSUME NEW h \in Histories, index = h.index, generation = 1, content = h.content,
               made = Holds(h.index, h.content), copy = Gone
        PROVE  LogOK /\ made \subseteq Commits /\ copy \in {Bare, Gone}
    <3>1. /\ index \in Index /\ content \in Seq(SUBSET Commits)
          /\ Names(index) \subseteq 1..Len(content)
      BY <2>2, LocalCopyAssumption
    <3>2. Holds(index, content) \subseteq Commits
      BY <3>1 DEF Holds
    <3>3. QED
      BY <2>2, <3>1, <3>2 DEF LogOK, Packs
  <2>3. QED
    BY <2>1, <2>2 DEF Init
<1>2. CopyOK(copy) /\ LockOK(lock) /\ lock.pc = "free"
  BY <1>1, BlankFacts DEF Init
<1>3. WritersOK
  BY IdleFacts DEF Init, WritersOK
<1>4. HolderOK /\ RestOK
  BY <1>1, <1>2 DEF Init, HolderOK, RestOK, Unspent
<1>5. QED
  BY <1>1, <1>2, <1>3, <1>4 DEF TypeInv

\* Every step keeps the types.
LEMMA NextTypes == ASSUME TypeInv, [Next]_vars PROVE TypeInv'
<1>1. ASSUME NEW who \in Local \cup {Reader}, EnsureHit(who) \/ EnsureAlarm(who) \/ MatBegin(who)
      PROVE  TypeInv'
  BY <1>1, EnsureTypes, MatBeginTypes
<1>2. CASE Materialising \/ AdoptStamp
  BY <1>2, MatRecreateTypes, MatApplyTypes, MatDeleteTypes, MatUpdateTypes, MatStampTypes,
     MatFaultTypes, AdoptStampTypes DEF Materialising
<1>3. ASSUME NEW w \in Local, Ask(w) \/ Opened(w) \/ Finishing(w)
      PROVE  TypeInv'
  BY <1>3, AskTypes, RefuseTypes, CommitTypes, ResolveTypes, CreateRefTypes, DeleteRefTypes,
     ReceiveTypes, MoveTypes, MoveFailsTypes, AdoptReadTypes, AdoptFaultTypes, ResetTypes DEF Opened, Finishing
<1>4. ASSUME NEW w \in Local \cup Remote, Pushing(w)
      PROVE  TypeInv'
  BY <1>4, PlanTypes, PublishTypes, PublishRefusedTypes, PublishFaultTypes DEF Pushing
<1>5. ASSUME NEW w \in Remote, AskElsewhere(w)
      PROVE  TypeInv'
  BY <1>5, AskElsewhereTypes
<1>6. CASE Compact \/ Evict \/ Crash
  BY <1>6, CompactTypes, EvictTypes, CrashTypes
<1>7. CASE UNCHANGED vars
  BY <1>7 DEF vars, TypeInv, LogOK, CopyOK, LockOK, WritersOK, HolderOK, Ensuring, RestOK,
     Packs, WriterOK
<1>8. QED
  BY <1>1, <1>2, <1>3, <1>4, <1>5, <1>6, <1>7 DEF Next

\* The shape of the state and what keeps it hold throughout.
THEOREM CopyTypesInductive == Spec => []TypeInv
<1>1. Init => TypeInv
  BY InitTypes
<1>2. TypeInv /\ [Next]_vars => TypeInv'
  BY NextTypes
<1>3. QED
  BY <1>1, <1>2, PTL DEF Spec

\* Whatever writers, materialisations, evictions and crashes do, and however many
\* of them there are, the state keeps its shape.
THEOREM CopyTypesHold == Spec => []TypeOK
<1>1. TypeInv => TypeOK
  BY DEF TypeInv, TypeOK, LogOK, CopyOK, LockOK, WritersOK, RestOK
<1>2. QED
  BY <1>1, CopyTypesInductive, PTL

(***************************************************************************)
(* What the copy holds                                                     *)
(***************************************************************************)

\* The state file is never ahead of the log, and current only if it says what
\* the index says.  A directory that is not there is empty.
StateCurrent ==
    /\ copy.state.gen <= generation
    /\ (generation # 0 /\ copy.state.gen = generation) => copy.state = StateOf(generation, index)
    /\ ~copy.bare => copy = Gone

\* Nor is the index a holder of the lock has in memory.
LockCurrent ==
    lock.pc # "free" =>
        /\ lock.gen # 0
        /\ lock.gen <= generation
        /\ lock.gen = generation => lock.ix = index
        /\ lock.pc = "recreate" => Rebuilds(copy, index)
        /\ lock.pc \in {"apply", "update", "stamp"} => copy.bare

\* Every object is there with all it reaches, and so is every tip, including the
\* tips a refused commit would be rolled back to: all but the commits a ref was
\* set to while they were not there.
CopySound ==
    /\ ReachAll(copy.objs) \subseteq copy.objs
    /\ Tips(copy.refs) \ copy.absent \subseteq copy.objs
    /\ Tips(copy.state.refs) \ copy.absent \subseteq copy.objs

\* A removal cut short by a crash leaves debris, which is rebuilt before any
\* request gets past it.
CutShort ==
    /\ generation # 0
    /\ Rebuilds(copy, index)
    /\ lock.pc \in {"free", "recreate"}
    /\ \A w \in Local : writer[w].pc \in {"idle", "ensure"}

\* A quarantine and the copy it will go into are complete together.
QuarantinesFit ==
    \A w \in Local : ReachAll(writer[w].quar) \subseteq writer[w].quar \cup copy.objs

\* What the second ref transaction does not write was written before it.
ListedThere ==
    /\ lock.pc = "update" => Tips(lock.listed) \ copy.absent \subseteq copy.objs
    /\ lock.pc = "stamp" => Tips(lock.ix.refs) \ copy.absent \subseteq copy.objs

\* Why a copy that is continued has every object its refs reach.
CopyInv ==
    /\ TypeInv
    /\ StateCurrent
    /\ LockCurrent
    /\ CopySound \/ CutShort
    /\ QuarantinesFit
    /\ ListedThere

\* Reachability, as the proofs need it: a set with what it reaches.
LEMMA ClosureFacts ==
    ASSUME NEW S \in SUBSET Commits, NEW T \in SUBSET Commits
    PROVE  /\ S \subseteq ReachAll(S)
           /\ ReachAll(S \cup T) = ReachAll(S) \cup ReachAll(T)
           /\ ReachAll(ReachAll(S)) \subseteq ReachAll(S)
           /\ ReachAll(S) \subseteq Commits
           /\ S \subseteq T => ReachAll(S) \subseteq ReachAll(T)
BY GitAssumption DEF ReachAll

\* What one commit reaches.
LEMMA OneReachFacts ==
    ASSUME NEW c \in Commits
    PROVE  ReachAll({c}) = Reach[c] /\ c \in Reach[c] /\ Reach[c] \subseteq Commits
BY GitAssumption DEF ReachAll

\* A ref that moves takes its old tip away and brings its new one.
LEMMA TipMovesFacts ==
    ASSUME NEW refs \in RefMap, NEW r \in Refs, NEW v \in Commits \cup {NoCommit}
    PROVE  /\ Tips([refs EXCEPT ![r] = v]) \subseteq Tips(refs) \cup ({v} \ {NoCommit})
           /\ refs[r] # NoCommit => refs[r] \in Tips(refs)
BY DEF Tips, RefMap

\* Packs to come cannot make a prefix of entries that are no prefix now.
LEMMA PrefixKept ==
    ASSUME LogOK, NEW q, Landed(q),
           NEW applied \in Seq(Pack), Members(applied) \subseteq Packs,
           HasPrefix(index'.entries, applied)
    PROVE  HasPrefix(index.entries, applied)
<1>1. index.entries \in Seq(Pack) /\ Len(content) \in Nat /\ Len(index.entries) \in Nat
      /\ Len(applied) \in Nat
  BY DEF LogOK, Index
<1>2. CASE index'.entries = index.entries
  BY <1>2
<1>3. CASE index'.entries = Append(index.entries, Len(content) + 1)
  <2>1. /\ Len(index'.entries) = Len(index.entries) + 1
        /\ \A i \in 1..Len(index.entries) : index'.entries[i] = index.entries[i]
        /\ index'.entries[Len(index.entries) + 1] = Len(content) + 1
    <3>1. Len(content) + 1 \in Pack
      BY <1>1 DEF Pack
    <3>2. QED
      BY <1>1, <1>3, <3>1, AppendFacts
  <2>2. Len(applied) # Len(index.entries) + 1
    <3> SUFFICES ASSUME Len(applied) = Len(index.entries) + 1 PROVE FALSE
      OBVIOUS
    <3>1. Len(applied) \in 1..Len(applied)
      BY <1>1
    <3>2. applied[Len(applied)] = Len(content) + 1
      BY <2>1, <3>1 DEF HasPrefix
    <3>3. Len(content) + 1 \in Packs
      BY <3>1, <3>2 DEF Members
    <3>4. QED
      BY <1>1, <3>3 DEF Packs
  <2>3. Len(applied) <= Len(index.entries)
    BY <1>1, <2>1, <2>2 DEF HasPrefix
  <2>4. QED
    BY <1>1, <2>1, <2>3 DEF HasPrefix
<1>4. QED
  BY <1>2, <1>3 DEF Landed

\* So a copy that has to be rebuilt stays so, whatever the log does.
LEMMA RebuildStays ==
    ASSUME TypeInv, Rebuilds(copy, index), UNCHANGED copy,
           (\E q : Landed(q)) \/ Compact
    PROVE  Rebuilds(copy, index)'
<1>1. CASE Compact
  <2>1. index'.base = Len(content) + 1 /\ Len(content) \in Nat
    BY <1>1, CompactFacts DEF TypeInv, LogOK
  <2>2. copy.state.base \in Packs \cup {NoPack}
    BY DEF TypeInv, CopyOK
  <2>3. copy.state.base # index'.base
    BY <2>1, <2>2 DEF Packs, NoPack
  <2>4. QED
    BY <2>3 DEF Rebuilds
<1>2. ASSUME NEW q, Landed(q) PROVE Rebuilds(copy, index)'
  <2>1. index'.base = index.base
    BY <1>2 DEF Landed
  <2>2. copy.state.applied \in Seq(Pack) /\ Members(copy.state.applied) \subseteq Packs /\ LogOK
    BY ShapeFacts DEF TypeInv, CopyOK
  <2>3. HasPrefix(index'.entries, copy.state.applied) => HasPrefix(index.entries, copy.state.applied)
    BY <1>2, <2>2, PrefixKept
  <2>4. QED
    BY <2>1, <2>3 DEF Rebuilds, IsPrefix
<1>3. QED
  BY <1>1, <1>2

\* Where a local request is past its materialisation, or the lock's holder past
\* the removal, nothing was cut short.
LEMMA SoundFacts ==
    ASSUME CopyInv
    PROVE  /\ \A w \in Local : writer[w].pc \notin {"idle", "ensure"} => CopySound
           /\ lock.pc \notin {"free", "recreate"} => CopySound
           /\ ~Rebuilds(copy, index) => CopySound
           /\ TypeInv /\ copy.objs \subseteq Commits
           /\ copy.refs \in RefMap /\ copy.state.refs \in RefMap
BY ShapeFacts DEF CopyInv, CutShort

\* A current copy is not rebuilt.
LEMMA CurrentFacts ==
    ASSUME CopyInv, generation # 0, CacheHit(copy, generation, index)
    PROVE  ~Rebuilds(copy, index) /\ CopySound
<1>1. copy.state = StateOf(generation, index) /\ copy.bare
  BY DEF CopyInv, StateCurrent, CacheHit
<1>2. index.entries \in Seq(Pack)
  BY ShapeFacts DEF CopyInv
<1>3. copy.state.gen = generation /\ copy.state.base = index.base
      /\ copy.state.applied = index.entries
  BY <1>1 DEF StateOf
<1>4. IsPrefix(copy.state.applied, index.entries)
  BY <1>2, <1>3 DEF IsPrefix, HasPrefix
<1>5. ~Rebuilds(copy, index)
  BY <1>1, <1>3, <1>4 DEF Rebuilds
<1>6. QED
  BY <1>5, SoundFacts

\* Steps of writers and of the log leave the copy as sound as it was.
LEMMA AfarKeeps ==
    ASSUME CopyInv, TypeInv', UNCHANGED <<copy, lock>>,
           UNCHANGED log \/ (LogGrows /\ (Rebuilds(copy, index) => Rebuilds(copy, index)')),
           \A w \in Local : ReachAll(writer'[w].quar) \subseteq writer'[w].quar \cup copy.objs,
           CutShort => \A w \in Local : writer'[w].pc \in {"idle", "ensure"}
    PROVE  CopyInv'
<1>1. /\ copy.state.gen \in Nat /\ lock.gen \in Nat /\ generation \in Nat
      /\ StateCurrent /\ LockCurrent /\ ListedThere
  BY ShapeFacts DEF CopyInv, TypeInv, LogOK
<1>2. (generation' = generation /\ index' = index) \/ generation' = generation + 1
  BY DEF log, LogGrows
<1>3. (Rebuilds(copy, index) => Rebuilds(copy, index)') /\ (generation # 0 => generation' # 0)
  BY <1>1, <1>2 DEF log
<1>4. StateCurrent'
  <2>1. CASE generation' = generation /\ index' = index
    BY <1>1, <2>1 DEF StateCurrent
  <2>2. CASE generation' = generation + 1
    BY <1>1, <2>2 DEF StateCurrent
  <2>3. QED
    BY <1>2, <2>1, <2>2
<1>5. LockCurrent'
  <2>1. CASE generation' = generation /\ index' = index
    BY <1>1, <2>1 DEF LockCurrent
  <2>2. CASE generation' = generation + 1
    BY <1>1, <1>3, <2>2 DEF LockCurrent
  <2>3. QED
    BY <1>2, <2>1, <2>2
<1>6. CopySound' \/ CutShort'
  BY <1>3 DEF CopyInv, CopySound, CutShort
<1>7. QuarantinesFit' /\ ListedThere'
  BY <1>1 DEF QuarantinesFit, ListedThere
<1>8. QED
  BY <1>4, <1>5, <1>6, <1>7 DEF CopyInv

\* Steps of requests on a sound copy leave it sound, when they only add objects
\* and the refs they write are there, or noted as absent.
LEMMA NearKeeps ==
    ASSUME CopyInv, TypeInv', UNCHANGED <<log, lock>>,
           copy.objs \subseteq copy'.objs, CopySound', copy.absent \subseteq copy'.absent,
           copy'.state = copy.state, copy'.bare = copy.bare, ~copy.bare => UNCHANGED copy,
           \A w \in Local : ReachAll(writer'[w].quar) \subseteq writer'[w].quar \cup copy'.objs
    PROVE  CopyInv'
<1>1. StateCurrent' /\ LockCurrent'
  BY DEF CopyInv, StateCurrent, LockCurrent, log, Rebuilds
<1>2. QuarantinesFit' /\ ListedThere'
  BY DEF CopyInv, QuarantinesFit, ListedThere
<1>3. QED
  BY <1>1, <1>2 DEF CopyInv

\* The quarantines of the other writers fit a copy that lost nothing.
LEMMA QuarantinesStay ==
    ASSUME CopyInv, copy.objs \subseteq copy'.objs,
           NEW w \in Local \cup Remote, NEW q, Alone(w, q),
           w \in Local => ReachAll(q.quar) \subseteq q.quar \cup copy'.objs
    PROVE  \A v \in Local : ReachAll(writer'[v].quar) \subseteq writer'[v].quar \cup copy'.objs
<1> SUFFICES ASSUME NEW v \in Local
             PROVE  ReachAll(writer'[v].quar) \subseteq writer'[v].quar \cup copy'.objs
  OBVIOUS
<1>1. CASE v = w
  BY <1>1 DEF Alone
<1>2. CASE v # w
  <2>1. writer'[v] = writer[v]
    BY <1>2 DEF Alone
  <2>2. QED
    BY <2>1 DEF CopyInv, QuarantinesFit
<1>3. QED
  BY <1>1, <1>2

\* Nor do they change when one writer's pc does.
LEMMA CutShortStays ==
    ASSUME NEW w \in Local \cup Remote, NEW q, Alone(w, q),
           (CutShort /\ w \in Local) => q.pc \in {"idle", "ensure"}
    PROVE  CutShort => \A v \in Local : writer'[v].pc \in {"idle", "ensure"}
BY DEF Alone, CutShort

\* One writer moves, away from the copy.
LEMMA WriterKeeps ==
    ASSUME CopyInv, TypeInv', UNCHANGED <<copy, lock>>,
           UNCHANGED log \/ (LogGrows /\ (Rebuilds(copy, index) => Rebuilds(copy, index)')),
           NEW w \in Local \cup Remote, NEW q, Alone(w, q),
           w \in Local => ReachAll(q.quar) \subseteq q.quar \cup copy.objs,
           (CutShort /\ w \in Local) => q.pc \in {"idle", "ensure"}
    PROVE  CopyInv'
<1>1. \A v \in Local : ReachAll(writer'[v].quar) \subseteq writer'[v].quar \cup copy.objs
  BY QuarantinesStay
<1>2. CutShort => \A v \in Local : writer'[v].pc \in {"idle", "ensure"}
  BY CutShortStays
<1>3. QED
  BY <1>1, <1>2, AfarKeeps

\* What is served is the copy as it is.
LEMMA EnsureKeeps ==
    ASSUME CopyInv, NEW who \in Local \cup {Reader}, EnsureHit(who) \/ EnsureAlarm(who)
    PROVE  CopyInv'
<1>1. UNCHANGED <<log, made, copy, lock, spent>> /\ Ensuring(who)
      /\ (writer' = Served(who) \/ writer' = Failed(who))
      /\ (generation # 0 => CacheHit(copy, generation, index))
  BY DEF EnsureHit, EnsureAlarm
<1>2. TypeInv /\ TypeInv'
  BY EnsureTypes DEF CopyInv
<1>3. ~CutShort
  BY <1>1, CurrentFacts DEF CutShort
<1>4. \A w \in Local : writer'[w].quar \in {{}, writer[w].quar}
  <2>1. writer \in [Local \cup Remote -> WriterState] /\ WriterIdle.quar = {}
        /\ \A w \in Local : writer[w] \in WriterState
    BY <1>2, IdleFacts, ShapeFacts DEF TypeInv, WritersOK
  <2>2. CASE writer' = Failed(who)
    BY <2>1, <2>2 DEF Failed
  <2>3. CASE writer' = Served(who)
    <3>1. CASE who = Reader
      BY <2>3, <3>1 DEF Served
    <3>2. CASE who # Reader
      <4>1. writer' = [writer EXCEPT ![who].pc = "open"]
        BY <2>3, <3>2 DEF Served
      <4>2. QED
        BY <2>1, <4>1 DEF WriterState
    <3>3. QED
      BY <3>1, <3>2
  <2>4. QED
    BY <1>1, <2>2, <2>3
<1>5. \A w \in Local : ReachAll(writer'[w].quar) \subseteq writer'[w].quar \cup copy.objs
  BY <1>4, NoRefsFacts DEF CopyInv, QuarantinesFit
<1>6. QED
  BY <1>1, <1>2, <1>3, <1>5, AfarKeeps

\* Requests that begin, end or are refused before they write.
LEMMA RequestKeeps ==
    ASSUME CopyInv, NEW w \in Local, Ask(w) \/ Refuse(w) \/ AdoptFault(w)
    PROVE  CopyInv'
<1>1. UNCHANGED <<log, copy, lock>> /\ TypeInv
  BY DEF Ask, Refuse, AdoptFault, CopyInv
<1>2. TypeInv' /\ \E q : Alone(w, q) /\ q.pc \in {"idle", "ensure"} /\ q.quar = {}
  <2>1. WriterIdle.pc = "idle" /\ WriterIdle.quar = {}
    BY IdleFacts
  <2>2. QED
    BY <1>1, <2>1, AskTypes, RefuseTypes, AdoptFaultTypes
<1>3. PICK q : Alone(w, q) /\ q.pc \in {"idle", "ensure"} /\ q.quar = {}
  BY <1>2
<1>4. QED
  BY <1>1, <1>2, <1>3, WriterKeeps, NoRefsFacts

\* A lock taken with the index that is current.
LEMMA MatBeginKeeps ==
    ASSUME CopyInv, NEW who \in Local \cup {Reader}, MatBegin(who)
    PROVE  CopyInv'
<1>1. /\ lock'.pc = IF Rebuilds(copy, index) THEN "recreate" ELSE "apply"
      /\ lock'.gen = generation /\ lock'.ix = index /\ generation # 0
      /\ UNCHANGED <<log, made, copy, writer, spent>>
  BY DEF MatBegin, LockFree
<1>2. TypeInv' /\ generation \in Nat
  BY MatBeginTypes DEF CopyInv, TypeInv, LogOK
<1>3. StateCurrent' /\ QuarantinesFit'
  BY <1>1 DEF CopyInv, StateCurrent, QuarantinesFit, log
<1>4. LockCurrent'
  BY <1>1, <1>2 DEF LockCurrent, log, Rebuilds
<1>5. ListedThere'
  BY <1>1 DEF ListedThere
<1>6. CopySound' \/ CutShort'
  <2>1. CASE CopySound
    BY <1>1, <2>1 DEF CopySound
  <2>2. CASE CutShort
    BY <1>1, <2>2 DEF CutShort, log, Rebuilds
  <2>3. QED
    BY <2>1, <2>2 DEF CopyInv
<1>7. QED
  BY <1>2, <1>3, <1>4, <1>5, <1>6 DEF CopyInv

\* Nothing is complete.
LEMMA BlankIsSound ==
    ASSUME copy' = Bare \/ copy' = Gone
    PROVE  /\ CopySound' /\ copy'.objs = {} /\ copy'.state.gen = 0
           /\ (~copy'.bare => copy' = Gone) /\ copy'.refs = NoRefs
           /\ copy' = Bare => copy'.bare
<1>1. /\ copy'.objs = {} /\ copy'.refs = NoRefs /\ copy'.state = NoState
      /\ (~copy'.bare => copy' = Gone)
      /\ copy' = Bare => copy'.bare
  BY DEF Bare, Gone
<1>2. NoState.refs = NoRefs /\ NoState.gen = 0
  BY DEF NoState
<1>3. QED
  BY <1>1, <1>2, NoRefsFacts DEF CopySound

\* A cleared directory is sound.
LEMMA MatRecreateKeeps ==
    ASSUME CopyInv, MatRecreate
    PROVE  CopyInv'
<1>1. /\ lock.pc = "recreate" /\ copy' = Bare /\ writer' = WithoutQuarantines(writer)
      /\ lock' = [lock EXCEPT !.pc = "apply"]
      /\ UNCHANGED <<log, made, spent>>
  BY DEF MatRecreate
<1>2. TypeInv /\ TypeInv' /\ lock \in LockState /\ generation \in Nat
  BY MatRecreateTypes, ShapeFacts DEF CopyInv, TypeInv, LogOK
<1>3. /\ lock'.pc = "apply" /\ lock'.gen = lock.gen /\ lock'.ix = lock.ix
  BY <1>1, <1>2 DEF LockState
<1>4. /\ \A w \in Local : writer'[w] = [writer[w] EXCEPT !.quar = {}]
      /\ \A w \in Local : writer[w] \in WriterState
  BY <1>1, <1>2, EmptiedFacts, ShapeFacts DEF TypeInv, WritersOK
<1>5. \A w \in Local : writer'[w].quar = {}
  BY <1>4 DEF WriterState
<1>6. QuarantinesFit'
  BY <1>5, NoRefsFacts DEF QuarantinesFit
<1>7. CopySound' /\ StateCurrent'
  BY <1>1, <1>2, BlankIsSound DEF StateCurrent, log
<1>8. LockCurrent' /\ ListedThere'
  BY <1>1, <1>3, BlankIsSound DEF CopyInv, LockCurrent, ListedThere, log
<1>9. QED
  BY <1>2, <1>6, <1>7, <1>8 DEF CopyInv

\* A materialisation that gives up leaves what it did.
LEMMA GivenUpKeeps ==
    ASSUME CopyInv, TypeInv', UNCHANGED <<log, copy>>,
           lock' = LockFree, writer' = Failed(lock.who)
    PROVE  CopyInv'
<1>1. TypeInv /\ lock'.pc = "free" /\ WriterIdle.quar = {} /\ WriterIdle.pc = "idle"
      /\ writer \in [Local \cup Remote -> WriterState]
  BY IdleFacts DEF CopyInv, LockFree, TypeInv, WritersOK
<1>2. \A w \in Local : writer'[w] = writer[w] \/ writer'[w] = WriterIdle
  BY <1>1 DEF Failed
<1>3. StateCurrent' /\ LockCurrent' /\ ListedThere'
  BY <1>1 DEF CopyInv, StateCurrent, LockCurrent, ListedThere, log
<1>4. QuarantinesFit'
  BY <1>1, <1>2, NoRefsFacts DEF CopyInv, QuarantinesFit
<1>5. CopySound' \/ CutShort'
  <2>1. CASE CopySound
    BY <2>1 DEF CopySound
  <2>2. CASE CutShort
    BY <1>1, <1>2, <2>2 DEF CutShort, log, Rebuilds
  <2>3. QED
    BY <2>1, <2>2 DEF CopyInv
<1>6. QED
  BY <1>3, <1>4, <1>5 DEF CopyInv

\* A materialisation that gives up, and one that goes on under the same lock.
GivenUp == lock' = LockFree /\ writer' = Failed(lock.who) /\ UNCHANGED copy

GoesOn ==
    /\ lock'.who = lock.who /\ lock'.gen = lock.gen /\ lock'.ix = lock.ix
    /\ copy'.state = copy.state /\ copy'.bare = copy.bare /\ copy'.absent = copy.absent
    /\ UNCHANGED writer

AppliedNext ==
    /\ LinksFound(Head(lock.todo), copy.objs)
    /\ copy'.objs = copy.objs \cup content[Head(lock.todo)]
    /\ copy'.refs = copy.refs
    /\ lock'.pc = "apply" /\ lock'.todo = Tail(lock.todo)
    /\ GoesOn

\* What applying a pack changes.
LEMMA MatApplyFacts ==
    ASSUME TypeInv, MatApply
    PROVE  /\ lock.pc = "apply" /\ lock.todo # <<>> /\ UNCHANGED <<log, made, spent>>
           /\ AppliedNext \/ (GivenUp /\ ~LinksFound(Head(lock.todo), copy.objs))
<1>1. lock.pc = "apply" /\ lock.todo # <<>> /\ UNCHANGED <<log, made, spent>>
  BY DEF MatApply
<1>2. copy \in Directory /\ lock \in LockState
  BY ShapeFacts
<1>3. CASE LinksFound(Head(lock.todo), copy.objs)
  <2>1. /\ copy' = Applied(copy, Head(lock.todo), lock.ix)
        /\ lock' = [lock EXCEPT !.todo = Tail(@)]
        /\ UNCHANGED writer
    BY <1>3 DEF MatApply
  <2>2. /\ copy'.objs = copy.objs \cup content[Head(lock.todo)] /\ copy'.refs = copy.refs
        /\ copy'.state = copy.state /\ copy'.bare = copy.bare /\ copy'.absent = copy.absent
    BY <1>2, <2>1 DEF Applied, Directory
  <2>3. /\ lock'.pc = "apply" /\ lock'.todo = Tail(lock.todo)
        /\ lock'.who = lock.who /\ lock'.gen = lock.gen /\ lock'.ix = lock.ix
    BY <1>1, <1>2, <2>1 DEF LockState
  <2>4. QED
    BY <1>1, <1>3, <2>1, <2>2, <2>3 DEF AppliedNext, GoesOn
<1>4. CASE ~LinksFound(Head(lock.todo), copy.objs)
  BY <1>1, <1>4 DEF MatApply, GivenUp
<1>5. QED
  BY <1>3, <1>4

\* The refs after each of the two transactions.
WithoutDropped == [r \in Refs |-> IF lock.ix.refs[r] = NoCommit THEN NoCommit ELSE copy.refs[r]]
WithUpdated == [r \in Refs |-> IF r \in ToUpdate THEN lock.ix.refs[r] ELSE copy.refs[r]]

\* What the first transaction on refs changes.
LEMMA MatDeleteFacts ==
    ASSUME TypeInv, MatDelete
    PROVE  /\ lock.pc = "apply" /\ lock.todo = <<>> /\ UNCHANGED <<log, made, spent>>
           /\ copy'.objs = copy.objs /\ copy'.refs = WithoutDropped
           /\ lock'.pc = "update" /\ lock'.todo = lock.todo /\ lock'.listed = copy.refs
           /\ GoesOn
<1>1. /\ lock.pc = "apply" /\ lock.todo = <<>> /\ UNCHANGED <<log, made, spent, writer>>
      /\ copy' = [copy EXCEPT !.refs = WithoutDropped]
      /\ lock' = [lock EXCEPT !.pc = "update", !.listed = copy.refs]
  BY DEF MatDelete, WithoutDropped
<1>2. copy \in Directory /\ lock \in LockState
  BY ShapeFacts
<1>3. /\ copy'.objs = copy.objs /\ copy'.refs = WithoutDropped
      /\ copy'.state = copy.state /\ copy'.bare = copy.bare /\ copy'.absent = copy.absent
  BY <1>1, <1>2 DEF Directory
<1>4. /\ lock'.pc = "update" /\ lock'.todo = lock.todo /\ lock'.listed = copy.refs
      /\ lock'.who = lock.who /\ lock'.gen = lock.gen /\ lock'.ix = lock.ix
  BY <1>1, <1>2 DEF LockState
<1>5. QED
  BY <1>1, <1>3, <1>4 DEF GoesOn

UpdatedNext ==
    /\ {lock.ix.refs[r] : r \in ToUpdate} \subseteq copy.objs
    /\ copy'.objs = copy.objs /\ copy'.refs = WithUpdated
    /\ lock'.pc = "stamp" /\ lock'.todo = lock.todo /\ lock'.listed = lock.listed
    /\ GoesOn

\* What the second one changes.
LEMMA MatUpdateFacts ==
    ASSUME TypeInv, MatUpdate
    PROVE  /\ lock.pc = "update" /\ UNCHANGED <<log, made, spent>>
           /\ UpdatedNext \/ GivenUp
<1>1. lock.pc = "update" /\ UNCHANGED <<log, made, spent>>
  BY DEF MatUpdate
<1>2. copy \in Directory /\ lock \in LockState
  BY ShapeFacts
<1>3. CASE {lock.ix.refs[r] : r \in ToUpdate} \subseteq copy.objs
  <2>1. /\ copy' = [copy EXCEPT !.refs = WithUpdated]
        /\ lock' = [lock EXCEPT !.pc = "stamp"]
        /\ UNCHANGED writer
    BY <1>3 DEF MatUpdate, WithUpdated
  <2>2. /\ copy'.objs = copy.objs /\ copy'.refs = WithUpdated
        /\ copy'.state = copy.state /\ copy'.bare = copy.bare /\ copy'.absent = copy.absent
    BY <1>2, <2>1 DEF Directory
  <2>3. /\ lock'.pc = "stamp" /\ lock'.todo = lock.todo /\ lock'.listed = lock.listed
        /\ lock'.who = lock.who /\ lock'.gen = lock.gen /\ lock'.ix = lock.ix
    BY <1>2, <2>1 DEF LockState
  <2>4. QED
    BY <1>1, <1>3, <2>1, <2>2, <2>3 DEF UpdatedNext, GoesOn
<1>4. CASE ~({lock.ix.refs[r] : r \in ToUpdate} \subseteq copy.objs)
  BY <1>1, <1>4 DEF MatUpdate, GivenUp
<1>5. QED
  BY <1>3, <1>4

\* What writing the state file changes.
LEMMA MatStampFacts ==
    ASSUME TypeInv, MatStamp
    PROVE  /\ lock.pc = "stamp" /\ UNCHANGED <<log, made, spent>>
           /\ copy'.state = StateOf(lock.gen, lock.ix)
           /\ copy'.objs = copy.objs /\ copy'.refs = copy.refs /\ copy'.bare = copy.bare
           /\ copy'.absent = copy.absent
           /\ lock' = LockFree /\ writer' = Served(lock.who)
<1>1. /\ lock.pc = "stamp" /\ UNCHANGED <<log, made, spent>>
      /\ copy' = [copy EXCEPT !.state = StateOf(lock.gen, lock.ix)]
      /\ lock' = LockFree /\ writer' = Served(lock.who)
  BY DEF MatStamp
<1>2. QED
  BY <1>1, ShapeFacts, StampedFacts DEF TypeInv

\* A materialisation that goes on is as sound as before, with the objects and
\* refs it adds.
LEMMA GoesOnKeeps ==
    ASSUME CopyInv, TypeInv', UNCHANGED log, GoesOn,
           lock.pc \in {"apply", "update"}, lock'.pc \in {"apply", "update", "stamp"},
           copy.objs \subseteq copy'.objs, ReachAll(copy'.objs) \subseteq copy'.objs,
           Tips(copy'.refs) \ copy.absent \subseteq copy'.objs, ListedThere'
    PROVE  CopyInv'
<1>1. CopySound /\ copy.bare
  BY SoundFacts DEF CopyInv, LockCurrent
<1>2. CopySound'
  BY <1>1 DEF CopySound, GoesOn
<1>3. StateCurrent' /\ LockCurrent'
  BY <1>1 DEF CopyInv, StateCurrent, LockCurrent, log, GoesOn
<1>4. QuarantinesFit'
  BY DEF CopyInv, QuarantinesFit, GoesOn
<1>5. QED
  BY <1>2, <1>3, <1>4 DEF CopyInv

\* A pack that applies brings objects whose links are there.
LEMMA MatApplyKeeps ==
    ASSUME CopyInv, MatApply
    PROVE  CopyInv'
<1>1. /\ TypeInv /\ TypeInv'
      /\ lock.pc = "apply" /\ lock.todo # <<>> /\ UNCHANGED <<log, made, spent>>
      /\ AppliedNext \/ GivenUp
  BY MatApplyTypes, MatApplyFacts DEF CopyInv
<1>2. CASE GivenUp
  BY <1>1, <1>2, GivenUpKeeps DEF GivenUp
<1>3. CASE AppliedNext
  <2> DEFINE p == content[Head(lock.todo)]
  <2>1. CopySound /\ copy.objs \in SUBSET Commits /\ p \in SUBSET Commits
    BY <1>1, SoundFacts, NextPackFacts
  <2>2. ReachAll(p) \subseteq copy.objs \cup p
    BY <1>3 DEF AppliedNext, LinksFound
  <2>3. copy'.objs = copy.objs \cup p /\ copy'.refs = copy.refs /\ lock'.pc = "apply" /\ GoesOn
    BY <1>3 DEF AppliedNext
  <2> HIDE DEF p
  <2>4. ReachAll(copy'.objs) \subseteq copy'.objs
    BY <2>1, <2>2, <2>3, ClosureFacts DEF CopySound
  <2>5. Tips(copy'.refs) \ copy.absent \subseteq copy'.objs /\ ListedThere'
    BY <2>1, <2>3 DEF CopySound, ListedThere
  <2>6. QED
    BY <1>1, <2>3, <2>4, <2>5, GoesOnKeeps
<1>4. QED
  BY <1>1, <1>2, <1>3

\* Deleting refs takes no object away.
LEMMA MatDeleteKeeps ==
    ASSUME CopyInv, MatDelete
    PROVE  CopyInv'
<1>1. /\ TypeInv /\ TypeInv' /\ lock.pc = "apply" /\ UNCHANGED <<log, made, spent>>
      /\ copy'.objs = copy.objs /\ copy'.refs = WithoutDropped
      /\ lock'.pc = "update" /\ lock'.listed = copy.refs /\ GoesOn
  BY MatDeleteTypes, MatDeleteFacts DEF CopyInv
<1>2. CopySound
  BY <1>1, SoundFacts
<1>3. Tips(WithoutDropped) \subseteq Tips(copy.refs)
  BY DEF Tips, WithoutDropped
<1>4. ReachAll(copy'.objs) \subseteq copy'.objs
      /\ Tips(copy'.refs) \ copy.absent \subseteq copy'.objs /\ ListedThere'
  BY <1>1, <1>2, <1>3 DEF CopySound, ListedThere, GoesOn
<1>5. QED
  BY <1>1, <1>4, GoesOnKeeps

\* Refs are set to objects that are there.
LEMMA MatUpdateKeeps ==
    ASSUME CopyInv, MatUpdate
    PROVE  CopyInv'
<1>1. /\ TypeInv /\ TypeInv'
      /\ lock.pc = "update" /\ UNCHANGED <<log, made, spent>>
      /\ UpdatedNext \/ GivenUp
  BY MatUpdateTypes, MatUpdateFacts DEF CopyInv
<1>2. CASE GivenUp
  BY <1>1, <1>2, GivenUpKeeps DEF GivenUp
<1>3. CASE UpdatedNext
  <2>1. CopySound /\ Tips(lock.listed) \ copy.absent \subseteq copy.objs
    BY <1>1, SoundFacts DEF CopyInv, ListedThere
  <2>2. /\ {lock.ix.refs[r] : r \in ToUpdate} \subseteq copy.objs
        /\ copy'.objs = copy.objs /\ copy'.refs = WithUpdated /\ lock'.pc = "stamp" /\ GoesOn
    BY <1>3 DEF UpdatedNext
  <2>3. Tips(WithUpdated) \subseteq Tips(copy.refs) \cup {lock.ix.refs[r] : r \in ToUpdate}
    BY DEF Tips, WithUpdated
  <2>4. Tips(lock.ix.refs) \subseteq Tips(lock.listed) \cup {lock.ix.refs[r] : r \in ToUpdate}
    <3> SUFFICES ASSUME NEW r \in Refs, lock.ix.refs[r] # NoCommit, r \notin ToUpdate
                 PROVE  lock.ix.refs[r] \in Tips(lock.listed)
      BY DEF Tips
    <3>1. lock.listed[r] = lock.ix.refs[r]
      BY DEF ToUpdate
    <3>2. QED
      BY <3>1 DEF Tips
  <2>5. ReachAll(copy'.objs) \subseteq copy'.objs
        /\ Tips(copy'.refs) \ copy.absent \subseteq copy'.objs
    BY <2>1, <2>2, <2>3 DEF CopySound
  <2>6. ListedThere'
    BY <2>1, <2>2, <2>4 DEF ListedThere, GoesOn
  <2>7. QED
    BY <1>1, <2>2, <2>5, <2>6, GoesOnKeeps
<1>4. QED
  BY <1>1, <1>2, <1>3

\* The fields of a state file that says what an index says.
LEMMA StateOfFacts ==
    ASSUME NEW gen, NEW ix
    PROVE  /\ StateOf(gen, ix).gen = gen /\ StateOf(gen, ix).base = ix.base
           /\ StateOf(gen, ix).applied = ix.entries /\ StateOf(gen, ix).refs = ix.refs
BY DEF StateOf

\* The state file names refs the copy has.
LEMMA MatStampKeeps ==
    ASSUME CopyInv, MatStamp
    PROVE  CopyInv'
<1>1. /\ TypeInv /\ TypeInv' /\ lock.pc = "stamp" /\ UNCHANGED <<log, made, spent>>
      /\ copy'.state = StateOf(lock.gen, lock.ix)
      /\ copy'.objs = copy.objs /\ copy'.refs = copy.refs /\ copy'.bare = copy.bare
      /\ copy'.absent = copy.absent
      /\ lock' = LockFree /\ writer' = Served(lock.who)
  BY MatStampTypes, MatStampFacts DEF CopyInv
<1>2. CopySound /\ copy.bare /\ Tips(lock.ix.refs) \ copy.absent \subseteq copy.objs
      /\ lock.gen <= generation /\ lock.gen # 0 /\ (lock.gen = generation => lock.ix = index)
  BY <1>1, SoundFacts DEF CopyInv, ListedThere, LockCurrent
<1>3. copy'.state.gen = lock.gen /\ copy'.state.refs = lock.ix.refs
  BY <1>1, StateOfFacts
<1>4. CopySound' /\ StateCurrent'
  BY <1>1, <1>2, <1>3 DEF CopySound, StateCurrent, log
<1>5. lock'.pc = "free"
  BY <1>1 DEF LockFree
<1>6. LockCurrent' /\ ListedThere'
  BY <1>5 DEF LockCurrent, ListedThere
<1>7. \A w \in Local : writer'[w].quar = writer[w].quar
  BY <1>1, ShapeFacts DEF Served, TypeInv, WritersOK, WriterState
<1>8. QuarantinesFit'
  BY <1>1, <1>7 DEF CopyInv, QuarantinesFit
<1>9. QED
  BY <1>1, <1>4, <1>6, <1>8 DEF CopyInv

\* A copy that is gone, or a bare one that is empty, holds nothing wrong.
LEMMA BlankKeeps ==
    ASSUME TypeInv', copy' = Gone, lock'.pc = "free", \A w \in Local : writer'[w].quar = {}
    PROVE  CopyInv'
<1>1. CopySound' /\ copy'.state.gen = 0 /\ (~copy'.bare => copy' = Gone)
  BY BlankIsSound
<1>2. copy'.state.gen <= generation' /\ (generation' # 0 => copy'.state.gen # generation')
  BY <1>1 DEF TypeInv, LogOK
<1>3. QuarantinesFit' /\ LockCurrent' /\ ListedThere' /\ StateCurrent'
  BY <1>1, <1>2, NoRefsFacts DEF QuarantinesFit, LockCurrent, ListedThere, StateCurrent
<1>4. QED
  BY <1>1, <1>3 DEF CopyInv

\* A materialisation that fails leaves what it did.
LEMMA MatFaultKeeps ==
    ASSUME CopyInv, MatFault
    PROVE  CopyInv'
<1>1. TypeInv /\ TypeInv' /\ lock' = LockFree /\ UNCHANGED <<log, made>> /\ lock'.pc = "free"
  BY MatFaultTypes DEF CopyInv, MatFault, LockFree
<1>2. CASE copy' = copy /\ writer' = Failed(lock.who)
  BY <1>1, <1>2, GivenUpKeeps
<1>3. CASE copy' = Gone /\ writer' = WithoutQuarantines(Failed(lock.who))
  <2> DEFINE ws == Failed(lock.who)
  <2>1. ws \in [Local \cup Remote -> WriterState]
        /\ \A w \in Local \cup Remote : WriterOK(w, ws[w])
    BY <1>1, ShapeFacts, IdleFacts DEF TypeInv, WritersOK, Failed
  <2>2. writer' = WithoutQuarantines(ws)
    BY <1>3
  <2> HIDE DEF ws
  <2>3. \A w \in Local : writer'[w] = [ws[w] EXCEPT !.quar = {}]
    BY <2>1, <2>2, EmptiedFacts
  <2>4. \A w \in Local : writer'[w].quar = {}
    BY <2>1, <2>3 DEF WriterState
  <2>5. QED
    BY <1>1, <1>3, <2>4, BlankKeeps
<1>4. QED
  BY <1>2, <1>3 DEF MatFault

\* A directory is its fields.
LEMMA SameCopy ==
    ASSUME TypeInv, TypeInv', copy'.bare = copy.bare, copy'.objs = copy.objs,
           copy'.refs = copy.refs, copy'.state = copy.state, copy'.absent = copy.absent
    PROVE  UNCHANGED copy
<1>1. copy \in Directory /\ copy' \in Directory
  BY ShapeFacts DEF TypeInv, CopyOK
<1>2. /\ copy = [bare |-> copy.bare, objs |-> copy.objs, refs |-> copy.refs,
                 state |-> copy.state, absent |-> copy.absent]
      /\ copy' = [bare |-> copy'.bare, objs |-> copy'.objs, refs |-> copy'.refs,
                  state |-> copy'.state, absent |-> copy'.absent]
  BY <1>1 DEF Directory
<1>3. QED
  BY <1>2

\* A commit builds on an object that is there.
LEMMA CommitKeeps ==
    ASSUME CopyInv, NEW w \in Local, Commit(w)
    PROVE  CopyInv'
<1>1. TypeInv /\ TypeInv' /\ copy.bare /\ \E q, c : Committed(w, q, c)
  BY CommitTypes DEF CopyInv
<1>2. PICK q, c : Committed(w, q, c)
  BY <1>1
<1> DEFINE r == RefOf(w)
           old == copy.refs[r]
<1>3. /\ writer[w].pc = "open" /\ c \in NewCommits(old)
      /\ old # NoCommit => old \in copy.objs
      /\ copy'.objs = copy.objs \cup {c} /\ copy'.refs = [copy.refs EXCEPT ![r] = c]
      /\ copy'.state = copy.state /\ copy'.bare = copy.bare /\ copy'.absent = copy.absent
      /\ Alone(w, q) /\ q.quar = {} /\ UNCHANGED <<log, lock>>
  BY <1>2 DEF Committed
<1>4. CopySound /\ copy.objs \in SUBSET Commits /\ copy.refs \in RefMap /\ r \in Refs
  BY <1>1, <1>3, SoundFacts, RefOfFacts DEF TypeInv
<1>5. c \in Commits /\ Reach[c] = {c} \cup (IF old = NoCommit THEN {} ELSE Reach[old])
  BY <1>3, NewCommitFacts
<1> HIDE DEF old
<1>6. Reach[c] \subseteq copy.objs \cup {c}
  <2>1. old \in copy.objs => Reach[old] \subseteq copy.objs
    BY <1>4 DEF CopySound, ReachAll
  <2>2. QED
    BY <1>3, <1>5, <2>1
<1>7. ReachAll(copy'.objs) \subseteq copy'.objs
  <2>1. {c} \in SUBSET Commits /\ ReachAll({c}) = Reach[c]
    BY <1>5, OneReachFacts
  <2>2. ReachAll(copy.objs \cup {c}) = ReachAll(copy.objs) \cup Reach[c]
    BY <1>4, <2>1, ClosureFacts
  <2>3. QED
    BY <1>3, <1>4, <1>6, <2>2 DEF CopySound
<1>8. Tips(copy'.refs) \subseteq Tips(copy.refs) \cup {c}
  BY <1>3, <1>4, <1>5, TipMovesFacts
<1>9. CopySound'
  BY <1>3, <1>4, <1>7, <1>8 DEF CopySound
<1>10. \A v \in Local : ReachAll(writer'[v].quar) \subseteq writer'[v].quar \cup copy'.objs
  BY <1>3, QuarantinesStay, NoRefsFacts
<1>11. QED
  BY <1>1, <1>3, <1>9, <1>10, NearKeeps

\* A ref is created or deleted: what is not there is noted as absent.
LEMMA ChangedKeeps ==
    ASSUME CopyInv, TypeInv', NEW w \in Local, NEW q, NEW new, Changed(w, q, new)
    PROVE  CopyInv'
<1> DEFINE r == RefOf(w)
<1>1. /\ writer[w].pc = "open"
      /\ copy'.objs = copy.objs /\ copy'.refs = [copy.refs EXCEPT ![r] = new]
      /\ copy'.state = copy.state /\ copy'.bare = copy.bare
      /\ copy.absent \subseteq copy'.absent
      /\ new # NoCommit => new \in copy.objs \cup copy'.absent
      /\ Alone(w, q) /\ q.quar = {} /\ UNCHANGED <<log, lock>>
  BY DEF Changed
<1>2. CopySound /\ copy.refs \in RefMap /\ r \in Refs /\ TypeInv
  BY <1>1, SoundFacts, RefOfFacts DEF TypeInv
<1>3. ~copy.bare => UNCHANGED copy
  <2> SUFFICES ASSUME ~copy.bare PROVE UNCHANGED copy
    OBVIOUS
  <2>1. copy.refs = NoRefs
    BY DEF CopyInv, StateCurrent, Gone
  <2>2. new = NoCommit /\ copy'.absent = copy.absent
    BY DEF Changed
  <2>3. copy'.refs = copy.refs
    BY <1>1, <1>2, <2>1, <2>2 DEF NoRefs, RefMap
  <2>4. QED
    BY <1>1, <1>2, <2>2, <2>3, SameCopy
<1>4. \A t \in Tips(copy'.refs) : t \in Tips(copy.refs) \/ (t = new /\ new # NoCommit)
  BY <1>1, <1>2 DEF Tips, RefMap
<1>5. CopySound'
  BY <1>1, <1>2, <1>4 DEF CopySound
<1>6. \A v \in Local : ReachAll(writer'[v].quar) \subseteq writer'[v].quar \cup copy'.objs
  BY <1>1, QuarantinesStay, NoRefsFacts
<1>7. QED
  BY <1>1, <1>3, <1>5, <1>6, NearKeeps

\* So do a creation and a deletion, and the looking up of a revision.
LEMMA BranchKeeps ==
    ASSUME CopyInv, NEW w \in Local, Resolve(w) \/ CreateRef(w) \/ DeleteRef(w)
    PROVE  CopyInv'
<1>1. TypeInv
  BY DEF CopyInv
<1>2. CASE Resolve(w)
  <2>1. TypeInv' /\ \E q : LookedUp(w, q)
    BY <1>1, <1>2, ResolveTypes
  <2>2. PICK q : LookedUp(w, q)
    BY <2>1
  <2>3. /\ Alone(w, q) /\ q.pc = "ensure" /\ q.quar = {} /\ UNCHANGED <<log, copy, lock>>
    BY <2>2 DEF LookedUp
  <2>4. QED
    BY <2>1, <2>3, NoRefsFacts, WriterKeeps
<1>3. CASE CreateRef(w) \/ DeleteRef(w)
  <2>1. TypeInv' /\ \E q, new : Changed(w, q, new)
    BY <1>1, <1>3, CreateRefTypes, DeleteRefTypes
  <2>2. QED
    BY <2>1, ChangedKeeps
<1>4. QED
  BY <1>2, <1>3

\* What a push sends completes what the copy holds.
LEMMA ReceiveKeeps ==
    ASSUME CopyInv, NEW w \in Local, Receive(w)
    PROVE  CopyInv'
<1>1. TypeInv /\ TypeInv' /\ \E q, new, sent : Received(w, q, new, sent)
  BY ReceiveTypes DEF CopyInv
<1>2. PICK q, new, sent : Received(w, q, new, sent)
  BY <1>1
<1>3. /\ writer[w].pc = "open" /\ new \in Targets(Advertised, Advertised[RefOf(w)])
      /\ sent = PackObjects({new} \ {NoCommit}, Tips(Advertised))
      /\ Alone(w, q) /\ q.quar = sent /\ UNCHANGED <<log, lock, copy>>
  BY <1>2 DEF Received
<1>4. CopySound /\ copy.objs \in SUBSET Commits /\ Advertised \in RefMap
      /\ Tips(Advertised) \in SUBSET Commits /\ Tips(Advertised) \subseteq copy.objs
  BY <1>1, <1>3, SoundFacts, TipsFacts, AdvertisedFacts
<1> DEFINE want == {new} \ {NoCommit}
<1>5. want \in SUBSET Commits
  BY <1>3, <1>4, TargetsFacts
<1>6. sent = ReachAll(want) \ ReachAll(Tips(Advertised))
  BY <1>3 DEF PackObjects
<1> HIDE DEF want
<1>7. ReachAll(Tips(Advertised)) \subseteq copy.objs
  <2>1. ReachAll(Tips(Advertised)) \subseteq ReachAll(copy.objs)
    BY <1>4, ClosureFacts
  <2>2. QED
    BY <1>4, <2>1 DEF CopySound
<1>8. ReachAll(sent) \subseteq sent \cup copy.objs
  <2>1. ReachAll(want) \in SUBSET Commits /\ sent \in SUBSET Commits
    BY <1>5, <1>6, ClosureFacts
  <2>2. ReachAll(sent) \subseteq ReachAll(ReachAll(want))
    BY <1>6, <2>1, ClosureFacts
  <2>3. ReachAll(ReachAll(want)) \subseteq ReachAll(want)
    BY <1>5, ClosureFacts
  <2>4. QED
    BY <1>6, <1>7, <2>2, <2>3
<1>9. ~CutShort
  BY <1>3 DEF CutShort
<1>10. QED
  BY <1>1, <1>3, <1>8, <1>9, WriterKeeps

\* Other instances and the push itself leave the copy alone.
LEMMA PushingAfar ==
    ASSUME CopyInv, TypeInv', UNCHANGED <<copy, lock>>,
           UNCHANGED log \/ (LogGrows /\ (Rebuilds(copy, index) => Rebuilds(copy, index)')),
           NEW w \in Local \cup Remote, writer[w].pc \in {"plan", "publish"} \/ w \in Remote,
           NEW q, Alone(w, q), w \in Local => q.quar \in {{}, writer[w].quar}
    PROVE  CopyInv'
<1>1. w \in Local => ReachAll(q.quar) \subseteq q.quar \cup copy.objs
  BY NoRefsFacts DEF CopyInv, QuarantinesFit
<1>2. (CutShort /\ w \in Local) => q.pc \in {"idle", "ensure"}
  BY LocalCopyAssumption DEF CutShort
<1>3. QED
  BY <1>1, <1>2, WriterKeeps

\* A push elsewhere leaves this copy alone.
LEMMA AskElsewhereKeeps ==
    ASSUME CopyInv, NEW w \in Remote, AskElsewhere(w)
    PROVE  CopyInv'
<1>1. TypeInv /\ TypeInv' /\ \E q, r, new : AskedElsewhere(w, q, r, new)
  BY AskElsewhereTypes DEF CopyInv
<1>2. PICK q, r, new : AskedElsewhere(w, q, r, new)
  BY <1>1
<1>3. Alone(w, q) /\ UNCHANGED <<log, lock, copy>> /\ w \notin Local
  BY <1>2, LocalCopyAssumption DEF AskedElsewhere
<1>4. QED
  BY <1>1, <1>3, PushingAfar

\* So does a write of this instance on its way through the log.
LEMMA PushingKeepsCopy ==
    ASSUME CopyInv, NEW w \in Local \cup Remote, Pushing(w)
    PROVE  CopyInv'
<1>0. TypeInv
  BY DEF CopyInv
<1>1. CASE Plan(w)
  <2>1. TypeInv' /\ UNCHANGED <<log, copy, lock>> /\ writer[w].pc = "plan"
        /\ \E q : WasPacked(w, q) \/ WasRefused(w, q)
    BY <1>0, <1>1, PlanTypes DEF Plan
  <2>2. PICK q : Alone(w, q) /\ q.quar \in {{}, writer[w].quar}
    BY <2>1 DEF WasPacked, WasRefused
  <2>3. QED
    BY <2>1, <2>2, PushingAfar
<1>2. CASE PublishRefused(w)
  <2>1. TypeInv' /\ UNCHANGED <<log, copy, lock>> /\ writer[w].pc = "publish"
        /\ \E q : WasSentBack(w, q) \/ WasRefused(w, q)
    BY <1>0, <1>2, PublishRefusedTypes DEF PublishRefused
  <2>2. PICK q : Alone(w, q) /\ q.quar \in {{}, writer[w].quar}
    BY <2>1 DEF WasSentBack, WasRefused
  <2>3. QED
    BY <2>1, <2>2, PushingAfar
<1>3. ASSUME Landing(w)
      PROVE  /\ LogGrows /\ (Rebuilds(copy, index) => Rebuilds(copy, index)')
             /\ UNCHANGED <<copy, lock>>
  BY <1>0, <1>3, RebuildStays DEF Landing
<1>4. CASE Publish(w)
  <2>1. TypeInv' /\ Landing(w) /\ writer[w].pc = "publish" /\ \E q : WasAccepted(w, q)
    BY <1>0, <1>4, PublishTypes DEF Publish
  <2>2. PICK q : Alone(w, q) /\ (w \in Local => q.quar \in {{}, writer[w].quar})
    BY <2>1 DEF WasAccepted
  <2>3. QED
    BY <1>3, <2>1, <2>2, PushingAfar
<1>5. CASE PublishFault(w)
  <2>1. /\ TypeInv' /\ writer[w].pc \in {"plan", "publish"} /\ \E q : WasRefused(w, q)
        /\ UNCHANGED <<log, made, copy, lock>> \/ Landing(w)
    BY <1>0, <1>5, PublishFaultTypes DEF PublishFault
  <2>2. PICK q : Alone(w, q) /\ q.quar \in {{}, writer[w].quar}
    BY <2>1 DEF WasRefused
  <2>3. QED
    BY <1>3, <2>1, <2>2, PushingAfar
<1>6. QED
  BY <1>1, <1>2, <1>4, <1>5 DEF Pushing

\* A compaction makes the copy one to rebuild at most.
LEMMA CompactKeepsCopy ==
    ASSUME CopyInv, Compact
    PROVE  CopyInv'
<1>1. TypeInv /\ TypeInv' /\ LogGrows /\ UNCHANGED <<copy, lock, writer>>
      /\ (Rebuilds(copy, index) => Rebuilds(copy, index)')
  BY CompactTypes, RebuildStays DEF CopyInv, Compact
<1>2. QED
  BY <1>1, AfarKeeps DEF CopyInv, QuarantinesFit, CutShort

\* What a push migrates into the copy is complete with it.
LEMMA MigrationFacts ==
    ASSUME CopyInv, CopySound, NEW w \in Local, NEW kept \in {{}, writer[w].quar}
    PROVE  ReachAll(copy.objs \cup kept) \subseteq copy.objs \cup kept
<1>1. copy.objs \in SUBSET Commits /\ writer[w].quar \in SUBSET Commits
  BY ShapeFacts DEF CopyInv, WriterState
<1>2. ReachAll(kept) \subseteq kept \cup copy.objs
  BY NoRefsFacts DEF CopyInv, QuarantinesFit
<1>3. kept \in SUBSET Commits
  BY <1>1
<1>4. ReachAll(copy.objs \cup kept) = ReachAll(copy.objs) \cup ReachAll(kept)
  BY <1>1, <1>3, ClosureFacts
<1>5. QED
  BY <1>2, <1>4 DEF CopySound

\* A receive-pack that moves its ref has what the ref then reaches.
LEMMA MoveKeeps ==
    ASSUME CopyInv, NEW w \in Local, Move(w)
    PROVE  CopyInv'
<1>1. /\ TypeInv /\ TypeInv' /\ writer[w].pc = "move" /\ copy.bare
      /\ copy'.objs = copy.objs \cup writer[w].quar
      /\ copy'.refs = [copy.refs EXCEPT ![RefOf(w)] = NewOf(w)]
      /\ \E q : WasAnswered(w, q)
  BY MoveTypes DEF CopyInv, Move
<1>2. PICK q : WasAnswered(w, q)
  BY <1>1
<1>3. Alone(w, q) /\ q.quar = {} /\ UNCHANGED <<log, lock>>
      /\ copy'.state = copy.state /\ copy'.bare = copy.bare /\ copy'.absent = copy.absent
  BY <1>2 DEF WasAnswered
<1>4. CopySound /\ copy.refs \in RefMap /\ RefOf(w) \in Refs /\ NewOf(w) \in Commits \cup {NoCommit}
  BY <1>1, SoundFacts, RefOfFacts DEF TypeInv
<1>5. ReachAll(copy'.objs) \subseteq copy'.objs
  BY <1>1, <1>4, MigrationFacts
<1>6. NewOf(w) # NoCommit => NewOf(w) \in copy'.objs
  <2>1. NewOf(w) # NoCommit => Reach[NewOf(w)] \subseteq copy.objs \cup writer[w].quar
    BY DEF Move
  <2>2. NewOf(w) # NoCommit => NewOf(w) \in Reach[NewOf(w)]
    BY <1>4, OneReachFacts
  <2>3. QED
    BY <1>1, <2>1, <2>2
<1>7. Tips(copy'.refs) \subseteq Tips(copy.refs) \cup ({NewOf(w)} \ {NoCommit})
  BY <1>1, <1>4, TipMovesFacts
<1>8. CopySound'
  BY <1>1, <1>3, <1>4, <1>5, <1>6, <1>7 DEF CopySound
<1>9. \A v \in Local : ReachAll(writer'[v].quar) \subseteq writer'[v].quar \cup copy'.objs
  BY <1>1, <1>3, QuarantinesStay, NoRefsFacts
<1>10. QED
  BY <1>1, <1>3, <1>8, <1>9, NearKeeps

\* One that does not, adds objects at most.
LEMMA MoveFailsKeeps ==
    ASSUME CopyInv, NEW w \in Local, MoveFails(w)
    PROVE  CopyInv'
<1>1. /\ TypeInv /\ TypeInv' /\ writer[w].pc = "move"
      /\ \E kept \in {{}, writer[w].quar} :
            copy'.objs = copy.objs \cup kept /\ (kept # {} => copy.bare)
      /\ copy'.refs = copy.refs
      /\ \E q : WasAnswered(w, q)
  BY MoveFailsTypes DEF CopyInv, MoveFails
<1>2. PICK q : WasAnswered(w, q)
  BY <1>1
<1>3. PICK kept \in {{}, writer[w].quar} :
            copy'.objs = copy.objs \cup kept /\ (kept # {} => copy.bare)
  BY <1>1
<1>4. Alone(w, q) /\ q.quar = {} /\ UNCHANGED <<log, lock>>
      /\ copy'.state = copy.state /\ copy'.bare = copy.bare /\ copy'.absent = copy.absent
  BY <1>2 DEF WasAnswered
<1>5. CopySound
  BY <1>1, SoundFacts
<1>6. ReachAll(copy'.objs) \subseteq copy'.objs
  BY <1>3, <1>5, MigrationFacts
<1>7. CopySound'
  BY <1>1, <1>3, <1>4, <1>5, <1>6 DEF CopySound
<1>8. ~copy.bare => UNCHANGED copy
  BY <1>1, <1>3, <1>4, SameCopy
<1>9. \A v \in Local : ReachAll(writer'[v].quar) \subseteq writer'[v].quar \cup copy'.objs
  BY <1>3, <1>4, QuarantinesStay, NoRefsFacts
<1>10. QED
  BY <1>1, <1>3, <1>4, <1>7, <1>8, <1>9, NearKeeps

\* An adoption looks at a copy some request has been served from.
LEMMA AdoptReadKeeps ==
    ASSUME CopyInv, NEW w \in Local, AdoptRead(w)
    PROVE  CopyInv'
<1>1. /\ TypeInv /\ TypeInv' /\ writer[w].pc = "adopt"
      /\ \/ Alone(w, WriterIdle) /\ UNCHANGED <<log, made, copy, lock>>
         \/ /\ lock'.pc = "adopt" /\ lock'.gen = generation /\ lock'.ix = index
            /\ generation # 0 /\ UNCHANGED <<log, made, copy, writer>>
  BY AdoptReadTypes DEF CopyInv
<1>2. CASE Alone(w, WriterIdle) /\ UNCHANGED <<log, made, copy, lock>>
  BY <1>1, <1>2, IdleFacts, NoRefsFacts, WriterKeeps
<1>3. CASE /\ lock'.pc = "adopt" /\ lock'.gen = generation /\ lock'.ix = index
           /\ generation # 0 /\ UNCHANGED <<log, made, copy, writer>>
  <2>1. CopySound /\ generation \in Nat
    BY <1>1, SoundFacts DEF TypeInv, LogOK
  <2>2. StateCurrent' /\ QuarantinesFit' /\ CopySound'
    BY <1>3, <2>1 DEF CopyInv, StateCurrent, QuarantinesFit, CopySound, log
  <2>3. LockCurrent' /\ ListedThere'
    BY <1>3, <2>1 DEF LockCurrent, ListedThere, log
  <2>4. QED
    BY <1>1, <2>2, <2>3 DEF CopyInv
<1>4. QED
  BY <1>1, <1>2, <1>3

\* What is stamped was there already: the refs on disk are those of the index.
LEMMA AdoptStampKeeps ==
    ASSUME CopyInv, AdoptStamp
    PROVE  CopyInv'
<1>1. /\ TypeInv /\ TypeInv' /\ lock.pc = "adopt" /\ lock.who \in Local
      /\ lock' = LockFree /\ Alone(lock.who, WriterIdle) /\ UNCHANGED <<log, made>>
      /\ \/ UNCHANGED copy
         \/ /\ copy.bare /\ copy.refs = lock.ix.refs
            /\ copy'.state = StateOf(lock.gen, lock.ix)
            /\ copy'.objs = copy.objs /\ copy'.refs = copy.refs /\ copy'.bare = copy.bare
            /\ copy'.absent = copy.absent
  BY AdoptStampTypes DEF CopyInv
<1>2. CopySound /\ lock.gen <= generation /\ (lock.gen = generation => lock.ix = index)
  BY <1>1, SoundFacts DEF CopyInv, LockCurrent
<1>3. StateOf(lock.gen, lock.ix).gen = lock.gen /\ StateOf(lock.gen, lock.ix).refs = lock.ix.refs
  BY StateOfFacts
<1>4. CopySound' /\ StateCurrent'
  <2>1. CASE UNCHANGED copy
    BY <1>1, <1>2, <2>1 DEF CopyInv, CopySound, StateCurrent, log
  <2>2. CASE /\ copy.bare /\ copy.refs = lock.ix.refs
             /\ copy'.state = StateOf(lock.gen, lock.ix)
             /\ copy'.objs = copy.objs /\ copy'.refs = copy.refs /\ copy'.bare = copy.bare
             /\ copy'.absent = copy.absent
    BY <1>1, <1>2, <1>3, <2>2 DEF CopySound, StateCurrent, log
  <2>3. QED
    BY <1>1, <2>1, <2>2
<1>5. copy.objs \subseteq copy'.objs /\ WriterIdle.quar = {}
  BY <1>1, IdleFacts
<1>6. QuarantinesFit'
  BY <1>1, <1>5, QuarantinesStay, NoRefsFacts DEF QuarantinesFit
<1>7. LockCurrent' /\ ListedThere'
  BY <1>1 DEF LockFree, LockCurrent, ListedThere
<1>8. QED
  BY <1>1, <1>4, <1>6, <1>7 DEF CopyInv

\* A rollback goes to a tip the state file names, to none, or nowhere.  Only the
\* rollback of a deletion names an object that need not be there, and notes it.
LEMMA ResetKeeps ==
    ASSUME CopyInv, NEW w \in Local, Reset(w)
    PROVE  CopyInv'
<1>1. TypeInv /\ TypeInv' /\ \E q : RolledBack(w, q)
  BY ResetTypes DEF CopyInv
<1>2. PICK q : RolledBack(w, q)
  BY <1>1
<1> DEFINE r == RefOf(w)
<1>3. /\ writer[w].pc = "reset" /\ Alone(w, q) /\ q.quar = {} /\ UNCHANGED <<log, lock>>
      /\ copy'.objs = copy.objs /\ copy'.state = copy.state /\ copy'.bare = copy.bare
      /\ RolledBackTo(w)
  BY <1>2 DEF RolledBack
<1>4. CopySound /\ copy.refs \in RefMap /\ copy.state.refs \in RefMap /\ r \in Refs
  BY <1>1, <1>3, SoundFacts, RefOfFacts DEF TypeInv
<1>5. ASSUME NEW v, copy'.refs = [copy.refs EXCEPT ![r] = v],
             copy.absent \subseteq copy'.absent,
             v # NoCommit => v \in copy.objs \cup copy'.absent
      PROVE  CopySound'
  <2>1. \A t \in Tips(copy'.refs) : t \in Tips(copy.refs) \/ (t = v /\ v # NoCommit)
    BY <1>4, <1>5 DEF Tips, RefMap
  <2>2. QED
    BY <1>3, <1>4, <1>5, <2>1 DEF CopySound
<1>6. copy.state.refs[r] # NoCommit => copy.state.refs[r] \in copy.objs \cup copy.absent
  BY <1>4 DEF CopySound, Tips
<1>7. CopySound' /\ copy.absent \subseteq copy'.absent /\ (~copy.bare => UNCHANGED copy)
  <2>1. CASE UNCHANGED copy
    BY <1>4, <2>1 DEF CopySound
  <2>2. CASE /\ copy.bare /\ copy'.absent = copy.absent
             /\ \/ copy'.refs = [copy.refs EXCEPT ![r] = copy.state.refs[r]]
                \/ copy'.refs = [copy.refs EXCEPT ![r] = NoCommit]
    BY <1>5, <1>6, <2>2
  <2>3. CASE /\ copy.bare /\ copy'.refs = [copy.refs EXCEPT ![r] = OldOf(w)]
             /\ copy'.absent = copy.absent \cup ({OldOf(w)} \ copy.objs)
    BY <1>5, <2>3
  <2>4. QED
    BY <1>3, <2>1, <2>2, <2>3 DEF RolledBackTo
<1>8. \A u \in Local : ReachAll(writer'[u].quar) \subseteq writer'[u].quar \cup copy'.objs
  BY <1>3, QuarantinesStay, NoRefsFacts
<1>9. QED
  BY <1>1, <1>3, <1>7, <1>8, NearKeeps

\* A copy is evicted only when no request is at work, so no quarantine goes with it.
LEMMA EvictKeeps ==
    ASSUME CopyInv, Evict
    PROVE  CopyInv'
<1>1. /\ TypeInv /\ TypeInv' /\ copy' = Gone /\ lock'.pc = "free"
      /\ writer' = writer /\ \A w \in Local : writer[w].pc = "idle"
  BY EvictTypes DEF CopyInv, Evict, IsFree
<1>2. \A w \in Local : writer'[w].quar = {}
  <2> SUFFICES ASSUME NEW w \in Local PROVE writer[w].quar = {}
    BY <1>1
  <2>1. WriterOK(w, writer[w])
    BY <1>1, ShapeFacts
  <2>2. QED
    BY <1>1, <2>1 DEF WriterOK
<1>3. QED
  BY <1>1, <1>2, BlankKeeps

\* Debris is rebuilt: nothing says that any pack was applied to it.
LEMMA DebrisRebuilt ==
    ASSUME CopyInv, lock.pc = "recreate", copy' \in Debris, UNCHANGED log
    PROVE  /\ Rebuilds(copy, index)' /\ copy'.bare /\ generation # 0
           /\ (copy'.state = copy.state \/ copy'.state = NoState)
<1>1. copy'.bare /\ (copy'.state = copy.state \/ copy'.state = NoState)
  BY DebrisFacts DEF CopyInv
<1>2. Rebuilds(copy, index) /\ generation # 0 /\ NoState.gen = 0
  <2>1. lock.gen # 0 /\ lock.gen <= generation /\ Rebuilds(copy, index)
    BY DEF CopyInv, LockCurrent
  <2>2. lock.gen \in Nat /\ generation \in Nat
    BY ShapeFacts DEF CopyInv, TypeInv, LogOK
  <2>3. QED
    BY <2>1, <2>2 DEF NoState
<1>3. ~copy.bare => copy.state.gen = 0
  BY DEF CopyInv, StateCurrent, Gone, NoState
<1>4. Rebuilds(copy, index)'
  BY <1>1, <1>2, <1>3 DEF Rebuilds, log
<1>5. QED
  BY <1>1, <1>2, <1>4

\* After a crash the copy is gone, as sound as it was, or debris to be rebuilt.
LEMMA CrashKeeps ==
    ASSUME CopyInv, Crash
    PROVE  CopyInv'
<1>1. TypeInv /\ TypeInv' /\ Crashed
  BY CrashTypes DEF CopyInv
<1>2. /\ lock'.pc = "free" /\ UNCHANGED <<log, made>>
      /\ \A w \in Local : writer'[w].quar = {} /\ writer'[w].pc = "idle"
  <2>1. lock' = LockFree /\ \A w \in Local : writer'[w] = WriterIdle
    BY <1>1 DEF Crashed
  <2>2. QED
    BY <1>1, <2>1, IdleFacts DEF Crashed, LockFree
<1>3. QuarantinesFit' /\ LockCurrent' /\ ListedThere'
  BY <1>2, NoRefsFacts DEF QuarantinesFit, LockCurrent, ListedThere
<1>4. CASE copy' = Gone
  BY <1>1, <1>2, <1>4, BlankKeeps
<1>5. CASE UNCHANGED copy
  <2>1. StateCurrent'
    BY <1>2, <1>5 DEF CopyInv, StateCurrent, log
  <2>2. CASE CopySound
    <3>1. CopySound'
      BY <1>5, <2>2 DEF CopySound
    <3>2. QED
      BY <1>1, <1>3, <2>1, <3>1 DEF CopyInv
  <2>3. CASE CutShort
    <3>1. CutShort'
      BY <1>2, <1>5, <2>3 DEF CutShort, Rebuilds, log
    <3>2. QED
      BY <1>1, <1>3, <2>1, <3>1 DEF CopyInv
  <2>4. QED
    BY <2>2, <2>3 DEF CopyInv
<1>6. CASE copy' \in Debris /\ lock.pc = "recreate"
  <2>1. /\ Rebuilds(copy, index)' /\ copy'.bare /\ generation # 0 /\ NoState.gen = 0
        /\ (copy'.state = copy.state \/ copy'.state = NoState)
    BY <1>2, <1>6, DebrisRebuilt DEF NoState
  <2>2. generation \in Nat
    BY <1>1 DEF TypeInv, LogOK
  <2>5. StateCurrent'
    BY <1>2, <2>1, <2>2 DEF CopyInv, StateCurrent, log
  <2>6. CutShort'
    BY <1>2, <2>1 DEF CutShort, log
  <2>7. QED
    BY <1>1, <1>3, <2>5, <2>6 DEF CopyInv
<1>7. QED
  BY <1>1, <1>4, <1>5, <1>6 DEF Crashed

\* An empty copy, or none, to begin with.
LEMMA InitCopy == ASSUME Init PROVE CopyInv
<1>1. TypeInv /\ lock.pc = "free" /\ (copy = Bare \/ copy = Gone)
      /\ \A w \in Local : writer[w].quar = {}
  BY InitTypes, IdleFacts DEF Init, LockFree
<1>2. /\ copy.objs = {} /\ copy.refs = NoRefs /\ copy.state = NoState
      /\ (~copy.bare => copy = Gone)
  BY <1>1 DEF Bare, Gone
<1>3. NoState.refs = NoRefs /\ NoState.gen = 0
  BY DEF NoState
<1>4. CopySound
  BY <1>2, <1>3, NoRefsFacts DEF CopySound
<1>5. StateCurrent
  BY <1>1, <1>2, <1>3 DEF StateCurrent, TypeInv, LogOK
<1>6. LockCurrent /\ QuarantinesFit /\ ListedThere
  BY <1>1, NoRefsFacts DEF LockCurrent, QuarantinesFit, ListedThere
<1>7. QED
  BY <1>1, <1>4, <1>5, <1>6 DEF CopyInv

\* Every step keeps the copy sound.
LEMMA NextCopy ==
    ASSUME CopyInv, [Next]_vars
    PROVE  CopyInv'
<1>1. ASSUME NEW who \in Local \cup {Reader}, EnsureHit(who) \/ EnsureAlarm(who) \/ MatBegin(who)
      PROVE  CopyInv'
  BY <1>1, EnsureKeeps, MatBeginKeeps
<1>2. CASE Materialising \/ AdoptStamp
  BY <1>2, MatRecreateKeeps, MatApplyKeeps, MatDeleteKeeps, MatUpdateKeeps, MatStampKeeps,
     MatFaultKeeps, AdoptStampKeeps DEF Materialising
<1>3. ASSUME NEW w \in Local, Ask(w) \/ Opened(w) \/ Finishing(w)
      PROVE  CopyInv'
  BY <1>3, RequestKeeps, CommitKeeps, BranchKeeps, ReceiveKeeps, MoveKeeps,
     MoveFailsKeeps, AdoptReadKeeps, ResetKeeps DEF Opened, Finishing
<1>4. ASSUME NEW w \in Local \cup Remote, Pushing(w)
      PROVE  CopyInv'
  BY <1>4, PushingKeepsCopy
<1>5. ASSUME NEW w \in Remote, AskElsewhere(w)
      PROVE  CopyInv'
  BY <1>5, AskElsewhereKeeps
<1>6. CASE Compact \/ Evict \/ Crash
  BY <1>6, CompactKeepsCopy, EvictKeeps, CrashKeeps
<1>7. CASE UNCHANGED vars
  <2>1. TypeInv'
    BY NextTypes DEF CopyInv
  <2>2. QED
    BY <1>7, <2>1, AfarKeeps DEF vars, log, CopyInv, QuarantinesFit, CutShort
<1>8. QED
  BY <1>1, <1>2, <1>3, <1>4, <1>5, <1>6, <1>7 DEF Next

\* What keeps the copy whole holds throughout.
THEOREM CopyInductive == Spec => []CopyInv
<1>1. Init => CopyInv
  BY InitCopy
<1>2. CopyInv /\ [Next]_vars => CopyInv'
  BY NextCopy
<1>3. QED
  BY <1>1, <1>2, PTL DEF Spec

\* Materialisations under the lock, receive-packs without it, rollbacks, faults
\* and crashes never leave a copy that would be continued with a ref that reaches
\* an object it lacks, however many requests there are: but for the commits that
\* a creation, or an undone deletion, set a ref to while they were not there.
THEOREM CopyStaysIntact == Spec => []CopyIntact
<1>1. CopyInv => CopyIntact
  <2> SUFFICES ASSUME CopyInv, ~Rebuilds(copy, index)
               PROVE  ReachAll(Tips(copy.refs) \ copy.absent) \subseteq copy.objs
    BY DEF CopyIntact
  <2>1. CopySound /\ copy.objs \in SUBSET Commits /\ copy.refs \in RefMap
    BY SoundFacts
  <2> DEFINE tips == Tips(copy.refs) \ copy.absent
  <2>2. tips \in SUBSET Commits /\ tips \subseteq copy.objs
    BY <2>1, TipsFacts DEF CopySound
  <2> HIDE DEF tips
  <2>3. ReachAll(tips) \subseteq ReachAll(copy.objs)
    BY <2>1, <2>2, ClosureFacts
  <2>4. QED
    BY <2>1, <2>3 DEF CopySound, tips
<1>2. QED
  BY <1>1, CopyInductive, PTL

(***************************************************************************)
(* Catching up pack by pack                                                *)
(***************************************************************************)

\* What a sequence of packs carries.
Carried(packs, seq) == UNION {packs[p] : p \in Members(seq)}

\* Each pack of a sequence builds on objs and on what came before it.
Linked(packs, seq, objs) ==
    \A k \in 1..Len(seq) :
        ReachAll(packs[seq[k]]) \subseteq objs \cup UNION {packs[seq[i]] : i \in 1..k}

\* From objs, the packs of a sequence can be applied in order, and bring all that
\* refs reach.
Resumes(packs, refs, objs, seq) ==
    /\ Linked(packs, seq, objs)
    /\ ReachAll(Tips(refs)) \subseteq objs \cup Carried(packs, seq)

\* A log that can be applied from nothing.
HistoriesLinked ==
    \A h \in Histories : Linked(h.content, ApplyOrder(h.index), {})

\* Whether an index is a continuation of an earlier one.
Continues(ix) == index.base = ix.base /\ HasPrefix(index.entries, ix.entries)

\* What a copy that has been brought to an earlier index fetches then.
Rest(ix) == Beyond(index.entries, Len(ix.entries))

\* The log can be applied to nothing, and to a copy that is continued.
LogApplies == Resumes(content, index.refs, {}, ApplyOrder(index))
CopyResumes ==
    ~Rebuilds(copy, index) =>
        Resumes(content, index.refs, copy.objs,
                Beyond(index.entries, Len(copy.state.applied)))

\* The objects a materialisation starts from.
Start == IF lock.pc = "recreate" THEN {} ELSE copy.objs

\* What a materialisation has left can be applied, and what the log holds by
\* then can be applied after it.
TodoApplies ==
    lock.pc \in {"recreate", "apply", "update", "stamp"} =>
        /\ Linked(content, lock.todo, Start)
        /\ Continues(lock.ix) =>
            Resumes(content, index.refs, Start \cup Carried(content, lock.todo), Rest(lock.ix))
        /\ lock.pc \in {"update", "stamp"} => lock.todo = <<>>

\* What the refs an adoption read reach is enough to go on from.
AdoptedResumes ==
    (lock.pc = "adopt" /\ Continues(lock.ix)) =>
        Resumes(content, index.refs, ReachAll(Tips(lock.ix.refs)), Rest(lock.ix))

\* No write in flight takes a commit away from a ref.
Forward(q) ==
    \A r \in q.upd.touch :
        /\ q.upd.new[r] # NoCommit
        /\ q.upd.old[r] # NoCommit => q.upd.old[r] \in Reach[q.upd.new[r]]

\* So what a pack leaves out stays reachable from the refs.
WritersForward ==
    \A w \in Local \cup Remote :
        /\ writer[w].pc \in {"plan", "publish"} => Forward(writer[w])
        /\ writer[w].pc = "publish" =>
            ReachAll(writer[w].exclude) \subseteq ReachAll(Tips(index.refs))

\* Why the packs a copy lacks can be applied to it in order.
CatchUpInv ==
    /\ LogApplies
    /\ CopyResumes
    /\ TodoApplies
    /\ AdoptedResumes
    /\ WritersForward

\* Sequences of packs, as the proofs need them.
LEMMA LinkedMore ==
    ASSUME NEW packs, NEW seq, NEW objs, NEW more, objs \subseteq more, Linked(packs, seq, objs)
    PROVE  Linked(packs, seq, more)
BY DEF Linked

\* No packs need nothing.
LEMMA NothingLinked ==
    ASSUME NEW packs, NEW objs
    PROVE  Linked(packs, <<>>, objs) /\ Carried(packs, <<>>) = {}
BY DEF Linked, Carried, Members

\* Packs that are what they were.
Unchanged(later, packs, known) == \A p \in known : later[p] = packs[p]

\* Packs uploaded later do not change what earlier ones carry.
LEMMA LinkedKept ==
    ASSUME NEW packs, NEW later, NEW known, NEW seq \in Seq(Pack), Members(seq) \subseteq known,
           Unchanged(later, packs, known)
    PROVE  /\ Carried(later, seq) = Carried(packs, seq)
           /\ \A objs : Linked(packs, seq, objs) => Linked(later, seq, objs)
<1>1. \A i \in 1..Len(seq) : later[seq[i]] = packs[seq[i]]
  BY DEF Members, Unchanged
<1>2. Carried(later, seq) = Carried(packs, seq)
  BY <1>1 DEF Carried, Members
<1>3. ASSUME NEW objs, Linked(packs, seq, objs), NEW k \in 1..Len(seq)
      PROVE  ReachAll(later[seq[k]]) \subseteq objs \cup UNION {later[seq[i]] : i \in 1..k}
  <2>1. \A i \in 1..k : later[seq[i]] = packs[seq[i]]
    BY <1>1
  <2>2. UNION {packs[seq[i]] : i \in 1..k} \subseteq UNION {later[seq[i]] : i \in 1..k}
    BY <2>1
  <2>3. ReachAll(packs[seq[k]]) \subseteq objs \cup UNION {packs[seq[i]] : i \in 1..k}
    BY <1>3 DEF Linked
  <2>4. QED
    BY <1>1, <2>2, <2>3
<1>4. QED
  BY <1>2, <1>3 DEF Linked

\* The first pack builds on what is there, the rest on that and the first.
LEMMA LinkedTail ==
    ASSUME NEW packs, NEW objs, NEW seq \in Seq(Pack), seq # <<>>, Linked(packs, seq, objs)
    PROVE  /\ ReachAll(packs[Head(seq)]) \subseteq objs \cup packs[Head(seq)]
           /\ Linked(packs, Tail(seq), objs \cup packs[Head(seq)])
           /\ Carried(packs, seq) = packs[Head(seq)] \cup Carried(packs, Tail(seq))
<1>1. /\ Head(seq) = seq[1] /\ 1 \in 1..Len(seq)
      /\ Len(seq) \in Nat /\ Len(Tail(seq)) = Len(seq) - 1
      /\ \A i \in 1..Len(Tail(seq)) : Tail(seq)[i] = seq[i + 1]
  OBVIOUS
<1>2. ReachAll(packs[Head(seq)]) \subseteq objs \cup packs[Head(seq)]
  <2>1. ReachAll(packs[seq[1]]) \subseteq objs \cup UNION {packs[seq[i]] : i \in 1..1}
    BY <1>1 DEF Linked
  <2>2. 1..1 = {1}
    OBVIOUS
  <2>3. UNION {packs[seq[i]] : i \in 1..1} \subseteq packs[seq[1]]
    BY <2>2
  <2>4. QED
    BY <1>1, <2>1, <2>3
<1>3. ASSUME NEW k \in 1..Len(Tail(seq))
      PROVE  ReachAll(packs[Tail(seq)[k]])
                \subseteq (objs \cup packs[Head(seq)]) \cup UNION {packs[Tail(seq)[i]] : i \in 1..k}
  <2>1. k + 1 \in 1..Len(seq) /\ Tail(seq)[k] = seq[k + 1]
    BY <1>1
  <2>2. ReachAll(packs[seq[k + 1]]) \subseteq objs \cup UNION {packs[seq[i]] : i \in 1..(k + 1)}
    BY <2>1 DEF Linked
  <2>3. \A i \in 1..(k + 1) : i = 1 \/ (i - 1 \in 1..k /\ seq[i] = Tail(seq)[i - 1])
    <3> SUFFICES ASSUME NEW i \in 1..(k + 1), i # 1
                 PROVE  i - 1 \in 1..k /\ seq[i] = Tail(seq)[i - 1]
      OBVIOUS
    <3>1. i - 1 \in 1..k /\ i - 1 \in 1..Len(Tail(seq)) /\ (i - 1) + 1 = i
      BY <1>1
    <3>2. QED
      BY <1>1, <3>1
  <2>4. UNION {packs[seq[i]] : i \in 1..(k + 1)}
            \subseteq packs[seq[1]] \cup UNION {packs[Tail(seq)[i]] : i \in 1..k}
    BY <2>3
  <2>5. QED
    BY <1>1, <2>1, <2>2, <2>4
<1>4. Members(seq) = {Head(seq)} \cup Members(Tail(seq))
  <2>1. ASSUME NEW i \in 1..Len(seq) PROVE seq[i] = Head(seq) \/ seq[i] \in Members(Tail(seq))
    <3>1. CASE i = 1
      BY <1>1, <3>1
    <3>2. CASE i # 1
      <4>1. i - 1 \in 1..Len(Tail(seq)) /\ (i - 1) + 1 = i
        BY <1>1, <3>2
      <4>2. Tail(seq)[i - 1] = seq[i]
        BY <1>1, <4>1
      <4>3. QED
        BY <4>1, <4>2 DEF Members
    <3>3. QED
      BY <3>1, <3>2
  <2>2. ASSUME NEW i \in 1..Len(Tail(seq)) PROVE Tail(seq)[i] \in Members(seq)
    <3>1. i + 1 \in 1..Len(seq) /\ Tail(seq)[i] = seq[i + 1]
      BY <1>1
    <3>2. QED
      BY <3>1 DEF Members
  <2>3. Head(seq) \in Members(seq)
    BY <1>1 DEF Members
  <2>4. QED
    BY <2>1, <2>2, <2>3 DEF Members
<1>5. QED
  BY <1>2, <1>3, <1>4 DEF Linked, Carried

\* A pack that builds on what the others carry can be added to them.
LEMMA LinkedAppend ==
    ASSUME NEW packs, NEW objs, NEW seq \in Seq(Pack), NEW p \in Pack, Linked(packs, seq, objs),
           ReachAll(packs[p]) \subseteq objs \cup Carried(packs, seq) \cup packs[p]
    PROVE  /\ Linked(packs, Append(seq, p), objs)
           /\ Carried(packs, Append(seq, p)) = Carried(packs, seq) \cup packs[p]
<1> DEFINE s == Append(seq, p)
           n == Len(seq) + 1
<1>1. /\ Len(seq) \in Nat /\ Len(s) = n
      /\ \A i \in 1..Len(seq) : s[i] = seq[i]
      /\ s[n] = p
  BY AppendFacts
<1> HIDE DEF s
<1>2. n \in 1..n /\ n \in Nat
  BY <1>1
<1>3. Members(s) = Members(seq) \cup {p}
  <2>1. ASSUME NEW i \in 1..Len(s) PROVE s[i] \in Members(seq) \cup {p}
    <3>1. CASE i = n
      BY <1>1, <3>1
    <3>2. CASE i # n
      BY <1>1, <3>2 DEF Members
    <3>3. QED
      BY <3>1, <3>2
  <2>2. Members(seq) \subseteq Members(s)
    BY <1>1 DEF Members
  <2>3. p \in Members(s)
    BY <1>1, <1>2 DEF Members
  <2>4. QED
    BY <2>1, <2>2, <2>3 DEF Members
<1>4. Carried(packs, s) = Carried(packs, seq) \cup packs[p]
  BY <1>3 DEF Carried
<1>5. ASSUME NEW k \in 1..Len(s)
      PROVE  ReachAll(packs[s[k]]) \subseteq objs \cup UNION {packs[s[i]] : i \in 1..k}
  <2>1. CASE k \in 1..Len(seq)
    <3>1. \A i \in 1..k : s[i] = seq[i]
      BY <1>1, <2>1
    <3>2. UNION {packs[seq[i]] : i \in 1..k} \subseteq UNION {packs[s[i]] : i \in 1..k}
      BY <3>1
    <3>3. ReachAll(packs[seq[k]]) \subseteq objs \cup UNION {packs[seq[i]] : i \in 1..k}
      BY <2>1 DEF Linked
    <3>4. QED
      BY <1>1, <2>1, <3>2, <3>3
  <2>2. CASE k = n
    <3>1. Carried(packs, s) \subseteq UNION {packs[s[i]] : i \in 1..k}
      BY <1>1, <2>2 DEF Carried, Members
    <3>2. QED
      BY <1>1, <1>4, <2>2, <3>1
  <2>3. QED
    BY <1>1, <2>1, <2>2
<1>6. QED
  BY <1>4, <1>5 DEF Linked, s

\* What is beyond all of an order is nothing, and one more pack is one more beyond.
LEMMA BeyondAll ==
    ASSUME NEW seq \in Seq(Pack)
    PROVE  Beyond(seq, Len(seq)) = <<>>
<1>1. Len(seq) + 1 \in Int /\ Len(seq) \in Int /\ Len(seq) < Len(seq) + 1
  OBVIOUS
<1>2. QED
  BY <1>1, SubSeqEmpty DEF Beyond

\* A pack appended to an order is one more to fetch.
LEMMA BeyondAppend ==
    ASSUME NEW seq \in Seq(Pack), NEW m \in 0..Len(seq), NEW p \in Pack
    PROVE  Beyond(Append(seq, p), m) = Append(Beyond(seq, m), p)
<1> DEFINE s == Append(seq, p)
           b == Beyond(seq, m)
           t == Append(b, p)
           u == Beyond(s, m)
           n == Len(seq)
<1>1. /\ n \in Nat /\ m \in Nat /\ m <= n
      /\ s \in Seq(Pack) /\ Len(s) = n + 1
      /\ \A i \in 1..n : s[i] = seq[i]
      /\ s[n + 1] = p
  BY AppendFacts
<1>2. m \in 0..Len(s)
  BY <1>1
<1> HIDE DEF s, n
<1>3. /\ b \in Seq(Pack) /\ Len(b) = n - m
      /\ \A i \in 1..(n - m) : b[i] = seq[m + i]
  BY BeyondFacts DEF n
<1>4. /\ u \in Seq(Pack) /\ Len(u) = n + 1 - m
      /\ \A i \in 1..(n + 1 - m) : u[i] = s[m + i]
  <2>1. /\ u \in Seq(Pack) /\ Len(u) = Len(s) - m
        /\ \A i \in 1..(Len(s) - m) : u[i] = s[m + i]
    BY <1>1, <1>2, BeyondFacts
  <2>2. Len(s) - m = n + 1 - m
    BY <1>1
  <2>3. QED
    BY <2>1, <2>2
<1> HIDE DEF b, u
<1>5. /\ t \in Seq(Pack) /\ Len(t) = n - m + 1
      /\ \A i \in 1..(n - m) : t[i] = b[i]
      /\ t[n - m + 1] = p
  BY <1>3, AppendFacts
<1> HIDE DEF t
<1>6. Len(u) = Len(t)
  BY <1>1, <1>4, <1>5
<1>7. ASSUME NEW i \in 1..Len(u) PROVE u[i] = t[i]
  <2>1. CASE i \in 1..(n - m)
    <3>1. m + i \in 1..n /\ i \in 1..(n + 1 - m)
      BY <1>1, <2>1
    <3>2. QED
      BY <1>1, <1>3, <1>4, <1>5, <2>1, <3>1
  <2>2. CASE i = n - m + 1
    <3>1. m + i = n + 1 /\ i \in 1..(n + 1 - m)
      BY <1>1, <2>2
    <3>2. QED
      BY <1>1, <1>4, <1>5, <2>2, <3>1
  <2>3. i \in 1..(n - m) \/ i = n - m + 1
    BY <1>1, <1>4
  <2>4. QED
    BY <2>1, <2>2, <2>3
<1>8. u = t
  BY <1>4, <1>5, <1>6, <1>7, SeqEqual
<1>9. QED
  BY <1>8 DEF u, t, s, b

\* A materialisation from nothing fetches a new entry last.
LEMMA ApplyOrderAppend ==
    ASSUME NEW ix \in Index, NEW nx \in Index, NEW p \in Pack,
           nx.base = ix.base, nx.entries = Append(ix.entries, p)
    PROVE  ApplyOrder(nx) = Append(ApplyOrder(ix), p)
<1>1. ix.base \in Nat /\ ix.entries \in Seq(Pack)
  BY DEF Index
<1>2. CASE ix.base = NoPack
  BY <1>1, <1>2 DEF ApplyOrder
<1>3. CASE ix.base # NoPack
  <2> DEFINE one == <<ix.base>>
             e == ix.entries
  <2>1. one \in Seq(Pack)
    BY <1>1, <1>3 DEF Pack, NoPack
  <2>2. ApplyOrder(nx) = one \o Append(e, p) /\ ApplyOrder(ix) = one \o e
    BY <1>3 DEF ApplyOrder
  <2> HIDE DEF one, e
  <2>3. e \in Seq(Pack)
    BY <1>1 DEF e
  <2>4. one \o Append(e, p) = Append(one \o e, p)
    <3>1. <<p>> \in Seq(Pack)
      OBVIOUS
    <3>2. Append(e, p) = e \o <<p>>
      BY <2>3, AppendIsConcat
    <3>3. one \o e \in Seq(Pack)
      BY <2>1, <2>3
    <3>4. Append(one \o e, p) = (one \o e) \o <<p>>
      BY <3>3, AppendIsConcat
    <3>5. (one \o e) \o <<p>> = one \o (e \o <<p>>)
      BY <2>1, <2>3, <3>1, ConcatAssociative
    <3>6. QED
      BY <3>2, <3>4, <3>5
  <2>5. QED
    BY <2>2, <2>4
<1>4. QED
  BY <1>2, <1>3

\* The entries of an index are among the packs it names.
LEMMA EntriesFacts ==
    ASSUME NEW ix \in Index
    PROVE  ix.entries \in Seq(Pack) /\ Members(ix.entries) \subseteq Names(ix)
<1>1. ix.entries \in Seq(Pack)
  BY DEF Index
<1>2. NoPack \notin Members(ix.entries)
  BY <1>1 DEF Members, Pack, NoPack
<1>3. QED
  BY <1>1, <1>2 DEF Names

(***************************************************************************)
(* A push lands                                                            *)
(***************************************************************************)

\* A sequence of packs that ends where the log does, once a push has landed.
Extended(q, seq) ==
    IF PackObjects(Want(q.upd), q.exclude) = {} THEN seq ELSE Append(seq, Len(content) + 1)

\* The orders of a log after a write has landed.
LEMMA ExtendedFacts ==
    ASSUME LogOK, LogGrows, NEW q \in WriterState, Landed(q)
    PROVE  /\ index'.base = index.base
           /\ index'.entries = Extended(q, index.entries)
           /\ ApplyOrder(index') = Extended(q, ApplyOrder(index))
           /\ \A m \in 0..Len(index.entries) :
                Beyond(index'.entries, m) = Extended(q, Beyond(index.entries, m))
<1> DEFINE pack == PackObjects(Want(q.upd), q.exclude)
           p == Len(content) + 1
<1>1. index \in Index /\ index' \in Index /\ index.entries \in Seq(Pack) /\ Len(content) \in Nat
  BY EntriesFacts DEF LogOK, LogGrows
<1>2. p \in Pack
  BY <1>1 DEF Pack
<1>3. /\ index'.base = index.base
      /\ \/ pack = {} /\ index'.entries = index.entries
         \/ pack # {} /\ index'.entries = Append(index.entries, p)
  BY DEF Landed
<1>4. \A seq : Extended(q, seq) = IF pack = {} THEN seq ELSE Append(seq, p)
  BY DEF Extended
<1> HIDE DEF pack, p
<1>5. CASE pack = {} /\ index'.entries = index.entries
  <2>1. ApplyOrder(index') = ApplyOrder(index)
    BY <1>3, <1>5 DEF ApplyOrder
  <2>2. QED
    BY <1>3, <1>4, <1>5, <2>1
<1>6. CASE pack # {} /\ index'.entries = Append(index.entries, p)
  BY <1>1, <1>2, <1>3, <1>4, <1>6, ApplyOrderAppend, BeyondAppend
<1>7. QED
  BY <1>3, <1>5, <1>6

\* What could be applied before a push landed can be after, the new pack last:
\* what it leaves out, the refs reached.
LEMMA LandedResumes ==
    ASSUME LogOK, LogGrows, NEW q \in WriterState, Landed(q),
           ReachAll(q.exclude) \subseteq ReachAll(Tips(index.refs)),
           NEW seq \in Seq(Pack), Members(seq) \subseteq Packs,
           NEW objs, Resumes(content, index.refs, objs, seq)
    PROVE  Resumes(content', index'.refs, objs, Extended(q, seq))
<1> DEFINE want == Want(q.upd)
           pack == PackObjects(want, q.exclude)
           p == Len(content) + 1
           all == ReachAll(Tips(index.refs))
<1>1. /\ index.refs \in RefMap /\ q.upd \in Update /\ q.exclude \in SUBSET Commits
      /\ Len(content) \in Nat
  BY DEF LogOK, Index, WriterState
<1>2. /\ want \in SUBSET Commits
      /\ Tips(index'.refs) \subseteq Tips(index.refs) \cup want
      /\ Tips(index'.refs) \in SUBSET Commits
      /\ Tips(index.refs) \in SUBSET Commits
  <2>1. index'.refs = UpdatedRefs(index.refs, q.upd)
    BY DEF Landed
  <2>2. QED
    BY <1>1, <2>1, UpdateFacts, TipsFacts
<1>3. pack = ReachAll(want) \ ReachAll(q.exclude)
  BY DEF PackObjects
<1>4. ReachAll(want) \subseteq pack \cup all
  BY <1>3
<1>5. ReachAll(pack) \subseteq pack \cup all
  <2>1. ReachAll(want) \in SUBSET Commits /\ ReachAll(ReachAll(want)) \subseteq ReachAll(want)
    BY <1>2, ClosureFacts
  <2>2. pack \in SUBSET Commits /\ pack \subseteq ReachAll(want)
    BY <1>3, <2>1
  <2>3. ReachAll(pack) \subseteq ReachAll(ReachAll(want))
    BY <2>1, <2>2, ClosureFacts
  <2>4. QED
    BY <1>4, <2>1, <2>3
<1>6. ReachAll(Tips(index'.refs)) \subseteq all \cup ReachAll(want)
  <2>1. Tips(index.refs) \cup want \in SUBSET Commits
    BY <1>2
  <2>2. ReachAll(Tips(index'.refs)) \subseteq ReachAll(Tips(index.refs) \cup want)
    BY <1>2, <2>1, ReachAllFacts
  <2>3. ReachAll(Tips(index.refs) \cup want) = ReachAll(Tips(index.refs)) \cup ReachAll(want)
    BY <1>2, ClosureFacts
  <2>4. QED
    BY <2>2, <2>3
<1>7. Linked(content, seq, objs) /\ all \subseteq objs \cup Carried(content, seq)
  BY DEF Resumes
<1>8. \/ pack = {} /\ content' = content
      \/ pack # {} /\ content'[p] = pack
  BY DEF Landed
<1>9. p \in Pack /\ \A i \in Packs : content'[i] = content[i]
  BY <1>1 DEF Pack, LogGrows
<1>10. Extended(q, seq) = IF pack = {} THEN seq ELSE Append(seq, p)
  BY DEF Extended
<1> HIDE DEF want, pack, p, all
<1>11. CASE pack = {} /\ content' = content
  BY <1>4, <1>6, <1>7, <1>10, <1>11 DEF Resumes
<1>12. CASE pack # {} /\ content'[p] = pack
  <2>1. Linked(content', seq, objs) /\ Carried(content', seq) = Carried(content, seq)
    <3>1. Unchanged(content', content, Packs)
      BY <1>9 DEF Unchanged
    <3>2. Carried(content', seq) = Carried(content, seq)
          /\ \A os : Linked(content, seq, os) => Linked(content', seq, os)
      BY <3>1, LinkedKept
    <3>3. QED
      BY <1>7, <3>2
  <2>2. ReachAll(content'[p]) \subseteq objs \cup Carried(content', seq) \cup content'[p]
    BY <1>5, <1>7, <1>12, <2>1
  <2>3. /\ Linked(content', Append(seq, p), objs)
        /\ Carried(content', Append(seq, p)) = Carried(content', seq) \cup content'[p]
    BY <1>9, <2>1, <2>2, LinkedAppend
  <2>4. QED
    BY <1>4, <1>6, <1>7, <1>10, <1>12, <2>1, <2>3 DEF Resumes
<1>13. QED
  BY <1>8, <1>11, <1>12

\* A push that only goes forward keeps all the refs reached.
LEMMA ForwardFacts ==
    ASSUME NEW refs \in RefMap, NEW q \in WriterState, Forward(q),
           CheckPreconditions(refs, q.upd)
    PROVE  ReachAll(Tips(refs)) \subseteq ReachAll(Tips(UpdatedRefs(refs, q.upd)))
<1> SUFFICES ASSUME NEW r \in Refs, refs[r] # NoCommit
             PROVE  Reach[refs[r]] \subseteq ReachAll(Tips(UpdatedRefs(refs, q.upd)))
  BY DEF ReachAll, Tips
<1>1. refs[r] \in Commits /\ q.upd \in Update
  BY DEF RefMap, WriterState
<1>2. CASE r \in q.upd.touch
  <2> DEFINE new == q.upd.new[r]
  <2>1. new # NoCommit /\ refs[r] \in Reach[new]
    BY <1>2 DEF Forward, CheckPreconditions
  <2>2. new \in Commits
    BY <1>1, <2>1 DEF Update, RefMap
  <2>3. Reach[refs[r]] \subseteq Reach[new]
    BY <2>1, <2>2, GitAssumption
  <2>4. new \in Tips(UpdatedRefs(refs, q.upd))
    BY <1>2, <2>1 DEF Tips, UpdatedRefs
  <2>5. QED
    BY <2>3, <2>4 DEF ReachAll
<1>3. CASE r \notin q.upd.touch
  <2>1. refs[r] \in Tips(UpdatedRefs(refs, q.upd))
    BY <1>3 DEF Tips, UpdatedRefs
  <2>2. QED
    BY <2>1 DEF ReachAll
<1>4. QED
  BY <1>2, <1>3

(***************************************************************************)
(* Every step leaves what is missing applicable                            *)
(***************************************************************************)

\* More to start from is no hindrance.
LEMMA ResumesMore ==
    ASSUME NEW packs, NEW refs, NEW objs, NEW more, NEW seq, objs \subseteq more,
           Resumes(packs, refs, objs, seq)
    PROVE  Resumes(packs, refs, more, seq)
BY LinkedMore DEF Resumes

\* A materialisation, an eviction and a crash move no push.
StillForward ==
    \A w \in Local \cup Remote :
        writer'[w].pc \in {"plan", "publish"} =>
            /\ writer'[w].pc = writer[w].pc
            /\ writer'[w].upd = writer[w].upd
            /\ writer'[w].exclude = writer[w].exclude

\* Writes that stay as they are still go forward.
LEMMA StillForwardFacts ==
    ASSUME WritersForward, UNCHANGED log, StillForward
    PROVE  WritersForward'
<1> SUFFICES ASSUME NEW w \in Local \cup Remote
             PROVE  /\ writer'[w].pc \in {"plan", "publish"} => Forward(writer'[w])
                    /\ writer'[w].pc = "publish" =>
                        ReachAll(writer'[w].exclude) \subseteq ReachAll(Tips(index'.refs))
  BY DEF WritersForward
<1>1. index' = index
  BY DEF log
<1>2. writer'[w].pc \in {"plan", "publish"} =>
            /\ writer'[w].pc = writer[w].pc
            /\ writer'[w].upd = writer[w].upd
            /\ writer'[w].exclude = writer[w].exclude
  BY DEF StillForward
<1>3. /\ writer[w].pc \in {"plan", "publish"} => Forward(writer[w])
      /\ writer[w].pc = "publish" =>
            ReachAll(writer[w].exclude) \subseteq ReachAll(Tips(index.refs))
  BY DEF WritersForward
<1>4. QED
  BY <1>1, <1>2, <1>3 DEF Forward

\* Nor does whoever is served or given up on.
LEMMA HolderMovesFacts ==
    ASSUME TypeInv, NEW who \in Local \cup {Reader}, writer' \in {Served(who), Failed(who)}
    PROVE  StillForward
<1>1. writer \in [Local \cup Remote -> WriterState] /\ WriterIdle.pc = "idle"
  BY IdleFacts DEF TypeInv, WritersOK
<1>2. CASE writer' = Failed(who)
  BY <1>1, <1>2 DEF Failed, StillForward
<1>3. CASE writer' = Served(who)
  <2>1. CASE who = Reader
    BY <1>3, <2>1 DEF Served, StillForward
  <2>2. CASE who # Reader
    <3>1. writer' = [writer EXCEPT ![who].pc = "open"]
      BY <1>3, <2>2 DEF Served
    <3>2. \A w \in Local \cup Remote : w # who => writer'[w] = writer[w]
      BY <1>1, <3>1
    <3>3. writer'[who].pc = "open"
      BY <1>1, <2>2, <3>1 DEF WriterState
    <3>4. QED
      BY <3>2, <3>3 DEF StillForward
  <2>3. QED
    BY <2>1, <2>2
<1>4. QED
  BY <1>2, <1>3

\* Nor does losing the quarantines, which only pushes of this instance have.
LEMMA EmptiedForward ==
    ASSUME TypeInv, NEW ws \in [Local \cup Remote -> WriterState],
           \A w \in Local \cup Remote : WriterOK(w, ws[w]),
           writer' = WithoutQuarantines(ws),
           \A w \in Local \cup Remote : ws[w] = writer[w] \/ ws[w].pc = "idle"
    PROVE  StillForward
<1>1. /\ \A w \in Local \cup Remote : writer'[w].pc = ws[w].pc /\ writer'[w].upd = ws[w].upd
      /\ \A w \in Remote : writer'[w] = ws[w]
      /\ \A w \in Local : writer'[w] = [ws[w] EXCEPT !.quar = {}]
  BY EmptiedFacts
<1>2. \A w \in Local \cup Remote : writer'[w].exclude = ws[w].exclude
  BY <1>1 DEF WriterState
<1>3. QED
  BY <1>1, <1>2 DEF StillForward

\* One writer moves, to a push that goes forward, or not to a push.
LEMMA OneForward ==
    ASSUME WritersForward, UNCHANGED log, NEW w \in Local \cup Remote, NEW q, Alone(w, q),
           q.pc \in {"plan", "publish"} => Forward(q),
           q.pc = "publish" => ReachAll(q.exclude) \subseteq ReachAll(Tips(index.refs))
    PROVE  WritersForward'
<1> SUFFICES ASSUME NEW v \in Local \cup Remote
             PROVE  /\ writer'[v].pc \in {"plan", "publish"} => Forward(writer'[v])
                    /\ writer'[v].pc = "publish" =>
                        ReachAll(writer'[v].exclude) \subseteq ReachAll(Tips(index'.refs))
  BY DEF WritersForward
<1>1. index' = index
  BY DEF log
<1>2. CASE v = w
  BY <1>1, <1>2 DEF Alone
<1>3. CASE v # w
  <2>1. writer'[v] = writer[v]
    BY <1>3 DEF Alone
  <2>2. QED
    BY <1>1, <2>1 DEF WritersForward
<1>4. QED
  BY <1>2, <1>3

\* Steps that add objects to the copy.
LEMMA MoreObjects ==
    ASSUME CatchUpInv, UNCHANGED <<log, lock>>, WritersForward',
           copy.objs \subseteq copy'.objs, copy'.state = copy.state, copy'.bare = copy.bare
    PROVE  CatchUpInv'
<1>1. index' = index /\ content' = content /\ Start \subseteq Start'
  BY DEF log, Start
<1>2. LogApplies' /\ AdoptedResumes'
  BY <1>1 DEF CatchUpInv, LogApplies, AdoptedResumes, Continues, Rest
<1>3. CopyResumes'
  <2>1. Rebuilds(copy, index)' = Rebuilds(copy, index)
    BY <1>1 DEF Rebuilds
  <2>2. QED
    BY <1>1, <2>1, ResumesMore DEF CatchUpInv, CopyResumes
<1>4. TodoApplies'
  <2> SUFFICES ASSUME lock.pc \in {"recreate", "apply", "update", "stamp"}
               PROVE  /\ Linked(content, lock.todo, Start')
                      /\ Continues(lock.ix) =>
                          Resumes(content, index.refs, Start' \cup Carried(content, lock.todo),
                                  Rest(lock.ix))
                      /\ lock.pc \in {"update", "stamp"} => lock.todo = <<>>
    BY <1>1 DEF TodoApplies, Continues, Rest
  <2>1. /\ Linked(content, lock.todo, Start)
        /\ Continues(lock.ix) =>
            Resumes(content, index.refs, Start \cup Carried(content, lock.todo), Rest(lock.ix))
        /\ lock.pc \in {"update", "stamp"} => lock.todo = <<>>
    BY DEF CatchUpInv, TodoApplies
  <2>2. Start \cup Carried(content, lock.todo) \subseteq Start' \cup Carried(content, lock.todo)
    BY <1>1
  <2>3. QED
    BY <1>1, <2>1, <2>2, LinkedMore, ResumesMore
<1>5. QED
  BY <1>2, <1>3, <1>4 DEF CatchUpInv

\* Steps of writers alone.
LEMMA WritersOnly ==
    ASSUME CatchUpInv, UNCHANGED <<log, copy, lock>>, WritersForward'
    PROVE  CatchUpInv'
BY MoreObjects

\* Steps after which nobody holds the lock, the copy being as it was or to be
\* rebuilt.
LEMMA LockReleased ==
    ASSUME CatchUpInv, UNCHANGED log, WritersForward', lock'.pc = "free",
           UNCHANGED copy \/ Rebuilds(copy, index)'
    PROVE  CatchUpInv'
<1>1. LogApplies' /\ TodoApplies' /\ AdoptedResumes'
  BY DEF CatchUpInv, LogApplies, TodoApplies, AdoptedResumes, log
<1>2. CopyResumes'
  BY DEF CatchUpInv, CopyResumes, log, Rebuilds
<1>3. QED
  BY <1>1, <1>2 DEF CatchUpInv

\* A push lands: the writers that are still to publish lose nothing of what they
\* left out.
LEMMA LandingForward ==
    ASSUME TypeInv, WritersForward, NEW w \in Local \cup Remote, Landing(w),
           NEW q, Alone(w, q), q.pc \notin {"plan", "publish"}
    PROVE  WritersForward'
<1>1. /\ writer[w] \in WriterState /\ index.refs \in RefMap
      /\ Forward(writer[w]) /\ CheckPreconditions(index.refs, writer[w].upd)
      /\ index'.refs = UpdatedRefs(index.refs, writer[w].upd)
  BY ShapeFacts DEF Landing, Landed, Fresh, WritersForward
<1>2. ReachAll(Tips(index.refs)) \subseteq ReachAll(Tips(index'.refs))
  BY <1>1, ForwardFacts
<1> SUFFICES ASSUME NEW v \in Local \cup Remote
             PROVE  /\ writer'[v].pc \in {"plan", "publish"} => Forward(writer'[v])
                    /\ writer'[v].pc = "publish" =>
                        ReachAll(writer'[v].exclude) \subseteq ReachAll(Tips(index'.refs))
  BY DEF WritersForward
<1>3. CASE v = w
  BY <1>3 DEF Alone
<1>4. CASE v # w
  <2>1. writer'[v] = writer[v]
    BY <1>4 DEF Alone
  <2>2. /\ writer[v].pc \in {"plan", "publish"} => Forward(writer[v])
        /\ writer[v].pc = "publish" =>
            ReachAll(writer[v].exclude) \subseteq ReachAll(Tips(index.refs))
    BY DEF WritersForward
  <2>3. QED
    BY <1>2, <2>1, <2>2
<1>5. QED
  BY <1>3, <1>4

\* Its pack goes last, wherever it is applied.
LEMMA LandingCatchUp ==
    ASSUME CopyInv, CatchUpInv, NEW w \in Local \cup Remote, Landing(w),
           NEW q, Alone(w, q), q.pc \notin {"plan", "publish"}
    PROVE  CatchUpInv'
<1> DEFINE p == writer[w]
<1>1. /\ LogOK /\ LogGrows /\ p \in WriterState /\ Landed(p) /\ UNCHANGED <<copy, lock>>
      /\ TypeInv
  BY ShapeFacts DEF CopyInv, TypeInv, Landing
<1>2. ReachAll(p.exclude) \subseteq ReachAll(Tips(index.refs))
  BY DEF CatchUpInv, WritersForward, Landing
<1> HIDE DEF p
<1>3. /\ index'.base = index.base /\ index'.entries = Extended(p, index.entries)
      /\ ApplyOrder(index') = Extended(p, ApplyOrder(index))
      /\ \A m \in 0..Len(index.entries) :
            Beyond(index'.entries, m) = Extended(p, Beyond(index.entries, m))
  BY <1>1, ExtendedFacts
<1>4. /\ index \in Index /\ index.entries \in Seq(Pack) /\ Members(index.entries) \subseteq Packs
      /\ ApplyOrder(index) \in Seq(Pack) /\ Members(ApplyOrder(index)) \subseteq Packs
  BY <1>1, EntriesFacts, ApplyOrderFacts DEF LogOK
<1>5. LogApplies'
  <2>1. Resumes(content', index'.refs, {}, Extended(p, ApplyOrder(index)))
    BY <1>1, <1>2, <1>4, LandedResumes DEF CatchUpInv, LogApplies
  <2>2. QED
    BY <1>3, <2>1 DEF LogApplies
<1>6. \A m \in 0..Len(index.entries) : \A objs :
        Resumes(content, index.refs, objs, Beyond(index.entries, m))
            => Resumes(content', index'.refs, objs, Beyond(index'.entries, m))
  <2> SUFFICES ASSUME NEW m \in 0..Len(index.entries), NEW objs,
                      Resumes(content, index.refs, objs, Beyond(index.entries, m))
               PROVE  Resumes(content', index'.refs, objs, Beyond(index'.entries, m))
    OBVIOUS
  <2>1. Beyond(index.entries, m) \in Seq(Pack) /\ Members(Beyond(index.entries, m)) \subseteq Packs
    BY <1>4, BeyondFacts
  <2>2. Resumes(content', index'.refs, objs, Extended(p, Beyond(index.entries, m)))
    BY <1>1, <1>2, <2>1, LandedResumes
  <2>3. QED
    BY <1>3, <2>2
<1>7. CopyResumes'
  <2> SUFFICES ASSUME ~Rebuilds(copy, index)'
               PROVE  Resumes(content', index'.refs, copy.objs,
                              Beyond(index'.entries, Len(copy.state.applied)))
    BY <1>1 DEF CopyResumes
  <2>1. ~Rebuilds(copy, index)
    BY <1>1, RebuildStays
  <2>2. Resumes(content, index.refs, copy.objs, Beyond(index.entries, Len(copy.state.applied)))
    BY <2>1 DEF CatchUpInv, CopyResumes
  <2>3. Len(copy.state.applied) \in 0..Len(index.entries)
    <3>1. copy.state.applied \in Seq(Pack)
      BY <1>1, ShapeFacts
    <3>2. QED
      BY <1>4, <2>1, <3>1 DEF Rebuilds, IsPrefix, HasPrefix
  <2>4. QED
    BY <1>6, <2>2, <2>3
<1>8. \A ix : (ix \in Index /\ Names(ix) \subseteq Packs /\ Continues(ix)')
                => Continues(ix) /\ Len(ix.entries) \in 0..Len(index.entries)
  <2> SUFFICES ASSUME NEW ix \in Index, Names(ix) \subseteq Packs,
                      index'.base = ix.base, HasPrefix(index'.entries, ix.entries)
               PROVE  Continues(ix) /\ Len(ix.entries) \in 0..Len(index.entries)
    BY DEF Continues
  <2>1. ix.entries \in Seq(Pack) /\ Members(ix.entries) \subseteq Packs
    BY EntriesFacts
  <2>2. HasPrefix(index.entries, ix.entries)
    BY <1>1, <2>1, PrefixKept
  <2>3. Len(ix.entries) \in Nat /\ Len(index.entries) \in Nat
    BY <1>4, <2>1
  <2>4. QED
    BY <1>3, <2>2, <2>3 DEF Continues, HasPrefix
<1>9. lock.ix \in Index /\ Names(lock.ix) \subseteq Packs /\ lock.todo \in Seq(Pack)
      /\ Members(lock.todo) \subseteq Packs
  BY <1>1, ShapeFacts DEF TypeInv, LockOK
<1>10. Continues(lock.ix)' => Continues(lock.ix) /\ Len(lock.ix.entries) \in 0..Len(index.entries)
  <2> DEFINE k == lock.ix
  <2>1. lock' = lock
    BY <1>1
  <2>2. Continues(lock.ix)' => index'.base = k.base /\ HasPrefix(index'.entries, k.entries)
    BY <2>1 DEF Continues
  <2>3. (index'.base = k.base /\ HasPrefix(index'.entries, k.entries))
            => Continues(k) /\ Len(k.entries) \in 0..Len(index.entries)
    BY <1>8, <1>9 DEF Continues
  <2>4. QED
    BY <2>2, <2>3
<1>11. TodoApplies'
  <2> SUFFICES ASSUME lock.pc \in {"recreate", "apply", "update", "stamp"}
               PROVE  /\ Linked(content', lock.todo, Start)
                      /\ Continues(lock.ix)' =>
                          Resumes(content', index'.refs, Start \cup Carried(content', lock.todo),
                                  Beyond(index'.entries, Len(lock.ix.entries)))
                      /\ lock.pc \in {"update", "stamp"} => lock.todo = <<>>
    BY <1>1 DEF TodoApplies, Rest, Start
  <2>1. /\ Linked(content, lock.todo, Start)
        /\ Continues(lock.ix) =>
            Resumes(content, index.refs, Start \cup Carried(content, lock.todo),
                    Beyond(index.entries, Len(lock.ix.entries)))
        /\ lock.pc \in {"update", "stamp"} => lock.todo = <<>>
    BY DEF CatchUpInv, TodoApplies, Rest
  <2>2. Unchanged(content', content, Packs)
    BY <1>1 DEF Unchanged, LogGrows
  <2>3. /\ Carried(content', lock.todo) = Carried(content, lock.todo)
        /\ \A objs : Linked(content, lock.todo, objs) => Linked(content', lock.todo, objs)
    BY <1>9, <2>2, LinkedKept
  <2>4. QED
    BY <1>6, <1>10, <2>1, <2>3
<1>12. AdoptedResumes'
  <2> SUFFICES ASSUME lock.pc = "adopt", Continues(lock.ix)'
               PROVE  Resumes(content', index'.refs, ReachAll(Tips(lock.ix.refs)),
                              Beyond(index'.entries, Len(lock.ix.entries)))
    BY <1>1 DEF AdoptedResumes, Rest
  <2>1. Resumes(content, index.refs, ReachAll(Tips(lock.ix.refs)),
                Beyond(index.entries, Len(lock.ix.entries)))
    BY <1>10 DEF CatchUpInv, AdoptedResumes, Rest
  <2>2. QED
    BY <1>6, <1>10, <2>1
<1>13. WritersForward'
  BY <1>1, LandingForward DEF CatchUpInv
<1>14. QED
  BY <1>5, <1>7, <1>11, <1>12, <1>13 DEF CatchUpInv

\* A compaction's pack needs nothing else, and no earlier copy is continued.
LEMMA CompactCatchUp ==
    ASSUME CopyInv, CatchUpInv, Compact
    PROVE  CatchUpInv'
<1> DEFINE p == Len(content) + 1
           all == ReachAll(Tips(index.refs))
<1>1. /\ TypeInv /\ LogOK /\ UNCHANGED <<copy, lock, writer>>
      /\ LogGrows /\ index'.base = p /\ index'.entries = <<>> /\ index'.refs = index.refs
      /\ content'[p] = all
  BY CompactFacts DEF CopyInv, TypeInv, Compact
<1>2. p \in Pack /\ p \notin Packs /\ p # NoPack
  BY DEF CopyInv, TypeInv, LogOK, Packs, Pack, NoPack
<1>3. Tips(index.refs) \in SUBSET Commits
  BY <1>1, ShapeFacts, TipsFacts
<1>4. ReachAll(all) \subseteq all
  BY <1>3, ClosureFacts
<1> HIDE DEF p, all
<1>5. LogApplies'
  <2>1. ApplyOrder(index') = Append(<<>>, p)
    BY <1>1, <1>2 DEF ApplyOrder
  <2>2. Linked(content', <<>>, {}) /\ Carried(content', <<>>) = {} /\ <<>> \in Seq(Pack)
    BY NothingLinked
  <2>3. ReachAll(content'[p]) \subseteq {} \cup Carried(content', <<>>) \cup content'[p]
    BY <1>1, <1>4
  <2>4. /\ Linked(content', Append(<<>>, p), {})
        /\ Carried(content', Append(<<>>, p)) = Carried(content', <<>>) \cup content'[p]
    BY <1>2, <2>2, <2>3, LinkedAppend
  <2>5. ReachAll(Tips(index'.refs)) \subseteq {} \cup Carried(content', Append(<<>>, p))
    BY <1>1, <2>4 DEF all
  <2>6. QED
    BY <2>1, <2>4, <2>5 DEF LogApplies, Resumes
<1>6. CopyResumes'
  <2>1. copy.state.base # p
    BY <1>1, <1>2 DEF TypeInv, CopyOK
  <2>2. QED
    BY <1>1, <2>1 DEF CopyResumes, Rebuilds
<1>7. lock.ix.base # p
  <2>1. lock.ix.base \in Packs \cup {NoPack}
    BY <1>1 DEF TypeInv, LockOK, Names
  <2>2. QED
    BY <1>2, <2>1
<1>8. ~Continues(lock.ix)'
  BY <1>1, <1>7 DEF Continues
<1>9. TodoApplies'
  <2> SUFFICES ASSUME lock.pc \in {"recreate", "apply", "update", "stamp"}
               PROVE  /\ Linked(content', lock.todo, Start)
                      /\ lock.pc \in {"update", "stamp"} => lock.todo = <<>>
    BY <1>1, <1>8 DEF TodoApplies, Start
  <2>1. /\ Linked(content, lock.todo, Start)
        /\ lock.pc \in {"update", "stamp"} => lock.todo = <<>>
    BY DEF CatchUpInv, TodoApplies
  <2>2. Unchanged(content', content, Packs) /\ lock.todo \in Seq(Pack)
        /\ Members(lock.todo) \subseteq Packs
    BY <1>1, ShapeFacts DEF Unchanged, LogGrows, TypeInv, LockOK
  <2>3. QED
    BY <2>1, <2>2, LinkedKept
<1>10. AdoptedResumes'
  BY <1>8 DEF AdoptedResumes
<1>11. WritersForward'
  BY <1>1 DEF CatchUpInv, WritersForward, Forward
<1>12. QED
  BY <1>5, <1>6, <1>9, <1>10, <1>11 DEF CatchUpInv

\* A materialisation begins with what applies to the copy, or to nothing.
LEMMA MatBeginCatchUp ==
    ASSUME CopyInv, CatchUpInv, NEW who \in Local \cup {Reader}, MatBegin(who)
    PROVE  CatchUpInv'
<1>1. /\ lock'.pc = IF Rebuilds(copy, index) THEN "recreate" ELSE "apply"
      /\ lock'.ix = index /\ lock'.todo = Remaining(copy, index)
      /\ index' = index /\ content' = content /\ copy' = copy /\ UNCHANGED <<log, writer>>
  BY DEF MatBegin, LockFree, log
<1>2. index.entries \in Seq(Pack)
  BY ShapeFacts DEF CopyInv
<1>3. Resumes(content, index.refs, Start', lock'.todo)
  <2>1. CASE Rebuilds(copy, index)
    <3>1. lock'.todo = ApplyOrder(index) /\ Start' = {}
      BY <1>1, <2>1 DEF Remaining, Start
    <3>2. QED
      BY <3>1 DEF CatchUpInv, LogApplies
  <2>2. CASE ~Rebuilds(copy, index)
    <3>1. lock'.todo = Beyond(index.entries, Len(copy.state.applied)) /\ Start' = copy.objs
      BY <1>1, <2>2 DEF Remaining, Start
    <3>2. QED
      BY <2>2, <3>1 DEF CatchUpInv, CopyResumes
  <2>3. QED
    BY <2>1, <2>2
<1>4. Rest(lock.ix)' = <<>>
  BY <1>1, <1>2, BeyondAll DEF Rest
<1>5. Resumes(content, index.refs, Start' \cup Carried(content, lock'.todo), <<>>)
  BY <1>3, NothingLinked DEF Resumes
<1>6. TodoApplies'
  BY <1>1, <1>3, <1>4, <1>5 DEF TodoApplies, Resumes
<1>7. LogApplies' /\ CopyResumes' /\ AdoptedResumes'
  BY <1>1 DEF CatchUpInv, LogApplies, CopyResumes, AdoptedResumes
<1>8. WritersForward'
  BY <1>1 DEF CatchUpInv, WritersForward, Forward
<1>9. QED
  BY <1>6, <1>7, <1>8 DEF CatchUpInv

\* Nothing has been applied to an empty copy, nor to none.
LEMMA BlankRebuilds ==
    ASSUME copy' = Bare \/ copy' = Gone
    PROVE  Rebuilds(copy, index)'
BY BlankIsSound DEF Rebuilds

\* A cleared directory takes every pack of the index.
LEMMA MatRecreateCatchUp ==
    ASSUME CopyInv, CatchUpInv, MatRecreate
    PROVE  CatchUpInv'
<1>1. /\ lock.pc = "recreate" /\ copy' = Bare /\ writer' = WithoutQuarantines(writer)
      /\ lock' = [lock EXCEPT !.pc = "apply"]
      /\ index' = index /\ content' = content /\ UNCHANGED log
  BY DEF MatRecreate, log
<1>2. TypeInv /\ lock \in LockState
  BY ShapeFacts DEF CopyInv
<1>3. /\ lock'.pc = "apply" /\ lock'.ix = lock.ix /\ lock'.todo = lock.todo
  BY <1>1, <1>2 DEF LockState
<1>4. Start = {} /\ Start' = {}
  BY <1>1, <1>3 DEF Start, Bare, Gone
<1>5. TodoApplies'
  BY <1>1, <1>3, <1>4 DEF CatchUpInv, TodoApplies, Continues, Rest
<1>6. CopyResumes'
  BY <1>1, BlankRebuilds DEF CopyResumes
<1>7. LogApplies' /\ AdoptedResumes'
  BY <1>1, <1>3 DEF CatchUpInv, LogApplies, AdoptedResumes
<1>8. StillForward
  <2>1. /\ writer \in [Local \cup Remote -> WriterState]
        /\ \A w \in Local \cup Remote : WriterOK(w, writer[w])
    BY <1>2 DEF TypeInv, WritersOK
  <2>2. QED
    BY <1>1, <1>2, <2>1, EmptiedForward
<1>9. WritersForward'
  BY <1>1, <1>8, StillForwardFacts DEF CatchUpInv
<1>10. QED
  BY <1>5, <1>6, <1>7, <1>9 DEF CatchUpInv

\* Giving up leaves the copy as it is.
LEMMA GivenUpCatchUp ==
    ASSUME CopyInv, CatchUpInv, UNCHANGED log, GivenUp
    PROVE  CatchUpInv'
<1>1. lock' = LockFree /\ writer' = Failed(lock.who) /\ UNCHANGED copy
  BY DEF GivenUp
<1>2. lock'.pc = "free" /\ lock.who \in Local \cup {Reader} /\ TypeInv
  BY <1>1, ShapeFacts DEF CopyInv, LockFree
<1>3. WritersForward'
  BY <1>1, <1>2, HolderMovesFacts, StillForwardFacts DEF CatchUpInv
<1>4. QED
  BY <1>1, <1>2, <1>3, LockReleased

\* A materialisation goes on: one pack less to apply, or none.
LEMMA GoesOnCatchUp ==
    ASSUME CopyInv, CatchUpInv, UNCHANGED log, GoesOn,
           lock.pc \in {"apply", "update"}, lock'.pc \in {"apply", "update", "stamp"},
           copy.objs \subseteq copy'.objs,
           Linked(content, lock'.todo, copy'.objs),
           copy.objs \cup Carried(content, lock.todo)
                \subseteq copy'.objs \cup Carried(content, lock'.todo),
           lock'.pc \in {"update", "stamp"} => lock'.todo = <<>>
    PROVE  CatchUpInv'
<1>1. /\ index' = index /\ content' = content /\ lock'.ix = lock.ix
      /\ copy'.state = copy.state /\ copy'.bare = copy.bare /\ writer' = writer
      /\ Start = copy.objs /\ Start' = copy'.objs
  BY DEF log, GoesOn, Start
<1>2. TodoApplies'
  <2>1. Continues(lock.ix) =>
            Resumes(content, index.refs, copy.objs \cup Carried(content, lock.todo), Rest(lock.ix))
    BY <1>1 DEF CatchUpInv, TodoApplies
  <2>2. Continues(lock.ix) =>
            Resumes(content, index.refs, copy'.objs \cup Carried(content, lock'.todo),
                    Rest(lock.ix))
    BY <2>1, ResumesMore
  <2>3. QED
    BY <1>1, <2>2 DEF TodoApplies, Continues, Rest
<1>3. CopyResumes'
  <2>1. Rebuilds(copy, index)' = Rebuilds(copy, index)
    BY <1>1 DEF Rebuilds
  <2>2. QED
    BY <1>1, <2>1, ResumesMore DEF CatchUpInv, CopyResumes
<1>4. LogApplies' /\ AdoptedResumes'
  BY <1>1 DEF CatchUpInv, LogApplies, AdoptedResumes
<1>5. WritersForward'
  BY <1>1 DEF CatchUpInv, WritersForward, Forward
<1>6. QED
  BY <1>2, <1>3, <1>4, <1>5 DEF CatchUpInv

\* An applied pack is one less to apply.
LEMMA MatApplyCatchUp ==
    ASSUME CopyInv, CatchUpInv, MatApply
    PROVE  CatchUpInv'
<1>1. /\ lock.pc = "apply" /\ lock.todo # <<>> /\ UNCHANGED log
      /\ AppliedNext \/ GivenUp
  BY MatApplyFacts DEF CopyInv
<1>2. CASE GivenUp
  BY <1>1, <1>2, GivenUpCatchUp
<1>3. CASE AppliedNext
  <2>1. /\ copy'.objs = copy.objs \cup content[Head(lock.todo)] /\ lock'.pc = "apply"
        /\ lock'.todo = Tail(lock.todo) /\ GoesOn
    BY <1>3 DEF AppliedNext
  <2>2. Linked(content, lock.todo, copy.objs) /\ lock.todo \in Seq(Pack)
    BY <1>1, ShapeFacts DEF CopyInv, CatchUpInv, TodoApplies, Start
  <2>3. /\ Linked(content, Tail(lock.todo), copy.objs \cup content[Head(lock.todo)])
        /\ Carried(content, lock.todo)
            = content[Head(lock.todo)] \cup Carried(content, Tail(lock.todo))
    BY <1>1, <2>2, LinkedTail
  <2>4. /\ Linked(content, lock'.todo, copy'.objs) /\ copy.objs \subseteq copy'.objs
        /\ copy.objs \cup Carried(content, lock.todo)
                \subseteq copy'.objs \cup Carried(content, lock'.todo)
    BY <2>1, <2>3
  <2>5. QED
    BY <1>1, <2>1, <2>4, GoesOnCatchUp
<1>4. QED
  BY <1>1, <1>2, <1>3

\* Refs have no part in what can be applied.
LEMMA MatRefsCatchUp ==
    ASSUME CopyInv, CatchUpInv, MatDelete \/ MatUpdate
    PROVE  CatchUpInv'
<1>1. /\ UNCHANGED log /\ lock.pc \in {"apply", "update"}
      /\ \/ GivenUp
         \/ /\ copy'.objs = copy.objs /\ lock'.pc \in {"update", "stamp"}
            /\ lock'.todo = lock.todo /\ lock.todo = <<>> /\ GoesOn
  <2>1. CASE MatDelete
    BY <2>1, MatDeleteFacts DEF CopyInv
  <2>2. CASE MatUpdate
    <3>1. lock.pc = "update" /\ UNCHANGED log /\ (UpdatedNext \/ GivenUp)
      BY <2>2, MatUpdateFacts DEF CopyInv
    <3>2. lock.todo = <<>>
      BY <3>1 DEF CatchUpInv, TodoApplies
    <3>3. QED
      BY <3>1, <3>2 DEF UpdatedNext
  <2>3. QED
    BY <2>1, <2>2
<1>2. CASE GivenUp
  BY <1>1, <1>2, GivenUpCatchUp
<1>3. CASE /\ copy'.objs = copy.objs /\ lock'.pc \in {"update", "stamp"}
           /\ lock'.todo = lock.todo /\ lock.todo = <<>> /\ GoesOn
  <2>1. Linked(content, lock'.todo, copy'.objs)
    BY <1>3, NothingLinked
  <2>2. QED
    BY <1>1, <1>3, <2>1, GoesOnCatchUp
<1>4. QED
  BY <1>1, <1>2, <1>3

\* What is stamped is what a later materialisation continues from.
LEMMA StampedCatchUp ==
    ASSUME CopyInv, CatchUpInv, UNCHANGED log, lock'.pc = "free", WritersForward',
           copy'.objs = copy.objs, copy'.bare = copy.bare,
           copy'.state = StateOf(lock.gen, lock.ix),
           Continues(lock.ix) => Resumes(content, index.refs, copy.objs, Rest(lock.ix))
    PROVE  CatchUpInv'
<1>1. index' = index /\ content' = content
  BY DEF log
<1>2. copy'.state.base = lock.ix.base /\ copy'.state.applied = lock.ix.entries
  BY StateOfFacts
<1>3. CopyResumes'
  BY <1>1, <1>2 DEF CopyResumes, Rebuilds, IsPrefix, Continues, Rest
<1>4. LogApplies' /\ TodoApplies' /\ AdoptedResumes'
  BY <1>1 DEF CatchUpInv, LogApplies, TodoApplies, AdoptedResumes
<1>5. QED
  BY <1>3, <1>4 DEF CatchUpInv

\* The state file says what has been applied.
LEMMA MatStampCatchUp ==
    ASSUME CopyInv, CatchUpInv, MatStamp
    PROVE  CatchUpInv'
<1>1. /\ TypeInv /\ lock.pc = "stamp" /\ UNCHANGED log
      /\ copy'.state = StateOf(lock.gen, lock.ix)
      /\ copy'.objs = copy.objs /\ copy'.bare = copy.bare
      /\ lock' = LockFree /\ writer' = Served(lock.who)
  BY MatStampFacts DEF CopyInv
<1>2. lock'.pc = "free" /\ lock.who \in Local \cup {Reader}
  BY <1>1, ShapeFacts DEF LockFree
<1>3. WritersForward'
  BY <1>1, <1>2, HolderMovesFacts, StillForwardFacts DEF CatchUpInv
<1>4. Continues(lock.ix) => Resumes(content, index.refs, copy.objs, Rest(lock.ix))
  <2>1. /\ lock.todo = <<>> /\ Start = copy.objs
        /\ Continues(lock.ix) =>
            Resumes(content, index.refs, Start \cup Carried(content, lock.todo), Rest(lock.ix))
    BY <1>1 DEF CatchUpInv, TodoApplies, Start
  <2>2. Start \cup Carried(content, lock.todo) = copy.objs
    BY <2>1, NothingLinked
  <2>3. QED
    BY <2>1, <2>2
<1>5. QED
  BY <1>1, <1>2, <1>3, <1>4, StampedCatchUp

\* A materialisation that fails leaves a copy to rebuild, or as it was.
LEMMA MatFaultCatchUp ==
    ASSUME CopyInv, CatchUpInv, MatFault
    PROVE  CatchUpInv'
<1>1. TypeInv /\ lock' = LockFree /\ UNCHANGED log /\ lock'.pc = "free"
      /\ lock.who \in Local \cup {Reader}
  BY ShapeFacts DEF CopyInv, MatFault, LockFree, log
<1>2. CASE copy' = copy /\ writer' = Failed(lock.who)
  BY <1>1, <1>2, GivenUpCatchUp DEF GivenUp
<1>3. CASE copy' = Gone /\ writer' = WithoutQuarantines(Failed(lock.who))
  <2> DEFINE ws == Failed(lock.who)
  <2>1. /\ ws \in [Local \cup Remote -> WriterState]
        /\ \A w \in Local \cup Remote : WriterOK(w, ws[w])
    BY <1>1, ShapeFacts, IdleFacts DEF TypeInv, WritersOK, Failed
  <2>2. \A w \in Local \cup Remote : ws[w] = writer[w] \/ ws[w].pc = "idle"
    BY <1>1, IdleFacts DEF TypeInv, WritersOK, Failed
  <2>3. writer' = WithoutQuarantines(ws)
    BY <1>3
  <2> HIDE DEF ws
  <2>4. StillForward
    BY <1>1, <2>1, <2>2, <2>3, EmptiedForward
  <2>5. WritersForward'
    BY <1>1, <2>4, StillForwardFacts DEF CatchUpInv
  <2>6. QED
    BY <1>1, <1>3, <2>5, BlankRebuilds, LockReleased
<1>4. QED
  BY <1>2, <1>3 DEF MatFault

\* An adoption starts from the index as it is.
LEMMA AdoptReadCatchUp ==
    ASSUME CopyInv, CatchUpInv, NEW w \in Local, AdoptRead(w)
    PROVE  CatchUpInv'
<1>1. /\ \/ Alone(w, WriterIdle) /\ UNCHANGED <<log, made, copy, lock>>
         \/ /\ lock'.pc = "adopt" /\ lock'.ix = index /\ UNCHANGED <<log, made, copy, writer>>
  BY AdoptReadTypes DEF CopyInv
<1>2. CASE Alone(w, WriterIdle) /\ UNCHANGED <<log, made, copy, lock>>
  <2>1. WritersForward'
    BY <1>2, IdleFacts, OneForward DEF CatchUpInv
  <2>2. QED
    BY <1>2, <2>1, WritersOnly
<1>3. CASE lock'.pc = "adopt" /\ lock'.ix = index /\ UNCHANGED <<log, made, copy, writer>>
  <2>1. index' = index /\ content' = content /\ index.entries \in Seq(Pack)
    BY <1>3, ShapeFacts DEF log, CopyInv
  <2>2. Rest(lock.ix)' = <<>>
    BY <1>3, <2>1, BeyondAll DEF Rest
  <2>3. Resumes(content, index.refs, ReachAll(Tips(index.refs)), <<>>)
    BY NothingLinked DEF Resumes
  <2>4. AdoptedResumes'
    BY <1>3, <2>1, <2>2, <2>3 DEF AdoptedResumes
  <2>5. LogApplies' /\ CopyResumes' /\ TodoApplies'
    BY <1>3, <2>1 DEF CatchUpInv, LogApplies, CopyResumes, TodoApplies
  <2>6. WritersForward'
    BY <1>3, <2>1 DEF CatchUpInv, WritersForward, Forward
  <2>7. QED
    BY <2>4, <2>5, <2>6 DEF CatchUpInv
<1>4. QED
  BY <1>1, <1>2, <1>3

\* Where branches are neither created nor deleted through the API, every ref
\* names a commit that is there, and receive-pack tells its client of all of them.
LEMMA OnlyCommitsFacts ==
    ASSUME CopyInv, Work \subseteq {"commit", "push"}
    PROVE  /\ \A w \in Local : ~Resolve(w) /\ ~CreateRef(w) /\ ~DeleteRef(w)
           /\ CopySound => Tips(copy.refs) \subseteq copy.objs /\ Advertised = copy.refs
<1>1. ASSUME NEW w \in Local PROVE ~Resolve(w) /\ ~CreateRef(w) /\ ~DeleteRef(w)
  <2> SUFFICES ASSUME writer[w].pc = "open", writer[w].work \in {"create", "delete"} PROVE FALSE
    BY DEF Resolve, CreateRef, DeleteRef
  <2>1. WriterOK(w, writer[w])
    BY ShapeFacts DEF CopyInv
  <2>2. QED
    BY <2>1 DEF WriterOK
<1>2. copy.absent = {}
  BY DEF CopyInv, TypeInv, CopyOK
<1>3. CopySound => Tips(copy.refs) \subseteq copy.objs
  BY <1>2 DEF CopySound
<1>4. QED
  BY <1>1, <1>3, AdvertisedFacts DEF CopyInv

\* A copy adopted has all that its refs, which are the index's, reach.
LEMMA AdoptStampCatchUp ==
    ASSUME CopyInv, CatchUpInv, AdoptStamp, Work \subseteq {"commit", "push"}
    PROVE  CatchUpInv'
<1>1. /\ TypeInv /\ lock.pc = "adopt" /\ lock.who \in Local
      /\ lock' = LockFree /\ Alone(lock.who, WriterIdle) /\ UNCHANGED log
      /\ \/ UNCHANGED copy
         \/ /\ copy.bare /\ copy.refs = lock.ix.refs
            /\ copy'.state = StateOf(lock.gen, lock.ix)
            /\ copy'.objs = copy.objs /\ copy'.refs = copy.refs /\ copy'.bare = copy.bare
  BY AdoptStampTypes DEF CopyInv, log
<1>2. WritersForward' /\ lock'.pc = "free"
  <2>1. lock.who \in Local \cup Remote /\ WriterIdle.pc = "idle"
    BY <1>1, IdleFacts
  <2>2. QED
    BY <1>1, <2>1, OneForward DEF CatchUpInv, LockFree
<1>3. CASE UNCHANGED copy
  BY <1>1, <1>2, <1>3, LockReleased
<1>4. CASE /\ copy.bare /\ copy.refs = lock.ix.refs
           /\ copy'.state = StateOf(lock.gen, lock.ix)
           /\ copy'.objs = copy.objs /\ copy'.refs = copy.refs /\ copy'.bare = copy.bare
  <2>1. ReachAll(Tips(copy.refs)) \subseteq copy.objs
    <3>1. CopySound /\ copy.objs \in SUBSET Commits /\ Tips(copy.refs) \in SUBSET Commits
          /\ Tips(copy.refs) \subseteq copy.objs
      BY <1>1, SoundFacts, TipsFacts, OnlyCommitsFacts
    <3>2. ReachAll(Tips(copy.refs)) \subseteq ReachAll(copy.objs)
      BY <3>1, ClosureFacts
    <3>3. QED
      BY <3>1, <3>2 DEF CopySound
  <2>2. Continues(lock.ix) => Resumes(content, index.refs, copy.objs, Rest(lock.ix))
    BY <1>1, <1>4, <2>1, ResumesMore DEF CatchUpInv, AdoptedResumes
  <2>3. QED
    BY <1>1, <1>2, <1>4, <2>2, StampedCatchUp
<1>5. QED
  BY <1>1, <1>3, <1>4

\* Without rewinds, a push takes a ref to a descendant.
LEMMA TargetsForward ==
    ASSUME ~Rewinds, NEW refs \in RefMap, NEW old \in Commits \cup {NoCommit},
           NEW new \in Targets(refs, old)
    PROVE  new # NoCommit /\ (old # NoCommit => old \in Reach[new])
<1>1. ReachAll(Tips(refs)) \subseteq Commits /\ NoCommit \notin Commits
  BY TipsFacts, ReachAllFacts, GitAssumption
<1>2. CASE new \in NewCommits(old)
  <2>1. new \in Commits /\ (old # NoCommit => Reach[old] \subseteq Reach[new])
    BY <1>2, NewCommitFacts
  <2>2. old # NoCommit => old \in Reach[old]
    BY GitAssumption
  <2>3. QED
    BY <1>1, <2>1, <2>2
<1>3. CASE new \in {c \in ReachAll(Tips(refs)) \ {old} : old # NoCommit => old \in Reach[c]}
  BY <1>1, <1>3
<1>4. QED
  BY <1>2, <1>3 DEF Targets

\* A write that goes forward with its one ref.
LEMMA AheadForward ==
    ASSUME NEW q, NEW r, q.upd.touch = {r}, q.upd.new[r] # NoCommit,
           q.upd.old[r] # NoCommit => q.upd.old[r] \in Reach[q.upd.new[r]]
    PROVE  Forward(q)
BY DEF Forward

\* Requests that begin, go ahead of the log, or are over.
LEMMA RequestCatchUp ==
    ASSUME CopyInv, CatchUpInv, NEW w \in Local, Ask(w) \/ Refuse(w) \/ AdoptFault(w)
    PROVE  CatchUpInv'
<1>1. UNCHANGED <<log, copy, lock>> /\ TypeInv
  BY DEF Ask, Refuse, AdoptFault, CopyInv
<1>2. \E q : Alone(w, q) /\ q.pc \in {"idle", "ensure"}
  <2>1. WriterIdle.pc = "idle"
    BY IdleFacts
  <2>2. QED
    BY <1>1, <2>1, AskTypes, RefuseTypes, AdoptFaultTypes
<1>3. PICK q : Alone(w, q) /\ q.pc \in {"idle", "ensure"}
  BY <1>2
<1>4. WritersForward'
  BY <1>1, <1>3, OneForward DEF CatchUpInv
<1>5. QED
  BY <1>1, <1>4, WritersOnly

\* A request is served from the copy as it is.
LEMMA EnsureCatchUp ==
    ASSUME CopyInv, CatchUpInv, NEW who \in Local \cup {Reader}, EnsureHit(who) \/ EnsureAlarm(who)
    PROVE  CatchUpInv'
<1>1. UNCHANGED <<log, copy, lock>> /\ TypeInv /\ writer' \in {Served(who), Failed(who)}
  BY DEF EnsureHit, EnsureAlarm, CopyInv
<1>2. WritersForward'
  BY <1>1, HolderMovesFacts, StillForwardFacts DEF CatchUpInv
<1>3. QED
  BY <1>1, <1>2, WritersOnly

\* A commit goes forward.
LEMMA CommitCatchUp ==
    ASSUME CopyInv, CatchUpInv, NEW w \in Local, Commit(w)
    PROVE  CatchUpInv'
<1>1. TypeInv /\ \E q, c : Committed(w, q, c)
  BY CommitTypes DEF CopyInv
<1>2. PICK q, c : Committed(w, q, c)
  BY <1>1
<1> DEFINE r == RefOf(w)
           old == copy.refs[r]
<1>3. /\ writer[w].pc = "open" /\ c \in NewCommits(old)
      /\ copy'.objs = copy.objs \cup {c}
      /\ copy'.state = copy.state /\ copy'.bare = copy.bare
      /\ Alone(w, q) /\ q.pc = "plan" /\ q.upd.touch = {r} /\ q.upd.old[r] = old
      /\ q.upd.new[r] = c /\ UNCHANGED <<log, lock>>
  BY <1>2 DEF Committed
<1>4. old \in Commits \cup {NoCommit}
  <2>1. copy.refs \in RefMap /\ r \in Refs
    BY <1>1, <1>3, ShapeFacts, RefOfFacts DEF TypeInv
  <2>2. QED
    BY <2>1 DEF RefMap
<1> HIDE DEF old, r
<1>5. c # NoCommit /\ (old # NoCommit => old \in Reach[c])
  <2>1. c \in Commits /\ (old # NoCommit => Reach[old] \subseteq Reach[c])
    BY <1>3, NewCommitFacts
  <2>2. QED
    BY <1>4, <2>1, GitAssumption
<1>6. Forward(q)
  BY <1>3, <1>5, AheadForward
<1>7. WritersForward'
  BY <1>3, <1>6, OneForward DEF CatchUpInv
<1>8. QED
  BY <1>3, <1>7, MoreObjects

\* So does a push to this instance that does not rewind.
LEMMA ReceiveCatchUp ==
    ASSUME CopyInv, CatchUpInv, NEW w \in Local, Receive(w), ~Rewinds
    PROVE  CatchUpInv'
<1>1. TypeInv /\ \E q, new, sent : Received(w, q, new, sent)
  BY ReceiveTypes DEF CopyInv
<1>2. PICK q, new, sent : Received(w, q, new, sent)
  BY <1>1
<1> DEFINE r == RefOf(w)
           old == Advertised[r]
<1>3. /\ writer[w].pc = "open" /\ new \in Targets(Advertised, old)
      /\ Alone(w, q) /\ q.pc = "plan" /\ q.upd.touch = {r} /\ q.upd.old[r] = old
      /\ q.upd.new[r] = new /\ UNCHANGED <<log, lock, copy>>
  BY <1>2 DEF Received
<1>4. Advertised \in RefMap /\ old \in Commits \cup {NoCommit}
  <2>1. Advertised \in RefMap /\ r \in Refs
    BY <1>1, <1>3, AdvertisedFacts, RefOfFacts DEF TypeInv
  <2>2. QED
    BY <2>1 DEF RefMap
<1> HIDE DEF old, r
<1>5. Forward(q)
  BY <1>3, <1>4, TargetsForward, AheadForward
<1>6. WritersForward'
  BY <1>3, <1>5, OneForward DEF CatchUpInv
<1>7. QED
  BY <1>3, <1>6, WritersOnly

\* So does one to another instance.
LEMMA AskElsewhereCatchUp ==
    ASSUME CopyInv, CatchUpInv, NEW w \in Remote, AskElsewhere(w), ~Rewinds
    PROVE  CatchUpInv'
<1>1. TypeInv /\ \E q, r, new : AskedElsewhere(w, q, r, new)
  BY AskElsewhereTypes DEF CopyInv
<1>2. PICK q, r, new : AskedElsewhere(w, q, r, new)
  BY <1>1
<1> DEFINE old == index.refs[r]
<1>3. /\ r \in Refs /\ new \in Targets(index.refs, old)
      /\ Alone(w, q) /\ q.pc = "plan" /\ q.upd.touch = {r} /\ q.upd.old[r] = old
      /\ q.upd.new[r] = new /\ UNCHANGED <<log, lock, copy>>
  BY <1>2 DEF AskedElsewhere
<1>4. index.refs \in RefMap /\ old \in Commits \cup {NoCommit}
  BY <1>1, <1>3, ShapeFacts DEF RefMap
<1> HIDE DEF old
<1>5. Forward(q)
  BY <1>3, <1>4, TargetsForward, AheadForward
<1>6. WritersForward'
  BY <1>3, <1>5, OneForward DEF CatchUpInv
<1>7. QED
  BY <1>3, <1>6, WritersOnly

\* A push that is packed leaves out what the refs reach.
LEMMA PlanCatchUp ==
    ASSUME CopyInv, CatchUpInv, NEW w \in Local \cup Remote, Plan(w)
    PROVE  CatchUpInv'
<1>1. /\ TypeInv /\ UNCHANGED <<log, copy, lock>> /\ writer[w].pc = "plan"
      /\ \E q : WasPacked(w, q) \/ WasRefused(w, q)
  BY PlanTypes DEF CopyInv, Plan
<1>2. PICK q : WasPacked(w, q) \/ WasRefused(w, q)
  BY <1>1
<1>3. CASE WasRefused(w, q)
  <2>1. Alone(w, q) /\ q.pc \notin {"plan", "publish"}
    BY <1>3 DEF WasRefused
  <2>2. WritersForward'
    BY <1>1, <2>1, OneForward DEF CatchUpInv
  <2>3. QED
    BY <1>1, <2>2, WritersOnly
<1>4. CASE WasPacked(w, q)
  <2>1. Alone(w, q) /\ q.upd = writer[w].upd /\ q.exclude \subseteq Tips(index.refs)
    BY <1>4 DEF WasPacked
  <2>2. Forward(q)
    BY <1>1, <2>1 DEF CatchUpInv, WritersForward, Forward
  <2>3. ReachAll(q.exclude) \subseteq ReachAll(Tips(index.refs))
    BY <2>1 DEF ReachAll
  <2>4. WritersForward'
    BY <1>1, <2>1, <2>2, <2>3, OneForward DEF CatchUpInv
  <2>5. QED
    BY <1>1, <2>4, WritersOnly
<1>5. QED
  BY <1>2, <1>3, <1>4

\* A write that is refused may be packed again.
LEMMA PublishRefusedCatchUp ==
    ASSUME CopyInv, CatchUpInv, NEW w \in Local \cup Remote, PublishRefused(w)
    PROVE  CatchUpInv'
<1>1. /\ TypeInv /\ UNCHANGED <<log, copy, lock>> /\ writer[w].pc = "publish"
      /\ \E q : WasSentBack(w, q) \/ WasRefused(w, q)
  BY PublishRefusedTypes DEF CopyInv, PublishRefused
<1>2. PICK q : WasSentBack(w, q) \/ WasRefused(w, q)
  BY <1>1
<1>3. Alone(w, q) /\ q.pc # "publish" /\ (q.pc = "plan" => q.upd = writer[w].upd)
  BY <1>2 DEF WasSentBack, WasRefused
<1>4. q.pc = "plan" => Forward(q)
  BY <1>1, <1>3 DEF CatchUpInv, WritersForward, Forward
<1>5. WritersForward'
  BY <1>1, <1>3, <1>4, OneForward DEF CatchUpInv
<1>6. QED
  BY <1>1, <1>5, WritersOnly

\* A write is published, or the storage fails.
LEMMA PublishCatchUp ==
    ASSUME CopyInv, CatchUpInv, NEW w \in Local \cup Remote, Publish(w) \/ PublishFault(w)
    PROVE  CatchUpInv'
<1>1. /\ UNCHANGED <<log, made, copy, lock>> \/ Landing(w)
      /\ \E q : WasAccepted(w, q) \/ WasRefused(w, q)
  BY PublishTypes, PublishFaultTypes DEF CopyInv
<1>2. PICK q : WasAccepted(w, q) \/ WasRefused(w, q)
  BY <1>1
<1>3. Alone(w, q) /\ q.pc \notin {"plan", "publish"}
  BY <1>2 DEF WasAccepted, WasRefused
<1>4. CASE Landing(w)
  BY <1>3, <1>4, LandingCatchUp
<1>5. CASE UNCHANGED <<log, made, copy, lock>>
  <2>1. WritersForward'
    BY <1>3, <1>5, OneForward DEF CatchUpInv
  <2>2. QED
    BY <1>5, <2>1, WritersOnly
<1>6. QED
  BY <1>1, <1>4, <1>5

\* A receive-pack is answered.
LEMMA MoveCatchUp ==
    ASSUME CopyInv, CatchUpInv, NEW w \in Local, Move(w) \/ MoveFails(w)
    PROVE  CatchUpInv'
<1>1. copy.objs \subseteq copy'.objs /\ \E q : WasAnswered(w, q)
  BY MoveTypes, MoveFailsTypes DEF CopyInv
<1>2. PICK q : WasAnswered(w, q)
  BY <1>1
<1>3. Alone(w, q) /\ q.pc = "adopt" /\ UNCHANGED <<log, lock>>
      /\ copy'.state = copy.state /\ copy'.bare = copy.bare
  BY <1>2 DEF WasAnswered
<1>4. WritersForward'
  BY <1>3, OneForward DEF CatchUpInv
<1>5. QED
  BY <1>1, <1>3, <1>4, MoreObjects

\* A rollback takes no object away.
LEMMA ResetCatchUp ==
    ASSUME CopyInv, CatchUpInv, NEW w \in Local, Reset(w)
    PROVE  CatchUpInv'
<1>1. \E q : RolledBack(w, q)
  BY ResetTypes DEF CopyInv
<1>2. PICK q : RolledBack(w, q)
  BY <1>1
<1>3. Alone(w, q) /\ q.pc \in {"idle", "ensure"} /\ UNCHANGED <<log, lock>>
      /\ copy'.objs = copy.objs /\ copy'.state = copy.state /\ copy'.bare = copy.bare
  BY <1>2 DEF RolledBack
<1>4. WritersForward'
  BY <1>3, OneForward DEF CatchUpInv
<1>5. QED
  BY <1>3, <1>4, MoreObjects

\* An evicted copy is one to rebuild.
LEMMA EvictCatchUp ==
    ASSUME CopyInv, CatchUpInv, Evict
    PROVE  CatchUpInv'
<1>1. copy' = Gone /\ UNCHANGED <<log, lock, writer>> /\ lock'.pc = "free"
  BY DEF Evict, IsFree
<1>2. WritersForward'
  BY <1>1 DEF CatchUpInv, WritersForward, Forward, log
<1>3. QED
  BY <1>1, <1>2, BlankRebuilds, LockReleased

\* So is what a crash leaves, unless it leaves the copy as it was.
LEMMA CrashCatchUp ==
    ASSUME CopyInv, CatchUpInv, Crash
    PROVE  CatchUpInv'
<1>1. TypeInv /\ Crashed
  BY CrashTypes DEF CopyInv
<1>2. /\ lock'.pc = "free" /\ UNCHANGED log
      /\ \A w \in Local : writer'[w].pc = "idle"
      /\ \A w \in Remote : writer'[w] = writer[w]
  BY <1>1, IdleFacts DEF Crashed, LockFree, log
<1>3. StillForward
  BY <1>2 DEF StillForward
<1>4. WritersForward'
  BY <1>2, <1>3, StillForwardFacts DEF CatchUpInv
<1>5. UNCHANGED copy \/ Rebuilds(copy, index)'
  BY <1>1, BlankRebuilds, DebrisRebuilt DEF Crashed
<1>6. QED
  BY <1>2, <1>4, <1>5, LockReleased

\* A log that can be applied from nothing, and a copy with nothing applied.
LEMMA InitCatchUp == ASSUME Init, HistoriesLinked PROVE CatchUpInv
<1>1. /\ lock.pc = "free" /\ copy \in {Bare, Gone}
      /\ \A w \in Local \cup Remote : writer[w].pc = "idle"
  BY IdleFacts DEF Init, LockFree
<1>2. Rebuilds(copy, index)
  BY <1>1 DEF Rebuilds, Bare, Gone, NoState
<1>3. LogApplies
  <2>1. CASE index = EmptyIndex
    <3>1. ApplyOrder(index) = <<>> \o <<>> /\ Tips(index.refs) = {}
      BY <2>1, EmptyIndexFacts DEF ApplyOrder, EmptyIndex
    <3>2. ApplyOrder(index) = <<>>
      BY <3>1
    <3>3. QED
      BY <3>1, <3>2, NothingLinked DEF LogApplies, Resumes, ReachAll
  <2>2. ASSUME NEW h \in Histories, index = h.index, content = h.content
        PROVE  LogApplies
    <3>1. h.index \in Index /\ Complete(h.index, h.content)
      BY LocalCopyAssumption
    <3>2. Members(ApplyOrder(h.index)) = Names(h.index)
      BY <3>1, ApplyOrderFacts
    <3>3. ReachAll(Tips(h.index.refs)) \subseteq {} \cup Carried(h.content, ApplyOrder(h.index))
      BY <3>1, <3>2 DEF Complete, Holds, Carried
    <3>4. QED
      BY <2>2, <3>3 DEF HistoriesLinked, LogApplies, Resumes
  <2>3. QED
    BY <2>1, <2>2 DEF Init
<1>4. QED
  BY <1>1, <1>2, <1>3
     DEF CatchUpInv, CopyResumes, TodoApplies, AdoptedResumes, WritersForward

\* Every step leaves what a copy lacks applicable, where no push takes a commit
\* away from a branch.
LEMMA NextCatchUp ==
    ASSUME CopyInv, CatchUpInv, [Next]_vars, Work \subseteq {"commit", "push"}, ~Rewinds
    PROVE  CatchUpInv'
<1>1. ASSUME NEW who \in Local \cup {Reader}, EnsureHit(who) \/ EnsureAlarm(who) \/ MatBegin(who)
      PROVE  CatchUpInv'
  BY <1>1, EnsureCatchUp, MatBeginCatchUp
<1>2. CASE Materialising \/ AdoptStamp
  BY <1>2, MatRecreateCatchUp, MatApplyCatchUp, MatRefsCatchUp, MatStampCatchUp,
     MatFaultCatchUp, AdoptStampCatchUp DEF Materialising
<1>3. ASSUME NEW w \in Local, Ask(w) \/ Opened(w) \/ Finishing(w)
      PROVE  CatchUpInv'
  BY <1>3, RequestCatchUp, CommitCatchUp, OnlyCommitsFacts, ReceiveCatchUp, MoveCatchUp,
     AdoptReadCatchUp, ResetCatchUp DEF Opened, Finishing
<1>4. ASSUME NEW w \in Local \cup Remote, Pushing(w)
      PROVE  CatchUpInv'
  BY <1>4, PlanCatchUp, PublishCatchUp, PublishRefusedCatchUp DEF Pushing
<1>5. ASSUME NEW w \in Remote, AskElsewhere(w)
      PROVE  CatchUpInv'
  BY <1>5, AskElsewhereCatchUp
<1>6. CASE Compact \/ Evict \/ Crash
  BY <1>6, CompactCatchUp, EvictCatchUp, CrashCatchUp
<1>7. CASE UNCHANGED vars
  <2>1. UNCHANGED <<log, copy, lock>> /\ writer' = writer
    BY <1>7 DEF vars, log
  <2>2. WritersForward'
    BY <2>1 DEF CatchUpInv, WritersForward, Forward, log
  <2>3. QED
    BY <2>1, <2>2, WritersOnly
<1>8. QED
  BY <1>1, <1>2, <1>3, <1>4, <1>5, <1>6, <1>7 DEF Next

\* What makes a catch-up possible holds throughout.
THEOREM CatchUpInductive ==
    ASSUME Work \subseteq {"commit", "push"}, ~Rewinds, HistoriesLinked
    PROVE  Spec => [](CopyInv /\ CatchUpInv)
<1>1. Init => CopyInv /\ CatchUpInv
  BY InitCopy, InitCatchUp
<1>2. CopyInv /\ CatchUpInv /\ [Next]_vars => (CopyInv /\ CatchUpInv)'
  BY NextCopy, NextCatchUp
<1>3. QED
  BY <1>1, <1>2, PTL DEF Spec

\* Where refs only go forward, every pack a materialisation applies builds on
\* objects that are there: a copy stamped by an adoption, a materialisation or
\* after a receive-pack can always be continued.
THEOREM CatchUpsApply ==
    ASSUME Work \subseteq {"commit", "push"}, ~Rewinds, HistoriesLinked
    PROVE  Spec => []CatchUpApplies
<1>1. CopyInv /\ CatchUpInv => CatchUpApplies
  <2> SUFFICES ASSUME CopyInv, CatchUpInv, lock.pc = "apply", lock.todo # <<>>
               PROVE  LinksFound(Head(lock.todo), copy.objs)
    BY DEF CatchUpApplies
  <2>1. Linked(content, lock.todo, copy.objs) /\ lock.todo \in Seq(Pack)
    BY ShapeFacts DEF CopyInv, CatchUpInv, TodoApplies, Start
  <2>2. ReachAll(content[Head(lock.todo)]) \subseteq copy.objs \cup content[Head(lock.todo)]
    BY <2>1, LinkedTail
  <2>3. QED
    BY <2>2 DEF LinksFound
<1>2. QED
  BY <1>1, CatchUpInductive, PTL

(***************************************************************************)
(* A copy at the current generation                                        *)
(***************************************************************************)

\* No commit reaches itself through another: its name is a hash of what it reaches.
Acyclic == \A c, d \in Commits : (c \in Reach[d] /\ d \in Reach[c]) => c = d

\* Where a write stands that has moved its ref, or is about to.
InFlight == {"plan", "publish", "move", "reset"}

KnownIn(q, known) ==
    \A r \in q.upd.touch : {q.upd.old[r], q.upd.new[r]} \subseteq known \cup {NoCommit}

\* Every commit a ref or a write names has been made, with all it reaches.
RefsMade ==
    /\ ReachAll(made) \subseteq made
    /\ Tips(index.refs) \subseteq made
    /\ Tips(copy.refs) \subseteq made
    /\ Tips(copy.state.refs) \subseteq made
    /\ lock.pc # "free" => Tips(lock.ix.refs) \subseteq made

\* So have those of a write in flight.
WritesMade ==
    \A w \in Local \cup Remote : writer[w].pc \in InFlight => KnownIn(writer[w], made)

\* A git push moves its ref, and once it has landed the log is at its new value
\* or further on.
Moves(q) == \A r \in q.upd.touch : q.upd.old[r] # q.upd.new[r]

Reached(q, refs) ==
    \A r \in q.upd.touch : refs[r] # NoCommit /\ q.upd.new[r] \in Reach[refs[r]]

PushesMove ==
    \A w \in Local :
        /\ (writer[w].pc \in InFlight /\ writer[w].work = "push") => Moves(writer[w])
        /\ writer[w].pc = "move" => Forward(writer[w]) /\ Reached(writer[w], index.refs)

\* A copy whose state file is at the current generation.
Current == generation # 0 /\ copy.state.gen = generation

\* What a receive-pack that has been accepted would move is past already.
Past(q, refs) == \A r \in q.upd.touch : refs[r] # q.upd.old[r]

MovesPast ==
    Current => \A w \in Local : writer[w].pc = "move" => Past(writer[w], copy.refs)

\* A commit that is still to be published or rolled back, and whose branch is
\* where it took it.
Ahead1(q, r, v) ==
    /\ q.pc \in {"plan", "publish", "reset"}
    /\ q.work = "commit"
    /\ r \in q.upd.touch
    /\ v = q.upd.new[r]

AheadAt(r) == \E w \in Local : Ahead1(writer[w], r, copy.refs[r])

RefsAgree == Current => \A r \in Refs : copy.refs[r] = index.refs[r] \/ AheadAt(r)

\* A materialisation works on a copy that is behind, and what it has not to
\* write, or has written, is as in the index it read, unless that has changed.
MatAgrees ==
    /\ lock.pc \in {"recreate", "apply", "update", "stamp"} => copy.state.gen # generation
    /\ (lock.pc = "update" /\ lock.gen = generation) =>
        \A r \in Refs : r \in ToUpdate \/ copy.refs[r] = index.refs[r]
    /\ (lock.pc = "stamp" /\ lock.gen = generation) => copy.refs = index.refs

\* Why a copy at the current generation has the refs of the index, but for the
\* writes in flight.
AgreeInv ==
    /\ RefsMade
    /\ WritesMade
    /\ PushesMove
    /\ MovesPast
    /\ RefsAgree
    /\ MatAgrees

\* No write starts, goes on or ends.
SameWrites ==
    \A w \in Local \cup Remote :
        (writer[w].pc \in InFlight \/ writer'[w].pc \in InFlight) =>
            /\ writer'[w].pc = writer[w].pc
            /\ writer'[w].upd = writer[w].upd
            /\ writer'[w].work = writer[w].work

\* Then what is known of the writes in flight stays.
LEMMA SameWritesFacts ==
    ASSUME SameWrites, UNCHANGED <<log, made>>, WritesMade, PushesMove
    PROVE  WritesMade' /\ PushesMove'
<1>1. WritesMade'
  BY DEF SameWrites, WritesMade, KnownIn
<1>2. PushesMove'
  <2> SUFFICES ASSUME NEW w \in Local
               PROVE  /\ (writer'[w].pc \in InFlight /\ writer'[w].work = "push") => Moves(writer'[w])
                      /\ writer'[w].pc = "move" =>
                            Forward(writer'[w]) /\ Reached(writer'[w], index'.refs)
    BY DEF PushesMove
  <2>1. CASE writer'[w].pc \in InFlight
    <3>1. /\ writer'[w].pc = writer[w].pc /\ writer'[w].upd = writer[w].upd
          /\ writer'[w].work = writer[w].work /\ index'.refs = index.refs
      BY <2>1 DEF SameWrites, log
    <3>2. Moves(writer'[w]) <=> Moves(writer[w])
      BY <3>1 DEF Moves
    <3>3. Forward(writer'[w]) <=> Forward(writer[w])
      BY <3>1 DEF Forward
    <3>4. Reached(writer'[w], index'.refs) <=> Reached(writer[w], index.refs)
      BY <3>1 DEF Reached
    <3>5. QED
      BY <2>1, <3>1, <3>2, <3>3, <3>4 DEF PushesMove
  <2>2. CASE writer'[w].pc \notin InFlight
    BY <2>2 DEF InFlight
  <2>3. QED
    BY <2>1, <2>2
<1>3. QED
  BY <1>1, <1>2

\* A copy that is not touched, or not at the current generation afterwards.
LEMMA SameAgree ==
    ASSUME AgreeInv, UNCHANGED <<log, made>>, SameWrites, RefsMade', MatAgrees',
           ~Current' \/ (copy'.refs = copy.refs /\ copy'.state = copy.state)
    PROVE  AgreeInv'
<1>1. WritesMade' /\ PushesMove'
  BY SameWritesFacts DEF AgreeInv
<1>2. CASE ~Current'
  BY <1>1, <1>2 DEF AgreeInv, MovesPast, RefsAgree
<1>3. CASE copy'.refs = copy.refs /\ copy'.state = copy.state
  <2>1. Current' <=> Current
    BY <1>3 DEF Current, log
  <2>2. MovesPast'
    <3> SUFFICES ASSUME Current, NEW w \in Local, writer'[w].pc = "move"
                 PROVE  Past(writer'[w], copy'.refs)
      BY <2>1 DEF MovesPast
    <3>1. writer[w].pc = "move" /\ writer'[w].upd = writer[w].upd
      BY DEF SameWrites, InFlight
    <3>2. QED
      BY <1>3, <3>1 DEF AgreeInv, MovesPast, Past
  <2>3. RefsAgree'
    <3> SUFFICES ASSUME Current, NEW r \in Refs, copy.refs[r] # index.refs[r]
                 PROVE  AheadAt(r)'
      BY <1>3, <2>1 DEF RefsAgree, log
    <3>1. PICK w \in Local : Ahead1(writer[w], r, copy.refs[r])
      BY DEF AgreeInv, RefsAgree, AheadAt
    <3>2. /\ writer'[w].pc = writer[w].pc /\ writer'[w].upd = writer[w].upd
          /\ writer'[w].work = writer[w].work
      BY <3>1 DEF SameWrites, InFlight, Ahead1
    <3>3. Ahead1(writer'[w], r, copy'.refs[r])
      BY <1>3, <3>1, <3>2 DEF Ahead1
    <3>4. QED
      BY <3>3 DEF AheadAt
  <2>4. QED
    BY <1>1, <2>2, <2>3 DEF AgreeInv
<1>4. QED
  BY <1>2, <1>3

\* The log itself is past what a push that has landed would move.
LEMMA LandedPast ==
    ASSUME TypeInv, PushesMove, Acyclic, NEW w \in Local, writer[w].pc = "move"
    PROVE  Past(writer[w], index.refs)
<1> DEFINE q == writer[w]
<1>1. WriterOK(w, q) /\ q \in WriterState /\ index.refs \in RefMap
  BY ShapeFacts
<1>2. /\ q.upd \in Update
      /\ Moves(q) /\ Forward(q) /\ Reached(q, index.refs)
  BY <1>1 DEF WriterOK, WriterState, PushesMove, InFlight
<1> HIDE DEF q
<1> SUFFICES ASSUME NEW r \in q.upd.touch PROVE index.refs[r] # q.upd.old[r]
  BY DEF Past, q
<1> DEFINE old == q.upd.old[r]
           new == q.upd.new[r]
<1>3. /\ r \in Refs /\ old \in Commits \cup {NoCommit} /\ new \in Commits \cup {NoCommit}
      /\ index.refs[r] \in Commits \cup {NoCommit}
  BY <1>1, <1>2 DEF Update, RefMap
<1>4. /\ old # new /\ new # NoCommit /\ (old # NoCommit => old \in Reach[new])
      /\ index.refs[r] # NoCommit /\ new \in Reach[index.refs[r]]
  BY <1>2 DEF Moves, Forward, Reached
<1> HIDE DEF old, new
<1>5. index.refs[r] # old
  BY <1>3, <1>4 DEF Acyclic
<1>6. QED
  BY <1>5 DEF old

\* A state file written over refs that are the index's.
LEMMA StampedAgree ==
    ASSUME TypeInv, AgreeInv, Acyclic, UNCHANGED <<log, made>>, SameWrites,
           lock.pc # "free", lock'.pc = "free",
           copy'.refs = copy.refs, copy'.state = StateOf(lock.gen, lock.ix),
           lock.gen = generation => copy.refs = index.refs
    PROVE  AgreeInv'
<1>1. WritesMade' /\ PushesMove'
  BY SameWritesFacts DEF AgreeInv
<1>2. copy'.state.gen = lock.gen /\ copy'.state.refs = lock.ix.refs
  BY StateOfFacts
<1>3. RefsMade'
  BY <1>2 DEF AgreeInv, RefsMade, log
<1>4. MatAgrees'
  BY DEF MatAgrees
<1>5. Current' => copy'.refs = index.refs /\ index'.refs = index.refs
  BY <1>2 DEF Current, log
<1>6. RefsAgree'
  BY <1>5 DEF RefsAgree
<1>7. MovesPast'
  <2> SUFFICES ASSUME copy'.refs = index.refs, NEW w \in Local, writer'[w].pc = "move"
               PROVE  Past(writer'[w], copy'.refs)
    BY <1>5 DEF MovesPast
  <2>1. writer[w].pc = "move" /\ writer'[w].upd = writer[w].upd
    BY DEF SameWrites, InFlight
  <2>2. Past(writer[w], index.refs)
    BY <2>1, LandedPast DEF AgreeInv
  <2>3. QED
    BY <2>1, <2>2 DEF Past
<1>8. QED
  BY <1>1, <1>3, <1>4, <1>6, <1>7 DEF AgreeInv

\* A request that waits for the copy, or ends, is no write yet.
LEMMA HolderSame ==
    ASSUME TypeInv, NEW who \in Local \cup {Reader}, Ensuring(who),
           writer' \in {Served(who), Failed(who)}
    PROVE  SameWrites
<1>1. writer \in [Local \cup Remote -> WriterState] /\ WriterIdle.pc = "idle"
  BY IdleFacts DEF TypeInv, WritersOK
<1>2. CASE who = Reader
  BY <1>2 DEF Served, Failed, SameWrites
<1>3. CASE who # Reader
  <2>1. writer[who].pc = "ensure" /\ who \in Local
    BY <1>3 DEF Ensuring
  <2>2. \A w \in Local \cup Remote : w # who => writer'[w] = writer[w]
    BY <1>1, <1>3 DEF Served, Failed
  <2>3. writer'[who].pc \in {"open", "idle"}
    BY <1>1, <1>3, <2>1 DEF Served, Failed, WriterState
  <2>4. QED
    BY <2>1, <2>2, <2>3 DEF SameWrites, InFlight
<1>4. QED
  BY <1>2, <1>3

\* Nor does losing the quarantines end a write.
LEMMA EmptiedSame ==
    ASSUME TypeInv, NEW ws \in [Local \cup Remote -> WriterState],
           \A w \in Local \cup Remote : WriterOK(w, ws[w]),
           writer' = WithoutQuarantines(ws),
           \A w \in Local \cup Remote :
                ws[w] = writer[w] \/ (ws[w].pc = "idle" /\ writer[w].pc = "ensure")
    PROVE  SameWrites
<1>1. \A w \in Local \cup Remote :
        writer'[w].pc = ws[w].pc /\ writer'[w].upd = ws[w].upd /\ writer'[w].work = ws[w].work
  BY EmptiedFacts
<1>2. QED
  BY <1>1 DEF SameWrites, InFlight

\* A request and a writer that are not writes before and after.
LEMMA AloneSame ==
    ASSUME NEW w \in Local \cup Remote, NEW q, Alone(w, q),
           writer[w].pc \notin InFlight, q.pc \notin InFlight
    PROVE  SameWrites
BY DEF Alone, SameWrites

\* A request is served from the copy as it is.
LEMMA EnsureAgrees ==
    ASSUME CopyInv, AgreeInv, NEW who \in Local \cup {Reader}, EnsureHit(who) \/ EnsureAlarm(who)
    PROVE  AgreeInv'
<1>1. /\ UNCHANGED <<log, made, copy, lock>> /\ TypeInv /\ Ensuring(who)
      /\ writer' \in {Served(who), Failed(who)}
  BY DEF EnsureHit, EnsureAlarm, CopyInv
<1>2. SameWrites
  BY <1>1, HolderSame
<1>3. RefsMade' /\ MatAgrees'
  BY <1>1 DEF AgreeInv, RefsMade, MatAgrees, ToUpdate, log
<1>4. QED
  BY <1>1, <1>2, <1>3, SameAgree

\* A copy that is materialised is not at the current generation.
LEMMA MatBeginAgrees ==
    ASSUME CopyInv, AgreeInv, NEW who \in Local \cup {Reader}, MatBegin(who)
    PROVE  AgreeInv'
<1>1. /\ UNCHANGED <<log, made, copy, writer>> /\ generation # 0
      /\ ~CacheHit(copy, generation, index)
      /\ lock'.pc \in {"recreate", "apply"} /\ lock'.ix = index
  BY DEF MatBegin, LockFree
<1>2. copy.state.gen # generation
  <2>1. ~copy.bare => copy.state.gen = 0
    BY DEF CopyInv, StateCurrent, Gone, NoState
  <2>2. QED
    BY <1>1, <2>1 DEF CacheHit
<1>3. SameWrites
  BY <1>1 DEF SameWrites
<1>4. RefsMade' /\ MatAgrees'
  BY <1>1, <1>2 DEF AgreeInv, RefsMade, MatAgrees, log
<1>5. QED
  BY <1>1, <1>3, <1>4, SameAgree

\* An empty copy is at no generation.
LEMMA BlankAgrees ==
    ASSUME CopyInv, AgreeInv, UNCHANGED <<log, made>>, SameWrites, copy' = Bare \/ copy' = Gone,
           lock'.pc = "free" \/ (lock'.pc = "apply" /\ lock.pc # "free" /\ lock'.ix = lock.ix),
           lock'.pc # "free" => generation # 0
    PROVE  AgreeInv'
<1>1. copy'.refs = NoRefs /\ copy'.state.gen = 0 /\ copy'.state.refs = NoRefs
  BY BlankIsSound DEF Bare, Gone, NoState
<1>2. ~Current'
  BY <1>1 DEF Current
<1>3. RefsMade' /\ MatAgrees'
  BY <1>1, NoRefsFacts DEF AgreeInv, RefsMade, MatAgrees, log
<1>4. QED
  BY <1>2, <1>3, SameAgree

\* A cleared directory is at no generation.
LEMMA MatRecreateAgrees ==
    ASSUME CopyInv, AgreeInv, MatRecreate
    PROVE  AgreeInv'
<1>1. /\ lock.pc = "recreate" /\ copy' = Bare /\ writer' = WithoutQuarantines(writer)
      /\ lock' = [lock EXCEPT !.pc = "apply"] /\ UNCHANGED <<log, made>>
  BY DEF MatRecreate
<1>2. TypeInv /\ lock \in LockState
  BY ShapeFacts DEF CopyInv
<1>3. lock'.pc = "apply" /\ lock'.ix = lock.ix
  BY <1>1, <1>2 DEF LockState
<1>4. SameWrites
  <2>1. /\ writer \in [Local \cup Remote -> WriterState]
        /\ \A w \in Local \cup Remote : WriterOK(w, writer[w])
    BY <1>2 DEF TypeInv, WritersOK
  <2>2. QED
    BY <1>1, <1>2, <2>1, EmptiedSame
<1>5. generation # 0
  BY <1>1, ShapeFacts DEF CopyInv, LockCurrent, TypeInv, LogOK
<1>6. QED
  BY <1>1, <1>3, <1>4, <1>5, BlankAgrees

\* A materialisation that goes on, over a copy that is behind.
LEMMA GoesOnAgrees ==
    ASSUME CopyInv, AgreeInv, UNCHANGED <<log, made>>, GoesOn, lock.pc \in {"apply", "update"},
           Tips(copy'.refs) \subseteq made, MatAgrees'
    PROVE  AgreeInv'
<1>1. ~Current'
  BY DEF AgreeInv, MatAgrees, GoesOn, Current, log
<1>2. SameWrites
  BY DEF SameWrites, GoesOn
<1>3. RefsMade'
  BY DEF AgreeInv, RefsMade, GoesOn, log
<1>4. QED
  BY <1>1, <1>2, <1>3, SameAgree

\* A materialisation that gives up leaves a copy that is behind.
LEMMA GivenUpAgrees ==
    ASSUME CopyInv, AgreeInv, UNCHANGED <<log, made>>, GivenUp,
           lock.pc \in {"recreate", "apply", "update", "stamp"}
    PROVE  AgreeInv'
<1>1. /\ TypeInv /\ lock'.pc = "free" /\ copy' = copy /\ writer' = Failed(lock.who)
      /\ lock.who \in Local \cup {Reader} /\ Ensuring(lock.who)
  BY ShapeFacts DEF CopyInv, GivenUp, LockFree, TypeInv, HolderOK
<1>2. SameWrites
  BY <1>1, HolderSame
<1>3. RefsMade' /\ MatAgrees'
  BY <1>1 DEF AgreeInv, RefsMade, MatAgrees, log
<1>4. QED
  BY <1>1, <1>2, <1>3, SameAgree

\* Packs leave the refs alone.
LEMMA MatApplyAgrees ==
    ASSUME CopyInv, AgreeInv, MatApply
    PROVE  AgreeInv'
<1>1. /\ lock.pc = "apply" /\ UNCHANGED <<log, made>> /\ (AppliedNext \/ GivenUp)
  BY MatApplyFacts DEF CopyInv
<1>2. CASE GivenUp
  BY <1>1, <1>2, GivenUpAgrees
<1>3. CASE AppliedNext
  <2>1. GoesOn /\ copy'.refs = copy.refs /\ lock'.pc = "apply"
    BY <1>3 DEF AppliedNext
  <2>2. MatAgrees'
    BY <1>1, <2>1 DEF AgreeInv, MatAgrees, GoesOn, log
  <2>3. Tips(copy'.refs) \subseteq made
    BY <2>1 DEF AgreeInv, RefsMade
  <2>4. QED
    BY <1>1, <2>1, <2>2, <2>3, GoesOnAgrees
<1>4. QED
  BY <1>1, <1>2, <1>3

\* What is left after the deletions and not listed to be set is as it should be.
LEMMA MatDeleteAgrees ==
    ASSUME CopyInv, AgreeInv, MatDelete
    PROVE  AgreeInv'
<1>1. /\ lock.pc = "apply" /\ UNCHANGED <<log, made>> /\ GoesOn
      /\ copy'.refs = WithoutDropped /\ lock'.pc = "update" /\ lock'.listed = copy.refs
  BY MatDeleteFacts DEF CopyInv
<1>2. /\ lock'.ix = lock.ix /\ lock'.gen = lock.gen /\ copy'.state = copy.state
      /\ index' = index /\ generation' = generation
  BY <1>1 DEF GoesOn, log
<1>3. lock.gen = generation => lock.ix = index
  BY <1>1 DEF CopyInv, LockCurrent
<1>4. \A r \in Refs : copy'.refs[r] = IF lock.ix.refs[r] = NoCommit THEN NoCommit ELSE copy.refs[r]
  BY <1>1 DEF WithoutDropped
<1>5. \A r \in Refs : r \in ToUpdate' \/ copy'.refs[r] = lock.ix.refs[r]
  BY <1>1, <1>2, <1>4 DEF ToUpdate
<1>6. MatAgrees'
  BY <1>1, <1>2, <1>3, <1>5 DEF AgreeInv, MatAgrees
<1>7. Tips(copy'.refs) \subseteq made
  <2>1. Tips(copy'.refs) \subseteq Tips(copy.refs)
    BY <1>4 DEF Tips
  <2>2. QED
    BY <2>1 DEF AgreeInv, RefsMade
<1>8. QED
  BY <1>1, <1>6, <1>7, GoesOnAgrees

\* Once the refs are set they are as in the index that was read.
LEMMA MatUpdateAgrees ==
    ASSUME CopyInv, AgreeInv, MatUpdate
    PROVE  AgreeInv'
<1>1. lock.pc = "update" /\ UNCHANGED <<log, made>> /\ (UpdatedNext \/ GivenUp)
  BY MatUpdateFacts DEF CopyInv
<1>2. CASE GivenUp
  BY <1>1, <1>2, GivenUpAgrees
<1>3. CASE UpdatedNext
  <2>1. GoesOn /\ copy'.refs = WithUpdated /\ lock'.pc = "stamp"
    BY <1>3 DEF UpdatedNext
  <2>2. /\ lock'.ix = lock.ix /\ lock'.gen = lock.gen /\ copy'.state = copy.state
        /\ index' = index /\ generation' = generation
    BY <1>1, <2>1 DEF GoesOn, log
  <2>3. (lock.gen = generation => lock.ix = index) /\ index.refs \in RefMap
    BY <1>1, ShapeFacts DEF CopyInv, LockCurrent
  <2>4. \A r \in Refs : copy'.refs[r] = IF r \in ToUpdate THEN lock.ix.refs[r] ELSE copy.refs[r]
    BY <2>1 DEF WithUpdated
  <2>5. lock.gen = generation => \A r \in Refs : copy'.refs[r] = index.refs[r]
    BY <1>1, <2>3, <2>4 DEF AgreeInv, MatAgrees
  <2>6. lock.gen = generation => copy'.refs = index.refs
    <3>1. copy'.refs = [r \in Refs |-> copy'.refs[r]]
      BY <2>1 DEF WithUpdated
    <3>2. index.refs = [r \in Refs |-> index.refs[r]]
      BY <2>3 DEF RefMap
    <3>3. QED
      BY <2>5, <3>1, <3>2
  <2>7. MatAgrees'
    BY <1>1, <2>1, <2>2, <2>6 DEF AgreeInv, MatAgrees
  <2>8. Tips(copy'.refs) \subseteq made
    <3>1. Tips(copy'.refs) \subseteq Tips(copy.refs) \cup Tips(lock.ix.refs)
      BY <2>4 DEF Tips
    <3>2. QED
      BY <1>1, <3>1 DEF AgreeInv, RefsMade
  <2>9. QED
    BY <1>1, <2>1, <2>7, <2>8, GoesOnAgrees
<1>4. QED
  BY <1>1, <1>2, <1>3

\* The state file is written over those refs.
LEMMA MatStampAgrees ==
    ASSUME CopyInv, AgreeInv, Acyclic, MatStamp
    PROVE  AgreeInv'
<1>1. /\ TypeInv /\ lock.pc = "stamp" /\ UNCHANGED <<log, made>>
      /\ copy'.state = StateOf(lock.gen, lock.ix) /\ copy'.refs = copy.refs
      /\ lock'.pc = "free" /\ writer' = Served(lock.who)
  BY MatStampFacts DEF CopyInv, LockFree
<1>2. lock.who \in Local \cup {Reader} /\ Ensuring(lock.who)
  BY <1>1, ShapeFacts DEF TypeInv, HolderOK
<1>3. SameWrites
  BY <1>1, <1>2, HolderSame
<1>4. lock.gen = generation => copy.refs = index.refs
  BY <1>1 DEF AgreeInv, MatAgrees
<1>5. QED
  BY <1>1, <1>3, <1>4, StampedAgree

\* A materialisation that fails leaves a copy that is behind, or none.
LEMMA MatFaultAgrees ==
    ASSUME CopyInv, AgreeInv, MatFault
    PROVE  AgreeInv'
<1>1. /\ TypeInv /\ lock' = LockFree /\ UNCHANGED <<log, made>> /\ lock'.pc = "free"
      /\ lock.pc \in {"recreate", "apply", "update", "stamp"}
      /\ lock.who \in Local \cup {Reader} /\ Ensuring(lock.who)
  BY ShapeFacts DEF CopyInv, MatFault, LockFree, TypeInv, HolderOK
<1>2. CASE copy' = copy /\ writer' = Failed(lock.who)
  BY <1>1, <1>2, GivenUpAgrees DEF GivenUp
<1>3. CASE copy' = Gone /\ writer' = WithoutQuarantines(Failed(lock.who))
  <2> DEFINE ws == Failed(lock.who)
  <2>1. /\ ws \in [Local \cup Remote -> WriterState]
        /\ \A w \in Local \cup Remote : WriterOK(w, ws[w])
    BY <1>1, ShapeFacts, IdleFacts DEF TypeInv, WritersOK, Failed
  <2>2. \A w \in Local \cup Remote :
            ws[w] = writer[w] \/ (ws[w].pc = "idle" /\ writer[w].pc = "ensure")
    BY <1>1, IdleFacts DEF TypeInv, WritersOK, Failed, Ensuring
  <2>3. writer' = WithoutQuarantines(ws)
    BY <1>3
  <2> HIDE DEF ws
  <2>4. SameWrites
    BY <1>1, <2>1, <2>2, <2>3, EmptiedSame
  <2>5. QED
    BY <1>1, <1>3, <2>4, BlankAgrees
<1>4. QED
  BY <1>2, <1>3 DEF MatFault

\* An adoption takes the lock.
LEMMA AdoptReadAgrees ==
    ASSUME CopyInv, AgreeInv, NEW w \in Local, AdoptRead(w)
    PROVE  AgreeInv'
<1>1. /\ writer[w].pc = "adopt" /\ IsFree /\ WriterIdle.pc = "idle"
      /\ \/ Alone(w, WriterIdle) /\ UNCHANGED <<log, made, copy, lock>>
         \/ /\ lock'.pc = "adopt" /\ lock'.ix = index /\ UNCHANGED <<log, made, copy, writer>>
  BY AdoptReadTypes, IdleFacts DEF CopyInv
<1>2. SameWrites
  <2>1. CASE Alone(w, WriterIdle)
    BY <1>1, <2>1, AloneSame DEF InFlight
  <2>2. CASE UNCHANGED writer
    BY <2>2 DEF SameWrites
  <2>3. QED
    BY <1>1, <2>1, <2>2
<1>3. RefsMade' /\ MatAgrees' /\ UNCHANGED <<log, made, copy>>
  BY <1>1 DEF AgreeInv, RefsMade, MatAgrees, log, IsFree
<1>4. QED
  BY <1>2, <1>3, SameAgree

\* An adoption stamps a copy that has the refs of the index it read.
LEMMA AdoptStampAgrees ==
    ASSUME CopyInv, AgreeInv, Acyclic, AdoptStamp
    PROVE  AgreeInv'
<1>1. /\ TypeInv /\ lock.pc = "adopt" /\ lock.who \in Local /\ writer[lock.who].pc = "adopt"
      /\ lock'.pc = "free" /\ Alone(lock.who, WriterIdle) /\ UNCHANGED <<log, made>>
      /\ \/ UNCHANGED copy
         \/ /\ copy.refs = lock.ix.refs
            /\ copy'.state = StateOf(lock.gen, lock.ix)
            /\ copy'.refs = copy.refs
  BY AdoptStampTypes DEF CopyInv, LockFree
<1>2. SameWrites
  BY <1>1, IdleFacts, AloneSame DEF InFlight
<1>3. CASE UNCHANGED copy
  <2>1. RefsMade' /\ MatAgrees'
    BY <1>1, <1>3 DEF AgreeInv, RefsMade, MatAgrees, log
  <2>2. QED
    BY <1>1, <1>2, <1>3, <2>1, SameAgree
<1>4. CASE /\ copy.refs = lock.ix.refs
           /\ copy'.state = StateOf(lock.gen, lock.ix)
           /\ copy'.refs = copy.refs
  <2>1. lock.gen = generation => copy.refs = index.refs
    BY <1>1, <1>4 DEF CopyInv, LockCurrent
  <2>2. QED
    BY <1>1, <1>2, <1>4, <2>1, StampedAgree
<1>5. QED
  BY <1>1, <1>3, <1>4

\* A write goes on, to be published or rolled back.
KeepsGoing(w, q) ==
    /\ q.pc \in {"plan", "publish", "reset"}
    /\ q.work = writer[w].work
    /\ q.upd = writer[w].upd

\* One write starts or goes on, while nothing it could be compared with moves.
LEMMA OneWriteAgrees ==
    ASSUME AgreeInv, UNCHANGED <<log, lock>>, copy'.refs = copy.refs, copy'.state = copy.state,
           made \subseteq made', ReachAll(made') \subseteq made',
           NEW w \in Local \cup Remote, NEW q, Alone(w, q), q.pc # "move",
           q.pc \in InFlight => KnownIn(q, made'),
           (w \in Local /\ q.pc \in InFlight /\ q.work = "push") => Moves(q),
           (/\ writer[w].pc \in {"plan", "publish", "reset"}
            /\ writer[w].work = "commit" /\ w \in Local) => KeepsGoing(w, q)
    PROVE  AgreeInv'
<1>1. /\ index' = index /\ generation' = generation /\ (Current' <=> Current)
      /\ writer'[w] = q
      /\ \A v \in (Local \cup Remote) \ {w} : writer'[v] = writer[v]
  BY DEF log, Current, Alone
<1>2. RefsMade' /\ MatAgrees'
  <2>1. RefsMade'
    BY <1>1 DEF AgreeInv, RefsMade
  <2>2. MatAgrees'
    BY <1>1 DEF AgreeInv, MatAgrees, ToUpdate
  <2>3. QED
    BY <2>1, <2>2
<1>3. WritesMade'
  <2> SUFFICES ASSUME NEW v \in Local \cup Remote, writer'[v].pc \in InFlight
               PROVE  KnownIn(writer'[v], made')
    BY DEF WritesMade
  <2>1. CASE v = w
    BY <1>1, <2>1
  <2>2. CASE v # w
    <3>1. KnownIn(writer[v], made)
      BY <1>1, <2>2 DEF AgreeInv, WritesMade
    <3>2. QED
      BY <1>1, <2>2, <3>1 DEF KnownIn
  <2>3. QED
    BY <2>1, <2>2
<1>4. PushesMove'
  <2> SUFFICES ASSUME NEW v \in Local
               PROVE  /\ (writer'[v].pc \in InFlight /\ writer'[v].work = "push") => Moves(writer'[v])
                      /\ writer'[v].pc = "move" =>
                            Forward(writer'[v]) /\ Reached(writer'[v], index'.refs)
    BY DEF PushesMove
  <2>1. CASE v = w
    BY <1>1, <2>1
  <2>2. CASE v # w
    BY <1>1, <2>2 DEF AgreeInv, PushesMove
  <2>3. QED
    BY <2>1, <2>2
<1>5. MovesPast'
  <2> SUFFICES ASSUME Current, NEW v \in Local, writer'[v].pc = "move"
               PROVE  Past(writer'[v], copy.refs)
    BY <1>1 DEF MovesPast
  <2>1. v # w
    BY <1>1
  <2>2. QED
    BY <1>1, <2>1 DEF AgreeInv, MovesPast
<1>6. RefsAgree'
  <2> SUFFICES ASSUME Current, NEW r \in Refs, copy.refs[r] # index.refs[r]
               PROVE  AheadAt(r)'
    BY <1>1 DEF RefsAgree
  <2>1. PICK v \in Local : Ahead1(writer[v], r, copy.refs[r])
    BY DEF AgreeInv, RefsAgree, AheadAt
  <2>2. Ahead1(writer'[v], r, copy.refs[r])
    <3>1. CASE v = w
      <4>1. KeepsGoing(w, q)
        BY <2>1, <3>1 DEF Ahead1
      <4>2. QED
        BY <1>1, <2>1, <3>1, <4>1 DEF Ahead1, KeepsGoing
    <3>2. CASE v # w
      BY <1>1, <2>1, <3>2
    <3>3. QED
      BY <3>1, <3>2
  <2>3. QED
    BY <2>2 DEF AheadAt
<1>7. QED
  BY <1>2, <1>3, <1>4, <1>5, <1>6 DEF AgreeInv

\* A request comes in or ends before it is a write.
LEMMA RequestAgrees ==
    ASSUME CopyInv, AgreeInv, NEW w \in Local, Ask(w) \/ Refuse(w) \/ AdoptFault(w)
    PROVE  AgreeInv'
<1>1. UNCHANGED <<log, made, copy, lock>> /\ TypeInv
      /\ writer[w].pc \in {"idle", "open", "adopt"}
  BY DEF Ask, Refuse, AdoptFault, CopyInv
<1>2. \E q : Alone(w, q) /\ q.pc \in {"idle", "ensure"}
  <2>1. WriterIdle.pc = "idle"
    BY IdleFacts
  <2>2. QED
    BY <1>1, <2>1, AskTypes, RefuseTypes, AdoptFaultTypes
<1>3. PICK q : Alone(w, q) /\ q.pc \in {"idle", "ensure"}
  BY <1>2
<1>4. SameWrites
  BY <1>1, <1>3, AloneSame DEF InFlight
<1>5. RefsMade' /\ MatAgrees'
  BY <1>1 DEF AgreeInv, RefsMade, MatAgrees, ToUpdate, log
<1>6. QED
  BY <1>1, <1>4, <1>5, SameAgree

\* What a push that only goes forward moves a ref to: something else, that is
\* new or already there, and builds on what is there.
LEMMA TargetsMade ==
    ASSUME ~Rewinds, made \subseteq Commits, ReachAll(made) \subseteq made,
           NEW refs \in RefMap, Tips(refs) \subseteq made, NEW r \in Refs,
           NEW new \in Targets(refs, refs[r])
    PROVE  /\ new \in Commits /\ new # refs[r]
           /\ Reach[new] \subseteq made \cup {new}
           /\ refs[r] \in made \cup {NoCommit}
<1> DEFINE old == refs[r]
           known == ReachAll(Tips(refs))
<1>1. old \in made \cup {NoCommit}
  BY DEF Tips
<1>2. known \subseteq made
  <2>1. Tips(refs) \in SUBSET Commits /\ made \in SUBSET Commits
    OBVIOUS
  <2>2. known \subseteq ReachAll(made)
    BY <2>1, ReachAllFacts
  <2>3. QED
    BY <2>2
<1>3. new \in NewCommits(old) \/ new \in known \ {old}
  BY DEF Targets
<1> HIDE DEF known
<1>4. CASE new \in NewCommits(old)
  <2>1. new \in Commits /\ new \notin made
        /\ Reach[new] = {new} \cup (IF old = NoCommit THEN {} ELSE Reach[old])
    BY <1>4, NewCommitFacts
  <2>2. old # NoCommit => Reach[old] \subseteq made
    BY <1>1 DEF ReachAll
  <2>3. new # old
    BY <1>1, <2>1, GitAssumption
  <2>4. QED
    BY <1>1, <2>1, <2>2, <2>3
<1>5. CASE new \in known \ {old}
  <2>1. new \in made /\ new # old
    BY <1>2, <1>5
  <2>2. Reach[new] \subseteq made
    BY <2>1 DEF ReachAll
  <2>3. QED
    BY <1>1, <2>1, <2>2
<1>6. QED
  BY <1>3, <1>4, <1>5

\* Commits made on top of what is there leave it closed.
LEMMA MoreMade ==
    ASSUME made \subseteq Commits, ReachAll(made) \subseteq made, NEW more \in SUBSET Commits,
           ReachAll(more) \subseteq made \cup more
    PROVE  ReachAll(made \cup more) \subseteq made \cup more
BY DEF ReachAll

\* A write that has been worked out moves one ref between commits there are.
LEMMA OneKnown ==
    ASSUME NEW q, NEW r, NEW known, q.upd.touch = {r},
           q.upd.old[r] \in known \cup {NoCommit}, q.upd.new[r] \in known \cup {NoCommit}
    PROVE  KnownIn(q, known) /\ (q.upd.new[r] # q.upd.old[r] => Moves(q))
BY DEF KnownIn, Moves

\* A receive-pack names a commit other than the one its ref is at.
LEMMA ReceiveAgrees ==
    ASSUME CopyInv, AgreeInv, NEW w \in Local, Receive(w), ~Rewinds,
           Work \subseteq {"commit", "push"}
    PROVE  AgreeInv'
<1>1. TypeInv /\ copy.refs \in RefMap /\ made \subseteq Commits
      /\ \E q, new, sent : Received(w, q, new, sent)
  BY ReceiveTypes, ShapeFacts DEF CopyInv
<1>2. PICK q, new, sent : Received(w, q, new, sent)
  BY <1>1
<1>0. Advertised = copy.refs
  <2>1. writer[w].pc = "open"
    BY <1>2 DEF Received
  <2>2. QED
    BY <2>1, SoundFacts, OnlyCommitsFacts
<1> DEFINE r == RefOf(w)
           old == copy.refs[r]
<1>3. /\ writer[w].pc = "open" /\ new \in Targets(copy.refs, old)
      /\ sent = PackObjects({new} \ {NoCommit}, Tips(copy.refs)) /\ made' = made \cup sent
      /\ Alone(w, q) /\ q.pc = "plan" /\ q.upd.touch = {r} /\ q.upd.old[r] = old
      /\ q.upd.new[r] = new /\ UNCHANGED <<log, lock, copy>>
  BY <1>0, <1>2 DEF Received
<1>4. r \in Refs
  BY <1>1, <1>3, RefOfFacts DEF TypeInv
<1>5. ReachAll(made) \subseteq made /\ Tips(copy.refs) \subseteq made
  BY DEF AgreeInv, RefsMade
<1>6. /\ new \in Commits /\ new # old
      /\ Reach[new] \subseteq made \cup {new}
      /\ old \in made \cup {NoCommit}
  BY <1>1, <1>3, <1>4, <1>5, TargetsMade
<1> HIDE DEF old, r
<1>7. /\ sent \subseteq Reach[new] /\ Reach[new] \subseteq Commits /\ new \in Reach[new]
      /\ Reach[new] \subseteq made \cup sent
  <2>1. {new} \ {NoCommit} = {new} /\ ReachAll({new}) = Reach[new]
        /\ Reach[new] \subseteq Commits /\ new \in Reach[new]
    BY <1>6, GitAssumption, OneReachFacts
  <2>2. ReachAll(Tips(copy.refs)) \subseteq made
    BY <1>5 DEF ReachAll
  <2>3. QED
    BY <1>3, <2>1, <2>2 DEF PackObjects
<1>8. ReachAll(made') \subseteq made'
  <2>1. sent \in SUBSET Commits
    BY <1>7
  <2>2. ReachAll(sent) \subseteq Reach[new]
    BY <1>6, <1>7, GitAssumption DEF ReachAll
  <2>3. QED
    BY <1>1, <1>3, <1>5, <1>7, <2>1, <2>2, MoreMade
<1>9. KnownIn(q, made') /\ Moves(q)
  BY <1>3, <1>6, <1>7, OneKnown
<1>10. QED
  BY <1>3, <1>8, <1>9, OneWriteAgrees

\* Another instance's push is none of this copy's.
LEMMA AskElsewhereAgrees ==
    ASSUME CopyInv, AgreeInv, NEW w \in Remote, AskElsewhere(w), ~Rewinds
    PROVE  AgreeInv'
<1>1. TypeInv /\ index.refs \in RefMap /\ made \subseteq Commits
      /\ \E q, r, new : AskedElsewhere(w, q, r, new)
  BY AskElsewhereTypes, ShapeFacts DEF CopyInv
<1>2. PICK q, r, new : AskedElsewhere(w, q, r, new)
  BY <1>1
<1> DEFINE old == index.refs[r]
<1>3. /\ writer[w].pc = "idle" /\ r \in Refs /\ new \in Targets(index.refs, old)
      /\ made' = made \cup ({new} \ {NoCommit})
      /\ Alone(w, q) /\ q.pc = "plan" /\ q.upd.touch = {r} /\ q.upd.old[r] = old
      /\ q.upd.new[r] = new /\ UNCHANGED <<log, lock, copy>>
  BY <1>2 DEF AskedElsewhere
<1>4. w \notin Local
  BY LocalCopyAssumption
<1>5. ReachAll(made) \subseteq made /\ Tips(index.refs) \subseteq made
  BY DEF AgreeInv, RefsMade
<1>6. /\ new \in Commits /\ Reach[new] \subseteq made \cup {new} /\ old \in made \cup {NoCommit}
  BY <1>1, <1>3, <1>5, TargetsMade
<1> HIDE DEF old
<1>7. made' = made \cup {new}
  BY <1>3, <1>6, GitAssumption
<1>8. ReachAll(made') \subseteq made'
  <2>1. {new} \in SUBSET Commits /\ ReachAll({new}) \subseteq made \cup {new}
    BY <1>6, OneReachFacts
  <2>2. QED
    BY <1>1, <1>5, <1>7, <2>1, MoreMade
<1>9. KnownIn(q, made')
  BY <1>3, <1>6, <1>7, OneKnown
<1>10. QED
  BY <1>3, <1>4, <1>7, <1>8, <1>9, OneWriteAgrees

\* A write that does not land goes on, is rolled back or ends.
LEMMA NotLandedAgrees ==
    ASSUME AgreeInv, UNCHANGED <<log, made, copy, lock>>, NEW w \in Local \cup Remote, NEW q,
           WasPacked(w, q) \/ WasSentBack(w, q) \/ WasRefused(w, q)
    PROVE  AgreeInv'
<1>1. /\ writer[w].pc \in {"plan", "publish"} /\ Alone(w, q)
      /\ q.pc \in {"plan", "publish", "adopt", "reset", "idle"}
      /\ q.pc \in InFlight => q.upd = writer[w].upd /\ q.work = writer[w].work
      /\ (w \in Local /\ writer[w].work = "commit") => q.pc \in {"plan", "publish", "reset"}
  <2>1. CASE WasPacked(w, q) \/ WasSentBack(w, q)
    BY <2>1 DEF WasPacked, WasSentBack
  <2>2. CASE WasRefused(w, q)
    BY <2>2 DEF WasRefused, InFlight
  <2>3. QED
    BY <2>1, <2>2
<1>2. q.pc \in InFlight => KnownIn(q, made')
  <2> SUFFICES ASSUME q.pc \in InFlight PROVE KnownIn(q, made)
    OBVIOUS
  <2>1. KnownIn(writer[w], made)
    BY <1>1 DEF AgreeInv, WritesMade, InFlight
  <2>2. QED
    BY <1>1, <2>1 DEF KnownIn
<1>3. (w \in Local /\ q.pc \in InFlight /\ q.work = "push") => Moves(q)
  <2> SUFFICES ASSUME w \in Local, q.pc \in InFlight, q.work = "push" PROVE Moves(q)
    OBVIOUS
  <2>1. Moves(writer[w])
    BY <1>1 DEF AgreeInv, PushesMove, InFlight
  <2>2. QED
    BY <1>1, <2>1 DEF Moves
<1>4. (/\ writer[w].pc \in {"plan", "publish", "reset"}
       /\ writer[w].work = "commit" /\ w \in Local) => KeepsGoing(w, q)
  BY <1>1 DEF KeepsGoing, InFlight
<1>5. ReachAll(made') \subseteq made' /\ made \subseteq made'
  BY DEF AgreeInv, RefsMade
<1>6. QED
  BY <1>1, <1>2, <1>3, <1>4, <1>5, OneWriteAgrees


\* A push is packed, or turned down.
LEMMA PlanAgrees ==
    ASSUME CopyInv, AgreeInv, NEW w \in Local \cup Remote, Plan(w)
    PROVE  AgreeInv'
<1>1. /\ TypeInv /\ UNCHANGED <<log, made, copy, lock>> /\ writer[w].pc = "plan"
      /\ \E q : WasPacked(w, q) \/ WasRefused(w, q)
  BY PlanTypes DEF CopyInv, Plan
<1>2. PICK q : WasPacked(w, q) \/ WasRefused(w, q)
  BY <1>1
<1>3. QED
  BY <1>1, <1>2, NotLandedAgrees

\* A write that finds the index changed is packed again, or turned down.
LEMMA PublishRefusedAgrees ==
    ASSUME CopyInv, AgreeInv, NEW w \in Local \cup Remote, PublishRefused(w)
    PROVE  AgreeInv'
<1>1. /\ TypeInv /\ UNCHANGED <<log, made, copy, lock>> /\ writer[w].pc = "publish"
      /\ \E q : WasSentBack(w, q) \/ WasRefused(w, q)
  BY PublishRefusedTypes DEF CopyInv, PublishRefused
<1>2. PICK q : WasSentBack(w, q) \/ WasRefused(w, q)
  BY <1>1
<1>3. QED
  BY <1>1, <1>2, NotLandedAgrees

\* A log that moves on leaves every copy behind.
LEMMA LogMovesAgree ==
    ASSUME CopyInv, AgreeInv, LogGrows, UNCHANGED <<made, copy, lock>>,
           WritesMade', PushesMove', Tips(index'.refs) \subseteq made
    PROVE  AgreeInv'
<1>1. /\ generation' = generation + 1 /\ generation \in Nat
      /\ copy.state.gen \in Nat /\ copy.state.gen <= generation
      /\ lock.gen \in Nat /\ (lock.pc # "free" => lock.gen <= generation)
  BY ShapeFacts DEF CopyInv, TypeInv, LogOK, LogGrows, StateCurrent, LockCurrent
<1>2. copy.state.gen # generation' /\ (lock.pc # "free" => lock.gen # generation')
  BY <1>1
<1>3. RefsMade' /\ MatAgrees'
  BY <1>2 DEF AgreeInv, RefsMade, MatAgrees
<1>4. ~Current'
  BY <1>2 DEF Current
<1>5. QED
  BY <1>3, <1>4 DEF AgreeInv, MovesPast, RefsAgree

\* A ref that has got somewhere stays there or goes further.
LEMMA FurtherReached ==
    ASSUME NEW refs \in RefMap, NEW u \in WriterState, Forward(u), CheckPreconditions(refs, u.upd),
           NEW q \in WriterState, Reached(q, refs)
    PROVE  Reached(q, UpdatedRefs(refs, u.upd))
<1> SUFFICES ASSUME NEW r \in q.upd.touch
             PROVE  /\ UpdatedRefs(refs, u.upd)[r] # NoCommit
                    /\ q.upd.new[r] \in Reach[UpdatedRefs(refs, u.upd)[r]]
  BY DEF Reached
<1>1. /\ r \in Refs /\ q.upd.new[r] \in Commits \cup {NoCommit}
      /\ u.upd.new[r] \in Commits \cup {NoCommit} /\ refs[r] \in Commits \cup {NoCommit}
  BY DEF WriterState, Update, RefMap
<1>2. refs[r] # NoCommit /\ q.upd.new[r] \in Reach[refs[r]]
  BY DEF Reached
<1>3. CASE r \notin u.upd.touch
  BY <1>1, <1>2, <1>3 DEF UpdatedRefs
<1>4. CASE r \in u.upd.touch
  <2>1. UpdatedRefs(refs, u.upd)[r] = u.upd.new[r]
    BY <1>1, <1>4 DEF UpdatedRefs
  <2>2. u.upd.new[r] # NoCommit /\ refs[r] \in Reach[u.upd.new[r]]
    BY <1>2, <1>4 DEF Forward, CheckPreconditions
  <2>3. Reach[refs[r]] \subseteq Reach[u.upd.new[r]]
    BY <1>1, <2>2, GitAssumption
  <2>4. QED
    BY <1>2, <2>1, <2>2, <2>3
<1>5. QED
  BY <1>3, <1>4

\* A write that lands: its refs are where it took them.
LEMMA LandingAgrees ==
    ASSUME CopyInv, AgreeInv, WritersForward, NEW w \in Local \cup Remote, Landing(w),
           NEW q, WasAccepted(w, q) \/ WasRefused(w, q)
    PROVE  AgreeInv'
<1>1. /\ writer[w].pc = "publish" /\ Alone(w, q)
      /\ q.pc \in {"move", "adopt", "reset", "idle"}
      /\ q.pc \in InFlight => w \in Local /\ q.upd = writer[w].upd /\ q.work = writer[w].work
      /\ writer'[w] = q
      /\ \A v \in (Local \cup Remote) \ {w} : writer'[v] = writer[v]
  BY DEF WasAccepted, WasRefused, InFlight, Landing, Alone
<1> DEFINE u == writer[w]
<1>2. /\ TypeInv /\ u \in WriterState /\ WriterOK(w, u) /\ index.refs \in RefMap
      /\ index'.refs = UpdatedRefs(index.refs, u.upd) /\ CheckPreconditions(index.refs, u.upd)
      /\ LogGrows /\ UNCHANGED <<made, copy, lock>> /\ Forward(u) /\ KnownIn(u, made)
  BY <1>1, ShapeFacts DEF CopyInv, Landing, Landed, Fresh, WritersForward, AgreeInv, WritesMade,
     InFlight
<1>3. u.upd \in Update
  BY <1>2 DEF WriterState
<1>4. \A v \in Local \cup Remote : writer[v] \in WriterState
  BY <1>2, ShapeFacts
<1>5. Tips(index'.refs) \subseteq made
  <2>1. Tips(index'.refs) \subseteq Tips(index.refs) \cup Want(u.upd)
    BY <1>2, <1>3, UpdateFacts
  <2>2. Want(u.upd) \subseteq made
    BY <1>2 DEF KnownIn, Want
  <2>3. QED
    BY <2>1, <2>2 DEF AgreeInv, RefsMade
<1>6. WritesMade'
  <2> SUFFICES ASSUME NEW v \in Local \cup Remote, writer'[v].pc \in InFlight
               PROVE  KnownIn(writer'[v], made)
    BY <1>2 DEF WritesMade
  <2>1. CASE v = w
    BY <1>1, <1>2, <2>1 DEF KnownIn
  <2>2. CASE v # w
    BY <1>1, <2>2 DEF AgreeInv, WritesMade
  <2>3. QED
    BY <2>1, <2>2
<1>7. PushesMove'
  <2> SUFFICES ASSUME NEW v \in Local
               PROVE  /\ (writer'[v].pc \in InFlight /\ writer'[v].work = "push") => Moves(writer'[v])
                      /\ writer'[v].pc = "move" =>
                            Forward(writer'[v]) /\ Reached(writer'[v], index'.refs)
    BY DEF PushesMove
  <2>1. CASE v = w
    <3>1. (q.pc \in InFlight /\ q.work = "push") => Moves(q)
      <4> SUFFICES ASSUME q.pc \in InFlight, q.work = "push" PROVE Moves(q)
        OBVIOUS
      <4>1. Moves(u)
        BY <1>1, <2>1 DEF AgreeInv, PushesMove, InFlight
      <4>2. QED
        BY <1>1, <4>1 DEF Moves
    <3>2. q.pc = "move" => Forward(q) /\ Reached(q, index'.refs)
      <4> SUFFICES ASSUME q.pc = "move" PROVE Forward(q) /\ Reached(q, index'.refs)
        OBVIOUS
      <4>1. q.upd = u.upd
        BY <1>1 DEF InFlight
      <4>2. Forward(q)
        BY <1>2, <4>1 DEF Forward
      <4>3. Reached(u, index'.refs)
        <5> SUFFICES ASSUME NEW r \in u.upd.touch
                     PROVE  index'.refs[r] # NoCommit /\ u.upd.new[r] \in Reach[index'.refs[r]]
          BY DEF Reached
        <5>1. r \in Refs /\ u.upd.new[r] \in Commits \cup {NoCommit}
          BY <1>3 DEF Update, RefMap
        <5>2. index'.refs[r] = u.upd.new[r] /\ u.upd.new[r] # NoCommit
          BY <1>2, <5>1 DEF UpdatedRefs, Forward
        <5>3. QED
          BY <5>1, <5>2, GitAssumption
      <4>4. QED
        BY <4>1, <4>2, <4>3 DEF Reached
    <3>3. QED
      BY <1>1, <2>1, <3>1, <3>2
  <2>2. CASE v # w
    <3>1. writer'[v] = writer[v]
      BY <1>1, <2>2
    <3>2. writer[v].pc = "move" => Reached(writer[v], index'.refs)
      BY <1>2, <1>4, FurtherReached DEF AgreeInv, PushesMove
    <3>3. QED
      BY <3>1, <3>2 DEF AgreeInv, PushesMove
  <2>3. QED
    BY <2>1, <2>2
<1>8. QED
  BY <1>2, <1>5, <1>6, <1>7, LogMovesAgree

\* A write is published, or the storage fails.
LEMMA PublishAgrees ==
    ASSUME CopyInv, CatchUpInv, AgreeInv, NEW w \in Local \cup Remote,
           Publish(w) \/ PublishFault(w)
    PROVE  AgreeInv'
<1>1. CASE Publish(w)
  <2>1. Landing(w) /\ \E q : WasAccepted(w, q)
    BY <1>1, PublishTypes DEF CopyInv
  <2>2. QED
    BY <2>1, LandingAgrees DEF CatchUpInv
<1>2. CASE PublishFault(w)
  <2>1. /\ UNCHANGED <<log, made, copy, lock>> \/ Landing(w)
        /\ \E q : WasRefused(w, q)
    BY <1>2, PublishFaultTypes DEF CopyInv
  <2>2. QED
    BY <2>1, LandingAgrees, NotLandedAgrees DEF CatchUpInv
<1>3. QED
  BY <1>1, <1>2

\* A compaction moves no ref.
LEMMA CompactAgrees ==
    ASSUME CopyInv, AgreeInv, Compact
    PROVE  AgreeInv'
<1>1. LogGrows /\ index'.refs = index.refs /\ UNCHANGED <<made, copy, lock, writer>>
  BY CompactFacts DEF CopyInv, TypeInv, Compact
<1>2. WritesMade' /\ PushesMove'
  BY <1>1 DEF AgreeInv, WritesMade, PushesMove
<1>3. Tips(index'.refs) \subseteq made
  BY <1>1 DEF AgreeInv, RefsMade
<1>4. QED
  BY <1>1, <1>2, <1>3, LogMovesAgree

\* A write ends that no ref is ahead for.
LEMMA NoWitnessAgrees ==
    ASSUME CopyInv, AgreeInv, UNCHANGED <<log, lock, made>>, copy'.state = copy.state,
           copy'.refs = copy.refs, NEW w \in Local, NEW q, Alone(w, q), q.pc \notin InFlight,
           MatAgrees', Current => \A s \in Refs : ~Ahead1(writer[w], s, copy.refs[s])
    PROVE  AgreeInv'
<1>1. /\ index' = index /\ generation' = generation /\ (Current' <=> Current)
      /\ writer'[w] = q
      /\ \A x \in (Local \cup Remote) \ {w} : writer'[x] = writer[x]
  BY DEF log, Current, Alone
<1>2. RefsMade' /\ WritesMade'
  BY <1>1 DEF AgreeInv, RefsMade, WritesMade, KnownIn
<1>3. PushesMove'
  <2> SUFFICES ASSUME NEW x \in Local
               PROVE  /\ (writer'[x].pc \in InFlight /\ writer'[x].work = "push") => Moves(writer'[x])
                      /\ writer'[x].pc = "move" =>
                            Forward(writer'[x]) /\ Reached(writer'[x], index'.refs)
    BY DEF PushesMove
  <2>1. QED
    BY <1>1 DEF AgreeInv, PushesMove, InFlight
<1>4. MovesPast'
  BY <1>1 DEF AgreeInv, MovesPast, InFlight
<1>5. RefsAgree'
  <2> SUFFICES ASSUME Current, NEW s \in Refs, copy.refs[s] # index.refs[s]
               PROVE  \E x \in Local : Ahead1(writer'[x], s, copy.refs[s])
    BY <1>1 DEF RefsAgree, AheadAt
  <2>1. PICK x \in Local : Ahead1(writer[x], s, copy.refs[s])
    BY DEF AgreeInv, RefsAgree, AheadAt
  <2>2. x # w
    BY <2>1
  <2>3. QED
    BY <1>1, <2>1, <2>2
<1>6. QED
  BY <1>2, <1>3, <1>4, <1>5 DEF AgreeInv

\* One write moves one ref of a copy: to what the index says, or ahead of it with
\* a writer that knows, and never back to what a receive-pack waits for.
LEMMA OneRefAgrees ==
    ASSUME CopyInv, AgreeInv, UNCHANGED <<log, lock>>, copy'.state = copy.state,
           made \subseteq made', ReachAll(made') \subseteq made',
           NEW w \in Local, NEW q, Alone(w, q), q.pc # "move",
           q.pc \in InFlight => KnownIn(q, made'),
           (q.pc \in InFlight /\ q.work = "push") => Moves(q),
           NEW r \in Refs, NEW v \in Commits \cup {NoCommit},
           copy'.refs = [copy.refs EXCEPT ![r] = v], v \in made' \cup {NoCommit}, MatAgrees',
           Current => \A s \in Refs \ {r} : ~Ahead1(writer[w], s, copy.refs[s]),
           Current => (v = index.refs[r] \/ Ahead1(q, r, v)),
           Current => \A x \in Local \ {w} : (writer[x].pc = "move" /\ r \in writer[x].upd.touch)
                                                => v # writer[x].upd.old[r]
    PROVE  AgreeInv'
<1>1. /\ index' = index /\ generation' = generation /\ (Current' <=> Current)
      /\ writer'[w] = q
      /\ \A x \in (Local \cup Remote) \ {w} : writer'[x] = writer[x]
      /\ copy.refs \in RefMap
      /\ copy'.refs[r] = v /\ \A s \in Refs \ {r} : copy'.refs[s] = copy.refs[s]
  BY ShapeFacts DEF CopyInv, log, Current, Alone, RefMap
<1>2. RefsMade'
  <2>1. Tips(copy'.refs) \subseteq Tips(copy.refs) \cup ({v} \ {NoCommit})
    BY <1>1, TipMovesFacts
  <2>2. QED
    BY <1>1, <2>1 DEF AgreeInv, RefsMade
<1>3. WritesMade'
  <2> SUFFICES ASSUME NEW x \in Local \cup Remote, writer'[x].pc \in InFlight
               PROVE  KnownIn(writer'[x], made')
    BY DEF WritesMade
  <2>1. CASE x = w
    BY <1>1, <2>1
  <2>2. CASE x # w
    <3>1. KnownIn(writer[x], made)
      BY <1>1, <2>2 DEF AgreeInv, WritesMade
    <3>2. QED
      BY <1>1, <2>2, <3>1 DEF KnownIn
  <2>3. QED
    BY <2>1, <2>2
<1>4. PushesMove'
  <2> SUFFICES ASSUME NEW x \in Local
               PROVE  /\ (writer'[x].pc \in InFlight /\ writer'[x].work = "push") => Moves(writer'[x])
                      /\ writer'[x].pc = "move" =>
                            Forward(writer'[x]) /\ Reached(writer'[x], index'.refs)
    BY DEF PushesMove
  <2>1. CASE x = w
    BY <1>1, <2>1
  <2>2. CASE x # w
    BY <1>1, <2>2 DEF AgreeInv, PushesMove
  <2>3. QED
    BY <2>1, <2>2
<1>5. MovesPast'
  <2> SUFFICES ASSUME Current, NEW x \in Local, writer'[x].pc = "move",
                      NEW s \in writer'[x].upd.touch
               PROVE  copy'.refs[s] # writer'[x].upd.old[s]
    BY <1>1 DEF MovesPast, Past
  <2>1. x # w /\ writer'[x] = writer[x]
    BY <1>1
  <2>2. copy.refs[s] # writer[x].upd.old[s]
    BY <2>1 DEF AgreeInv, MovesPast, Past
  <2>3. s \in Refs
    BY <2>1, ShapeFacts DEF CopyInv, WriterState, Update
  <2>4. QED
    BY <1>1, <2>1, <2>2, <2>3
<1>6. RefsAgree'
  <2> SUFFICES ASSUME Current, NEW s \in Refs, copy'.refs[s] # index.refs[s]
               PROVE  \E x \in Local : Ahead1(writer'[x], s, copy'.refs[s])
    BY <1>1 DEF RefsAgree, AheadAt
  <2>1. CASE s = r
    BY <1>1, <2>1
  <2>2. CASE s # r
    <3>1. PICK x \in Local : Ahead1(writer[x], s, copy.refs[s])
      BY <1>1, <2>2 DEF AgreeInv, RefsAgree, AheadAt
    <3>2. x # w
      BY <2>2, <3>1
    <3>3. QED
      BY <1>1, <2>2, <3>1, <3>2
  <2>3. QED
    BY <2>1, <2>2
<1>7. QED
  BY <1>2, <1>3, <1>4, <1>5, <1>6 DEF AgreeInv

\* A commit goes ahead of the log, and its writer knows.
LEMMA CommitAgrees ==
    ASSUME CopyInv, AgreeInv, NEW w \in Local, Commit(w)
    PROVE  AgreeInv'
<1>1. TypeInv /\ IsFree /\ copy.refs \in RefMap /\ made \subseteq Commits
      /\ \E q, c : Committed(w, q, c)
  BY CommitTypes, ShapeFacts DEF CopyInv
<1>2. PICK q, c : Committed(w, q, c)
  BY <1>1
<1> DEFINE r == RefOf(w)
           old == copy.refs[r]
<1>3. /\ writer[w].pc = "open" /\ c \in NewCommits(old)
      /\ copy'.refs = [copy.refs EXCEPT ![r] = c] /\ copy'.state = copy.state
      /\ made' = made \cup {c}
      /\ Alone(w, q) /\ q.pc = "plan" /\ q.work = "commit"
      /\ q.upd.touch = {r} /\ q.upd.old[r] = old /\ q.upd.new[r] = c /\ UNCHANGED <<log, lock>>
  BY <1>2 DEF Committed
<1>4. r \in Refs
  BY <1>1, <1>3, RefOfFacts DEF TypeInv
<1>5. ReachAll(made) \subseteq made /\ Tips(copy.refs) \subseteq made
  BY DEF AgreeInv, RefsMade
<1>6. /\ c \in Commits /\ c \notin made
      /\ Reach[c] = {c} \cup (IF old = NoCommit THEN {} ELSE Reach[old])
  BY <1>3, NewCommitFacts
<1>7. old \in made \cup {NoCommit}
  BY <1>4, <1>5 DEF Tips
<1> HIDE DEF old, r
<1>8. ReachAll(made') \subseteq made'
  <2>1. {c} \in SUBSET Commits /\ ReachAll({c}) = Reach[c]
    BY <1>6, OneReachFacts
  <2>2. old # NoCommit => Reach[old] \subseteq made
    BY <1>5, <1>7 DEF ReachAll
  <2>3. ReachAll({c}) \subseteq made \cup {c}
    BY <1>6, <2>1, <2>2
  <2>4. QED
    BY <1>1, <1>3, <1>5, <2>1, <2>3, MoreMade
<1>9. KnownIn(q, made')
  BY <1>3, <1>7, OneKnown
<1>10. MatAgrees'
  BY <1>1, <1>3 DEF MatAgrees, IsFree
<1>11. Ahead1(q, r, c)
  BY <1>3 DEF Ahead1
<1>12. \A s \in Refs \ {r} : ~Ahead1(writer[w], s, copy.refs[s])
  BY <1>3 DEF Ahead1
<1>13. \A x \in Local \ {w} :
            (writer[x].pc = "move" /\ r \in writer[x].upd.touch) => c # writer[x].upd.old[r]
  <2> SUFFICES ASSUME NEW x \in Local, writer[x].pc = "move", r \in writer[x].upd.touch
               PROVE  c # writer[x].upd.old[r]
    OBVIOUS
  <2>1. writer[x].upd.old[r] \in made \cup {NoCommit}
    BY DEF AgreeInv, WritesMade, InFlight, KnownIn
  <2>2. QED
    BY <1>6, <2>1, GitAssumption
<1>14. made \subseteq made' /\ c \in made' \cup {NoCommit} /\ c \in Commits \cup {NoCommit}
  BY <1>3, <1>6
<1>15. q.pc # "move" /\ q.work # "push"
  BY <1>3
<1>16. /\ Current => \A s \in Refs \ {r} : ~Ahead1(writer[w], s, copy.refs[s])
       /\ Current => (c = index.refs[r] \/ Ahead1(q, r, c))
       /\ Current => \A x \in Local \ {w} :
            (writer[x].pc = "move" /\ r \in writer[x].upd.touch) => c # writer[x].upd.old[r]
  BY <1>11, <1>12, <1>13
<1>17. /\ UNCHANGED <<log, lock>> /\ copy'.state = copy.state /\ Alone(w, q)
       /\ copy'.refs = [copy.refs EXCEPT ![r] = c]
  BY <1>3
<1>18. (q.pc \in InFlight => KnownIn(q, made')) /\ ((q.pc \in InFlight /\ q.work = "push") => Moves(q))
  BY <1>9, <1>15
<1>19. QED
  BY <1>4, <1>8, <1>10, <1>14, <1>15, <1>16, <1>17, <1>18, OneRefAgrees

\* A receive-pack that moves its ref finds the copy behind: at the current
\* generation the ref is past what the client saw.
LEMMA MoveAgrees ==
    ASSUME CopyInv, AgreeInv, Acyclic, NEW w \in Local, Move(w)
    PROVE  AgreeInv'
<1>1. /\ TypeInv /\ copy'.refs = [copy.refs EXCEPT ![RefOf(w)] = NewOf(w)]
      /\ copy.refs[RefOf(w)] = OldOf(w) /\ writer[w].pc = "move"
      /\ \E q : WasAnswered(w, q)
  BY MoveTypes DEF CopyInv, Move
<1>2. PICK q : WasAnswered(w, q)
  BY <1>1
<1> DEFINE r == RefOf(w)
           new == NewOf(w)
<1>3. /\ Alone(w, q) /\ q.pc = "adopt" /\ copy'.state = copy.state
      /\ UNCHANGED <<log, made, lock>>
  BY <1>2 DEF WasAnswered
<1>4. /\ r \in Refs /\ writer[w].upd.touch = {r} /\ new \in Commits \cup {NoCommit}
      /\ writer[w].upd.old[r] = OldOf(w) /\ writer[w].upd.new[r] = new
      /\ copy.refs \in RefMap
  BY <1>1, RefOfFacts, ShapeFacts DEF TypeInv, OldOf, NewOf
<1>5. copy'.refs = [copy.refs EXCEPT ![r] = new] /\ copy.refs[r] = writer[w].upd.old[r]
  BY <1>1, <1>4
<1> HIDE DEF r, new
<1>6. ~Current
  BY <1>1, <1>4, <1>5 DEF AgreeInv, MovesPast, Past
<1>7. index.refs[r] # copy.refs[r]
  BY <1>1, <1>4, <1>5, LandedPast DEF AgreeInv, Past
<1>8. new \in made \cup {NoCommit}
  BY <1>1, <1>4 DEF AgreeInv, WritesMade, InFlight, KnownIn
<1>9. MatAgrees'
  <2>1. /\ lock' = lock /\ index' = index /\ generation' = generation /\ ToUpdate' = ToUpdate
        /\ \A s \in Refs \ {r} : copy'.refs[s] = copy.refs[s]
    BY <1>3, <1>4, <1>5 DEF log, ToUpdate, RefMap
  <2>2. (lock.pc = "update" /\ lock.gen = generation) =>
            \A s \in Refs : s \in ToUpdate \/ copy'.refs[s] = index.refs[s]
    BY <1>4, <1>7, <2>1 DEF AgreeInv, MatAgrees
  <2>3. ~(lock.pc = "stamp" /\ lock.gen = generation)
    BY <1>7 DEF AgreeInv, MatAgrees
  <2>4. QED
    BY <1>3, <2>1, <2>2, <2>3 DEF AgreeInv, MatAgrees
<1>10. ReachAll(made') \subseteq made' /\ made \subseteq made' /\ new \in made' \cup {NoCommit}
  BY <1>3, <1>8 DEF AgreeInv, RefsMade
<1>11. q.pc # "move" /\ q.pc \notin InFlight
  BY <1>3 DEF InFlight
<1>12. QED
  BY <1>3, <1>4, <1>5, <1>6, <1>9, <1>10, <1>11, OneRefAgrees

\* A receive-pack that fails leaves the refs alone.
LEMMA MoveFailsAgrees ==
    ASSUME CopyInv, AgreeInv, NEW w \in Local, MoveFails(w)
    PROVE  AgreeInv'
<1>1. TypeInv /\ copy'.refs = copy.refs /\ \E q : WasAnswered(w, q)
  BY MoveFailsTypes DEF CopyInv
<1>2. PICK q : WasAnswered(w, q)
  BY <1>1
<1>3. /\ Alone(w, q) /\ q.pc = "adopt" /\ copy'.state = copy.state
      /\ UNCHANGED <<log, made, lock>> /\ writer[w].pc = "move"
  BY <1>2 DEF WasAnswered
<1>4. ReachAll(made') \subseteq made' /\ made \subseteq made'
  BY <1>3 DEF AgreeInv, RefsMade
<1>5. q.pc # "move" /\ q.pc \notin InFlight
  BY <1>3 DEF InFlight
<1>6. QED
  BY <1>1, <1>3, <1>4, <1>5, OneWriteAgrees

\* A rollback at the current generation goes to what the index says.
LEMMA ResetAgrees ==
    ASSUME CopyInv, AgreeInv, Acyclic, NEW w \in Local, Reset(w), Work \subseteq {"commit", "push"}
    PROVE  AgreeInv'
<1>1. TypeInv /\ \E q : RolledBack(w, q)
  BY ResetTypes DEF CopyInv
<1>2. PICK q : RolledBack(w, q)
  BY <1>1
<1> DEFINE r == RefOf(w)
           new == NewOf(w)
           v == IF copy.bare /\ copy.refs[r] = new THEN copy.state.refs[r] ELSE copy.refs[r]
<1>3. /\ writer[w].pc = "reset" /\ IsFree /\ Alone(w, q) /\ q.pc \in {"idle", "ensure"}
      /\ copy'.state = copy.state /\ UNCHANGED <<log, made, lock>>
  BY <1>2 DEF RolledBack
<1>4. /\ r \in Refs /\ writer[w].upd.touch = {r} /\ writer[w].upd.new[r] = new
      /\ copy.refs \in RefMap /\ copy.state.refs \in RefMap /\ index.refs \in RefMap
      /\ writer[w].work = "commit"
  <2>1. WriterOK(w, writer[w])
    BY <1>1, ShapeFacts
  <2>2. writer[w].work = "commit"
    BY <1>3, <2>1 DEF WriterOK
  <2>3. QED
    BY <1>1, <1>3, <2>2, RefOfFacts, ShapeFacts DEF TypeInv, NewOf
<1>5. copy'.refs = [copy.refs EXCEPT ![r] = v]
  <2>1. CASE copy.bare /\ copy.refs[r] = new
    BY <1>2, <1>4, <2>1 DEF RolledBack
  <2>2. CASE ~(copy.bare /\ copy.refs[r] = new)
    <3>1. copy'.refs = copy.refs
      BY <1>2, <1>4, <2>2 DEF RolledBack, RolledBackTo
    <3>2. QED
      BY <1>4, <2>2, <3>1 DEF RefMap
  <2>3. QED
    BY <2>1, <2>2
<1>6. v \in Commits \cup {NoCommit} /\ v \in made \cup {NoCommit}
  BY <1>4 DEF AgreeInv, RefsMade, Tips, RefMap
<1>7. Current => copy.bare /\ copy.state.refs = index.refs
  <2> SUFFICES ASSUME Current PROVE copy.bare /\ copy.state.refs = index.refs
    OBVIOUS
  <2>1. copy.state = StateOf(generation, index) /\ copy.state.gen # 0
    BY DEF Current, CopyInv, StateCurrent
  <2>2. QED
    BY <2>1, StateOfFacts DEF CopyInv, StateCurrent, Gone, NoState
<1>8. MatAgrees'
  BY <1>3 DEF MatAgrees, IsFree
<1>9. ReachAll(made') \subseteq made' /\ made \subseteq made' /\ v \in made' \cup {NoCommit}
  BY <1>3, <1>6 DEF AgreeInv, RefsMade
<1>10. q.pc # "move" /\ q.pc \notin InFlight
  BY <1>3 DEF InFlight
<1>11. CASE copy.bare /\ copy.refs[r] = new
  <2>1. v = copy.state.refs[r]
    BY <1>11
  <2> HIDE DEF v, r, new
  <2>2. \A s \in Refs \ {r} : ~Ahead1(writer[w], s, copy.refs[s])
    BY <1>4 DEF Ahead1
  <2>3. Current => v = index.refs[r]
    BY <1>7, <2>1
  <2>4. Current => \A x \in Local \ {w} :
            (writer[x].pc = "move" /\ r \in writer[x].upd.touch) => v # writer[x].upd.old[r]
    BY <1>1, <2>3, LandedPast DEF AgreeInv, Past
  <2>5. QED
    BY <1>3, <1>4, <1>5, <1>6, <1>8, <1>9, <1>10, <2>2, <2>3, <2>4, OneRefAgrees
<1>12. CASE ~(copy.bare /\ copy.refs[r] = new)
  <2>1. copy'.refs = copy.refs
    BY <1>4, <1>5, <1>12 DEF RefMap
  <2>2. CASE Current
    <3>1. ~Ahead1(writer[w], r, copy.refs[r])
      BY <1>4, <1>7, <1>12, <2>2 DEF Ahead1
    <3> HIDE DEF v, r, new
    <3>2. \A s \in Refs : ~Ahead1(writer[w], s, copy.refs[s])
      BY <1>4, <3>1 DEF Ahead1
    <3>3. QED
      BY <1>3, <1>8, <1>9, <1>10, <2>1, <2>2, <3>2, NoWitnessAgrees
  <2>3. CASE ~Current
    <3> HIDE DEF v, r, new
    <3>1. QED
      BY <1>3, <1>8, <1>9, <1>10, <2>1, <2>3, NoWitnessAgrees
  <2>4. QED
    BY <2>2, <2>3
<1>13. QED
  BY <1>11, <1>12

\* An evicted copy is at no generation.
LEMMA EvictAgrees ==
    ASSUME CopyInv, AgreeInv, Evict
    PROVE  AgreeInv'
<1>1. copy' = Gone /\ UNCHANGED <<log, made, lock, writer>> /\ lock'.pc = "free"
  BY DEF Evict, IsFree
<1>2. SameWrites
  BY <1>1 DEF SameWrites
<1>3. QED
  BY <1>1, <1>2, BlankAgrees

\* A crash that takes the disk with it.
LEMMA CrashAgrees ==
    ASSUME CopyInv, AgreeInv, Crash, "kept" \notin Disks
    PROVE  AgreeInv'
<1>1. TypeInv /\ Crashed
  BY CrashTypes DEF CopyInv
<1>2. /\ lock'.pc = "free" /\ UNCHANGED <<log, made>> /\ copy' = Gone
      /\ \A w \in Local : writer'[w].pc = "idle"
      /\ \A w \in Remote : writer'[w] = writer[w]
  BY <1>1, IdleFacts DEF Crashed, LockFree
<1>3. copy'.refs = NoRefs /\ copy'.state.gen = 0 /\ copy'.state.refs = NoRefs
  BY <1>2 DEF Gone, NoState
<1>4. ~Current'
  BY <1>3 DEF Current
<1>5. RefsMade' /\ MatAgrees'
  BY <1>2, <1>3, NoRefsFacts DEF AgreeInv, RefsMade, MatAgrees, log
<1>6. WritesMade'
  BY <1>2 DEF AgreeInv, WritesMade, InFlight, KnownIn
<1>7. PushesMove'
  BY <1>2 DEF PushesMove, InFlight
<1>8. QED
  BY <1>4, <1>5, <1>6, <1>7 DEF AgreeInv, MovesPast, RefsAgree

\* The commits of a log written so far are all it reaches, and no copy of it is
\* current yet.
LEMMA InitAgrees == ASSUME Init, HistoriesLinked PROVE AgreeInv
<1>1. /\ lock.pc = "free" /\ copy \in {Bare, Gone}
      /\ \A w \in Local \cup Remote : writer[w].pc = "idle"
  BY IdleFacts DEF Init, LockFree
<1>2. copy.refs = NoRefs /\ copy.state.gen = 0 /\ copy.state.refs = NoRefs
  BY <1>1 DEF Bare, Gone, NoState
<1>3. ~Current
  BY <1>2 DEF Current
<1>4. ReachAll(made) \subseteq made /\ Tips(index.refs) \subseteq made
  <2>1. CASE index = EmptyIndex /\ made = {}
    BY <2>1, EmptyIndexFacts DEF ReachAll
  <2>2. ASSUME NEW h \in Histories, index = h.index, made = Holds(h.index, h.content)
        PROVE  ReachAll(made) \subseteq made /\ Tips(index.refs) \subseteq made
    <3>1. h.index \in Index /\ Complete(h.index, h.content)
      BY LocalCopyAssumption
    <3>2. Linked(h.content, ApplyOrder(h.index), {})
      BY DEF HistoriesLinked
    <3>3. Members(ApplyOrder(h.index)) = Names(h.index)
      BY <3>1, ApplyOrderFacts
    <3>4. \A p \in Names(h.index) : ReachAll(h.content[p]) \subseteq made
      <4> SUFFICES ASSUME NEW p \in Names(h.index) PROVE ReachAll(h.content[p]) \subseteq made
        OBVIOUS
      <4> DEFINE seq == ApplyOrder(h.index)
      <4>1. PICK k \in 1..Len(seq) : seq[k] = p
        BY <3>3 DEF Members
      <4>2. \A i \in 1..k : seq[i] \in Names(h.index)
        <5>1. seq \in Seq(Pack)
          BY <3>1, ApplyOrderFacts
        <5>2. QED
          BY <3>3, <4>1, <5>1 DEF Members
      <4>3. ReachAll(h.content[seq[k]]) \subseteq UNION {h.content[seq[i]] : i \in 1..k}
        BY <3>2 DEF Linked
      <4> HIDE DEF seq
      <4>4. UNION {h.content[seq[i]] : i \in 1..k} \subseteq made
        BY <2>2, <4>2 DEF Holds
      <4>5. QED
        BY <4>1, <4>3, <4>4
    <3>5. ReachAll(made) \subseteq made
      BY <2>2, <3>4 DEF Holds, ReachAll
    <3>6. Tips(index.refs) \subseteq made
      <4>1. index.refs \in RefMap /\ Tips(index.refs) \subseteq Commits
        BY <2>2, <3>1, TipsFacts DEF Index
      <4>2. Tips(index.refs) \subseteq ReachAll(Tips(index.refs))
        BY <4>1, ClosureFacts
      <4>3. QED
        BY <2>2, <3>1, <4>2 DEF Complete
    <3>7. QED
      BY <3>5, <3>6
  <2>3. QED
    BY <2>1, <2>2 DEF Init
<1>5. RefsMade
  BY <1>1, <1>2, <1>4, NoRefsFacts DEF RefsMade
<1>6. QED
  BY <1>1, <1>3, <1>5
     DEF AgreeInv, WritesMade, PushesMove, MovesPast, RefsAgree, MatAgrees, InFlight

\* Every step keeps a copy at the current generation to the index, where the
\* instance's own writes are commits and pushes and its disk goes with it.
LEMMA NextAgrees ==
    ASSUME CopyInv, CatchUpInv, AgreeInv, [Next]_vars,
           Work \subseteq {"commit", "push"}, ~Rewinds, "kept" \notin Disks, Acyclic
    PROVE  AgreeInv'
<1>1. ASSUME NEW who \in Local \cup {Reader}, EnsureHit(who) \/ EnsureAlarm(who) \/ MatBegin(who)
      PROVE  AgreeInv'
  BY <1>1, EnsureAgrees, MatBeginAgrees
<1>2. CASE Materialising \/ AdoptStamp
  BY <1>2, MatRecreateAgrees, MatApplyAgrees, MatDeleteAgrees, MatUpdateAgrees, MatStampAgrees,
     MatFaultAgrees, AdoptStampAgrees DEF Materialising
<1>3. ASSUME NEW w \in Local, Ask(w) \/ Opened(w) \/ Finishing(w)
      PROVE  AgreeInv'
  BY <1>3, RequestAgrees, CommitAgrees, OnlyCommitsFacts, ReceiveAgrees, MoveAgrees,
     MoveFailsAgrees, AdoptReadAgrees, ResetAgrees DEF Opened, Finishing
<1>4. ASSUME NEW w \in Local \cup Remote, Pushing(w)
      PROVE  AgreeInv'
  BY <1>4, PlanAgrees, PublishAgrees, PublishRefusedAgrees DEF Pushing
<1>5. ASSUME NEW w \in Remote, AskElsewhere(w)
      PROVE  AgreeInv'
  BY <1>5, AskElsewhereAgrees
<1>6. CASE Compact \/ Evict \/ Crash
  BY <1>6, CompactAgrees, EvictAgrees, CrashAgrees
<1>7. CASE UNCHANGED vars
  <2>1. UNCHANGED <<log, made, copy, lock>> /\ writer' = writer
    BY <1>7 DEF vars, log
  <2>2. SameWrites
    BY <2>1 DEF SameWrites
  <2>3. RefsMade' /\ MatAgrees'
    BY <2>1 DEF AgreeInv, RefsMade, MatAgrees, ToUpdate, log
  <2>4. QED
    BY <2>1, <2>2, <2>3, SameAgree
<1>8. QED
  BY <1>1, <1>2, <1>3, <1>4, <1>5, <1>6, <1>7 DEF Next

\* What keeps a copy at the current generation to the index holds throughout.
THEOREM AgreeInductive ==
    ASSUME Work \subseteq {"commit", "push"}, ~Rewinds, "kept" \notin Disks,
           HistoriesLinked, Acyclic
    PROVE  Spec => [](CopyInv /\ CatchUpInv /\ AgreeInv)
<1>1. Init => CopyInv /\ CatchUpInv /\ AgreeInv
  BY InitCopy, InitCatchUp, InitAgrees
<1>2. CopyInv /\ CatchUpInv /\ AgreeInv /\ [Next]_vars => (CopyInv /\ CatchUpInv /\ AgreeInv)'
  BY NextCopy, NextCatchUp, NextAgrees
<1>3. QED
  BY <1>1, <1>2, PTL DEF Spec

\* A copy at the current generation with no write in flight has the refs of the
\* index: a refused commit, a lost answer, a compaction in between or a
\* receive-pack that comes late leaves no ref behind that no materialisation
\* would repair.
THEOREM QuietCopiesAgree ==
    ASSUME Work \subseteq {"commit", "push"}, ~Rewinds, "kept" \notin Disks,
           HistoriesLinked, Acyclic
    PROVE  Spec => []QuietCopyAgrees
<1>1. CopyInv /\ AgreeInv => QuietCopyAgrees
  <2> SUFFICES ASSUME CopyInv, AgreeInv, \A w \in Local : writer[w].pc = "idle",
                      generation # 0, CacheHit(copy, generation, index)
               PROVE  copy.refs = index.refs
    BY DEF QuietCopyAgrees
  <2>1. Current
    BY DEF Current, CacheHit
  <2>2. \A r \in Refs : ~AheadAt(r)
    BY DEF AheadAt, Ahead1
  <2>3. \A r \in Refs : copy.refs[r] = index.refs[r]
    BY <2>1, <2>2 DEF AgreeInv, RefsAgree
  <2>4. copy.refs \in RefMap /\ index.refs \in RefMap
    BY ShapeFacts DEF CopyInv
  <2>5. QED
    BY <2>3, <2>4 DEF RefMap
<1>2. QED
  BY <1>1, AgreeInductive, PTL

=============================================================================
