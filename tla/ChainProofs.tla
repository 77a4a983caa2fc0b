----------------------------- MODULE ChainProofs -----------------------------
(***************************************************************************)
(* The metric points of one project, for any number of replicas, runs,     *)
(* interruptions and edits: no accepted point is lost; and, where one      *)
(* process flushes and indexes, only the rows of runs without data go, and *)
(* no point is written twice before a second interruption.                 *)
(***************************************************************************)
EXTENDS MetricsChain, FiniteSetTheorems, WellFoundedInduction, TLAPS

(***************************************************************************)
(* The inductive invariant.                                                *)
(***************************************************************************)

\* The points of the chain, and those users removed.
Kept == ChainPoints \cup taken

\* Every point has an owner, its row ids are consecutive, and what is read,
\* written or deleted are points that were ingested.
ChainTypes ==
    /\ \E k \in 0..MaxIngested : DOMAIN owner = 1..k
    /\ \A i \in DOMAIN owner : owner[i] \in ChainRuns
    /\ buffered \subseteq DOMAIN owner /\ taken \subseteq DOMAIN owner
    /\ expRun \in [ChainRuns -> {"none", "bare", "counted"}]
    /\ ingest \in [ChainRuns -> {"idle", "insert", "count"}]
    /\ unindexed \in BOOLEAN /\ flushBlocked \in BOOLEAN

\* The files of the chain and the parts the index lists.
FileTypes ==
    /\ \A n \in DOMAIN chain :
          n \in Nat /\ (chain[n] = Oversize \/ chain[n] \subseteq DOMAIN owner)
    /\ \E b \in Nat : \A n \in DOMAIN chain : n <= b
    /\ chainIndex \subseteq Nat /\ \E b \in Nat : \A n \in chainIndex : n <= b

\* The flush or the job of each process.
ReplicaTypes ==
    /\ replica \in [Replicas -> ReplicaState]
    /\ \A p \in Replicas : replica[p].ids \cup replica[p].write \subseteq DOMAIN owner

\* What a flush holds: before its commit the file it is about to write, made of
\* the file it read; after it, points that are in the chain.
Carries(p) ==
    /\ replica[p].pc = "idle" => replica[p].ids = {}
    /\ replica[p].pc = "commit" => /\ replica[p].pre.rows \subseteq replica[p].write
                                   /\ replica[p].ids \subseteq replica[p].write \cup Kept
    /\ replica[p].pc \in {"index", "scan", "prune", "delete"} => replica[p].ids \subseteq Kept

\* The inductive invariant of ingest and flush.
ChainInv ==
    /\ ChainTypes /\ FileTypes /\ ReplicaTypes
    /\ \A p \in Replicas : Carries(p)
    /\ PointsKept

(***************************************************************************)
(* Numbers of parts.                                                       *)
(***************************************************************************)

\* Row ids count the points: the next one is not a point yet.
LEMMA NextPoint ==
    ASSUME NEW k \in Nat
    PROVE  Cardinality(1..k) = k
BY FS_Interval

\* A bounded set of numbers has a highest one.
LEMMA HighestOf ==
    ASSUME NEW S \in SUBSET Nat, NEW b \in Nat, \A n \in S : n <= b, S # {}
    PROVE  Max(S) \in S /\ \A n \in S : n <= Max(S)
<1> DEFINE T == {k \in Nat : \E n \in S : n + k = b}
<1>1. T \subseteq Nat
  OBVIOUS
<1>2. T # {}
  <2>1. PICK n \in S : TRUE
    OBVIOUS
  <2>2. n \in Nat /\ b - n \in Nat /\ n + (b - n) = b
    BY <2>1
  <2>3. b - n \in T
    BY <2>2
  <2>4. QED
    BY <2>3
<1>3. PICK t \in T : \A u \in T : ~(<<u, t>> \in OpToRel(<, Nat))
  BY <1>1, <1>2, WFMin, NatLessThanWellFounded
<1>4. ASSUME NEW u \in T PROVE t <= u
  <2>1. ~(<<u, t>> \in OpToRel(<, Nat))
    BY <1>3
  <2>2. u \in Nat /\ t \in Nat
    OBVIOUS
  <2>3. ~(u < t)
    BY <2>1, <2>2 DEF OpToRel
  <2>4. QED
    BY <2>2, <2>3
<1>5. PICK m \in S : m + t = b
  OBVIOUS
<1>6. ASSUME NEW n \in S PROVE n <= m
  <2>1. n \in Nat /\ m \in Nat /\ b - n \in Nat /\ n + (b - n) = b
    OBVIOUS
  <2>2. b - n \in T
    BY <2>1
  <2>3. t <= b - n
    BY <1>4, <2>2
  <2>4. t \in Nat
    OBVIOUS
  <2> HIDE DEF T
  <2>5. QED
    BY <1>5, <2>1, <2>3, <2>4
<1>7. \E x \in S : \A y \in S : x >= y
  BY <1>6
<1>8. Max(S) \in S /\ \A y \in S : Max(S) >= y
  BY <1>7 DEF Max
<1>9. QED
  BY <1>8

\* The part a flush goes to is a number.
LEMMA ActiveIsPart == ASSUME FileTypes PROVE Active \in Nat
<1> DEFINE h == Highest(chainIndex)
           run == {n \in DOMAIN chain : n > h /\ \A m \in h + 1..n : m \in DOMAIN chain}
<1>1. PICK b \in Nat : \A n \in DOMAIN chain : n <= b
  BY DEF FileTypes
<1>2. PICK c \in Nat : \A n \in chainIndex : n <= c
  BY DEF FileTypes
<1>3. h \in Nat
  <2>1. chainIndex \cup {0} \in SUBSET Nat /\ \A n \in chainIndex \cup {0} : n <= c
    BY <1>2 DEF FileTypes
  <2>2. Max(chainIndex \cup {0}) \in chainIndex \cup {0}
    BY <2>1, HighestOf
  <2>3. QED
    BY <2>1, <2>2 DEF Highest
<1> HIDE DEF h
<1> DEFINE S == {h} \cup run
<1>4. S \in SUBSET Nat /\ S # {} /\ \A n \in S : n <= h + b
  <2>1. run \subseteq DOMAIN chain /\ DOMAIN chain \subseteq Nat
    BY DEF FileTypes
  <2>2. QED
    BY <1>1, <1>3, <2>1
<1>5. h + b \in Nat
  BY <1>3
<1>6. Active = Max(S)
  BY DEF Active, h
<1> HIDE DEF S
<1>7. Max(S) \in S
  BY <1>4, <1>5, HighestOf
<1>8. QED
  BY <1>4, <1>6, <1>7

\* Row ids stay within the bound.
LEMMA OwnersArePoints == ASSUME ChainTypes PROVE DOMAIN owner \subseteq Points
<1>1. PICK k \in 0..MaxIngested : DOMAIN owner = 1..k
  BY DEF ChainTypes
<1>2. QED
  BY <1>1, ChainAssumption DEF Points

\* The flushes a step leaves alone keep what they hold, if no point leaves the
\* chain other than by a user's hand.
LEMMA CarriesKept ==
    ASSUME ReplicaTypes, ChainTypes, NEW p \in Replicas, Carries(p), replica'[p] = replica[p],
           Kept \ {0} \subseteq Kept'
    PROVE  Carries(p)'
<1>1. replica[p].ids \subseteq DOMAIN owner /\ 0 \notin DOMAIN owner
  BY DEF ReplicaTypes, ChainTypes
<1>2. QED
  BY <1>1 DEF Carries

\* Changing one process.
LEMMA ReplicaReplaced ==
    ASSUME ReplicaTypes, NEW p \in Replicas, NEW x \in ReplicaState,
           replica' = [replica EXCEPT ![p] = x],
           x.ids \cup x.write \subseteq DOMAIN owner', DOMAIN owner \subseteq DOMAIN owner'
    PROVE  /\ ReplicaTypes'
           /\ replica'[p] = x
           /\ \A q \in Replicas : q # p => replica'[q] = replica[q]
BY DEF ReplicaTypes

(***************************************************************************)
(* The steps that change neither the points nor the chain.                 *)
(***************************************************************************)

\* A process takes its next step, and nothing else that the invariant is about
\* changes but the index, the block and the runs.
LEMMA ReplicaMoves ==
    ASSUME ChainInv, NEW p \in Replicas, NEW x \in ReplicaState,
           UNCHANGED <<owner, buffered, ingest, chain, taken>>,
           replica' = [replica EXCEPT ![p] = x],
           x.ids \cup x.write \subseteq DOMAIN owner,
           expRun' \in [ChainRuns -> {"none", "bare", "counted"}],
           chainIndex' = chainIndex \/ chainIndex' = DOMAIN chain,
           unindexed' \in BOOLEAN, flushBlocked' \in BOOLEAN,
           x.pc = "idle" => x.ids = {},
           x.pc = "commit" => x.pre.rows \subseteq x.write /\ x.ids \subseteq x.write \cup Kept,
           x.pc \in {"index", "scan", "prune", "delete"} => x.ids \subseteq Kept
    PROVE  ChainInv'
<1>1. ReplicaTypes' /\ replica'[p] = x /\ \A q \in Replicas : q # p => replica'[q] = replica[q]
  BY ReplicaReplaced DEF ChainInv
<1>2. ChainTypes'
  BY DEF ChainInv, ChainTypes
<1>3. FileTypes'
  BY DEF ChainInv, FileTypes
<1>4. Kept' = Kept /\ ChainPoints' = ChainPoints
  BY DEF Kept, ChainPoints
<1>5. \A q \in Replicas : Carries(q)'
  <2> TAKE q \in Replicas
  <2>1. CASE q = p
    BY <1>1, <1>4, <2>1 DEF Carries
  <2>2. CASE q # p
    BY <1>1, <1>4, <2>2, CarriesKept DEF ChainInv
  <2>3. QED
    BY <2>1, <2>2
<1>6. PointsKept'
  BY <1>4 DEF ChainInv, PointsKept
<1>7. QED
  BY <1>1, <1>2, <1>3, <1>5, <1>6 DEF ChainInv
\* What the invariant says of one process.
LEMMA ReplicaFacts ==
    ASSUME ChainInv, NEW p \in Replicas
    PROVE  /\ replica \in [Replicas -> ReplicaState] /\ replica[p] \in ReplicaState
           /\ replica[p].ids \subseteq DOMAIN owner /\ replica[p].write \subseteq DOMAIN owner
           /\ DOMAIN owner \subseteq Points /\ buffered \subseteq DOMAIN owner
           /\ expRun \in [ChainRuns -> {"none", "bare", "counted"}]
           /\ unindexed \in BOOLEAN /\ flushBlocked \in BOOLEAN
BY OwnersArePoints DEF ChainInv, ReplicaTypes, ChainTypes

\* An idle process is one.
LEMMA IdleFacts ==
    /\ ReplicaIdle \in ReplicaState
    /\ ReplicaIdle.pc = "idle" /\ ReplicaIdle.ids = {} /\ ReplicaIdle.write = {}
    /\ ReplicaIdle.pre = [here |-> FALSE, rows |-> {}]
BY DEF ReplicaIdle, ReplicaState

\* Choosing points and the part they go to.
LEMMA FlushChoosesKeeps ==
    ASSUME ChainInv, NEW p \in Replicas, FlushList(p) \/ ResolveMetricsTarget(p)
    PROVE  ChainInv'
<1>1. CASE FlushList(p)
  <2> DEFINE x == [replica[p] EXCEPT !.pc = "resolve", !.ids = Oldest(buffered)]
  <2>1. Oldest(buffered) \subseteq DOMAIN owner
    BY ReplicaFacts DEF Oldest
  <2>2. x \in ReplicaState /\ x.pc = "resolve" /\ x.ids = Oldest(buffered) /\ x.write = replica[p].write
    BY <2>1, ReplicaFacts DEF ReplicaState
  <2>3. replica' = [replica EXCEPT ![p] = x]
    BY <1>1 DEF FlushList
  <2>4. UNCHANGED <<owner, buffered, expRun, ingest, chain, chainIndex, unindexed, flushBlocked, taken>>
    BY <1>1 DEF FlushList
  <2> HIDE DEF x
  <2>5. QED
    BY <2>1, <2>2, <2>3, <2>4, ReplicaFacts, ReplicaMoves
<1>2. CASE ResolveMetricsTarget(p)
  <2>1. Active \in Nat /\ Active + 1 \in Nat
    BY ActiveIsPart DEF ChainInv
  <2>2. PICK missing \in BOOLEAN : missing = (0 \notin DOMAIN chain)
    OBVIOUS
  <2> DEFINE x == [replica[p] EXCEPT !.pc = "read", !.path = Active, !.next = Active + 1,
                                     !.restore = missing]
  <2>3. x \in ReplicaState /\ x.pc = "read" /\ x.ids = replica[p].ids /\ x.write = replica[p].write
    BY <2>1, ReplicaFacts DEF ReplicaState
  <2>4. replica' = [replica EXCEPT ![p] = x]
    BY <1>2, <2>2, Zenon DEF ResolveMetricsTarget
  <2>5. UNCHANGED <<owner, buffered, expRun, ingest, chain, chainIndex, unindexed, flushBlocked, taken>>
    BY <1>2 DEF ResolveMetricsTarget
  <2> HIDE DEF x
  <2>6. QED
    BY <2>3, <2>4, <2>5, ReplicaFacts, ReplicaMoves
<1>3. QED
  BY <1>1, <1>2

\* A file with its rows is what a path precondition compares.
LEMMA BlobFacts ==
    ASSUME ChainInv, NEW n
    PROVE  /\ Blob(n).rows \ {0} \subseteq DOMAIN owner
           /\ Blob(n).rows \subseteq ChainPoints
           /\ Blob(n).rows = Oversize \/ Blob(n).rows \subseteq DOMAIN owner
           /\ Blob(n) \in [here : BOOLEAN, rows : SUBSET (Points \cup {0})]
<1>1. CASE n \in DOMAIN chain
  <2>1. Blob(n) = [here |-> TRUE, rows |-> chain[n]]
    BY <1>1 DEF Blob
  <2>2. chain[n] = {0} \/ chain[n] \subseteq DOMAIN owner
    BY <1>1 DEF ChainInv, FileTypes, Oversize
  <2>3. chain[n] \subseteq ChainPoints
    BY <1>1 DEF ChainPoints
  <2>4. DOMAIN owner \subseteq Points
    BY OwnersArePoints DEF ChainInv
  <2>5. QED
    BY <2>1, <2>2, <2>3, <2>4 DEF Oversize
<1>2. CASE n \notin DOMAIN chain
  <2>1. Blob(n) = [here |-> FALSE, rows |-> {}]
    BY <1>2 DEF Blob
  <2>2. QED
    BY <2>1
<1>3. QED
  BY <1>1, <1>2

\* Reading the file, merging and rotating: the file to be written has the rows
\* of the one it replaces, and every point is in it or in the chain already.
LEMMA ReadExistingKeeps ==
    ASSUME ChainInv, NEW p \in Replicas, ReadExisting(p)
    PROVE  ChainInv'
<1> DEFINE me == replica[p]
           n == me.path
           rows == Blob(n).rows
           new == me.ids \ rows
           rotate == MaybeRotate(rows, new)
<1>1. CASE RowCount(rows) > MaxRows
  <2>1. /\ replica' = [replica EXCEPT ![p] = ReplicaIdle] /\ flushBlocked' = TRUE /\ buffered' = buffered
        /\ UNCHANGED <<owner, expRun, ingest, chain, chainIndex, unindexed, taken>>
    BY <1>1 DEF ReadExisting, Release, BlockedBuffer
  <2>2. QED
    BY <2>1, IdleFacts, ReplicaFacts, ReplicaMoves
<1>2. CASE ~(RowCount(rows) > MaxRows)
  <2> DEFINE x == [me EXCEPT !.pc = "commit",
                        !.path = IF rotate THEN me.next ELSE n,
                        !.pre = IF rotate THEN ReplicaIdle.pre ELSE Blob(n),
                        !.write = IF rotate THEN new ELSE rows \cup new]
  <2>1. rows \subseteq DOMAIN owner /\ rows \subseteq ChainPoints
    <3>1. rows # Oversize
      BY <1>2, ChainAssumption DEF RowCount
    <3>2. QED
      BY <3>1, BlobFacts
  <2>2. me \in ReplicaState /\ me.ids \subseteq DOMAIN owner /\ DOMAIN owner \subseteq Points
    BY ReplicaFacts
  <2>3. me.next \in Nat /\ n \in Nat
    BY <2>2 DEF ReplicaState
  <2>4. Blob(n) \in [here : BOOLEAN, rows : SUBSET (Points \cup {0})]
    BY BlobFacts
  <2>5. new \subseteq DOMAIN owner /\ rows \cup new \subseteq DOMAIN owner
    BY <2>1, <2>2
  <2>6. replica' = [replica EXCEPT ![p] = x]
    BY <1>2 DEF ReadExisting
  <2>7. UNCHANGED <<owner, expRun, buffered, ingest, chain, chainIndex, unindexed, flushBlocked, taken>>
    BY <1>2 DEF ReadExisting
  <2>8. CASE rotate
    <3>1. x = [me EXCEPT !.pc = "commit", !.path = me.next, !.pre = ReplicaIdle.pre, !.write = new]
      BY <2>8
    <3> HIDE DEF new, rotate, rows, n, x
    <3> DEFINE absent == [here |-> FALSE, rows |-> {}]
    <3>2. absent \in [here : BOOLEAN, rows : SUBSET (Points \cup {0})] /\ absent.rows = {}
      OBVIOUS
    <3>3. ReplicaIdle.pre = absent
      BY IdleFacts
    <3> HIDE DEF absent
    <3>4. x \in ReplicaState /\ x.pc = "commit" /\ x.ids = me.ids /\ x.write = new /\ x.pre.rows = {}
      BY <2>2, <2>3, <2>5, <3>1, <3>2, <3>3 DEF ReplicaState
    <3>5. me.ids \subseteq new \cup Kept
      BY <2>1 DEF new, Kept
    <3>6. QED
      BY <2>2, <2>5, <2>6, <2>7, <3>4, <3>5, ReplicaFacts, ReplicaMoves
  <2>9. CASE ~rotate
    <3>1. x = [me EXCEPT !.pc = "commit", !.path = n, !.pre = Blob(n), !.write = rows \cup new]
      BY <2>9
    <3>2. me.ids \subseteq rows \cup new
      OBVIOUS
    <3>3. Blob(n).rows = rows
      OBVIOUS
    <3> HIDE DEF new, rotate, rows, n, x
    <3>4. x \in ReplicaState /\ x.pc = "commit" /\ x.ids = me.ids /\ x.write = rows \cup new
          /\ x.pre = Blob(n)
      BY <2>2, <2>3, <2>4, <2>5, <3>1 DEF ReplicaState
    <3>5. QED
      BY <2>2, <2>5, <2>6, <2>7, <3>2, <3>3, <3>4, ReplicaFacts, ReplicaMoves
  <2>10. QED
    BY <2>8, <2>9
<1>3. QED
  BY <1>1, <1>2

\* A job, the index of either, and what a flush does of it but deleting.
LEMMA IndexKeeps ==
    ASSUME ChainInv, NEW p \in Replicas, BeginJob(p) \/ IndexChain(p) \/ ScanChain(p) \/ PruneRuns(p)
    PROVE  ChainInv'
<1>1. replica[p] \in ReplicaState /\ replica \in [Replicas -> ReplicaState]
  BY ReplicaFacts
<1>2. \A pc \in {"idle", "index", "scan", "delete"} :
          LET x == [replica[p] EXCEPT !.pc = pc]
          IN  x \in ReplicaState /\ x.pc = pc /\ x.ids = replica[p].ids /\ x.write = replica[p].write
  BY <1>1 DEF ReplicaState
<1>3. \A pc : Reach(p, pc) => replica' = [replica EXCEPT ![p] = [replica[p] EXCEPT !.pc = pc]]
  BY DEF Reach
<1>4. /\ AfterIndex(p) \in {"idle", "delete"}
      /\ AfterIndex(p) = "idle" => replica[p].ids = {}
  BY DEF AfterIndex
<1>5. Carries(p)
  BY DEF ChainInv
<1>6. CASE BeginJob(p)
  <2> DEFINE x == [replica[p] EXCEPT !.pc = "index"]
  <2>1. replica[p].ids = {} /\ x \in ReplicaState /\ x.pc = "index" /\ x.ids = {}
        /\ x.write = replica[p].write
    BY <1>2, <1>5, <1>6 DEF BeginJob, Carries
  <2>2. replica' = [replica EXCEPT ![p] = x]
    BY <1>3, <1>6 DEF BeginJob
  <2> HIDE DEF x
  <2>3. QED
    BY <1>6, <2>1, <2>2, ReplicaFacts, ReplicaMoves DEF BeginJob
<1>7. CASE IndexChain(p)
  <2> DEFINE x == [replica[p] EXCEPT !.pc = "scan"]
  <2>1. /\ x \in ReplicaState /\ x.pc = "scan" /\ x.ids = replica[p].ids /\ x.write = replica[p].write
        /\ replica[p].ids \subseteq Kept
    BY <1>2, <1>5, <1>7 DEF IndexChain, Carries
  <2>2. replica' = [replica EXCEPT ![p] = x]
    BY <1>3, <1>7 DEF IndexChain
  <2> HIDE DEF x
  <2>3. QED
    BY <1>7, <2>1, <2>2, ReplicaFacts, ReplicaMoves DEF IndexChain
<1>8. CASE ScanChain(p)
  <2> DEFINE found == {owner[i] : i \in ChainPoints \ {0}}
  <2>1. replica[p].ids \subseteq Kept
    BY <1>5, <1>8 DEF ScanChain, Carries
  <2>2. UNCHANGED <<owner, buffered, expRun, ingest, chain, chainIndex, unindexed, flushBlocked, taken>>
    BY <1>8 DEF ScanChain
  <2>3. CASE replica' = [replica EXCEPT ![p].pc = "prune", ![p].keep = found]
    <3> DEFINE x == [replica[p] EXCEPT !.pc = "prune", !.keep = found]
    <3>1. found \subseteq ChainRuns
      <4>1. ChainPoints \ {0} \subseteq DOMAIN owner
        BY DEF ChainInv, FileTypes, ChainPoints, Oversize
      <4>2. QED
        BY <4>1 DEF ChainInv, ChainTypes
    <3>2. x \in ReplicaState /\ x.pc = "prune" /\ x.ids = replica[p].ids /\ x.write = replica[p].write
      BY <1>1, <3>1 DEF ReplicaState
    <3>3. replica' = [replica EXCEPT ![p] = x]
      BY <2>3
    <3> HIDE DEF x, found
    <3>4. QED
      BY <2>1, <2>2, <3>2, <3>3, ReplicaFacts, ReplicaMoves
  <2>4. CASE Reach(p, AfterIndex(p))
    <3> DEFINE x == [replica[p] EXCEPT !.pc = AfterIndex(p)]
    <3>1. x \in ReplicaState /\ x.pc = AfterIndex(p) /\ x.ids = replica[p].ids
          /\ x.write = replica[p].write
      BY <1>2, <1>4
    <3>2. replica' = [replica EXCEPT ![p] = x]
      BY <1>3, <2>4
    <3> HIDE DEF x
    <3>3. QED
      BY <1>4, <2>1, <2>2, <3>1, <3>2, ReplicaFacts, ReplicaMoves
  <2>5. QED
    BY <1>8, <2>3, <2>4 DEF ScanChain
<1>9. CASE PruneRuns(p)
  <2> DEFINE x == [replica[p] EXCEPT !.pc = AfterIndex(p), !.keep = {}]
  <2>1. replica[p].ids \subseteq Kept
    BY <1>5, <1>9 DEF PruneRuns, Carries
  <2>2. x \in ReplicaState /\ x.pc = AfterIndex(p) /\ x.ids = replica[p].ids
        /\ x.write = replica[p].write
    BY <1>1, <1>4 DEF ReplicaState
  <2>3. /\ replica' = [replica EXCEPT ![p] = x]
        /\ expRun' \in [ChainRuns -> {"none", "bare", "counted"}]
        /\ UNCHANGED <<owner, buffered, ingest, chain, chainIndex, unindexed, flushBlocked, taken>>
    BY <1>9, ReplicaFacts DEF PruneRuns
  <2> HIDE DEF x
  <2>4. QED
    BY <1>4, <2>1, <2>2, <2>3, ReplicaFacts, ReplicaMoves
<1>10. QED
  BY <1>6, <1>7, <1>8, <1>9

\* An interrupted flush or job holds nothing any more.
LEMMA InterruptedKeeps ==
    ASSUME ChainInv, NEW p \in Replicas, FlushInterrupted(p)
    PROVE  ChainInv'
BY IdleFacts, ReplicaFacts, ReplicaMoves DEF FlushInterrupted, Release

(***************************************************************************)
(* The steps that move points.                                             *)
(***************************************************************************)

\* A commit replaces the file by one that has its rows, and adds the flush's points.
LEMMA CommitFlushKeeps ==
    ASSUME ChainInv, NEW p \in Replicas, CommitFlush(p)
    PROVE  ChainInv'
<1> DEFINE me == replica[p]
           n == me.path
           parts == DOMAIN chain \cup {n} \cup (IF Restores(p) THEN {0} ELSE {})
<1>1. /\ me \in ReplicaState /\ me.pc = "commit" /\ n \in Nat /\ me.write \subseteq DOMAIN owner
      /\ me.pre.rows \subseteq me.write /\ me.ids \subseteq me.write \cup Kept
      /\ me.ids \subseteq DOMAIN owner
  <2>1. me \in ReplicaState /\ me.pc = "commit" /\ me.write \subseteq DOMAIN owner
        /\ me.ids \subseteq DOMAIN owner
    BY ReplicaFacts DEF CommitFlush
  <2>2. n \in Nat
    BY <2>1 DEF ReplicaState
  <2>3. QED
    BY <2>1, <2>2 DEF ChainInv, Carries
<1>2. CASE ~Preconditions(p)
  <2>1. /\ replica' = [replica EXCEPT ![p] = ReplicaIdle]
        /\ UNCHANGED <<owner, buffered, expRun, ingest, chain, chainIndex, unindexed,
                       flushBlocked, taken>>
    BY <1>2 DEF CommitFlush, Release
  <2>2. QED
    BY <2>1, IdleFacts, ReplicaFacts, ReplicaMoves
<1>3. CASE Preconditions(p)
  <2>1. /\ chain' = [m \in parts |-> IF m = n THEN me.write
                                     ELSE IF m \in DOMAIN chain THEN chain[m] ELSE {}]
        /\ replica' = [replica EXCEPT ![p].pc = "index"] /\ flushBlocked' = FALSE
        /\ UNCHANGED <<owner, buffered, expRun, ingest, chainIndex, unindexed, taken>>
    BY <1>3 DEF CommitFlush, Reach
  <2>2. n \in DOMAIN chain => chain[n] \subseteq me.write
    BY <1>1, <1>3 DEF Preconditions, Blob
  <2>3. ChainPoints \subseteq ChainPoints' /\ me.write \subseteq ChainPoints'
    <3>1. \A m \in DOMAIN chain : m \in DOMAIN chain' /\ chain[m] \subseteq chain'[m]
      BY <2>1, <2>2
    <3>2. n \in DOMAIN chain' /\ chain'[n] = me.write
      BY <2>1
    <3>3. QED
      BY <3>1, <3>2 DEF ChainPoints
  <2>4. Kept \subseteq Kept' /\ me.ids \subseteq Kept'
    BY <1>1, <2>1, <2>3 DEF Kept
  <2> DEFINE x == [me EXCEPT !.pc = "index"]
  <2>5. x \in ReplicaState /\ x.pc = "index" /\ x.ids = me.ids /\ x.write = me.write
    BY <1>1 DEF ReplicaState
  <2>6. replica' = [replica EXCEPT ![p] = x]
    BY <2>1
  <2> HIDE DEF x
  <2>7. ReplicaTypes' /\ replica'[p] = x /\ \A q \in Replicas : q # p => replica'[q] = replica[q]
    BY <1>1, <2>1, <2>5, <2>6, ReplicaReplaced DEF ChainInv
  <2>8. FileTypes'
    <3>1. DOMAIN chain' = parts
      BY <2>1
    <3>2. DOMAIN chain \subseteq Nat
      BY DEF ChainInv, FileTypes
    <3>3. PICK b \in Nat : \A m \in DOMAIN chain : m <= b
      BY DEF ChainInv, FileTypes
    <3>4. b + n \in Nat /\ \A m \in DOMAIN chain' : m <= b + n
      BY <1>1, <3>1, <3>2, <3>3
    <3>5. \A m \in DOMAIN chain' : m \in Nat
      BY <1>1, <3>1, <3>2
    <3>6. \A m \in DOMAIN chain' : chain'[m] = Oversize \/ chain'[m] \subseteq DOMAIN owner
      <4> TAKE m \in DOMAIN chain'
      <4>1. CASE m = n
        BY <1>1, <2>1, <4>1
      <4>2. CASE m # n /\ m \in DOMAIN chain
        BY <2>1, <4>2 DEF ChainInv, FileTypes
      <4>3. CASE m # n /\ m \notin DOMAIN chain
        BY <2>1, <4>3
      <4>4. QED
        BY <4>1, <4>2, <4>3
    <3>7. QED
      BY <2>1, <3>4, <3>5, <3>6 DEF ChainInv, FileTypes, Oversize
  <2>9. ChainTypes'
    BY <2>1 DEF ChainInv, ChainTypes
  <2>10. \A q \in Replicas : Carries(q)'
    <3> TAKE q \in Replicas
    <3>1. CASE q = p
      BY <2>4, <2>5, <2>7, <3>1 DEF Carries
    <3>2. CASE q # p
      BY <2>4, <2>7, <3>2, CarriesKept DEF ChainInv
    <3>3. QED
      BY <3>1, <3>2
  <2>11. PointsKept'
    BY <2>1, <2>3 DEF ChainInv, PointsKept
  <2>12. QED
    BY <2>7, <2>8, <2>9, <2>10, <2>11 DEF ChainInv
<1>4. QED
  BY <1>2, <1>3

\* What a flush deletes from the buffer is in the chain, or users removed it.
LEMMA DeletePointsKeeps ==
    ASSUME ChainInv, NEW p \in Replicas, DeletePoints(p)
    PROVE  ChainInv'
<1>1. /\ replica[p].pc = "delete" /\ buffered' = buffered \ replica[p].ids
      /\ replica' = [replica EXCEPT ![p] = ReplicaIdle]
      /\ UNCHANGED <<owner, expRun, ingest, chain, chainIndex, unindexed, flushBlocked, taken>>
  BY DEF DeletePoints, Release
<1>2. replica[p].ids \subseteq Kept
  BY <1>1 DEF ChainInv, Carries
<1>3. ReplicaTypes' /\ replica'[p] = ReplicaIdle /\ \A q \in Replicas : q # p => replica'[q] = replica[q]
  BY <1>1, IdleFacts, ReplicaReplaced DEF ChainInv
<1>4. Kept' = Kept /\ ChainPoints' = ChainPoints
  BY <1>1 DEF Kept, ChainPoints
<1>5. \A q \in Replicas : Carries(q)'
  <2> TAKE q \in Replicas
  <2>1. CASE q = p
    BY <1>3, <2>1, IdleFacts DEF Carries
  <2>2. CASE q # p
    BY <1>3, <1>4, <2>2, CarriesKept DEF ChainInv
  <2>3. QED
    BY <2>1, <2>2
<1>6. PointsKept'
  BY <1>1, <1>2, <1>4 DEF ChainInv, PointsKept, Kept
<1>7. ChainTypes' /\ FileTypes'
  BY <1>1 DEF ChainInv, ChainTypes, FileTypes
<1>8. QED
  BY <1>3, <1>5, <1>6, <1>7 DEF ChainInv

\* Steps that leave the flushes alone keep what they hold.
LEMMA OthersKeep ==
    ASSUME ChainInv, UNCHANGED replica, ChainTypes', FileTypes', PointsKept',
           DOMAIN owner \subseteq DOMAIN owner', Kept \ {0} \subseteq Kept'
    PROVE  ChainInv'
<1>1. ReplicaTypes'
  BY DEF ChainInv, ReplicaTypes
<1>2. \A q \in Replicas : Carries(q)'
  BY CarriesKept DEF ChainInv
<1>3. QED
  BY <1>1, <1>2 DEF ChainInv

\* A point is buffered as it is accepted, under a row id of its own.
LEMMA IngestingKeeps ==
    ASSUME ChainInv, NEW r \in ChainRuns, Ingesting(r)
    PROVE  ChainInv'
<1>1. CASE UNCHANGED <<owner, buffered, chain, chainIndex, unindexed, flushBlocked, replica, taken>>
           /\ ChainTypes'
  <2>1. FileTypes' /\ Kept' = Kept /\ ChainPoints' = ChainPoints
    BY <1>1 DEF ChainInv, FileTypes, Kept, ChainPoints
  <2>2. PointsKept'
    BY <1>1, <2>1 DEF ChainInv, PointsKept
  <2>3. QED
    BY <1>1, <2>1, <2>2, OthersKeep
<1>2. CASE UpsertRun(r) \/ CountPoints(r)
  <2>1. UNCHANGED <<owner, buffered, chain, chainIndex, unindexed, flushBlocked, replica, taken>>
    BY <1>2 DEF UpsertRun, CountPoints
  <2>2. /\ expRun' \in [ChainRuns -> {"none", "bare", "counted"}]
        /\ ingest' \in [ChainRuns -> {"idle", "insert", "count"}]
    BY <1>2 DEF UpsertRun, CountPoints, ChainInv, ChainTypes
  <2>3. ChainTypes'
    BY <2>1, <2>2 DEF ChainInv, ChainTypes
  <2>4. QED
    BY <1>1, <2>1, <2>3
<1>3. CASE InsertPoints(r)
  <2>1. /\ UNCHANGED <<expRun, chain, chainIndex, unindexed, flushBlocked, replica, taken>>
        /\ ingest' \in [ChainRuns -> {"idle", "insert", "count"}]
    BY <1>3 DEF InsertPoints, ChainInv, ChainTypes
  <2>2. CASE UNCHANGED <<owner, buffered>>
    <3>1. ChainTypes'
      BY <2>1, <2>2 DEF ChainInv, ChainTypes
    <3>2. QED
      BY <1>1, <2>1, <2>2, <3>1
  <2> DEFINE i == Cardinality(DOMAIN owner) + 1
  <2>3. CASE /\ Cardinality(DOMAIN owner) < MaxIngested
             /\ owner' = [j \in DOMAIN owner \cup {i} |-> IF j = i THEN r ELSE owner[j]]
             /\ buffered' = buffered \cup {i}
    <3>1. PICK k \in 0..MaxIngested : DOMAIN owner = 1..k
      BY DEF ChainInv, ChainTypes
    <3>2. i = k + 1 /\ k < MaxIngested
      BY <2>3, <3>1, NextPoint
    <3> HIDE DEF i
    <3>3. DOMAIN owner' = DOMAIN owner \cup {i} /\ DOMAIN owner' = 1..(k + 1) /\ k + 1 \in 0..MaxIngested
      BY <2>3, <3>1, <3>2, ChainAssumption
    <3>4. \A j \in DOMAIN owner' : owner'[j] \in ChainRuns
      BY <2>3 DEF ChainInv, ChainTypes
    <3>5. ChainTypes'
      BY <2>1, <2>3, <3>3, <3>4 DEF ChainInv, ChainTypes
    <3>6. FileTypes' /\ Kept' = Kept /\ ChainPoints' = ChainPoints
      BY <2>1, <3>3 DEF ChainInv, FileTypes, Kept, ChainPoints, Oversize
    <3>7. PointsKept'
      BY <2>1, <2>3, <3>3, <3>6 DEF ChainInv, PointsKept
    <3>8. QED
      BY <2>1, <3>3, <3>5, <3>6, <3>7, OthersKeep
  <2>4. QED
    BY <1>3, <2>2, <2>3 DEF InsertPoints
<1>4. QED
  BY <1>2, <1>3 DEF Ingesting

\* A push over a file counts the points it removes as removed.
LEMMA PushToChainKeeps ==
    ASSUME ChainInv, NEW n \in DOMAIN chain, NEW after \in SUBSET {n}, PushToChain(n, after)
    PROVE  ChainInv'
<1>1. /\ chain' = [m \in DOMAIN chain \ ({n} \ after) |-> IF m = n THEN Oversize ELSE chain[m]]
      /\ taken' = taken \cup (chain[n] \ {0}) /\ unindexed' = TRUE
      /\ UNCHANGED <<owner, buffered, expRun, ingest, chainIndex, flushBlocked, replica>>
  BY DEF PushToChain
<1>2. /\ DOMAIN chain' \subseteq DOMAIN chain
      /\ \A m \in DOMAIN chain : m # n => m \in DOMAIN chain' /\ chain'[m] = chain[m]
      /\ n \in DOMAIN chain' => chain'[n] = Oversize
  BY <1>1
<1>3. chain[n] \ {0} \subseteq DOMAIN owner
  BY DEF ChainInv, FileTypes, Oversize
<1>4. Kept \ {0} \subseteq Kept'
  <2> SUFFICES ASSUME NEW i \in ChainPoints, i # 0 PROVE i \in Kept'
    BY <1>1 DEF Kept
  <2>1. PICK m \in DOMAIN chain : i \in chain[m]
    BY DEF ChainPoints
  <2>2. CASE m = n
    BY <1>1, <2>1, <2>2 DEF Kept
  <2>3. CASE m # n
    BY <1>2, <2>1, <2>3 DEF Kept, ChainPoints
  <2>4. QED
    BY <2>2, <2>3
<1>5. ChainTypes'
  BY <1>1, <1>3 DEF ChainInv, ChainTypes
<1>6. FileTypes'
  <2>1. \E b \in Nat : \A m \in DOMAIN chain' : m <= b
    BY <1>2 DEF ChainInv, FileTypes
  <2>2. \A m \in DOMAIN chain' : m \in Nat /\ (chain'[m] = Oversize \/ chain'[m] \subseteq DOMAIN owner)
    BY <1>2 DEF ChainInv, FileTypes
  <2>3. QED
    BY <1>1, <2>1, <2>2 DEF ChainInv, FileTypes, Oversize
<1>7. PointsKept'
  <2>1. 0 \notin DOMAIN owner
    BY DEF ChainInv, ChainTypes
  <2>2. QED
    BY <1>1, <1>4, <2>1 DEF ChainInv, PointsKept, Kept
<1>8. QED
  BY <1>1, <1>4, <1>5, <1>6, <1>7, OthersKeep

\* Deleting a run counts the points it takes from the buffer as removed.
LEMMA DeleteExpRunKeeps ==
    ASSUME ChainInv, NEW r \in ChainRuns, DeleteExpRun(r)
    PROVE  ChainInv'
<1>1. /\ expRun' = [expRun EXCEPT ![r] = "none"]
      /\ buffered' = buffered \ RunPoints(r)
      /\ taken' = taken \cup (buffered \cap RunPoints(r))
      /\ UNCHANGED <<owner, ingest, chain, chainIndex, unindexed, flushBlocked, replica>>
  BY DEF DeleteExpRun
<1>2. ChainPoints' = ChainPoints /\ Kept \subseteq Kept'
  BY <1>1 DEF ChainPoints, Kept
<1>3. ChainTypes' /\ FileTypes'
  BY <1>1 DEF ChainInv, ChainTypes, FileTypes
<1>4. PointsKept'
  BY <1>1, <1>2 DEF ChainInv, PointsKept
<1>5. QED
  BY <1>1, <1>2, <1>3, <1>4, OthersKeep

\* The first state has no points.
LEMMA ChainInitially == ChainInit => ChainInv
<1> SUFFICES ASSUME ChainInit PROVE ChainInv
  OBVIOUS
<1>1. DOMAIN owner = {} /\ DOMAIN chain = {} /\ DOMAIN owner = 1..0 /\ 0 \in 0..MaxIngested
  BY ChainAssumption DEF ChainInit
<1>2. ChainTypes
  BY <1>1 DEF ChainInit, ChainTypes
<1>3. FileTypes
  BY <1>1 DEF ChainInit, FileTypes
<1>4. ReplicaTypes /\ \A p \in Replicas : Carries(p)
  BY IdleFacts DEF ChainInit, ReplicaTypes, Carries
<1>5. QED
  BY <1>1, <1>2, <1>3, <1>4 DEF ChainInv, PointsKept

\* Every step keeps the invariant.
LEMMA ChainNextKeeps == ASSUME ChainInv, [ChainNext]_chainVars PROVE ChainInv'
<1>1. CASE UNCHANGED chainVars
  <2>1. UNCHANGED <<owner, buffered, expRun, ingest, chain, chainIndex, unindexed, flushBlocked,
         replica, taken>>
    BY <1>1 DEF chainVars
  <2>2. ChainTypes' /\ FileTypes' /\ Kept' = Kept /\ PointsKept'
    BY <2>1 DEF ChainInv, ChainTypes, FileTypes, Kept, ChainPoints, PointsKept
  <2>3. QED
    BY <2>1, <2>2, OthersKeep
<1>2. CASE BlockLapses
  <2>1. /\ flushBlocked' = FALSE
        /\ UNCHANGED <<owner, buffered, expRun, ingest, chain, chainIndex, unindexed, replica, taken>>
    BY <1>2 DEF BlockLapses
  <2>2. ChainTypes' /\ FileTypes' /\ Kept' = Kept /\ PointsKept'
    BY <2>1 DEF ChainInv, ChainTypes, FileTypes, Kept, ChainPoints, PointsKept
  <2>3. QED
    BY <2>1, <2>2, OthersKeep
<1>3. ASSUME NEW p \in Replicas, ReplicaStep(p) \/ FlushInterrupted(p) PROVE ChainInv'
  BY <1>3, FlushChoosesKeeps, ReadExistingKeeps, CommitFlushKeeps, IndexKeeps, DeletePointsKeeps,
     InterruptedKeeps DEF ReplicaStep
<1>4. ASSUME NEW n \in DOMAIN chain, PushToChain(n, {}) \/ PushToChain(n, {n}) PROVE ChainInv'
  BY <1>4, PushToChainKeeps
<1>5. QED
  BY <1>1, <1>2, <1>3, <1>4, IngestingKeeps, DeleteExpRunKeeps DEF ChainNext

\* The inductive invariant of the metrics chain holds in every state.
THEOREM ChainInductive == ChainSpec => []ChainInv
BY ChainInitially, ChainNextKeeps, PTL DEF ChainSpec

\* The variables of the metrics chain keep their types.
THEOREM ChainTypeCorrect == ChainSpec => []ChainTypeOK
<1>1. ASSUME ChainInv PROVE ChainTypeOK
  <2>1. DOMAIN owner \subseteq Points
    BY <1>1, OwnersArePoints DEF ChainInv
  <2>2. QED
    BY <1>1, <2>1 DEF ChainInv, ChainTypes, FileTypes, ReplicaTypes, ChainTypeOK
<1>2. QED
  BY <1>1, ChainInductive, PTL

\* A point the ingest API accepted is buffered, in the chain, or removed by a
\* user, whatever is interrupted, blocked, refused or rotated, in however many
\* processes (flush.go).
THEOREM NoPointLost == ChainSpec => []PointsKept
BY ChainInductive, PTL DEF ChainInv
(***************************************************************************)
(* Ghost runs.                                                             *)
(***************************************************************************)

\* One process flushes and indexes: its ref lock serialises both.
OneReplica == \A p, q \in Replicas : p = q

\* What a scan found is still all the chain has when the prune comes, and runs
\* that have logged.
FoundAll ==
    \A p \in Replicas : replica[p].pc = "prune" =>
        /\ \A i \in ChainPoints \ {0} : owner[i] \in replica[p].keep
        /\ \A r \in replica[p].keep : RunPoints(r) # {}

\* A run whose points were counted has logged some.
CountedLogged == \A r \in ChainRuns : expRun[r] = "counted" => RunPoints(r) # {}

\* The inductive invariant of the run list.
PruneInv == ChainInv /\ FoundAll /\ CountedLogged /\ chainEdits \in Nat

\* Users' edits are counted.
LEMMA EditsCounted ==
    ASSUME chainEdits \in Nat, [ChainNext]_chainVars
    PROVE  chainEdits' \in Nat
<1>1. ASSUME NEW r \in ChainRuns, Ingesting(r) \/ DeleteExpRun(r) PROVE chainEdits' \in Nat
  BY <1>1 DEF Ingesting, UpsertRun, InsertPoints, CountPoints, DeleteExpRun
<1>2. ASSUME NEW p \in Replicas, ReplicaStep(p) \/ FlushInterrupted(p) PROVE chainEdits' \in Nat
  BY <1>2 DEF ReplicaStep, FlushInterrupted, FlushList, ResolveMetricsTarget, ReadExisting, CommitFlush,
     BeginJob, IndexChain, ScanChain, PruneRuns, DeletePoints
<1>3. ASSUME NEW n \in DOMAIN chain, PushToChain(n, {}) \/ PushToChain(n, {n}) PROVE chainEdits' \in Nat
  BY <1>3 DEF PushToChain
<1>4. BlockLapses \/ UNCHANGED chainVars => chainEdits' \in Nat
  BY DEF BlockLapses, chainVars
<1>5. QED
  BY <1>1, <1>2, <1>3, <1>4 DEF ChainNext

\* A point stays with the run it was logged under.
LEMMA OwnersStay ==
    ASSUME ChainInv, [ChainNext]_chainVars
    PROVE  /\ DOMAIN owner \subseteq DOMAIN owner'
           /\ \A i \in DOMAIN owner : owner'[i] = owner[i]
<1>1. CASE UNCHANGED owner
  BY <1>1
<1>2. ASSUME NEW r \in ChainRuns, InsertPoints(r)
      PROVE  /\ DOMAIN owner \subseteq DOMAIN owner'
             /\ \A i \in DOMAIN owner : owner'[i] = owner[i]
  <2> DEFINE i == Cardinality(DOMAIN owner) + 1
  <2>1. CASE owner' = [j \in DOMAIN owner \cup {i} |-> IF j = i THEN r ELSE owner[j]]
    <3>1. PICK k \in 0..MaxIngested : DOMAIN owner = 1..k
      BY DEF ChainInv, ChainTypes
    <3>2. i = k + 1 /\ i \notin DOMAIN owner
      BY <3>1, NextPoint
    <3> HIDE DEF i
    <3>3. QED
      BY <2>1, <3>2
  <2>2. QED
    BY <1>1, <1>2, <2>1 DEF InsertPoints
<1>3. ASSUME NEW r \in ChainRuns, UpsertRun(r) \/ CountPoints(r) \/ DeleteExpRun(r) PROVE UNCHANGED owner
  BY <1>3 DEF UpsertRun, CountPoints, DeleteExpRun
<1>4. ASSUME NEW p \in Replicas, ReplicaStep(p) \/ FlushInterrupted(p) PROVE UNCHANGED owner
  BY <1>4 DEF ReplicaStep, FlushInterrupted, FlushList, ResolveMetricsTarget, ReadExisting, CommitFlush,
     BeginJob, IndexChain, ScanChain, PruneRuns, DeletePoints
<1>5. ASSUME NEW n \in DOMAIN chain, PushToChain(n, {}) \/ PushToChain(n, {n}) PROVE UNCHANGED owner
  BY <1>5 DEF PushToChain
<1>6. BlockLapses \/ UNCHANGED chainVars => UNCHANGED owner
  BY DEF BlockLapses, chainVars
<1>7. QED
  BY <1>1, <1>2, <1>3, <1>4, <1>5, <1>6 DEF ChainNext, Ingesting

\* The points of a run stay its points.
LEMMA RunPointsStay ==
    ASSUME ChainInv, [ChainNext]_chainVars, NEW r
    PROVE  RunPoints(r) \subseteq RunPoints(r)'
BY OwnersStay DEF RunPoints

\* Only the commit of a flush brings a point into the chain.
LEMMA ChainStill ==
    ASSUME ChainInv, [ChainNext]_chainVars, \A p \in Replicas : ~CommitFlush(p)
    PROVE  ChainPoints' \subseteq ChainPoints \cup {0}
<1>1. CASE UNCHANGED chain
  BY <1>1 DEF ChainPoints
<1>2. ASSUME NEW r \in ChainRuns, Ingesting(r) \/ DeleteExpRun(r) PROVE UNCHANGED chain
  BY <1>2 DEF Ingesting, UpsertRun, InsertPoints, CountPoints, DeleteExpRun
<1>3. ASSUME NEW p \in Replicas, ReplicaStep(p) \/ FlushInterrupted(p) PROVE UNCHANGED chain
  BY <1>3 DEF ReplicaStep, FlushInterrupted, FlushList, ResolveMetricsTarget, ReadExisting,
     BeginJob, IndexChain, ScanChain, PruneRuns, DeletePoints
<1>4. ASSUME NEW n \in DOMAIN chain, NEW after, PushToChain(n, after)
      PROVE  ChainPoints' \subseteq ChainPoints \cup {0}
  <2>1. chain' = [m \in DOMAIN chain \ ({n} \ after) |-> IF m = n THEN Oversize ELSE chain[m]]
    BY <1>4 DEF PushToChain
  <2>2. \A m \in DOMAIN chain' : chain'[m] = {0} \/ (m \in DOMAIN chain /\ chain'[m] = chain[m])
    BY <2>1 DEF Oversize
  <2>3. QED
    BY <2>2 DEF ChainPoints
<1>5. BlockLapses \/ UNCHANGED chainVars => UNCHANGED chain
  BY DEF BlockLapses, chainVars
<1>6. QED
  BY <1>1, <1>2, <1>3, <1>4, <1>5 DEF ChainNext

\* A process that is about to prune either just scanned, or did nothing.
LEMMA PruneSince ==
    ASSUME ChainInv, [ChainNext]_chainVars, NEW p \in Replicas, replica'[p].pc = "prune"
    PROVE  \/ replica'[p] = replica[p]
           \/ /\ replica'[p].keep = {owner[i] : i \in ChainPoints \ {0}}
              /\ UNCHANGED <<owner, chain>>
<1>1. replica \in [Replicas -> ReplicaState]
  BY ReplicaFacts
<1>2. ASSUME NEW q \in Replicas, q # p, ReplicaStep(q) \/ FlushInterrupted(q)
     PROVE replica'[p] = replica[p]
  BY <1>1, <1>2 DEF ReplicaStep, FlushInterrupted, FlushList, ResolveMetricsTarget, ReadExisting,
         CommitFlush,
     BeginJob, IndexChain, ScanChain, PruneRuns, DeletePoints, Reach, Release
<1>3. ASSUME ReplicaStep(p) \/ FlushInterrupted(p)
      PROVE  /\ replica'[p].keep = {owner[i] : i \in ChainPoints \ {0}}
             /\ UNCHANGED <<owner, chain>>
  <2>1. replica[p] \in ReplicaState /\ DOMAIN replica = Replicas
    BY <1>1
  <2>2. ~(FlushList(p) \/ ResolveMetricsTarget(p) \/ ReadExisting(p))
    BY <2>1, IdleFacts DEF FlushList, ResolveMetricsTarget, ReadExisting, Release, ReplicaState
  <2>3. ~(CommitFlush(p) \/ BeginJob(p) \/ IndexChain(p))
    BY <2>1, IdleFacts DEF CommitFlush, BeginJob, IndexChain, Reach, Release, ReplicaState
  <2>4. ~(PruneRuns(p) \/ DeletePoints(p) \/ FlushInterrupted(p))
    BY <2>1, IdleFacts DEF PruneRuns, DeletePoints, FlushInterrupted, AfterIndex, Release, ReplicaState
  <2>5. ScanChain(p)
    BY <1>3, <2>2, <2>3, <2>4 DEF ReplicaStep
  <2>6. replica' = [replica EXCEPT ![p].pc = "prune", ![p].keep = {owner[i] : i \in ChainPoints \ {0}}]
    BY <2>1, <2>5 DEF ScanChain, Reach, AfterIndex, ReplicaState
  <2>7. QED
    BY <2>1, <2>5, <2>6 DEF ScanChain, ReplicaState
<1>4. ASSUME NEW r \in ChainRuns, Ingesting(r) \/ DeleteExpRun(r) PROVE UNCHANGED replica
  BY <1>4 DEF Ingesting, UpsertRun, InsertPoints, CountPoints, DeleteExpRun
<1>5. ASSUME NEW n \in DOMAIN chain, PushToChain(n, {}) \/ PushToChain(n, {n}) PROVE UNCHANGED replica
  BY <1>5 DEF PushToChain
<1>6. BlockLapses \/ UNCHANGED chainVars => UNCHANGED replica
  BY DEF BlockLapses, chainVars
<1>7. QED
  BY <1>2, <1>3, <1>4, <1>5, <1>6 DEF ChainNext

\* The points of the chain are points that were ingested.
LEMMA ChainOwned == ASSUME ChainInv PROVE ChainPoints \ {0} \subseteq DOMAIN owner
BY DEF ChainInv, FileTypes, ChainPoints, Oversize

\* With one process nothing enters the chain between its scan and its prune.
LEMMA FoundAllKept ==
    ASSUME OneReplica, PruneInv, [ChainNext]_chainVars
    PROVE  FoundAll'
<1> SUFFICES ASSUME NEW p \in Replicas, replica'[p].pc = "prune"
             PROVE  /\ \A i \in ChainPoints' \ {0} : owner'[i] \in replica'[p].keep
                    /\ \A r \in replica'[p].keep : RunPoints(r)' # {}
  BY DEF FoundAll
<1>1. ChainInv /\ replica[p] \in ReplicaState /\ DOMAIN replica = Replicas
  BY ReplicaFacts DEF PruneInv
<1>2. CASE replica'[p] = replica[p]
  <2>1. ASSUME NEW q \in Replicas PROVE ~CommitFlush(q)
    <3>1. q = p
      BY DEF OneReplica
    <3>2. QED
      BY <1>2, <3>1 DEF CommitFlush
  <2>2. ChainPoints' \subseteq ChainPoints \cup {0}
    BY <1>1, <2>1, ChainStill
  <2>3. \A i \in ChainPoints' \ {0} : i \in ChainPoints \ {0} /\ i \in DOMAIN owner
        /\ owner'[i] = owner[i]
    BY <1>1, <2>2, ChainOwned, OwnersStay
  <2>4. QED
    BY <1>1, <1>2, <2>3, RunPointsStay DEF PruneInv, FoundAll
<1>3. CASE /\ replica'[p].keep = {owner[i] : i \in ChainPoints \ {0}}
           /\ UNCHANGED <<owner, chain>>
  <2>1. ChainPoints' = ChainPoints
    BY <1>3 DEF ChainPoints
  <2>2. \A r \in replica'[p].keep : RunPoints(r) # {}
    BY <1>1, <1>3, ChainOwned DEF RunPoints
  <2>3. QED
    BY <1>1, <1>3, <2>1, <2>2, RunPointsStay
<1>4. QED
  BY <1>1, <1>2, <1>3, PruneSince

\* How a row of exp_runs changes: a request creates it or counts its points, the
\* index counts it or takes it, its owner deletes it.
LEMMA RunStep ==
    ASSUME ChainInv, [ChainNext]_chainVars, NEW r \in ChainRuns, expRun'[r] # expRun[r]
    PROVE  \/ expRun[r] = "none" /\ expRun'[r] = "bare"
           \/ expRun'[r] \in {"bare", "counted"} /\ (expRun'[r] = "counted" => RunPoints(r) # {})
           \/ \E p \in Replicas :
                 /\ replica[p].pc = "prune" /\ UNCHANGED <<owner, chain, buffered, chainEdits>>
                 /\ \/ r \in replica[p].keep /\ expRun'[r] = "counted"
                    \/ GhostRun(r, replica[p].keep) /\ expRun'[r] = "none"
           \/ expRun'[r] = "none" /\ chainEdits' = chainEdits + 1
<1>1. expRun \in [ChainRuns -> {"none", "bare", "counted"}]
  BY DEF ChainInv, ChainTypes
<1>2. ASSUME NEW q \in ChainRuns, UpsertRun(q)
      PROVE  expRun[r] = "none" /\ expRun'[r] = "bare"
  BY <1>1, <1>2 DEF UpsertRun
<1>3. ASSUME NEW q \in ChainRuns, InsertPoints(q) PROVE FALSE
  BY <1>3 DEF InsertPoints
<1>4. ASSUME NEW q \in ChainRuns, CountPoints(q)
      PROVE  expRun'[r] \in {"bare", "counted"} /\ (expRun'[r] = "counted" => RunPoints(r) # {})
  <2>1. expRun' = [expRun EXCEPT ![q] =
                    IF @ = "counted" \/ RunPoints(q) \cap buffered # {} THEN "counted" ELSE "bare"]
    BY <1>4 DEF CountPoints
  <2>2. q = r
    BY <1>1, <2>1
  <2>3. QED
    BY <1>1, <2>1, <2>2
<1>5. ASSUME NEW q \in ChainRuns, DeleteExpRun(q)
     PROVE expRun'[r] = "none" /\ chainEdits' = chainEdits + 1
  BY <1>1, <1>5 DEF DeleteExpRun
<1>6. ASSUME NEW p \in Replicas, PruneRuns(p)
      PROVE  /\ replica[p].pc = "prune" /\ UNCHANGED <<owner, chain, buffered, chainEdits>>
             /\ \/ r \in replica[p].keep /\ expRun'[r] = "counted"
                \/ GhostRun(r, replica[p].keep) /\ expRun'[r] = "none"
  BY <1>6 DEF PruneRuns
<1>7. ASSUME NEW p \in Replicas, ReplicaStep(p) \/ FlushInterrupted(p) PROVE PruneRuns(p)
  BY <1>7 DEF ReplicaStep, FlushInterrupted, FlushList, ResolveMetricsTarget, ReadExisting, CommitFlush,
     BeginJob, IndexChain, ScanChain, DeletePoints
<1>8. ASSUME NEW n \in DOMAIN chain, PushToChain(n, {}) \/ PushToChain(n, {n}) PROVE FALSE
  BY <1>8 DEF PushToChain
<1>9. ~BlockLapses /\ ~(UNCHANGED chainVars)
  BY DEF BlockLapses, chainVars
<1>10. QED
  BY <1>2, <1>3, <1>4, <1>5, <1>6, <1>7, <1>8, <1>9 DEF ChainNext, Ingesting

\* A run is counted only once it has logged.
LEMMA CountedLoggedKept ==
    ASSUME PruneInv, [ChainNext]_chainVars
    PROVE  CountedLogged'
<1> SUFFICES ASSUME NEW r \in ChainRuns, expRun'[r] = "counted" PROVE RunPoints(r)' # {}
  BY DEF CountedLogged
<1>1. ChainInv /\ RunPoints(r) \subseteq RunPoints(r)'
  BY RunPointsStay DEF PruneInv
<1>2. CASE expRun'[r] = expRun[r]
  BY <1>1, <1>2 DEF PruneInv, CountedLogged
<1>3. CASE expRun'[r] # expRun[r]
  <2>1. RunPoints(r) # {}
    BY <1>1, <1>3, RunStep DEF PruneInv, FoundAll
  <2>2. QED
    BY <1>1, <2>1
<1>4. QED
  BY <1>2, <1>3

\* Where one process flushes and indexes, the index takes only rows of runs whose
\* points are all gone, and never that of a run that logged none
\* (DeleteProjectRunsNotIn).
THEOREM OnlyGhostsPruned == OneReplica => (ChainSpec => PruneOnlyGhosts)
<1> SUFFICES ASSUME OneReplica PROVE ChainSpec => PruneOnlyGhosts
  OBVIOUS
<1>1. ChainInit => PruneInv
  <2> SUFFICES ASSUME ChainInit PROVE PruneInv
    OBVIOUS
  <2>1. FoundAll /\ CountedLogged
    BY IdleFacts DEF ChainInit, FoundAll, CountedLogged
  <2>2. QED
    BY <2>1, ChainInitially DEF PruneInv, ChainInit
<1>2. ASSUME PruneInv, [ChainNext]_chainVars PROVE PruneInv'
  BY <1>2, ChainNextKeeps, FoundAllKept, CountedLoggedKept, EditsCounted DEF PruneInv
<1>3. ASSUME PruneInv, [ChainNext]_chainVars
      PROVE  [\A r \in ChainRuns :
                (expRun[r] # "none" /\ expRun'[r] = "none" /\ chainEdits' = chainEdits) =>
                    /\ RunPoints(r) # {}
                    /\ RunPoints(r) \cap (buffered \cup ChainPoints) = {}]_chainVars
  <2> SUFFICES ASSUME NEW r \in ChainRuns, expRun[r] # "none", expRun'[r] = "none",
         chainEdits' = chainEdits,
                      ChainNext
               PROVE  /\ RunPoints(r) # {}
                      /\ RunPoints(r) \cap (buffered \cup ChainPoints) = {}
    BY <1>3
  <2>1. PICK p \in Replicas : replica[p].pc = "prune" /\ GhostRun(r, replica[p].keep)
    BY <1>3, RunStep DEF PruneInv
  <2>2. r \notin replica[p].keep /\ expRun[r] = "counted" /\ RunPoints(r) \cap buffered = {}
    BY <2>1 DEF GhostRun
  <2>3. RunPoints(r) # {}
    BY <1>3, <2>2 DEF PruneInv, CountedLogged
  <2>4. RunPoints(r) \cap ChainPoints = {}
    <3>1. 0 \notin RunPoints(r)
      BY <1>3 DEF PruneInv, ChainInv, ChainTypes, RunPoints
    <3>2. \A i \in RunPoints(r) : owner[i] = r
      BY DEF RunPoints
    <3>3. QED
      BY <1>3, <2>1, <2>2, <3>1, <3>2 DEF PruneInv, FoundAll
  <2>5. QED
    BY <2>2, <2>3, <2>4
<1>4. QED
  BY <1>1, <1>2, <1>3, PTL DEF ChainSpec, PruneOnlyGhosts

(***************************************************************************)
(* Points written twice.                                                   *)
(***************************************************************************)

\* The part a flush looks at first, and how far beyond it the chain goes.
Top == Highest(chainIndex)
Within(b) == \A n \in DOMAIN chain : n <= b

\* A flush that has committed.
Past(p) == replica[p].pc \in {"index", "scan", "prune", "delete"} /\ replica[p].ids # {}

\* Points that are in the chain and would be written again.
Late(p) == (buffered \cup replica[p].ids) \cap ChainPoints

\* All of them are in one file.
InFile(S, n) == S # {} => n \in DOMAIN chain /\ S \subseteq chain[n]

\* Points in the chain and in the buffer are in the file the next flush reads, and
\* among the points it takes; a flush that has committed is about to delete them.
LateFound(p) ==
    /\ replica[p].ids \cap buffered \subseteq Oldest(buffered)
    /\ ~Past(p) =>
        /\ Within(Top + 1) /\ InFile(Late(p), Active)
        /\ buffered \cap ChainPoints \subseteq Oldest(buffered)
    /\ Past(p) =>
        /\ buffered \cap ChainPoints \subseteq replica[p].ids
        /\ replica[p].pc # "index" => Within(Top)

\* What a flush takes, reads and writes.
WritesNew(p) ==
    LET w == replica[p] IN
    /\ w.pc \in {"resolve", "read", "commit"} =>
        w.ids # {} /\ buffered \cap ChainPoints \subseteq w.ids
    /\ w.pc = "read" => w.next = w.path + 1 /\ InFile(Late(p), w.path)
    /\ w.pc = "commit" =>
        w.write \ w.pre.rows \subseteq w.ids /\ (w.write \ w.pre.rows) \cap ChainPoints = {}

\* Before the first interruption what a flush has committed it deletes.
Undisturbed(p) ==
    /\ Within(Top + 1) /\ InFile(Late(p), Active)
    /\ ~Past(p) => Late(p) = {} /\ Within(Top)
    /\ replica[p].pc = "read" => replica[p].path = Top
    /\ replica[p].pc = "commit" => replica[p].path \in {Top, Top + 1}

\* A process, after no more than one interruption.
OnceBy(p) ==
    /\ flushFailures <= 1 => LateFound(p) /\ WritesNew(p)
    /\ flushFailures = 0 => Undisturbed(p)

\* The inductive invariant of PointsOnce.
OnceInv ==
    /\ flushFailures \in Nat
    /\ flushFailures <= 1 => PointsOnce
    /\ \A p \in Replicas : OnceBy(p)

\* Points have row ids from 1; 0 stands for rows without one.
LEMMA LatePoints ==
    ASSUME ChainInv, NEW p \in Replicas
    PROVE  /\ DOMAIN owner \subseteq Nat /\ 0 \notin DOMAIN owner
           /\ buffered \subseteq DOMAIN owner /\ Late(p) \subseteq DOMAIN owner
           /\ ChainPoints \ {0} \subseteq DOMAIN owner
<1>1. DOMAIN owner \subseteq Nat /\ 0 \notin DOMAIN owner
  BY DEF ChainInv, ChainTypes
<1>2. buffered \subseteq DOMAIN owner /\ replica[p].ids \subseteq DOMAIN owner
  BY ReplicaFacts
<1>3. QED
  BY <1>1, <1>2, ChainOwned DEF Late

\* The highest of a bounded set of parts.
LEMMA HighestPart ==
    ASSUME NEW parts \in SUBSET Nat, NEW b \in Nat, \A n \in parts : n <= b
    PROVE  /\ Highest(parts) \in Nat /\ Highest(parts) \in parts \cup {0}
           /\ \A n \in parts : n <= Highest(parts)
<1> DEFINE S == parts \cup {0}
<1>1. S \in SUBSET Nat /\ S # {} /\ \A n \in S : n <= b
  OBVIOUS
<1>2. Highest(parts) = Max(S)
  BY DEF Highest
<1>3. parts \subseteq S
  OBVIOUS
<1> HIDE DEF S
<1>4. Max(S) \in S /\ \A n \in S : n <= Max(S)
  BY <1>1, HighestOf
<1>5. QED
  BY <1>1, <1>2, <1>3, <1>4 DEF S

\* Files that go at most one part beyond the index are followed to their end.
LEMMA FollowedToEnd ==
    ASSUME NEW files \in SUBSET Nat, NEW h \in Nat, \A n \in files : n <= h + 1
    PROVE  Max({h} \cup {n \in files : n > h /\ \A m \in h + 1..n : m \in files})
               = IF h + 1 \in files THEN h + 1 ELSE h
<1> DEFINE run == {n \in files : n > h /\ \A m \in h + 1..n : m \in files}
<1>1. CASE h + 1 \in files
  <2>1. run = {h + 1}
    <3>1. h + 1 \in run
      <4>1. \A m \in h + 1..h + 1 : m = h + 1
        OBVIOUS
      <4>2. h + 1 > h
        OBVIOUS
      <4>3. QED
        BY <1>1, <4>1, <4>2
    <3>2. \A n \in run : n = h + 1
      OBVIOUS
    <3>3. QED
      BY <3>1, <3>2
  <2> DEFINE S == {h, h + 1}
  <2>2. {h} \cup run = S
    BY <2>1
  <2>3. S \in SUBSET Nat /\ S # {} /\ h + 1 \in Nat /\ \A n \in S : n <= h + 1
    OBVIOUS
  <2> HIDE DEF S
  <2>4. Max(S) \in S /\ \A n \in S : n <= Max(S)
    BY <2>3, HighestOf
  <2>5. Max(S) = h + 1
    BY <2>4 DEF S
  <2>6. QED
    BY <1>1, <2>2, <2>5
<1>2. CASE h + 1 \notin files
  <2>1. run = {}
    <3> SUFFICES ASSUME NEW n \in run PROVE FALSE
      OBVIOUS
    <3>1. n \in Nat /\ n > h /\ n <= h + 1 /\ n \in files
      OBVIOUS
    <3>2. n = h + 1
      BY <3>1
    <3>3. QED
      BY <1>2, <3>1, <3>2
  <2> DEFINE S == {h}
  <2>2. {h} \cup run = S
    BY <2>1
  <2>3. S \in SUBSET Nat /\ S # {} /\ \A n \in S : n <= h
    OBVIOUS
  <2> HIDE DEF S
  <2>4. Max(S) \in S
    BY <2>3, HighestOf
  <2>5. Max(S) = h
    BY <2>4 DEF S
  <2>6. QED
    BY <1>2, <2>2, <2>5
<1>3. QED
  BY <1>1, <1>2

\* The part a flush looks at first is a number, and none listed is higher, before
\* and after a step.
LEMMA TopHighest ==
    /\ FileTypes => Top \in Nat /\ Top \in chainIndex \cup {0} /\ \A n \in chainIndex : n <= Top
    /\ FileTypes' =>
        Top' \in Nat /\ Top' \in chainIndex' \cup {0} /\ \A n \in chainIndex' : n <= Top'
BY HighestPart DEF FileTypes, Top

\* A chain that goes at most one part beyond the index is followed to its end.
LEMMA ActiveWithin ==
    /\ FileTypes /\ Within(Top + 1) =>
        Active = IF Top + 1 \in DOMAIN chain THEN Top + 1 ELSE Top
    /\ FileTypes' /\ Within(Top + 1)' =>
        Active' = IF Top' + 1 \in DOMAIN chain' THEN Top' + 1 ELSE Top'
<1>1. ASSUME FileTypes, Within(Top + 1)
      PROVE  Active = IF Top + 1 \in DOMAIN chain THEN Top + 1 ELSE Top
  <2>1. DOMAIN chain \in SUBSET Nat /\ Top \in Nat /\ \A n \in DOMAIN chain : n <= Top + 1
    BY <1>1, TopHighest DEF FileTypes, Within
  <2>2. Active = Max({Top} \cup {n \in DOMAIN chain :
                                     n > Top /\ \A m \in Top + 1..n : m \in DOMAIN chain})
    BY DEF Active, Top
  <2>3. QED
    BY <2>1, <2>2, FollowedToEnd
<1>2. ASSUME FileTypes', Within(Top + 1)'
      PROVE  Active' = IF Top' + 1 \in DOMAIN chain' THEN Top' + 1 ELSE Top'
  <2>1. DOMAIN chain' \in SUBSET Nat /\ Top' \in Nat /\ \A n \in DOMAIN chain' : n <= Top' + 1
    BY <1>2, TopHighest DEF FileTypes, Within
  <2>2. Active' = Max({Top'} \cup {n \in DOMAIN chain' :
                                     n > Top' /\ \A m \in Top' + 1..n : m \in DOMAIN chain'})
    BY DEF Active, Top
  <2>3. QED
    BY <2>1, <2>2, FollowedToEnd
<1>3. QED
  BY <1>1, <1>2

\* While the chain is no longer than the index says, flushes go to its last part.
LEMMA ActiveIsTop ==
    /\ FileTypes /\ Within(Top) => Within(Top + 1) /\ Active = Top
    /\ FileTypes' /\ Within(Top)' => Within(Top + 1)' /\ Active' = Top'
<1>1. ASSUME FileTypes, Within(Top) PROVE Within(Top + 1) /\ Active = Top
  <2>1. Top \in Nat /\ DOMAIN chain \subseteq Nat
    BY <1>1, TopHighest DEF FileTypes
  <2>2. Within(Top + 1) /\ Top + 1 \notin DOMAIN chain
    BY <1>1, <2>1 DEF Within
  <2>3. QED
    BY <1>1, <2>2, ActiveWithin
<1>2. ASSUME FileTypes', Within(Top)' PROVE Within(Top + 1)' /\ Active' = Top'
  <2>1. Top' \in Nat /\ DOMAIN chain' \subseteq Nat
    BY <1>2, TopHighest DEF FileTypes
  <2>2. Within(Top + 1)' /\ Top' + 1 \notin DOMAIN chain'
    BY <1>2, <2>1 DEF Within
  <2>3. QED
    BY <1>2, <2>2, ActiveWithin
<1>3. QED
  BY <1>1, <1>2

\* What only depends on the files and the index.
LEMMA FilesSame ==
    ASSUME UNCHANGED <<chain, chainIndex>>
    PROVE  /\ ChainPoints' = ChainPoints /\ Top' = Top /\ Active' = Active
           /\ PointsOnce' <=> PointsOnce
BY DEF ChainPoints, Top, Highest, Active, PointsOnce

\* Among fewer points each has fewer older ones.
LEMMA OldestOfFewer ==
    ASSUME NEW S, NEW T \in SUBSET S, IsFiniteSet(S)
    PROVE  Oldest(S) \cap T \subseteq Oldest(T)
<1> SUFFICES ASSUME NEW i \in Oldest(S) \cap T PROVE i \in Oldest(T)
  OBVIOUS
<1> DEFINE A == {j \in S : j < i}
           B == {j \in T : j < i}
<1>1. A \in SUBSET S /\ B \in SUBSET A
  OBVIOUS
<1>2. Cardinality(A) < FlushLimit /\ i \in T
  BY DEF Oldest
<1> HIDE DEF A, B
<1>3. IsFiniteSet(A)
  BY <1>1, FS_Subset
<1>4. Cardinality(B) <= Cardinality(A) /\ IsFiniteSet(B)
  BY <1>1, <1>3, FS_Subset
<1>5. Cardinality(A) \in Nat /\ Cardinality(B) \in Nat /\ FlushLimit \in Nat
  BY <1>3, <1>4, FS_CardinalityType, ChainAssumption
<1>6. Cardinality(B) < FlushLimit
  BY <1>2, <1>4, <1>5
<1>7. QED
  BY <1>2, <1>6 DEF B, Oldest

\* A newer point leaves the oldest ones the oldest.
LEMMA OldestWithNewer ==
    ASSUME NEW S \in SUBSET Nat, NEW i \in Nat, \A j \in S : j < i
    PROVE  Oldest(S) \subseteq Oldest(S \cup {i})
<1> SUFFICES ASSUME NEW k \in Oldest(S) PROVE k \in Oldest(S \cup {i})
  OBVIOUS
<1>1. k \in S /\ k < i /\ k \in Nat
  BY DEF Oldest
<1>2. {j \in S \cup {i} : j < k} = {j \in S : j < k}
  BY <1>1
<1>3. QED
  BY <1>1, <1>2 DEF Oldest

\* A flush takes a point if there is one.
LEMMA OldestSome ==
    ASSUME NEW S \in SUBSET Nat, S # {}
    PROVE  Oldest(S) # {}
<1>1. PICK i \in S : \A j \in S : ~(<<j, i>> \in OpToRel(<, Nat))
  BY WFMin, NatLessThanWellFounded
<1>2. \A j \in S : ~(j < i)
  BY <1>1 DEF OpToRel
<1>3. {j \in S : j < i} = {}
  BY <1>2
<1>4. Cardinality({j \in S : j < i}) < FlushLimit
  BY <1>3, FS_EmptySet, ChainAssumption
<1>5. QED
  BY <1>4 DEF Oldest

(***************************************************************************)
(* The steps of the one process.                                           *)
(***************************************************************************)

\* What one process guarantees, the only one does.
LEMMA OnlyOne ==
    ASSUME OneReplica, NEW p \in Replicas, flushFailures' \in Nat,
           flushFailures' <= 1 => PointsOnce', OnceBy(p)'
    PROVE  OnceInv'
<1>1. \A q \in Replicas : q = p
  BY DEF OneReplica
<1>2. QED
  BY <1>1 DEF OnceInv

\* A process that gives its lock back, with what it took still buffered, leaves
\* things as an idle one finds them.
LEMMA ReleaseOnce ==
    ASSUME ChainInv, OnceInv, NEW p \in Replicas, Release(p), ~Past(p),
           UNCHANGED <<chain, chainIndex, buffered, flushFailures>>
    PROVE  OnceBy(p)'
<1>1. replica'[p] = ReplicaIdle
  BY ReplicaFacts DEF Release
<1>2. replica'[p].pc = "idle" /\ replica'[p].ids = {} /\ ~Past(p)'
  BY <1>1, IdleFacts DEF Past
<1>3. Late(p)' \subseteq Late(p) /\ Active' = Active /\ Top' = Top /\ ChainPoints' = ChainPoints
  BY <1>2, FilesSame DEF Late
<1>4. flushFailures <= 1 => LateFound(p)'
  <2> SUFFICES ASSUME flushFailures <= 1 PROVE LateFound(p)'
    OBVIOUS
  <2>1. /\ Within(Top + 1) /\ InFile(Late(p), Active)
        /\ buffered \cap ChainPoints \subseteq Oldest(buffered)
    BY DEF OnceInv, OnceBy, LateFound
  <2>2. Within(Top + 1)' /\ InFile(Late(p), Active)'
    BY <1>3, <2>1 DEF Within, InFile
  <2>3. QED
    BY <1>2, <1>3, <2>1, <2>2 DEF LateFound
<1>5. WritesNew(p)'
  BY <1>2 DEF WritesNew
<1>6. flushFailures = 0 => Undisturbed(p)'
  <2> SUFFICES ASSUME flushFailures = 0 PROVE Undisturbed(p)'
    OBVIOUS
  <2>1. Within(Top + 1) /\ InFile(Late(p), Active) /\ Late(p) = {} /\ Within(Top)
    BY DEF OnceInv, OnceBy, Undisturbed
  <2>2. Within(Top + 1)' /\ InFile(Late(p), Active)' /\ Late(p)' = {} /\ Within(Top)'
    BY <1>3, <2>1 DEF Within, InFile
  <2>3. QED
    BY <1>2, <2>2 DEF Undisturbed
<1>7. QED
  BY <1>4, <1>5, <1>6 DEF OnceBy

\* A flush takes the oldest points, the ones of the chain among them.
LEMMA FlushListOnce ==
    ASSUME ChainInv, OnceInv, NEW p \in Replicas, FlushList(p)
    PROVE  OnceBy(p)'
<1>1. /\ replica[p].pc = "idle" /\ buffered # {} /\ replica[p].ids = {} /\ ~Past(p)
      /\ UNCHANGED <<chain, chainIndex, buffered, flushFailures>>
  BY DEF FlushList, ChainInv, Carries, Past
<1>2. replica'[p] = [replica[p] EXCEPT !.pc = "resolve", !.ids = Oldest(buffered)]
  BY ReplicaFacts DEF FlushList
<1>3. replica'[p].pc = "resolve" /\ replica'[p].ids = Oldest(buffered) /\ ~Past(p)'
  BY <1>2, ReplicaFacts DEF ReplicaState, Past
<1>4. Late(p)' = Late(p) /\ Active' = Active /\ Top' = Top /\ ChainPoints' = ChainPoints
  <2>1. Oldest(buffered) \subseteq buffered
    BY DEF Oldest
  <2>2. QED
    BY <1>1, <1>3, <2>1, FilesSame DEF Late
<1>5. Oldest(buffered) # {}
  BY <1>1, LatePoints, OldestSome
<1>6. flushFailures <= 1 => LateFound(p)' /\ WritesNew(p)'
  <2> SUFFICES ASSUME flushFailures <= 1 PROVE LateFound(p)' /\ WritesNew(p)'
    OBVIOUS
  <2>1. /\ Within(Top + 1) /\ InFile(Late(p), Active)
        /\ buffered \cap ChainPoints \subseteq Oldest(buffered)
    BY <1>1 DEF OnceInv, OnceBy, LateFound
  <2>2. Within(Top + 1)' /\ InFile(Late(p), Active)'
    BY <1>1, <1>4, <2>1 DEF Within, InFile
  <2>3. Oldest(buffered)' = Oldest(buffered)
    BY <1>1 DEF Oldest
  <2>4. LateFound(p)'
    BY <1>1, <1>3, <1>4, <2>1, <2>2, <2>3 DEF LateFound
  <2>5. WritesNew(p)'
    BY <1>1, <1>3, <1>4, <1>5, <2>1 DEF WritesNew
  <2>6. QED
    BY <2>4, <2>5
<1>7. flushFailures = 0 => Undisturbed(p)'
  <2> SUFFICES ASSUME flushFailures = 0 PROVE Undisturbed(p)'
    OBVIOUS
  <2>1. Within(Top + 1) /\ InFile(Late(p), Active) /\ Late(p) = {} /\ Within(Top)
    BY <1>1 DEF OnceInv, OnceBy, Undisturbed
  <2>2. Within(Top + 1)' /\ InFile(Late(p), Active)' /\ Late(p)' = {} /\ Within(Top)'
    BY <1>1, <1>4, <2>1 DEF Within, InFile
  <2>3. QED
    BY <1>3, <2>2 DEF Undisturbed
<1>8. QED
  BY <1>1, <1>6, <1>7 DEF OnceBy

\* A flush goes to the last part, where what is written already is.
LEMMA ResolveOnce ==
    ASSUME ChainInv, OnceInv, NEW p \in Replicas, ResolveMetricsTarget(p)
    PROVE  OnceBy(p)'
<1>1. /\ replica[p].pc = "resolve" /\ ~Past(p)
      /\ UNCHANGED <<chain, chainIndex, buffered, flushFailures>>
  BY DEF ResolveMetricsTarget, Past
<1> DEFINE missing == 0 \notin DOMAIN chain
<1>2. replica'[p] = [replica[p] EXCEPT !.pc = "read", !.path = Active, !.next = Active + 1,
                                      !.restore = missing]
  BY ReplicaFacts DEF ResolveMetricsTarget
<1> HIDE DEF missing
<1>3. /\ replica'[p].pc = "read" /\ replica'[p].ids = replica[p].ids /\ ~Past(p)'
      /\ replica'[p].path = Active /\ replica'[p].next = Active + 1
  BY <1>2, ReplicaFacts DEF ReplicaState, Past
<1>4. Late(p)' = Late(p) /\ Active' = Active /\ Top' = Top /\ ChainPoints' = ChainPoints
  BY <1>1, <1>3, FilesSame DEF Late
<1>5. flushFailures <= 1 => LateFound(p)' /\ WritesNew(p)'
  <2> SUFFICES ASSUME flushFailures <= 1 PROVE LateFound(p)' /\ WritesNew(p)'
    OBVIOUS
  <2>1. /\ Within(Top + 1) /\ InFile(Late(p), Active)
        /\ buffered \cap ChainPoints \subseteq Oldest(buffered)
        /\ replica[p].ids \cap buffered \subseteq Oldest(buffered)
        /\ replica[p].ids # {} /\ buffered \cap ChainPoints \subseteq replica[p].ids
    BY <1>1 DEF OnceInv, OnceBy, LateFound, WritesNew
  <2>2. Within(Top + 1)' /\ InFile(Late(p), Active)'
    BY <1>1, <1>4, <2>1 DEF Within, InFile
  <2>3. Oldest(buffered)' = Oldest(buffered)
    BY <1>1 DEF Oldest
  <2>4. LateFound(p)'
    BY <1>1, <1>3, <1>4, <2>1, <2>2, <2>3 DEF LateFound
  <2>5. InFile(Late(p), replica[p].path)'
    BY <1>1, <1>3, <1>4, <2>1 DEF InFile
  <2>6. WritesNew(p)'
    BY <1>1, <1>3, <1>4, <2>1, <2>5 DEF WritesNew
  <2>7. QED
    BY <2>4, <2>6
<1>6. flushFailures = 0 => Undisturbed(p)'
  <2> SUFFICES ASSUME flushFailures = 0 PROVE Undisturbed(p)'
    OBVIOUS
  <2>1. Within(Top + 1) /\ InFile(Late(p), Active) /\ Late(p) = {} /\ Within(Top)
    BY <1>1 DEF OnceInv, OnceBy, Undisturbed
  <2>2. Within(Top + 1)' /\ InFile(Late(p), Active)' /\ Late(p)' = {} /\ Within(Top)'
    BY <1>1, <1>4, <2>1 DEF Within, InFile
  <2>3. Active = Top
    BY <2>1, ActiveIsTop DEF ChainInv
  <2>4. replica'[p].path = Top'
    BY <1>3, <1>4, <2>3
  <2>5. QED
    BY <1>3, <2>2, <2>4 DEF Undisturbed
<1>7. QED
  BY <1>1, <1>5, <1>6 DEF OnceBy

\* What a flush is about to add is nowhere in the chain.
LEMMA ReadExistingOnce ==
    ASSUME ChainInv, OnceInv, NEW p \in Replicas, ReadExisting(p)
    PROVE  OnceBy(p)'
<1> DEFINE me == replica[p]
           n == me.path
           rows == Blob(n).rows
           new == me.ids \ rows
           rotate == MaybeRotate(rows, new)
<1>1. replica[p].pc = "read" /\ ~Past(p) /\ UNCHANGED <<chain, chainIndex, flushFailures>>
  BY DEF ReadExisting, Past
<1>2. CASE RowCount(rows) > MaxRows
  <2>1. Release(p) /\ buffered' = buffered
    BY <1>2 DEF ReadExisting, BlockedBuffer
  <2>2. QED
    BY <1>1, <2>1, ReleaseOnce
<1>3. CASE ~(RowCount(rows) > MaxRows)
  <2> DEFINE path == IF rotate THEN me.next ELSE n
             pre == IF rotate THEN ReplicaIdle.pre ELSE Blob(n)
             write == IF rotate THEN new ELSE rows \cup new
  <2>1. buffered' = buffered
    BY <1>3 DEF ReadExisting
  <2>2. replica'[p] = [me EXCEPT !.pc = "commit", !.path = path, !.pre = pre, !.write = write]
    BY <1>3, ReplicaFacts DEF ReadExisting
  <2>3. /\ path \in {n, me.next}
        /\ write \ pre.rows \subseteq new
    BY IdleFacts
  <2> HIDE DEF path, pre, write
  <2>4. /\ replica'[p].pc = "commit" /\ replica'[p].ids = replica[p].ids /\ ~Past(p)'
        /\ replica'[p].path = path /\ replica'[p].write = write /\ replica'[p].pre = pre
    BY <2>2, ReplicaFacts DEF ReplicaState, Past
  <2>5. /\ Late(p)' = Late(p) /\ Active' = Active /\ Top' = Top /\ ChainPoints' = ChainPoints
        /\ Oldest(buffered)' = Oldest(buffered)
    BY <1>1, <2>1, <2>4, FilesSame DEF Late, Oldest
  <2>6. flushFailures <= 1 => LateFound(p)' /\ WritesNew(p)'
    <3> SUFFICES ASSUME flushFailures <= 1 PROVE LateFound(p)' /\ WritesNew(p)'
      OBVIOUS
    <3>1. /\ Within(Top + 1) /\ InFile(Late(p), Active)
          /\ buffered \cap ChainPoints \subseteq Oldest(buffered)
          /\ replica[p].ids \cap buffered \subseteq Oldest(buffered)
          /\ replica[p].ids # {} /\ buffered \cap ChainPoints \subseteq replica[p].ids
          /\ InFile(Late(p), n)
      BY <1>1 DEF OnceInv, OnceBy, LateFound, WritesNew
    <3>2. Within(Top + 1)' /\ InFile(Late(p), Active)'
      BY <1>1, <2>5, <3>1 DEF Within, InFile
    <3>3. LateFound(p)'
      BY <2>1, <2>4, <2>5, <3>1, <3>2 DEF LateFound
    <3>4. new \cap ChainPoints = {}
      <4>1. new \cap ChainPoints \subseteq Late(p)
        BY DEF Late
      <4>2. Late(p) # {} => Late(p) \subseteq rows
        BY <3>1 DEF InFile, Blob
      <4>3. QED
        BY <4>1, <4>2
    <3>5. new \subseteq replica[p].ids
      OBVIOUS
    <3>6. WritesNew(p)'
      BY <2>1, <2>3, <2>4, <2>5, <3>1, <3>4, <3>5 DEF WritesNew
    <3>7. QED
      BY <3>3, <3>6
  <2>7. flushFailures = 0 => Undisturbed(p)'
    <3> SUFFICES ASSUME flushFailures = 0 PROVE Undisturbed(p)'
      OBVIOUS
    <3>1. /\ Within(Top + 1) /\ InFile(Late(p), Active) /\ Late(p) = {} /\ Within(Top) /\ n = Top
          /\ me.next = n + 1
      BY <1>1 DEF OnceInv, OnceBy, Undisturbed, WritesNew
    <3>2. Within(Top + 1)' /\ InFile(Late(p), Active)' /\ Late(p)' = {} /\ Within(Top)'
      BY <1>1, <2>5, <3>1 DEF Within, InFile
    <3>3. replica'[p].path \in {Top', Top' + 1}
      BY <2>3, <2>4, <2>5, <3>1
    <3>4. QED
      BY <2>4, <3>2, <3>3 DEF Undisturbed
  <2>8. QED
    BY <1>1, <2>6, <2>7 DEF OnceBy
<1>4. QED
  BY <1>2, <1>3

\* A commit adds to one file what no file has, and after it the flush deletes all
\* that was written.
LEMMA CommitOnce ==
    ASSUME ChainInv, OnceInv, NEW p \in Replicas, CommitFlush(p)
    PROVE  OnceBy(p)' /\ (flushFailures' <= 1 => PointsOnce')
<1> DEFINE me == replica[p]
           n == me.path
           d == me.write \ me.pre.rows
           parts == DOMAIN chain \cup {n} \cup (IF Restores(p) THEN {0} ELSE {})
<1>1. /\ me.pc = "commit" /\ ~Past(p) /\ n \in Nat /\ me.pre.rows \subseteq me.write
      /\ UNCHANGED <<chainIndex, buffered, flushFailures>>
  <2>1. me.pc = "commit" /\ ~Past(p) /\ UNCHANGED <<chainIndex, buffered, flushFailures>>
    BY DEF CommitFlush, Past
  <2>2. n \in Nat
    BY ReplicaFacts DEF ReplicaState
  <2>3. QED
    BY <2>1, <2>2 DEF ChainInv, Carries
<1>2. CASE ~Preconditions(p)
  <2>1. Release(p) /\ chain' = chain
    BY <1>2 DEF CommitFlush
  <2>2. QED
    BY <1>1, <2>1, ReleaseOnce, FilesSame DEF OnceInv
<1>3. CASE Preconditions(p)
  <2>1. /\ chain' = [m \in parts |-> IF m = n THEN me.write
                                     ELSE IF m \in DOMAIN chain THEN chain[m] ELSE {}]
        /\ Reach(p, "index")
    BY <1>3 DEF CommitFlush
  <2>2. replica'[p] = [me EXCEPT !.pc = "index"]
    BY <2>1, ReplicaFacts DEF Reach
  <2>3. replica'[p].pc = "index" /\ replica'[p].ids = me.ids
    BY <2>2, ReplicaFacts DEF ReplicaState
  <2>4. /\ n \in DOMAIN chain => chain[n] = me.pre.rows
        /\ n \notin DOMAIN chain => me.pre.rows = {}
    BY <1>3 DEF Preconditions, Blob
  <2>5. chain'[n] = me.pre.rows \cup d /\ n \in DOMAIN chain'
    BY <1>1, <2>1
  <2>6. \A m \in DOMAIN chain' : m # n =>
            (m \in DOMAIN chain /\ chain'[m] = chain[m]) \/ chain'[m] = {}
    BY <2>1
  <2>7. DOMAIN chain' = parts
    BY <2>1
  <2> HIDE DEF d, parts
  <2>8. ChainPoints' \subseteq ChainPoints \cup d
    <3> SUFFICES ASSUME NEW i \in ChainPoints' PROVE i \in ChainPoints \cup d
      OBVIOUS
    <3>1. PICK m \in DOMAIN chain' : i \in chain'[m]
      BY DEF ChainPoints
    <3>2. CASE m = n
      BY <2>4, <2>5, <3>1, <3>2 DEF ChainPoints
    <3>3. CASE m # n
      BY <2>6, <3>1, <3>3 DEF ChainPoints
    <3>4. QED
      BY <3>2, <3>3
  <2>9. Oldest(buffered)' = Oldest(buffered) /\ Top' = Top
    BY <1>1 DEF Oldest, Top, Highest
  <2>10. flushFailures <= 1 =>
            PointsOnce /\ me.ids # {} /\ buffered \cap ChainPoints \subseteq me.ids
            /\ d \subseteq me.ids /\ d \cap ChainPoints = {}
            /\ me.ids \cap buffered \subseteq Oldest(buffered)
    BY <1>1 DEF OnceInv, OnceBy, WritesNew, LateFound, d
  <2>11. flushFailures <= 1 => PointsOnce'
    <3> SUFFICES ASSUME flushFailures <= 1, NEW a \in DOMAIN chain', NEW b \in DOMAIN chain', a # b
                 PROVE  chain'[a] \cap chain'[b] \subseteq {0}
      BY DEF PointsOnce
    <3>1. \A m \in DOMAIN chain' : m # n => chain'[m] \cap chain'[n] \subseteq {0}
      <4> SUFFICES ASSUME NEW m \in DOMAIN chain, m # n, chain'[m] = chain[m]
                   PROVE  chain'[m] \cap chain'[n] \subseteq {0}
        BY <2>6
      <4>1. chain[m] \cap d = {}
        BY <2>10 DEF ChainPoints
      <4>2. chain[m] \cap me.pre.rows \subseteq {0}
        BY <2>4, <2>10 DEF PointsOnce
      <4>3. QED
        BY <2>5, <4>1, <4>2
    <3>2. CASE a # n /\ b # n
      BY <2>6, <2>10, <3>2 DEF PointsOnce
    <3>3. QED
      BY <3>1, <3>2
  <2>12. flushFailures <= 1 => LateFound(p)' /\ WritesNew(p)' /\ Past(p)'
    <3> SUFFICES ASSUME flushFailures <= 1 PROVE LateFound(p)' /\ WritesNew(p)' /\ Past(p)'
      OBVIOUS
    <3>1. Past(p)'
      BY <2>3, <2>10 DEF Past
    <3>2. buffered \cap ChainPoints' \subseteq me.ids
      BY <2>8, <2>10
    <3>3. LateFound(p)'
      BY <1>1, <2>3, <2>9, <2>10, <3>1, <3>2 DEF LateFound
    <3>4. QED
      BY <2>3, <3>1, <3>3 DEF WritesNew
  <2>13. flushFailures = 0 => Undisturbed(p)'
    <3> SUFFICES ASSUME flushFailures = 0 PROVE Undisturbed(p)'
      OBVIOUS
    <3>1. Late(p) = {} /\ Within(Top) /\ n \in {Top, Top + 1}
      BY <1>1 DEF OnceInv, OnceBy, Undisturbed
    <3>2. Top \in Nat /\ DOMAIN chain \subseteq Nat
      BY TopHighest DEF ChainInv, FileTypes
    <3>3. FileTypes'
      BY CommitFlushKeeps DEF ChainInv
    <3>4. Within(Top + 1)'
      <4>1. \A m \in parts : m <= Top + 1
        BY <3>1, <3>2 DEF Within, parts
      <4>2. QED
        BY <2>7, <2>9, <4>1 DEF Within
    <3>5. Active' = IF Top + 1 \in DOMAIN chain' THEN Top + 1 ELSE Top
      BY <2>9, <3>3, <3>4, ActiveWithin
    <3>6. Active' = n
      <4>1. Top + 1 \notin DOMAIN chain /\ Top + 1 # 0 /\ Top + 1 # Top
        BY <3>1, <3>2 DEF Within
      <4>2. Top + 1 \in DOMAIN chain' <=> n = Top + 1
        BY <2>7, <4>1 DEF parts
      <4>3. QED
        BY <3>1, <3>5, <4>2
    <3>7. Late(p)' \subseteq d
      BY <1>1, <2>3, <2>8, <3>1 DEF Late
    <3>8. InFile(Late(p), Active)'
      BY <2>5, <3>6, <3>7 DEF InFile
    <3>9. Past(p)'
      BY <2>12
    <3>10. QED
      BY <2>3, <3>4, <3>8, <3>9 DEF Undisturbed
  <2>14. QED
    BY <1>1, <2>11, <2>12, <2>13 DEF OnceBy
<1>4. QED
  BY <1>2, <1>3

\* A process that goes on with the job or the index of its flush, and has committed
\* as before.
LEMMA OnwardOnce ==
    ASSUME ChainInv, OnceInv, NEW p \in Replicas,
           UNCHANGED <<chain, chainIndex, buffered, flushFailures>>,
           replica'[p].ids = replica[p].ids, Past(p)' <=> Past(p),
           replica'[p].pc \notin {"resolve", "read", "commit"},
           Past(p) => replica[p].pc # "index"
    PROVE  OnceBy(p)'
<1>1. /\ Late(p)' = Late(p) /\ Active' = Active /\ Top' = Top /\ ChainPoints' = ChainPoints
      /\ Oldest(buffered)' = Oldest(buffered)
  BY FilesSame DEF Late, Oldest
<1>2. flushFailures <= 1 => LateFound(p)'
  <2> SUFFICES ASSUME flushFailures <= 1 PROVE LateFound(p)'
    OBVIOUS
  <2>1. LateFound(p)
    BY DEF OnceInv, OnceBy
  <2>2. Past(p)' => (buffered' \cap ChainPoints' \subseteq replica'[p].ids /\ Within(Top)')
    BY <1>1, <2>1 DEF LateFound, Within
  <2>3. ~Past(p)' => Within(Top + 1)' /\ InFile(Late(p), Active)'
                     /\ (buffered \cap ChainPoints \subseteq Oldest(buffered))'
    BY <1>1, <2>1 DEF LateFound, Within, InFile
  <2>4. (replica[p].ids \cap buffered \subseteq Oldest(buffered))'
    BY <1>1, <2>1 DEF LateFound
  <2>5. QED
    BY <2>2, <2>3, <2>4 DEF LateFound
<1>3. WritesNew(p)'
  BY DEF WritesNew
<1>4. flushFailures = 0 => Undisturbed(p)'
  <2> SUFFICES ASSUME flushFailures = 0 PROVE Undisturbed(p)'
    OBVIOUS
  <2>1. Undisturbed(p)
    BY DEF OnceInv, OnceBy
  <2>2. Within(Top + 1)' /\ InFile(Late(p), Active)' /\ (~Past(p) => Late(p)' = {} /\ Within(Top)')
    BY <1>1, <2>1 DEF Undisturbed, Within, InFile
  <2>3. QED
    BY <2>2 DEF Undisturbed
<1>5. QED
  BY <1>2, <1>3, <1>4 DEF OnceBy

\* A job begins, a chain is scanned, runs are pruned.
LEMMA JobOnce ==
    ASSUME ChainInv, OnceInv, NEW p \in Replicas, BeginJob(p) \/ ScanChain(p) \/ PruneRuns(p)
    PROVE  OnceBy(p)'
<1>1. replica[p] \in ReplicaState /\ DOMAIN replica = Replicas
  BY ReplicaFacts
<1>2. UNCHANGED <<chain, chainIndex, buffered, flushFailures>>
  BY DEF BeginJob, ScanChain, PruneRuns
<1>3. CASE BeginJob(p)
  <2>1. replica[p].pc = "idle" /\ replica[p].ids = {}
    BY <1>3 DEF BeginJob, ChainInv, Carries
  <2>2. replica'[p].pc = "index" /\ replica'[p].ids = {}
    BY <1>1, <1>3, <2>1 DEF BeginJob, Reach, ReplicaState
  <2>3. QED
    BY <1>2, <2>1, <2>2, OnwardOnce DEF Past
<1>4. CASE ScanChain(p)
  <2>1. replica[p].pc = "scan" /\ replica'[p].ids = replica[p].ids
        /\ replica'[p].pc \in {"prune", AfterIndex(p)}
    BY <1>1, <1>4 DEF ScanChain, Reach, ReplicaState
  <2>2. replica'[p].pc \in {"prune", "idle", "delete"} /\ (Past(p)' <=> Past(p))
    BY <2>1 DEF AfterIndex, Past
  <2>3. QED
    BY <1>2, <2>1, <2>2, OnwardOnce
<1>5. CASE PruneRuns(p)
  <2>1. replica[p].pc = "prune" /\ replica'[p].ids = replica[p].ids
        /\ replica'[p].pc = AfterIndex(p)
    BY <1>1, <1>5 DEF PruneRuns, ReplicaState
  <2>2. replica'[p].pc \in {"idle", "delete"} /\ (Past(p)' <=> Past(p))
    BY <2>1 DEF AfterIndex, Past
  <2>3. QED
    BY <1>2, <2>1, <2>2, OnwardOnce
<1>6. QED
  BY <1>3, <1>4, <1>5

\* Once the chain is indexed the flushes go on from its last part.
LEMMA IndexedOnce ==
    ASSUME ChainInv, OnceInv, NEW p \in Replicas, IndexChain(p)
    PROVE  OnceBy(p)'
<1>1. /\ replica[p].pc = "index" /\ chainIndex' = DOMAIN chain
      /\ UNCHANGED <<chain, buffered, flushFailures>>
  BY DEF IndexChain
<1>2. replica'[p].pc = "scan" /\ replica'[p].ids = replica[p].ids
  BY ReplicaFacts DEF IndexChain, Reach, ReplicaState
<1>3. Past(p)' <=> Past(p)
  BY <1>1, <1>2 DEF Past
<1>4. Late(p)' = Late(p) /\ ChainPoints' = ChainPoints /\ Oldest(buffered)' = Oldest(buffered)
  BY <1>1, <1>2 DEF Late, ChainPoints, Oldest
<1>5. FileTypes' /\ FileTypes
  BY IndexKeeps DEF ChainInv
<1>6. /\ Top' \in Nat /\ Top' \in DOMAIN chain \cup {0} /\ Within(Top)'
      /\ Within(Top + 1)' /\ Active' = Top'
  <2>1. Top' \in Nat /\ Top' \in chainIndex' \cup {0} /\ \A n \in chainIndex' : n <= Top'
    BY <1>5, TopHighest
  <2>2. Within(Top)'
    BY <1>1, <2>1 DEF Within
  <2>3. QED
    BY <1>1, <1>5, <2>1, <2>2, ActiveIsTop
<1>7. ASSUME Within(Top + 1), InFile(Late(p), Active) PROVE InFile(Late(p), Active)'
  <2> SUFFICES ASSUME Late(p) # {} PROVE Active' \in DOMAIN chain /\ Late(p) \subseteq chain[Active']
    BY <1>1, <1>4 DEF InFile
  <2>1. Active \in DOMAIN chain /\ Late(p) \subseteq chain[Active]
    BY <1>7 DEF InFile
  <2>2. Active = IF Top + 1 \in DOMAIN chain THEN Top + 1 ELSE Top
    BY <1>5, <1>7, ActiveWithin
  <2>3. Top \in Nat /\ DOMAIN chain \subseteq Nat
    BY <1>5, TopHighest DEF FileTypes
  <2>4. \A n \in DOMAIN chain : n <= Active
    BY <1>7, <2>2, <2>3 DEF Within
  <2>5. Active <= Top'
    BY <1>1, <1>6, <2>1 DEF Within
  <2>6. Top' <= Active
    BY <1>6, <2>1, <2>3, <2>4
  <2>7. Top' = Active
    BY <1>6, <2>1, <2>3, <2>5, <2>6
  <2>8. QED
    BY <1>6, <2>1, <2>7
<1>8. flushFailures <= 1 => LateFound(p)'
  <2> SUFFICES ASSUME flushFailures <= 1 PROVE LateFound(p)'
    OBVIOUS
  <2>1. LateFound(p)
    BY DEF OnceInv, OnceBy
  <2>2. Past(p)' => (buffered' \cap ChainPoints' \subseteq replica'[p].ids /\ Within(Top)')
    BY <1>1, <1>2, <1>3, <1>4, <1>6, <2>1 DEF LateFound
  <2>3. ~Past(p)' => Within(Top + 1)' /\ InFile(Late(p), Active)'
                     /\ (buffered \cap ChainPoints \subseteq Oldest(buffered))'
    BY <1>1, <1>3, <1>4, <1>6, <1>7, <2>1 DEF LateFound
  <2>4. (replica[p].ids \cap buffered \subseteq Oldest(buffered))'
    BY <1>1, <1>2, <1>4, <2>1 DEF LateFound
  <2>5. QED
    BY <2>2, <2>3, <2>4 DEF LateFound
<1>9. WritesNew(p)'
  BY <1>2 DEF WritesNew
<1>10. flushFailures = 0 => Undisturbed(p)'
  <2> SUFFICES ASSUME flushFailures = 0 PROVE Undisturbed(p)'
    OBVIOUS
  <2>1. Undisturbed(p)
    BY DEF OnceInv, OnceBy
  <2>2. InFile(Late(p), Active)' /\ (~Past(p)' => Late(p)' = {})
    BY <1>3, <1>4, <1>7, <2>1 DEF Undisturbed
  <2>3. QED
    BY <1>2, <1>6, <2>2 DEF Undisturbed
<1>11. QED
  BY <1>1, <1>8, <1>9, <1>10 DEF OnceBy

\* The deletion leaves nothing in the buffer that is in the chain.
LEMMA DeletePointsOnce ==
    ASSUME ChainInv, OnceInv, NEW p \in Replicas, DeletePoints(p)
    PROVE  OnceBy(p)'
<1>1. /\ replica[p].pc = "delete" /\ buffered' = buffered \ replica[p].ids /\ Release(p)
      /\ UNCHANGED <<chain, chainIndex, flushFailures>>
  BY DEF DeletePoints
<1>2. CASE ~Past(p)
  <2>1. buffered' = buffered
    BY <1>1, <1>2 DEF Past
  <2>2. QED
    BY <1>1, <1>2, <2>1, ReleaseOnce
<1>3. CASE Past(p)
  <2>1. replica'[p] = ReplicaIdle
    BY <1>1, ReplicaFacts DEF Release
  <2>2. replica'[p].pc = "idle" /\ replica'[p].ids = {} /\ ~Past(p)'
    BY <2>1, IdleFacts DEF Past
  <2>3. Active' = Active /\ Top' = Top /\ ChainPoints' = ChainPoints
    BY <1>1, FilesSame
  <2>4. WritesNew(p)'
    BY <2>2 DEF WritesNew
  <2>5. flushFailures <= 1 => LateFound(p)' /\ Late(p)' = {} /\ Within(Top)' /\ Within(Top + 1)'
    <3> SUFFICES ASSUME flushFailures <= 1
                 PROVE LateFound(p)' /\ Late(p)' = {} /\ Within(Top)' /\ Within(Top + 1)'
      OBVIOUS
    <3>1. buffered \cap ChainPoints \subseteq replica[p].ids /\ Within(Top)
      BY <1>1, <1>3 DEF OnceInv, OnceBy, LateFound
    <3>2. Late(p)' = {} /\ buffered' \cap ChainPoints' = {}
      BY <1>1, <2>2, <2>3, <3>1 DEF Late
    <3>3. Within(Top + 1)
      BY <3>1, ActiveIsTop DEF ChainInv
    <3>4. Within(Top)' /\ Within(Top + 1)'
      BY <1>1, <2>3, <3>1, <3>3 DEF Within
    <3>5. LateFound(p)'
      BY <2>2, <3>2, <3>4 DEF LateFound, InFile
    <3>6. QED
      BY <3>2, <3>4, <3>5
  <2>6. flushFailures = 0 => Undisturbed(p)'
    <3>1. flushFailures = 0 => Late(p)' = {} /\ Within(Top)' /\ Within(Top + 1)'
      BY <2>5
    <3>2. QED
      BY <2>2, <3>1 DEF Undisturbed, InFile
  <2>7. QED
    BY <1>1, <2>4, <2>5, <2>6 DEF OnceBy
<1>4. QED
  BY <1>2, <1>3

\* The first interruption leaves at most the points of one flush in both places.
LEMMA InterruptedOnce ==
    ASSUME ChainInv, OnceInv, NEW p \in Replicas, FlushInterrupted(p)
    PROVE  OnceBy(p)' /\ flushFailures' \in Nat /\ (flushFailures' <= 1 => PointsOnce')
<1>1. /\ flushFailures' = flushFailures + 1 /\ flushFailures \in Nat /\ Release(p)
      /\ UNCHANGED <<chain, chainIndex, buffered>>
  BY DEF FlushInterrupted, OnceInv
<1>2. replica'[p] = ReplicaIdle
  BY <1>1, ReplicaFacts DEF Release
<1>3. replica'[p].pc = "idle" /\ replica'[p].ids = {} /\ ~Past(p)'
  BY <1>2, IdleFacts DEF Past
<1>4. /\ Late(p)' \subseteq Late(p) /\ Active' = Active /\ Top' = Top /\ ChainPoints' = ChainPoints
      /\ Oldest(buffered)' = Oldest(buffered) /\ (PointsOnce' <=> PointsOnce)
  BY <1>1, <1>3, FilesSame DEF Late, Oldest
<1>5. flushFailures' <= 1 => flushFailures = 0
  BY <1>1
<1>6. flushFailures = 0 => LateFound(p)'
  <2> SUFFICES ASSUME flushFailures = 0 PROVE LateFound(p)'
    OBVIOUS
  <2>1. LateFound(p) /\ Undisturbed(p)
    BY DEF OnceInv, OnceBy
  <2>2. buffered \cap ChainPoints \subseteq Oldest(buffered)
    <3>1. CASE Past(p)
      BY <2>1, <3>1 DEF LateFound
    <3>2. CASE ~Past(p)
      BY <2>1, <3>2 DEF LateFound
    <3>3. QED
      BY <3>1, <3>2
  <2>3. Within(Top + 1)' /\ InFile(Late(p), Active)'
    BY <1>1, <1>4, <2>1 DEF Undisturbed, Within, InFile
  <2>4. QED
    BY <1>1, <1>3, <1>4, <2>2, <2>3 DEF LateFound
<1>7. WritesNew(p)'
  BY <1>3 DEF WritesNew
<1>8. ~(flushFailures' = 0)
  BY <1>1
<1>9. OnceBy(p)'
  BY <1>5, <1>6, <1>7, <1>8 DEF OnceBy
<1>10. flushFailures = 0 => PointsOnce
  BY DEF OnceInv
<1>11. QED
  BY <1>1, <1>4, <1>5, <1>9, <1>10

(***************************************************************************)
(* The steps of users and requests.                                        *)
(***************************************************************************)

\* Points come to the buffer or leave it: what was late is not added to, and the
\* oldest that stay are still the oldest.
LEMMA BufferOnce ==
    ASSUME ChainInv, OnceInv, NEW p \in Replicas,
           UNCHANGED <<chain, chainIndex, replica, flushFailures>>,
           buffered' \cap (ChainPoints \cup replica[p].ids) \subseteq buffered,
           Oldest(buffered) \cap buffered' \subseteq Oldest(buffered')
    PROVE  OnceBy(p)'
<1>1. /\ Late(p)' \subseteq Late(p) /\ Active' = Active /\ Top' = Top /\ ChainPoints' = ChainPoints
      /\ (Past(p)' <=> Past(p)) /\ Oldest(buffered)' = Oldest(buffered')
  <2>1. Active' = Active /\ Top' = Top /\ ChainPoints' = ChainPoints
    BY FilesSame
  <2>2. Late(p)' = (buffered' \cup replica[p].ids) \cap ChainPoints
    BY <2>1 DEF Late
  <2>3. Late(p)' \subseteq Late(p)
    BY <2>2 DEF Late
  <2>4. QED
    BY <2>1, <2>3 DEF Past, Oldest
<1>2. flushFailures <= 1 => LateFound(p)' /\ WritesNew(p)'
  <2> SUFFICES ASSUME flushFailures <= 1 PROVE LateFound(p)' /\ WritesNew(p)'
    OBVIOUS
  <2>1. LateFound(p) /\ WritesNew(p)
    BY DEF OnceInv, OnceBy
  <2>2. (replica[p].ids \cap buffered \subseteq Oldest(buffered))'
    BY <1>1, <2>1 DEF LateFound
  <2>3. ~Past(p)' => Within(Top + 1)' /\ InFile(Late(p), Active)'
                     /\ (buffered \cap ChainPoints \subseteq Oldest(buffered))'
    <3> SUFFICES ASSUME ~Past(p)
                 PROVE  Within(Top + 1)' /\ InFile(Late(p), Active)'
                        /\ (buffered \cap ChainPoints \subseteq Oldest(buffered))'
      BY <1>1
    <3>1. /\ Within(Top + 1) /\ InFile(Late(p), Active)
          /\ buffered \cap ChainPoints \subseteq Oldest(buffered)
      BY <2>1 DEF LateFound
    <3>2. Within(Top + 1)' /\ InFile(Late(p), Active)'
      BY <1>1, <3>1 DEF Within, InFile
    <3>3. buffered' \cap ChainPoints' \subseteq Oldest(buffered')
      BY <1>1, <3>1
    <3>4. QED
      BY <1>1, <3>2, <3>3
  <2>4. Past(p)' => /\ buffered' \cap ChainPoints' \subseteq replica'[p].ids
                    /\ replica'[p].pc # "index" => Within(Top)'
    BY <1>1, <2>1 DEF LateFound, Within
  <2>5. LateFound(p)'
    BY <2>2, <2>3, <2>4 DEF LateFound
  <2>6. replica[p].pc = "read" => InFile(Late(p), replica[p].path)'
    BY <1>1, <2>1 DEF WritesNew, InFile
  <2>7. WritesNew(p)'
    BY <1>1, <2>1, <2>6 DEF WritesNew
  <2>8. QED
    BY <2>5, <2>7
<1>3. flushFailures = 0 => Undisturbed(p)'
  <2> SUFFICES ASSUME flushFailures = 0 PROVE Undisturbed(p)'
    OBVIOUS
  <2>1. Undisturbed(p)
    BY DEF OnceInv, OnceBy
  <2>2. Within(Top + 1)' /\ InFile(Late(p), Active)' /\ (~Past(p)' => Late(p)' = {} /\ Within(Top)')
    BY <1>1, <2>1 DEF Undisturbed, Within, InFile
  <2>3. QED
    BY <1>1, <2>1, <2>2 DEF Undisturbed
<1>4. QED
  BY <1>2, <1>3 DEF OnceBy

\* A request adds a point that is newer than all there are, or none.
LEMMA IngestingOnce ==
    ASSUME ChainInv, OnceInv, NEW p \in Replicas, NEW r \in ChainRuns, Ingesting(r)
    PROVE  OnceBy(p)'
<1>1. UNCHANGED <<chain, chainIndex, replica, flushFailures>>
  BY DEF Ingesting, UpsertRun, InsertPoints, CountPoints
<1> DEFINE i == Cardinality(DOMAIN owner) + 1
<1>2. buffered' = buffered \/ buffered' = buffered \cup {i}
  BY DEF Ingesting, UpsertRun, InsertPoints, CountPoints
<1>3. CASE buffered' = buffered
  BY <1>1, <1>3, BufferOnce
<1>4. CASE buffered' = buffered \cup {i}
  <2>1. PICK k \in 0..MaxIngested : DOMAIN owner = 1..k
    BY DEF ChainInv, ChainTypes
  <2>2. i = k + 1 /\ k \in Nat
    BY <2>1, NextPoint, ChainAssumption
  <2> HIDE DEF i
  <2>3. i \in Nat /\ i \notin DOMAIN owner /\ i # 0 /\ \A j \in DOMAIN owner : j < i
    BY <2>1, <2>2
  <2>4. i \notin ChainPoints /\ i \notin replica[p].ids
    BY <2>3, LatePoints, ReplicaFacts
  <2>5. buffered \in SUBSET Nat /\ \A j \in buffered : j < i
    BY <2>3, LatePoints
  <2>6. Oldest(buffered) \subseteq Oldest(buffered')
    BY <1>4, <2>3, <2>5, OldestWithNewer
  <2>7. buffered' \cap (ChainPoints \cup replica[p].ids) \subseteq buffered
    BY <1>4, <2>4
  <2>8. QED
    BY <1>1, <2>6, <2>7, BufferOnce
<1>5. QED
  BY <1>2, <1>3, <1>4

\* A deleted run takes its points out of the buffer.
LEMMA DeleteExpRunOnce ==
    ASSUME ChainInv, OnceInv, NEW p \in Replicas, NEW r \in ChainRuns, DeleteExpRun(r)
    PROVE  OnceBy(p)'
<1>1. UNCHANGED <<chain, chainIndex, replica, flushFailures>> /\ buffered' \in SUBSET buffered
  BY DEF DeleteExpRun
<1>2. IsFiniteSet(buffered)
  <2>1. PICK k \in 0..MaxIngested : DOMAIN owner = 1..k
    BY DEF ChainInv, ChainTypes
  <2>2. IsFiniteSet(1..k) /\ buffered \in SUBSET (1..k)
    BY <2>1, FS_Interval, LatePoints
  <2>3. QED
    BY <2>2, FS_Subset
<1>3. Oldest(buffered) \cap buffered' \subseteq Oldest(buffered')
  BY <1>1, <1>2, OldestOfFewer
<1>4. QED
  BY <1>1, <1>3, BufferOnce

\* A push over the chain brings no point into another file.
LEMMA PushToChainOnce ==
    ASSUME ChainInv, OnceInv, NEW p \in Replicas, NEW n \in DOMAIN chain,
           PushToChain(n, {}) \/ PushToChain(n, {n})
    PROVE  OnceBy(p)'
<1>1. /\ UNCHANGED <<chainIndex, buffered, replica, flushFailures>>
      /\ DOMAIN chain' \subseteq DOMAIN chain
      /\ \A m \in DOMAIN chain : m # n => m \in DOMAIN chain' /\ chain'[m] = chain[m]
      /\ n \in DOMAIN chain' => chain'[n] = {0}
  BY DEF PushToChain, Oversize
<1>2. ChainPoints' \subseteq ChainPoints \cup {0}
  BY <1>1 DEF ChainPoints
<1>3. FileTypes /\ FileTypes'
  BY PushToChainKeeps DEF ChainInv
<1>4. (Past(p)' <=> Past(p)) /\ Top' = Top /\ Oldest(buffered)' = Oldest(buffered)
  BY <1>1 DEF Past, Top, Highest, Oldest
<1>5. 0 \notin buffered /\ 0 \notin replica[p].ids /\ 0 \notin replica[p].write
  BY LatePoints, ReplicaFacts
<1>6. Late(p)' \subseteq Late(p)
  BY <1>1, <1>2, <1>5 DEF Late
<1>7. ASSUME flushFailures <= 1, NEW a, InFile(Late(p), a), Late(p)' # {}
      PROVE  a # n /\ a \in DOMAIN chain' /\ chain'[a] = chain[a] /\ Late(p)' \subseteq chain'[a]
  <2>1. PICK i \in Late(p)' : TRUE
    BY <1>7
  <2>2. i \in Late(p) /\ i # 0
    BY <1>5, <1>6, <2>1 DEF Late
  <2>3. PICK m \in DOMAIN chain' : i \in chain'[m]
    BY <2>1 DEF Late, ChainPoints
  <2>4. m # n /\ m \in DOMAIN chain /\ i \in chain[m]
    BY <1>1, <2>2, <2>3
  <2>5. a \in DOMAIN chain /\ i \in chain[a] /\ Late(p) \subseteq chain[a]
    BY <1>7, <2>2 DEF InFile
  <2>6. PointsOnce
    BY <1>7 DEF OnceInv
  <2>7. m = a
    BY <2>2, <2>4, <2>5, <2>6 DEF PointsOnce
  <2>8. QED
    BY <1>1, <1>6, <2>4, <2>5, <2>7
<1>8. ASSUME flushFailures <= 1, NEW a, InFile(Late(p), a) PROVE InFile(Late(p), a)'
  BY <1>7, <1>8 DEF InFile
<1>9. ASSUME flushFailures <= 1, Within(Top + 1), InFile(Late(p), Active)
      PROVE  Within(Top + 1)' /\ InFile(Late(p), Active)'
  <2>1. Within(Top + 1)'
    BY <1>1, <1>4, <1>9 DEF Within
  <2>2. /\ Active = IF Top + 1 \in DOMAIN chain THEN Top + 1 ELSE Top
        /\ Active' = IF Top + 1 \in DOMAIN chain' THEN Top + 1 ELSE Top
    BY <1>3, <1>4, <1>9, <2>1, ActiveWithin
  <2>3. CASE Late(p)' = {}
    BY <2>1, <2>3 DEF InFile
  <2>4. CASE Late(p)' # {}
    <3>1. Active # n /\ Active \in DOMAIN chain' /\ Late(p)' \subseteq chain'[Active]
      BY <1>7, <1>9, <2>4
    <3>2. Active' = Active
      BY <1>1, <2>2, <3>1
    <3>3. QED
      BY <2>1, <3>1, <3>2 DEF InFile
  <2>5. QED
    BY <2>1, <2>3, <2>4
<1>10. flushFailures <= 1 => LateFound(p)' /\ WritesNew(p)'
  <2> SUFFICES ASSUME flushFailures <= 1 PROVE LateFound(p)' /\ WritesNew(p)'
    OBVIOUS
  <2>1. LateFound(p) /\ WritesNew(p)
    BY DEF OnceInv, OnceBy
  <2>2. buffered \cap ChainPoints' \subseteq buffered \cap ChainPoints
    BY <1>2, <1>5
  <2>3. ~Past(p)' => Within(Top + 1)' /\ InFile(Late(p), Active)'
                     /\ (buffered \cap ChainPoints \subseteq Oldest(buffered))'
    BY <1>1, <1>4, <1>9, <2>1, <2>2 DEF LateFound
  <2>4. Past(p)' => /\ buffered' \cap ChainPoints' \subseteq replica'[p].ids
                    /\ replica'[p].pc # "index" => Within(Top)'
    BY <1>1, <1>4, <2>1, <2>2 DEF LateFound, Within
  <2>5. LateFound(p)'
    BY <1>1, <1>4, <2>1, <2>3, <2>4 DEF LateFound
  <2>6. replica[p].pc = "read" => InFile(Late(p), replica[p].path)'
    BY <1>1, <1>8, <2>1 DEF WritesNew, InFile
  <2>7. replica[p].pc = "commit" => (replica[p].write \ replica[p].pre.rows) \cap ChainPoints' = {}
    BY <1>2, <1>5, <2>1 DEF WritesNew
  <2>8. WritesNew(p)'
    BY <1>1, <2>1, <2>2, <2>6, <2>7 DEF WritesNew
  <2>9. QED
    BY <2>5, <2>8
<1>11. flushFailures = 0 => Undisturbed(p)'
  <2> SUFFICES ASSUME flushFailures = 0 PROVE Undisturbed(p)'
    OBVIOUS
  <2>1. Undisturbed(p)
    BY DEF OnceInv, OnceBy
  <2>2. Within(Top + 1)' /\ InFile(Late(p), Active)'
    BY <1>9, <2>1 DEF Undisturbed
  <2>3. ~Past(p)' => Late(p)' = {} /\ Within(Top)'
    BY <1>1, <1>4, <1>6, <2>1 DEF Undisturbed, Within
  <2>4. QED
    BY <1>1, <1>4, <2>1, <2>2, <2>3 DEF Undisturbed
<1>12. QED
  BY <1>1, <1>10, <1>11 DEF OnceBy

\* None of these steps puts a point into a second file.
LEMMA FilesOnce ==
    ASSUME PointsOnce,
           \/ UNCHANGED chain
           \/ \E n \in DOMAIN chain : PushToChain(n, {}) \/ PushToChain(n, {n})
    PROVE  PointsOnce'
<1>1. CASE UNCHANGED chain
  BY <1>1 DEF PointsOnce
<1>2. ASSUME NEW n \in DOMAIN chain, PushToChain(n, {}) \/ PushToChain(n, {n}) PROVE PointsOnce'
  <2>1. \A m \in DOMAIN chain' : m \in DOMAIN chain /\ (chain'[m] = chain[m] \/ chain'[m] = {0})
    BY <1>2 DEF PushToChain, Oversize
  <2>2. QED
    BY <2>1 DEF PointsOnce
<1>3. QED
  BY <1>1, <1>2

\* Every step keeps the invariant.
LEMMA OnceKept ==
    ASSUME OneReplica, ChainInv, OnceInv, [ChainNext]_chainVars
    PROVE  OnceInv'
<1>1. ASSUME NEW r \in ChainRuns, Ingesting(r) \/ DeleteExpRun(r) PROVE OnceInv'
  <2>1. UNCHANGED <<chain, flushFailures>>
    BY <1>1 DEF Ingesting, UpsertRun, InsertPoints, CountPoints, DeleteExpRun
  <2>2. QED
    BY <1>1, <2>1, FilesOnce, IngestingOnce, DeleteExpRunOnce DEF OnceInv
<1>2. ASSUME NEW n \in DOMAIN chain, PushToChain(n, {}) \/ PushToChain(n, {n}) PROVE OnceInv'
  <2>1. UNCHANGED flushFailures
    BY <1>2 DEF PushToChain
  <2>2. QED
    BY <1>2, <2>1, FilesOnce, PushToChainOnce DEF OnceInv
<1>3. ASSUME NEW p \in Replicas, ReplicaStep(p), ~CommitFlush(p) PROVE OnceInv'
  <2>1. UNCHANGED <<chain, flushFailures>>
    BY <1>3 DEF ReplicaStep, FlushList, ResolveMetricsTarget, ReadExisting, BeginJob, IndexChain,
       ScanChain, PruneRuns, DeletePoints
  <2>2. OnceBy(p)'
    BY <1>3, FlushListOnce, ResolveOnce, ReadExistingOnce, JobOnce, IndexedOnce, DeletePointsOnce
       DEF ReplicaStep
  <2>3. flushFailures' \in Nat /\ (flushFailures' <= 1 => PointsOnce')
    BY <2>1, FilesOnce DEF OnceInv
  <2>4. QED
    BY <2>2, <2>3, OnlyOne
<1>4. ASSUME NEW p \in Replicas, CommitFlush(p) PROVE OnceInv'
  <2>1. UNCHANGED flushFailures
    BY <1>4 DEF CommitFlush
  <2>2. flushFailures' \in Nat
    BY <2>1 DEF OnceInv
  <2>3. QED
    BY <1>4, <2>2, CommitOnce, OnlyOne
<1>5. ASSUME NEW p \in Replicas, FlushInterrupted(p) PROVE OnceInv'
  BY <1>5, InterruptedOnce, OnlyOne
<1>6. CASE BlockLapses \/ UNCHANGED chainVars
  <2>1. UNCHANGED <<chain, chainIndex, replica, buffered, flushFailures>>
    BY <1>6 DEF BlockLapses, chainVars
  <2>2. \A p \in Replicas : OnceBy(p)'
    BY <2>1, BufferOnce
  <2>3. QED
    BY <2>1, <2>2, FilesOnce DEF OnceInv
<1>7. QED
  BY <1>1, <1>2, <1>3, <1>4, <1>5, <1>6 DEF ChainNext

\* With one process, points are written twice only after a second interruption:
\* what the first one left in the buffer and in the chain, the next attempt
\* recognises (flush.go, parquetwrite.go), whatever is ingested, rotated, blocked,
\* deleted or pushed in between.
THEOREM OnceUnlessTwice == OneReplica => (ChainSpec => [](flushFailures <= 1 => PointsOnce))
<1> SUFFICES ASSUME OneReplica PROVE ChainSpec => [](flushFailures <= 1 => PointsOnce)
  OBVIOUS
<1>1. ChainInit => OnceInv
  <2> SUFFICES ASSUME ChainInit PROVE OnceInv
    OBVIOUS
  <2>1. ChainInv
    BY ChainInitially
  <2>2. /\ DOMAIN chain = {} /\ chainIndex = {} /\ buffered = {} /\ flushFailures = 0
        /\ replica = [p \in Replicas |-> ReplicaIdle]
    BY DEF ChainInit
  <2>3. \A p \in Replicas : replica[p].pc = "idle" /\ replica[p].ids = {} /\ Late(p) = {} /\ ~Past(p)
    BY <2>2, IdleFacts DEF Late, Past
  <2>4. \A b : Within(b)
    BY <2>2 DEF Within
  <2>5. PointsOnce
    BY <2>2 DEF PointsOnce
  <2>6. \A p \in Replicas : OnceBy(p)
    BY <2>2, <2>3, <2>4 DEF OnceBy, LateFound, WritesNew, Undisturbed, InFile
  <2>7. QED
    BY <2>2, <2>5, <2>6 DEF OnceInv
<1>2. ASSUME ChainInv, OnceInv, [ChainNext]_chainVars PROVE OnceInv'
  BY <1>2, OnceKept
<1>3. OnceInv => (flushFailures <= 1 => PointsOnce)
  BY DEF OnceInv
<1>4. QED
  BY <1>1, <1>2, <1>3, ChainInductive, PTL DEF ChainSpec

=============================================================================
