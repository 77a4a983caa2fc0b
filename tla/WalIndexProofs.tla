--------------------------- MODULE WalIndexProofs ---------------------------
(***************************************************************************)
(* Facts about sequences of packs, reachability and index documents, for   *)
(* any commits and refs: what the proofs about the log and about the local *)
(* copies of it share.                                                     *)
(***************************************************************************)
EXTENDS WalIndex, SequenceTheorems, TLAPS

(***************************************************************************)
(* Sequences and packs                                                     *)
(***************************************************************************)

\* An uploaded pack leaves every earlier one as it was.
LEMMA AppendFacts ==
    ASSUME NEW S, NEW s \in Seq(S), NEW x \in S
    PROVE  /\ Append(s, x) \in Seq(S)
           /\ Len(Append(s, x)) = Len(s) + 1
           /\ \A i \in 1..Len(s) : Append(s, x)[i] = s[i]
           /\ Append(s, x)[Len(s) + 1] = x
    OBVIOUS

\* What is left to fetch is part of what there was to fetch.
LEMMA TailFacts ==
    ASSUME NEW S, NEW s \in Seq(S), s # <<>>
    PROVE  /\ Tail(s) \in Seq(S)
           /\ Members(Tail(s)) \subseteq Members(s)
<1>1. /\ Tail(s) \in Seq(S)
      /\ Len(Tail(s)) = Len(s) - 1
      /\ \A i \in 1..Len(Tail(s)) : Tail(s)[i] = s[i + 1]
  OBVIOUS
<1>2. QED
  BY <1>1 DEF Members

\* What is beyond the first packs of an order is the packs after them.
LEMMA BeyondFacts ==
    ASSUME NEW order \in Seq(Pack), NEW held \in 0..Len(order)
    PROVE  /\ Beyond(order, held) \in Seq(Pack)
           /\ Len(Beyond(order, held)) = Len(order) - held
           /\ \A i \in 1..(Len(order) - held) : Beyond(order, held)[i] = order[held + i]
           /\ Members(Beyond(order, held)) \subseteq Members(order)
<1> DEFINE n == Len(order)
           m == held + 1
           s == SubSeq(order, m, n)
<1>1. n \in Nat /\ held \in Nat /\ held <= n /\ m \in Int /\ n \in Int
  OBVIOUS
<1>2. \A i \in m..n : order[i] \in Pack
  BY <1>1
<1>3. /\ s \in Seq(Pack)
      /\ Len(s) = IF m <= n THEN n - m + 1 ELSE 0
      /\ \A i \in 1..(n - m + 1) : s[i] = order[m + i - 1]
  BY <1>1, <1>2, SubSeqProperties
<1>4. s = Beyond(order, held)
  BY DEF Beyond
<1> HIDE DEF s
<1>5. Len(s) = n - held
  BY <1>1, <1>3
<1>6. \A i \in 1..(n - held) : s[i] = order[held + i]
  <2> SUFFICES ASSUME NEW i \in 1..(n - held) PROVE s[i] = order[held + i]
    OBVIOUS
  <2>1. i \in 1..(n - m + 1) /\ m + i - 1 = held + i
    BY <1>1
  <2>2. QED
    BY <1>3, <2>1
<1>7. Members(s) \subseteq Members(order)
  <2> SUFFICES ASSUME NEW i \in 1..Len(s) PROVE s[i] \in Members(order)
    BY DEF Members
  <2>1. s[i] = order[held + i] /\ held + i \in 1..Len(order)
    BY <1>1, <1>5, <1>6
  <2>2. QED
    BY <2>1 DEF Members
<1>8. QED
  BY <1>3, <1>4, <1>5, <1>6, <1>7

\* A materialisation fetches exactly the packs the index names.
LEMMA ApplyOrderFacts ==
    ASSUME NEW ix \in Index
    PROVE  /\ ApplyOrder(ix) \in Seq(Pack)
           /\ Members(ApplyOrder(ix)) = Names(ix)
<1>1. ix.base \in Nat /\ ix.entries \in Seq(Pack)
  BY DEF Index
<1>2. CASE ix.base = NoPack
  <2>1. ApplyOrder(ix) = ix.entries
    BY <1>1, <1>2 DEF ApplyOrder
  <2>2. \A i \in 1..Len(ix.entries) : ix.entries[i] \in Pack
    BY <1>1
  <2>3. QED
    BY <1>1, <1>2, <2>1, <2>2 DEF Members, Names, Pack, NoPack
<1>3. CASE ix.base # NoPack
  <2> DEFINE s == <<ix.base>> \o ix.entries
  <2>1. ApplyOrder(ix) = s
    BY <1>3 DEF ApplyOrder
  <2>2. ix.base \in Pack
    BY <1>1, <1>3 DEF Pack, NoPack
  <2>3. /\ s \in Seq(Pack)
        /\ Len(s) = Len(ix.entries) + 1
        /\ s[1] = ix.base
        /\ \A i \in 1..Len(ix.entries) : s[i + 1] = ix.entries[i]
    BY <1>1, <2>2
  <2>4. \A i \in 1..Len(ix.entries) : ix.entries[i] \in Pack
    BY <1>1
  <2>5. Members(s) \subseteq {ix.base} \cup Members(ix.entries)
    <3>1. ASSUME NEW i \in 1..Len(s) PROVE s[i] = ix.base \/ s[i] \in Members(ix.entries)
      <4>1. CASE i = 1
        BY <4>1, <2>3
      <4>2. CASE i # 1
        <5>1. i - 1 \in 1..Len(ix.entries) /\ s[(i - 1) + 1] = ix.entries[i - 1]
          BY <4>2, <2>3, <1>1
        <5>2. QED
          BY <5>1, <1>1 DEF Members
      <4>3. QED
        BY <4>1, <4>2
    <3>2. QED
      BY <3>1 DEF Members
  <2>6. {ix.base} \cup Members(ix.entries) \subseteq Members(s)
    <3>1. ix.base \in Members(s)
      BY <2>3, <1>1 DEF Members
    <3>2. ASSUME NEW i \in 1..Len(ix.entries) PROVE ix.entries[i] \in Members(s)
      <4>1. i + 1 \in 1..Len(s) /\ s[i + 1] = ix.entries[i]
        BY <2>3, <1>1
      <4>2. QED
        BY <4>1 DEF Members
    <3>3. QED
      BY <3>1, <3>2 DEF Members
  <2>7. NoPack \notin {ix.base} \cup Members(ix.entries)
    BY <2>2, <2>4 DEF Members, Pack, NoPack
  <2>8. QED
    BY <2>1, <2>3, <2>5, <2>6, <2>7 DEF Names
<1>4. QED
  BY <1>2, <1>3

(***************************************************************************)
(* Git                                                                     *)
(***************************************************************************)

\* Reachability grows with the tips and stays inside the commits.
LEMMA ReachAllFacts ==
    ASSUME NEW S \in SUBSET Commits, NEW T \in SUBSET Commits, S \subseteq T
    PROVE  ReachAll(S) \subseteq ReachAll(T) /\ ReachAll(T) \subseteq Commits
BY GitAssumption DEF ReachAll

\* The tips of a ref map are commits.
LEMMA TipsFacts ==
    ASSUME NEW refs \in RefMap
    PROVE  Tips(refs) \subseteq Commits
BY DEF Tips, RefMap

\* An update wants commits, and applying it yields a ref map whose tips are
\* wanted or were there before.
LEMMA UpdateFacts ==
    ASSUME NEW u \in Update, NEW refs \in RefMap
    PROVE  /\ Want(u) \subseteq Commits
           /\ UpdatedRefs(refs, u) \in RefMap
           /\ Tips(UpdatedRefs(refs, u)) \subseteq Tips(refs) \cup Want(u)
BY DEF Want, UpdatedRefs, Tips, RefMap, Update

(***************************************************************************)
(* Index documents                                                         *)
(***************************************************************************)

\* The packs an index names are packs.
LEMMA NamesFacts ==
    ASSUME NEW ix \in Index
    PROVE  Names(ix) \subseteq Pack /\ NoPack \notin Names(ix)
BY DEF Names, Members, Index, Pack, NoPack

\* The empty index names no pack and has no tip.
LEMMA EmptyIndexFacts == EmptyIndex \in Index /\ Names(EmptyIndex) = {} /\ Tips(EmptyIndex.refs) = {}
<1>1. NoRefs \in RefMap
  BY DEF NoRefs, RefMap
<1>2. Tips(NoRefs) = {}
  BY DEF Tips, NoRefs
<1>3. EmptyIndex \in Index
  BY <1>1 DEF EmptyIndex, Index, NoPack
<1>4. QED
  BY <1>2, <1>3 DEF EmptyIndex, Names, Members, NoPack

\* Applying an update keeps what the index named and adds at most the entry.
LEMMA ApplyFacts ==
    ASSUME NEW ix \in Index, NEW u \in Update, NEW entry \in Nat
    PROVE  /\ Apply(ix, u, entry) \in Index
           /\ Apply(ix, u, entry).refs = UpdatedRefs(ix.refs, u)
           /\ Names(Apply(ix, u, entry)) = Names(ix) \cup ({entry} \ {NoPack})
<1> DEFINE nx == Apply(ix, u, entry)
<1>1. ix.base \in Nat /\ ix.entries \in Seq(Pack) /\ ix.refs \in RefMap
  BY DEF Index
<1>2. UpdatedRefs(ix.refs, u) \in RefMap
  BY <1>1, UpdateFacts
<1>3. nx.base = ix.base /\ nx.refs = UpdatedRefs(ix.refs, u)
      /\ nx.entries = AppendEntry(ix.entries, entry)
  BY DEF Apply
<1>4. CASE entry = NoPack
  <2>1. nx.entries = ix.entries
    BY <1>3, <1>4 DEF AppendEntry
  <2>2. nx \in Index
    BY <1>1, <1>2, <2>1, <1>3 DEF Apply, Index
  <2>3. QED
    BY <2>1, <2>2, <1>3, <1>4 DEF Names
<1>5. CASE entry # NoPack
  <2>1. entry \in Pack
    BY <1>5 DEF Pack, NoPack
  <2>2. nx.entries = Append(ix.entries, entry)
    BY <1>3, <1>5 DEF AppendEntry
  <2>3. /\ nx.entries \in Seq(Pack)
        /\ Len(nx.entries) = Len(ix.entries) + 1
        /\ \A i \in 1..Len(ix.entries) : nx.entries[i] = ix.entries[i]
        /\ nx.entries[Len(ix.entries) + 1] = entry
    BY <1>1, <2>1, <2>2, AppendFacts
  <2>4. nx \in Index
    BY <1>1, <1>2, <2>3, <1>3 DEF Apply, Index
  <2>5. Members(nx.entries) = Members(ix.entries) \cup {entry}
    <3>1. Len(ix.entries) \in Nat
      BY <1>1
    <3>2. ASSUME NEW i \in 1..Len(nx.entries)
          PROVE  nx.entries[i] \in Members(ix.entries) \cup {entry}
      <4>1. CASE i \in 1..Len(ix.entries)
        BY <4>1, <2>3 DEF Members
      <4>2. CASE i = Len(ix.entries) + 1
        BY <4>2, <2>3
      <4>3. QED
        BY <4>1, <4>2, <2>3, <3>1
    <3>3. ASSUME NEW i \in 1..Len(ix.entries)
          PROVE  ix.entries[i] \in Members(nx.entries)
      BY <2>3, <3>1 DEF Members
    <3>4. entry \in Members(nx.entries)
      <4>1. Len(ix.entries) + 1 \in 1..Len(nx.entries)
        BY <2>3, <3>1
      <4>2. QED
        BY <4>1, <2>3 DEF Members
    <3>5. QED
      BY <3>2, <3>3, <3>4 DEF Members
  <2>6. QED
    BY <2>4, <2>5, <1>3 DEF Names
<1>6. QED
  BY <1>4, <1>5

\* A compaction names its base alone and leaves the refs as they were.
LEMMA CompactedFacts ==
    ASSUME NEW ix \in Index, NEW base \in Pack
    PROVE  /\ Compacted(ix, base) \in Index
           /\ Compacted(ix, base).refs = ix.refs
           /\ Names(Compacted(ix, base)) = {base}
<1>1. Compacted(ix, base) = [base |-> base, entries |-> <<>>, refs |-> ix.refs]
  BY DEF Compacted
<1>2. base \in Nat /\ base # NoPack /\ ix.refs \in RefMap
  BY DEF Pack, NoPack, Index
<1>3. <<>> \in Seq(Pack) /\ Len(<<>>) = 0
  OBVIOUS
<1>4. QED
  BY <1>1, <1>2, <1>3 DEF Index, Names, Members

\* An index that extends basis names everything basis named.
LEMMA PrefixFacts ==
    ASSUME NEW basis \in Index, NEW cur \in Index,
           cur.base = basis.base, HasPrefix(cur.entries, basis.entries)
    PROVE  Names(basis) \subseteq Names(cur)
<1>1. Len(basis.entries) \in Nat /\ Len(cur.entries) \in Nat
  BY DEF Index
<1>2. QED
  BY <1>1 DEF HasPrefix, Names, Members

\* The point of packStillValid: what was left out of a pack is still held.
LEMMA BasisFacts ==
    ASSUME NEW basis \in Index, NEW cur \in Index, NEW held,
           NEW exclude, exclude \subseteq Tips(basis.refs),
           Complete(basis, held), Complete(cur, held),
           PackStillValid(basis, exclude, cur)
    PROVE  ReachAll(exclude) \subseteq Holds(cur, held)
<1>1. basis.refs \in RefMap /\ cur.refs \in RefMap
  BY DEF Index
<1>2. Tips(basis.refs) \subseteq Commits /\ Tips(cur.refs) \subseteq Commits
  BY <1>1, TipsFacts
<1>3. CASE cur.base = basis.base /\ HasPrefix(cur.entries, basis.entries)
  <2>1. Names(basis) \subseteq Names(cur)
    BY <1>3, PrefixFacts
  <2>2. ReachAll(exclude) \subseteq Holds(basis, held)
    BY <1>2, ReachAllFacts DEF Complete
  <2>3. QED
    BY <2>1, <2>2 DEF Holds
<1>4. CASE exclude \subseteq Tips(cur.refs)
  BY <1>2, <1>4, ReachAllFacts DEF Complete
<1>5. QED
  BY <1>3, <1>4 DEF PackStillValid

=============================================================================
