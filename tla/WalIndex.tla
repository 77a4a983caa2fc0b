------------------------------ MODULE WalIndex ------------------------------
(***************************************************************************)
(* The documents of the write-ahead log of one repository                  *)
(* (backend/internal/wal) and the pure functions over them.  Packs are     *)
(* numbered in the order their uploads complete; the number stands for the *)
(* unique entries/{seq}-{ulid}.pack or base/{ulid}.pack key.  Pack 0 is    *)
(* "no pack", the code's empty string.                                     *)
(***************************************************************************)
EXTENDS GitRefs

NoPack == 0
Pack == Nat \ {0}

\* index.json: a snapshot pack, the entries to apply on top of it in order,
\* and the authority on refs.
Index == [base : Nat, entries : Seq(Pack), refs : RefMap]
EmptyIndex == [base |-> NoPack, entries |-> <<>>, refs |-> NoRefs]

Members(s) == {s[i] : i \in 1..Len(s)}

\* referencedKeys: the packs an index names.
Names(ix) == ({ix.base} \cup Members(ix.entries)) \ {NoPack}

\* What a materialisation of ix ends up with, content[p] being the objects that
\* pack p carries.
Holds(ix, content) == UNION {content[p] : p \in Names(ix)}

\* The rule packStillValid rests on: an index holds the closure of its refs.
Complete(ix, content) == ReachAll(Tips(ix.refs)) \subseteq Holds(ix, content)

HasPrefix(entries, prefix) ==
    /\ Len(prefix) <= Len(entries)
    /\ \A i \in 1..Len(prefix) : entries[i] = prefix[i]

\* packStillValid: cur still contains all that a pack built against basis left
\* out, because nothing basis named is gone or because every excluded tip is
\* still a ref.
PackStillValid(basis, exclude, cur) ==
    \/ cur.base = basis.base /\ HasPrefix(cur.entries, basis.entries)
    \/ exclude \subseteq Tips(cur.refs)

\* plannedUpdates: the mirror policy takes <old> from the index and drops what
\* the index already says; the strict one leaves the client's update alone.
MirrorUpdate(ix, u) ==
    LET differs == {r \in u.touch : ix.refs[r] # u.new[r]}
    IN  [touch |-> differs,
         old |-> [r \in Refs |-> IF r \in differs THEN ix.refs[r] ELSE NoCommit],
         new |-> [r \in Refs |-> IF r \in differs THEN u.new[r] ELSE NoCommit]]

PlannedUpdate(ix, u, policy) ==
    IF policy = "mirror" THEN MirrorUpdate(ix, u) ELSE u

\* As if a push without a pack appended an entry all the same.
AppendEntryAlways(entries, entry) == Append(entries, entry)

\* Index.apply: move the refs and append the entry, when there is one.
AppendEntry(entries, entry) ==
    IF entry = NoPack THEN entries ELSE Append(entries, entry)

Apply(ix, u, entry) ==
    [base |-> ix.base,
     entries |-> AppendEntry(ix.entries, entry),
     refs |-> UpdatedRefs(ix.refs, u)]

\* The index a compaction publishes over the one it materialised.
Compacted(ix, base) == [base |-> base, entries |-> <<>>, refs |-> ix.refs]

\* The order a materialisation from nothing fetches packs in: base first.
ApplyOrder(ix) ==
    (IF ix.base = NoPack THEN <<>> ELSE <<ix.base>>) \o ix.entries

\* What a copy that has applied the first held packs of an order still fetches.
Beyond(order, held) == SubSeq(order, held + 1, Len(order))

=============================================================================
