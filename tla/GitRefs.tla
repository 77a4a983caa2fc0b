------------------------------ MODULE GitRefs ------------------------------
(***************************************************************************)
(* Git as the rest of the project sees it: commits, what they reach, refs, *)
(* and updates of several refs at once.  A git object is abstracted to the *)
(* commit that introduces it, so a set of commits stands for a set of      *)
(* objects, and Reach[c] is what `git rev-list c` walks, c included.       *)
(***************************************************************************)
EXTENDS Naturals, Sequences

CONSTANTS
    Commits,    \* the commits any client may push
    Reach,      \* what each commit reaches
    Refs,       \* ref names
    NoCommit    \* the absent ref: git's zero hash and the empty string alike

ASSUME GitAssumption ==
    /\ NoCommit \notin Commits
    /\ Reach \in [Commits -> SUBSET Commits]
    /\ \A c \in Commits : c \in Reach[c]
    /\ \A c \in Commits : \A d \in Reach[c] : Reach[d] \subseteq Reach[c]

RefMap == [Refs -> Commits \cup {NoCommit}]
NoRefs == [r \in Refs |-> NoCommit]
Tips(refs) == {refs[r] : r \in Refs} \ {NoCommit}

\* One push: the refs it touches, the value its client last saw, the value it
\* wants.  Untouched refs read NoCommit in both maps.
Update == [touch : SUBSET Refs, old : RefMap, new : RefMap]
NoUpdate == [touch |-> {}, old |-> NoRefs, new |-> NoRefs]

\* The tips an update needs objects for; a deletion needs none.
Want(u) == {u.new[r] : r \in u.touch} \ {NoCommit}

\* checkPreconditions: every touched ref still has the value the push expects.
CheckPreconditions(refs, u) == \A r \in u.touch : refs[r] = u.old[r]

UpdatedRefs(refs, u) ==
    [r \in Refs |-> IF r \in u.touch THEN u.new[r] ELSE refs[r]]

ReachAll(tips) == UNION {Reach[c] : c \in tips}

\* The object sets a copy of the repository can have: every object it holds, it
\* holds with everything that object reaches.
Closed == {have \in SUBSET Commits : ReachAll(have) \subseteq have}

\* `pack-objects --revs`: reachable from want but not from exclude.
PackObjects(want, exclude) == ReachAll(want) \ ReachAll(exclude)

=============================================================================
