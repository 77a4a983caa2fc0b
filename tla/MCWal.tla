-------------------------------- MODULE MCWal --------------------------------
(***************************************************************************)
(* Wal on small instances.  c2 is a child of c1 and c3 a child of c2.      *)
(***************************************************************************)
EXTENDS WalInv, TLC

CONSTANTS c1, c2, c3, main, dev

MCReach ==
    (c1 :> {c1}) @@ (c2 :> {c1, c2}) @@ (c3 :> {c1, c2, c3})

\* Move one ref, or create or delete it.
Move(r, c) == [touch |-> {r}, new |-> [NoRefs EXCEPT ![r] = c]]

\* A push whose pack can lean on dev, and the push that deletes dev.
MCMixed == {Move(main, c3), Move(dev, NoCommit)}

\* Seeded with main at c1, then dev pushed at c2.
MCHistories ==
    {[index |-> [base |-> 1, entries |-> <<2>>,
                 refs |-> [NoRefs EXCEPT ![main] = c1, ![dev] = c2]],
      content |-> <<{c1}, {c2}>>]}

\* One branch that only moves forward.
MCForward == {Move(main, c2), Move(main, c3)}
MCForwardHistories ==
    {[index |-> [base |-> 1, entries |-> <<>>, refs |-> [NoRefs EXCEPT ![main] = c1]],
      content |-> <<{c1}>>]}

Symmetric == Permutations(Pushers) \cup Permutations(Jobs)

=============================================================================
