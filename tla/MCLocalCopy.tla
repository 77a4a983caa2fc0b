----------------------------- MODULE MCLocalCopy -----------------------------
(***************************************************************************)
(* LocalCopy on small instances.  x is the root; a and b are made on top   *)
(* of it, aa on top of a, bb on top of b.                                  *)
(***************************************************************************)
EXTENDS LocalCopy, TLC

CONSTANTS x, a, b, aa, bb, main, dev

MCReach ==
    (x :> {x}) @@ (a :> {x, a}) @@ (b :> {x, b})
    @@ (aa :> {x, a, aa}) @@ (bb :> {x, b, bb})

\* Seeded with main at x.
MCHistories ==
    {[index |-> [base |-> 1, entries |-> <<>>, refs |-> [NoRefs EXCEPT ![main] = x]],
      content |-> <<{x}>>]}

Elsewhere == Permutations(Remote)

=============================================================================
