-------------------------- MODULE MCOperationClaim --------------------------
(* OperationClaim for TLC. *)
EXTENDS OperationClaim, TLC

CONSTANTS r1, r2, k1, k2, d1, d2

MCRunners == {r1, r2}
OneOp == {k1}
TwoOps == {k1, k2}
OneDigest == {d1}
TwoDigests == {d1, d2}

Symmetry == Permutations(Runners) \cup Permutations(Ops) \cup Permutations(Digests)
=============================================================================
