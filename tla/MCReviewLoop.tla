---------------------------- MODULE MCReviewLoop ----------------------------
(* Instances of ReviewLoop for TLC. *)
EXTENDS ReviewLoop

CONSTANTS sha1, sha2, sha3

TwoShas == {sha1, sha2}
ThreeShas == {sha1, sha2, sha3}
=============================================================================
