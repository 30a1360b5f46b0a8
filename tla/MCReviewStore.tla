--------------------------- MODULE MCReviewStore ---------------------------
(* ReviewStore on small instances.                                          *)
EXTENDS ReviewStore, TLC

CONSTANTS b1, b2, d1, d2, o1, o2

OneBranch == {b1}
TwoBranches == {b1, b2}
OwnDirs == b1 :> d1 @@ b2 :> d2
OneDir == b1 :> d1

Symmetric == Permutations(Observers)
=============================================================================
