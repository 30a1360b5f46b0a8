----------------------------- MODULE MCObserver -----------------------------
(* Observer on small instances. *)
EXTENDS Observer, TLC

CONSTANTS l1, l2

Symmetric == Permutations(Layers)
=============================================================================
