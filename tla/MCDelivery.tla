----------------------------- MODULE MCDelivery -----------------------------
(* Delivery on a small instance: one record, two observers.                 *)
EXTENDS Delivery, TLC

CONSTANTS r1, b1, o1, o2

OneBranch == r1 :> b1
=============================================================================
