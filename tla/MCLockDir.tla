----------------------------- MODULE MCLockDir -----------------------------
(* LockDir on a small instance.                                             *)
EXTENDS LockDir

CONSTANTS p1, p2, p3

BothModes == {"owned", "unowned"}
=============================================================================
