--------------------------- MODULE MCSessionLease ---------------------------
(* SessionLease on a small instance.                                        *)
EXTENDS SessionLease

CONSTANTS w1, w2, w3, s1
=============================================================================
