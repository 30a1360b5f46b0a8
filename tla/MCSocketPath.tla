---------------------------- MODULE MCSocketPath ----------------------------
(* SocketPath on a small instance.                                          *)
EXTENDS SocketPath

CONSTANTS p1, p2, p3, i1, i2
=============================================================================
