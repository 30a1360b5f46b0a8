------------------------------ MODULE MCHarvest ------------------------------
(* Every transcript up to MaxRows rows: two layers, two heads, two bodies.   *)
EXTENDS HarvestLoop
=============================================================================
