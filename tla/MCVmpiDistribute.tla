------------------------- MODULE MCVmpiDistribute -------------------------
(* Two worker machines, of one thread each. *)
EXTENDS VmpiDistribute

CONSTANTS w1, w2, w3, t1, t2
===========================================================================
