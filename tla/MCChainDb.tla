------------------------------- MODULE MCChainDb -------------------------------
(***************************************************************************)
(* Instances of ChainDb: two or three threads, a chain of up to four       *)
(* blocks, and checkpoints that do not match at heights 1 and 3.           *)
(***************************************************************************)
EXTENDS ChainDb

CONSTANTS t1, t2, t3

MCConflicts == {1, 3}

MCWordSize == 2^8
=============================================================================
