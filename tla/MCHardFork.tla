------------------------------ MODULE MCHardFork ------------------------------
(***************************************************************************)
(* An instance of HardFork with a fork by height alone, as in the          *)
(* hard_forks table of blockchain.cpp, and a fork that needs votes.        *)
(***************************************************************************)
EXTENDS HardFork

Fork(v, h, t) == [version |-> v, height |-> h, threshold |-> t]

Block(v, w) == [version |-> v, vote |-> w]

MCGenesis == Block(1, 0)

\* Version 2 comes into force at height 3 (threshold 0, as in the hard_forks table),
\* version 3 from height 4 on with half of the votes in a window of 2.
MCForks == <<Fork(1, 1, 0), Fork(2, 3, 0), Fork(3, 4, 50)>>

\* A vote for 4 counts for 3.
MCBlocks == {Block(1, 0), Block(2, 2), Block(2, 4), Block(3, 3)}
=============================================================================
