------------------------------ MODULE MCMiner ------------------------------
(***************************************************************************)
(* Model checking Miner: a ring that four items wrap, batches of two.      *)
(***************************************************************************)
EXTENDS Miner
=============================================================================
