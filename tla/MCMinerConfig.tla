--------------------------- MODULE MCMinerConfig ---------------------------
(***************************************************************************)
(* Instances of MinerConfig for TLC: config.yaml has one miner, with a     *)
(* token of its own.                                                       *)
(***************************************************************************)
EXTENDS MinerConfig, TLC

CONSTANTS m1, a

OneMiner == m1 :> [host |-> a, token |-> TRUE]

Symmetry == Permutations(Handlers)
=============================================================================
