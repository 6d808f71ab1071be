---------------------------- MODULE MCLiveReload ----------------------------
(***************************************************************************)
(* Instances of LiveReload for TLC: config.yaml has one miner.             *)
(***************************************************************************)
EXTENDS LiveReload, TLC

CONSTANTS m1, a

OneMiner == m1 :> [host |-> a, token |-> TRUE]

Symmetry == Permutations(Handlers)
=============================================================================
