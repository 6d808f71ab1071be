------------------------------ MODULE MCHistory ------------------------------
(***************************************************************************)
(* Instances of History for TLC: one ring with the cadence of the samples, *)
(* as the 1h ring has, and one that is slower, as the others are.          *)
(***************************************************************************)
EXTENDS History, TLC

CONSTANTS fast, slow

Intervals == (fast :> 1) @@ (slow :> 2)
Caps == (fast :> 3) @@ (slow :> 2)

Symmetry == Permutations(Miners)
=============================================================================
