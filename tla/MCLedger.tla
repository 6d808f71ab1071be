------------------------------ MODULE MCLedger ------------------------------
(* Instances of Ledger for TLC: one key in each table. *)
EXTENDS Ledger, TLC

Symmetry == Permutations(Commands) \cup Permutations(Contents)
=============================================================================
