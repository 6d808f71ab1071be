---------------------------- MODULE MCReporting ----------------------------
(* Instances of Reporting for TLC. *)
EXTENDS Reporting, TLC

OneDataset == <<"audit-log.csv">>
TwoDatasets == <<"costs.csv", "audit-log.csv">>

Symmetry == Permutations(Commands)
=============================================================================
