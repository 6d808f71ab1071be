---------------------------- MODULE MCStateStore ----------------------------
(***************************************************************************)
(* The instance of StateStore for TLC.  Streams never write what another   *)
(* stream reads, so one of them, with two writers, meets every             *)
(* interleaving that matters to it.                                        *)
(***************************************************************************)
EXTENDS StateStore
=============================================================================
