------------------------- MODULE MCCollectorManager -------------------------
(* The instance of CollectorManager for TLC. *)
EXTENDS CollectorManager, TLC

CONSTANTS m1, net, u1, u2

(* The settings page removes m1 and changes the provider, or undoes both. *)
Edits == {(m1 :> u1) @@ (net :> u1), net :> u2}
=============================================================================
