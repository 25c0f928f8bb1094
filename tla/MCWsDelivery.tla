---------------------------- MODULE MCWsDelivery ----------------------------
(* Bounded instances of WsDelivery. *)
EXTENDS WsDelivery

CONSTANTS e1, e2

MCSymmetry == Permutations({e1, e2})
=============================================================================
