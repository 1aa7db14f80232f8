---------------------------- MODULE MCReconcilers ----------------------------
(* Small instances of Reconcilers. *)
EXTENDS Reconcilers

CONSTANTS alice, bob, cloud, p0

auto == [gated |-> FALSE, write |-> TRUE, place |-> cloud]

TwoWrites == {<<auto, auto>>}

OneAuto == {<<auto>>}

=============================================================================
