--------------------------- MODULE MCFulfilment -----------------------------
(* An instance of Fulfilment for TLC: an order of two positions of one     *)
(* station without a printer of its own, its monitor, and two runners.     *)
EXTENDS Fulfilment, TLC

CONSTANTS o1, i1, i2, m1, r1, r2, kitchen1

TheOrders == i1 :> o1 @@ i2 :> o1
TheStations == i1 :> kitchen1 @@ i2 :> kitchen1
TheMonitors == m1 :> kitchen1
Symmetry == Permutations(Runners) \cup Permutations(Items)
=============================================================================
