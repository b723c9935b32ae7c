---------------------------- MODULE MCInventory ----------------------------
(* Instances of Inventory for TLC.                                         *)
EXTENDS Inventory, TLC

MCProducts == 1..2
OneProduct == {1}

StockView == <<stockVars, saleVars, booked, lock, tx>>

StockSymmetry == Permutations(Txs) \union Permutations(Orders)
                   \union Permutations(Keys)
============================================================================
