---------------------------- MODULE MCCashDesk ----------------------------
(* Instances of CashDesk for TLC: two positions, one of them of two units.  *)
EXTENDS CashDesk, TLC

CONSTANTS beer, food

MCItems == {beer, food}
OneItem == {beer}
MCQty   == [i \in Items |-> IF i = beer THEN 2 ELSE 1]
MCPrice == [i \in Items |-> IF i = beer THEN 1 ELSE 2]
MCSessions   == 1..2
MCOneSession == 1..1

TxSymmetry   == Permutations(Txs)
DeskSymmetry == Permutations(Txs) \union Permutations(Orders)
                  \union Permutations(Keys)
============================================================================
