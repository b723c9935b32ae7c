---------------------------- MODULE MCQuickSale ----------------------------
(* Instances of QuickSale for TLC: MCOptionGroups' groups, two tills.      *)
EXTENDS QuickSale

Option(n, price, active) == [id |-> <<0, n>>, price |-> price, active |-> active]

Group(n, type, min, max, mode, tiles, options) ==
    [id |-> <<0, n>>, type |-> type, required |-> min >= 1, min |-> min, max |-> max,
     mode |-> mode, tiles |-> tiles, options |-> options]

Sizes == Group(1, "SINGLE", 1, 1, "ABSOLUTE", TRUE, <<Option(1, 3, TRUE)>>)

OneGroup == {<<Sizes>>}
NoGroups == {<< >>}
=============================================================================
