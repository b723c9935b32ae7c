--------------------------- MODULE MCOptionGroups ---------------------------
(* Instances of OptionGroups for TLC.                                      *)
EXTENDS OptionGroups

Option(n, price, active) == [id |-> <<0, n>>, price |-> price, active |-> active]

Group(n, type, min, max, mode, tiles, options) ==
    [id |-> <<0, n>>, type |-> type, required |-> min >= 1, min |-> min, max |-> max,
     mode |-> mode, tiles |-> tiles, options |-> options]

(* Sizes with a final price and tiles, a choice of sides, extras.     *)
Sizes == Group(1, "SINGLE", 1, 1, "ABSOLUTE", TRUE, <<Option(1, 3, TRUE), Option(2, 5, FALSE)>>)
Sides == Group(2, "MULTIPLE", 1, NoLimit, "SURCHARGE", FALSE, <<Option(3, 0, TRUE), Option(4, 0, TRUE)>>)
Extras == Group(3, "MULTIPLE", 0, 1, "SURCHARGE", FALSE, <<Option(5, -1, TRUE), Option(6, 2, TRUE)>>)
Colour == Group(4, "SINGLE", 1, 1, "SURCHARGE", FALSE, <<Option(7, 0, TRUE)>>)

Prices == Group(5, "SINGLE", 1, 1, "ABSOLUTE", FALSE, <<Option(8, 3, TRUE), Option(9, 0, FALSE)>>)

SomeGroups == {<<Sizes, Colour>>, <<Sides>>, <<Colour, Extras>>, <<Colour, Prices>>}
=============================================================================
