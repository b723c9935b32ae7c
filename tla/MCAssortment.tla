---------------------------- MODULE MCAssortment ----------------------------
(* An instance of Assortment for TLC: an event whose product goes to the   *)
(* station of its category, a draft, and a file of the first version; what *)
(* is exported on the way comes back in the third.                         *)
EXTENDS Assortment

CONSTANTS a1

Size == [type |-> "SINGLE", required |-> TRUE, min |-> 1, max |-> 1, mode |-> "ABSOLUTE",
         tiles |-> TRUE, prices |-> {1}]

TwoEvents ==
    <<[name |-> "fest", status |-> "ACTIVE", confirmed |-> TRUE, stations |-> {1, 2},
       categories |-> {Category(1, "drinks", <<1, 1>>, 0, TRUE)},
       products |-> {Product(1, "beer", 1, Nowhere, 0, FALSE, <<Size>>)}],
      [name |-> "ball", status |-> "DRAFT", confirmed |-> FALSE, stations |-> {},
       categories |-> {}, products |-> {}]>>

Cake ==
    [nr |-> 1, name |-> "cake", category |-> None, station |-> None, available |-> FALSE,
     groups |-> << >>, variants |-> {1, 2}, extras |-> {1}]

OldFile ==
    [name |-> "template", version |-> 1, stations |-> {1}, categories |-> {}, products |-> {Cake}]

SomeFiles == {OldFile}
=============================================================================
