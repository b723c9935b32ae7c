--------------------------- MODULE MCOfflineQueue ---------------------------
(* Instances of OfflineQueue for TLC.                                      *)
EXTENDS OfflineQueue

CONSTANTS waiter, admin

OneKey == 1..1
TwoKeys == 1..2
WaiterAndAdmin == {waiter, admin}
OnlyWaiter == {waiter}
OnlyAdmin == {admin}
Roles == [u \in {waiter, admin} |-> IF u = admin THEN "ADMINISTRATOR" ELSE "WAITER"]
=============================================================================
