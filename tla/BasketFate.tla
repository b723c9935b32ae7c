----------------------------- MODULE BasketFate -----------------------------
(* What the queue of a till promises of every idempotency key: a basket    *)
(* that was held back is ordered or, after an entry in the audit log,      *)
(* discarded; it is never just gone, and an order is for good.  A request  *)
(* that was on its way may order a basket that was discarded meanwhile.    *)
CONSTANT Keys

VARIABLE fate

Fates == {"new", "held", "ordered", "discarded"}

Init == fate \in [Keys -> {"new", "held"}]

Hold(k)    == fate[k] \in {"new", "discarded"} /\ fate' = [fate EXCEPT ![k] = "held"]
Order(k)   == fate[k] # "ordered"              /\ fate' = [fate EXCEPT ![k] = "ordered"]
Discard(k) == fate[k] = "held"                 /\ fate' = [fate EXCEPT ![k] = "discarded"]

Next == \E k \in Keys : Hold(k) \/ Order(k) \/ Discard(k)

Spec == Init /\ [][Next]_fate
=============================================================================
