---------------------------- MODULE MCPrintQueue ----------------------------
(* Instances of PrintQueue for TLC.                                        *)
EXTENDS PrintQueue, TLC

CONSTANTS p1, p2, w1, w2

(* p1 falls back to p2, p2 has no fallback.                                *)
OneFallback == (p1 :> p2) @@ (p2 :> NoPrinter)

(* p1 and p2 fall back to each other: the configuration two concurrent      *)
(* administrators can leave behind.                                        *)
MutualFallback == (p1 :> p2) @@ (p2 :> p1)

Symmetry == Permutations({w1, w2})
=============================================================================
