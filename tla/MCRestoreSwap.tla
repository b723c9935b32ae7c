--------------------------- MODULE MCRestoreSwap ---------------------------
(* Instances of RestoreSwap for TLC.                                       *)
EXTENDS RestoreSwap

CONSTANTS r1, r2
============================================================================
