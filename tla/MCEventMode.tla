---------------------------- MODULE MCEventMode ----------------------------
(* Instances of EventMode for TLC.                                         *)
EXTENDS EventMode

CONSTANTS a1, a2, u1

AllStatuses ==
    {"DRAFT", "PREPARED", "TEST_MODE", "ACTIVE", "PAUSED", "COMPLETED", "ARCHIVED"}
=============================================================================
