----------------------------- MODULE MCBackups ------------------------------
(* An instance of Backups for TLC: the clock and administrators, with a    *)
(* retention of one backup of each kind.                                   *)
EXTENDS Backups

CONSTANTS a1, a2, cron
=============================================================================
