---------------------------- MODULE RestoreSwap ----------------------------
(***************************************************************************)
(* Restoring a backup by swapping databases: the coordinator with its      *)
(* state file, the execute, rollback and accept requests, ending the       *)
(* maintenance mode, and the start of the backend, which takes up what a    *)
(* crash left behind.                                                      *)
(*                                                                         *)
(* Every await in the code that reads or writes the state file or runs a   *)
(* PostgreSQL command ends a step; the process may die, and another request *)
(* may run, between any two.                                               *)
(***************************************************************************)
EXTENDS Naturals

CONSTANTS
    MaxSwaps,     \* bound: swap operations ever prepared
    MaxFaults,    \* bound: crashes and failed commands
    Requests,     \* administrator requests that may run at the same time
    Boot,         \* the start of the process (onModuleInit)
    AutoMigrate,  \* whether a start migrates: TRUE as shipped, FALSE
                  \* where SKIP_AUTO_MIGRATE is set
    ExitAfterSwap, \* RESTORE_EXIT_AFTER_SWAP is set
    NoDb,         \* there is no database of that name
    Empty,        \* a database with schema and no data
    Partial       \* a dump restored halfway

Swaps    == 1..MaxSwaps
Handlers == Requests \union {Boot}

(* 0 is the data of the running festival, n the backup restored by swap n. *)
Data     == 0..MaxSwaps
Contents == Data \union {NoDb, Empty, Partial}

ASSUME RestoreAssumption ==
    /\ MaxSwaps \in Nat /\ MaxFaults \in Nat
    /\ Boot \notin Requests
    /\ AutoMigrate \subseteq BOOLEAN /\ ExitAfterSwap \in BOOLEAN
    /\ NoDb \notin Data /\ Empty \notin Data /\ Partial \notin Data
    /\ NoDb # Empty /\ NoDb # Partial /\ Empty # Partial

VARIABLES
    (* the databases vereinorder, vereinorder_restore_<n>, vereinorder_pre_<n> *)
    live, staged, pre,
    (* restore-swap-state.json and maintenance.json *)
    file, maint,
    (* the process: down, booting or up; operationInProgress; an exit is due *)
    up, busy, exiting,
    (* the running handlers *)
    task,
    (* swap ids given out, faults so far *)
    swaps, faults,
    (* history: the data the administrator decided for, those that were live  *)
    (* when a restore was accepted last                                      *)
    owner

dbVars   == <<live, staged, pre>>
procVars == <<up, busy, exiting>>
vars     == <<dbVars, file, maint, procVars, task, swaps, faults, owner>>

ForwardPhases  == {"REQUESTED", "LIVE_RENAMED", "SWAPPED", "COMPLETED"}
RollbackPhases == {"ROLLBACK_LIVE_RENAMED", "ROLLED_BACK", "ROLLBACK_COMPLETED"}
Phases         == ForwardPhases \union RollbackPhases
NoFile         == [swap |-> 0, phase |-> "NONE"]

(* What a handler does next; "write" writes task.phase to the state file    *)
(* and goes on at task.then.                                               *)
Pcs == {"idle", "checked", "stage", "restore", "begin", "resume", "forward",
        "renameLive", "renameStaged", "rollback", "renameBack",
        "renamePre", "audit", "mark", "done", "cleanup", "write",
        "acceptAudit", "drop", "clear", "end", "open", "bootRead"}

Idle == [op |-> "none", pc |-> "idle", own |-> 0, swap |-> 0,
         phase |-> "NONE", then |-> "idle"]

Tasks == [op : {"none", "execute", "rollback", "accept", "end", "boot"},
          pc : Pcs, own : 0..MaxSwaps, swap : 0..MaxSwaps,
          phase : Phases \union {"NONE"}, then : Pcs]

(* Every variable keeps its type.                                          *)
TypeOK ==
    /\ live \in Contents
    /\ staged \in [Swaps -> Contents]
    /\ pre \in [Swaps -> Contents]
    /\ file \in {NoFile} \union [swap : Swaps, phase : Phases]
    /\ maint \in {"OPEN", "DRAINING", "LOCKED"}
    /\ up \in {"down", "booting", "up"}
    /\ busy \in BOOLEAN /\ exiting \in BOOLEAN
    /\ task \in [Handlers -> Tasks]
    /\ swaps \in 0..MaxSwaps
    /\ faults \in 0..MaxFaults
    /\ owner \in Contents

Init ==
    /\ live = 0
    /\ staged = [n \in Swaps |-> NoDb]
    /\ pre = [n \in Swaps |-> NoDb]
    /\ file = NoFile
    /\ maint = "OPEN"
    /\ up = "up" /\ busy = FALSE /\ exiting = FALSE
    /\ task = [h \in Handlers |-> Idle]
    /\ swaps = 0 /\ faults = 0
    /\ owner = 0

(***************************************************************************)
(* Helpers                                                                 *)
(***************************************************************************)
At(h, pc)   == task[h].pc = pc
Goes(h, pc) == task' = [task EXCEPT ![h].pc = pc]
Ends(h)     == task' = [task EXCEPT ![h] = Idle]

Starts(h, op, pc) ==
    /\ up = "up"
    /\ task[h].pc = "idle"
    /\ task' = [task EXCEPT ![h] = [Idle EXCEPT !.op = op, !.pc = pc]]

(* store.write(phase), then on at pc.                                      *)
GoesWriting(h, phase, pc) ==
    task' = [task EXCEPT ![h].pc = "write", ![h].phase = phase,
                         ![h].then = pc]

(* An exception: execute runs its catch block, a failed start ends the      *)
(* process, any other request is just answered.                            *)
Throws(h) ==
    CASE task[h].op = "execute" -> Goes(h, "cleanup") /\ UNCHANGED up
      [] task[h].op = "boot"    -> Ends(h) /\ up' = "down"
      [] OTHER                  -> Ends(h) /\ UNCHANGED up

(* The layout listDatabaseNames shows for swap n.                          *)
HasLive       == live # NoDb
HasStaged(n)  == staged[n] # NoDb
HasPre(n)     == pre[n] # NoDb
Prepared(n)   == HasLive /\ HasStaged(n) /\ ~HasPre(n)
Between(n)    == ~HasLive /\ HasStaged(n) /\ HasPre(n)
Swapped(n)    == HasLive /\ ~HasStaged(n) /\ HasPre(n)

(* ALTER DATABASE ... RENAME fails if the source is missing or the target   *)
(* exists; connections to it are ended first.                              *)
MayRename(source, target) == source # NoDb /\ target = NoDb

(* verifyStagedDatabase, or verifyMigratedDatabase for an older schema: the *)
(* counts and sums of the staged database are those of the manifest.       *)
measurementsMatch(content, n) == content = n

(***************************************************************************)
(* execute                                                                 *)
(***************************************************************************)

(* assertLocked and operationInProgress; the state file is read next, and   *)
(* only then is operationInProgress set.                                   *)
ExecuteStarts(h) ==
    /\ maint = "LOCKED"
    /\ ~busy
    /\ Starts(h, "execute", "checked")
    /\ UNCHANGED <<dbVars, file, maint, procVars, swaps, faults, owner>>

ExecuteChecks(h) ==
    /\ At(h, "checked")
    /\ \/ /\ file = NoFile
          /\ swaps < MaxSwaps
          /\ busy' = TRUE
          /\ swaps' = swaps + 1
          /\ task' = [task EXCEPT ![h].pc = "stage", ![h].own = swaps + 1]
       \/ /\ file # NoFile
          /\ Ends(h)
          /\ UNCHANGED <<busy, swaps>>
    /\ UNCHANGED <<dbVars, file, maint, up, exiting, faults, owner>>

(* The pre-restore backup, then CREATE DATABASE, then restoring the dump,   *)
(* migrating and verifying it.                                             *)
StageDatabase(h) ==
    /\ At(h, "stage")
    /\ staged' = [staged EXCEPT ![task[h].own] = Partial]
    /\ Goes(h, "restore")
    /\ UNCHANGED <<live, pre, file, maint, procVars, swaps, faults, owner>>

(* The dump may be restored incompletely; what does not measure as the       *)
(* manifest says ends the restore.                                         *)
RestoreDump(h) ==
    LET n == task[h].own IN
    /\ At(h, "restore")
    /\ \E content \in {n, Partial} :
          /\ staged' = [staged EXCEPT ![n] = content]
          /\ IF measurementsMatch(content, n)
             THEN Goes(h, "begin") /\ UNCHANGED up
             ELSE Throws(h)
    /\ UNCHANGED <<live, pre, file, maint, busy, exiting, swaps, faults, owner>>

(* coordinator.begin                                                       *)
Begin(h) ==
    /\ At(h, "begin")
    /\ \/ /\ file = NoFile
          /\ task' = [task EXCEPT ![h].pc = "write", ![h].swap = task[h].own,
                                  ![h].phase = "REQUESTED",
                                  ![h].then = "resume"]
          /\ UNCHANGED up
       \/ file # NoFile /\ Throws(h)
    /\ UNCHANGED <<dbVars, file, maint, busy, exiting, swaps, faults, owner>>

(* Mutant: the clean-up drops both databases of the swap without looking    *)
(* whether its state is persisted.                                         *)
Cleanup_DropsBoth(h) ==
    LET n == task[h].own IN
    /\ At(h, "cleanup")
    /\ staged' = IF n # 0 THEN [staged EXCEPT ![n] = NoDb] ELSE staged
    /\ pre' = IF n # 0 THEN [pre EXCEPT ![n] = NoDb] ELSE pre
    /\ busy' = FALSE
    /\ Ends(h)
    /\ UNCHANGED <<live, file, maint, up, exiting, swaps, faults, owner>>

(* The catch block: a staged database that no state file speaks of is       *)
(* dropped.                                                                *)
Cleanup(h) ==
    /\ At(h, "cleanup")
    /\ staged' = IF file = NoFile /\ task[h].own # 0
                 THEN [staged EXCEPT ![task[h].own] = NoDb] ELSE staged
    /\ busy' = FALSE
    /\ Ends(h)
    /\ UNCHANGED <<live, pre, file, maint, up, exiting, swaps, faults, owner>>

(***************************************************************************)
(* RestoreSwapCoordinator                                                  *)
(***************************************************************************)

WriteState(h) ==
    /\ At(h, "write")
    /\ file' = [swap |-> task[h].swap, phase |-> task[h].phase]
    /\ Goes(h, task[h].then)
    /\ UNCHANGED <<dbVars, maint, procVars, swaps, faults, owner>>

(* Where resume (execute, start) and rollback (request) go for a phase.     *)
Direction(h, phase) ==
    IF task[h].op = "rollback" \/ phase \in RollbackPhases
    THEN "rollback" ELSE "forward"

MayContinue(h, phase) ==
    task[h].op = "rollback" =>
        phase \in {"SWAPPED", "COMPLETED"} \union RollbackPhases

(* requireState                                                            *)
Resume(h) ==
    /\ At(h, "resume")
    /\ \/ /\ file # NoFile
          /\ MayContinue(h, file.phase)
          /\ task' = [task EXCEPT ![h].pc = Direction(h, file.phase),
                                  ![h].swap = file.swap,
                                  ![h].phase = file.phase]
          /\ UNCHANGED up
       \/ /\ file = NoFile \/ ~MayContinue(h, file.phase)
          /\ Throws(h)
    /\ UNCHANGED <<dbVars, file, maint, busy, exiting, swaps, faults, owner>>

(* Mutant: the phase is persisted before the rename it announces.          *)
ListForward_PhaseFirst(h) ==
    LET n     == task[h].swap
        phase == task[h].phase
        done  == phase \in {"SWAPPED", "COMPLETED"}
    IN
    /\ At(h, "forward")
    /\ \/ done /\ Swapped(n) /\ Goes(h, "audit") /\ UNCHANGED up
       \/ /\ phase = "REQUESTED" /\ Prepared(n)
          /\ GoesWriting(h, "LIVE_RENAMED", "renameLive") /\ UNCHANGED up
       \/ /\ ~done /\ Between(n)
          /\ Goes(h, "renameStaged") /\ UNCHANGED up
       \/ /\ ~done /\ Swapped(n)
          /\ GoesWriting(h, "SWAPPED", "audit") /\ UNCHANGED up
       \/ /\ ~Swapped(n)
          /\ done \/ ~(Between(n) \/ (phase = "REQUESTED" /\ Prepared(n)))
          /\ Throws(h)
    /\ UNCHANGED <<dbVars, file, maint, busy, exiting, swaps, faults, owner>>

(* Mutant: a crash between the rename and the write of its phase is not     *)
(* recognised.                                                             *)
ListForward_NoCatchUp(h) ==
    LET n     == task[h].swap
        phase == task[h].phase
        done  == phase \in {"SWAPPED", "COMPLETED"}
    IN
    /\ At(h, "forward")
    /\ \/ done /\ Swapped(n) /\ Goes(h, "audit") /\ UNCHANGED up
       \/ /\ phase = "REQUESTED" /\ Prepared(n)
          /\ Goes(h, "renameLive") /\ UNCHANGED up
       \/ /\ phase = "LIVE_RENAMED" /\ Between(n)
          /\ Goes(h, "renameStaged") /\ UNCHANGED up
       \/ /\ ~done /\ Swapped(n)
          /\ GoesWriting(h, "SWAPPED", "audit") /\ UNCHANGED up
       \/ /\ ~Swapped(n)
          /\ ~(phase = "LIVE_RENAMED" /\ Between(n))
          /\ ~(phase = "REQUESTED" /\ Prepared(n))
          /\ Throws(h)
    /\ UNCHANGED <<dbVars, file, maint, busy, exiting, swaps, faults, owner>>

(* One pass of the loop of resumeForward: list the databases and decide.   *)
ListForward(h) ==
    LET n     == task[h].swap
        phase == task[h].phase
        done  == phase \in {"SWAPPED", "COMPLETED"}
    IN
    /\ At(h, "forward")
    /\ \/ done /\ Swapped(n) /\ Goes(h, "audit") /\ UNCHANGED up
       \/ /\ phase = "REQUESTED" /\ Prepared(n)
          /\ Goes(h, "renameLive") /\ UNCHANGED up
       \/ /\ phase = "REQUESTED" /\ Between(n)
          /\ GoesWriting(h, "LIVE_RENAMED", "renameStaged") /\ UNCHANGED up
       \/ /\ phase = "LIVE_RENAMED" /\ Between(n)
          /\ Goes(h, "renameStaged") /\ UNCHANGED up
       \/ /\ ~done /\ Swapped(n)
          /\ GoesWriting(h, "SWAPPED", "audit") /\ UNCHANGED up
       \/ /\ ~Swapped(n)
          /\ done \/ ~(Between(n) \/ (phase = "REQUESTED" /\ Prepared(n)))
          /\ Throws(h)
    /\ UNCHANGED <<dbVars, file, maint, busy, exiting, swaps, faults, owner>>

RenameLiveToPre(h) ==
    LET n == task[h].swap IN
    /\ At(h, "renameLive")
    /\ \/ /\ MayRename(live, pre[n])
          /\ pre' = [pre EXCEPT ![n] = live]
          /\ live' = NoDb
          /\ GoesWriting(h, "LIVE_RENAMED", "forward")
          /\ UNCHANGED up
       \/ ~MayRename(live, pre[n]) /\ Throws(h) /\ UNCHANGED <<live, pre>>
    /\ UNCHANGED <<staged, file, maint, busy, exiting, swaps, faults, owner>>

RenameStagedToLive(h) ==
    LET n == task[h].swap IN
    /\ At(h, "renameStaged")
    /\ \/ /\ MayRename(staged[n], live)
          /\ live' = staged[n]
          /\ staged' = [staged EXCEPT ![n] = NoDb]
          /\ GoesWriting(h, "SWAPPED", "forward")
          /\ UNCHANGED up
       \/ ~MayRename(staged[n], live) /\ Throws(h) /\ UNCHANGED <<live, staged>>
    /\ UNCHANGED <<pre, file, maint, busy, exiting, swaps, faults, owner>>

(* One pass of the loop of resumeRollback.                                 *)
ListRollback(h) ==
    LET n     == task[h].swap
        phase == task[h].phase
        done  == phase \in {"ROLLED_BACK", "ROLLBACK_COMPLETED"}
        fresh == phase \in {"SWAPPED", "COMPLETED"}
    IN
    /\ At(h, "rollback")
    /\ \/ done /\ Prepared(n) /\ Goes(h, "audit") /\ UNCHANGED up
       \/ fresh /\ Swapped(n) /\ Goes(h, "renameBack") /\ UNCHANGED up
       \/ /\ fresh /\ Between(n)
          /\ GoesWriting(h, "ROLLBACK_LIVE_RENAMED", "renamePre")
          /\ UNCHANGED up
       \/ /\ phase = "ROLLBACK_LIVE_RENAMED" /\ Between(n)
          /\ Goes(h, "renamePre") /\ UNCHANGED up
       \/ /\ ~done /\ Prepared(n)
          /\ GoesWriting(h, "ROLLED_BACK", "audit") /\ UNCHANGED up
       \/ /\ ~Prepared(n)
          /\ done \/ ~(Between(n) \/ (fresh /\ Swapped(n)))
          /\ Throws(h)
    /\ UNCHANGED <<dbVars, file, maint, busy, exiting, swaps, faults, owner>>

RenameLiveToStaged(h) ==
    LET n == task[h].swap IN
    /\ At(h, "renameBack")
    /\ \/ /\ MayRename(live, staged[n])
          /\ staged' = [staged EXCEPT ![n] = live]
          /\ live' = NoDb
          /\ GoesWriting(h, "ROLLBACK_LIVE_RENAMED", "rollback")
          /\ UNCHANGED up
       \/ ~MayRename(live, staged[n]) /\ Throws(h) /\ UNCHANGED <<live, staged>>
    /\ UNCHANGED <<pre, file, maint, busy, exiting, swaps, faults, owner>>

RenamePreToLive(h) ==
    LET n == task[h].swap IN
    /\ At(h, "renamePre")
    /\ \/ /\ MayRename(pre[n], live)
          /\ live' = pre[n]
          /\ pre' = [pre EXCEPT ![n] = NoDb]
          /\ GoesWriting(h, "ROLLED_BACK", "rollback")
          /\ UNCHANGED up
       \/ ~MayRename(pre[n], live) /\ Throws(h) /\ UNCHANGED <<live, pre>>
    /\ UNCHANGED <<staged, file, maint, busy, exiting, swaps, faults, owner>>

(***************************************************************************)
(* finalizeForward and finalizeRollback                                    *)
(***************************************************************************)

(* Reconnect, then writeAuditOnce into the live database.                  *)
WriteAuditOnce(h) ==
    /\ At(h, "audit")
    /\ \/ file # NoFile /\ HasLive /\ Goes(h, "mark") /\ UNCHANGED up
       \/ file = NoFile /\ Throws(h)
       \/ ~HasLive /\ Throws(h)
    /\ UNCHANGED <<dbVars, file, maint, busy, exiting, swaps, faults, owner>>

(* Which phase markCompleted and markRollbackCompleted find and write; the  *)
(* caller knows which of the two it came for.                               *)
ForRollback(h) ==
    \/ task[h].op = "rollback"
    \/ task[h].op = "boot" /\ task[h].phase \in RollbackPhases

Expected(h) == IF ForRollback(h) THEN "ROLLED_BACK" ELSE "SWAPPED"
Final(h)    == IF ForRollback(h) THEN "ROLLBACK_COMPLETED" ELSE "COMPLETED"

MarkCompleted(h) ==
    /\ At(h, "mark")
    /\ \/ /\ file.phase = Expected(h)
          /\ task' = [task EXCEPT ![h].pc = "write", ![h].swap = file.swap,
                                  ![h].phase = Final(h), ![h].then = "done"]
          /\ UNCHANGED up
       \/ file.phase = Final(h) /\ Goes(h, "done") /\ UNCHANGED up
       \/ file.phase \notin {Expected(h), Final(h)} /\ Throws(h)
    /\ UNCHANGED <<dbVars, file, maint, busy, exiting, swaps, faults, owner>>

Done(h) ==
    /\ At(h, "done")
    /\ Ends(h)
    /\ up' = IF task[h].op = "boot" THEN "up" ELSE up
    /\ busy' = IF task[h].op = "execute" THEN FALSE ELSE busy
    /\ exiting' = \/ exiting
                  \/ ExitAfterSwap /\ task[h].op \in {"execute", "rollback"}
    /\ UNCHANGED <<dbVars, file, maint, swaps, faults, owner>>

(***************************************************************************)
(* rollback, accept, ending the maintenance                                *)
(***************************************************************************)
RollbackStarts(h) ==
    /\ maint = "LOCKED"
    /\ file.phase \in {"COMPLETED", "ROLLBACK_LIVE_RENAMED",
                       "ROLLBACK_COMPLETED"}
    /\ Starts(h, "rollback", "resume")
    /\ UNCHANGED <<dbVars, file, maint, procVars, swaps, faults, owner>>

AcceptStarts(h) ==
    /\ maint = "LOCKED"
    /\ file.phase \in {"COMPLETED", "ROLLBACK_COMPLETED"}
    /\ up = "up" /\ task[h].pc = "idle"
    /\ task' = [task EXCEPT ![h] =
          [Idle EXCEPT !.op = "accept", !.pc = "acceptAudit",
                       !.swap = file.swap, !.phase = file.phase]]
    /\ UNCHANGED <<dbVars, file, maint, procVars, swaps, faults, owner>>

AcceptAudit(h) ==
    /\ At(h, "acceptAudit")
    /\ \/ HasLive /\ Goes(h, "drop") /\ UNCHANGED up
       \/ ~HasLive /\ Throws(h)
    /\ UNCHANGED <<dbVars, file, maint, busy, exiting, swaps, faults, owner>>

(* DROP DATABASE IF EXISTS on the database the phase read at the start      *)
(* names; of a completed restore, the data that are live are kept.          *)
DropDiscarded(h) ==
    LET n == task[h].swap IN
    /\ At(h, "drop")
    /\ \/ /\ task[h].phase = "COMPLETED"
          /\ pre' = [pre EXCEPT ![n] = NoDb]
          /\ owner' = live
          /\ UNCHANGED staged
       \/ /\ task[h].phase = "ROLLBACK_COMPLETED"
          /\ staged' = [staged EXCEPT ![n] = NoDb]
          /\ UNCHANGED <<pre, owner>>
    /\ Goes(h, "clear")
    /\ UNCHANGED <<live, file, maint, procVars, swaps, faults>>

ClearState(h) ==
    /\ At(h, "clear")
    /\ file' = NoFile
    /\ Goes(h, "end")
    /\ UNCHANGED <<dbVars, maint, procVars, swaps, faults, owner>>

EndStarts(h) ==
    /\ Starts(h, "end", "end")
    /\ UNCHANGED <<dbVars, file, maint, procVars, swaps, faults, owner>>

(* Mutant: ending the maintenance does not look at the state file.         *)
EndChecks_NoRestoreCheck(h) ==
    /\ At(h, "end")
    /\ \/ maint # "OPEN" /\ Goes(h, "open")
       \/ maint = "OPEN" /\ Ends(h)
    /\ UNCHANGED <<dbVars, file, maint, procVars, swaps, faults, owner>>

(* MaintenanceService.end: the state file is read, and the maintenance file *)
(* removed in the next step.                                               *)
EndChecks(h) ==
    /\ At(h, "end")
    /\ \/ maint # "OPEN" /\ file = NoFile /\ Goes(h, "open")
       \/ maint = "OPEN" /\ Ends(h)
       \/ file # NoFile /\ Ends(h)
    /\ UNCHANGED <<dbVars, file, maint, procVars, swaps, faults, owner>>

EndOpens(h) ==
    /\ At(h, "open")
    /\ maint' = "OPEN"
    /\ Ends(h)
    /\ UNCHANGED <<dbVars, file, procVars, swaps, faults, owner>>

StartMaintenance ==
    /\ up = "up" /\ maint = "OPEN"
    /\ maint' = "DRAINING"
    /\ UNCHANGED <<dbVars, file, procVars, task, swaps, faults, owner>>

TryAdvanceToLocked ==
    /\ up = "up" /\ maint = "DRAINING"
    /\ maint' = "LOCKED"
    /\ UNCHANGED <<dbVars, file, procVars, task, swaps, faults, owner>>

(***************************************************************************)
(* Crashes, failures, start                                                *)
(***************************************************************************)
ProcessDies ==
    /\ up # "down"
    /\ up' = "down" /\ busy' = FALSE /\ exiting' = FALSE
    /\ task' = [h \in Handlers |-> Idle]
    /\ UNCHANGED <<dbVars, file, maint, swaps, owner>>

Crash ==
    /\ faults < MaxFaults
    /\ faults' = faults + 1
    /\ ProcessDies

(* RestoreProcessRestartService: 1.5 s after a swap the process exits,      *)
(* whatever else it is doing.                                              *)
ScheduledExit ==
    /\ exiting
    /\ ProcessDies
    /\ UNCHANGED faults

(* A command or a file operation fails without effect: a time-out, no       *)
(* space, a session that PostgreSQL did not terminate in time.              *)
Fails(h) ==
    /\ faults < MaxFaults
    /\ task[h].pc \notin {"idle", "cleanup", "done"}
    /\ faults' = faults + 1
    /\ Throws(h)
    /\ UNCHANGED <<dbVars, file, maint, busy, exiting, swaps, owner>>

(* prisma migrate deploy creates the database if it does not exist.        *)
MigratedLive == IF live = NoDb THEN Empty ELSE live

(* docker-entrypoint.sh, then the new process.                             *)
StartProcess ==
    /\ up = "down"
    /\ up' = "booting"
    /\ \E migrates \in AutoMigrate :
          live' = IF migrates THEN MigratedLive ELSE live
    /\ task' = [task EXCEPT ![Boot] = [Idle EXCEPT !.op = "boot",
                                                   !.pc = "bootRead"]]
    /\ UNCHANGED <<staged, pre, file, maint, busy, exiting, swaps, faults, owner>>

ResumedOnStart == {"REQUESTED", "LIVE_RENAMED", "SWAPPED",
                   "ROLLBACK_LIVE_RENAMED", "ROLLED_BACK"}

(* onModuleInit                                                            *)
BootReads ==
    /\ At(Boot, "bootRead")
    /\ Goes(Boot, IF file.phase \in ResumedOnStart THEN "resume" ELSE "done")
    /\ UNCHANGED <<dbVars, file, maint, procVars, swaps, faults, owner>>

(***************************************************************************)
(* Specification                                                           *)
(***************************************************************************)
Execute(h) ==
    \/ ExecuteStarts(h) \/ ExecuteChecks(h) \/ StageDatabase(h)
    \/ RestoreDump(h) \/ Begin(h) \/ Cleanup(h)

Coordinate(h) ==
    \/ WriteState(h) \/ Resume(h)
    \/ ListForward(h) \/ RenameLiveToPre(h) \/ RenameStagedToLive(h)
    \/ ListRollback(h) \/ RenameLiveToStaged(h) \/ RenamePreToLive(h)
    \/ WriteAuditOnce(h) \/ MarkCompleted(h) \/ Done(h)

Accept(h) ==
    \/ AcceptStarts(h) \/ AcceptAudit(h) \/ DropDiscarded(h) \/ ClearState(h)

End(h) == EndStarts(h) \/ EndChecks(h) \/ EndOpens(h)

Request(h) == Execute(h) \/ RollbackStarts(h) \/ Accept(h) \/ End(h)

Next ==
    \/ \E h \in Requests : Request(h)
    \/ \E h \in Handlers : Coordinate(h) \/ Fails(h)
    \/ StartMaintenance \/ TryAdvanceToLocked
    \/ StartProcess \/ BootReads \/ Crash \/ ScheduledExit

Spec == Init /\ [][Next]_vars

(* restart: always starts the process again, and its start-up and the       *)
(* request that runs go on; administrators may stop at any point.           *)
HandlerGoesOn(h) ==
    \/ Coordinate(h) \/ ExecuteChecks(h) \/ StageDatabase(h)
    \/ RestoreDump(h) \/ Begin(h) \/ Cleanup(h)
    \/ AcceptAudit(h) \/ DropDiscarded(h) \/ ClearState(h)
    \/ EndChecks(h) \/ EndOpens(h)

Fairness ==
    /\ WF_vars(StartProcess) /\ WF_vars(BootReads) /\ WF_vars(ScheduledExit)
    /\ \A h \in Handlers : WF_vars(HandlerGoesOn(h))

FairSpec == Spec /\ Fairness

(***************************************************************************)
(* Properties                                                              *)
(***************************************************************************)

(* The festival's data are in some database at every moment until an        *)
(* administrator accepts a restore: no crash, failed command, automatic     *)
(* migration or concurrent request drops or overwrites them before.         *)
FestivalDataKept ==
    owner = 0 => \/ live = 0
                 \/ \E n \in Swaps : staged[n] = 0 \/ pre[n] = 0

(* When the system is open for orders, it runs on the festival's data or    *)
(* on those that were live when the administrator accepted a restore; never *)
(* on a missing or half restored database, nor on a restore still to be     *)
(* decided.  An empty one was accepted, and only where a start migrates.    *)
Decidable == Data \union {Empty : migrates \in AutoMigrate \ {FALSE}}

OpenOnDecidedData ==
    up = "up" /\ maint = "OPEN" => live = owner /\ live \in Decidable

(* The state file never is more than one database command behind or ahead   *)
(* of the databases, so that resumeForward and resumeRollback recognise      *)
(* what a crash left.  The one layout they do not recognise is made by the   *)
(* automatic migration of a start between two renames, and leaves the        *)
(* restored and the previous database where they are.                      *)
OnlyLive(n) == HasLive /\ ~HasStaged(n) /\ ~HasPre(n)
Overlaid(n) == TRUE \in AutoMigrate /\ live = Empty /\ staged[n] = n /\ HasPre(n)

PhaseFitsLayout ==
    LET n == file.swap IN
    /\ file.phase = "REQUESTED"    => Prepared(n) \/ Between(n) \/ Overlaid(n)
    /\ file.phase = "LIVE_RENAMED" => Between(n) \/ Swapped(n) \/ Overlaid(n)
    /\ file.phase = "SWAPPED"      => Swapped(n)
    /\ file.phase = "COMPLETED"    =>
          \/ Swapped(n) \/ Between(n) \/ Overlaid(n) \/ OnlyLive(n)
          \/ Prepared(n) /\ owner = Empty
    /\ file.phase = "ROLLBACK_LIVE_RENAMED" =>
          Between(n) \/ Prepared(n) \/ Overlaid(n)
    /\ file.phase = "ROLLED_BACK"        => Prepared(n)
    /\ file.phase = "ROLLBACK_COMPLETED" => Prepared(n) \/ OnlyLive(n)

(* A process that died during a restore comes up again, unless a start       *)
(* before it has migrated between two renames.                             *)
Refused ==
    /\ file.phase \in {"REQUESTED", "LIVE_RENAMED", "ROLLBACK_LIVE_RENAMED"}
    /\ Overlaid(file.swap)

RestartComesUp == (up = "down") ~> (up = "up" \/ Refused)

(* A process that died during a restore comes up again, whatever a start    *)
(* does.                                                                   *)
EveryRestartComesUp == (up = "down") ~> (up = "up")

(* A restore, once its state is persisted, is finished or taken back.      *)
Pending == file.phase \in {"REQUESTED", "LIVE_RENAMED", "SWAPPED"}
RestoreContinues == Pending ~> ~Pending

(* The live database is missing for the moment of a swap only.             *)
LiveReturns == (live = NoDb) ~> (live # NoDb)

(* "Eine Wiederherstellung laeuft bereits": one execute prepares a swap at  *)
(* a time.                                                                 *)
OneExecuteAtATime ==
    \A g, h \in Requests :
        /\ task[g].op = "execute" /\ task[g].own # 0
        /\ task[h].op = "execute" /\ task[h].own # 0
        => g = h

(* The databases are swapped in the locked maintenance mode only.          *)
SwapsOnlyWhenLocked ==
    file # NoFile => maint = "LOCKED"
============================================================================
