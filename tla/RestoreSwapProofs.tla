------------------------- MODULE RestoreSwapProofs -------------------------
(* Proofs about the restore by swapping databases.                         *)
(*                                                                         *)
(* The theorems are about one administrator's request at a time: the code   *)
(* looks at operationInProgress before an await and sets it after it, so    *)
(* that two requests at the same moment may both go on.  They hold whether  *)
(* a start migrates the database or not.                                   *)
EXTENDS RestoreSwap, TLAPS

OneRequest == \A g, h \in Requests : g = h

Active(h) == task[h].pc # "idle"

(***************************************************************************)
(* The inductive invariant                                                 *)
(***************************************************************************)

(* Who runs: one handler, and the start of the process before any other.   *)
OneRuns ==
    /\ \A g, h \in Handlers : Active(g) /\ Active(h) => g = h
    /\ Active(Boot) => up = "booting" /\ task[Boot].op = "boot"
    /\ \A h \in Requests : Active(h) => up = "up" /\ task[h].op # "boot"

(* The coordinator works with the state it has read or written.            *)
Knows(h) ==
    file # NoFile /\ task[h].swap = file.swap /\ task[h].phase = file.phase

Taken  == {"COMPLETED"} \union RollbackPhases

(* The steps from one phase to the next.                                   *)
WritesNext(h) ==
    LET t == task[h]
        forth == t.op \in {"execute", "boot"}
        back  == t.op \in {"rollback", "boot"}
    IN
    \/ /\ t.op = "execute" /\ file = NoFile /\ t.swap \in Swaps
       /\ t.phase = "REQUESTED" /\ t.then = "resume"
    \/ /\ forth /\ file.phase = "REQUESTED" /\ t.swap = file.swap
       /\ t.phase = "LIVE_RENAMED" /\ t.then \in {"forward", "renameStaged"}
    \/ /\ forth /\ file.phase \in {"REQUESTED", "LIVE_RENAMED"} /\ t.swap = file.swap
       /\ t.phase = "SWAPPED" /\ t.then \in {"forward", "audit"}
    \/ /\ forth /\ file.phase = "SWAPPED" /\ t.swap = file.swap
       /\ t.phase = "COMPLETED" /\ t.then = "done"
    \/ /\ back /\ file.phase = "COMPLETED" /\ t.swap = file.swap
       /\ t.phase = "ROLLBACK_LIVE_RENAMED" /\ t.then \in {"rollback", "renamePre"}
    \/ /\ back /\ file.phase \in {"COMPLETED", "ROLLBACK_LIVE_RENAMED"} /\ t.swap = file.swap
       /\ t.phase = "ROLLED_BACK" /\ t.then \in {"rollback", "audit"}
    \/ /\ back /\ file.phase = "ROLLED_BACK" /\ t.swap = file.swap
       /\ t.phase = "ROLLBACK_COMPLETED" /\ t.then = "done"

(* Where a handler is, and what it knows there.                            *)
ControlOK(h) ==
    LET t == task[h]
        forth == t.op \in {"execute", "boot"}
        back  == t.op \in {"rollback", "boot"}
    IN
    /\ t.pc \in {"checked", "stage", "restore", "begin", "cleanup"} => t.op = "execute"
    /\ t.pc \in {"stage", "restore", "begin"} => t.own \in Swaps /\ file = NoFile
    /\ t.pc = "resume" => \/ t.op = "execute" /\ file.phase = "REQUESTED"
                          \/ t.op = "rollback" /\ file.phase \in Taken
                          \/ t.op = "boot" /\ file.phase \in ResumedOnStart
    /\ t.pc \in {"forward", "renameLive", "renameStaged"} =>
          forth /\ Knows(h) /\ t.phase \in ForwardPhases
    /\ t.pc \in {"rollback", "renameBack", "renamePre"} => back /\ Knows(h) /\ t.phase \in Taken
    /\ t.pc = "renameLive" => t.phase = "REQUESTED"
    /\ t.pc = "renameStaged" => t.phase = "LIVE_RENAMED"
    /\ t.pc = "renameBack" => t.phase = "COMPLETED"
    /\ t.pc = "renamePre" => t.phase = "ROLLBACK_LIVE_RENAMED"
    /\ t.pc \in {"audit", "mark"} =>
          /\ Knows(h)
          /\ \/ forth /\ t.phase \in {"SWAPPED", "COMPLETED"}
             \/ back /\ t.phase \in {"ROLLED_BACK", "ROLLBACK_COMPLETED"}
    /\ t.pc = "write" => WritesNext(h)
    /\ t.pc \in {"acceptAudit", "drop", "clear"} =>
          t.op = "accept" /\ file.phase \in {"COMPLETED", "ROLLBACK_COMPLETED"}
    /\ t.pc \in {"acceptAudit", "drop"} => Knows(h)
    /\ t.pc \in {"end", "open"} => t.op \in {"accept", "end"}
    /\ t.pc = "open" => file = NoFile
    /\ t.pc = "done" => t.op \in {"execute", "rollback", "boot"}
    /\ t.pc = "bootRead" => t.op = "boot"

(* The databases are swapped in the locked maintenance mode only.          *)
LockedInv ==
    /\ file # NoFile => maint = "LOCKED"
    /\ \A h \in Handlers : Active(h) /\ task[h].op = "execute" => maint = "LOCKED"

(* What is in which database, before, between, after the two renames and   *)
(* once one of the two has been dropped.                                   *)
BeforeSwap(n)  == live = owner /\ staged[n] = n /\ pre[n] = NoDb
BetweenSwap(n) == live = NoDb /\ staged[n] = n /\ pre[n] = owner
AfterSwap(n)   == live = n /\ staged[n] = NoDb /\ pre[n] = owner
Accepted(n)    == live = owner /\ staged[n] = NoDb /\ pre[n] = NoDb

(* The automatic migration has put an empty database between them, which    *)
(* an administrator who does not look may accept.                          *)
Migrated(n)      == /\ TRUE \in AutoMigrate /\ live = Empty
                    /\ staged[n] = n /\ pre[n] = owner
AcceptedEmpty(n) == BeforeSwap(n) /\ owner = Empty

(* The state file says where the databases are, give or take a command.    *)
FileInv ==
    LET n == file.swap IN
    /\ owner \in Decidable
    /\ file = NoFile => live = owner
    /\ \A m \in Swaps : m # n => pre[m] = NoDb
    /\ file.phase = "REQUESTED"    => BeforeSwap(n) \/ BetweenSwap(n) \/ Migrated(n)
    /\ file.phase = "LIVE_RENAMED" => BetweenSwap(n) \/ AfterSwap(n) \/ Migrated(n)
    /\ file.phase = "SWAPPED"      => AfterSwap(n)
    /\ file.phase = "COMPLETED"    => \/ AfterSwap(n) \/ BetweenSwap(n) \/ Migrated(n)
                                      \/ Accepted(n) \/ AcceptedEmpty(n)
    /\ file.phase = "ROLLBACK_LIVE_RENAMED" => BetweenSwap(n) \/ BeforeSwap(n) \/ Migrated(n)
    /\ file.phase = "ROLLED_BACK"        => BeforeSwap(n)
    /\ file.phase = "ROLLBACK_COMPLETED" => BeforeSwap(n) \/ Accepted(n)

DataOK(h) ==
    LET t == task[h] IN
    /\ t.pc = "begin" => staged[t.own] = t.own
    /\ t.pc = "renameBack" => Swapped(file.swap)
    /\ t.pc = "drop" => HasLive
    /\ t.pc = "clear" => live = owner /\ pre[file.swap] = NoDb
    /\ t.pc = "write" =>
          /\ t.phase = "REQUESTED" => staged[t.swap] = t.swap
          /\ t.phase \in {"LIVE_RENAMED", "ROLLBACK_LIVE_RENAMED"} => BetweenSwap(t.swap)
          /\ t.phase = "SWAPPED" => AfterSwap(t.swap)
          /\ t.phase = "ROLLED_BACK" => BeforeSwap(t.swap)

DataInv == FileInv /\ \A h \in Handlers : DataOK(h)

ControlInv == \A h \in Handlers : ControlOK(h)

IInv == TypeOK /\ OneRuns /\ ControlInv /\ LockedInv /\ DataInv

(***************************************************************************)
(* What every step has in common                                           *)
(***************************************************************************)

OtherTypes ==
    /\ live \in Contents
    /\ staged \in [Swaps -> Contents] /\ pre \in [Swaps -> Contents]
    /\ file \in {NoFile} \union [swap : Swaps, phase : Phases]
    /\ maint \in {"OPEN", "DRAINING", "LOCKED"}
    /\ up \in {"down", "booting", "up"}
    /\ busy \in BOOLEAN /\ exiting \in BOOLEAN
    /\ swaps \in 0..MaxSwaps /\ faults \in 0..MaxFaults /\ owner \in Contents

LEMMA SplitType == TypeOK <=> OtherTypes /\ task \in [Handlers -> Tasks]
BY DEF TypeOK, OtherTypes

LEMMA IdleIsTask == Idle \in Tasks /\ Idle.pc = "idle" /\ Idle.op = "none"
BY RestoreAssumption DEF Idle, Tasks, Pcs

(* A handler that rests knows nothing that could be wrong.                 *)
LEMMA RestsOK ==
    ASSUME NEW h, ~Active(h)
    PROVE  ControlOK(h) /\ DataOK(h)
BY DEF Active, ControlOK, DataOK

(* The running handler goes on.                                            *)
LEMMA Moved ==
    ASSUME TypeOK, OneRuns, NEW h \in Handlers, Active(h), NEW t \in Tasks,
           task' = [task EXCEPT ![h] = t],
           (t.op = task[h].op /\ up' = up) \/ t.pc = "idle"
    PROVE  /\ task' \in [Handlers -> Tasks] /\ task'[h] = t
           /\ \A g \in Handlers \ {h} : task'[g] = task[g] /\ ~Active(g)'
           /\ OneRuns'
<1>1. /\ task' \in [Handlers -> Tasks] /\ task'[h] = t
      /\ \A g \in Handlers \ {h} : task'[g] = task[g]
    BY DEF TypeOK
<1>2. \A g \in Handlers \ {h} : ~Active(g) /\ ~Active(g)'
    BY <1>1 DEF OneRuns, Active
<1>3. OneRuns'
    <2>1. Active(h)' => t.op = task[h].op /\ up' = up
        BY <1>1 DEF Active
    <2> QED
        BY <1>1, <1>2, <2>1 DEF OneRuns, Active, Handlers
<1> QED
    BY <1>1, <1>2, <1>3

(* A step of the running handler: what is left to look at.                 *)
LEMMA HandlerStep ==
    ASSUME IInv, NEW h \in Handlers, Active(h), NEW t \in Tasks,
           task' = [task EXCEPT ![h] = t],
           (t.op = task[h].op /\ up' = up) \/ t.pc = "idle",
           OtherTypes', maint' = maint, file' # NoFile => file # NoFile \/ maint = "LOCKED",
           ControlOK(h)', DataInv => FileInv' /\ DataOK(h)'
    PROVE  IInv'
<1>1. /\ task' \in [Handlers -> Tasks] /\ task'[h] = t
      /\ \A g \in Handlers \ {h} : task'[g] = task[g] /\ ~Active(g)'
      /\ OneRuns'
    BY Moved DEF IInv
<1>2. TypeOK'
    BY <1>1 DEF TypeOK, OtherTypes
<1>3. \A g \in Handlers \ {h} : ControlOK(g)' /\ DataOK(g)'
    BY <1>1 DEF Active, ControlOK, DataOK
<1>4. ControlInv'
    BY <1>3 DEF ControlInv
<1>5. LockedInv'
    <2>1. Active(h)' => t.op = task[h].op
        BY <1>1 DEF Active
    <2> QED
        BY <1>1, <2>1 DEF IInv, LockedInv
<1>6. DataInv'
    BY <1>3 DEF IInv, DataInv
<1> QED
    BY <1>1, <1>2, <1>4, <1>5, <1>6 DEF IInv

LEMMA GoesTo ==
    ASSUME TypeOK, NEW h \in Handlers, NEW p \in Pcs, Goes(h, p)
    PROVE  \E t \in Tasks :
              /\ task' = [task EXCEPT ![h] = t] /\ t.pc = p
              /\ t.op = task[h].op /\ t.own = task[h].own /\ t.swap = task[h].swap
              /\ t.phase = task[h].phase /\ t.then = task[h].then
<1>1. PICK t : t = [task[h] EXCEPT !.pc = p]
    OBVIOUS
<1>2. task[h] \in Tasks
    BY DEF TypeOK
<1>3. /\ t \in Tasks /\ t.pc = p /\ t.op = task[h].op /\ t.own = task[h].own
      /\ t.swap = task[h].swap /\ t.phase = task[h].phase /\ t.then = task[h].then
    BY <1>1, <1>2 DEF Tasks
<1>4. task' = [task EXCEPT ![h] = t]
    BY <1>1 DEF Goes, TypeOK
<1> QED
    BY <1>3, <1>4

LEMMA GoesWritingTo ==
    ASSUME TypeOK, NEW h \in Handlers, NEW ph \in Phases, NEW p \in Pcs, GoesWriting(h, ph, p)
    PROVE  \E t \in Tasks :
              /\ task' = [task EXCEPT ![h] = t] /\ t.pc = "write"
              /\ t.op = task[h].op /\ t.own = task[h].own /\ t.swap = task[h].swap
              /\ t.phase = ph /\ t.then = p
<1>1. PICK t : t = [task[h] EXCEPT !.pc = "write", !.phase = ph, !.then = p]
    OBVIOUS
<1>2. task[h] \in Tasks
    BY DEF TypeOK
<1>3. /\ t \in Tasks /\ t.pc = "write" /\ t.op = task[h].op /\ t.own = task[h].own
      /\ t.swap = task[h].swap /\ t.phase = ph /\ t.then = p
    BY <1>1, <1>2 DEF Tasks, Pcs
<1>4. task' = [task EXCEPT ![h] = t]
    BY <1>1 DEF GoesWriting, TypeOK
<1> QED
    BY <1>3, <1>4

LEMMA EndsTo ==
    ASSUME NEW h \in Handlers, Ends(h)
    PROVE  \E t \in Tasks : task' = [task EXCEPT ![h] = t] /\ t.pc = "idle"
BY IdleIsTask DEF Ends

LEMMA ThrowsTo ==
    ASSUME TypeOK, NEW h \in Handlers, Throws(h)
    PROVE  /\ up' \in {"down", "booting", "up"}
           /\ \E t \in Tasks :
                 /\ task' = [task EXCEPT ![h] = t]
                 /\ \/ t.pc = "cleanup" /\ t.op = task[h].op /\ t.op = "execute" /\ up' = up
                    \/ t.pc = "idle"
<1>1. CASE task[h].op = "execute"
    <2>1. Goes(h, "cleanup") /\ up' = up /\ "cleanup" \in Pcs
        BY <1>1 DEF Throws, Pcs
    <2>2. \E t \in Tasks : /\ task' = [task EXCEPT ![h] = t] /\ t.pc = "cleanup"
                           /\ t.op = task[h].op
        BY <2>1, GoesTo
    <2> QED
        BY <1>1, <2>1, <2>2 DEF TypeOK
<1>2. CASE task[h].op # "execute"
    <2>1. Ends(h) /\ up' \in {up, "down"}
        BY <1>2 DEF Throws
    <2> QED
        BY <2>1, EndsTo DEF TypeOK
<1> QED
    BY <1>1, <1>2

(* A command fails, or a condition of the code: nothing is left to know.   *)
LEMMA ThrowsStep ==
    ASSUME IInv, NEW h \in Handlers, Active(h), Throws(h),
           UNCHANGED <<live, pre, file, maint, owner>>,
           staged' \in [Swaps -> Contents],
           staged' = staged \/ file = NoFile,
           busy' \in BOOLEAN, exiting' \in BOOLEAN, swaps' \in 0..MaxSwaps,
           faults' \in 0..MaxFaults
    PROVE  IInv'
<1>1. PICK t \in Tasks :
            /\ task' = [task EXCEPT ![h] = t]
            /\ \/ t.pc = "cleanup" /\ t.op = task[h].op /\ t.op = "execute" /\ up' = up
               \/ t.pc = "idle"
    BY ThrowsTo DEF IInv
<1>2. up' \in {"down", "booting", "up"}
    BY ThrowsTo DEF IInv
<1>3. OtherTypes'
    BY <1>2 DEF IInv, TypeOK, OtherTypes
<1>4. task'[h] = t
    BY <1>1 DEF IInv, TypeOK
<1>5. ControlOK(h)' /\ DataOK(h)'
    BY <1>1, <1>4 DEF ControlOK, DataOK
<1>6. DataInv => FileInv'
    <2>1. NoFile.phase = "NONE"
        BY DEF NoFile
    <2> QED
        BY <2>1 DEF DataInv, FileInv, BeforeSwap, BetweenSwap, AfterSwap, Accepted, Migrated, AcceptedEmpty
<1> QED
    BY <1>1, <1>3, <1>5, <1>6, HandlerStep

(* A step of the running handler that touches no database and no file.     *)
LEMMA QuietStep ==
    ASSUME IInv, NEW h \in Handlers, Active(h), NEW t \in Tasks,
           task' = [task EXCEPT ![h] = t],
           (t.op = task[h].op /\ up' = up) \/ t.pc = "idle",
           UNCHANGED <<live, staged, pre, file, maint, owner>>,
           up' \in {"down", "booting", "up"},
           busy' \in BOOLEAN, exiting' \in BOOLEAN, swaps' \in 0..MaxSwaps,
           faults' \in 0..MaxFaults,
           ControlOK(h)', DataInv => DataOK(h)'
    PROVE  IInv'
<1>1. OtherTypes'
    BY DEF IInv, TypeOK, OtherTypes
<1>2. DataInv => FileInv'
    BY DEF DataInv, FileInv, BeforeSwap, BetweenSwap, AfterSwap, Accepted, Migrated, AcceptedEmpty
<1> QED
    BY <1>1, <1>2, HandlerStep

(* The type of what a quiet step leaves alone.                             *)
LEMMA ProcTypes ==
    ASSUME IInv
    PROVE  /\ up \in {"down", "booting", "up"}
           /\ busy \in BOOLEAN /\ exiting \in BOOLEAN
           /\ swaps \in 0..MaxSwaps /\ faults \in 0..MaxFaults
BY DEF IInv, TypeOK

(* An administrator's request begins: nobody else is running.              *)
LEMMA StartStep ==
    ASSUME OneRequest, IInv, NEW h \in Requests, up = "up", NEW t \in Tasks,
           task' = [task EXCEPT ![h] = t],
           t.op # "boot", t.op = "execute" => maint = "LOCKED",
           UNCHANGED <<dbVars, file, maint, procVars, swaps, faults, owner>>,
           ControlOK(h)', DataInv => DataOK(h)'
    PROVE  IInv'
<1>1. h \in Handlers /\ h # Boot /\ \A g \in Handlers : g = h \/ g = Boot
    BY RestoreAssumption DEF OneRequest, Handlers
<1>2. /\ task' \in [Handlers -> Tasks] /\ task'[h] = t
      /\ \A g \in Handlers \ {h} : task'[g] = task[g]
    BY <1>1 DEF IInv, TypeOK
<1>3. \A g \in Handlers \ {h} : ~Active(g)'
    BY <1>1, <1>2 DEF IInv, OneRuns, Active
<1>4. OneRuns'
    <2>1. up' = "up" /\ Requests \subseteq Handlers
        BY DEF procVars, Handlers
    <2>2. ~Active(Boot)' /\ \A g \in Requests : Active(g)' => g = h
        BY <1>1, <1>3, <2>1 DEF Handlers
    <2>3. \A f, g \in Handlers : Active(f)' /\ Active(g)' => f = g
        BY <1>3
    <2> QED
        BY <1>2, <2>1, <2>2, <2>3 DEF OneRuns, Active
<1>5. TypeOK'
    BY <1>2 DEF IInv, TypeOK, dbVars, procVars
<1>6. \A g \in Handlers \ {h} : ControlOK(g)' /\ DataOK(g)'
    BY <1>3 DEF Active, ControlOK, DataOK
<1>7. LockedInv'
    BY <1>2, <1>3 DEF IInv, LockedInv
<1>8. DataInv => FileInv'
    BY DEF DataInv, FileInv, BeforeSwap, BetweenSwap, AfterSwap, Accepted, Migrated, AcceptedEmpty, dbVars
<1>9. DataInv => DataInv'
    BY <1>6, <1>8 DEF DataInv
<1> QED
    BY <1>4, <1>5, <1>6, <1>7, <1>9 DEF IInv, ControlInv

LEMMA StartsTo ==
    ASSUME TypeOK, NEW h \in Handlers,
           NEW op \in {"none", "execute", "rollback", "accept", "end", "boot"},
           NEW p \in Pcs, Starts(h, op, p)
    PROVE  \E t \in Tasks :
              /\ task' = [task EXCEPT ![h] = t] /\ t.pc = p /\ t.op = op
              /\ t.own = 0 /\ t.swap = 0 /\ t.phase = "NONE"
<1>1. PICK t : t = [Idle EXCEPT !.op = op, !.pc = p]
    OBVIOUS
<1>2. t.pc = p /\ t.op = op /\ t.own = 0 /\ t.swap = 0 /\ t.phase = "NONE"
    BY <1>1 DEF Idle
<1>3. t \in Tasks
    <2>1. Idle \in Tasks
        BY IdleIsTask
    <2> QED
        BY <1>1, <2>1 DEF Tasks
<1>4. task' = [task EXCEPT ![h] = t]
    BY <1>1 DEF Starts
<1> QED
    BY <1>2, <1>3, <1>4

(***************************************************************************)
(* The requests begin                                                      *)
(***************************************************************************)
LEMMA ExecuteStartsStep ==
    ASSUME OneRequest, IInv, NEW h \in Requests, ExecuteStarts(h)
    PROVE  IInv'
<1>1. h \in Handlers /\ "checked" \in Pcs
    BY DEF Handlers, Pcs
<1>2. PICK t \in Tasks :
            /\ task' = [task EXCEPT ![h] = t] /\ t.pc = "checked" /\ t.op = "execute"
    BY <1>1, StartsTo DEF ExecuteStarts, IInv
<1>3. task'[h] = t
    BY <1>1, <1>2 DEF IInv, TypeOK
<1>4. ControlOK(h)' /\ DataOK(h)'
    BY <1>2, <1>3 DEF ControlOK, DataOK
<1> QED
    BY <1>2, <1>4, StartStep DEF ExecuteStarts, Starts

LEMMA RollbackStartsStep ==
    ASSUME OneRequest, IInv, NEW h \in Requests, RollbackStarts(h)
    PROVE  IInv'
<1>1. h \in Handlers /\ "resume" \in Pcs
    BY DEF Handlers, Pcs
<1>2. PICK t \in Tasks :
            /\ task' = [task EXCEPT ![h] = t] /\ t.pc = "resume" /\ t.op = "rollback"
    BY <1>1, StartsTo DEF RollbackStarts, IInv
<1>3. task'[h] = t
    BY <1>1, <1>2 DEF IInv, TypeOK
<1>4. file'.phase \in Taken
    BY DEF RollbackStarts, Taken, RollbackPhases
<1>5. ControlOK(h)' /\ DataOK(h)'
    BY <1>2, <1>3, <1>4 DEF ControlOK, DataOK
<1> QED
    BY <1>2, <1>5, StartStep DEF RollbackStarts, Starts

LEMMA EndStartsStep ==
    ASSUME OneRequest, IInv, NEW h \in Requests, EndStarts(h)
    PROVE  IInv'
<1>1. h \in Handlers /\ "end" \in Pcs
    BY DEF Handlers, Pcs
<1>2. PICK t \in Tasks :
            /\ task' = [task EXCEPT ![h] = t] /\ t.pc = "end" /\ t.op = "end"
    BY <1>1, StartsTo DEF EndStarts, IInv
<1>3. task'[h] = t
    BY <1>1, <1>2 DEF IInv, TypeOK
<1>4. ControlOK(h)' /\ DataOK(h)'
    BY <1>2, <1>3 DEF ControlOK, DataOK
<1> QED
    BY <1>2, <1>4, StartStep DEF EndStarts, Starts

LEMMA AcceptStartsStep ==
    ASSUME OneRequest, IInv, NEW h \in Requests, AcceptStarts(h)
    PROVE  IInv'
<1>1. PICK t : t = [Idle EXCEPT !.op = "accept", !.pc = "acceptAudit",
                                !.swap = file.swap, !.phase = file.phase]
    OBVIOUS
<1>2. file # NoFile /\ file.swap \in Swaps /\ file.phase \in Phases /\ h \in Handlers
    BY DEF IInv, TypeOK, AcceptStarts, NoFile, Handlers
<1>3. /\ t.op = "accept" /\ t.pc = "acceptAudit"
      /\ t.swap = file.swap /\ t.phase = file.phase
    BY <1>1 DEF Idle
<1>4. t \in Tasks
    <2>1. file.swap \in 0..MaxSwaps /\ 0 \in 0..MaxSwaps
        BY <1>2, RestoreAssumption DEF Swaps
    <2> QED
        BY <1>1, <1>2, <2>1 DEF Idle, Tasks, Pcs
<1>5. task' = [task EXCEPT ![h] = t]
    BY <1>1 DEF AcceptStarts
<1>6. task'[h] = t
    BY <1>2, <1>5 DEF IInv, TypeOK
<1>7. ControlOK(h)' /\ DataOK(h)'
    BY <1>2, <1>3, <1>6 DEF ControlOK, DataOK, Knows, AcceptStarts
<1> QED
    BY <1>3, <1>4, <1>5, <1>7, StartStep DEF AcceptStarts

(***************************************************************************)
(* execute                                                                 *)
(***************************************************************************)
LEMMA Names ==
    /\ NoFile.swap = 0 /\ NoFile.phase = "NONE" /\ NoFile.phase \notin Phases
    /\ Swaps \subseteq Data /\ Data \subseteq Contents /\ Swaps \subseteq 0..MaxSwaps
    /\ NoDb \in Contents /\ Empty \in Contents /\ Partial \in Contents
    /\ 0 \notin Swaps /\ 0 \in Data /\ NoDb \notin Data
BY RestoreAssumption DEF NoFile, Phases, ForwardPhases, RollbackPhases, Swaps, Data, Contents

(* What FileInv says when there is no state file.                          *)
LEMMA WithoutFile ==
    ASSUME file = NoFile
    PROVE  FileInv <=> /\ owner \in Decidable /\ live = owner
                       /\ \A m \in Swaps : pre[m] = NoDb
BY Names DEF FileInv

LEMMA ExecuteChecksStep ==
    ASSUME IInv, NEW h \in Handlers, ExecuteChecks(h)
    PROVE  IInv'
<1>1. Active(h) /\ task[h].op = "execute"
    BY DEF IInv, ControlInv, ControlOK, ExecuteChecks, At, Active
<1>2. CASE /\ file = NoFile /\ swaps < MaxSwaps /\ busy' = TRUE /\ swaps' = swaps + 1
           /\ task' = [task EXCEPT ![h].pc = "stage", ![h].own = swaps + 1]
    <2>1. PICK t : t = [task[h] EXCEPT !.pc = "stage", !.own = swaps + 1]
        OBVIOUS
    <2>2. task[h] \in Tasks
        BY DEF IInv, TypeOK
    <2>3. swaps + 1 \in Swaps /\ swaps + 1 \in 0..MaxSwaps
        BY <1>2, RestoreAssumption DEF IInv, TypeOK, Swaps
    <2>4. t \in Tasks /\ t.pc = "stage" /\ t.op = task[h].op /\ t.own = swaps + 1
        BY <2>1, <2>2, <2>3 DEF Tasks, Pcs
    <2>5. task' = [task EXCEPT ![h] = t]
        BY <1>2, <2>1 DEF IInv, TypeOK
    <2>6. task'[h] = t
        BY <2>5 DEF IInv, TypeOK
    <2>7. ControlOK(h)' /\ DataOK(h)'
        BY <1>1, <1>2, <2>3, <2>4, <2>6 DEF ControlOK, DataOK, ExecuteChecks
    <2> QED
        BY <1>1, <1>2, <2>3, <2>4, <2>5, <2>7, QuietStep, ProcTypes
        DEF ExecuteChecks, dbVars
<1>3. CASE Ends(h) /\ UNCHANGED <<busy, swaps>>
    <2>1. PICK t \in Tasks : task' = [task EXCEPT ![h] = t] /\ t.pc = "idle"
        BY <1>3, EndsTo
    <2>2. task'[h] = t
        BY <2>1 DEF IInv, TypeOK
    <2>3. ControlOK(h)' /\ DataOK(h)'
        BY <2>1, <2>2 DEF ControlOK, DataOK
    <2> QED
        BY <1>1, <1>3, <2>1, <2>3, QuietStep, ProcTypes DEF ExecuteChecks, dbVars
<1> QED
    BY <1>2, <1>3 DEF ExecuteChecks

(* A database is staged while no state file speaks of it.                  *)
LEMMA StagingStep ==
    ASSUME IInv, NEW h \in Handlers, Active(h), file = NoFile, NEW t \in Tasks,
           task' = [task EXCEPT ![h] = t], t.op = task[h].op, up' = up,
           staged' \in [Swaps -> Contents],
           UNCHANGED <<live, pre, file, maint, busy, exiting, swaps, faults, owner>>,
           ControlOK(h)', DataOK(h)'
    PROVE  IInv'
<1>1. OtherTypes'
    BY DEF IInv, TypeOK, OtherTypes
<1>2. DataInv => FileInv'
    BY Names DEF DataInv, FileInv
<1> QED
    BY <1>1, <1>2, HandlerStep

LEMMA StageDatabaseStep ==
    ASSUME IInv, NEW h \in Handlers, StageDatabase(h)
    PROVE  IInv'
<1>1. /\ Active(h) /\ task[h].op = "execute" /\ task[h].own \in Swaps
      /\ file = NoFile
    BY DEF IInv, ControlInv, ControlOK, StageDatabase, At, Active
<1>2. "restore" \in Pcs
    BY DEF Pcs
<1>3. PICK t \in Tasks :
            /\ task' = [task EXCEPT ![h] = t] /\ t.pc = "restore"
            /\ t.op = task[h].op /\ t.own = task[h].own
    BY <1>2, GoesTo DEF StageDatabase, IInv
<1>4. task'[h] = t
    BY <1>3 DEF IInv, TypeOK
<1>5. ControlOK(h)' /\ DataOK(h)'
    BY <1>1, <1>3, <1>4 DEF ControlOK, DataOK, StageDatabase
<1>6. staged' \in [Swaps -> Contents]
    BY Names DEF IInv, TypeOK, StageDatabase
<1> QED
    BY <1>1, <1>3, <1>5, <1>6, StagingStep DEF StageDatabase, procVars

LEMMA RestoreDumpStep ==
    ASSUME IInv, NEW h \in Handlers, RestoreDump(h)
    PROVE  IInv'
<1>1. /\ Active(h) /\ task[h].op = "execute" /\ task[h].own \in Swaps
      /\ file = NoFile
    BY DEF IInv, ControlInv, ControlOK, RestoreDump, At, Active
<1>2. PICK content \in {task[h].own, Partial} :
            /\ staged' = [staged EXCEPT ![task[h].own] = content]
            /\ IF measurementsMatch(content, task[h].own)
               THEN Goes(h, "begin") /\ UNCHANGED up ELSE Throws(h)
    BY DEF RestoreDump
<1>3. staged' \in [Swaps -> Contents]
    BY <1>1, <1>2, Names DEF IInv, TypeOK
<1>4. CASE content = task[h].own /\ Goes(h, "begin") /\ UNCHANGED up
    <2>1. "begin" \in Pcs
        BY DEF Pcs
    <2>2. PICK t \in Tasks :
                /\ task' = [task EXCEPT ![h] = t] /\ t.pc = "begin"
                /\ t.op = task[h].op /\ t.own = task[h].own
        BY <1>4, <2>1, GoesTo DEF IInv
    <2>3. task'[h] = t
        BY <2>2 DEF IInv, TypeOK
    <2>4. staged'[task[h].own] = task[h].own
        BY <1>1, <1>2, <1>4 DEF IInv, TypeOK
    <2>5. ControlOK(h)' /\ DataOK(h)'
        BY <1>1, <2>2, <2>3, <2>4 DEF ControlOK, DataOK, RestoreDump
    <2> QED
        BY <1>1, <1>3, <1>4, <2>2, <2>5, StagingStep DEF RestoreDump
<1>5. CASE Throws(h)
    BY <1>1, <1>3, <1>5, ThrowsStep, ProcTypes DEF RestoreDump
<1> QED
    BY <1>2, <1>4, <1>5 DEF measurementsMatch

LEMMA BeginStep ==
    ASSUME IInv, NEW h \in Handlers, Begin(h)
    PROVE  IInv'
<1>1. /\ Active(h) /\ task[h].op = "execute" /\ task[h].own \in Swaps
      /\ file = NoFile
    BY DEF IInv, ControlInv, ControlOK, Begin, At, Active
<1>2. CASE /\ up' = up
           /\ task' = [task EXCEPT ![h].pc = "write", ![h].swap = task[h].own,
                                   ![h].phase = "REQUESTED", ![h].then = "resume"]
    <2>1. PICK t : t = [task[h] EXCEPT !.pc = "write", !.swap = task[h].own,
                                       !.phase = "REQUESTED", !.then = "resume"]
        OBVIOUS
    <2>2. task[h] \in Tasks
        BY DEF IInv, TypeOK
    <2>3. /\ t.pc = "write" /\ t.swap = task[h].own /\ t.phase = "REQUESTED"
          /\ t.then = "resume" /\ t.op = task[h].op
        BY <2>1, <2>2 DEF Tasks
    <2>4. t \in Tasks
        BY <1>1, <2>1, <2>2 DEF Tasks, Pcs, Phases, ForwardPhases
    <2>5. task' = [task EXCEPT ![h] = t]
        BY <1>2, <2>1 DEF IInv, TypeOK
    <2>6. task'[h] = t
        BY <2>5 DEF IInv, TypeOK
    <2>7. ControlOK(h)'
        BY <1>1, <2>3, <2>6 DEF ControlOK, WritesNext, Begin
    <2>8. DataInv => DataOK(h)'
        BY <2>3, <2>6 DEF DataInv, DataOK, Begin, At, dbVars
    <2> QED
        BY <1>1, <1>2, <2>3, <2>4, <2>5, <2>7, <2>8, QuietStep, ProcTypes
        DEF Begin, dbVars
<1>3. CASE Throws(h)
    BY <1>1, <1>3, ThrowsStep, ProcTypes DEF Begin, dbVars, IInv, TypeOK
<1> QED
    BY <1>2, <1>3 DEF Begin

LEMMA CleanupStep ==
    ASSUME IInv, NEW h \in Handlers, Cleanup(h)
    PROVE  IInv'
<1>1. Active(h)
    BY DEF Cleanup, At, Active
<1>2. PICK t \in Tasks : task' = [task EXCEPT ![h] = t] /\ t.pc = "idle"
    BY EndsTo DEF Cleanup
<1>3. task'[h] = t
    BY <1>2 DEF IInv, TypeOK
<1>4. ControlOK(h)' /\ DataOK(h)'
    BY <1>2, <1>3 DEF ControlOK, DataOK
<1>5. staged' \in [Swaps -> Contents] /\ (staged' = staged \/ file = NoFile)
    BY Names DEF IInv, TypeOK, Cleanup
<1>6. OtherTypes'
    BY <1>5 DEF IInv, TypeOK, OtherTypes, Cleanup
<1>7. DataInv => FileInv'
    BY <1>5, Names DEF Cleanup, DataInv, FileInv, BeforeSwap, BetweenSwap,
                       AfterSwap, Accepted, Migrated, AcceptedEmpty
<1> QED
    BY <1>1, <1>2, <1>4, <1>6, <1>7, HandlerStep DEF Cleanup

(***************************************************************************)
(* The coordinator                                                         *)
(***************************************************************************)

(* With a state file the databases of its swap are known.                  *)
LEMMA FileIsSwap ==
    ASSUME IInv, file # NoFile
    PROVE  /\ file.swap \in Swaps /\ file.phase \in Phases /\ maint = "LOCKED"
           /\ file.swap \in Data /\ file.swap \in 0..MaxSwaps
BY Names DEF IInv, TypeOK, LockedInv

LEMMA WritesKnown ==
    ASSUME IInv, NEW h \in Handlers, task[h].pc = "write"
    PROVE  /\ WritesNext(h) /\ task[h].swap \in Swaps /\ task[h].phase \in Phases
           /\ maint = "LOCKED"
<1>1. WritesNext(h) /\ Active(h)
    BY DEF IInv, ControlInv, ControlOK, Active
<1>2. file.phase \in Phases => file # NoFile
    BY Names
<1>3. CASE file = NoFile
    <2>1. task[h].op = "execute" /\ task[h].phase = "REQUESTED" /\ task[h].swap \in Swaps
        BY <1>1, <1>3, Names DEF WritesNext, Phases, ForwardPhases, RollbackPhases
    <2> QED
        BY <1>1, <2>1 DEF IInv, LockedInv, Phases, ForwardPhases
<1>4. CASE file # NoFile
    <2>1. task[h].swap = file.swap /\ task[h].phase \in Phases
        BY <1>1, <1>4 DEF WritesNext, Phases, ForwardPhases, RollbackPhases
    <2> QED
        BY <1>1, <1>4, <2>1, FileIsSwap
<1> QED
    BY <1>3, <1>4

LEMMA WriteStateStep ==
    ASSUME IInv, NEW h \in Handlers, WriteState(h)
    PROVE  IInv'
<1>1. /\ Active(h) /\ task[h].pc = "write"
    BY DEF WriteState, At, Active
<1>2. /\ WritesNext(h) /\ task[h].swap \in Swaps /\ task[h].phase \in Phases
      /\ maint = "LOCKED" /\ task[h].then \in Pcs
    BY <1>1, WritesKnown DEF IInv, TypeOK, Tasks
<1>3. /\ file'.swap = task[h].swap /\ file'.phase = task[h].phase /\ file' # NoFile
      /\ file' \in [swap : Swaps, phase : Phases]
    BY <1>2, Names DEF WriteState
<1>4. PICK t \in Tasks :
            /\ task' = [task EXCEPT ![h] = t] /\ t.pc = task[h].then
            /\ t.op = task[h].op /\ t.own = task[h].own /\ t.swap = task[h].swap
            /\ t.phase = task[h].phase /\ t.then = task[h].then
    BY <1>2, GoesTo DEF WriteState, IInv
<1>5. task'[h] = t
    BY <1>4 DEF IInv, TypeOK
<1>6. OtherTypes'
    BY <1>3 DEF IInv, TypeOK, OtherTypes, WriteState, dbVars, procVars
<1>7. ControlOK(h)'
    <2>1. Knows(h)'
        BY <1>3, <1>4, <1>5 DEF Knows
    <2> QED
        BY <1>2, <1>3, <1>4, <1>5, <2>1
        DEF WritesNext, ControlOK, Taken, ResumedOnStart, ForwardPhases, RollbackPhases
<1>8. DataOK(h)'
    BY <1>2, <1>4, <1>5 DEF WritesNext, DataOK
<1>9. DataInv => FileInv'
    <2> SUFFICES ASSUME DataInv PROVE FileInv'
        OBVIOUS
    <2> DEFINE n == task[h].swap
    <2>1. DataOK(h) /\ FileInv
        BY DEF DataInv
    <2>2. owner \in Decidable /\ \A m \in Swaps : m # n => pre[m] = NoDb
        BY <1>2, <2>1, Names DEF FileInv, WritesNext
    <2>3. /\ task[h].phase = "REQUESTED" => BeforeSwap(n)
        BY <1>1, <1>2, <2>1, Names DEF FileInv, WritesNext, DataOK, BeforeSwap
    <2>4. /\ task[h].phase = "COMPLETED" => AfterSwap(n)
          /\ task[h].phase = "ROLLBACK_COMPLETED" => BeforeSwap(n)
        BY <1>2, <2>1 DEF FileInv, WritesNext
    <2>5. FileInv' = (/\ owner \in Decidable
                      /\ file' = NoFile => live = owner
                      /\ \A m \in Swaps : m # n => pre[m] = NoDb
                      /\ task[h].phase = "REQUESTED"
                            => BeforeSwap(n) \/ BetweenSwap(n) \/ Migrated(n)
                      /\ task[h].phase = "LIVE_RENAMED"
                            => BetweenSwap(n) \/ AfterSwap(n) \/ Migrated(n)
                      /\ task[h].phase = "SWAPPED" => AfterSwap(n)
                      /\ task[h].phase = "COMPLETED"
                            => \/ AfterSwap(n) \/ BetweenSwap(n) \/ Migrated(n)
                               \/ Accepted(n) \/ AcceptedEmpty(n)
                      /\ task[h].phase = "ROLLBACK_LIVE_RENAMED"
                            => BetweenSwap(n) \/ BeforeSwap(n) \/ Migrated(n)
                      /\ task[h].phase = "ROLLED_BACK" => BeforeSwap(n)
                      /\ task[h].phase = "ROLLBACK_COMPLETED" => BeforeSwap(n) \/ Accepted(n))
        BY <1>3 DEF FileInv, BeforeSwap, BetweenSwap, AfterSwap, Accepted, Migrated, AcceptedEmpty,
                    WriteState, dbVars
    <2> QED
        BY <1>1, <1>3, <2>1, <2>2, <2>3, <2>4, <2>5 DEF DataOK
<1> QED
    BY <1>1, <1>2, <1>4, <1>6, <1>7, <1>8, <1>9, HandlerStep DEF WriteState, procVars

LEMMA ResumeStep ==
    ASSUME IInv, NEW h \in Handlers, Resume(h)
    PROVE  IInv'
<1>1. /\ Active(h) /\ task[h].pc = "resume" /\ ControlOK(h)
    BY DEF IInv, ControlInv, Resume, At, Active
<1>2. CASE /\ file # NoFile /\ up' = up
           /\ task' = [task EXCEPT ![h].pc = Direction(h, file.phase),
                                   ![h].swap = file.swap, ![h].phase = file.phase]
    <2>1. PICK t : t = [task[h] EXCEPT !.pc = Direction(h, file.phase),
                                       !.swap = file.swap, !.phase = file.phase]
        OBVIOUS
    <2>2. task[h] \in Tasks
        BY DEF IInv, TypeOK
    <2>3. /\ t.pc = Direction(h, file.phase) /\ t.swap = file.swap
          /\ t.phase = file.phase /\ t.op = task[h].op
        BY <2>1, <2>2 DEF Tasks
    <2>4. Direction(h, file.phase) \in {"forward", "rollback"}
        BY DEF Direction
    <2>5. file.swap \in 0..MaxSwaps /\ file.phase \in Phases
        BY <1>2, FileIsSwap
    <2>6. t \in Tasks
        BY <2>1, <2>2, <2>4, <2>5 DEF Tasks, Pcs
    <2>7. task' = [task EXCEPT ![h] = t]
        BY <1>2, <2>1 DEF IInv, TypeOK
    <2>8. task'[h] = t
        BY <2>7 DEF IInv, TypeOK
    <2>9. Knows(h)'
        BY <1>2, <2>3, <2>8 DEF Knows, Resume
    <2>10. \/ t.pc = "forward" /\ t.op \in {"execute", "boot"} /\ t.phase \in ForwardPhases
           \/ t.pc = "rollback" /\ t.op \in {"rollback", "boot"} /\ t.phase \in Taken
        BY <1>1, <2>3 DEF ControlOK, Direction, Taken, ResumedOnStart, ForwardPhases,
                          RollbackPhases
    <2>11. ControlOK(h)' /\ DataOK(h)'
        BY <2>8, <2>9, <2>10 DEF ControlOK, DataOK
    <2> QED
        BY <1>1, <1>2, <2>3, <2>6, <2>7, <2>11, QuietStep, ProcTypes DEF Resume, dbVars
<1>3. CASE Throws(h)
    BY <1>1, <1>3, ThrowsStep, ProcTypes DEF Resume, dbVars, IInv, TypeOK
<1> QED
    BY <1>2, <1>3 DEF Resume

(* The running handler goes on without touching anything.                  *)
LEMMA QuietGoes ==
    ASSUME IInv, NEW h \in Handlers, Active(h), NEW p \in Pcs, Goes(h, p), up' = up,
           UNCHANGED <<dbVars, file, maint, busy, exiting, swaps, faults, owner>>,
           /\ task'[h].pc = p /\ task'[h].op = task[h].op
           /\ task'[h].own = task[h].own /\ task'[h].swap = task[h].swap
           /\ task'[h].phase = task[h].phase
           => ControlOK(h)' /\ (DataInv => DataOK(h)')
    PROVE  IInv'
<1>1. PICK t \in Tasks :
            /\ task' = [task EXCEPT ![h] = t] /\ t.pc = p
            /\ t.op = task[h].op /\ t.own = task[h].own /\ t.swap = task[h].swap
            /\ t.phase = task[h].phase /\ t.then = task[h].then
    BY GoesTo DEF IInv
<1>2. task'[h] = t
    BY <1>1 DEF IInv, TypeOK
<1> QED
    BY <1>1, <1>2, QuietStep, ProcTypes DEF dbVars

LEMMA QuietWrites ==
    ASSUME IInv, NEW h \in Handlers, Active(h), NEW ph \in Phases, NEW p \in Pcs,
           GoesWriting(h, ph, p), up' = up,
           UNCHANGED <<dbVars, file, maint, busy, exiting, swaps, faults, owner>>,
           /\ task'[h].pc = "write" /\ task'[h].op = task[h].op
           /\ task'[h].own = task[h].own /\ task'[h].swap = task[h].swap
           /\ task'[h].phase = ph /\ task'[h].then = p
           => ControlOK(h)' /\ (DataInv => DataOK(h)')
    PROVE  IInv'
<1>1. PICK t \in Tasks :
            /\ task' = [task EXCEPT ![h] = t] /\ t.pc = "write"
            /\ t.op = task[h].op /\ t.own = task[h].own /\ t.swap = task[h].swap
            /\ t.phase = ph /\ t.then = p
    BY GoesWritingTo DEF IInv
<1>2. task'[h] = t
    BY <1>1 DEF IInv, TypeOK
<1> QED
    BY <1>1, <1>2, QuietStep, ProcTypes DEF dbVars

LEMMA QuietEnds ==
    ASSUME IInv, NEW h \in Handlers, Active(h), Ends(h),
           UNCHANGED <<dbVars, file, maint, swaps, faults, owner>>,
           up' \in {"down", "booting", "up"}, busy' \in BOOLEAN, exiting' \in BOOLEAN
    PROVE  IInv'
<1>1. PICK t \in Tasks : task' = [task EXCEPT ![h] = t] /\ t.pc = "idle"
    BY EndsTo
<1>2. task'[h] = t
    BY <1>1 DEF IInv, TypeOK
<1>3. ControlOK(h)' /\ DataOK(h)'
    BY <1>1, <1>2 DEF ControlOK, DataOK
<1> QED
    BY <1>1, <1>3, QuietStep, ProcTypes DEF dbVars

LEMMA QuietThrows ==
    ASSUME IInv, NEW h \in Handlers, Active(h), Throws(h),
           UNCHANGED <<dbVars, file, maint, busy, exiting, swaps, owner>>,
           faults' \in 0..MaxFaults
    PROVE  IInv'
BY ThrowsStep, ProcTypes DEF dbVars, IInv, TypeOK

LEMMA PcsAndPhases ==
    /\ "audit" \in Pcs /\ "renameLive" \in Pcs /\ "renameStaged" \in Pcs
    /\ "forward" \in Pcs /\ "rollback" \in Pcs /\ "renameBack" \in Pcs
    /\ "renamePre" \in Pcs /\ "mark" \in Pcs /\ "done" \in Pcs /\ "resume" \in Pcs
    /\ "drop" \in Pcs /\ "clear" \in Pcs /\ "end" \in Pcs /\ "open" \in Pcs
    /\ "LIVE_RENAMED" \in Phases /\ "SWAPPED" \in Phases /\ "COMPLETED" \in Phases
    /\ "ROLLBACK_LIVE_RENAMED" \in Phases /\ "ROLLED_BACK" \in Phases
    /\ "ROLLBACK_COMPLETED" \in Phases
BY DEF Pcs, Phases, ForwardPhases, RollbackPhases

(* Between any two commands of the forward direction.                      *)
LEMMA ForwardKnows ==
    ASSUME IInv, NEW h \in Handlers,
           task[h].pc \in {"forward", "renameLive", "renameStaged"}
    PROVE  /\ Active(h) /\ Knows(h) /\ task[h].op \in {"execute", "boot"}
           /\ task[h].phase \in ForwardPhases
           /\ task[h].swap = file.swap /\ task[h].phase = file.phase
           /\ file.swap \in Swaps /\ file.swap \in Data /\ file # NoFile
           /\ task[h].pc = "renameLive" => file.phase = "REQUESTED"
           /\ task[h].pc = "renameStaged" => file.phase = "LIVE_RENAMED"
<1>1. ControlOK(h)
    BY DEF IInv, ControlInv
<1>2. Knows(h) /\ task[h].op \in {"execute", "boot"} /\ task[h].phase \in ForwardPhases
    BY <1>1 DEF ControlOK
<1> QED
    BY <1>1, <1>2, FileIsSwap DEF ControlOK, Knows, Active

(* Between any two commands of the way back.                               *)
LEMMA RollbackKnows ==
    ASSUME IInv, NEW h \in Handlers,
           task[h].pc \in {"rollback", "renameBack", "renamePre"}
    PROVE  /\ Active(h) /\ Knows(h) /\ task[h].op \in {"rollback", "boot"}
           /\ task[h].phase \in Taken
           /\ task[h].swap = file.swap /\ task[h].phase = file.phase
           /\ file.swap \in Swaps /\ file.swap \in Data /\ file # NoFile
           /\ task[h].pc = "renameBack" => file.phase = "COMPLETED"
           /\ task[h].pc = "renamePre" => file.phase = "ROLLBACK_LIVE_RENAMED"
<1>1. ControlOK(h)
    BY DEF IInv, ControlInv
<1>2. Knows(h) /\ task[h].op \in {"rollback", "boot"} /\ task[h].phase \in Taken
    BY <1>1 DEF ControlOK
<1> QED
    BY <1>1, <1>2, FileIsSwap DEF ControlOK, Knows, Active

LEMMA OwnerIsData == IInv => owner # NoDb /\ Empty # NoDb /\ \A n \in Swaps : n # NoDb
BY RestoreAssumption, Names DEF IInv, DataInv, FileInv, Decidable

LEMMA ListForwardStep ==
    ASSUME IInv, NEW h \in Handlers, ListForward(h)
    PROVE  IInv'
<1>0. PICK n : n = task[h].swap
    OBVIOUS
<1>1. /\ Active(h) /\ Knows(h) /\ task[h].op \in {"execute", "boot"}
      /\ task[h].phase \in ForwardPhases /\ n = file.swap /\ task[h].phase = file.phase
      /\ n \in Swaps /\ n \in Data /\ file # NoFile
    BY <1>0, ForwardKnows DEF ListForward, At
<1>u. UNCHANGED <<dbVars, file, maint, busy, exiting, swaps, faults, owner>>
    BY DEF ListForward
<1>2. Knows(h)' <=> task'[h].swap = n /\ task'[h].phase = task[h].phase
    BY <1>0, <1>1, <1>u DEF Knows
<1>3. CASE /\ task[h].phase \in {"SWAPPED", "COMPLETED"}
           /\ Goes(h, "audit") /\ UNCHANGED up
    <2>1. /\ task'[h].pc = "audit" /\ task'[h].op = task[h].op
          /\ task'[h].own = task[h].own /\ task'[h].swap = task[h].swap
          /\ task'[h].phase = task[h].phase
          => ControlOK(h)' /\ (DataInv => DataOK(h)')
        BY <1>0, <1>1, <1>2, <1>3 DEF ControlOK, DataOK
    <2> QED
        BY <1>1, <1>3, <2>1, PcsAndPhases, QuietGoes, <1>u
<1>4. CASE task[h].phase = "REQUESTED" /\ Goes(h, "renameLive") /\ UNCHANGED up
    <2>1. /\ task'[h].pc = "renameLive" /\ task'[h].op = task[h].op
          /\ task'[h].own = task[h].own /\ task'[h].swap = task[h].swap
          /\ task'[h].phase = task[h].phase
          => ControlOK(h)' /\ (DataInv => DataOK(h)')
        BY <1>0, <1>1, <1>2, <1>4 DEF ControlOK, DataOK
    <2> QED
        BY <1>1, <1>4, <2>1, PcsAndPhases, QuietGoes, <1>u
<1>5. CASE /\ task[h].phase = "REQUESTED" /\ Between(n)
           /\ GoesWriting(h, "LIVE_RENAMED", "renameStaged") /\ UNCHANGED up
    <2>1. DataInv => BetweenSwap(n)
        BY <1>1, <1>5, OwnerIsData
        DEF DataInv, FileInv, Between, HasLive, BeforeSwap, BetweenSwap, Migrated
    <2>2. BetweenSwap(n)' <=> BetweenSwap(n)
        BY <1>u DEF BetweenSwap, dbVars
    <2>3. /\ task'[h].pc = "write" /\ task'[h].op = task[h].op
          /\ task'[h].own = task[h].own /\ task'[h].swap = task[h].swap
          /\ task'[h].phase = "LIVE_RENAMED" /\ task'[h].then = "renameStaged"
          => ControlOK(h)' /\ (DataInv => DataOK(h)')
        BY <1>0, <1>u, <1>1, <1>5, <2>1, <2>2 DEF ControlOK, DataOK, WritesNext
    <2> QED
        BY <1>1, <1>5, <2>3, PcsAndPhases, QuietWrites, <1>u
<1>6. CASE task[h].phase = "LIVE_RENAMED" /\ Goes(h, "renameStaged") /\ UNCHANGED up
    <2>1. /\ task'[h].pc = "renameStaged" /\ task'[h].op = task[h].op
          /\ task'[h].own = task[h].own /\ task'[h].swap = task[h].swap
          /\ task'[h].phase = task[h].phase
          => ControlOK(h)' /\ (DataInv => DataOK(h)')
        BY <1>0, <1>1, <1>2, <1>6 DEF ControlOK, DataOK
    <2> QED
        BY <1>1, <1>6, <2>1, PcsAndPhases, QuietGoes, <1>u
<1>7. CASE /\ task[h].phase \notin {"SWAPPED", "COMPLETED"} /\ Swapped(n)
           /\ GoesWriting(h, "SWAPPED", "audit") /\ UNCHANGED up
    <2>1. file.phase \in {"REQUESTED", "LIVE_RENAMED"}
        BY <1>1, <1>7 DEF ForwardPhases
    <2>2. DataInv => AfterSwap(n)
        BY <1>1, <1>7, <2>1, OwnerIsData
        DEF DataInv, FileInv, Swapped, HasLive, HasPre, HasStaged, BeforeSwap,
            BetweenSwap, AfterSwap, Migrated
    <2>3. AfterSwap(n)' <=> AfterSwap(n)
        BY <1>u DEF AfterSwap, dbVars
    <2>4. /\ task'[h].pc = "write" /\ task'[h].op = task[h].op
          /\ task'[h].own = task[h].own /\ task'[h].swap = task[h].swap
          /\ task'[h].phase = "SWAPPED" /\ task'[h].then = "audit"
          => ControlOK(h)' /\ (DataInv => DataOK(h)')
        BY <1>0, <1>u, <1>1, <2>1, <2>2, <2>3 DEF ControlOK, DataOK, WritesNext
    <2> QED
        BY <1>1, <1>7, <2>4, PcsAndPhases, QuietWrites, <1>u
<1>8. CASE Throws(h)
    BY <1>1, <1>8, QuietThrows, ProcTypes, <1>u
<1> QED
    BY <1>0, <1>3, <1>4, <1>5, <1>6, <1>7, <1>8 DEF ListForward

(***************************************************************************)
(* The renames                                                             *)
(***************************************************************************)
LEMMA RenameStep ==
    ASSUME IInv, NEW h \in Handlers, Active(h), NEW ph \in Phases, NEW p \in Pcs,
           GoesWriting(h, ph, p), up' = up,
           UNCHANGED <<file, maint, busy, exiting, swaps, faults, owner>>,
           live' \in Contents, staged' \in [Swaps -> Contents],
           pre' \in [Swaps -> Contents],
           /\ task'[h].pc = "write" /\ task'[h].op = task[h].op
           /\ task'[h].own = task[h].own /\ task'[h].swap = task[h].swap
           /\ task'[h].phase = ph /\ task'[h].then = p
           => ControlOK(h)' /\ (DataInv => DataOK(h)'),
           DataInv => FileInv'
    PROVE  IInv'
<1>1. PICK t \in Tasks :
            /\ task' = [task EXCEPT ![h] = t] /\ t.pc = "write"
            /\ t.op = task[h].op /\ t.own = task[h].own /\ t.swap = task[h].swap
            /\ t.phase = ph /\ t.then = p
    BY GoesWritingTo DEF IInv
<1>2. task'[h] = t
    BY <1>1 DEF IInv, TypeOK
<1>3. OtherTypes'
    BY DEF IInv, TypeOK, OtherTypes
<1> QED
    BY <1>1, <1>2, <1>3, HandlerStep

LEMMA RenameLiveToPreStep ==
    ASSUME IInv, NEW h \in Handlers, RenameLiveToPre(h)
    PROVE  IInv'
<1>0. PICK n : n = task[h].swap
    OBVIOUS
<1>1. /\ Active(h) /\ task[h].op \in {"execute", "boot"} /\ task[h].swap = file.swap
      /\ n = file.swap /\ file.phase = "REQUESTED"
      /\ n \in Swaps /\ n \in Data /\ file # NoFile
    BY <1>0, ForwardKnows DEF RenameLiveToPre, At
<1>u. UNCHANGED <<staged, file, maint, busy, exiting, swaps, faults, owner>>
    BY DEF RenameLiveToPre
<1>2. CASE /\ MayRename(live, pre[n]) /\ pre' = [pre EXCEPT ![n] = live]
           /\ live' = NoDb /\ GoesWriting(h, "LIVE_RENAMED", "forward") /\ up' = up
    <2>1. /\ live' \in Contents /\ staged' \in [Swaps -> Contents]
          /\ pre' \in [Swaps -> Contents] /\ pre'[n] = live
          /\ \A m \in Swaps : m # n => pre'[m] = pre[m]
        BY <1>1, <1>2, <1>u, Names DEF IInv, TypeOK
    <2>2. DataInv => BeforeSwap(n)
        BY <1>1, <1>2, OwnerIsData
        DEF DataInv, FileInv, MayRename, BetweenSwap, Migrated
    <2>3. DataInv => live' = NoDb /\ staged'[n] = n /\ pre'[n] = owner'
        BY <1>2, <1>u, <2>1, <2>2 DEF BeforeSwap
    <2>4. /\ task'[h].pc = "write" /\ task'[h].op = task[h].op
          /\ task'[h].own = task[h].own /\ task'[h].swap = task[h].swap
          /\ task'[h].phase = "LIVE_RENAMED" /\ task'[h].then = "forward"
          => ControlOK(h)' /\ (DataInv => DataOK(h)')
        BY <1>0, <1>1, <1>u, <2>3 DEF ControlOK, DataOK, WritesNext, BetweenSwap
    <2>5. DataInv => FileInv'
        BY <1>1, <1>u, <2>1, <2>3 DEF DataInv, FileInv, BetweenSwap
    <2> QED
        BY <1>1, <1>2, <1>u, <2>1, <2>4, <2>5, PcsAndPhases, RenameStep
<1>3. CASE Throws(h) /\ UNCHANGED <<live, pre>>
    BY <1>1, <1>3, <1>u, QuietThrows, ProcTypes DEF dbVars
<1> QED
    BY <1>0, <1>2, <1>3 DEF RenameLiveToPre

LEMMA RenameStagedToLiveStep ==
    ASSUME IInv, NEW h \in Handlers, RenameStagedToLive(h)
    PROVE  IInv'
<1>0. PICK n : n = task[h].swap
    OBVIOUS
<1>1. /\ Active(h) /\ task[h].op \in {"execute", "boot"} /\ task[h].swap = file.swap
      /\ n = file.swap /\ file.phase = "LIVE_RENAMED"
      /\ n \in Swaps /\ n \in Data /\ file # NoFile
    BY <1>0, ForwardKnows DEF RenameStagedToLive, At
<1>u. UNCHANGED <<pre, file, maint, busy, exiting, swaps, faults, owner>>
    BY DEF RenameStagedToLive
<1>2. CASE /\ MayRename(staged[n], live) /\ live' = staged[n]
           /\ staged' = [staged EXCEPT ![n] = NoDb]
           /\ GoesWriting(h, "SWAPPED", "forward") /\ up' = up
    <2>1. /\ live' \in Contents /\ staged' \in [Swaps -> Contents]
          /\ pre' \in [Swaps -> Contents] /\ staged'[n] = NoDb
        BY <1>1, <1>2, <1>u, Names DEF IInv, TypeOK
    <2>2. DataInv => BetweenSwap(n)
        BY <1>1, <1>2, OwnerIsData
        DEF DataInv, FileInv, MayRename, AfterSwap, Migrated
    <2>3. DataInv => live' = n /\ staged'[n] = NoDb /\ pre'[n] = owner'
        BY <1>2, <1>u, <2>1, <2>2 DEF BetweenSwap
    <2>4. /\ task'[h].pc = "write" /\ task'[h].op = task[h].op
          /\ task'[h].own = task[h].own /\ task'[h].swap = task[h].swap
          /\ task'[h].phase = "SWAPPED" /\ task'[h].then = "forward"
          => ControlOK(h)' /\ (DataInv => DataOK(h)')
        BY <1>0, <1>1, <1>u, <2>3 DEF ControlOK, DataOK, WritesNext, AfterSwap
    <2>5. DataInv => FileInv'
        BY <1>1, <1>u, <2>1, <2>3 DEF DataInv, FileInv, AfterSwap
    <2> QED
        BY <1>1, <1>2, <1>u, <2>1, <2>4, <2>5, PcsAndPhases, RenameStep
<1>3. CASE Throws(h) /\ UNCHANGED <<live, staged>>
    BY <1>1, <1>3, <1>u, QuietThrows, ProcTypes DEF dbVars
<1> QED
    BY <1>0, <1>2, <1>3 DEF RenameStagedToLive

LEMMA RenameLiveToStagedStep ==
    ASSUME IInv, NEW h \in Handlers, RenameLiveToStaged(h)
    PROVE  IInv'
<1>0. PICK n : n = task[h].swap
    OBVIOUS
<1>1. /\ Active(h) /\ task[h].op \in {"rollback", "boot"} /\ task[h].swap = file.swap
      /\ n = file.swap /\ file.phase = "COMPLETED"
      /\ n \in Swaps /\ n \in Data /\ file # NoFile
    BY <1>0, RollbackKnows DEF RenameLiveToStaged, At
<1>u. UNCHANGED <<pre, file, maint, busy, exiting, swaps, faults, owner>>
    BY DEF RenameLiveToStaged
<1>2. CASE /\ MayRename(live, staged[n]) /\ staged' = [staged EXCEPT ![n] = live]
           /\ live' = NoDb /\ GoesWriting(h, "ROLLBACK_LIVE_RENAMED", "rollback")
           /\ up' = up
    <2>1. /\ live' \in Contents /\ staged' \in [Swaps -> Contents]
          /\ pre' \in [Swaps -> Contents] /\ staged'[n] = live
        BY <1>1, <1>2, <1>u, Names DEF IInv, TypeOK
    <2>2. DataInv => AfterSwap(n)
        <3>1. DataInv => Swapped(n)
            BY <1>1 DEF DataInv, DataOK, RenameLiveToStaged, At
        <3> QED
            BY <1>1, <1>2, <3>1, OwnerIsData
            DEF DataInv, FileInv, MayRename, Swapped, HasLive, HasStaged, HasPre,
                BeforeSwap, BetweenSwap, Migrated, Accepted, AcceptedEmpty
    <2>3. DataInv => live' = NoDb /\ staged'[n] = n /\ pre'[n] = owner'
        BY <1>2, <1>u, <2>1, <2>2 DEF AfterSwap
    <2>4. /\ task'[h].pc = "write" /\ task'[h].op = task[h].op
          /\ task'[h].own = task[h].own /\ task'[h].swap = task[h].swap
          /\ task'[h].phase = "ROLLBACK_LIVE_RENAMED" /\ task'[h].then = "rollback"
          => ControlOK(h)' /\ (DataInv => DataOK(h)')
        BY <1>0, <1>1, <1>u, <2>3 DEF ControlOK, DataOK, WritesNext, BetweenSwap
    <2>5. DataInv => FileInv'
        BY <1>1, <1>u, <2>1, <2>3 DEF DataInv, FileInv, BetweenSwap
    <2> QED
        BY <1>1, <1>2, <1>u, <2>1, <2>4, <2>5, PcsAndPhases, RenameStep
<1>3. CASE Throws(h) /\ UNCHANGED <<live, staged>>
    BY <1>1, <1>3, <1>u, QuietThrows, ProcTypes DEF dbVars
<1> QED
    BY <1>0, <1>2, <1>3 DEF RenameLiveToStaged

LEMMA RenamePreToLiveStep ==
    ASSUME IInv, NEW h \in Handlers, RenamePreToLive(h)
    PROVE  IInv'
<1>0. PICK n : n = task[h].swap
    OBVIOUS
<1>1. /\ Active(h) /\ task[h].op \in {"rollback", "boot"} /\ task[h].swap = file.swap
      /\ n = file.swap /\ file.phase = "ROLLBACK_LIVE_RENAMED"
      /\ n \in Swaps /\ n \in Data /\ file # NoFile
    BY <1>0, RollbackKnows DEF RenamePreToLive, At
<1>u. UNCHANGED <<staged, file, maint, busy, exiting, swaps, faults, owner>>
    BY DEF RenamePreToLive
<1>2. CASE /\ MayRename(pre[n], live) /\ live' = pre[n]
           /\ pre' = [pre EXCEPT ![n] = NoDb]
           /\ GoesWriting(h, "ROLLED_BACK", "rollback") /\ up' = up
    <2>1. /\ live' \in Contents /\ staged' \in [Swaps -> Contents]
          /\ pre' \in [Swaps -> Contents] /\ pre'[n] = NoDb
          /\ \A m \in Swaps : m # n => pre'[m] = pre[m]
        BY <1>1, <1>2, <1>u, Names DEF IInv, TypeOK
    <2>2. DataInv => BetweenSwap(n)
        BY <1>1, <1>2, OwnerIsData
        DEF DataInv, FileInv, MayRename, BeforeSwap, Migrated
    <2>3. DataInv => live' = owner' /\ staged'[n] = n /\ pre'[n] = NoDb
        BY <1>2, <1>u, <2>1, <2>2 DEF BetweenSwap
    <2>4. /\ task'[h].pc = "write" /\ task'[h].op = task[h].op
          /\ task'[h].own = task[h].own /\ task'[h].swap = task[h].swap
          /\ task'[h].phase = "ROLLED_BACK" /\ task'[h].then = "rollback"
          => ControlOK(h)' /\ (DataInv => DataOK(h)')
        BY <1>0, <1>1, <1>u, <2>3 DEF ControlOK, DataOK, WritesNext, BeforeSwap
    <2>5. DataInv => FileInv'
        BY <1>1, <1>u, <2>1, <2>3 DEF DataInv, FileInv, BeforeSwap
    <2> QED
        BY <1>1, <1>2, <1>u, <2>1, <2>4, <2>5, PcsAndPhases, RenameStep
<1>3. CASE Throws(h) /\ UNCHANGED <<live, pre>>
    BY <1>1, <1>3, <1>u, QuietThrows, ProcTypes DEF dbVars
<1> QED
    BY <1>0, <1>2, <1>3 DEF RenamePreToLive

LEMMA ListRollbackStep ==
    ASSUME IInv, NEW h \in Handlers, ListRollback(h)
    PROVE  IInv'
<1>0. PICK n : n = task[h].swap
    OBVIOUS
<1>1. /\ Active(h) /\ Knows(h) /\ task[h].op \in {"rollback", "boot"}
      /\ task[h].phase \in Taken /\ n = file.swap /\ task[h].phase = file.phase
      /\ n \in Swaps /\ n \in Data /\ file # NoFile
    BY <1>0, RollbackKnows DEF ListRollback, At
<1>u. UNCHANGED <<dbVars, file, maint, busy, exiting, swaps, faults, owner>>
    BY DEF ListRollback
<1>2. Knows(h)' <=> task'[h].swap = n /\ task'[h].phase = task[h].phase
    BY <1>0, <1>1, <1>u DEF Knows
<1>3. CASE /\ task[h].phase \in {"ROLLED_BACK", "ROLLBACK_COMPLETED"}
           /\ Goes(h, "audit") /\ UNCHANGED up
    <2>1. /\ task'[h].pc = "audit" /\ task'[h].op = task[h].op
          /\ task'[h].own = task[h].own /\ task'[h].swap = task[h].swap
          /\ task'[h].phase = task[h].phase
          => ControlOK(h)' /\ (DataInv => DataOK(h)')
        BY <1>0, <1>1, <1>2, <1>3 DEF ControlOK, DataOK
    <2> QED
        BY <1>1, <1>3, <1>u, <2>1, PcsAndPhases, QuietGoes
<1>4. CASE /\ task[h].phase \in {"SWAPPED", "COMPLETED"} /\ Swapped(n)
           /\ Goes(h, "renameBack") /\ UNCHANGED up
    <2>1. task[h].phase = "COMPLETED"
        BY <1>1, <1>4 DEF Taken, RollbackPhases
    <2>2. Swapped(file.swap)'
        BY <1>1, <1>4, <1>u DEF Swapped, HasLive, HasStaged, HasPre, dbVars
    <2>3. /\ task'[h].pc = "renameBack" /\ task'[h].op = task[h].op
          /\ task'[h].own = task[h].own /\ task'[h].swap = task[h].swap
          /\ task'[h].phase = task[h].phase
          => ControlOK(h)' /\ (DataInv => DataOK(h)')
        BY <1>0, <1>1, <1>2, <2>1, <2>2 DEF ControlOK, DataOK
    <2> QED
        BY <1>1, <1>4, <1>u, <2>3, PcsAndPhases, QuietGoes
<1>5. CASE /\ task[h].phase \in {"SWAPPED", "COMPLETED"} /\ Between(n)
           /\ GoesWriting(h, "ROLLBACK_LIVE_RENAMED", "renamePre") /\ UNCHANGED up
    <2>1. task[h].phase = "COMPLETED"
        BY <1>1, <1>5 DEF Taken, RollbackPhases
    <2>2. DataInv => BetweenSwap(n)
        BY <1>1, <1>5, <2>1, OwnerIsData
        DEF DataInv, FileInv, Between, HasLive, BeforeSwap, AfterSwap, BetweenSwap,
            Migrated, Accepted, AcceptedEmpty
    <2>3. BetweenSwap(n)' <=> BetweenSwap(n)
        BY <1>u DEF BetweenSwap, dbVars
    <2>4. /\ task'[h].pc = "write" /\ task'[h].op = task[h].op
          /\ task'[h].own = task[h].own /\ task'[h].swap = task[h].swap
          /\ task'[h].phase = "ROLLBACK_LIVE_RENAMED" /\ task'[h].then = "renamePre"
          => ControlOK(h)' /\ (DataInv => DataOK(h)')
        BY <1>0, <1>1, <1>u, <2>1, <2>2, <2>3 DEF ControlOK, DataOK, WritesNext
    <2> QED
        BY <1>1, <1>5, <1>u, <2>4, PcsAndPhases, QuietWrites
<1>6. CASE /\ task[h].phase = "ROLLBACK_LIVE_RENAMED"
           /\ Goes(h, "renamePre") /\ UNCHANGED up
    <2>1. /\ task'[h].pc = "renamePre" /\ task'[h].op = task[h].op
          /\ task'[h].own = task[h].own /\ task'[h].swap = task[h].swap
          /\ task'[h].phase = task[h].phase
          => ControlOK(h)' /\ (DataInv => DataOK(h)')
        BY <1>0, <1>1, <1>2, <1>6 DEF ControlOK, DataOK
    <2> QED
        BY <1>1, <1>6, <1>u, <2>1, PcsAndPhases, QuietGoes
<1>7. CASE /\ task[h].phase \notin {"ROLLED_BACK", "ROLLBACK_COMPLETED"} /\ Prepared(n)
           /\ GoesWriting(h, "ROLLED_BACK", "audit") /\ UNCHANGED up
    <2>1. file.phase \in {"COMPLETED", "ROLLBACK_LIVE_RENAMED"}
        BY <1>1, <1>7 DEF Taken, RollbackPhases
    <2>2. DataInv => BeforeSwap(n)
        BY <1>1, <1>7, <2>1, OwnerIsData
        DEF DataInv, FileInv, Prepared, HasLive, HasPre, HasStaged, BeforeSwap,
            BetweenSwap, AfterSwap, Migrated, Accepted, AcceptedEmpty
    <2>3. BeforeSwap(n)' <=> BeforeSwap(n)
        BY <1>u DEF BeforeSwap, dbVars
    <2>4. /\ task'[h].pc = "write" /\ task'[h].op = task[h].op
          /\ task'[h].own = task[h].own /\ task'[h].swap = task[h].swap
          /\ task'[h].phase = "ROLLED_BACK" /\ task'[h].then = "audit"
          => ControlOK(h)' /\ (DataInv => DataOK(h)')
        BY <1>0, <1>1, <1>u, <2>1, <2>2, <2>3 DEF ControlOK, DataOK, WritesNext
    <2> QED
        BY <1>1, <1>7, <1>u, <2>4, PcsAndPhases, QuietWrites
<1>8. CASE Throws(h)
    BY <1>1, <1>8, <1>u, QuietThrows, ProcTypes
<1> QED
    BY <1>0, <1>3, <1>4, <1>5, <1>6, <1>7, <1>8 DEF ListRollback

(***************************************************************************)
(* Finishing                                                               *)
(***************************************************************************)
LEMMA AuditKnows ==
    ASSUME IInv, NEW h \in Handlers, task[h].pc \in {"audit", "mark"}
    PROVE  /\ Active(h) /\ Knows(h) /\ file # NoFile
           /\ file.swap \in 0..MaxSwaps
           /\ \/ /\ task[h].op \in {"execute", "boot"}
                 /\ task[h].phase \in {"SWAPPED", "COMPLETED"}
              \/ /\ task[h].op \in {"rollback", "boot"}
                 /\ task[h].phase \in {"ROLLED_BACK", "ROLLBACK_COMPLETED"}
BY FileIsSwap DEF IInv, ControlInv, ControlOK, Active, Knows

LEMMA WriteAuditOnceStep ==
    ASSUME IInv, NEW h \in Handlers, WriteAuditOnce(h)
    PROVE  IInv'
<1>1. /\ Active(h) /\ Knows(h) /\ file # NoFile
      /\ \/ /\ task[h].op \in {"execute", "boot"}
            /\ task[h].phase \in {"SWAPPED", "COMPLETED"}
         \/ /\ task[h].op \in {"rollback", "boot"}
            /\ task[h].phase \in {"ROLLED_BACK", "ROLLBACK_COMPLETED"}
    BY AuditKnows DEF WriteAuditOnce, At
<1>u. UNCHANGED <<dbVars, file, maint, busy, exiting, swaps, faults, owner>>
    BY DEF WriteAuditOnce
<1>2. CASE Goes(h, "mark") /\ UNCHANGED up
    <2>1. /\ task'[h].pc = "mark" /\ task'[h].op = task[h].op
          /\ task'[h].own = task[h].own /\ task'[h].swap = task[h].swap
          /\ task'[h].phase = task[h].phase
          => ControlOK(h)' /\ (DataInv => DataOK(h)')
        BY <1>1, <1>u DEF ControlOK, DataOK, Knows
    <2> QED
        BY <1>1, <1>2, <1>u, <2>1, PcsAndPhases, QuietGoes
<1>3. CASE Throws(h)
    BY <1>1, <1>3, <1>u, QuietThrows, ProcTypes
<1> QED
    BY <1>2, <1>3 DEF WriteAuditOnce

LEMMA MarkCompletedStep ==
    ASSUME IInv, NEW h \in Handlers, MarkCompleted(h)
    PROVE  IInv'
<1>1. /\ Active(h) /\ Knows(h) /\ file # NoFile /\ file.swap \in 0..MaxSwaps
      /\ \/ /\ task[h].op \in {"execute", "boot"}
            /\ task[h].phase \in {"SWAPPED", "COMPLETED"}
         \/ /\ task[h].op \in {"rollback", "boot"}
            /\ task[h].phase \in {"ROLLED_BACK", "ROLLBACK_COMPLETED"}
    BY AuditKnows DEF MarkCompleted, At
<1>u. UNCHANGED <<dbVars, file, maint, busy, exiting, swaps, faults, owner>>
    BY DEF MarkCompleted
<1>2. CASE /\ file.phase = Expected(h) /\ up' = up
           /\ task' = [task EXCEPT ![h].pc = "write", ![h].swap = file.swap,
                                   ![h].phase = Final(h), ![h].then = "done"]
    <2>1. PICK t : t = [task[h] EXCEPT !.pc = "write", !.swap = file.swap,
                                       !.phase = Final(h), !.then = "done"]
        OBVIOUS
    <2>2. task[h] \in Tasks
        BY DEF IInv, TypeOK
    <2>3. /\ t.pc = "write" /\ t.swap = file.swap /\ t.phase = Final(h)
          /\ t.then = "done" /\ t.op = task[h].op
        BY <2>1, <2>2 DEF Tasks
    <2>4. Final(h) \in Phases
        BY PcsAndPhases DEF Final
    <2>5. t \in Tasks
        <3>1. "write" \in Pcs /\ "done" \in Pcs
            BY DEF Pcs
        <3> QED
            BY <1>1, <2>1, <2>2, <2>4, <3>1 DEF Tasks
    <2>6. task' = [task EXCEPT ![h] = t]
        BY <1>2, <2>1 DEF IInv, TypeOK
    <2>7. task'[h] = t
        BY <2>6 DEF IInv, TypeOK
    <2>8. \/ /\ t.op \in {"execute", "boot"} /\ file.phase = "SWAPPED"
             /\ t.phase = "COMPLETED"
          \/ /\ t.op \in {"rollback", "boot"} /\ file.phase = "ROLLED_BACK"
             /\ t.phase = "ROLLBACK_COMPLETED"
        BY <1>1, <1>2, <2>3
        DEF Expected, Final, ForRollback, Knows, RollbackPhases
    <2>9. ControlOK(h)' /\ DataOK(h)'
        BY <1>u, <2>3, <2>7, <2>8 DEF ControlOK, DataOK, WritesNext
    <2> QED
        BY <1>1, <1>2, <1>u, <2>3, <2>5, <2>6, <2>9, QuietStep, ProcTypes DEF dbVars
<1>3. CASE Goes(h, "done") /\ UNCHANGED up
    <2>1. /\ task'[h].pc = "done" /\ task'[h].op = task[h].op
          /\ task'[h].own = task[h].own /\ task'[h].swap = task[h].swap
          /\ task'[h].phase = task[h].phase
          => ControlOK(h)' /\ (DataInv => DataOK(h)')
        BY <1>1 DEF ControlOK, DataOK
    <2> QED
        BY <1>1, <1>3, <1>u, <2>1, PcsAndPhases, QuietGoes
<1>4. CASE Throws(h)
    BY <1>1, <1>4, <1>u, QuietThrows, ProcTypes
<1> QED
    BY <1>2, <1>3, <1>4 DEF MarkCompleted

LEMMA DoneStep ==
    ASSUME IInv, NEW h \in Handlers, Done(h)
    PROVE  IInv'
<1>1. Active(h) /\ ExitAfterSwap \in BOOLEAN
    BY RestoreAssumption DEF Done, At, Active
<1>2. /\ up' \in {"down", "booting", "up"} /\ busy' \in BOOLEAN /\ exiting' \in BOOLEAN
    BY <1>1, ProcTypes DEF Done
<1> QED
    BY <1>1, <1>2, QuietEnds DEF Done

(***************************************************************************)
(* accept and the end of the maintenance                                   *)
(***************************************************************************)
LEMMA AcceptAuditStep ==
    ASSUME IInv, NEW h \in Handlers, AcceptAudit(h)
    PROVE  IInv'
<1>1. /\ Active(h) /\ Knows(h) /\ task[h].op = "accept"
      /\ file.phase \in {"COMPLETED", "ROLLBACK_COMPLETED"}
    BY DEF IInv, ControlInv, ControlOK, AcceptAudit, At, Active
<1>u. UNCHANGED <<dbVars, file, maint, busy, exiting, swaps, faults, owner>>
    BY DEF AcceptAudit
<1>2. CASE HasLive /\ Goes(h, "drop") /\ UNCHANGED up
    <2>1. HasLive'
        BY <1>2, <1>u DEF HasLive, dbVars
    <2>2. /\ task'[h].pc = "drop" /\ task'[h].op = task[h].op
          /\ task'[h].own = task[h].own /\ task'[h].swap = task[h].swap
          /\ task'[h].phase = task[h].phase
          => ControlOK(h)' /\ (DataInv => DataOK(h)')
        BY <1>1, <1>u, <2>1 DEF ControlOK, DataOK, Knows
    <2> QED
        BY <1>1, <1>2, <1>u, <2>2, PcsAndPhases, QuietGoes
<1>3. CASE Throws(h)
    BY <1>1, <1>3, <1>u, QuietThrows, ProcTypes
<1> QED
    BY <1>2, <1>3 DEF AcceptAudit

(* The one step that decides which data the festival goes on with.         *)
LEMMA DropDiscardedStep ==
    ASSUME IInv, NEW h \in Handlers, DropDiscarded(h)
    PROVE  IInv'
<1>0. PICK n : n = task[h].swap
    OBVIOUS
<1>1. /\ Active(h) /\ Knows(h) /\ task[h].op = "accept" /\ task[h].pc = "drop"
      /\ file.phase \in {"COMPLETED", "ROLLBACK_COMPLETED"}
    BY DEF IInv, ControlInv, ControlOK, DropDiscarded, At, Active
<1>2. /\ file # NoFile /\ n = file.swap /\ task[h].phase = file.phase
      /\ n \in Swaps /\ n \in Data /\ n # 0
    BY <1>0, <1>1, FileIsSwap, Names DEF Knows
<1>u. UNCHANGED <<live, file, maint, up, busy, exiting, swaps, faults>>
    BY DEF DropDiscarded, procVars
<1>3. PICK t \in Tasks :
            /\ task' = [task EXCEPT ![h] = t] /\ t.pc = "clear" /\ t.op = task[h].op
    BY GoesTo, PcsAndPhases DEF DropDiscarded, IInv
<1>4. task'[h] = t
    BY <1>3 DEF IInv, TypeOK
<1>5. ControlOK(h)'
    BY <1>1, <1>3, <1>4, <1>u DEF ControlOK
<1>6. DataInv => HasLive
    BY <1>1 DEF DataInv, DataOK
<1>7. CASE /\ task[h].phase = "COMPLETED" /\ pre' = [pre EXCEPT ![n] = NoDb]
           /\ owner' = live /\ staged' = staged
    <2>1. /\ pre' \in [Swaps -> Contents] /\ pre'[n] = NoDb
          /\ \A m \in Swaps : m # n => pre'[m] = pre[m]
        BY <1>2, <1>7, Names DEF IInv, TypeOK
    <2>2. OtherTypes'
        BY <1>2, <1>7, <1>u, <2>1 DEF IInv, TypeOK, OtherTypes
    <2>3. DataInv => \/ Migrated(n) \/ AfterSwap(n) \/ Accepted(n) \/ AcceptedEmpty(n)
        BY <1>2, <1>6, <1>7 DEF DataInv, FileInv, BetweenSwap, HasLive
    <2>4. DataInv => live \in Decidable
        BY <1>2, <2>3 DEF DataInv, FileInv, BeforeSwap, AfterSwap, Accepted, Migrated,
                          AcceptedEmpty, Decidable
    <2>5. DataInv => Accepted(n)' \/ AcceptedEmpty(n)'
        BY <1>7, <1>u, <2>1, <2>3
        DEF BeforeSwap, AfterSwap, Accepted, Migrated, AcceptedEmpty
    <2>6. Decidable' = Decidable
        BY DEF Decidable
    <2>7. DataInv => FileInv'
        BY <1>2, <1>7, <1>u, <2>1, <2>4, <2>5, <2>6 DEF DataInv, FileInv
    <2>8. DataOK(h)'
        BY <1>2, <1>3, <1>4, <1>7, <1>u, <2>1 DEF DataOK
    <2> QED
        BY <1>1, <1>2, <1>3, <1>5, <1>u, <2>2, <2>7, <2>8, HandlerStep
<1>8. CASE /\ task[h].phase = "ROLLBACK_COMPLETED" /\ staged' = [staged EXCEPT ![n] = NoDb]
           /\ UNCHANGED <<pre, owner>>
    <2>1. staged' \in [Swaps -> Contents] /\ staged'[n] = NoDb
        BY <1>2, <1>8, Names DEF IInv, TypeOK
    <2>2. OtherTypes'
        BY <1>8, <1>u, <2>1 DEF IInv, TypeOK, OtherTypes
    <2>4. DataInv => BeforeSwap(n) \/ Accepted(n)
        BY <1>2, <1>8 DEF DataInv, FileInv
    <2>5. DataInv => live' = owner' /\ staged'[n] = NoDb /\ pre'[n] = NoDb
        BY <1>8, <1>u, <2>1, <2>4 DEF BeforeSwap, Accepted
    <2>6. DataInv => FileInv' /\ DataOK(h)'
        BY <1>2, <1>3, <1>4, <1>8, <1>u, <2>5 DEF DataInv, FileInv, DataOK, Accepted
    <2> QED
        BY <1>1, <1>2, <1>3, <1>5, <1>u, <2>2, <2>6, HandlerStep
<1> QED
    BY <1>0, <1>7, <1>8 DEF DropDiscarded

LEMMA ClearStateStep ==
    ASSUME IInv, NEW h \in Handlers, ClearState(h)
    PROVE  IInv'
<1>1. /\ Active(h) /\ task[h].op = "accept" /\ task[h].pc = "clear"
      /\ file.phase \in {"COMPLETED", "ROLLBACK_COMPLETED"}
    BY DEF IInv, ControlInv, ControlOK, ClearState, At, Active
<1>u. UNCHANGED <<live, staged, pre, maint, up, busy, exiting, swaps, faults, owner>>
    BY DEF ClearState, dbVars, procVars
<1>2. PICK t \in Tasks :
            /\ task' = [task EXCEPT ![h] = t] /\ t.pc = "end" /\ t.op = task[h].op
    BY GoesTo, PcsAndPhases DEF ClearState, IInv
<1>3. task'[h] = t
    BY <1>2 DEF IInv, TypeOK
<1>4. file' = NoFile
    BY DEF ClearState
<1>5. OtherTypes'
    BY <1>4, <1>u DEF IInv, TypeOK, OtherTypes
<1>6. ControlOK(h)' /\ DataOK(h)'
    BY <1>1, <1>2, <1>3 DEF ControlOK, DataOK
<1>7. DataInv => FileInv'
    <2>1. DataInv => live = owner /\ pre[file.swap] = NoDb /\ FileInv
        BY <1>1 DEF DataInv, DataOK
    <2> QED
        BY <1>4, <1>u, <2>1, Names DEF FileInv
<1> QED
    BY <1>1, <1>2, <1>4, <1>5, <1>6, <1>7, <1>u, HandlerStep

LEMMA EndChecksStep ==
    ASSUME IInv, NEW h \in Handlers, EndChecks(h)
    PROVE  IInv'
<1>1. /\ Active(h) /\ task[h].op \in {"accept", "end"}
    BY DEF IInv, ControlInv, ControlOK, EndChecks, At, Active
<1>u. UNCHANGED <<dbVars, file, maint, up, busy, exiting, swaps, faults, owner>>
    BY DEF EndChecks, procVars
<1>2. CASE file = NoFile /\ Goes(h, "open")
    <2>1. /\ task'[h].pc = "open" /\ task'[h].op = task[h].op
          /\ task'[h].own = task[h].own /\ task'[h].swap = task[h].swap
          /\ task'[h].phase = task[h].phase
          => ControlOK(h)' /\ (DataInv => DataOK(h)')
        BY <1>1, <1>2, <1>u DEF ControlOK, DataOK
    <2> QED
        BY <1>1, <1>2, <1>u, <2>1, PcsAndPhases, QuietGoes
<1>3. CASE Ends(h)
    BY <1>1, <1>3, <1>u, QuietEnds, ProcTypes
<1> QED
    BY <1>2, <1>3 DEF EndChecks

(* The mode ends when no state file was found, and none can be written     *)
(* meanwhile, for only one handler runs.                                   *)
LEMMA EndOpensStep ==
    ASSUME IInv, NEW h \in Handlers, EndOpens(h)
    PROVE  IInv'
<1>1. /\ Active(h) /\ file = NoFile
    BY DEF IInv, ControlInv, ControlOK, EndOpens, At, Active
<1>u. UNCHANGED <<live, staged, pre, file, up, busy, exiting, swaps, faults, owner>>
    BY DEF EndOpens, dbVars, procVars
<1>2. PICK t \in Tasks : task' = [task EXCEPT ![h] = t] /\ t.pc = "idle"
    BY EndsTo DEF EndOpens
<1>3. /\ task' \in [Handlers -> Tasks] /\ task'[h] = t
      /\ \A g \in Handlers \ {h} : task'[g] = task[g] /\ ~Active(g)'
      /\ OneRuns'
    BY <1>1, <1>2, Moved DEF IInv
<1>4. \A g \in Handlers : ~Active(g)'
    BY <1>2, <1>3 DEF Active
<1>5. TypeOK'
    BY <1>3, <1>u DEF IInv, TypeOK, EndOpens
<1>6. \A g \in Handlers : ControlOK(g)' /\ DataOK(g)'
    BY <1>4 DEF Active, ControlOK, DataOK
<1>7. LockedInv'
    BY <1>1, <1>4, <1>u DEF LockedInv
<1>8. DataInv => DataInv'
    BY <1>6, <1>u DEF DataInv, FileInv, BeforeSwap, BetweenSwap, AfterSwap, Accepted, Migrated, AcceptedEmpty
<1> QED
    BY <1>3, <1>5, <1>6, <1>7, <1>8 DEF IInv, ControlInv

LEMMA FailsStep ==
    ASSUME IInv, NEW h \in Handlers, Fails(h)
    PROVE  IInv'
<1>1. Active(h)
    BY DEF Fails, Active
<1>2. faults' \in 0..MaxFaults
    BY RestoreAssumption, ProcTypes DEF Fails
<1> QED
    BY <1>1, <1>2, QuietThrows DEF Fails

(***************************************************************************)
(* The maintenance mode and the process                                    *)
(***************************************************************************)
LEMMA StartMaintenanceStep ==
    ASSUME IInv, StartMaintenance
    PROVE  IInv'
<1>u. UNCHANGED <<live, staged, pre, file, up, busy, exiting, task, swaps, faults, owner>>
    BY DEF StartMaintenance, dbVars, procVars
<1>1. TypeOK'
    BY <1>u DEF IInv, TypeOK, StartMaintenance
<1>2. OneRuns'
    BY <1>u DEF IInv, OneRuns, Active
<1>3. ControlInv'
    BY <1>u DEF IInv, ControlInv, ControlOK, Knows, WritesNext
<1>4. LockedInv'
    BY <1>u DEF IInv, LockedInv, StartMaintenance, Active
<1>5. DataInv => DataInv'
    BY <1>u DEF DataInv, DataOK, FileInv, BeforeSwap, BetweenSwap, AfterSwap, Accepted,
                Migrated, AcceptedEmpty, Swapped, HasLive, HasStaged, HasPre
<1> QED
    BY <1>1, <1>2, <1>3, <1>4, <1>5 DEF IInv

LEMMA TryAdvanceToLockedStep ==
    ASSUME IInv, TryAdvanceToLocked
    PROVE  IInv'
<1>u. UNCHANGED <<live, staged, pre, file, up, busy, exiting, task, swaps, faults, owner>>
    BY DEF TryAdvanceToLocked, dbVars, procVars
<1>1. TypeOK'
    BY <1>u DEF IInv, TypeOK, TryAdvanceToLocked
<1>2. OneRuns'
    BY <1>u DEF IInv, OneRuns, Active
<1>3. ControlInv'
    BY <1>u DEF IInv, ControlInv, ControlOK, Knows, WritesNext
<1>4. LockedInv'
    BY DEF LockedInv, TryAdvanceToLocked
<1>5. DataInv => DataInv'
    BY <1>u DEF DataInv, DataOK, FileInv, BeforeSwap, BetweenSwap, AfterSwap, Accepted,
                Migrated, AcceptedEmpty, Swapped, HasLive, HasStaged, HasPre
<1> QED
    BY <1>1, <1>2, <1>3, <1>4, <1>5 DEF IInv

(* Nothing but the files and the databases outlives the process.           *)
LEMMA ProcessDiesStep ==
    ASSUME IInv, ProcessDies, faults' \in 0..MaxFaults
    PROVE  IInv'
<1>u. UNCHANGED <<live, staged, pre, file, maint, swaps, owner>>
    BY DEF ProcessDies, dbVars
<1>1. task' \in [Handlers -> Tasks] /\ \A h \in Handlers : task'[h] = Idle
    BY IdleIsTask DEF ProcessDies
<1>2. \A h \in Handlers : ~Active(h)'
    BY <1>1, IdleIsTask DEF Active
<1>3. \A h \in Handlers : ControlOK(h)' /\ DataOK(h)'
    BY <1>2 DEF Active, ControlOK, DataOK
<1>4. TypeOK'
    BY <1>1, <1>u DEF IInv, TypeOK, ProcessDies
<1>5. OneRuns'
    BY <1>2 DEF OneRuns, Active, Handlers
<1>6. LockedInv'
    BY <1>2, <1>u DEF IInv, LockedInv
<1>7. DataInv => DataInv'
    BY <1>3, <1>u DEF DataInv, FileInv, BeforeSwap, BetweenSwap, AfterSwap, Accepted, Migrated, AcceptedEmpty
<1> QED
    BY <1>3, <1>4, <1>5, <1>6, <1>7 DEF IInv, ControlInv

(* The entry point of the container may create an empty live database.     *)
LEMMA StartProcessStep ==
    ASSUME IInv, StartProcess
    PROVE  IInv'
<1>u. UNCHANGED <<staged, pre, file, maint, busy, exiting, swaps, faults, owner>>
    BY DEF StartProcess
<1>1. PICK t : t = [Idle EXCEPT !.op = "boot", !.pc = "bootRead"]
    OBVIOUS
<1>2. t \in Tasks /\ t.pc = "bootRead" /\ t.op = "boot"
    <2>1. t.pc = "bootRead" /\ t.op = "boot"
        BY <1>1 DEF Idle
    <2>2. t \in Tasks
        BY <1>1, IdleIsTask DEF Tasks, Pcs
    <2> QED
        BY <2>1, <2>2
<1>3. Boot \in Handlers /\ Boot \notin Requests
    BY RestoreAssumption DEF Handlers
<1>4. /\ task' \in [Handlers -> Tasks] /\ task'[Boot] = t
      /\ \A h \in Handlers \ {Boot} : task'[h] = task[h]
    BY <1>1, <1>2, <1>3 DEF IInv, TypeOK, StartProcess
<1>5. \A h \in Handlers : h # Boot => ~Active(h)'
    BY <1>3, <1>4 DEF IInv, OneRuns, StartProcess, Active, Handlers
<1>6. OneRuns'
    BY <1>2, <1>3, <1>4, <1>5 DEF OneRuns, Active, StartProcess, Handlers
<1>7. TypeOK'
    BY <1>4, <1>u, Names DEF IInv, TypeOK, StartProcess, MigratedLive
<1>8. \A h \in Handlers : ControlOK(h)' /\ DataOK(h)'
    <2>1. ControlOK(Boot)' /\ DataOK(Boot)'
        BY <1>2, <1>4 DEF ControlOK, DataOK
    <2> QED
        BY <2>1, <1>5 DEF Active, ControlOK, DataOK
<1>9. LockedInv'
    <2>1. \A h \in Handlers : Active(h)' => task'[h].op = "boot"
        BY <1>2, <1>4, <1>5
    <2> QED
        BY <1>u, <2>1 DEF IInv, LockedInv
<1>10. DataInv => FileInv'
    <2>1. CASE live' = live
        BY <1>u, <2>1 DEF DataInv, FileInv, BeforeSwap, BetweenSwap, AfterSwap,
                          Accepted, Migrated, AcceptedEmpty
    <2>2. CASE TRUE \in AutoMigrate /\ live = NoDb /\ live' = Empty
        <3>1. live' = Empty
            BY <2>2
        <3>2. CASE file = NoFile
            BY <2>2, <3>2, OwnerIsData DEF DataInv, FileInv
        <3>3. CASE file # NoFile
            <4>1. PICK n : n = file.swap
                OBVIOUS
            <4>2. n \in Swaps /\ owner # NoDb /\ n # NoDb
                BY <3>3, <4>1, FileIsSwap, OwnerIsData
            <4>3. BetweenSwap(n) => Migrated(n)'
                BY <1>u, <2>2, <3>1 DEF BetweenSwap, Migrated
            <4>4. /\ ~BeforeSwap(n) /\ ~AfterSwap(n) /\ ~Accepted(n) /\ ~Migrated(n)
                  /\ ~AcceptedEmpty(n)
                BY <2>2, <4>2, OwnerIsData
                DEF BeforeSwap, AfterSwap, Accepted, Migrated, AcceptedEmpty
            <4>5. file'.swap = n /\ file'.phase = file.phase
                BY <1>u, <4>1
            <4> QED
                BY <1>u, <3>3, <4>1, <4>3, <4>4, <4>5 DEF DataInv, FileInv
        <3> QED
            BY <3>2, <3>3
    <2>3. live' = live \/ (TRUE \in AutoMigrate /\ live = NoDb /\ live' = Empty)
        <3>1. PICK migrates \in AutoMigrate :
                    live' = IF migrates THEN MigratedLive ELSE live
            BY DEF StartProcess
        <3>2. migrates = TRUE \/ migrates = FALSE
            BY <3>1, RestoreAssumption
        <3> QED
            BY <3>1, <3>2 DEF MigratedLive
    <2> QED
        BY <2>1, <2>2, <2>3
<1> QED
    BY <1>6, <1>7, <1>8, <1>9, <1>10 DEF IInv, ControlInv, DataInv

LEMMA BootReadsStep ==
    ASSUME IInv, BootReads
    PROVE  IInv'
<1>1. Boot \in Handlers /\ Active(Boot) /\ task[Boot].op = "boot"
    BY DEF IInv, ControlInv, ControlOK, BootReads, At, Active, Handlers
<1>u. UNCHANGED <<dbVars, file, maint, up, busy, exiting, swaps, faults, owner>>
    BY DEF BootReads, procVars
<1>2. CASE file.phase \in ResumedOnStart
    <2>1. Goes(Boot, "resume")
        BY <1>2 DEF BootReads
    <2>2. /\ task'[Boot].pc = "resume" /\ task'[Boot].op = task[Boot].op
          /\ task'[Boot].own = task[Boot].own /\ task'[Boot].swap = task[Boot].swap
          /\ task'[Boot].phase = task[Boot].phase
          => ControlOK(Boot)' /\ (DataInv => DataOK(Boot)')
        BY <1>1, <1>2, <1>u DEF ControlOK, DataOK
    <2> QED
        BY <1>1, <1>u, <2>1, <2>2, PcsAndPhases, QuietGoes
<1>3. CASE file.phase \notin ResumedOnStart
    <2>1. Goes(Boot, "done")
        BY <1>3 DEF BootReads
    <2>2. /\ task'[Boot].pc = "done" /\ task'[Boot].op = task[Boot].op
          /\ task'[Boot].own = task[Boot].own /\ task'[Boot].swap = task[Boot].swap
          /\ task'[Boot].phase = task[Boot].phase
          => ControlOK(Boot)' /\ (DataInv => DataOK(Boot)')
        BY <1>1, <1>u DEF ControlOK, DataOK
    <2> QED
        BY <1>1, <1>u, <2>1, <2>2, PcsAndPhases, QuietGoes
<1> QED
    BY <1>2, <1>3

(***************************************************************************)
(* The invariant holds                                                     *)
(***************************************************************************)
LEMMA InitIInv == Init => IInv
<1> SUFFICES ASSUME Init PROVE IInv
    OBVIOUS
<1>1. \A h \in Handlers : ~Active(h)
    BY IdleIsTask DEF Init, Active
<1>2. TypeOK
    <2>1. swaps \in 0..MaxSwaps /\ faults \in 0..MaxFaults
        BY RestoreAssumption DEF Init
    <2>2. task \in [Handlers -> Tasks]
        BY IdleIsTask DEF Init
    <2>3. /\ live \in Contents /\ owner \in Data
          /\ staged \in [Swaps -> Contents] /\ pre \in [Swaps -> Contents]
        BY Names DEF Init
    <2> QED
        BY <2>1, <2>2, <2>3 DEF Init, TypeOK
<1>3. OneRuns
    BY <1>1 DEF OneRuns, Active, Handlers
<1>4. \A h \in Handlers : ControlOK(h) /\ DataOK(h)
    BY <1>1, RestsOK
<1>5. LockedInv
    BY <1>1 DEF Init, LockedInv
<1>6. FileInv
    BY WithoutFile, Names DEF Init, Decidable
<1> QED
    BY <1>2, <1>3, <1>4, <1>5, <1>6 DEF IInv, ControlInv, DataInv

LEMMA StepIInv ==
    ASSUME OneRequest, IInv, [Next]_vars
    PROVE  IInv'
<1>0. Requests \subseteq Handlers
    BY DEF Handlers
<1>1. ASSUME NEW h \in Requests, Execute(h) PROVE IInv'
    BY <1>0, <1>1, ExecuteStartsStep, ExecuteChecksStep, StageDatabaseStep,
       RestoreDumpStep, BeginStep, CleanupStep DEF Execute
<1>2. ASSUME NEW h \in Requests, RollbackStarts(h) PROVE IInv'
    BY <1>2, RollbackStartsStep
<1>3. ASSUME NEW h \in Requests, Accept(h) PROVE IInv'
    BY <1>0, <1>3, AcceptStartsStep, AcceptAuditStep, DropDiscardedStep, ClearStateStep
    DEF Accept
<1>4. ASSUME NEW h \in Requests, End(h) PROVE IInv'
    BY <1>0, <1>4, EndStartsStep, EndChecksStep, EndOpensStep DEF End
<1>5. ASSUME NEW h \in Handlers, Coordinate(h) PROVE IInv'
    BY <1>5, WriteStateStep, ResumeStep, ListForwardStep, RenameLiveToPreStep,
       RenameStagedToLiveStep, ListRollbackStep, RenameLiveToStagedStep,
       RenamePreToLiveStep, WriteAuditOnceStep, MarkCompletedStep, DoneStep
    DEF Coordinate
<1>6. ASSUME NEW h \in Handlers, Fails(h) PROVE IInv'
    BY <1>6, FailsStep
<1>7. CASE Crash
    <2>1. faults' \in 0..MaxFaults
        BY <1>7, RestoreAssumption, ProcTypes DEF Crash
    <2> QED
        BY <1>7, <2>1, ProcessDiesStep DEF Crash
<1>8. CASE ScheduledExit
    BY <1>8, ProcTypes, ProcessDiesStep DEF ScheduledExit
<1>9. CASE UNCHANGED vars
    <2>1. UNCHANGED <<live, staged, pre, file, maint, up, busy, exiting, task, swaps,
                      faults, owner>>
        BY <1>9 DEF vars, dbVars, procVars
    <2>2. TypeOK' /\ OneRuns' /\ LockedInv'
        BY <2>1 DEF IInv, TypeOK, OneRuns, LockedInv, Active
    <2>3. ControlInv'
        BY <2>1 DEF IInv, ControlInv, ControlOK, Knows, WritesNext
    <2>4. DataInv => DataInv'
        BY <2>1 DEF DataInv, DataOK, FileInv, BeforeSwap, BetweenSwap, AfterSwap, Accepted,
                    Migrated, AcceptedEmpty, Swapped, HasLive, HasStaged, HasPre
    <2> QED
        BY <2>2, <2>3, <2>4 DEF IInv
<1> QED
    BY <1>1, <1>2, <1>3, <1>4, <1>5, <1>6, <1>7, <1>8, <1>9, StartMaintenanceStep,
       TryAdvanceToLockedStep, StartProcessStep, BootReadsStep DEF Next, Request

(* IInv is an invariant as long as there is one request at a time.         *)
LEMMA Invariance == OneRequest => (Spec => []IInv)
<1>1. ASSUME OneRequest PROVE Spec => []IInv
    <2>1. Init => IInv
        BY InitIInv
    <2>2. IInv /\ [Next]_vars => IInv'
        BY <1>1, StepIInv
    <2> QED
        BY <2>1, <2>2, PTL DEF Spec
<1> QED
    BY <1>1

(***************************************************************************)
(* The theorems                                                            *)
(***************************************************************************)

(* Every variable of the restore keeps its type.                           *)
THEOREM TypeCorrect == OneRequest => (Spec => []TypeOK)
<1>1. IInv => TypeOK
    BY DEF IInv
<1> QED
    BY <1>1, Invariance, PTL

(* Whatever crashes, fails or is migrated automatically during the renames, *)
(* the festival's data are in the live database, the staged one or the      *)
(* database set aside, until an administrator accepts a restore.           *)
THEOREM DataKept == OneRequest => (Spec => []FestivalDataKept)
<1>1. IInv => FestivalDataKept
    <2> SUFFICES ASSUME IInv, owner = 0
                 PROVE  live = 0 \/ \E n \in Swaps : staged[n] = 0 \/ pre[n] = 0
        BY DEF FestivalDataKept
    <2>1. FileInv
        BY DEF IInv, DataInv
    <2>2. CASE file = NoFile
        BY <2>1, <2>2 DEF FileInv
    <2>3. CASE file # NoFile
        <3>1. file.swap \in Swaps /\ file.phase \in Phases
            BY <2>3, FileIsSwap
        <3>2. live = owner \/ pre[file.swap] = owner
            BY <2>1, <3>1
            DEF FileInv, BeforeSwap, BetweenSwap, AfterSwap, Accepted, Migrated, AcceptedEmpty,
                Phases, ForwardPhases, RollbackPhases
        <3> QED
            BY <3>1, <3>2
    <2> QED
        BY <2>2, <2>3
<1> QED
    BY <1>1, Invariance, PTL

(* The phase in the state file is at most one database command away from   *)
(* the databases, so that the coordinator recognises what a crash left; the *)
(* one layout it does not recognise is an automatic migration's.           *)
THEOREM PhaseFits == OneRequest => (Spec => []PhaseFitsLayout)
<1>1. IInv => PhaseFitsLayout
    <2> SUFFICES ASSUME IInv PROVE PhaseFitsLayout
        OBVIOUS
    <2>1. FileInv
        BY DEF IInv, DataInv
    <2>2. CASE file = NoFile
        BY <2>2, Names DEF PhaseFitsLayout
    <2>3. CASE file # NoFile
        <3>1. file.swap \in Swaps /\ file.swap # NoDb /\ owner # NoDb /\ Empty # NoDb
            BY <2>3, FileIsSwap, OwnerIsData
        <3>2. /\ BeforeSwap(file.swap) => Prepared(file.swap)
              /\ BetweenSwap(file.swap) => Between(file.swap)
              /\ AfterSwap(file.swap) => Swapped(file.swap)
              /\ Accepted(file.swap) => OnlyLive(file.swap)
              /\ Migrated(file.swap) => Overlaid(file.swap)
              /\ AcceptedEmpty(file.swap) => Prepared(file.swap) /\ owner = Empty
            BY <3>1
            DEF BeforeSwap, BetweenSwap, AfterSwap, Accepted, Migrated, AcceptedEmpty,
                Prepared, Between, Swapped, OnlyLive, Overlaid, HasLive, HasStaged, HasPre
        <3> QED
            BY <2>1, <3>2 DEF FileInv, PhaseFitsLayout
    <2> QED
        BY <2>2, <2>3
<1> QED
    BY <1>1, Invariance, PTL

(* The system, when it is open for orders, runs on the festival's data or   *)
(* on those that were live when a restore was accepted.                    *)
THEOREM OpensOnDecidedData == OneRequest => (Spec => []OpenOnDecidedData)
<1>1. IInv => OpenOnDecidedData
    <2> SUFFICES ASSUME IInv, maint = "OPEN" PROVE live = owner /\ live \in Decidable
        BY DEF OpenOnDecidedData
    <2>1. FileInv /\ file = NoFile
        BY DEF IInv, DataInv, LockedInv
    <2> QED
        BY <2>1 DEF FileInv
<1> QED
    BY <1>1, Invariance, PTL
============================================================================
