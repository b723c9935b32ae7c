----------------------------- MODULE PrintQueue -----------------------------
(***************************************************************************)
(* The print queue: PrintJob rows, the worker contract of the backend      *)
(* (claim, phase, heartbeat, status), the lease reaper, the administrator's *)
(* decisions, the maintenance guard in front of all of them, and the print *)
(* workers with their printers behind a network that loses, delays and     *)
(* repeats requests.                                                       *)
(*                                                                         *)
(* Time is abstracted to leaseLive: a lease may run out at any moment, a    *)
(* heartbeat makes it live again.  A lease stands for its leaseId; leases   *)
(* are numbered in the order claimNextJob issues them, so that every claim  *)
(* gets a fresh token.                                                     *)
(***************************************************************************)
EXTENDS Naturals, FiniteSets

CONSTANTS
    MaxJobs,          \* bound: PrintJob rows ever created
    MaxLease,         \* bound: claims ever granted
    MaxReprints,      \* bound: REPRINTED decisions per job
    MaxNet,           \* bound: requests under way at the same time
    Workers,          \* print-worker processes
    Printers,         \* Printer rows
    NoPrinter,        \* NULL in a printer column
    CupsPrinters,     \* printers of type CUPS_IPP
    ConsolePrinters,  \* printers of type CONSOLE
    Fallback,         \* Printer.fallbackPrinterId
    JobPrinters,      \* printers jobs are created for
    Switchable,       \* printers an administrator switches off and on
    MaintenancePlanned \* whether an administrator starts maintenance

Jobs   == 1..MaxJobs
Leases == 1..MaxLease

ASSUME BoundsAssumption ==
    /\ MaxJobs \in Nat /\ MaxLease \in Nat
    /\ MaxReprints \in Nat /\ MaxNet \in Nat

ASSUME PrintersAssumption ==
    /\ NoPrinter \notin Printers
    /\ CupsPrinters \subseteq Printers
    /\ ConsolePrinters \subseteq Printers \ CupsPrinters
    /\ JobPrinters \subseteq Printers /\ Switchable \subseteq Printers
    /\ Fallback \in [Printers -> Printers \union {NoPrinter}]
    /\ \A p \in Printers : Fallback[p] # p
    /\ MaintenancePlanned \in BOOLEAN

VARIABLES
    (* PrintJob rows *)
    status, phase, leaseId, leaseLive, printerId, activePrinterId,
    failoverCount,
    (* Printer rows: isActive, and the lease whose report last wrote lastOkAt
       or lastErrorAt (0: none) *)
    isActive, charged,
    (* one record per lease: job and printer handed out with the claim, the
       worker's verdict *)
    issued, leaseJob, leasePrinter, verdict,
    (* the worker processes: [pc, lease, held] *)
    worker,
    (* requests under way, NOT_PRINTED handlers between read and write, and
       the candidates the running reaper sweeps have read *)
    net, failing, sweep,
    (* maintenance phase *)
    maint,
    (* the physical world: documents in a CUPS spooler, documents of which
       bytes reached a printer *)
    spooled, onPaper,
    (* history: number of REPRINTED decisions, the decision a lease was
       granted DELIVERING under (0: never), NOT_PRINTED verdicts that were
       wrong *)
    reprints, epoch, misread

rowVars     == <<status, phase, leaseId, leaseLive, printerId,
                 activePrinterId, failoverCount>>
printerVars == <<isActive, charged>>
leaseVars   == <<issued, leaseJob, leasePrinter, verdict>>
netVars     == <<net, failing, sweep>>
paperVars   == <<spooled, onPaper>>
historyVars == <<reprints, epoch, misread>>

vars == <<rowVars, printerVars, leaseVars, worker, netVars, maint, paperVars,
          historyVars>>

(***************************************************************************)
(* Values                                                                  *)
(***************************************************************************)
Statuses == {"NONE", "PENDING", "PROCESSING", "PRINTED", "FAILED",
             "UNRESOLVED", "CANCELLED"}
Phases   == {"NULL", "CLAIMED", "DELIVERING", "SPOOLED"}
Terminal == {"PRINTED", "FAILED", "CANCELLED"}

(* FAILED_SETUP is NOT_PRINTED with one of the error codes that exclude a   *)
(* failover (PRINTER_CONFIGURATION, CUPS_QUEUE_NOT_FOUND, OUTPUT_FAILED).   *)
Verdicts   == {"NONE", "PRINTED", "NOT_PRINTED", "FAILED_SETUP", "UNCLEAR"}
NotPrinted == {"NOT_PRINTED", "FAILED_SETUP"}

(* confirming, spooling and reporting are the waits for an answer.          *)
Delivery   == {"delivering", "spooling", "watching"}
WorkerPcs  == {"idle", "claimed", "confirming", "report", "reporting"}
                 \union Delivery
IdleWorker == [pc |-> "idle", lease |-> 0, held |-> TRUE]

RequestKinds == {"DELIVERING", "SPOOLED", "HEARTBEAT", "STATUS"}
Requests     == [kind : RequestKinds, lease : Leases]
NotPrintedHandlers ==
    [lease : Leases, from : Printers, to : Printers \union {NoPrinter}]
Candidates   == [job : Jobs, phase : Phases]

RowType ==
    /\ status          \in [Jobs -> Statuses]
    /\ phase           \in [Jobs -> Phases]
    /\ leaseId         \in [Jobs -> 0..MaxLease]
    /\ leaseLive       \in [Jobs -> BOOLEAN]
    /\ printerId       \in [Jobs -> Printers \union {NoPrinter}]
    /\ activePrinterId \in [Jobs -> Printers \union {NoPrinter}]
    /\ failoverCount   \in [Jobs -> 0..1]

PrinterType ==
    /\ isActive \in [Printers -> BOOLEAN]
    /\ charged  \in [Printers -> 0..MaxLease]

LeaseType ==
    /\ issued       \in 0..MaxLease
    /\ leaseJob     \in [Leases -> 0..MaxJobs]
    /\ leasePrinter \in [Leases -> Printers \union {NoPrinter}]
    /\ verdict      \in [Leases -> Verdicts]

WorkerType ==
    worker \in [Workers -> [pc : WorkerPcs, lease : 0..MaxLease, held : BOOLEAN]]

NetType ==
    /\ net     \subseteq Requests
    /\ failing \subseteq NotPrintedHandlers
    /\ sweep   \subseteq Candidates
    /\ maint   \in {"OPEN", "DRAINING", "LOCKED"}

HistoryType ==
    /\ spooled \subseteq Leases
    /\ onPaper \subseteq Leases
    /\ reprints \in [Jobs -> 0..MaxReprints]
    /\ epoch    \in [Leases -> 0..(MaxReprints + 1)]
    /\ misread \subseteq Leases

(* Every column and every variable keeps its type; in particular a          *)
(* NOT_PRINTED handler always finds the printer it is about, and            *)
(* failoverCount never passes 1.                                           *)
TypeOK ==
    /\ RowType /\ PrinterType /\ LeaseType /\ WorkerType /\ NetType
    /\ HistoryType

Init ==
    /\ status          = [j \in Jobs |-> "NONE"]
    /\ phase           = [j \in Jobs |-> "NULL"]
    /\ leaseId         = [j \in Jobs |-> 0]
    /\ leaseLive       = [j \in Jobs |-> FALSE]
    /\ printerId       = [j \in Jobs |-> NoPrinter]
    /\ activePrinterId = [j \in Jobs |-> NoPrinter]
    /\ failoverCount   = [j \in Jobs |-> 0]
    /\ isActive        = [p \in Printers |-> TRUE]
    /\ charged         = [p \in Printers |-> 0]
    /\ issued          = 0
    /\ leaseJob        = [l \in Leases |-> 0]
    /\ leasePrinter    = [l \in Leases |-> NoPrinter]
    /\ verdict         = [l \in Leases |-> "NONE"]
    /\ worker          = [w \in Workers |-> IdleWorker]
    /\ net = {} /\ failing = {} /\ sweep = {}
    /\ maint = "OPEN"
    /\ spooled = {} /\ onPaper = {}
    /\ reprints = [j \in Jobs |-> 0]
    /\ epoch    = [l \in Leases |-> 0]
    /\ misread  = {}

(***************************************************************************)
(* Helpers                                                                 *)
(***************************************************************************)

(* MaintenanceGuard: the routes of the print queue that write are not      *)
(* marked public, so they pass only in OPEN.                               *)
Admitted == maint = "OPEN"

(* COALESCE(activePrinterId, printerId)                                    *)
ActivePrinterOf(j) ==
    IF activePrinterId[j] = NoPrinter THEN printerId[j] ELSE activePrinterId[j]

Request(k, l) == [kind |-> k, lease |-> l]

Send(k, l) ==
    /\ Cardinality(net) < MaxNet
    /\ net' = net \union {Request(k, l)}

(* The lease whose request a worker awaits the answer of.                  *)
Awaits(w, l, pc) == worker[w].lease = l /\ worker[w].pc = pc

(* The answer to a request reaches the worker that waits for it, which goes *)
(* on at pc - or it is lost on the way.                                    *)
Answer(l, waiting, next) ==
    \/ UNCHANGED worker
    \/ \E w \in Workers :
          /\ Awaits(w, l, waiting)
          /\ worker' = [worker EXCEPT ![w] =
                IF next = "idle" THEN IdleWorker
                ELSE [worker[w] EXCEPT !.pc = next]]

(***************************************************************************)
(* Backend: creating, claiming, confirming a phase, heartbeat              *)
(***************************************************************************)

(* A job is created for a printer; rows are numbered by createdAt.         *)
CreateJob(j, p) ==
    /\ Admitted
    /\ status[j] = "NONE"
    /\ \A i \in Jobs : i < j => status[i] # "NONE"
    /\ status'    = [status EXCEPT ![j] = "PENDING"]
    /\ printerId' = [printerId EXCEPT ![j] = p]
    /\ UNCHANGED <<phase, leaseId, leaseLive, activePrinterId, failoverCount,
                   printerVars, leaseVars, worker, netVars, maint, paperVars,
                   historyVars>>

Oldest(j) ==
    /\ status[j] = "PENDING"
    /\ \A i \in Jobs : status[i] = "PENDING" => j <= i

(* The claim statement; the caller says what becomes of its answer.        *)
ClaimNextJob(j) ==
    /\ Admitted
    /\ Oldest(j)
    /\ issued < MaxLease
    /\ issued'       = issued + 1
    /\ status'       = [status EXCEPT ![j] = "PROCESSING"]
    /\ phase'        = [phase EXCEPT ![j] = "CLAIMED"]
    /\ leaseId'      = [leaseId EXCEPT ![j] = issued + 1]
    /\ leaseLive'    = [leaseLive EXCEPT ![j] = TRUE]
    /\ leaseJob'     = [leaseJob EXCEPT ![issued + 1] = j]
    /\ leasePrinter' = [leasePrinter EXCEPT ![issued + 1] = ActivePrinterOf(j)]
    /\ UNCHANGED <<printerId, activePrinterId, failoverCount, printerVars,
                   verdict, netVars, maint, paperVars, historyVars>>

Claim(w, j) ==
    /\ worker[w].pc = "idle"
    /\ ClaimNextJob(j)
    /\ worker' = [worker EXCEPT ![w] = [pc |-> "claimed", lease |-> issued + 1,
                                        held |-> TRUE]]

(* The backend grants the claim and the answer never arrives: the worker   *)
(* sees "nothing to do", the job waits for the reaper.                      *)
ClaimAnswerLost(j) == ClaimNextJob(j) /\ UNCHANGED worker

(* Mutant: the fence looks at the lease alone.                             *)
Owns_LeaseOnly(l) == leaseId[leaseJob[l]] = l

(* The row is still this attempt's: the fence of every status write.       *)
Owns(l) ==
    /\ status[leaseJob[l]] = "PROCESSING"
    /\ leaseId[leaseJob[l]] = l

ExpectedFrom(k) == IF k = "DELIVERING" THEN "CLAIMED" ELSE "DELIVERING"

MayTransition(l, k) ==
    /\ Owns(l)
    /\ phase[leaseJob[l]] = ExpectedFrom(k)
    /\ leaseLive[leaseJob[l]]

WaitFor(k) == IF k = "DELIVERING" THEN "confirming" ELSE "spooling"

(* PATCH :id/phase.  A refusal (409) ends the attempt in the worker.       *)
TransitionPhase(l, k) ==
    LET j == leaseJob[l] IN
    /\ Admitted
    /\ k \in {"DELIVERING", "SPOOLED"}
    /\ Request(k, l) \in net
    /\ net' = net \ {Request(k, l)}
    /\ \/ /\ MayTransition(l, k)
          /\ phase' = [phase EXCEPT ![j] = k]
          /\ epoch' = IF k = "DELIVERING"
                      THEN [epoch EXCEPT ![l] = reprints[j] + 1] ELSE epoch
          /\ Answer(l, WaitFor(k),
                    IF k = "DELIVERING" THEN "delivering" ELSE "watching")
       \/ /\ ~MayTransition(l, k)
          /\ UNCHANGED <<phase, epoch>>
          /\ Answer(l, WaitFor(k), "idle")
    /\ UNCHANGED <<status, leaseId, leaseLive, printerId, activePrinterId,
                   failoverCount, printerVars, leaseVars, failing, sweep,
                   maint, paperVars, reprints, misread>>

(* POST :id/heartbeat.  There is no look at the expiry: a lease that ran    *)
(* out and was not reaped yet is live again.  409 clears held.             *)
Heartbeat(l) ==
    /\ Admitted
    /\ Request("HEARTBEAT", l) \in net
    /\ net' = net \ {Request("HEARTBEAT", l)}
    /\ \/ /\ Owns(l)
          /\ leaseLive' = [leaseLive EXCEPT ![leaseJob[l]] = TRUE]
          /\ UNCHANGED worker
       \/ /\ ~Owns(l)
          /\ UNCHANGED leaseLive
          /\ worker' = [w \in Workers |->
                IF worker[w].lease = l
                THEN [worker[w] EXCEPT !.held = FALSE] ELSE worker[w]]
    /\ UNCHANGED <<status, phase, leaseId, printerId, activePrinterId,
                   failoverCount, printerVars, leaseVars, failing, sweep,
                   maint, paperVars, historyVars>>

(***************************************************************************)
(* Backend: PATCH :id/status                                               *)
(***************************************************************************)

(* A status request is taken from the network; the worker's retry may have  *)
(* left a second copy under way.  Both a success and a 409 end the          *)
(* worker's report.                                                        *)
TakeStatus(l) ==
    /\ Admitted
    /\ Request("STATUS", l) \in net
    /\ net' \in {net, net \ {Request("STATUS", l)}}

(* The row leaves PROCESSING for s; leaseId and expiry stay as they are.    *)
Finalize(l, s) ==
    /\ status' = [status EXCEPT ![leaseJob[l]] = s]
    /\ phase'  = [phase EXCEPT ![leaseJob[l]] = "NULL"]

(* Mutant: the result is booked on the printer the job was created for.     *)
ChargedPrinter_Original(l) == printerId[leaseJob[l]]

ChargedPrinter(l) == ActivePrinterOf(leaseJob[l])

FinalizeAsPrinted(l) ==
    /\ TakeStatus(l)
    /\ verdict[l] = "PRINTED"
    /\ \/ /\ Owns(l)
          /\ Finalize(l, "PRINTED")
          /\ charged' = [charged EXCEPT ![ChargedPrinter(l)] = l]
       \/ /\ ~Owns(l)
          /\ UNCHANGED <<status, phase, charged>>
    /\ Answer(l, "reporting", "idle")
    /\ UNCHANGED <<leaseId, leaseLive, printerId, activePrinterId,
                   failoverCount, isActive, leaseVars, failing, sweep, maint,
                   paperVars, historyVars>>

FinalizeAsUnresolved(l) ==
    /\ TakeStatus(l)
    /\ verdict[l] = "UNCLEAR"
    /\ \/ Owns(l) /\ Finalize(l, "UNRESOLVED")
       \/ ~Owns(l) /\ UNCHANGED <<status, phase>>
    /\ Answer(l, "reporting", "idle")
    /\ UNCHANGED <<leaseId, leaseLive, printerId, activePrinterId,
                   failoverCount, printerVars, leaseVars, failing, sweep,
                   maint, paperVars, historyVars>>

(* The failover target finalizeNotPrinted finds, outside any transaction.  *)
FailoverTarget(l) ==
    LET j   == leaseJob[l]
        cur == ActivePrinterOf(j)
    IN IF /\ failoverCount[j] = 0
          /\ verdict[l] # "FAILED_SETUP"
          /\ cur \notin ConsolePrinters
          /\ Fallback[cur] # NoPrinter
          /\ isActive[Fallback[cur]]
       THEN Fallback[cur] ELSE NoPrinter

(* finalizeNotPrinted, first half: read the row and the fallback printer.  *)
ReadNotPrinted(l) ==
    /\ TakeStatus(l)
    /\ verdict[l] \in NotPrinted
    /\ failing' = failing \union
          {[lease |-> l, from |-> ActivePrinterOf(leaseJob[l]),
            to |-> FailoverTarget(l)]}
    /\ UNCHANGED <<rowVars, printerVars, leaseVars, worker, sweep, maint,
                   paperVars, historyVars>>

(* The condition of the failover statement.                                *)
MayFailOver(l) == Owns(l) /\ failoverCount[leaseJob[l]] = 0

TryFailover(h) ==
    LET j == leaseJob[h.lease] IN
    /\ h \in failing
    /\ h.to # NoPrinter
    /\ failing' = failing \ {h}
    /\ \/ /\ MayFailOver(h.lease)
          /\ Finalize(h.lease, "PENDING")
          /\ activePrinterId' = [activePrinterId EXCEPT ![j] = h.to]
          /\ failoverCount'   = [failoverCount EXCEPT ![j] = 1]
          /\ leaseId'         = [leaseId EXCEPT ![j] = 0]
          /\ leaseLive'       = [leaseLive EXCEPT ![j] = FALSE]
          /\ charged'         = [charged EXCEPT ![h.from] = h.lease]
       \/ /\ ~MayFailOver(h.lease)
          /\ UNCHANGED <<status, phase, activePrinterId, failoverCount,
                         leaseId, leaseLive, charged>>
    /\ Answer(h.lease, "reporting", "idle")
    /\ UNCHANGED <<printerId, isActive, leaseVars, net, sweep, maint,
                   paperVars, historyVars>>

FinalizeAsFailed(h) ==
    /\ h \in failing
    /\ h.to = NoPrinter
    /\ failing' = failing \ {h}
    /\ \/ /\ Owns(h.lease)
          /\ Finalize(h.lease, "FAILED")
          /\ charged' = [charged EXCEPT ![ChargedPrinter(h.lease)] = h.lease]
       \/ /\ ~Owns(h.lease)
          /\ UNCHANGED <<status, phase, charged>>
    /\ Answer(h.lease, "reporting", "idle")
    /\ UNCHANGED <<leaseId, leaseLive, printerId, activePrinterId,
                   failoverCount, isActive, leaseVars, net, sweep, maint,
                   paperVars, historyVars>>

(***************************************************************************)
(* Backend: the reaper                                                     *)
(***************************************************************************)

(* Sixty seconds pass without a heartbeat.                                 *)
LeaseExpires(j) ==
    /\ status[j] = "PROCESSING"
    /\ leaseLive[j]
    /\ leaseLive' = [leaseLive EXCEPT ![j] = FALSE]
    /\ UNCHANGED <<status, phase, leaseId, printerId, activePrinterId,
                   failoverCount, printerVars, leaseVars, worker, netVars,
                   maint, paperVars, historyVars>>

ExpiredIn(phs) ==
    {c \in [job : Jobs, phase : phs] :
        /\ status[c.job] = "PROCESSING"
        /\ phase[c.job] = c.phase
        /\ ~leaseLive[c.job]}

(* One findMany of a sweep.  Sweeps are started by a timer that does not    *)
(* wait for the one before, so candidates of several may be pending.        *)
SweepReads(phs) ==
    /\ ~(ExpiredIn(phs) \subseteq sweep)
    /\ sweep' = sweep \union ExpiredIn(phs)
    /\ UNCHANGED <<rowVars, printerVars, leaseVars, worker, net, failing,
                   maint, paperVars, historyVars>>

SweepClaimed == maint # "LOCKED" /\ SweepReads({"CLAIMED"})

(* Mutant: the reaper forgets spooled jobs.                                *)
SweepDelivering_NotSpooled == SweepReads({"DELIVERING"})

(* The maintenance phase was read when the sweep began, before the writes   *)
(* of requeueClaimedExpired, and may be LOCKED by now.                      *)
SweepDelivering == SweepReads({"DELIVERING", "SPOOLED"})

(* Mutant: the reaper's write does not look at the phase again.            *)
StillIn_StatusOnly(c) == status[c.job] = "PROCESSING"

(* The reaper's writes are conditional on status and phase alone.          *)
StillIn(c) == status[c.job] = "PROCESSING" /\ phase[c.job] = c.phase

(* A candidate is written; an overlapping sweep may have read it as well   *)
(* and write it later.                                                     *)
TakeCandidate(c) ==
    /\ c \in sweep
    /\ sweep' \in {sweep, sweep \ {c}}

RequeueClaimedExpired(c) ==
    /\ TakeCandidate(c)
    /\ c.phase = "CLAIMED"
    /\ \/ /\ StillIn(c)
          /\ status'    = [status EXCEPT ![c.job] = "PENDING"]
          /\ phase'     = [phase EXCEPT ![c.job] = "NULL"]
          /\ leaseId'   = [leaseId EXCEPT ![c.job] = 0]
          /\ leaseLive' = [leaseLive EXCEPT ![c.job] = FALSE]
       \/ /\ ~StillIn(c)
          /\ UNCHANGED <<status, phase, leaseId, leaseLive>>
    /\ UNCHANGED <<printerId, activePrinterId, failoverCount, printerVars,
                   leaseVars, worker, net, failing, maint, paperVars,
                   historyVars>>

(* Mutant: an abandoned delivery is put back into the queue.               *)
UnresolveActiveExpired_Releases(c) ==
    /\ TakeCandidate(c)
    /\ c.phase \in {"DELIVERING", "SPOOLED"}
    /\ StillIn(c)
    /\ status' = [status EXCEPT ![c.job] = "PENDING"]
    /\ phase'  = [phase EXCEPT ![c.job] = "NULL"]
    /\ UNCHANGED <<leaseId, leaseLive, printerId, activePrinterId,
                   failoverCount, printerVars, leaseVars, worker, net,
                   failing, maint, paperVars, historyVars>>

UnresolveActiveExpired(c) ==
    /\ TakeCandidate(c)
    /\ c.phase \in {"DELIVERING", "SPOOLED"}
    /\ \/ /\ StillIn(c)
          /\ status' = [status EXCEPT ![c.job] = "UNRESOLVED"]
          /\ phase'  = [phase EXCEPT ![c.job] = "NULL"]
       \/ /\ ~StillIn(c)
          /\ UNCHANGED <<status, phase>>
    /\ UNCHANGED <<leaseId, leaseLive, printerId, activePrinterId,
                   failoverCount, printerVars, leaseVars, worker, net,
                   failing, maint, paperVars, historyVars>>

(***************************************************************************)
(* Administration                                                          *)
(***************************************************************************)
ResolveReprinted(j, target) ==
    /\ Admitted
    /\ status[j] = "UNRESOLVED"
    /\ target # NoPrinter => isActive[target]
    /\ reprints[j] < MaxReprints
    /\ status'   = [status EXCEPT ![j] = "PENDING"]
    /\ reprints' = [reprints EXCEPT ![j] = @ + 1]
    /\ activePrinterId' = IF target = NoPrinter THEN activePrinterId
                          ELSE [activePrinterId EXCEPT ![j] = target]
    /\ UNCHANGED <<phase, leaseId, leaseLive, printerId, failoverCount,
                   printerVars, leaseVars, worker, netVars, maint, paperVars,
                   epoch, misread>>

(* CONFIRMED_PRINTED and DISCARDED                                         *)
ResolveFinally(j, s) ==
    /\ Admitted
    /\ status[j] = "UNRESOLVED"
    /\ s \in {"PRINTED", "CANCELLED"}
    /\ status' = [status EXCEPT ![j] = s]
    /\ UNCHANGED <<phase, leaseId, leaseLive, printerId, activePrinterId,
                   failoverCount, printerVars, leaseVars, worker, netVars,
                   maint, paperVars, historyVars>>

(* updatePrinter: a printer is taken out of service or put back.           *)
SetPrinterActive(p) ==
    /\ Admitted
    /\ isActive' = [isActive EXCEPT ![p] = ~@]
    /\ UNCHANGED <<rowVars, charged, leaseVars, worker, netVars, maint,
                   paperVars, historyVars>>

(***************************************************************************)
(* Maintenance                                                             *)
(***************************************************************************)
StartMaintenance ==
    /\ MaintenancePlanned
    /\ maint = "OPEN"
    /\ maint' = "DRAINING"
    /\ UNCHANGED <<rowVars, printerVars, leaseVars, worker, netVars,
                   paperVars, historyVars>>

(* Mutant: jobs a worker is sending do not hold the lock back.             *)
NoBlockingPrintJobs_OnlySpooled == \A j \in Jobs : phase[j] # "SPOOLED"

NoBlockingPrintJobs == \A j \in Jobs : phase[j] \notin {"DELIVERING", "SPOOLED"}

TryAdvanceToLocked ==
    /\ maint = "DRAINING"
    /\ NoBlockingPrintJobs
    /\ maint' = "LOCKED"
    /\ UNCHANGED <<rowVars, printerVars, leaseVars, worker, netVars,
                   paperVars, historyVars>>

EndMaintenance ==
    /\ maint # "OPEN"
    /\ maint' = "OPEN"
    /\ UNCHANGED <<rowVars, printerVars, leaseVars, worker, netVars,
                   paperVars, historyVars>>

(***************************************************************************)
(* The print worker                                                        *)
(***************************************************************************)
PrinterOf(w) == leasePrinter[worker[w].lease]
LeaseOf(w)   == worker[w].lease

WorkerGoes(w, pc) == worker' = [worker EXCEPT ![w].pc = pc]
Stops(w)          == worker' = [worker EXCEPT ![w] = IdleWorker]

(* The delivery ends with verdict v, which is then reported.               *)
Concludes(w, v) ==
    /\ verdict' = [verdict EXCEPT ![LeaseOf(w)] = v]
    /\ WorkerGoes(w, "report")

(* resolveTarget fails: NOT_PRINTED is reported while the row is CLAIMED.   *)
ConfigurationInvalid(w) ==
    /\ worker[w].pc = "claimed"
    /\ Concludes(w, "FAILED_SETUP")
    /\ UNCHANGED <<rowVars, printerVars, issued, leaseJob, leasePrinter,
                   netVars, maint, paperVars, historyVars>>

ConfirmDelivering(w) ==
    /\ worker[w].pc = "claimed"
    /\ WorkerGoes(w, "confirming")
    /\ Send("DELIVERING", LeaseOf(w))
    /\ UNCHANGED <<rowVars, printerVars, leaseVars, failing, sweep, maint,
                   paperVars, historyVars>>

(* TCP and simulator: the document goes out.                               *)
SendBytes(w) ==
    /\ worker[w].pc = "delivering"
    /\ PrinterOf(w) \notin CupsPrinters
    /\ LeaseOf(w) \notin onPaper
    /\ onPaper' = onPaper \union {LeaseOf(w)}
    /\ UNCHANGED <<rowVars, printerVars, leaseVars, worker, netVars, maint,
                   spooled, historyVars>>

(* TCP and simulator: the verdict.  bytesWritten = 0 is a proof, anything   *)
(* else short of a clean end is UNCLEAR.                                   *)
DirectVerdict(w, v) ==
    /\ worker[w].pc = "delivering"
    /\ PrinterOf(w) \notin CupsPrinters
    /\ v \in Verdicts \ {"NONE"}
    /\ v = "PRINTED" => LeaseOf(w) \in onPaper
    /\ v \in NotPrinted => LeaseOf(w) \notin onPaper
    /\ Concludes(w, v)
    /\ UNCHANGED <<rowVars, printerVars, issued, leaseJob, leasePrinter,
                   netVars, maint, paperVars, historyVars>>

(* CUPS: Print-Job is refused or the spooler is not there.                 *)
CupsRefuses(w, v) ==
    /\ worker[w].pc = "delivering"
    /\ PrinterOf(w) \in CupsPrinters
    /\ v \in NotPrinted
    /\ Concludes(w, v)
    /\ UNCHANGED <<rowVars, printerVars, issued, leaseJob, leasePrinter,
                   netVars, maint, paperVars, historyVars>>

(* CUPS: the document is spooled; SPOOLED must be confirmed.               *)
CupsAccepts(w) ==
    /\ worker[w].pc = "delivering"
    /\ PrinterOf(w) \in CupsPrinters
    /\ spooled' = spooled \union {LeaseOf(w)}
    /\ WorkerGoes(w, "spooling")
    /\ Send("SPOOLED", LeaseOf(w))
    /\ UNCHANGED <<rowVars, printerVars, leaseVars, failing, sweep, maint,
                   onPaper, historyVars>>

(* CUPS: the answer to Print-Job is lost; the document may be spooled.     *)
CupsAnswerLost(w) ==
    /\ worker[w].pc = "delivering"
    /\ PrinterOf(w) \in CupsPrinters
    /\ spooled' \in {spooled, spooled \union {LeaseOf(w)}}
    /\ Concludes(w, "UNCLEAR")
    /\ UNCHANGED <<rowVars, printerVars, issued, leaseJob, leasePrinter,
                   netVars, maint, onPaper, historyVars>>

(* CUPS: the spooler prints, whether or not a worker is still watching.    *)
CupsPrints(l) ==
    /\ l \in spooled \ onPaper
    /\ onPaper' = onPaper \union {l}
    /\ UNCHANGED <<rowVars, printerVars, leaseVars, worker, netVars, maint,
                   spooled, historyVars>>

(* CUPS: polling ends.  NOT_PRINTED is a cancel after polls that never saw  *)
(* "processing"; the document may have reached the printer between them.    *)
CupsVerdict(w, v) ==
    LET l == LeaseOf(w) IN
    /\ worker[w].pc = "watching"
    /\ v \in {"PRINTED", "UNCLEAR", "NOT_PRINTED"}
    /\ v = "PRINTED" => l \in onPaper
    /\ Concludes(w, v)
    /\ spooled' = IF v = "NOT_PRINTED" THEN spooled \ {l} ELSE spooled
    /\ misread' = IF v = "NOT_PRINTED" THEN misread \union ({l} \intersect onPaper)
                  ELSE misread
    /\ UNCHANGED <<rowVars, printerVars, issued, leaseJob, leasePrinter,
                   netVars, maint, onPaper, reprints, epoch>>

(* The heartbeat timer runs from the confirmation of DELIVERING (epoch is   *)
(* set with it) until the attempt ends.                                    *)
BeatHeart(w) ==
    /\ worker[w].pc \in Delivery \union {"report", "reporting"}
    /\ worker[w].held
    /\ epoch[LeaseOf(w)] # 0
    /\ Request("HEARTBEAT", LeaseOf(w)) \notin net
    /\ Send("HEARTBEAT", LeaseOf(w))
    /\ UNCHANGED <<rowVars, printerVars, leaseVars, worker, failing, sweep,
                   maint, paperVars, historyVars>>

SendReport(w) ==
    /\ worker[w].pc = "report"
    /\ worker[w].held
    /\ WorkerGoes(w, "reporting")
    /\ Send("STATUS", LeaseOf(w))
    /\ UNCHANGED <<rowVars, printerVars, leaseVars, failing, sweep, maint,
                   paperVars, historyVars>>

GiveUpReport(w) ==
    /\ worker[w].pc = "report"
    /\ ~worker[w].held
    /\ Stops(w)
    /\ UNCHANGED <<rowVars, printerVars, leaseVars, netVars, maint, paperVars,
                   historyVars>>

(* A request fails without an answer from its handler: connection lost,    *)
(* time-out, or 503 in maintenance.  It may still be executed later.       *)
RequestFails(w) ==
    /\ \/ worker[w].pc = "confirming" /\ Stops(w) /\ UNCHANGED verdict
       \/ worker[w].pc = "spooling" /\ Concludes(w, "UNCLEAR")
       \/ /\ worker[w].pc = "reporting"
          /\ WorkerGoes(w, "report")
          /\ UNCHANGED verdict
    /\ UNCHANGED <<rowVars, printerVars, issued, leaseJob, leasePrinter,
                   netVars, maint, paperVars, historyVars>>

WorkerCrashes(w) ==
    /\ worker[w].pc # "idle"
    /\ Stops(w)
    /\ UNCHANGED <<rowVars, printerVars, leaseVars, netVars, maint, paperVars,
                   historyVars>>

(***************************************************************************)
(* Network and backend process                                             *)
(***************************************************************************)
RequestLost(m) ==
    /\ m \in net
    /\ net' = net \ {m}
    /\ UNCHANGED <<rowVars, printerVars, leaseVars, worker, failing, sweep,
                   maint, paperVars, historyVars>>

BackendRestarts ==
    /\ failing # {} \/ sweep # {}
    /\ failing' = {} /\ sweep' = {}
    /\ UNCHANGED <<rowVars, printerVars, leaseVars, worker, net, maint,
                   paperVars, historyVars>>

(***************************************************************************)
(* Specification                                                           *)
(***************************************************************************)
Backend ==
    \/ \E j \in Jobs, p \in JobPrinters : CreateJob(j, p)
    \/ \E j \in Jobs : ClaimAnswerLost(j)
    \/ \E l \in Leases, k \in RequestKinds : TransitionPhase(l, k)
    \/ \E l \in Leases : Heartbeat(l)
    \/ \E l \in Leases : FinalizeAsPrinted(l)
    \/ \E l \in Leases : FinalizeAsUnresolved(l)
    \/ \E l \in Leases : ReadNotPrinted(l)
    \/ \E h \in failing : TryFailover(h)
    \/ \E h \in failing : FinalizeAsFailed(h)
    \/ BackendRestarts

Reaper ==
    \/ SweepClaimed
    \/ SweepDelivering
    \/ \E c \in sweep : RequeueClaimedExpired(c)
    \/ \E c \in sweep : UnresolveActiveExpired(c)

Administrator ==
    \/ \E j \in Jobs, t \in Printers \union {NoPrinter} : ResolveReprinted(j, t)
    \/ \E j \in Jobs, s \in Terminal : ResolveFinally(j, s)
    \/ \E p \in Switchable : SetPrinterActive(p)
    \/ StartMaintenance
    \/ TryAdvanceToLocked
    \/ EndMaintenance

WorkerStep(w) ==
    \/ \E j \in Jobs : Claim(w, j)
    \/ ConfigurationInvalid(w)
    \/ ConfirmDelivering(w)
    \/ SendBytes(w)
    \/ \E v \in Verdicts : DirectVerdict(w, v)
    \/ \E v \in Verdicts : CupsRefuses(w, v)
    \/ CupsAccepts(w)
    \/ CupsAnswerLost(w)
    \/ \E v \in Verdicts : CupsVerdict(w, v)
    \/ BeatHeart(w)
    \/ SendReport(w)
    \/ GiveUpReport(w)
    \/ RequestFails(w)
    \/ WorkerCrashes(w)

Environment ==
    \/ \E j \in Jobs : LeaseExpires(j)
    \/ \E l \in Leases : CupsPrints(l)
    \/ \E m \in net : RequestLost(m)

Next ==
    \/ Backend
    \/ Reaper
    \/ Administrator
    \/ \E w \in Workers : WorkerStep(w)
    \/ Environment

Spec == Init /\ [][Next]_vars

(* Fairness of a deployment whose outages end: leases run out, the reaper's *)
(* timer fires, a worker's adapter and report loop go on, and a request     *)
(* that is repeated for ever is eventually handled.  Sending is strongly    *)
(* fair because only the bound MaxNet, which the code does not have, ever   *)
(* disables it.  Neither the administrator nor the creation of jobs is fair. *)
WorkerGoesOn(w) ==
    \/ ConfigurationInvalid(w) \/ ConfirmDelivering(w)
    \/ \E v \in Verdicts : DirectVerdict(w, v)
    \/ CupsAccepts(w) \/ CupsAnswerLost(w)
    \/ \E v \in Verdicts : CupsRefuses(w, v) \/ CupsVerdict(w, v)
    \/ SendReport(w) \/ GiveUpReport(w) \/ RequestFails(w)

Fairness ==
    /\ \A j \in Jobs : WF_vars(LeaseExpires(j))
    /\ WF_vars(SweepClaimed) /\ WF_vars(SweepDelivering)
    /\ SF_vars(\E c \in sweep : \/ RequeueClaimedExpired(c)
                               \/ UnresolveActiveExpired(c))
    /\ SF_vars(\E l \in Leases : \/ FinalizeAsPrinted(l)
                                \/ FinalizeAsUnresolved(l)
                                \/ ReadNotPrinted(l))
    /\ SF_vars(\E h \in failing : TryFailover(h) \/ FinalizeAsFailed(h))
    /\ \A w \in Workers : SF_vars(WorkerGoesOn(w))

FairSpec == Spec /\ Fairness

(***************************************************************************)
(* Properties                                                              *)
(***************************************************************************)

(* Two attempts at the same job under the same decision: no administrator   *)
(* asked for a reprint between the two confirmations of DELIVERING.         *)
SameDecision(l1, l2) ==
    /\ leaseJob[l1] = leaseJob[l2]
    /\ epoch[l1] = epoch[l2]

(* The safeguard against double prints that the confirmation of DELIVERING  *)
(* is there for: whatever requests are lost, late or repeated and whichever *)
(* process dies, between two decisions of an administrator at most one      *)
(* attempt at a job puts bytes on paper - unless CUPS let a document pass   *)
(* that the worker reported as NOT_PRINTED.                                 *)
OnePrintPerDecision ==
    \A l1, l2 \in onPaper :
        l1 # l2 /\ SameDecision(l1, l2) => l1 \in misread \/ l2 \in misread

(* The same promise without the exception.                                 *)
NoAutomaticDoublePrint ==
    \A l1, l2 \in onPaper : l1 # l2 => ~SameDecision(l1, l2)

(* The status never denies paper: once an attempt under the present         *)
(* decision has put bytes on paper, the row is neither waiting for another  *)
(* attempt nor claimed for one nor FAILED.                                  *)
StatusAdmitsPaper ==
    \A l \in onPaper \ misread :
        LET j == leaseJob[l] IN
        epoch[l] = reprints[j] + 1 =>
            /\ status[j] \notin {"PENDING", "FAILED"}
            /\ phase[j] # "CLAIMED"

(* lastOkAt and lastErrorAt are written to the printer that made the        *)
(* attempt the report is about, also after a failover or a reprint on       *)
(* another printer, and although finalizeNotPrinted read the printer        *)
(* before its transaction.                                                 *)
ChargesTheRightPrinter ==
    \A p \in Printers : charged[p] # 0 => leasePrinter[charged[p]] = p

(* Permission to deliver is given once, once more after the one failover,   *)
(* and once per reprint decision: no third automatic attempt.              *)
NoThirdAttempt ==
    \A j \in Jobs :
        Cardinality({l \in Leases : leaseJob[l] = j /\ epoch[l] # 0})
            <= 1 + failoverCount[j] + reprints[j]

(* No late report, repeated request or stale reaper candidate reopens a     *)
(* finished job, and none takes a job out of UNRESOLVED: that step leaves   *)
(* workers, requests and sweeps alone, it is an administrator's.           *)
OnlyADecisionLeavesUnresolved ==
    [][\A j \in Jobs :
          /\ status[j] \in Terminal => status'[j] = status[j]
          /\ status[j] = "UNRESOLVED" /\ status'[j] # "UNRESOLVED" =>
                UNCHANGED <<worker, netVars, paperVars>>]_vars

(* While LOCKED no row becomes UNRESOLVED or PRINTED, although a sweep or a *)
(* status handler that began earlier may still be running.                 *)
NoOutcomeWhileLocked ==
    [][maint = "LOCKED" =>
          \A j \in Jobs : status'[j] # status[j] =>
                              status'[j] \notin {"UNRESOLVED", "PRINTED"}]_vars

(* A claimed job does not stay PROCESSING for ever: it is reported, put     *)
(* back, or handed to the administrator.                                   *)
ProcessingEnds ==
    \A j \in Jobs : status[j] = "PROCESSING" ~> status[j] # "PROCESSING"

(* What the documentation says and the code does not do:                   *)

(* "ein Blatt Papier, das gerade entsteht, wird nicht mitten im Vorgang     *)
(* begraben" - LOCKED only when nothing is being delivered any more.        *)
LockedMeansNoDelivery ==
    maint = "LOCKED" => \A w \in Workers : worker[w].pc \notin Delivery

(* "DELIVERING/SPOOLED + Lease abgelaufen -> UNRESOLVED": the reaper only   *)
(* touches rows whose lease has expired.                                   *)
ReapsOnlyExpiredLeases ==
    [][\A c \in sweep :
          /\ RequeueClaimedExpired(c) \/ UnresolveActiveExpired(c)
          /\ status'[c.job] # status[c.job]
          => ~leaseLive[c.job]]_vars

(* "Ein Neustart des Workers mit offenem Auftrag ist unkritisch: Das        *)
(* Backend gibt Auftraege frei": a job no worker attends to any more goes   *)
(* back into the queue.                                                    *)
Abandoned(j) ==
    /\ status[j] = "PROCESSING"
    /\ \A w \in Workers : worker[w].lease # leaseId[j]
    /\ \A m \in net : m.lease # leaseId[j]
    /\ \A h \in failing : h.lease # leaseId[j]

AbandonedJobsAreReleased ==
    \A j \in Jobs : Abandoned(j) ~> status[j] = "PENDING"

=============================================================================
