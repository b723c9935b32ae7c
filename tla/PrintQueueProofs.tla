-------------------------- MODULE PrintQueueProofs --------------------------
(***************************************************************************)
(* Proofs about PrintQueue, for any number of jobs, leases, reprints,       *)
(* requests under way, workers and printers.                               *)
(***************************************************************************)
EXTENDS PrintQueue, FiniteSetTheorems, TLAPS

(***************************************************************************)
(* The inductive invariant                                                 *)
(***************************************************************************)

(* Leases are handed out once, and a row names only a lease of its own.     *)
LeaseInv ==
    /\ \A l \in Leases : l <= issued => leaseJob[l] \in Jobs
    /\ \A l \in Leases : l > issued => epoch[l] = 0 /\ verdict[l] = "NONE"
    /\ \A j \in Jobs : leaseId[j] <= issued
    /\ \A j \in Jobs : leaseId[j] # 0 => leaseJob[leaseId[j]] = j

(* Only a running row has a phase; a claimed row exists and has a printer. *)
RowInv ==
    /\ \A j \in Jobs : phase[j] # "NULL" => status[j] = "PROCESSING"
    /\ \A j \in Jobs : status[j] # "NONE" => printerId[j] \in Printers
    /\ \A l \in Leases : l <= issued => status[leaseJob[l]] # "NONE"

(* Requests are about issued leases, a NOT_PRINTED handler about a lease    *)
(* whose worker concluded NOT_PRINTED.                                     *)
RequestInv ==
    /\ \A m \in net : m.lease <= issued
    /\ \A h \in failing : h.lease <= issued /\ verdict[h.lease] \in NotPrinted

(* A lease is worked on by one worker at most.                             *)
WorkerInv ==
    /\ \A w \in Workers : worker[w].pc = "idle" => worker[w].lease = 0
    /\ \A w \in Workers :
          worker[w].pc # "idle" => worker[w].lease \in 1..issued
    /\ \A u, v \in Workers :
          u # v /\ worker[u].lease = worker[v].lease => worker[u].lease = 0

(* What a worker's place says about its document.                          *)
DocumentInv ==
    /\ \A l \in Leases : l \in onPaper \union spooled => epoch[l] # 0
    /\ \A l \in spooled \union misread : leasePrinter[l] \in CupsPrinters
    /\ misread \subseteq onPaper
    /\ \A w \in Workers :
          /\ worker[w].pc \in {"claimed", "confirming"} =>
                worker[w].lease \notin onPaper \union spooled
          /\ worker[w].pc \in Delivery => epoch[worker[w].lease] # 0
          /\ worker[w].pc \in {"spooling", "watching"} =>
                PrinterOf(w) \in CupsPrinters
          /\ worker[w].pc \in {"claimed", "confirming"} \union Delivery =>
                verdict[worker[w].lease] = "NONE"
          /\ worker[w].pc = "delivering" /\ PrinterOf(w) \in CupsPrinters =>
                worker[w].lease \notin onPaper \union spooled

(* NOT_PRINTED was concluded: whatever may still happen, nothing of this    *)
(* attempt comes out of a printer any more, unless it was misread.         *)
Disowned(l) == verdict[l] \in NotPrinted

DisownedInv ==
    \A l \in Leases : Disowned(l) => l \notin spooled /\ l \notin onPaper \ misread

(* An attempt was admitted under a decision already taken.                 *)
EpochInv ==
    \A l \in Leases : epoch[l] # 0 => epoch[l] <= reprints[leaseJob[l]] + 1

(* An attempt that may deliver under the present decision still holds its   *)
(* row, or the row has left the automatic path, or the attempt was disowned.*)
Current(l) == epoch[l] # 0 /\ epoch[l] = reprints[leaseJob[l]] + 1

Delivers(l) == Owns(l) /\ phase[leaseJob[l]] \in {"DELIVERING", "SPOOLED"}
Decided     == {"PRINTED", "UNRESOLVED", "CANCELLED"}

CurrentInv ==
    \A l \in Leases : Current(l) =>
        Delivers(l) \/ status[leaseJob[l]] \in Decided \/ Disowned(l)

(* Of two attempts under one decision one was disowned.                    *)
PairInv ==
    \A l1, l2 \in Leases :
        l1 # l2 /\ epoch[l1] # 0 /\ SameDecision(l1, l2)
            => Disowned(l1) \/ Disowned(l2)

(* The printer of a lease is the one its row names as long as the lease is  *)
(* the row's, also for the handlers that read it before their transaction.  *)
HolderInv ==
    /\ \A l \in Leases : l <= issued /\ Owns(l) =>
          leasePrinter[l] = ActivePrinterOf(leaseJob[l])
    /\ \A h \in failing : Owns(h.lease) => h.from = leasePrinter[h.lease]

(* ChargesTheRightPrinter, and printers are charged for issued leases only. *)
ChargedInv ==
    \A p \in Printers :
        /\ charged[p] <= issued
        /\ charged[p] # 0 => leasePrinter[charged[p]] = p

IInv ==
    /\ TypeOK /\ LeaseInv /\ RowInv /\ RequestInv /\ WorkerInv /\ DocumentInv
    /\ DisownedInv /\ EpochInv /\ CurrentInv /\ PairInv /\ HolderInv
    /\ ChargedInv

(***************************************************************************)
(* Type correctness                                                        *)
(***************************************************************************)

(* A variable that does not change keeps its type.                         *)
LEMMA FrameTypes ==
    ASSUME TypeOK
    PROVE  /\ UNCHANGED rowVars => RowType'
           /\ UNCHANGED printerVars => PrinterType'
           /\ UNCHANGED leaseVars => LeaseType'
           /\ UNCHANGED worker => WorkerType'
           /\ UNCHANGED <<netVars, maint>> => NetType'
           /\ UNCHANGED <<paperVars, historyVars>> => HistoryType'
<1> USE DEF TypeOK
<1>1. UNCHANGED rowVars => RowType'
    BY DEF RowType, rowVars
<1>2. UNCHANGED printerVars => PrinterType'
    BY DEF PrinterType, printerVars
<1>3. UNCHANGED leaseVars => LeaseType'
    BY DEF LeaseType, leaseVars
<1>4. UNCHANGED worker => WorkerType'
    BY DEF WorkerType
<1>5. UNCHANGED <<netVars, maint>> => NetType'
    BY DEF NetType, netVars
<1>6. UNCHANGED <<paperVars, historyVars>> => HistoryType'
    BY DEF HistoryType, paperVars, historyVars
<1> QED
    BY <1>1, <1>2, <1>3, <1>4, <1>5, <1>6

(* The values that clearing a lease and failing over write.                *)
LEMMA ZeroLease == 0 \in 0..MaxLease /\ 1 \in 0..1
BY BoundsAssumption

(* The state of a worker without a job.                                    *)
LEMMA IdleWorkerType ==
    IdleWorker \in [pc : WorkerPcs, lease : 0..MaxLease, held : BOOLEAN]
BY ZeroLease DEF IdleWorker, WorkerPcs

(* An answer leaves the workers well-typed.                                *)
LEMMA AnswerType ==
    ASSUME WorkerType, NEW l, NEW waiting, NEW next \in WorkerPcs,
           Answer(l, waiting, next)
    PROVE  WorkerType'
<1> DEFINE State == [pc : WorkerPcs, lease : 0..MaxLease, held : BOOLEAN]
<1>1. IdleWorker \in State
    BY IdleWorkerType
<1>2. ASSUME NEW w \in Workers PROVE [worker[w] EXCEPT !.pc = next] \in State
    BY DEF WorkerType
<1> HIDE DEF State
<1>3. worker \in [Workers -> State] => worker' \in [Workers -> State]
    BY <1>1, <1>2 DEF Answer
<1> QED
    BY <1>3 DEF WorkerType, State

(* So does a worker's own move.                                            *)
LEMMA GoesType ==
    ASSUME WorkerType, NEW w \in Workers, NEW pc \in WorkerPcs,
           WorkerGoes(w, pc) \/ Stops(w)
    PROVE  WorkerType'
<1>1. CASE Stops(w)
    BY <1>1, IdleWorkerType DEF Stops, WorkerType
<1>2. CASE WorkerGoes(w, pc)
    BY <1>2 DEF WorkerGoes, WorkerType
<1> QED
    BY <1>1, <1>2

(* And the conclusion of a delivery, which sets the verdict as well.       *)
LEMMA ConcludesType ==
    ASSUME WorkerType, LeaseType, NEW w \in Workers, NEW v \in Verdicts,
           Concludes(w, v), UNCHANGED <<issued, leaseJob, leasePrinter>>
    PROVE  WorkerType' /\ LeaseType'
<1>1. "report" \in WorkerPcs
    BY DEF WorkerPcs
<1>2. WorkerType'
    BY <1>1, GoesType DEF Concludes
<1>3. LeaseType'
    BY DEF Concludes, LeaseType
<1> QED
    BY <1>2, <1>3

(* Sending a request keeps the network well-typed.                         *)
LEMMA SendType ==
    ASSUME NEW k \in RequestKinds, NEW l \in Leases, Send(k, l),
           net \subseteq Requests
    PROVE  net' \subseteq Requests
BY DEF Send, Request, Requests

(* Leaving PROCESSING keeps the row well-typed.                            *)
LEMMA FinalizeType ==
    ASSUME RowType, NEW l, NEW s \in Statuses, Finalize(l, s)
    PROVE  /\ status' \in [Jobs -> Statuses]
           /\ phase' \in [Jobs -> Phases]
BY DEF RowType, Finalize, Phases

(* A worker that is not idle holds an issued lease.                        *)
LEMMA BusyLease ==
    ASSUME TypeOK, WorkerInv, NEW w \in Workers, worker[w].pc # "idle"
    PROVE  LeaseOf(w) \in Leases /\ LeaseOf(w) <= issued
BY BoundsAssumption DEF TypeOK, LeaseType, WorkerType, WorkerInv, LeaseOf, Leases

(* COALESCE(activePrinterId, printerId) is a printer or NULL.              *)
LEMMA ActivePrinterType ==
    ASSUME RowType, NEW j \in Jobs
    PROVE  ActivePrinterOf(j) \in Printers \union {NoPrinter}
BY DEF RowType, ActivePrinterOf

(* The claim statement, whoever receives its answer.                       *)
LEMMA ClaimType ==
    ASSUME TypeOK, NEW j \in Jobs, ClaimNextJob(j)
    PROVE  RowType' /\ LeaseType' /\ issued + 1 \in Leases
<1>1. issued + 1 \in Leases /\ issued + 1 \in 0..MaxLease
    BY BoundsAssumption DEF TypeOK, LeaseType, ClaimNextJob, Leases
<1>2. RowType'
    BY <1>1 DEF TypeOK, RowType, ClaimNextJob, Statuses, Phases
<1>3. j \in 0..MaxJobs
    BY BoundsAssumption DEF Jobs
<1>4. LeaseType'
    BY <1>1, <1>3, ActivePrinterType DEF TypeOK, LeaseType, ClaimNextJob
<1> QED
    BY <1>1, <1>2, <1>4

(* Every step keeps every type; the printer a NOT_PRINTED handler reads is *)
(* there because a claimed row has one.                                    *)
LEMMA TypeStep ==
    ASSUME IInv, Next
    PROVE  TypeOK'
<1> USE DEF IInv, TypeOK
<1>1. ASSUME NEW j \in Jobs, NEW p \in JobPrinters, CreateJob(j, p) PROVE TypeOK'
  <2>1. RowType'
    BY <1>1, PrintersAssumption DEF CreateJob, RowType, Statuses
  <2> QED
    BY <1>1, <2>1, FrameTypes DEF CreateJob
<1>2. ASSUME NEW j \in Jobs, ClaimAnswerLost(j) PROVE TypeOK'
  <2>1. RowType' /\ LeaseType'
    BY <1>2, ClaimType DEF ClaimAnswerLost
  <2> QED
    BY <1>2, <2>1, FrameTypes DEF ClaimAnswerLost, ClaimNextJob
<1>3. ASSUME NEW l \in Leases, NEW k \in RequestKinds, TransitionPhase(l, k) PROVE TypeOK'
  <2>1. RowType'
    BY <1>3 DEF TransitionPhase, RowType, Phases
  <2>2. WorkerType'
    BY <1>3, AnswerType DEF TransitionPhase, WorkerPcs, Delivery
  <2>3. NetType'
    BY <1>3 DEF TransitionPhase, NetType
  <2>4. leaseJob[l] \in Jobs
    BY <1>3 DEF TransitionPhase, Request, LeaseInv, RequestInv
  <2>5. reprints[leaseJob[l]] + 1 \in 0..(MaxReprints + 1)
    BY <2>4, BoundsAssumption DEF HistoryType
  <2>6. HistoryType'
    BY <1>3, <2>5 DEF TransitionPhase, HistoryType, paperVars
  <2> QED
    BY <1>3, <2>1, <2>2, <2>3, <2>6, FrameTypes DEF TransitionPhase
<1>4. ASSUME NEW l \in Leases, Heartbeat(l) PROVE TypeOK'
  <2>1. RowType'
    BY <1>4 DEF Heartbeat, RowType
  <2>2. WorkerType'
    BY <1>4 DEF Heartbeat, WorkerType
  <2>3. NetType'
    BY <1>4 DEF Heartbeat, NetType
  <2> QED
    BY <1>4, <2>1, <2>2, <2>3, FrameTypes DEF Heartbeat
<1>5. ASSUME NEW l \in Leases, FinalizeAsPrinted(l) PROVE TypeOK'
  <2>1. RowType'
    BY <1>5, FinalizeType DEF FinalizeAsPrinted, RowType, Statuses
  <2>2. PrinterType'
    BY <1>5, BoundsAssumption DEF FinalizeAsPrinted, PrinterType, Leases
  <2>3. WorkerType'
    BY <1>5, AnswerType DEF FinalizeAsPrinted, WorkerPcs, Delivery
  <2>4. NetType'
    BY <1>5 DEF FinalizeAsPrinted, NetType, TakeStatus
  <2> QED
    BY <1>5, <2>1, <2>2, <2>3, <2>4, FrameTypes DEF FinalizeAsPrinted
<1>6. ASSUME NEW l \in Leases, FinalizeAsUnresolved(l) PROVE TypeOK'
  <2>1. RowType'
    BY <1>6, FinalizeType DEF FinalizeAsUnresolved, RowType, Statuses
  <2>2. WorkerType'
    BY <1>6, AnswerType DEF FinalizeAsUnresolved, WorkerPcs, Delivery
  <2>3. NetType'
    BY <1>6 DEF FinalizeAsUnresolved, NetType, TakeStatus
  <2> QED
    BY <1>6, <2>1, <2>2, <2>3, FrameTypes DEF FinalizeAsUnresolved
<1>7. ASSUME NEW l \in Leases, ReadNotPrinted(l) PROVE TypeOK'
  <2>1. l <= issued /\ leaseJob[l] \in Jobs /\ status[leaseJob[l]] # "NONE"
    BY <1>7 DEF ReadNotPrinted, TakeStatus, Request, LeaseInv, RowInv, RequestInv
  <2>2. ActivePrinterOf(leaseJob[l]) \in Printers
    BY <2>1 DEF RowInv, RowType, ActivePrinterOf
  <2>3. FailoverTarget(l) \in Printers \union {NoPrinter}
    BY <2>2, PrintersAssumption DEF FailoverTarget
  <2>4. NetType'
    BY <1>7, <2>2, <2>3 DEF ReadNotPrinted, TakeStatus, NetType, NotPrintedHandlers
  <2> QED
    BY <1>7, <2>4, FrameTypes DEF ReadNotPrinted
<1>8. ASSUME NEW h \in failing, TryFailover(h) PROVE TypeOK'
  <2>0. h.to \in Printers \union {NoPrinter} /\ h.from \in Printers
        /\ h.lease \in Leases
    BY <1>8 DEF NetType, NotPrintedHandlers
  <2>1. RowType'
    <3>1. leaseLive' \in [Jobs -> BOOLEAN]
      BY <1>8 DEF TryFailover, RowType
    <3>2. /\ leaseId' \in [Jobs -> 0..MaxLease]
          /\ failoverCount' \in [Jobs -> 0..1]
      BY <1>8, ZeroLease DEF TryFailover, RowType
    <3>3. status' \in [Jobs -> Statuses] /\ phase' \in [Jobs -> Phases]
      BY <1>8, FinalizeType DEF TryFailover, RowType, Statuses
    <3>4. activePrinterId' \in [Jobs -> Printers \union {NoPrinter}]
      BY <1>8, <2>0 DEF TryFailover, RowType
    <3> QED
      BY <1>8, <3>1, <3>2, <3>3, <3>4 DEF TryFailover, RowType
  <2>2. PrinterType'
    BY <1>8, <2>0, BoundsAssumption DEF TryFailover, PrinterType, Leases
  <2>3. WorkerType'
    BY <1>8, AnswerType DEF TryFailover, WorkerPcs
  <2>4. NetType'
    BY <1>8 DEF TryFailover, NetType
  <2> QED
    BY <1>8, <2>1, <2>2, <2>3, <2>4, FrameTypes DEF TryFailover
<1>9. ASSUME NEW h \in failing, FinalizeAsFailed(h) PROVE TypeOK'
  <2>1. RowType'
    BY <1>9, FinalizeType DEF FinalizeAsFailed, RowType, Statuses
  <2>2. PrinterType'
    BY <1>9, BoundsAssumption DEF FinalizeAsFailed, PrinterType, NetType, NotPrintedHandlers, Leases
  <2>3. WorkerType'
    BY <1>9, AnswerType DEF FinalizeAsFailed, WorkerPcs, Delivery
  <2>4. NetType'
    BY <1>9 DEF FinalizeAsFailed, NetType
  <2> QED
    BY <1>9, <2>1, <2>2, <2>3, <2>4, FrameTypes DEF FinalizeAsFailed
<1>10. ASSUME BackendRestarts PROVE TypeOK'
  <2>1. NetType'
    BY <1>10 DEF BackendRestarts, NetType
  <2> QED
    BY <1>10, <2>1, FrameTypes DEF BackendRestarts
<1>11. ASSUME SweepClaimed PROVE TypeOK'
  <2>1. NetType'
    BY <1>11 DEF SweepClaimed, NetType, SweepReads, ExpiredIn, Candidates, Phases
  <2> QED
    BY <1>11, <2>1, FrameTypes DEF SweepClaimed, SweepReads
<1>12. ASSUME SweepDelivering PROVE TypeOK'
  <2>1. NetType'
    BY <1>12 DEF SweepDelivering, NetType, SweepReads, ExpiredIn, Candidates, Phases
  <2> QED
    BY <1>12, <2>1, FrameTypes DEF SweepDelivering, SweepReads
<1>13. ASSUME NEW c \in sweep, RequeueClaimedExpired(c) PROVE TypeOK'
  <2>1. RowType'
    <3>1. leaseLive' \in [Jobs -> BOOLEAN]
      BY <1>13 DEF RequeueClaimedExpired, RowType
    <3>2. leaseId' \in [Jobs -> 0..MaxLease]
      BY <1>13, ZeroLease DEF RequeueClaimedExpired, RowType
    <3>3. status' \in [Jobs -> Statuses] /\ phase' \in [Jobs -> Phases]
      BY <1>13 DEF RequeueClaimedExpired, RowType, Statuses, Phases
    <3> QED
      BY <1>13, <3>1, <3>2, <3>3 DEF RequeueClaimedExpired, RowType
  <2>2. NetType'
    BY <1>13 DEF RequeueClaimedExpired, TakeCandidate, NetType
  <2> QED
    BY <1>13, <2>1, <2>2, FrameTypes DEF RequeueClaimedExpired
<1>14. ASSUME NEW c \in sweep, UnresolveActiveExpired(c) PROVE TypeOK'
  <2>1. RowType'
    BY <1>14 DEF UnresolveActiveExpired, RowType, Statuses, Phases
  <2>2. NetType'
    BY <1>14 DEF UnresolveActiveExpired, TakeCandidate, NetType
  <2> QED
    BY <1>14, <2>1, <2>2, FrameTypes DEF UnresolveActiveExpired
<1>15. ASSUME NEW j \in Jobs, NEW t \in Printers \union {NoPrinter}, ResolveReprinted(j, t) PROVE TypeOK'
  <2>1. RowType'
    BY <1>15 DEF ResolveReprinted, RowType, Statuses
  <2>2. HistoryType'
    BY <1>15, BoundsAssumption DEF ResolveReprinted, HistoryType, paperVars
  <2> QED
    BY <1>15, <2>1, <2>2, FrameTypes DEF ResolveReprinted
<1>16. ASSUME NEW j \in Jobs, NEW s \in Terminal, ResolveFinally(j, s) PROVE TypeOK'
  <2>1. RowType'
    BY <1>16 DEF ResolveFinally, RowType, Statuses
  <2> QED
    BY <1>16, <2>1, FrameTypes DEF ResolveFinally
<1>17. ASSUME NEW p \in Switchable, SetPrinterActive(p) PROVE TypeOK'
  <2>1. PrinterType'
    BY <1>17 DEF SetPrinterActive, PrinterType
  <2> QED
    BY <1>17, <2>1, FrameTypes DEF SetPrinterActive
<1>18. ASSUME StartMaintenance PROVE TypeOK'
  <2>1. NetType'
    BY <1>18 DEF StartMaintenance, NetType, netVars
  <2> QED
    BY <1>18, <2>1, FrameTypes DEF StartMaintenance
<1>19. ASSUME TryAdvanceToLocked PROVE TypeOK'
  <2>1. NetType'
    BY <1>19 DEF TryAdvanceToLocked, NetType, netVars
  <2> QED
    BY <1>19, <2>1, FrameTypes DEF TryAdvanceToLocked
<1>20. ASSUME EndMaintenance PROVE TypeOK'
  <2>1. NetType'
    BY <1>20 DEF EndMaintenance, NetType, netVars
  <2> QED
    BY <1>20, <2>1, FrameTypes DEF EndMaintenance
<1>21. ASSUME NEW w \in Workers, NEW j \in Jobs, Claim(w, j) PROVE TypeOK'
  <2>1. RowType' /\ LeaseType'
    BY <1>21, ClaimType DEF Claim
  <2>2. WorkerType'
    BY <1>21, ClaimType, BoundsAssumption DEF Claim, WorkerType, WorkerPcs, Leases
  <2> QED
    BY <1>21, <2>1, <2>2, FrameTypes DEF Claim, ClaimNextJob
<1>22. ASSUME NEW w \in Workers, ConfigurationInvalid(w) PROVE TypeOK'
  <2>1. WorkerType' /\ LeaseType'
    BY <1>22, ConcludesType DEF ConfigurationInvalid, Verdicts
  <2> QED
    BY <1>22, <2>1, FrameTypes DEF ConfigurationInvalid
<1>23. ASSUME NEW w \in Workers, ConfirmDelivering(w) PROVE TypeOK'
  <2>1. WorkerType'
    BY <1>23, GoesType DEF ConfirmDelivering, WorkerPcs
  <2>2. NetType'
    BY <1>23, BusyLease, SendType DEF ConfirmDelivering, NetType, RequestKinds
  <2> QED
    BY <1>23, <2>1, <2>2, FrameTypes DEF ConfirmDelivering
<1>24. ASSUME NEW w \in Workers, SendBytes(w) PROVE TypeOK'
  <2>1. HistoryType'
    BY <1>24, BusyLease DEF SendBytes, HistoryType, historyVars, paperVars
  <2> QED
    BY <1>24, <2>1, FrameTypes DEF SendBytes
<1>25. ASSUME NEW w \in Workers, NEW v \in Verdicts, DirectVerdict(w, v) PROVE TypeOK'
  <2>1. WorkerType' /\ LeaseType'
    BY <1>25, ConcludesType DEF DirectVerdict
  <2> QED
    BY <1>25, <2>1, FrameTypes DEF DirectVerdict
<1>26. ASSUME NEW w \in Workers, NEW v \in Verdicts, CupsRefuses(w, v) PROVE TypeOK'
  <2>1. WorkerType' /\ LeaseType'
    BY <1>26, ConcludesType DEF CupsRefuses
  <2> QED
    BY <1>26, <2>1, FrameTypes DEF CupsRefuses
<1>27. ASSUME NEW w \in Workers, CupsAccepts(w) PROVE TypeOK'
  <2>1. WorkerType'
    BY <1>27, GoesType DEF CupsAccepts, WorkerPcs, Delivery
  <2>2. NetType'
    BY <1>27, BusyLease, SendType DEF CupsAccepts, NetType, RequestKinds
  <2>3. HistoryType'
    BY <1>27, BusyLease DEF CupsAccepts, HistoryType, historyVars, paperVars
  <2> QED
    BY <1>27, <2>1, <2>2, <2>3, FrameTypes DEF CupsAccepts
<1>28. ASSUME NEW w \in Workers, CupsAnswerLost(w) PROVE TypeOK'
  <2>1. WorkerType' /\ LeaseType'
    BY <1>28, ConcludesType DEF CupsAnswerLost, Verdicts
  <2>2. HistoryType'
    BY <1>28, BusyLease DEF CupsAnswerLost, HistoryType, historyVars, paperVars
  <2> QED
    BY <1>28, <2>1, <2>2, FrameTypes DEF CupsAnswerLost
<1>29. ASSUME NEW w \in Workers, NEW v \in Verdicts, CupsVerdict(w, v) PROVE TypeOK'
  <2>1. WorkerType' /\ LeaseType'
    BY <1>29, ConcludesType DEF CupsVerdict
  <2>2. HistoryType'
    BY <1>29 DEF CupsVerdict, HistoryType
  <2> QED
    BY <1>29, <2>1, <2>2, FrameTypes DEF CupsVerdict
<1>30. ASSUME NEW w \in Workers, BeatHeart(w) PROVE TypeOK'
  <2>1. NetType'
    BY <1>30, BusyLease, SendType DEF BeatHeart, NetType, RequestKinds, Delivery
  <2> QED
    BY <1>30, <2>1, FrameTypes DEF BeatHeart
<1>31. ASSUME NEW w \in Workers, SendReport(w) PROVE TypeOK'
  <2>1. WorkerType'
    BY <1>31, GoesType DEF SendReport, WorkerPcs
  <2>2. NetType'
    BY <1>31, BusyLease, SendType DEF SendReport, NetType, RequestKinds
  <2> QED
    BY <1>31, <2>1, <2>2, FrameTypes DEF SendReport
<1>32. ASSUME NEW w \in Workers, GiveUpReport(w) PROVE TypeOK'
  <2>1. WorkerType'
    BY <1>32, GoesType DEF GiveUpReport, WorkerPcs
  <2> QED
    BY <1>32, <2>1, FrameTypes DEF GiveUpReport
<1>33. ASSUME NEW w \in Workers, RequestFails(w) PROVE TypeOK'
  <2>1. WorkerType' /\ LeaseType'
    BY <1>33, GoesType, ConcludesType, FrameTypes DEF RequestFails, LeaseType, leaseVars, WorkerPcs, Verdicts
  <2> QED
    BY <1>33, <2>1, FrameTypes DEF RequestFails
<1>34. ASSUME NEW w \in Workers, WorkerCrashes(w) PROVE TypeOK'
  <2>1. WorkerType'
    BY <1>34, GoesType DEF WorkerCrashes, WorkerPcs
  <2> QED
    BY <1>34, <2>1, FrameTypes DEF WorkerCrashes
<1>35. ASSUME NEW j \in Jobs, LeaseExpires(j) PROVE TypeOK'
  <2>1. RowType'
    BY <1>35 DEF LeaseExpires, RowType
  <2> QED
    BY <1>35, <2>1, FrameTypes DEF LeaseExpires
<1>36. ASSUME NEW l \in Leases, CupsPrints(l) PROVE TypeOK'
  <2>1. HistoryType'
    BY <1>36 DEF CupsPrints, HistoryType, historyVars
  <2> QED
    BY <1>36, <2>1, FrameTypes DEF CupsPrints
<1>37. ASSUME NEW m \in net, RequestLost(m) PROVE TypeOK'
  <2>1. NetType'
    BY <1>37 DEF RequestLost, NetType
  <2> QED
    BY <1>37, <2>1, FrameTypes DEF RequestLost
<1> QED
    BY <1>1, <1>2, <1>3, <1>4, <1>5, <1>6, <1>7, <1>8, <1>9, <1>10, <1>11,
      <1>12, <1>13, <1>14, <1>15, <1>16, <1>17, <1>18, <1>19, <1>20, <1>21,
      <1>22, <1>23, <1>24, <1>25, <1>26, <1>27, <1>28, <1>29, <1>30, <1>31,
      <1>32, <1>33, <1>34, <1>35, <1>36, <1>37
    DEF Next, Backend, Reaper, Administrator, WorkerStep, Environment

(***************************************************************************)
(* Preservation, one lemma per conjunct of the invariant                   *)
(***************************************************************************)

(* A step that ends attempts or moves them on, and starts none.            *)
KeepsLeases ==
    \A w \in Workers :
        \/ worker'[w] = IdleWorker
        \/ /\ worker'[w].lease = worker[w].lease
           /\ worker'[w].pc = "idle" <=> worker[w].pc = "idle"

(* Such a step leaves every lease with one worker at most.                 *)
LEMMA KeepsLeasesWorkerInv ==
    ASSUME WorkerInv, KeepsLeases, UNCHANGED issued
    PROVE  WorkerInv'
BY DEF WorkerInv, KeepsLeases, IdleWorker

(* Answers are such steps.                                                 *)
LEMMA AnswerKeepsLeases ==
    ASSUME WorkerType, NEW l, NEW waiting, NEW next, waiting # "idle",
           Answer(l, waiting, next)
    PROVE  KeepsLeases
BY DEF Answer, Awaits, WorkerType, KeepsLeases

(* So are the moves of a busy worker.                                      *)
LEMMA GoesKeepsLeases ==
    ASSUME WorkerType, NEW w \in Workers, NEW pc, worker[w].pc # "idle",
           pc # "idle", WorkerGoes(w, pc) \/ Stops(w)
    PROVE  KeepsLeases
BY DEF WorkerGoes, Stops, WorkerType, KeepsLeases

(* No step gives a lease to two workers.                                   *)
LEMMA WorkerStepInv ==
    ASSUME IInv, Next
    PROVE  WorkerInv'
<1> USE DEF IInv
<1>1. ASSUME NEW j \in Jobs, ClaimAnswerLost(j) PROVE WorkerInv'
    BY <1>1, BoundsAssumption
    DEF ClaimAnswerLost, ClaimNextJob, WorkerInv, TypeOK, LeaseType,
      WorkerType
<1>2. ASSUME NEW w \in Workers, NEW j \in Jobs, Claim(w, j) PROVE WorkerInv'
    BY <1>2, BoundsAssumption
    DEF Claim, ClaimNextJob, WorkerInv, TypeOK, LeaseType, WorkerType
<1>3. ASSUME NEW l \in Leases, NEW k \in RequestKinds, TransitionPhase(l, k) PROVE WorkerInv'
    BY <1>3, AnswerKeepsLeases, KeepsLeasesWorkerInv
    DEF TransitionPhase, TypeOK, leaseVars, WaitFor
<1>4. ASSUME NEW l \in Leases, Heartbeat(l) PROVE WorkerInv'
    BY <1>4, KeepsLeasesWorkerInv
    DEF Heartbeat, KeepsLeases, TypeOK, WorkerType, leaseVars
<1>5. ASSUME NEW l \in Leases, FinalizeAsPrinted(l) PROVE WorkerInv'
    BY <1>5, AnswerKeepsLeases, KeepsLeasesWorkerInv
    DEF FinalizeAsPrinted, TypeOK, leaseVars
<1>6. ASSUME NEW l \in Leases, FinalizeAsUnresolved(l) PROVE WorkerInv'
    BY <1>6, AnswerKeepsLeases, KeepsLeasesWorkerInv
    DEF FinalizeAsUnresolved, TypeOK,
      leaseVars
<1>7. ASSUME NEW h \in failing, TryFailover(h) PROVE WorkerInv'
    BY <1>7, AnswerKeepsLeases, KeepsLeasesWorkerInv
    DEF TryFailover, TypeOK, leaseVars
<1>8. ASSUME NEW h \in failing, FinalizeAsFailed(h) PROVE WorkerInv'
    BY <1>8, AnswerKeepsLeases, KeepsLeasesWorkerInv
    DEF FinalizeAsFailed, TypeOK, leaseVars
<1>9. ASSUME NEW w \in Workers, ConfigurationInvalid(w) PROVE WorkerInv'
    BY <1>9, GoesKeepsLeases, KeepsLeasesWorkerInv
    DEF ConfigurationInvalid, Concludes, TypeOK,
      leaseVars, Delivery
<1>10. ASSUME NEW w \in Workers, ConfirmDelivering(w) PROVE WorkerInv'
    BY <1>10, GoesKeepsLeases, KeepsLeasesWorkerInv
    DEF ConfirmDelivering, TypeOK, leaseVars,
      Delivery
<1>11. ASSUME NEW w \in Workers, NEW v \in Verdicts, DirectVerdict(w, v) PROVE WorkerInv'
    BY <1>11, GoesKeepsLeases, KeepsLeasesWorkerInv
    DEF DirectVerdict, Concludes, TypeOK, leaseVars,
      Delivery
<1>12. ASSUME NEW w \in Workers, NEW v \in Verdicts, CupsRefuses(w, v) PROVE WorkerInv'
    BY <1>12, GoesKeepsLeases, KeepsLeasesWorkerInv
    DEF CupsRefuses, Concludes, TypeOK, leaseVars,
      Delivery
<1>13. ASSUME NEW w \in Workers, CupsAccepts(w) PROVE WorkerInv'
    BY <1>13, GoesKeepsLeases, KeepsLeasesWorkerInv
    DEF CupsAccepts, TypeOK, leaseVars, Delivery
<1>14. ASSUME NEW w \in Workers, CupsAnswerLost(w) PROVE WorkerInv'
    BY <1>14, GoesKeepsLeases, KeepsLeasesWorkerInv
    DEF CupsAnswerLost, Concludes, TypeOK, leaseVars,
      Delivery
<1>15. ASSUME NEW w \in Workers, NEW v \in Verdicts, CupsVerdict(w, v) PROVE WorkerInv'
    BY <1>15, GoesKeepsLeases, KeepsLeasesWorkerInv
    DEF CupsVerdict, Concludes, TypeOK, leaseVars,
      Delivery
<1>16. ASSUME NEW w \in Workers, SendReport(w) PROVE WorkerInv'
    BY <1>16, GoesKeepsLeases, KeepsLeasesWorkerInv
    DEF SendReport, TypeOK, leaseVars, Delivery
<1>17. ASSUME NEW w \in Workers, GiveUpReport(w) PROVE WorkerInv'
    BY <1>17, GoesKeepsLeases, KeepsLeasesWorkerInv
    DEF GiveUpReport, TypeOK, leaseVars, Delivery
<1>18. ASSUME NEW w \in Workers, RequestFails(w) PROVE WorkerInv'
    BY <1>18, GoesKeepsLeases, KeepsLeasesWorkerInv
    DEF RequestFails, Concludes, TypeOK,
      leaseVars, Delivery
<1>19. ASSUME NEW w \in Workers, WorkerCrashes(w) PROVE WorkerInv'
    BY <1>19, GoesKeepsLeases, KeepsLeasesWorkerInv
    DEF WorkerCrashes, TypeOK, leaseVars, Delivery
<1>20. ASSUME UNCHANGED <<worker, issued>> PROVE WorkerInv'
    BY <1>20
    DEF WorkerInv
<1>21. CASE Backend
    BY <1>21, <1>1, <1>3, <1>4, <1>5, <1>6, <1>7, <1>8, <1>20
    DEF Backend, CreateJob, ReadNotPrinted, TakeStatus, BackendRestarts,
      rowVars, printerVars, leaseVars, netVars, paperVars, historyVars
<1>22. CASE Reaper
    BY <1>22, <1>20
    DEF Reaper, SweepClaimed, SweepReads, SweepDelivering,
      RequeueClaimedExpired, UnresolveActiveExpired, rowVars, printerVars,
      leaseVars, netVars, paperVars, historyVars
<1>23. CASE Administrator
    BY <1>23, <1>20
    DEF Administrator, ResolveReprinted, ResolveFinally, SetPrinterActive,
      StartMaintenance, TryAdvanceToLocked, EndMaintenance, rowVars,
      printerVars, leaseVars, netVars, paperVars, historyVars
<1>24. ASSUME NEW w \in Workers, WorkerStep(w) PROVE WorkerInv'
    BY <1>24, <1>2, <1>9, <1>10, <1>11, <1>12, <1>13, <1>14, <1>15, <1>16,
      <1>17, <1>18, <1>19, <1>20
    DEF WorkerStep, SendBytes, BeatHeart, Send, rowVars, printerVars,
      leaseVars, netVars, paperVars, historyVars
<1>25. CASE Environment
    BY <1>25, <1>20
    DEF Environment, LeaseExpires, CupsPrints, RequestLost, rowVars,
      printerVars, leaseVars, netVars, paperVars, historyVars
<1> QED
    BY <1>21, <1>22, <1>23, <1>24, <1>25
    DEF Next

(* A claim issues a fresh lease.                                           *)
LEMMA ClaimLeaseInv ==
    ASSUME IInv, NEW j \in Jobs, ClaimNextJob(j)
    PROVE  LeaseInv'
<1>0. issued \in Nat
    BY BoundsAssumption DEF IInv, TypeOK, LeaseType
<1>1. issued + 1 \in Leases
    BY ClaimType DEF IInv
<1>2. /\ issued' = issued + 1
      /\ leaseJob' = [leaseJob EXCEPT ![issued + 1] = j]
      /\ leaseId' = [leaseId EXCEPT ![j] = issued + 1]
      /\ UNCHANGED <<epoch, verdict>>
    BY DEF ClaimNextJob, historyVars
<1> QED
    BY <1>0, <1>1, <1>2, BoundsAssumption
    DEF IInv, TypeOK, LeaseType, RowType, LeaseInv, Leases

(* No step issues a lease twice or gives a row the lease of another.       *)
LEMMA LeaseStepInv ==
    ASSUME IInv, Next
    PROVE  LeaseInv'
<1> USE DEF IInv
<1>1. ASSUME NEW j \in Jobs, ClaimAnswerLost(j) PROVE LeaseInv'
    BY <1>1, ClaimLeaseInv DEF ClaimAnswerLost
<1>2. ASSUME NEW w \in Workers, NEW j \in Jobs, Claim(w, j) PROVE LeaseInv'
    BY <1>2, ClaimLeaseInv DEF Claim
<1>3. ASSUME NEW l \in Leases, NEW k \in RequestKinds, TransitionPhase(l, k) PROVE LeaseInv'
  <2>1. l <= issued /\ UNCHANGED <<issued, leaseJob, verdict, leaseId>>
    BY <1>3 DEF TransitionPhase, RequestInv, Request, leaseVars
  <2>2. \A i \in Leases : i # l => epoch'[i] = epoch[i]
    BY <1>3 DEF TransitionPhase, TypeOK, HistoryType
  <2> QED
    BY <2>1, <2>2, BoundsAssumption DEF LeaseInv, TypeOK, LeaseType, Leases
<1>4. ASSUME NEW h \in failing, TryFailover(h) PROVE LeaseInv'
    BY <1>4, BoundsAssumption
    DEF TryFailover, Finalize, LeaseInv, TypeOK, LeaseType, RowType,
      leaseVars, historyVars
<1>5. ASSUME NEW c \in sweep, RequeueClaimedExpired(c) PROVE LeaseInv'
    BY <1>5, BoundsAssumption
    DEF RequeueClaimedExpired, LeaseInv, TypeOK, LeaseType, RowType,
      leaseVars, historyVars
<1>6. ASSUME NEW w \in Workers, ConfigurationInvalid(w) PROVE LeaseInv'
    BY <1>6, BusyLease, BoundsAssumption
    DEF ConfigurationInvalid, Concludes, WorkerGoes, LeaseInv, TypeOK,
      LeaseType, Leases, Delivery, rowVars, historyVars, leaseVars
<1>7. ASSUME NEW w \in Workers, NEW v \in Verdicts, DirectVerdict(w, v) PROVE LeaseInv'
    BY <1>7, BusyLease, BoundsAssumption
    DEF DirectVerdict, Concludes, WorkerGoes, LeaseInv, TypeOK, LeaseType,
      Leases, Delivery, rowVars, historyVars, leaseVars
<1>8. ASSUME NEW w \in Workers, NEW v \in Verdicts, CupsRefuses(w, v) PROVE LeaseInv'
    BY <1>8, BusyLease, BoundsAssumption
    DEF CupsRefuses, Concludes, WorkerGoes, LeaseInv, TypeOK, LeaseType,
      Leases, Delivery, rowVars, historyVars, leaseVars
<1>9. ASSUME NEW w \in Workers, CupsAnswerLost(w) PROVE LeaseInv'
    BY <1>9, BusyLease, BoundsAssumption
    DEF CupsAnswerLost, Concludes, WorkerGoes, LeaseInv, TypeOK, LeaseType,
      Leases, Delivery, rowVars, historyVars, leaseVars
<1>10. ASSUME NEW w \in Workers, NEW v \in Verdicts, CupsVerdict(w, v) PROVE LeaseInv'
    BY <1>10, BusyLease, BoundsAssumption
    DEF CupsVerdict, Concludes, WorkerGoes, LeaseInv, TypeOK, LeaseType,
      Leases, Delivery, rowVars, historyVars, leaseVars
<1>11. ASSUME NEW w \in Workers, RequestFails(w) PROVE LeaseInv'
    BY <1>11, BusyLease, BoundsAssumption
    DEF RequestFails, Concludes, WorkerGoes, Stops, LeaseInv, TypeOK,
      LeaseType, Leases, Delivery, rowVars, historyVars, leaseVars
<1>12. ASSUME UNCHANGED <<issued, leaseJob, epoch, verdict, leaseId>> PROVE LeaseInv'
    BY <1>12
    DEF LeaseInv
<1>13. CASE Backend
    BY <1>13, <1>1, <1>3, <1>4, <1>12
    DEF Backend, CreateJob, Heartbeat, FinalizeAsPrinted, TakeStatus,
      Finalize, FinalizeAsUnresolved, ReadNotPrinted, FinalizeAsFailed,
      BackendRestarts, rowVars, printerVars, leaseVars, netVars, paperVars,
      historyVars
<1>14. CASE Reaper
    BY <1>14, <1>5, <1>12
    DEF Reaper, SweepClaimed, SweepReads, SweepDelivering,
      UnresolveActiveExpired, rowVars, printerVars, leaseVars, netVars,
      paperVars, historyVars
<1>15. CASE Administrator
    BY <1>15, <1>12
    DEF Administrator, ResolveReprinted, ResolveFinally, SetPrinterActive,
      StartMaintenance, TryAdvanceToLocked, EndMaintenance, rowVars,
      printerVars, leaseVars, netVars, paperVars, historyVars
<1>16. ASSUME NEW w \in Workers, WorkerStep(w) PROVE LeaseInv'
    BY <1>16, <1>2, <1>6, <1>7, <1>8, <1>9, <1>10, <1>11, <1>12
    DEF WorkerStep, ConfirmDelivering, Send, SendBytes, CupsAccepts,
      BeatHeart, SendReport, GiveUpReport, WorkerCrashes, rowVars,
      printerVars, leaseVars, netVars, paperVars, historyVars
<1>17. CASE Environment
    BY <1>17, <1>12
    DEF Environment, LeaseExpires, CupsPrints, RequestLost, rowVars,
      printerVars, leaseVars, netVars, paperVars, historyVars
<1> QED
    BY <1>13, <1>14, <1>15, <1>16, <1>17
    DEF Next

(* No step leaves a phase behind on a row that is not running.             *)
LEMMA RowStepInv ==
    ASSUME IInv, Next
    PROVE  RowInv'
<1> USE DEF IInv
<1>1. ASSUME NEW j \in Jobs, NEW p \in JobPrinters, CreateJob(j, p) PROVE RowInv'
    BY <1>1, PrintersAssumption
    DEF CreateJob, RowInv, TypeOK, RowType, leaseVars, LeaseInv
<1>2. ASSUME NEW j \in Jobs, ClaimAnswerLost(j) PROVE RowInv'
    BY <1>2, BoundsAssumption
    DEF ClaimAnswerLost, ClaimNextJob, RowInv, TypeOK, RowType, Oldest,
      LeaseType, Leases, LeaseInv
<1>3. ASSUME NEW w \in Workers, NEW j \in Jobs, Claim(w, j) PROVE RowInv'
    BY <1>3, BoundsAssumption
    DEF Claim, ClaimNextJob, RowInv, TypeOK, RowType, Oldest, LeaseType,
      Leases, LeaseInv
<1>4. ASSUME NEW l \in Leases, NEW k \in RequestKinds, TransitionPhase(l, k) PROVE RowInv'
    BY <1>4
    DEF TransitionPhase, RowInv, TypeOK, RowType, MayTransition, Owns,
      leaseVars, LeaseInv
<1>5. ASSUME NEW l \in Leases, FinalizeAsPrinted(l) PROVE RowInv'
    BY <1>5
    DEF FinalizeAsPrinted, TakeStatus, Finalize, RowInv, TypeOK, RowType,
      Owns, MayFailOver, leaseVars, LeaseInv
<1>6. ASSUME NEW l \in Leases, FinalizeAsUnresolved(l) PROVE RowInv'
    BY <1>6
    DEF FinalizeAsUnresolved, TakeStatus, Finalize, RowInv, TypeOK, RowType,
      Owns, MayFailOver, leaseVars, LeaseInv
<1>7. ASSUME NEW h \in failing, TryFailover(h) PROVE RowInv'
    BY <1>7
    DEF TryFailover, Finalize, RowInv, TypeOK, RowType, Owns, MayFailOver,
      leaseVars, LeaseInv
<1>8. ASSUME NEW h \in failing, FinalizeAsFailed(h) PROVE RowInv'
    BY <1>8
    DEF FinalizeAsFailed, Finalize, RowInv, TypeOK, RowType, Owns,
      MayFailOver, leaseVars, LeaseInv
<1>9. ASSUME NEW c \in sweep, RequeueClaimedExpired(c) PROVE RowInv'
    BY <1>9
    DEF RequeueClaimedExpired, RowInv, TypeOK, RowType, StillIn, leaseVars,
      LeaseInv
<1>10. ASSUME NEW c \in sweep, UnresolveActiveExpired(c) PROVE RowInv'
    BY <1>10
    DEF UnresolveActiveExpired, RowInv, TypeOK, RowType, StillIn, leaseVars,
      LeaseInv
<1>11. ASSUME NEW j \in Jobs, NEW t \in Printers \union {NoPrinter}, ResolveReprinted(j, t) PROVE RowInv'
    BY <1>11
    DEF ResolveReprinted, RowInv, TypeOK, RowType, StillIn, leaseVars,
      LeaseInv
<1>12. ASSUME NEW j \in Jobs, NEW s \in Terminal, ResolveFinally(j, s) PROVE RowInv'
    BY <1>12
    DEF ResolveFinally, RowInv, TypeOK, RowType, StillIn, leaseVars, LeaseInv
<1>13. ASSUME UNCHANGED <<phase, status, printerId, leaseJob, issued>> PROVE RowInv'
    BY <1>13
    DEF RowInv
<1>14. CASE Backend
    BY <1>14, <1>1, <1>2, <1>4, <1>5, <1>6, <1>7, <1>8, <1>13
    DEF Backend, Heartbeat, ReadNotPrinted, TakeStatus, BackendRestarts,
      rowVars, printerVars, leaseVars, netVars, paperVars, historyVars
<1>15. CASE Reaper
    BY <1>15, <1>9, <1>10, <1>13
    DEF Reaper, SweepClaimed, SweepReads, SweepDelivering, rowVars,
      printerVars, leaseVars, netVars, paperVars, historyVars
<1>16. CASE Administrator
    BY <1>16, <1>11, <1>12, <1>13
    DEF Administrator, SetPrinterActive, StartMaintenance,
      TryAdvanceToLocked, EndMaintenance, rowVars, printerVars, leaseVars,
      netVars, paperVars, historyVars
<1>17. ASSUME NEW w \in Workers, WorkerStep(w) PROVE RowInv'
    BY <1>17, <1>3, <1>13
    DEF WorkerStep, ConfigurationInvalid, Concludes, ConfirmDelivering, Send,
      SendBytes, DirectVerdict, CupsRefuses, CupsAccepts, CupsAnswerLost,
      CupsVerdict, BeatHeart, SendReport, GiveUpReport, RequestFails,
      WorkerCrashes, rowVars, printerVars, leaseVars, netVars, paperVars,
      historyVars
<1>18. CASE Environment
    BY <1>18, <1>13
    DEF Environment, LeaseExpires, CupsPrints, RequestLost, rowVars,
      printerVars, leaseVars, netVars, paperVars, historyVars
<1> QED
    BY <1>14, <1>15, <1>16, <1>17, <1>18
    DEF Next

(* No request or handler is about a lease never issued.                    *)
LEMMA RequestStepInv ==
    ASSUME IInv, Next
    PROVE  RequestInv'
<1> USE DEF IInv
<1>1. ASSUME NEW j \in Jobs, ClaimAnswerLost(j) PROVE RequestInv'
    BY <1>1, BoundsAssumption
    DEF ClaimAnswerLost, ClaimNextJob, RequestInv, TypeOK, LeaseType,
      NetType, Requests, NotPrintedHandlers, Leases, netVars
<1>2. ASSUME NEW w \in Workers, NEW j \in Jobs, Claim(w, j) PROVE RequestInv'
    BY <1>2, BoundsAssumption
    DEF Claim, ClaimNextJob, RequestInv, TypeOK, LeaseType, NetType,
      Requests, NotPrintedHandlers, Leases, netVars
<1>3. ASSUME NEW l \in Leases, NEW k \in RequestKinds, TransitionPhase(l, k) PROVE RequestInv'
    BY <1>3
    DEF TransitionPhase, RequestInv, leaseVars
<1>4. ASSUME NEW l \in Leases, Heartbeat(l) PROVE RequestInv'
    BY <1>4
    DEF Heartbeat, RequestInv, leaseVars
<1>5. ASSUME NEW l \in Leases, FinalizeAsPrinted(l) PROVE RequestInv'
    BY <1>5
    DEF FinalizeAsPrinted, TakeStatus, Finalize, RequestInv, leaseVars
<1>6. ASSUME NEW l \in Leases, FinalizeAsUnresolved(l) PROVE RequestInv'
    BY <1>6
    DEF FinalizeAsUnresolved, TakeStatus, Finalize, RequestInv, leaseVars
<1>7. ASSUME NEW l \in Leases, ReadNotPrinted(l) PROVE RequestInv'
    BY <1>7
    DEF ReadNotPrinted, TakeStatus, RequestInv, leaseVars, Request
<1>8. ASSUME NEW h \in failing, TryFailover(h) PROVE RequestInv'
    BY <1>8
    DEF TryFailover, Finalize, RequestInv, leaseVars
<1>9. ASSUME NEW h \in failing, FinalizeAsFailed(h) PROVE RequestInv'
    BY <1>9
    DEF FinalizeAsFailed, Finalize, RequestInv, leaseVars
<1>10. ASSUME BackendRestarts PROVE RequestInv'
    BY <1>10
    DEF BackendRestarts, RequestInv, leaseVars
<1>11. ASSUME NEW w \in Workers, ConfigurationInvalid(w) PROVE RequestInv'
    BY <1>11, BusyLease
    DEF ConfigurationInvalid, Concludes, WorkerGoes, RequestInv, TypeOK,
      LeaseType, NetType, NotPrintedHandlers, DocumentInv, LeaseOf, Delivery,
      NotPrinted, netVars, leaseVars
<1>12. ASSUME NEW w \in Workers, NEW v \in Verdicts, DirectVerdict(w, v) PROVE RequestInv'
    BY <1>12, BusyLease
    DEF DirectVerdict, Concludes, WorkerGoes, RequestInv, TypeOK, LeaseType,
      NetType, NotPrintedHandlers, DocumentInv, LeaseOf, Delivery,
      NotPrinted, netVars, leaseVars
<1>13. ASSUME NEW w \in Workers, NEW v \in Verdicts, CupsRefuses(w, v) PROVE RequestInv'
    BY <1>13, BusyLease
    DEF CupsRefuses, Concludes, WorkerGoes, RequestInv, TypeOK, LeaseType,
      NetType, NotPrintedHandlers, DocumentInv, LeaseOf, Delivery,
      NotPrinted, netVars, leaseVars
<1>14. ASSUME NEW w \in Workers, CupsAnswerLost(w) PROVE RequestInv'
    BY <1>14, BusyLease
    DEF CupsAnswerLost, Concludes, WorkerGoes, RequestInv, TypeOK, LeaseType,
      NetType, NotPrintedHandlers, DocumentInv, LeaseOf, Delivery,
      NotPrinted, netVars, leaseVars
<1>15. ASSUME NEW w \in Workers, NEW v \in Verdicts, CupsVerdict(w, v) PROVE RequestInv'
    BY <1>15, BusyLease
    DEF CupsVerdict, Concludes, WorkerGoes, RequestInv, TypeOK, LeaseType,
      NetType, NotPrintedHandlers, DocumentInv, LeaseOf, Delivery,
      NotPrinted, netVars, leaseVars
<1>16. ASSUME NEW w \in Workers, RequestFails(w) PROVE RequestInv'
    BY <1>16, BusyLease
    DEF RequestFails, Concludes, WorkerGoes, Stops, RequestInv, TypeOK,
      LeaseType, NetType, NotPrintedHandlers, DocumentInv, LeaseOf, Delivery,
      NotPrinted, netVars, leaseVars
<1>17. ASSUME NEW w \in Workers, ConfirmDelivering(w) PROVE RequestInv'
    BY <1>17, BusyLease
    DEF ConfirmDelivering, WorkerGoes, Send, RequestInv, Request, leaseVars,
      Delivery
<1>18. ASSUME NEW w \in Workers, CupsAccepts(w) PROVE RequestInv'
    BY <1>18, BusyLease
    DEF CupsAccepts, WorkerGoes, Send, RequestInv, Request, leaseVars,
      Delivery
<1>19. ASSUME NEW w \in Workers, BeatHeart(w) PROVE RequestInv'
    BY <1>19, BusyLease
    DEF BeatHeart, Send, RequestInv, Request, leaseVars, Delivery
<1>20. ASSUME NEW w \in Workers, SendReport(w) PROVE RequestInv'
    BY <1>20, BusyLease
    DEF SendReport, WorkerGoes, Send, RequestInv, Request, leaseVars,
      Delivery
<1>21. ASSUME NEW m \in net, RequestLost(m) PROVE RequestInv'
    BY <1>21
    DEF RequestLost, RequestInv, leaseVars
<1>22. ASSUME UNCHANGED <<net, failing, issued, verdict>> PROVE RequestInv'
    BY <1>22
    DEF RequestInv
<1>23. CASE Backend
    BY <1>23, <1>1, <1>3, <1>4, <1>5, <1>6, <1>7, <1>8, <1>9, <1>10, <1>22
    DEF Backend, CreateJob, rowVars, printerVars, leaseVars, netVars,
      paperVars, historyVars
<1>24. CASE Reaper
    BY <1>24, <1>22
    DEF Reaper, SweepClaimed, SweepReads, SweepDelivering,
      RequeueClaimedExpired, UnresolveActiveExpired, rowVars, printerVars,
      leaseVars, netVars, paperVars, historyVars
<1>25. CASE Administrator
    BY <1>25, <1>22
    DEF Administrator, ResolveReprinted, ResolveFinally, SetPrinterActive,
      StartMaintenance, TryAdvanceToLocked, EndMaintenance, rowVars,
      printerVars, leaseVars, netVars, paperVars, historyVars
<1>26. ASSUME NEW w \in Workers, WorkerStep(w) PROVE RequestInv'
    BY <1>26, <1>2, <1>11, <1>12, <1>13, <1>14, <1>15, <1>16, <1>17, <1>18,
      <1>19, <1>20, <1>22
    DEF WorkerStep, SendBytes, GiveUpReport, WorkerCrashes, rowVars,
      printerVars, leaseVars, netVars, paperVars, historyVars
<1>27. CASE Environment
    BY <1>27, <1>21, <1>22
    DEF Environment, LeaseExpires, CupsPrints, rowVars, printerVars,
      leaseVars, netVars, paperVars, historyVars
<1> QED
    BY <1>23, <1>24, <1>25, <1>26, <1>27
    DEF Next

(* A claim leaves older leases alone, and its own lease is fresh.          *)
LEMMA ClaimFresh ==
    ASSUME IInv, NEW j \in Jobs, ClaimNextJob(j)
    PROVE  /\ \A l \in Leases : l <= issued =>
                 leasePrinter'[l] = leasePrinter[l] /\ leaseJob'[l] = leaseJob[l]
           /\ issued + 1 \in Leases /\ ~(issued + 1 <= issued)
           /\ epoch[issued + 1] = 0 /\ verdict[issued + 1] = "NONE"
           /\ issued + 1 \notin onPaper \union spooled
           /\ UNCHANGED <<verdict, epoch, onPaper, spooled, reprints, misread>>
<1>0. issued \in Nat
    BY BoundsAssumption DEF IInv, TypeOK, LeaseType
<1>1. issued + 1 \in Leases
    BY ClaimType DEF IInv
<1>2. epoch[issued + 1] = 0 /\ verdict[issued + 1] = "NONE"
    BY <1>0, <1>1 DEF IInv, LeaseInv
<1>3. issued + 1 \notin onPaper \union spooled
    BY <1>1, <1>2 DEF IInv, DocumentInv
<1>4. \A l \in Leases : l <= issued =>
        leasePrinter'[l] = leasePrinter[l] /\ leaseJob'[l] = leaseJob[l]
    BY <1>0 DEF IInv, TypeOK, LeaseType, ClaimNextJob, Leases
<1> QED
    BY <1>0, <1>1, <1>2, <1>3, <1>4 DEF ClaimNextJob, paperVars, historyVars

(* The lease of a request under way belongs to a job.                      *)
LEMMA RequestedJob ==
    ASSUME IInv, NEW m \in net
    PROVE  m.lease \in Leases /\ m.lease <= issued /\ leaseJob[m.lease] \in Jobs
BY DEF IInv, RequestInv, LeaseInv, TypeOK, NetType, Requests

(* Decisions are counted from 1.                                           *)
LEMMA EpochPositive ==
    ASSUME TypeOK, NEW j \in Jobs
    PROVE  reprints[j] \in Nat /\ reprints[j] + 1 # 0
BY BoundsAssumption DEF TypeOK, HistoryType

(* Nothing is printed without a confirmed DELIVERING, whatever happens to the*)
(* answers.                                                                *)
LEMMA DocumentStepInv ==
    ASSUME IInv, Next
    PROVE  DocumentInv'
<1> USE DEF IInv
<1>1. ASSUME NEW j \in Jobs, ClaimAnswerLost(j) PROVE DocumentInv'
  <2>1. ClaimNextJob(j) /\ UNCHANGED worker
    BY <1>1 DEF ClaimAnswerLost
  <2>2. \A l \in spooled \union misread : leasePrinter'[l] = leasePrinter[l]
    BY <2>1, ClaimFresh
    DEF TypeOK, HistoryType, LeaseType, ClaimNextJob, DocumentInv
  <2>3. \A u \in Workers : worker[u].pc # "idle" => PrinterOf(u)' = PrinterOf(u)
    BY <2>1, ClaimFresh, BusyLease DEF PrinterOf, LeaseOf
  <2> QED
    BY <2>1, <2>2, <2>3, ClaimFresh DEF DocumentInv
<1>2. ASSUME NEW w \in Workers, NEW j \in Jobs, Claim(w, j) PROVE DocumentInv'
  <2>1. ClaimNextJob(j)
    BY <1>2 DEF Claim
  <2>2. \A l \in spooled \union misread : leasePrinter'[l] = leasePrinter[l]
    BY <2>1, ClaimFresh
    DEF TypeOK, HistoryType, LeaseType, ClaimNextJob, DocumentInv
  <2>3. \A u \in Workers : u # w => worker'[u] = worker[u]
    BY <1>2 DEF Claim, TypeOK, WorkerType
  <2>4. worker'[w].pc = "claimed" /\ worker'[w].lease = issued + 1
    BY <1>2 DEF Claim, TypeOK, WorkerType
  <2>5. \A u \in Workers : u # w /\ worker[u].pc # "idle" =>
          PrinterOf(u)' = PrinterOf(u)
    BY <2>1, <2>3, ClaimFresh, BusyLease DEF PrinterOf, LeaseOf
  <2> QED
    BY <2>1, <2>2, <2>3, <2>4, <2>5, ClaimFresh DEF DocumentInv, Delivery
<1>3. ASSUME NEW l \in Leases, NEW k \in RequestKinds, TransitionPhase(l, k) PROVE DocumentInv'
  <2>1. UNCHANGED <<onPaper, spooled, misread, verdict, leasePrinter>>
    BY <1>3 DEF TransitionPhase, leaseVars, paperVars, historyVars
  <2>0. reprints[leaseJob[l]] + 1 # 0
    BY <1>3, RequestedJob, EpochPositive DEF TransitionPhase, Request
  <2>2. \A i \in Leases : epoch[i] # 0 => epoch'[i] # 0
    BY <1>3, <2>0 DEF TransitionPhase, TypeOK, HistoryType
  <2>3. ASSUME NEW w \in Workers
        PROVE  \/ worker'[w] = worker[w]
               \/ worker'[w] = IdleWorker
               \/ /\ worker'[w].lease = worker[w].lease
                  /\ worker[w].lease = l
                  /\ \/ /\ worker[w].pc = "confirming"
                        /\ worker'[w].pc = "delivering"
                        /\ epoch'[l] # 0
                     \/ /\ worker[w].pc = "spooling"
                        /\ worker'[w].pc = "watching"
    BY <1>3, <2>0
    DEF TransitionPhase, Answer, Awaits, WaitFor, TypeOK, WorkerType, HistoryType
  <2> QED
    BY <2>1, <2>2, <2>3, BusyLease
    DEF DocumentInv, TypeOK, HistoryType, Delivery, IdleWorker, PrinterOf, LeaseOf
<1>4. ASSUME NEW l \in Leases, Heartbeat(l) PROVE DocumentInv'
    BY <1>4
    DEF Heartbeat, DocumentInv, TypeOK, WorkerType, HistoryType, LeaseType,
      WorkerInv, PrinterOf, Delivery, IdleWorker, leaseVars, paperVars,
      historyVars
<1>5. ASSUME NEW l \in Leases, FinalizeAsPrinted(l) PROVE DocumentInv'
    BY <1>5
    DEF FinalizeAsPrinted, TakeStatus, Finalize, DocumentInv, TypeOK,
      WorkerType, HistoryType, LeaseType, WorkerInv, PrinterOf, Delivery,
      IdleWorker, Answer, Awaits, leaseVars, paperVars, historyVars
<1>6. ASSUME NEW l \in Leases, FinalizeAsUnresolved(l) PROVE DocumentInv'
    BY <1>6
    DEF FinalizeAsUnresolved, TakeStatus, Finalize, DocumentInv, TypeOK,
      WorkerType, HistoryType, LeaseType, WorkerInv, PrinterOf, Delivery,
      IdleWorker, Answer, Awaits, leaseVars, paperVars, historyVars
<1>7. ASSUME NEW h \in failing, TryFailover(h) PROVE DocumentInv'
    BY <1>7
    DEF TryFailover, Finalize, DocumentInv, TypeOK, WorkerType, HistoryType,
      LeaseType, WorkerInv, PrinterOf, Delivery, IdleWorker, Answer, Awaits,
      leaseVars, paperVars, historyVars
<1>8. ASSUME NEW h \in failing, FinalizeAsFailed(h) PROVE DocumentInv'
    BY <1>8
    DEF FinalizeAsFailed, Finalize, DocumentInv, TypeOK, WorkerType,
      HistoryType, LeaseType, WorkerInv, PrinterOf, Delivery, IdleWorker,
      Answer, Awaits, leaseVars, paperVars, historyVars
<1>9. ASSUME NEW w \in Workers, ConfigurationInvalid(w) PROVE DocumentInv'
    BY <1>9, BusyLease
    DEF ConfigurationInvalid, Concludes, WorkerGoes, DocumentInv, TypeOK,
      WorkerType, HistoryType, LeaseType, WorkerInv, PrinterOf, Delivery,
      IdleWorker, LeaseOf, leaseVars, paperVars, historyVars
<1>10. ASSUME NEW w \in Workers, ConfirmDelivering(w) PROVE DocumentInv'
    BY <1>10, BusyLease
    DEF ConfirmDelivering, WorkerGoes, Send, DocumentInv, TypeOK, WorkerType,
      HistoryType, LeaseType, WorkerInv, PrinterOf, Delivery, IdleWorker,
      LeaseOf, leaseVars, paperVars, historyVars
<1>11. ASSUME NEW w \in Workers, NEW v \in Verdicts, DirectVerdict(w, v) PROVE DocumentInv'
    BY <1>11, BusyLease
    DEF DirectVerdict, Concludes, WorkerGoes, DocumentInv, TypeOK,
      WorkerType, HistoryType, LeaseType, WorkerInv, PrinterOf, Delivery,
      IdleWorker, LeaseOf, leaseVars, paperVars, historyVars
<1>12. ASSUME NEW w \in Workers, NEW v \in Verdicts, CupsRefuses(w, v) PROVE DocumentInv'
    BY <1>12, BusyLease
    DEF CupsRefuses, Concludes, WorkerGoes, DocumentInv, TypeOK, WorkerType,
      HistoryType, LeaseType, WorkerInv, PrinterOf, Delivery, IdleWorker,
      LeaseOf, leaseVars, paperVars, historyVars
<1>13. ASSUME NEW w \in Workers, SendReport(w) PROVE DocumentInv'
    BY <1>13, BusyLease
    DEF SendReport, WorkerGoes, Send, DocumentInv, TypeOK, WorkerType,
      HistoryType, LeaseType, WorkerInv, PrinterOf, Delivery, IdleWorker,
      LeaseOf, leaseVars, paperVars, historyVars
<1>14. ASSUME NEW w \in Workers, GiveUpReport(w) PROVE DocumentInv'
    BY <1>14, BusyLease
    DEF GiveUpReport, Stops, DocumentInv, TypeOK, WorkerType, HistoryType,
      LeaseType, WorkerInv, PrinterOf, Delivery, IdleWorker, LeaseOf,
      leaseVars, paperVars, historyVars
<1>15. ASSUME NEW w \in Workers, RequestFails(w) PROVE DocumentInv'
    BY <1>15, BusyLease
    DEF RequestFails, Concludes, WorkerGoes, Stops, DocumentInv, TypeOK,
      WorkerType, HistoryType, LeaseType, WorkerInv, PrinterOf, Delivery,
      IdleWorker, LeaseOf, leaseVars, paperVars, historyVars
<1>16. ASSUME NEW w \in Workers, WorkerCrashes(w) PROVE DocumentInv'
    BY <1>16, BusyLease
    DEF WorkerCrashes, Stops, DocumentInv, TypeOK, WorkerType, HistoryType,
      LeaseType, WorkerInv, PrinterOf, Delivery, IdleWorker, LeaseOf,
      leaseVars, paperVars, historyVars
<1>17. ASSUME NEW w \in Workers, SendBytes(w) PROVE DocumentInv'
    BY <1>17, BusyLease
    DEF SendBytes, DocumentInv, TypeOK, WorkerType, HistoryType, LeaseType,
      WorkerInv, PrinterOf, Delivery, IdleWorker, LeaseOf, leaseVars,
      paperVars, historyVars
<1>18. ASSUME NEW w \in Workers, CupsAccepts(w) PROVE DocumentInv'
    BY <1>18, BusyLease
    DEF CupsAccepts, WorkerGoes, Send, DocumentInv, TypeOK, WorkerType,
      HistoryType, LeaseType, WorkerInv, PrinterOf, Delivery, IdleWorker,
      LeaseOf, leaseVars, paperVars, historyVars
<1>19. ASSUME NEW w \in Workers, CupsAnswerLost(w) PROVE DocumentInv'
    BY <1>19, BusyLease
    DEF CupsAnswerLost, Concludes, WorkerGoes, DocumentInv, TypeOK,
      WorkerType, HistoryType, LeaseType, WorkerInv, PrinterOf, Delivery,
      IdleWorker, LeaseOf, leaseVars, paperVars, historyVars
<1>20. ASSUME NEW w \in Workers, NEW v \in Verdicts, CupsVerdict(w, v) PROVE DocumentInv'
    BY <1>20, BusyLease
    DEF CupsVerdict, Concludes, WorkerGoes, DocumentInv, TypeOK, WorkerType,
      HistoryType, LeaseType, WorkerInv, PrinterOf, Delivery, IdleWorker,
      LeaseOf, leaseVars, paperVars, historyVars
<1>21. ASSUME NEW l \in Leases, CupsPrints(l) PROVE DocumentInv'
    BY <1>21
    DEF CupsPrints, DocumentInv, TypeOK, WorkerType, HistoryType, LeaseType,
      WorkerInv, PrinterOf, Delivery, IdleWorker, leaseVars, historyVars
<1>22. ASSUME UNCHANGED <<onPaper, spooled, misread, epoch, leasePrinter, worker, verdict>> PROVE DocumentInv'
    BY <1>22
    DEF DocumentInv, PrinterOf
<1>23. CASE Backend
    BY <1>23, <1>1, <1>3, <1>4, <1>5, <1>6, <1>7, <1>8, <1>22
    DEF Backend, CreateJob, ReadNotPrinted, TakeStatus, BackendRestarts,
      rowVars, printerVars, leaseVars, netVars, paperVars, historyVars
<1>24. CASE Reaper
    BY <1>24, <1>22
    DEF Reaper, SweepClaimed, SweepReads, SweepDelivering,
      RequeueClaimedExpired, UnresolveActiveExpired, rowVars, printerVars,
      leaseVars, netVars, paperVars, historyVars
<1>25. CASE Administrator
    BY <1>25, <1>22
    DEF Administrator, ResolveReprinted, ResolveFinally, SetPrinterActive,
      StartMaintenance, TryAdvanceToLocked, EndMaintenance, rowVars,
      printerVars, leaseVars, netVars, paperVars, historyVars
<1>26. ASSUME NEW w \in Workers, WorkerStep(w) PROVE DocumentInv'
    BY <1>26, <1>2, <1>9, <1>10, <1>11, <1>12, <1>13, <1>14, <1>15, <1>16,
      <1>17, <1>18, <1>19, <1>20, <1>22
    DEF WorkerStep, BeatHeart, Send, rowVars, printerVars, leaseVars,
      netVars, paperVars, historyVars
<1>27. CASE Environment
    BY <1>27, <1>21, <1>22
    DEF Environment, LeaseExpires, RequestLost, rowVars, printerVars,
      leaseVars, netVars, paperVars, historyVars
<1> QED
    BY <1>23, <1>24, <1>25, <1>26, <1>27
    DEF Next

(* Nothing of a disowned attempt comes out of a printer.                   *)
LEMMA DisownedStepInv ==
    ASSUME IInv, Next
    PROVE  DisownedInv'
<1> USE DEF IInv
<1>1. ASSUME NEW w \in Workers, ConfigurationInvalid(w) PROVE DisownedInv'
    BY <1>1, BusyLease
    DEF ConfigurationInvalid, Concludes, WorkerGoes, DisownedInv, TypeOK,
      HistoryType, LeaseType, DocumentInv, Delivery, Disowned, NotPrinted,
      LeaseOf, PrinterOf, leaseVars, paperVars, historyVars
<1>2. ASSUME NEW w \in Workers, NEW v \in Verdicts, DirectVerdict(w, v) PROVE DisownedInv'
    BY <1>2, BusyLease
    DEF DirectVerdict, Concludes, WorkerGoes, DisownedInv, TypeOK,
      HistoryType, LeaseType, DocumentInv, Delivery, Disowned, NotPrinted,
      LeaseOf, PrinterOf, leaseVars, paperVars, historyVars
<1>3. ASSUME NEW w \in Workers, NEW v \in Verdicts, CupsRefuses(w, v) PROVE DisownedInv'
    BY <1>3, BusyLease
    DEF CupsRefuses, Concludes, WorkerGoes, DisownedInv, TypeOK, HistoryType,
      LeaseType, DocumentInv, Delivery, Disowned, NotPrinted, LeaseOf,
      PrinterOf, leaseVars, paperVars, historyVars
<1>4. ASSUME NEW w \in Workers, CupsAnswerLost(w) PROVE DisownedInv'
    BY <1>4, BusyLease
    DEF CupsAnswerLost, Concludes, WorkerGoes, DisownedInv, TypeOK,
      HistoryType, LeaseType, DocumentInv, Delivery, Disowned, NotPrinted,
      LeaseOf, PrinterOf, leaseVars, paperVars, historyVars
<1>5. ASSUME NEW w \in Workers, NEW v \in Verdicts, CupsVerdict(w, v) PROVE DisownedInv'
    BY <1>5, BusyLease
    DEF CupsVerdict, Concludes, WorkerGoes, DisownedInv, TypeOK, HistoryType,
      LeaseType, DocumentInv, Delivery, Disowned, NotPrinted, LeaseOf,
      PrinterOf, leaseVars, paperVars, historyVars
<1>6. ASSUME NEW w \in Workers, RequestFails(w) PROVE DisownedInv'
    BY <1>6, BusyLease
    DEF RequestFails, Concludes, WorkerGoes, Stops, DisownedInv, TypeOK,
      HistoryType, LeaseType, DocumentInv, Delivery, Disowned, NotPrinted,
      LeaseOf, PrinterOf, leaseVars, paperVars, historyVars
<1>7. ASSUME NEW w \in Workers, SendBytes(w) PROVE DisownedInv'
    BY <1>7, BusyLease
    DEF SendBytes, DisownedInv, TypeOK, HistoryType, LeaseType, DocumentInv,
      Delivery, Disowned, NotPrinted, LeaseOf, leaseVars, historyVars
<1>8. ASSUME NEW w \in Workers, CupsAccepts(w) PROVE DisownedInv'
    BY <1>8, BusyLease
    DEF CupsAccepts, WorkerGoes, Send, DisownedInv, TypeOK, HistoryType,
      LeaseType, DocumentInv, Delivery, Disowned, NotPrinted, LeaseOf,
      leaseVars, historyVars
<1>9. ASSUME NEW l \in Leases, CupsPrints(l) PROVE DisownedInv'
    BY <1>9
    DEF CupsPrints, DisownedInv, TypeOK, HistoryType, LeaseType, DocumentInv,
      Delivery, Disowned, NotPrinted, leaseVars, historyVars
<1>10. ASSUME UNCHANGED <<verdict, spooled, onPaper, misread>> PROVE DisownedInv'
    BY <1>10
    DEF DisownedInv, Disowned
<1>11. CASE Backend
    BY <1>11, <1>10
    DEF Backend, CreateJob, ClaimAnswerLost, ClaimNextJob, TransitionPhase,
      Heartbeat, FinalizeAsPrinted, TakeStatus, Finalize,
      FinalizeAsUnresolved, ReadNotPrinted, TryFailover, FinalizeAsFailed,
      BackendRestarts, rowVars, printerVars, leaseVars, netVars, paperVars,
      historyVars
<1>12. CASE Reaper
    BY <1>12, <1>10
    DEF Reaper, SweepClaimed, SweepReads, SweepDelivering,
      RequeueClaimedExpired, UnresolveActiveExpired, rowVars, printerVars,
      leaseVars, netVars, paperVars, historyVars
<1>13. CASE Administrator
    BY <1>13, <1>10
    DEF Administrator, ResolveReprinted, ResolveFinally, SetPrinterActive,
      StartMaintenance, TryAdvanceToLocked, EndMaintenance, rowVars,
      printerVars, leaseVars, netVars, paperVars, historyVars
<1>14. ASSUME NEW w \in Workers, WorkerStep(w) PROVE DisownedInv'
    BY <1>14, <1>1, <1>2, <1>3, <1>4, <1>5, <1>6, <1>7, <1>8, <1>10
    DEF WorkerStep, Claim, ClaimNextJob, ConfirmDelivering, Send, BeatHeart,
      SendReport, GiveUpReport, WorkerCrashes, rowVars, printerVars,
      leaseVars, netVars, paperVars, historyVars
<1>15. CASE Environment
    BY <1>15, <1>9, <1>10
    DEF Environment, LeaseExpires, RequestLost, rowVars, printerVars,
      leaseVars, netVars, paperVars, historyVars
<1> QED
    BY <1>11, <1>12, <1>13, <1>14, <1>15
    DEF Next

(* No attempt is admitted under a decision not yet taken.                  *)
LEMMA EpochStepInv ==
    ASSUME IInv, Next
    PROVE  EpochInv'
<1> USE DEF IInv
<1>1. ASSUME NEW j \in Jobs, ClaimAnswerLost(j) PROVE EpochInv'
    BY <1>1, ClaimFresh
    DEF ClaimAnswerLost, ClaimNextJob, EpochInv, TypeOK, HistoryType,
      LeaseType, LeaseInv
<1>2. ASSUME NEW w \in Workers, NEW j \in Jobs, Claim(w, j) PROVE EpochInv'
    BY <1>2, ClaimFresh
    DEF Claim, ClaimNextJob, EpochInv, TypeOK, HistoryType, LeaseType,
      LeaseInv
<1>3. ASSUME NEW l \in Leases, NEW k \in RequestKinds, TransitionPhase(l, k) PROVE EpochInv'
    BY <1>3, RequestedJob, EpochPositive, BoundsAssumption
    DEF TransitionPhase, EpochInv, TypeOK, HistoryType, LeaseType, Request,
      leaseVars
<1>4. ASSUME NEW j \in Jobs, NEW t \in Printers \union {NoPrinter}, ResolveReprinted(j, t) PROVE EpochInv'
    BY <1>4, BoundsAssumption
    DEF ResolveReprinted, EpochInv, TypeOK, HistoryType, LeaseType,
      leaseVars, historyVars, LeaseInv
<1>5. ASSUME UNCHANGED <<epoch, reprints, leaseJob>> PROVE EpochInv'
    BY <1>5
    DEF EpochInv
<1>6. CASE Backend
    BY <1>6, <1>1, <1>3, <1>5
    DEF Backend, CreateJob, Heartbeat, FinalizeAsPrinted, TakeStatus,
      Finalize, FinalizeAsUnresolved, ReadNotPrinted, TryFailover,
      FinalizeAsFailed, BackendRestarts, rowVars, printerVars, leaseVars,
      netVars, paperVars, historyVars
<1>7. CASE Reaper
    BY <1>7, <1>5
    DEF Reaper, SweepClaimed, SweepReads, SweepDelivering,
      RequeueClaimedExpired, UnresolveActiveExpired, rowVars, printerVars,
      leaseVars, netVars, paperVars, historyVars
<1>8. CASE Administrator
    BY <1>8, <1>4, <1>5
    DEF Administrator, ResolveFinally, SetPrinterActive, StartMaintenance,
      TryAdvanceToLocked, EndMaintenance, rowVars, printerVars, leaseVars,
      netVars, paperVars, historyVars
<1>9. ASSUME NEW w \in Workers, WorkerStep(w) PROVE EpochInv'
    BY <1>9, <1>2, <1>5
    DEF WorkerStep, ConfigurationInvalid, Concludes, ConfirmDelivering, Send,
      SendBytes, DirectVerdict, CupsRefuses, CupsAccepts, CupsAnswerLost,
      CupsVerdict, BeatHeart, SendReport, GiveUpReport, RequestFails,
      WorkerCrashes, rowVars, printerVars, leaseVars, netVars, paperVars,
      historyVars
<1>10. CASE Environment
    BY <1>10, <1>5
    DEF Environment, LeaseExpires, CupsPrints, RequestLost, rowVars,
      printerVars, leaseVars, netVars, paperVars, historyVars
<1> QED
    BY <1>6, <1>7, <1>8, <1>9, <1>10
    DEF Next

(* An attempt that was admitted belongs to a job.                          *)
LEMMA CurrentJob ==
    ASSUME IInv, NEW l \in Leases, epoch[l] # 0
    PROVE  l <= issued /\ leaseJob[l] \in Jobs
BY BoundsAssumption DEF IInv, TypeOK, LeaseType, LeaseInv, Leases

(* Row j changes so that its current attempts are settled; the others stay. *)
LEMMA RowChange ==
    ASSUME IInv, NEW j,
           UNCHANGED <<epoch, reprints, leaseJob, verdict>>,
           \A i \in Jobs \ {j} : /\ status'[i] = status[i] /\ phase'[i] = phase[i]
                                 /\ leaseId'[i] = leaseId[i],
           \A l \in Leases : leaseJob[l] = j /\ Current(l) =>
                Disowned(l) \/ status'[j] \in Decided
    PROVE  CurrentInv'
<1> SUFFICES ASSUME NEW l \in Leases, Current(l)'
             PROVE  (Delivers(l) \/ status[leaseJob[l]] \in Decided \/ Disowned(l))'
    BY DEF CurrentInv
<1>1. Current(l) /\ epoch[l] # 0
    BY DEF Current
<1>2. leaseJob[l] \in Jobs
    BY <1>1, CurrentJob
<1>3. CASE leaseJob[l] = j
    BY <1>1, <1>3 DEF Disowned
<1>4. CASE leaseJob[l] # j
    BY <1>1, <1>2, <1>4 DEF IInv, CurrentInv, Delivers, Owns, Disowned
<1> QED
    BY <1>3, <1>4

(* A claim finds the current attempts of its job disowned.                 *)
LEMMA ClaimCurrentInv ==
    ASSUME IInv, NEW j \in Jobs, ClaimNextJob(j)
    PROVE  CurrentInv'
<1> SUFFICES ASSUME NEW l \in Leases, Current(l)'
             PROVE  (Delivers(l) \/ status[leaseJob[l]] \in Decided \/ Disowned(l))'
    BY DEF CurrentInv
<1>1. l <= issued /\ leaseJob[l] \in Jobs
    BY ClaimFresh, CurrentJob DEF Current
<1>2. Current(l) /\ leaseJob'[l] = leaseJob[l]
    BY <1>1, ClaimFresh DEF Current
<1>3. Delivers(l) \/ status[leaseJob[l]] \in Decided \/ Disowned(l)
    BY <1>2 DEF IInv, CurrentInv
<1>4. /\ status[j] = "PENDING" /\ UNCHANGED verdict
      /\ \A i \in Jobs \ {j} : /\ status'[i] = status[i] /\ phase'[i] = phase[i]
                               /\ leaseId'[i] = leaseId[i]
    BY DEF ClaimNextJob, Oldest, IInv, TypeOK, RowType
<1> QED
    BY <1>1, <1>2, <1>3, <1>4 DEF Delivers, Owns, Disowned, Decided

(* A current attempt keeps its row until the row leaves the automatic path or*)
(* the attempt is disowned.                                                *)
LEMMA CurrentStepInv ==
    ASSUME IInv, Next
    PROVE  CurrentInv'
<1> USE DEF IInv
<1>1. ASSUME NEW j \in Jobs, NEW p \in JobPrinters, CreateJob(j, p) PROVE CurrentInv'
  <2>1. UNCHANGED <<epoch, reprints, leaseJob, verdict>>
    BY <1>1 DEF CreateJob, leaseVars, historyVars
  <2>2. \A i \in Jobs \ {j} : /\ status'[i] = status[i] /\ phase'[i] = phase[i]
                               /\ leaseId'[i] = leaseId[i]
    BY <1>1 DEF CreateJob, TypeOK, RowType
  <2>3. \A i \in Leases : leaseJob[i] = j /\ Current(i) =>
          Disowned(i) \/ status'[j] \in Decided
    BY <1>1, CurrentJob
    DEF CreateJob, TypeOK, RowType, CurrentInv, Current, Delivers, Owns, Disowned,
      Decided, LeaseInv, RowInv
  <2> QED
    BY <2>1, <2>2, <2>3, RowChange
<1>2. ASSUME NEW j \in Jobs, ClaimAnswerLost(j) PROVE CurrentInv'
  <2>1. ClaimNextJob(j)
    BY <1>2 DEF ClaimAnswerLost
  <2> QED
    BY <2>1, ClaimCurrentInv
<1>3. ASSUME NEW w \in Workers, NEW j \in Jobs, Claim(w, j) PROVE CurrentInv'
  <2>1. ClaimNextJob(j)
    BY <1>3 DEF Claim
  <2> QED
    BY <2>1, ClaimCurrentInv
<1>4. ASSUME NEW l \in Leases, NEW k \in RequestKinds, TransitionPhase(l, k) PROVE CurrentInv'
  <2>1. CASE ~MayTransition(l, k)
    <3>1. UNCHANGED <<epoch, reprints, leaseJob, verdict, status, phase, leaseId>>
      BY <1>4, <2>1 DEF TransitionPhase, leaseVars
    <3> QED
      BY <3>1 DEF CurrentInv, Current, Delivers, Owns, Disowned
  <2>2. CASE MayTransition(l, k)
    <3>1. leaseJob[l] \in Jobs
      BY <1>4, RequestedJob DEF TransitionPhase, Request
    <3>2. /\ UNCHANGED <<reprints, leaseJob, verdict, status, leaseId>>
          /\ phase' = [phase EXCEPT ![leaseJob[l]] = k]
          /\ k \in {"DELIVERING", "SPOOLED"}
          /\ \A i \in Leases : i # l => epoch'[i] = epoch[i]
      BY <1>4, <2>2 DEF TransitionPhase, leaseVars, TypeOK, HistoryType
    <3>3. Delivers(l)'
      BY <2>2, <3>1, <3>2 DEF MayTransition, Delivers, Owns, TypeOK, RowType
    <3>4. ASSUME NEW i \in Leases, i # l, Current(i)'
          PROVE  (Delivers(i) \/ status[leaseJob[i]] \in Decided \/ Disowned(i))'
      <4>1. Current(i) /\ leaseJob[i] \in Jobs
        BY <3>2, <3>4, CurrentJob DEF Current
      <4>2. Delivers(i) \/ status[leaseJob[i]] \in Decided \/ Disowned(i)
        BY <4>1 DEF CurrentInv
      <4>3. Delivers(i) => leaseJob[i] # leaseJob[l]
        BY <2>2, <3>4 DEF Delivers, MayTransition, Owns
      <4> QED
        BY <3>2, <4>1, <4>2, <4>3 DEF Delivers, Owns, Disowned, TypeOK, RowType
    <3> QED
      BY <3>3, <3>4 DEF CurrentInv
  <2> QED
    BY <2>1, <2>2
<1>5. ASSUME NEW l \in Leases, FinalizeAsPrinted(l) PROVE CurrentInv'
  <2>1. CASE ~Owns(l)
    <3>1. UNCHANGED <<epoch, reprints, leaseJob, verdict, status, phase, leaseId>>
      BY <1>5, <2>1 DEF FinalizeAsPrinted, leaseVars, historyVars
    <3> QED
      BY <3>1 DEF CurrentInv, Current, Delivers, Owns, Disowned
  <2>2. CASE Owns(l)
    <3>1. UNCHANGED <<epoch, reprints, leaseJob, verdict>>
      BY <1>5, <2>2 DEF FinalizeAsPrinted, leaseVars, historyVars
    <3>2. \A i \in Jobs \ {leaseJob[l]} : /\ status'[i] = status[i] /\ phase'[i] = phase[i]
                                 /\ leaseId'[i] = leaseId[i]
      BY <1>5, <2>2 DEF FinalizeAsPrinted, TakeStatus, Finalize, TypeOK, RowType
    <3>3. \A i \in Leases : leaseJob[i] = leaseJob[l] /\ Current(i) =>
            Disowned(i) \/ status'[leaseJob[l]] \in Decided
      BY <1>5, CurrentJob, <2>2
      DEF FinalizeAsPrinted, TakeStatus, Finalize, TypeOK, RowType, CurrentInv, Current, Delivers, Owns, Disowned,
        Decided
    <3> QED
      BY <3>1, <3>2, <3>3, RowChange
  <2> QED
    BY <2>1, <2>2
<1>6. ASSUME NEW l \in Leases, FinalizeAsUnresolved(l) PROVE CurrentInv'
  <2>1. CASE ~Owns(l)
    <3>1. UNCHANGED <<epoch, reprints, leaseJob, verdict, status, phase, leaseId>>
      BY <1>6, <2>1 DEF FinalizeAsUnresolved, leaseVars, historyVars
    <3> QED
      BY <3>1 DEF CurrentInv, Current, Delivers, Owns, Disowned
  <2>2. CASE Owns(l)
    <3>1. UNCHANGED <<epoch, reprints, leaseJob, verdict>>
      BY <1>6, <2>2 DEF FinalizeAsUnresolved, leaseVars, historyVars
    <3>2. \A i \in Jobs \ {leaseJob[l]} : /\ status'[i] = status[i] /\ phase'[i] = phase[i]
                                 /\ leaseId'[i] = leaseId[i]
      BY <1>6, <2>2 DEF FinalizeAsUnresolved, TakeStatus, Finalize, TypeOK, RowType
    <3>3. \A i \in Leases : leaseJob[i] = leaseJob[l] /\ Current(i) =>
            Disowned(i) \/ status'[leaseJob[l]] \in Decided
      BY <1>6, CurrentJob, <2>2
      DEF FinalizeAsUnresolved, TakeStatus, Finalize, TypeOK, RowType, CurrentInv, Current, Delivers, Owns, Disowned,
        Decided
    <3> QED
      BY <3>1, <3>2, <3>3, RowChange
  <2> QED
    BY <2>1, <2>2
<1>7. ASSUME NEW h \in failing, TryFailover(h) PROVE CurrentInv'
  <2>1. CASE ~MayFailOver(h.lease)
    <3>1. UNCHANGED <<epoch, reprints, leaseJob, verdict, status, phase, leaseId>>
      BY <1>7, <2>1 DEF TryFailover, leaseVars, historyVars
    <3> QED
      BY <3>1 DEF CurrentInv, Current, Delivers, Owns, Disowned
  <2>2. CASE MayFailOver(h.lease)
    <3>1. UNCHANGED <<epoch, reprints, leaseJob, verdict>>
      BY <1>7, <2>2 DEF TryFailover, leaseVars, historyVars
    <3>2. \A i \in Jobs \ {leaseJob[h.lease]} : /\ status'[i] = status[i] /\ phase'[i] = phase[i]
                                 /\ leaseId'[i] = leaseId[i]
      BY <1>7, <2>2 DEF TryFailover, Finalize, TypeOK, RowType
    <3>3. \A i \in Leases : leaseJob[i] = leaseJob[h.lease] /\ Current(i) =>
            Disowned(i) \/ status'[leaseJob[h.lease]] \in Decided
      BY <1>7, CurrentJob, <2>2
      DEF TryFailover, Finalize, TypeOK, RowType, CurrentInv, Current, Delivers, Owns, Disowned,
        Decided, MayFailOver, RequestInv
    <3> QED
      BY <3>1, <3>2, <3>3, RowChange
  <2> QED
    BY <2>1, <2>2
<1>8. ASSUME NEW h \in failing, FinalizeAsFailed(h) PROVE CurrentInv'
  <2>1. CASE ~Owns(h.lease)
    <3>1. UNCHANGED <<epoch, reprints, leaseJob, verdict, status, phase, leaseId>>
      BY <1>8, <2>1 DEF FinalizeAsFailed, leaseVars, historyVars
    <3> QED
      BY <3>1 DEF CurrentInv, Current, Delivers, Owns, Disowned
  <2>2. CASE Owns(h.lease)
    <3>1. UNCHANGED <<epoch, reprints, leaseJob, verdict>>
      BY <1>8, <2>2 DEF FinalizeAsFailed, leaseVars, historyVars
    <3>2. \A i \in Jobs \ {leaseJob[h.lease]} : /\ status'[i] = status[i] /\ phase'[i] = phase[i]
                                 /\ leaseId'[i] = leaseId[i]
      BY <1>8, <2>2 DEF FinalizeAsFailed, Finalize, TypeOK, RowType
    <3>3. \A i \in Leases : leaseJob[i] = leaseJob[h.lease] /\ Current(i) =>
            Disowned(i) \/ status'[leaseJob[h.lease]] \in Decided
      BY <1>8, CurrentJob, <2>2
      DEF FinalizeAsFailed, Finalize, TypeOK, RowType, CurrentInv, Current, Delivers, Owns, Disowned,
        Decided, RequestInv
    <3> QED
      BY <3>1, <3>2, <3>3, RowChange
  <2> QED
    BY <2>1, <2>2
<1>9. ASSUME NEW c \in sweep, RequeueClaimedExpired(c) PROVE CurrentInv'
  <2>1. CASE ~StillIn(c)
    <3>1. UNCHANGED <<epoch, reprints, leaseJob, verdict, status, phase, leaseId>>
      BY <1>9, <2>1 DEF RequeueClaimedExpired, leaseVars, historyVars
    <3> QED
      BY <3>1 DEF CurrentInv, Current, Delivers, Owns, Disowned
  <2>2. CASE StillIn(c)
    <3>1. UNCHANGED <<epoch, reprints, leaseJob, verdict>>
      BY <1>9, <2>2 DEF RequeueClaimedExpired, leaseVars, historyVars
    <3>2. \A i \in Jobs \ {c.job} : /\ status'[i] = status[i] /\ phase'[i] = phase[i]
                                 /\ leaseId'[i] = leaseId[i]
      BY <1>9, <2>2 DEF RequeueClaimedExpired, TypeOK, RowType
    <3>3. \A i \in Leases : leaseJob[i] = c.job /\ Current(i) =>
            Disowned(i) \/ status'[c.job] \in Decided
      BY <1>9, CurrentJob, <2>2
      DEF RequeueClaimedExpired, TypeOK, RowType, CurrentInv, Current, Delivers, Owns, Disowned,
        Decided, StillIn
    <3> QED
      BY <3>1, <3>2, <3>3, RowChange
  <2> QED
    BY <2>1, <2>2
<1>10. ASSUME NEW c \in sweep, UnresolveActiveExpired(c) PROVE CurrentInv'
  <2>1. CASE ~StillIn(c)
    <3>1. UNCHANGED <<epoch, reprints, leaseJob, verdict, status, phase, leaseId>>
      BY <1>10, <2>1 DEF UnresolveActiveExpired, leaseVars, historyVars
    <3> QED
      BY <3>1 DEF CurrentInv, Current, Delivers, Owns, Disowned
  <2>2. CASE StillIn(c)
    <3>1. UNCHANGED <<epoch, reprints, leaseJob, verdict>>
      BY <1>10, <2>2 DEF UnresolveActiveExpired, leaseVars, historyVars
    <3>2. \A i \in Jobs \ {c.job} : /\ status'[i] = status[i] /\ phase'[i] = phase[i]
                                 /\ leaseId'[i] = leaseId[i]
      BY <1>10, <2>2 DEF UnresolveActiveExpired, TypeOK, RowType
    <3>3. \A i \in Leases : leaseJob[i] = c.job /\ Current(i) =>
            Disowned(i) \/ status'[c.job] \in Decided
      BY <1>10, CurrentJob, <2>2
      DEF UnresolveActiveExpired, TypeOK, RowType, CurrentInv, Current, Delivers, Owns, Disowned,
        Decided, StillIn
    <3> QED
      BY <3>1, <3>2, <3>3, RowChange
  <2> QED
    BY <2>1, <2>2
<1>11. ASSUME NEW j \in Jobs, NEW t \in Printers \union {NoPrinter}, ResolveReprinted(j, t) PROVE CurrentInv'
    BY <1>11
    DEF ResolveReprinted, CurrentInv, Current, EpochInv, LeaseInv, TypeOK,
      RowType, HistoryType, Delivers, Owns, Disowned, Decided, leaseVars,
      historyVars
<1>12. ASSUME NEW j \in Jobs, NEW s \in Terminal, ResolveFinally(j, s) PROVE CurrentInv'
  <2>1. UNCHANGED <<epoch, reprints, leaseJob, verdict>>
    BY <1>12 DEF ResolveFinally, leaseVars, historyVars
  <2>2. \A i \in Jobs \ {j} : /\ status'[i] = status[i] /\ phase'[i] = phase[i]
                               /\ leaseId'[i] = leaseId[i]
    BY <1>12 DEF ResolveFinally, TypeOK, RowType
  <2>3. \A i \in Leases : leaseJob[i] = j /\ Current(i) =>
          Disowned(i) \/ status'[j] \in Decided
    BY <1>12, CurrentJob
    DEF ResolveFinally, TypeOK, RowType, CurrentInv, Current, Delivers, Owns, Disowned,
      Decided
  <2> QED
    BY <2>1, <2>2, <2>3, RowChange
<1>13. ASSUME NEW w \in Workers, ConfigurationInvalid(w) PROVE CurrentInv'
    BY <1>13, BusyLease
    DEF ConfigurationInvalid, Concludes, WorkerGoes, CurrentInv, TypeOK,
      LeaseType, HistoryType, Current, Delivers, Owns, Disowned, rowVars,
      historyVars, leaseVars, DocumentInv, LeaseOf, Delivery, NotPrinted
<1>14. ASSUME NEW w \in Workers, NEW v \in Verdicts, DirectVerdict(w, v) PROVE CurrentInv'
    BY <1>14, BusyLease
    DEF DirectVerdict, Concludes, WorkerGoes, CurrentInv, TypeOK, LeaseType,
      HistoryType, Current, Delivers, Owns, Disowned, rowVars, historyVars,
      leaseVars, DocumentInv, LeaseOf, Delivery, NotPrinted
<1>15. ASSUME NEW w \in Workers, NEW v \in Verdicts, CupsRefuses(w, v) PROVE CurrentInv'
    BY <1>15, BusyLease
    DEF CupsRefuses, Concludes, WorkerGoes, CurrentInv, TypeOK, LeaseType,
      HistoryType, Current, Delivers, Owns, Disowned, rowVars, historyVars,
      leaseVars, DocumentInv, LeaseOf, Delivery, NotPrinted
<1>16. ASSUME NEW w \in Workers, CupsAnswerLost(w) PROVE CurrentInv'
    BY <1>16, BusyLease
    DEF CupsAnswerLost, Concludes, WorkerGoes, CurrentInv, TypeOK, LeaseType,
      HistoryType, Current, Delivers, Owns, Disowned, rowVars, historyVars,
      leaseVars, DocumentInv, LeaseOf, Delivery, NotPrinted
<1>17. ASSUME NEW w \in Workers, NEW v \in Verdicts, CupsVerdict(w, v) PROVE CurrentInv'
    BY <1>17, BusyLease
    DEF CupsVerdict, Concludes, WorkerGoes, CurrentInv, TypeOK, LeaseType,
      HistoryType, Current, Delivers, Owns, Disowned, rowVars, historyVars,
      leaseVars, DocumentInv, LeaseOf, Delivery, NotPrinted
<1>18. ASSUME NEW w \in Workers, RequestFails(w) PROVE CurrentInv'
    BY <1>18, BusyLease
    DEF RequestFails, Concludes, WorkerGoes, Stops, CurrentInv, TypeOK,
      LeaseType, HistoryType, Current, Delivers, Owns, Disowned, rowVars,
      historyVars, leaseVars, DocumentInv, LeaseOf, Delivery, NotPrinted
<1>19. ASSUME UNCHANGED <<epoch, reprints, leaseJob, status, leaseId, phase, verdict>> PROVE CurrentInv'
    BY <1>19
    DEF CurrentInv, Current, Delivers, Owns, Disowned
<1>20. CASE Backend
    BY <1>20, <1>1, <1>2, <1>4, <1>5, <1>6, <1>7, <1>8, <1>19
    DEF Backend, Heartbeat, ReadNotPrinted, TakeStatus, BackendRestarts,
      rowVars, printerVars, leaseVars, netVars, paperVars, historyVars
<1>21. CASE Reaper
    BY <1>21, <1>9, <1>10, <1>19
    DEF Reaper, SweepClaimed, SweepReads, SweepDelivering, rowVars,
      printerVars, leaseVars, netVars, paperVars, historyVars
<1>22. CASE Administrator
    BY <1>22, <1>11, <1>12, <1>19
    DEF Administrator, SetPrinterActive, StartMaintenance,
      TryAdvanceToLocked, EndMaintenance, rowVars, printerVars, leaseVars,
      netVars, paperVars, historyVars
<1>23. ASSUME NEW w \in Workers, WorkerStep(w) PROVE CurrentInv'
    BY <1>23, <1>3, <1>13, <1>14, <1>15, <1>16, <1>17, <1>18, <1>19
    DEF WorkerStep, ConfirmDelivering, Send, SendBytes, CupsAccepts,
      BeatHeart, SendReport, GiveUpReport, WorkerCrashes, rowVars,
      printerVars, leaseVars, netVars, paperVars, historyVars
<1>24. CASE Environment
    BY <1>24, <1>19
    DEF Environment, LeaseExpires, CupsPrints, RequestLost, rowVars,
      printerVars, leaseVars, netVars, paperVars, historyVars
<1> QED
    BY <1>20, <1>21, <1>22, <1>23, <1>24
    DEF Next

(* A second attempt is admitted under a decision only when the first one was*)
(* disowned.                                                               *)
LEMMA PairStepInv ==
    ASSUME IInv, Next
    PROVE  PairInv'
<1> USE DEF IInv
<1>1. ASSUME NEW j \in Jobs, ClaimAnswerLost(j) PROVE PairInv'
    BY <1>1, ClaimFresh
    DEF ClaimAnswerLost, ClaimNextJob, PairInv, TypeOK, HistoryType,
      LeaseType, SameDecision, Disowned, LeaseInv
<1>2. ASSUME NEW w \in Workers, NEW j \in Jobs, Claim(w, j) PROVE PairInv'
    BY <1>2, ClaimFresh
    DEF Claim, ClaimNextJob, PairInv, TypeOK, HistoryType, LeaseType,
      SameDecision, Disowned, LeaseInv
<1>3. ASSUME NEW l \in Leases, NEW k \in RequestKinds, TransitionPhase(l, k) PROVE PairInv'
    BY <1>3, RequestedJob, EpochPositive
    DEF TransitionPhase, PairInv, TypeOK, HistoryType, LeaseType,
      SameDecision, Disowned, CurrentInv, EpochInv, Current, Delivers,
      Decided, Owns, MayTransition, ExpectedFrom, Request, leaseVars
<1>4. ASSUME NEW w \in Workers, ConfigurationInvalid(w) PROVE PairInv'
    BY <1>4, BusyLease
    DEF ConfigurationInvalid, Concludes, WorkerGoes, PairInv, TypeOK,
      HistoryType, LeaseType, SameDecision, Disowned, historyVars, leaseVars,
      DocumentInv, LeaseOf, Delivery, NotPrinted
<1>5. ASSUME NEW w \in Workers, NEW v \in Verdicts, DirectVerdict(w, v) PROVE PairInv'
    BY <1>5, BusyLease
    DEF DirectVerdict, Concludes, WorkerGoes, PairInv, TypeOK, HistoryType,
      LeaseType, SameDecision, Disowned, historyVars, leaseVars, DocumentInv,
      LeaseOf, Delivery, NotPrinted
<1>6. ASSUME NEW w \in Workers, NEW v \in Verdicts, CupsRefuses(w, v) PROVE PairInv'
    BY <1>6, BusyLease
    DEF CupsRefuses, Concludes, WorkerGoes, PairInv, TypeOK, HistoryType,
      LeaseType, SameDecision, Disowned, historyVars, leaseVars, DocumentInv,
      LeaseOf, Delivery, NotPrinted
<1>7. ASSUME NEW w \in Workers, CupsAnswerLost(w) PROVE PairInv'
    BY <1>7, BusyLease
    DEF CupsAnswerLost, Concludes, WorkerGoes, PairInv, TypeOK, HistoryType,
      LeaseType, SameDecision, Disowned, historyVars, leaseVars, DocumentInv,
      LeaseOf, Delivery, NotPrinted
<1>8. ASSUME NEW w \in Workers, NEW v \in Verdicts, CupsVerdict(w, v) PROVE PairInv'
    BY <1>8, BusyLease
    DEF CupsVerdict, Concludes, WorkerGoes, PairInv, TypeOK, HistoryType,
      LeaseType, SameDecision, Disowned, historyVars, leaseVars, DocumentInv,
      LeaseOf, Delivery, NotPrinted
<1>9. ASSUME NEW w \in Workers, RequestFails(w) PROVE PairInv'
    BY <1>9, BusyLease
    DEF RequestFails, Concludes, WorkerGoes, Stops, PairInv, TypeOK,
      HistoryType, LeaseType, SameDecision, Disowned, historyVars, leaseVars,
      DocumentInv, LeaseOf, Delivery, NotPrinted
<1>10. ASSUME UNCHANGED <<epoch, leaseJob, verdict>> PROVE PairInv'
    BY <1>10
    DEF PairInv, SameDecision, Disowned
<1>11. CASE Backend
    BY <1>11, <1>1, <1>3, <1>10
    DEF Backend, CreateJob, Heartbeat, FinalizeAsPrinted, TakeStatus,
      Finalize, FinalizeAsUnresolved, ReadNotPrinted, TryFailover,
      FinalizeAsFailed, BackendRestarts, rowVars, printerVars, leaseVars,
      netVars, paperVars, historyVars
<1>12. CASE Reaper
    BY <1>12, <1>10
    DEF Reaper, SweepClaimed, SweepReads, SweepDelivering,
      RequeueClaimedExpired, UnresolveActiveExpired, rowVars, printerVars,
      leaseVars, netVars, paperVars, historyVars
<1>13. CASE Administrator
    BY <1>13, <1>10
    DEF Administrator, ResolveReprinted, ResolveFinally, SetPrinterActive,
      StartMaintenance, TryAdvanceToLocked, EndMaintenance, rowVars,
      printerVars, leaseVars, netVars, paperVars, historyVars
<1>14. ASSUME NEW w \in Workers, WorkerStep(w) PROVE PairInv'
    BY <1>14, <1>2, <1>4, <1>5, <1>6, <1>7, <1>8, <1>9, <1>10
    DEF WorkerStep, ConfirmDelivering, Send, SendBytes, CupsAccepts,
      BeatHeart, SendReport, GiveUpReport, WorkerCrashes, rowVars,
      printerVars, leaseVars, netVars, paperVars, historyVars
<1>15. CASE Environment
    BY <1>15, <1>10
    DEF Environment, LeaseExpires, CupsPrints, RequestLost, rowVars,
      printerVars, leaseVars, netVars, paperVars, historyVars
<1> QED
    BY <1>11, <1>12, <1>13, <1>14, <1>15
    DEF Next

(* Attempts may lose their rows but not gain one, and a row keeps its       *)
(* printer as long as an attempt holds it.                                 *)
LEMMA OwnershipShrinks ==
    ASSUME IInv, UNCHANGED <<issued, leaseJob, leasePrinter>>,
           failing' \subseteq failing,
           \A j \in Jobs : status'[j] = "PROCESSING" =>
                /\ status[j] = "PROCESSING"
                /\ UNCHANGED <<leaseId[j], activePrinterId[j], printerId[j]>>
    PROVE  HolderInv'
<1>1. \A l \in Leases : l <= issued /\ Owns(l)' =>
        Owns(l) /\ ActivePrinterOf(leaseJob[l])' = ActivePrinterOf(leaseJob[l])
    BY DEF IInv, LeaseInv, Owns, ActivePrinterOf
<1>2. \A h \in failing : h.lease \in Leases /\ h.lease <= issued
    BY DEF IInv, RequestInv, TypeOK, NetType, NotPrintedHandlers
<1> QED
    BY <1>1, <1>2 DEF IInv, HolderInv

(* A claim hands out the row's printer.                                    *)
LEMMA ClaimHolderInv ==
    ASSUME IInv, NEW j \in Jobs, ClaimNextJob(j)
    PROVE  HolderInv'
<1>0. issued \in Nat /\ issued + 1 \in Leases
    BY ClaimFresh, BoundsAssumption DEF IInv, TypeOK, LeaseType
<1>1. /\ status[j] = "PENDING" /\ leaseId'[j] = issued + 1
      /\ leasePrinter'[issued + 1] = ActivePrinterOf(j)
      /\ leaseJob'[issued + 1] = j
      /\ issued' = issued + 1
      /\ UNCHANGED <<printerId, activePrinterId, failing>>
      /\ \A i \in Jobs \ {j} : status'[i] = status[i] /\ leaseId'[i] = leaseId[i]
    BY <1>0 DEF ClaimNextJob, Oldest, netVars, IInv, TypeOK, RowType, LeaseType
<1>2. \A l \in Leases : l <= issued /\ Owns(l)' =>
        /\ Owns(l) /\ leasePrinter'[l] = leasePrinter[l]
        /\ ActivePrinterOf(leaseJob[l])' = ActivePrinterOf(leaseJob[l])
    BY <1>1, ClaimFresh DEF IInv, LeaseInv, Owns, ActivePrinterOf
<1>3. \A h \in failing : h.lease \in Leases /\ h.lease <= issued
    BY DEF IInv, RequestInv, TypeOK, NetType, NotPrintedHandlers
<1>4. \A l \in Leases : l <= issued' => l <= issued \/ l = issued + 1
    BY <1>0, <1>1 DEF Leases
<1>5. ActivePrinterOf(j)' = ActivePrinterOf(j)
    BY <1>1 DEF ActivePrinterOf
<1>6. \A l \in Leases : l <= issued' /\ Owns(l)' =>
        leasePrinter'[l] = ActivePrinterOf(leaseJob[l])'
    BY <1>1, <1>2, <1>4, <1>5 DEF IInv, HolderInv
<1>7. \A h \in failing' : Owns(h.lease)' => h.from = leasePrinter'[h.lease]
    BY <1>1, <1>2, <1>3 DEF IInv, HolderInv
<1> QED
    BY <1>6, <1>7 DEF HolderInv

(* The printer of the lease that holds a row does not change under it.     *)
LEMMA HolderStepInv ==
    ASSUME IInv, Next
    PROVE  HolderInv'
<1> USE DEF IInv
<1>1. ASSUME NEW j \in Jobs, NEW p \in JobPrinters, CreateJob(j, p) PROVE HolderInv'
  <2>1. UNCHANGED <<issued, leaseJob, leasePrinter>> /\ failing' \subseteq failing
    BY <1>1 DEF CreateJob, leaseVars, netVars
  <2>2. \A i \in Jobs : status'[i] = "PROCESSING" =>
          /\ status[i] = "PROCESSING"
          /\ UNCHANGED <<leaseId[i], activePrinterId[i], printerId[i]>>
    BY <1>1 DEF CreateJob, TypeOK, RowType
  <2> QED
    BY <2>1, <2>2, OwnershipShrinks
<1>2. ASSUME NEW j \in Jobs, ClaimAnswerLost(j) PROVE HolderInv'
  <2>1. ClaimNextJob(j)
    BY <1>2 DEF ClaimAnswerLost
  <2> QED
    BY <2>1, ClaimHolderInv
<1>3. ASSUME NEW w \in Workers, NEW j \in Jobs, Claim(w, j) PROVE HolderInv'
  <2>1. ClaimNextJob(j)
    BY <1>3 DEF Claim
  <2> QED
    BY <2>1, ClaimHolderInv
<1>4. ASSUME NEW l \in Leases, ReadNotPrinted(l) PROVE HolderInv'
  <2>1. /\ UNCHANGED <<rowVars, leaseVars>> /\ l <= issued
        /\ \A h \in failing' : h \in failing
              \/ (h.lease = l /\ h.from = ActivePrinterOf(leaseJob[l]))
    BY <1>4, RequestedJob DEF ReadNotPrinted, TakeStatus, Request
  <2> QED
    BY <2>1 DEF HolderInv, Owns, ActivePrinterOf, rowVars, leaseVars
<1>5. ASSUME NEW l \in Leases, FinalizeAsPrinted(l) PROVE HolderInv'
  <2>1. UNCHANGED <<issued, leaseJob, leasePrinter>> /\ failing' \subseteq failing
    BY <1>5 DEF FinalizeAsPrinted, leaseVars, netVars
  <2>2. \A i \in Jobs : status'[i] = "PROCESSING" =>
          /\ status[i] = "PROCESSING"
          /\ UNCHANGED <<leaseId[i], activePrinterId[i], printerId[i]>>
    BY <1>5 DEF FinalizeAsPrinted, TakeStatus, Finalize, TypeOK, RowType
  <2> QED
    BY <2>1, <2>2, OwnershipShrinks
<1>6. ASSUME NEW l \in Leases, FinalizeAsUnresolved(l) PROVE HolderInv'
  <2>1. UNCHANGED <<issued, leaseJob, leasePrinter>> /\ failing' \subseteq failing
    BY <1>6 DEF FinalizeAsUnresolved, leaseVars, netVars
  <2>2. \A i \in Jobs : status'[i] = "PROCESSING" =>
          /\ status[i] = "PROCESSING"
          /\ UNCHANGED <<leaseId[i], activePrinterId[i], printerId[i]>>
    BY <1>6 DEF FinalizeAsUnresolved, TakeStatus, Finalize, TypeOK, RowType
  <2> QED
    BY <2>1, <2>2, OwnershipShrinks
<1>7. ASSUME NEW h \in failing, TryFailover(h) PROVE HolderInv'
  <2>1. UNCHANGED <<issued, leaseJob, leasePrinter>> /\ failing' \subseteq failing
    BY <1>7 DEF TryFailover, leaseVars, netVars
  <2>2. \A i \in Jobs : status'[i] = "PROCESSING" =>
          /\ status[i] = "PROCESSING"
          /\ UNCHANGED <<leaseId[i], activePrinterId[i], printerId[i]>>
    BY <1>7 DEF TryFailover, Finalize, TypeOK, RowType
  <2> QED
    BY <2>1, <2>2, OwnershipShrinks
<1>8. ASSUME NEW h \in failing, FinalizeAsFailed(h) PROVE HolderInv'
  <2>1. UNCHANGED <<issued, leaseJob, leasePrinter>> /\ failing' \subseteq failing
    BY <1>8 DEF FinalizeAsFailed, leaseVars, netVars
  <2>2. \A i \in Jobs : status'[i] = "PROCESSING" =>
          /\ status[i] = "PROCESSING"
          /\ UNCHANGED <<leaseId[i], activePrinterId[i], printerId[i]>>
    BY <1>8 DEF FinalizeAsFailed, Finalize, TypeOK, RowType
  <2> QED
    BY <2>1, <2>2, OwnershipShrinks
<1>9. ASSUME BackendRestarts PROVE HolderInv'
  <2>1. UNCHANGED <<issued, leaseJob, leasePrinter>> /\ failing' \subseteq failing
    BY <1>9 DEF BackendRestarts, leaseVars, netVars
  <2>2. \A i \in Jobs : status'[i] = "PROCESSING" =>
          /\ status[i] = "PROCESSING"
          /\ UNCHANGED <<leaseId[i], activePrinterId[i], printerId[i]>>
    BY <1>9 DEF BackendRestarts, TypeOK, RowType, rowVars
  <2> QED
    BY <2>1, <2>2, OwnershipShrinks
<1>10. ASSUME NEW c \in sweep, RequeueClaimedExpired(c) PROVE HolderInv'
  <2>1. UNCHANGED <<issued, leaseJob, leasePrinter>> /\ failing' \subseteq failing
    BY <1>10 DEF RequeueClaimedExpired, leaseVars, netVars
  <2>2. \A i \in Jobs : status'[i] = "PROCESSING" =>
          /\ status[i] = "PROCESSING"
          /\ UNCHANGED <<leaseId[i], activePrinterId[i], printerId[i]>>
    BY <1>10 DEF RequeueClaimedExpired, TypeOK, RowType
  <2> QED
    BY <2>1, <2>2, OwnershipShrinks
<1>11. ASSUME NEW c \in sweep, UnresolveActiveExpired(c) PROVE HolderInv'
  <2>1. UNCHANGED <<issued, leaseJob, leasePrinter>> /\ failing' \subseteq failing
    BY <1>11 DEF UnresolveActiveExpired, leaseVars, netVars
  <2>2. \A i \in Jobs : status'[i] = "PROCESSING" =>
          /\ status[i] = "PROCESSING"
          /\ UNCHANGED <<leaseId[i], activePrinterId[i], printerId[i]>>
    BY <1>11 DEF UnresolveActiveExpired, TypeOK, RowType
  <2> QED
    BY <2>1, <2>2, OwnershipShrinks
<1>12. ASSUME NEW j \in Jobs, NEW t \in Printers \union {NoPrinter}, ResolveReprinted(j, t) PROVE HolderInv'
  <2>1. UNCHANGED <<issued, leaseJob, leasePrinter>> /\ failing' \subseteq failing
    BY <1>12 DEF ResolveReprinted, leaseVars, netVars
  <2>2. \A i \in Jobs : status'[i] = "PROCESSING" =>
          /\ status[i] = "PROCESSING"
          /\ UNCHANGED <<leaseId[i], activePrinterId[i], printerId[i]>>
    BY <1>12 DEF ResolveReprinted, TypeOK, RowType
  <2> QED
    BY <2>1, <2>2, OwnershipShrinks
<1>13. ASSUME NEW j \in Jobs, NEW s \in Terminal, ResolveFinally(j, s) PROVE HolderInv'
  <2>1. UNCHANGED <<issued, leaseJob, leasePrinter>> /\ failing' \subseteq failing
    BY <1>13 DEF ResolveFinally, leaseVars, netVars
  <2>2. \A i \in Jobs : status'[i] = "PROCESSING" =>
          /\ status[i] = "PROCESSING"
          /\ UNCHANGED <<leaseId[i], activePrinterId[i], printerId[i]>>
    BY <1>13 DEF ResolveFinally, TypeOK, RowType, Terminal
  <2> QED
    BY <2>1, <2>2, OwnershipShrinks
<1>14. ASSUME UNCHANGED <<status, leaseId, leaseJob, leasePrinter, activePrinterId, printerId, failing, issued>> PROVE HolderInv'
    BY <1>14
    DEF HolderInv, Owns, ActivePrinterOf
<1>15. CASE Backend
    BY <1>15, <1>1, <1>2, <1>4, <1>5, <1>6, <1>7, <1>8, <1>9, <1>14
    DEF Backend, TransitionPhase, Heartbeat, rowVars, printerVars, leaseVars,
      netVars, paperVars, historyVars
<1>16. CASE Reaper
    BY <1>16, <1>10, <1>11, <1>14
    DEF Reaper, SweepClaimed, SweepReads, SweepDelivering, rowVars,
      printerVars, leaseVars, netVars, paperVars, historyVars
<1>17. CASE Administrator
    BY <1>17, <1>12, <1>13, <1>14
    DEF Administrator, SetPrinterActive, StartMaintenance,
      TryAdvanceToLocked, EndMaintenance, rowVars, printerVars, leaseVars,
      netVars, paperVars, historyVars
<1>18. ASSUME NEW w \in Workers, WorkerStep(w) PROVE HolderInv'
    BY <1>18, <1>3, <1>14
    DEF WorkerStep, ConfigurationInvalid, Concludes, ConfirmDelivering, Send,
      SendBytes, DirectVerdict, CupsRefuses, CupsAccepts, CupsAnswerLost,
      CupsVerdict, BeatHeart, SendReport, GiveUpReport, RequestFails,
      WorkerCrashes, rowVars, printerVars, leaseVars, netVars, paperVars,
      historyVars
<1>19. CASE Environment
    BY <1>19, <1>14
    DEF Environment, LeaseExpires, CupsPrints, RequestLost, rowVars,
      printerVars, leaseVars, netVars, paperVars, historyVars
<1> QED
    BY <1>15, <1>16, <1>17, <1>18, <1>19
    DEF Next

(* A claim charges nobody.                                                 *)
LEMMA ClaimChargedInv ==
    ASSUME IInv, NEW j \in Jobs, ClaimNextJob(j)
    PROVE  ChargedInv'
<1>1. issued \in Nat /\ issued' = issued + 1 /\ UNCHANGED charged
    BY BoundsAssumption DEF IInv, TypeOK, LeaseType, ClaimNextJob, printerVars
<1>2. \A p \in Printers : charged[p] # 0 => charged[p] \in Leases
    BY BoundsAssumption DEF IInv, TypeOK, PrinterType, Leases
<1>3. \A p \in Printers : charged[p] \in Nat
    BY BoundsAssumption DEF IInv, TypeOK, PrinterType
<1> QED
    BY <1>1, <1>2, <1>3, ClaimFresh DEF IInv, ChargedInv

(* Outcomes are booked on the printer of the reported attempt.             *)
LEMMA ChargedStepInv ==
    ASSUME IInv, Next
    PROVE  ChargedInv'
<1> USE DEF IInv
<1>1. ASSUME NEW j \in Jobs, ClaimAnswerLost(j) PROVE ChargedInv'
  <2>1. ClaimNextJob(j)
    BY <1>1 DEF ClaimAnswerLost
  <2> QED
    BY <2>1, ClaimChargedInv
<1>2. ASSUME NEW w \in Workers, NEW j \in Jobs, Claim(w, j) PROVE ChargedInv'
  <2>1. ClaimNextJob(j)
    BY <1>2 DEF Claim
  <2> QED
    BY <2>1, ClaimChargedInv
<1>3. ASSUME NEW l \in Leases, FinalizeAsPrinted(l) PROVE ChargedInv'
  <2>1. l <= issued /\ UNCHANGED <<issued, leasePrinter>>
    BY <1>3, RequestedJob DEF FinalizeAsPrinted, TakeStatus, Request, leaseVars
  <2>2. Owns(l) => ChargedPrinter(l) = leasePrinter[l]
    BY <2>1 DEF HolderInv, ChargedPrinter
  <2> QED
    BY <1>3, <2>1, <2>2 DEF FinalizeAsPrinted, ChargedInv, TypeOK, PrinterType
<1>4. ASSUME NEW h \in failing, TryFailover(h) PROVE ChargedInv'
  <2>1. h.lease <= issued /\ UNCHANGED <<issued, leasePrinter>>
    BY <1>4 DEF TryFailover, RequestInv, leaseVars
  <2>2. MayFailOver(h.lease) => h.from = leasePrinter[h.lease]
    BY <1>4 DEF HolderInv, MayFailOver
  <2> QED
    BY <1>4, <2>1, <2>2 DEF TryFailover, ChargedInv, TypeOK, PrinterType
<1>5. ASSUME NEW h \in failing, FinalizeAsFailed(h) PROVE ChargedInv'
  <2>1. /\ h.lease \in Leases /\ h.lease <= issued
        /\ UNCHANGED <<issued, leasePrinter>>
    BY <1>5 DEF FinalizeAsFailed, RequestInv, leaseVars, TypeOK, NetType,
      NotPrintedHandlers
  <2>2. Owns(h.lease) => ChargedPrinter(h.lease) = leasePrinter[h.lease]
    BY <2>1 DEF HolderInv, ChargedPrinter
  <2> QED
    BY <1>5, <2>1, <2>2 DEF FinalizeAsFailed, ChargedInv, TypeOK, PrinterType
<1>6. ASSUME UNCHANGED <<charged, leasePrinter, issued>> PROVE ChargedInv'
    BY <1>6
    DEF ChargedInv
<1>7. CASE Backend
    BY <1>7, <1>1, <1>3, <1>4, <1>5, <1>6
    DEF Backend, CreateJob, TransitionPhase, Heartbeat, FinalizeAsUnresolved,
      TakeStatus, Finalize, ReadNotPrinted, BackendRestarts, rowVars,
      printerVars, leaseVars, netVars, paperVars, historyVars
<1>8. CASE Reaper
    BY <1>8, <1>6
    DEF Reaper, SweepClaimed, SweepReads, SweepDelivering,
      RequeueClaimedExpired, UnresolveActiveExpired, rowVars, printerVars,
      leaseVars, netVars, paperVars, historyVars
<1>9. CASE Administrator
    BY <1>9, <1>6
    DEF Administrator, ResolveReprinted, ResolveFinally, SetPrinterActive,
      StartMaintenance, TryAdvanceToLocked, EndMaintenance, rowVars,
      printerVars, leaseVars, netVars, paperVars, historyVars
<1>10. ASSUME NEW w \in Workers, WorkerStep(w) PROVE ChargedInv'
    BY <1>10, <1>2, <1>6
    DEF WorkerStep, ConfigurationInvalid, Concludes, ConfirmDelivering, Send,
      SendBytes, DirectVerdict, CupsRefuses, CupsAccepts, CupsAnswerLost,
      CupsVerdict, BeatHeart, SendReport, GiveUpReport, RequestFails,
      WorkerCrashes, rowVars, printerVars, leaseVars, netVars, paperVars,
      historyVars
<1>11. CASE Environment
    BY <1>11, <1>6
    DEF Environment, LeaseExpires, CupsPrints, RequestLost, rowVars,
      printerVars, leaseVars, netVars, paperVars, historyVars
<1> QED
    BY <1>7, <1>8, <1>9, <1>10, <1>11
    DEF Next

(***************************************************************************)
(* The theorems                                                            *)
(***************************************************************************)

(* The invariant holds of the empty queue.                                 *)
LEMMA InitInv == Init => IInv
<1> SUFFICES ASSUME Init PROVE IInv
    OBVIOUS
<1>1. TypeOK
    <2>1. RowType
        BY ZeroLease DEF Init, RowType, Statuses, Phases
    <2>2. PrinterType /\ WorkerType
        BY ZeroLease, IdleWorkerType DEF Init, PrinterType, WorkerType
    <2>3. LeaseType /\ NetType /\ HistoryType
        BY BoundsAssumption DEF Init, LeaseType, NetType, HistoryType, Verdicts
    <2> QED
        BY <2>1, <2>2, <2>3 DEF TypeOK
<1>2. LeaseInv /\ RowInv /\ RequestInv
    BY BoundsAssumption DEF Init, LeaseInv, RowInv, RequestInv, Leases
<1>3. WorkerInv /\ DocumentInv /\ DisownedInv
    BY DEF Init, WorkerInv, DocumentInv, DisownedInv, Disowned, NotPrinted,
      IdleWorker, Delivery
<1>4. EpochInv /\ CurrentInv /\ PairInv
    BY DEF Init, EpochInv, CurrentInv, Current, PairInv
<1>5. HolderInv /\ ChargedInv
    BY BoundsAssumption
    DEF Init, HolderInv, ChargedInv, Leases
<1> QED
    BY <1>1, <1>2, <1>3, <1>4, <1>5 DEF IInv

(* It survives stuttering.                                                 *)
LEMMA StutterInv == IInv /\ UNCHANGED vars => IInv'
<1> SUFFICES ASSUME IInv, UNCHANGED vars PROVE IInv'
    OBVIOUS
<1> USE DEF vars, rowVars, printerVars, leaseVars, netVars, paperVars, historyVars
<1>1. TypeOK'
    BY FrameTypes DEF IInv, TypeOK
<1>2. LeaseInv' /\ RowInv' /\ RequestInv' /\ WorkerInv'
    BY DEF IInv, LeaseInv, RowInv, RequestInv, WorkerInv
<1>3. DocumentInv' /\ DisownedInv' /\ EpochInv'
    BY DEF IInv, DocumentInv, PrinterOf, DisownedInv, Disowned, EpochInv
<1>4. CurrentInv' /\ PairInv'
    BY DEF IInv, CurrentInv, Current, Delivers, Owns, Disowned, PairInv,
      SameDecision
<1>5. HolderInv' /\ ChargedInv'
    BY DEF IInv, HolderInv, Owns, ActivePrinterOf, ChargedInv
<1> QED
    BY <1>1, <1>2, <1>3, <1>4, <1>5 DEF IInv

(* The inductive invariant holds in every reachable state of the print     *)
(* queue, whatever requests are lost, delayed or repeated.                 *)
THEOREM Inductive == Spec => []IInv
<1>1. IInv /\ [Next]_vars => IInv'
    BY StutterInv, TypeStep, LeaseStepInv, RowStepInv, RequestStepInv,
      WorkerStepInv, DocumentStepInv, DisownedStepInv, EpochStepInv,
      CurrentStepInv, PairStepInv, HolderStepInv, ChargedStepInv DEF IInv
<1> QED
    BY <1>1, InitInv, PTL DEF Spec

(* Type correctness: every column and variable keeps its type, in           *)
(* particular finalizeNotPrinted always finds a printer to write to.       *)
THEOREM TypeCorrect == Spec => []TypeOK
<1>1. IInv => TypeOK
    BY DEF IInv
<1> QED
    BY <1>1, Inductive, PTL

(* Between two decisions of an administrator at most one attempt at a job   *)
(* puts bytes on paper, unless CUPS let a document pass that its worker     *)
(* reported as NOT_PRINTED: the promise of the two-step delivery.          *)
THEOREM OnePrint == Spec => []OnePrintPerDecision
<1>1. IInv => OnePrintPerDecision
    BY DEF IInv, TypeOK, HistoryType, DocumentInv, PairInv, SameDecision,
      DisownedInv, OnePrintPerDecision
<1> QED
    BY <1>1, Inductive, PTL

(* A deployment without CUPS printers prints at most once per decision,     *)
(* without exception.                                                      *)
THEOREM NoDoublePrint ==
    ASSUME CupsPrinters = {}
    PROVE  Spec => []NoAutomaticDoublePrint
<1>1. IInv => misread = {}
    BY DEF IInv, DocumentInv
<1>2. OnePrintPerDecision /\ misread = {} => NoAutomaticDoublePrint
    BY DEF OnePrintPerDecision, NoAutomaticDoublePrint
<1> QED
    BY <1>1, <1>2, OnePrint, Inductive, PTL

(* The status column never denies paper: a job of which an attempt under    *)
(* the present decision has printed is not PENDING, FAILED or CLAIMED.     *)
THEOREM StatusAdmits == Spec => []StatusAdmitsPaper
<1>1. IInv => StatusAdmitsPaper
    BY CurrentJob
    DEF IInv, TypeOK, HistoryType, DocumentInv, DisownedInv, CurrentInv, Current,
      Delivers, Owns, Decided, RowInv, StatusAdmitsPaper
<1> QED
    BY <1>1, Inductive, PTL

(* lastOkAt and lastErrorAt are always written to the printer whose attempt *)
(* was reported, although finalizeNotPrinted reads the printer before its   *)
(* transaction.                                                            *)
THEOREM RightPrinter == Spec => []ChargesTheRightPrinter
<1>1. IInv => ChargesTheRightPrinter
    BY DEF IInv, ChargedInv, ChargesTheRightPrinter
<1> QED
    BY <1>1, Inductive, PTL

(***************************************************************************)
(* Action properties                                                       *)
(***************************************************************************)

(* The only ways a status changes: who may write what, and what the writer  *)
(* has found.                                                              *)
StatusMove(j) ==
    \/ status[j] = "NONE" /\ status'[j] = "PENDING"
    \/ status[j] = "PENDING" /\ status'[j] = "PROCESSING"
    \/ status[j] = "PROCESSING" /\ status'[j] \in {"PENDING", "FAILED"}
    \/ /\ status[j] = "PROCESSING" /\ status'[j] \in {"PRINTED", "UNRESOLVED"}
       /\ Admitted \/ phase[j] \in {"DELIVERING", "SPOOLED"}
    \/ /\ status[j] = "UNRESOLVED" /\ Admitted
       /\ UNCHANGED <<worker, netVars, paperVars>>

(* A conditional status write moves the row of its lease only.             *)
LEMMA FinalizeMove ==
    ASSUME TypeOK, NEW l, NEW s, Owns(l), Finalize(l, s), NEW j \in Jobs,
           status'[j] # status[j]
    PROVE  status[j] = "PROCESSING" /\ status'[j] = s
BY DEF TypeOK, RowType, Finalize, Owns

(* Every step moves a status in one of these ways or leaves it alone.      *)
LEMMA StatusStep ==
    ASSUME TypeOK, Next, NEW j \in Jobs, status'[j] # status[j]
    PROVE  StatusMove(j)
<1> USE DEF StatusMove
<1>1. ASSUME NEW i \in Jobs, NEW p \in JobPrinters, CreateJob(i, p) PROVE StatusMove(j)
    BY <1>1 DEF CreateJob, TypeOK, RowType
<1>2. ASSUME NEW i \in Jobs, ClaimNextJob(i) PROVE StatusMove(j)
    BY <1>2 DEF ClaimNextJob, Oldest, TypeOK, RowType
<1>3. ASSUME NEW l \in Leases, FinalizeAsPrinted(l) PROVE StatusMove(j)
    BY <1>3, FinalizeMove DEF FinalizeAsPrinted, TakeStatus
<1>4. ASSUME NEW l \in Leases, FinalizeAsUnresolved(l) PROVE StatusMove(j)
    BY <1>4, FinalizeMove DEF FinalizeAsUnresolved, TakeStatus
<1>5. ASSUME NEW h \in failing, TryFailover(h) \/ FinalizeAsFailed(h) PROVE StatusMove(j)
    BY <1>5, FinalizeMove DEF TryFailover, FinalizeAsFailed, MayFailOver
<1>6. ASSUME NEW c \in sweep, RequeueClaimedExpired(c) PROVE StatusMove(j)
    BY <1>6 DEF RequeueClaimedExpired, StillIn, TypeOK, RowType
<1>7. ASSUME NEW c \in sweep, UnresolveActiveExpired(c) PROVE StatusMove(j)
    BY <1>7 DEF UnresolveActiveExpired, StillIn, TypeOK, RowType
<1>8. ASSUME NEW i \in Jobs, NEW t, ResolveReprinted(i, t) PROVE StatusMove(j)
    BY <1>8 DEF ResolveReprinted, TypeOK, RowType
<1>9. ASSUME NEW i \in Jobs, NEW s, ResolveFinally(i, s) PROVE StatusMove(j)
    BY <1>9 DEF ResolveFinally, TypeOK, RowType
<1>10. ASSUME NEW l \in Leases, NEW k, TransitionPhase(l, k) \/ Heartbeat(l) \/ ReadNotPrinted(l)
       PROVE  FALSE
    BY <1>10 DEF TransitionPhase, Heartbeat, ReadNotPrinted, rowVars
<1>11. BackendRestarts \/ SweepClaimed \/ SweepDelivering => FALSE
    BY DEF BackendRestarts, SweepClaimed, SweepDelivering, SweepReads, rowVars
<1>12. ASSUME NEW p, SetPrinterActive(p) PROVE FALSE
    BY <1>12 DEF SetPrinterActive, rowVars
<1>13. StartMaintenance \/ TryAdvanceToLocked \/ EndMaintenance => FALSE
    BY DEF StartMaintenance, TryAdvanceToLocked, EndMaintenance, rowVars
<1>14. ASSUME NEW w \in Workers, WorkerStep(w) PROVE StatusMove(j)
    BY <1>2, <1>14
    DEF WorkerStep, Claim, ConfigurationInvalid, ConfirmDelivering, SendBytes,
      DirectVerdict, CupsRefuses, CupsAccepts, CupsAnswerLost, CupsVerdict, BeatHeart,
      SendReport, GiveUpReport, RequestFails, WorkerCrashes, rowVars
<1>15. Environment => FALSE
    BY DEF Environment, LeaseExpires, CupsPrints, RequestLost, rowVars
<1> QED
    BY <1>1, <1>2, <1>3, <1>4, <1>5, <1>6, <1>7, <1>8, <1>9, <1>10, <1>11, <1>12,
      <1>13, <1>14, <1>15
    DEF Next, Backend, Reaper, Administrator, ClaimAnswerLost

(* The lock is only reached when nothing is being delivered, and no worker  *)
(* gets permission to deliver while it is held.                            *)
LockedInv == maint = "LOCKED" => NoBlockingPrintJobs

(* What can make a row deliver: a request that the maintenance admits.     *)
LEMMA PhaseStep ==
    ASSUME TypeOK, Next, NEW j \in Jobs, phase'[j] \in {"DELIVERING", "SPOOLED"}
    PROVE  phase[j] \in {"DELIVERING", "SPOOLED"} \/ (Admitted /\ maint' = maint)
<1> DEFINE Goal == phase[j] \in {"DELIVERING", "SPOOLED"} \/ (Admitted /\ maint' = maint)
<1>1. ASSUME NEW i \in Jobs, NEW p \in JobPrinters, CreateJob(i, p) PROVE Goal
    BY <1>1 DEF CreateJob
<1>2. ASSUME NEW i \in Jobs, ClaimNextJob(i) PROVE Goal
    BY <1>2 DEF ClaimNextJob
<1>3. ASSUME NEW l \in Leases, FinalizeAsPrinted(l) \/ FinalizeAsUnresolved(l) PROVE Goal
    BY <1>3 DEF FinalizeAsPrinted, FinalizeAsUnresolved, TakeStatus
<1>4. ASSUME NEW h \in failing, TryFailover(h) \/ FinalizeAsFailed(h) PROVE Goal
    BY <1>4 DEF TryFailover, FinalizeAsFailed, Finalize, TypeOK, RowType
<1>5. ASSUME NEW c \in sweep, RequeueClaimedExpired(c) \/ UnresolveActiveExpired(c) PROVE Goal
    BY <1>5 DEF RequeueClaimedExpired, UnresolveActiveExpired, TypeOK, RowType
<1>6. ASSUME NEW i \in Jobs, NEW t, ResolveReprinted(i, t) \/ ResolveFinally(i, t) PROVE Goal
    BY <1>6 DEF ResolveReprinted, ResolveFinally
<1>7. ASSUME NEW l \in Leases, NEW k, TransitionPhase(l, k) \/ Heartbeat(l) \/ ReadNotPrinted(l)
      PROVE  Goal
    BY <1>7 DEF TransitionPhase, Heartbeat, ReadNotPrinted, TakeStatus
<1>8. BackendRestarts \/ SweepClaimed \/ SweepDelivering => Goal
    BY DEF BackendRestarts, SweepClaimed, SweepDelivering, SweepReads, rowVars
<1>9. ASSUME NEW p, SetPrinterActive(p) PROVE Goal
    BY <1>9 DEF SetPrinterActive, rowVars
<1>10. StartMaintenance \/ TryAdvanceToLocked \/ EndMaintenance => Goal
    BY DEF StartMaintenance, TryAdvanceToLocked, EndMaintenance, rowVars
<1>11. ASSUME NEW w \in Workers, WorkerStep(w) PROVE Goal
    BY <1>2, <1>11
    DEF WorkerStep, Claim, ConfigurationInvalid, ConfirmDelivering, SendBytes,
      DirectVerdict, CupsRefuses, CupsAccepts, CupsAnswerLost, CupsVerdict, BeatHeart,
      SendReport, GiveUpReport, RequestFails, WorkerCrashes, rowVars
<1>12. Environment => Goal
    BY DEF Environment, LeaseExpires, CupsPrints, RequestLost, rowVars
<1> HIDE DEF Goal
<1>13. Goal
    BY <1>1, <1>2, <1>3, <1>4, <1>5, <1>6, <1>7, <1>8, <1>9, <1>10, <1>11, <1>12
    DEF Next, Backend, Reaper, Administrator, ClaimAnswerLost
<1> QED
    BY <1>13 DEF Goal

(* Only TryAdvanceToLocked reaches the lock.                               *)
LEMMA LockStep ==
    ASSUME Next, maint' = "LOCKED", maint # "LOCKED"
    PROVE  NoBlockingPrintJobs /\ UNCHANGED phase
<1> USE DEF rowVars
<1>1. TryAdvanceToLocked => NoBlockingPrintJobs /\ UNCHANGED phase
    BY DEF TryAdvanceToLocked
<1>2. StartMaintenance \/ EndMaintenance => FALSE
    BY DEF StartMaintenance, EndMaintenance
<1>3. Backend => FALSE
    BY DEF Backend, CreateJob, ClaimAnswerLost, ClaimNextJob, TransitionPhase, Heartbeat,
      FinalizeAsPrinted, FinalizeAsUnresolved, ReadNotPrinted, TryFailover,
      FinalizeAsFailed, BackendRestarts
<1>4. Reaper => FALSE
    BY DEF Reaper, SweepClaimed, SweepDelivering, SweepReads, RequeueClaimedExpired,
      UnresolveActiveExpired
<1>5. ASSUME NEW i, NEW t, ResolveReprinted(i, t) \/ ResolveFinally(i, t) \/ SetPrinterActive(i)
      PROVE  FALSE
    BY <1>5 DEF ResolveReprinted, ResolveFinally, SetPrinterActive
<1>6. ASSUME NEW w \in Workers, WorkerStep(w) PROVE FALSE
    BY <1>6
    DEF WorkerStep, Claim, ClaimNextJob, ConfigurationInvalid, ConfirmDelivering, SendBytes,
      DirectVerdict, CupsRefuses, CupsAccepts, CupsAnswerLost, CupsVerdict, BeatHeart,
      SendReport, GiveUpReport, RequestFails, WorkerCrashes
<1>7. Environment => FALSE
    BY DEF Environment, LeaseExpires, CupsPrints, RequestLost
<1> QED
    BY <1>1, <1>2, <1>3, <1>4, <1>5, <1>6, <1>7 DEF Next, Administrator

(* While LOCKED no row has permission to deliver.                          *)
THEOREM NothingDeliversLocked == Spec => []LockedInv
<1>1. Init => LockedInv
    BY DEF Init, LockedInv
<1>2. IInv /\ LockedInv /\ [Next]_vars => LockedInv'
  <2>1. CASE UNCHANGED vars
    BY <2>1 DEF LockedInv, NoBlockingPrintJobs, vars, rowVars
  <2>2. ASSUME IInv, LockedInv, Next, maint' = "LOCKED" PROVE NoBlockingPrintJobs'
    <3>1. CASE maint = "LOCKED"
      BY <2>2, <3>1, PhaseStep DEF LockedInv, NoBlockingPrintJobs, IInv, Admitted
    <3>2. CASE maint # "LOCKED"
      BY <2>2, <3>2, LockStep DEF NoBlockingPrintJobs
    <3> QED
      BY <3>1, <3>2
  <2> QED
    BY <2>1, <2>2 DEF LockedInv
<1> QED
    BY <1>1, <1>2, Inductive, PTL DEF Spec

(* While LOCKED no row becomes UNRESOLVED or PRINTED, although sweeps and   *)
(* status handlers that began earlier may still be running: the sweep's     *)
(* candidates have left their phase before the lock was reached.           *)
THEOREM LockHolds == Spec => NoOutcomeWhileLocked
<1> DEFINE A == maint = "LOCKED" =>
                  \A j \in Jobs : status'[j] # status[j] =>
                                    status'[j] \notin {"UNRESOLVED", "PRINTED"}
<1>1. IInv /\ LockedInv /\ [Next]_vars => [A]_vars
  <2>1. ASSUME IInv, LockedInv, Next, maint = "LOCKED", NEW j \in Jobs,
               status'[j] # status[j]
        PROVE  status'[j] \notin {"UNRESOLVED", "PRINTED"}
    <3>1. StatusMove(j)
      BY <2>1, StatusStep DEF IInv
    <3> QED
      BY <2>1, <3>1 DEF StatusMove, LockedInv, NoBlockingPrintJobs, Admitted
  <2> QED
    BY <2>1
<1> QED
    BY <1>1, Inductive, NothingDeliversLocked, PTL DEF Spec, NoOutcomeWhileLocked

(* No late report, repeated request or stale candidate of a sweep reopens a *)
(* finished job, and only an administrator takes one out of UNRESOLVED.    *)
THEOREM DecisionsStand == Spec => OnlyADecisionLeavesUnresolved
<1> DEFINE A == \A j \in Jobs :
                  /\ status[j] \in Terminal => status'[j] = status[j]
                  /\ status[j] = "UNRESOLVED" /\ status'[j] # "UNRESOLVED" =>
                        UNCHANGED <<worker, netVars, paperVars>>
<1>1. IInv /\ [Next]_vars => [A]_vars
  <2>1. ASSUME IInv, Next, NEW j \in Jobs, status'[j] # status[j]
        PROVE  /\ status[j] \notin Terminal
               /\ status[j] = "UNRESOLVED" => UNCHANGED <<worker, netVars, paperVars>>
    <3>1. StatusMove(j)
      BY <2>1, StatusStep DEF IInv
    <3> QED
      BY <3>1 DEF StatusMove, Terminal
  <2> QED
    BY <2>1
<1> QED
    BY <1>1, Inductive, PTL DEF Spec, OnlyADecisionLeavesUnresolved

(***************************************************************************)
(* The number of attempts                                                  *)
(***************************************************************************)

(* The attempts at a job that had permission to deliver, and whether the    *)
(* row may still give that permission without a failover or a decision.    *)
Attempts(j)   == {l \in Leases : leaseJob[l] = j /\ epoch[l] # 0}
MayDeliver(j) == status[j] \in {"NONE", "PENDING"} \/ phase[j] = "CLAIMED"
Pending(j)    == IF MayDeliver(j) THEN 1 ELSE 0

(* NoThirdAttempt, counting the permission still to come.                  *)
AttemptInv ==
    \A j \in Jobs :
        Cardinality(Attempts(j)) + Pending(j) <= 1 + failoverCount[j] + reprints[j]

(* What a step may do to the attempts at j: the permission is used up, or   *)
(* the attempts stay and only a failover or a decision opens a new one.    *)
Uses(j) ==
    /\ MayDeliver(j) /\ ~MayDeliver(j)'
    /\ \E l \in Leases : Attempts(j)' = Attempts(j) \union {l}
    /\ failoverCount'[j] = failoverCount[j] /\ reprints'[j] = reprints[j]

Keeps(j) ==
    /\ Attempts(j)' = Attempts(j)
    /\ failoverCount'[j] >= failoverCount[j] /\ reprints'[j] >= reprints[j]
    /\ MayDeliver(j)' =>
          \/ MayDeliver(j)
          \/ failoverCount'[j] > failoverCount[j] \/ reprints'[j] > reprints[j]

LEMMA CountTypes ==
    ASSUME TypeOK, NEW j \in Jobs
    PROVE  /\ failoverCount[j] \in Nat /\ reprints[j] \in Nat
           /\ IsFiniteSet(Attempts(j)) /\ Cardinality(Attempts(j)) \in Nat
<1>1. IsFiniteSet(Leases)
    BY BoundsAssumption, FS_Interval DEF Leases
<1>2. IsFiniteSet(Attempts(j))
    BY <1>1, FS_Subset DEF Attempts
<1>3. failoverCount[j] \in Nat /\ reprints[j] \in Nat
    BY BoundsAssumption DEF TypeOK, RowType, HistoryType
<1> QED
    BY <1>2, <1>3, FS_CardinalityType

(* A step that leaves attempts, counts, status and phase of every job.     *)
LEMMA SameKeeps ==
    ASSUME TypeOK, NEW j \in Jobs, UNCHANGED <<leaseJob, epoch, failoverCount, reprints>>,
           MayDeliver(j)' => MayDeliver(j)
    PROVE  Keeps(j)
<1>1. Attempts(j)' = Attempts(j)
    BY DEF Attempts
<1> QED
    BY <1>1, CountTypes DEF Keeps

(* A claim adds a lease that has no permission yet.                        *)
LEMMA ClaimKeeps ==
    ASSUME TypeOK, LeaseInv, NEW i \in Jobs, ClaimNextJob(i), NEW j \in Jobs
    PROVE  Keeps(j)
<1>1. issued + 1 \in Leases /\ issued + 1 > issued
    BY ClaimType DEF TypeOK, LeaseType
<1>2. epoch[issued + 1] = 0
    BY <1>1 DEF LeaseInv
<1>3. Attempts(j)' = Attempts(j)
    BY <1>2 DEF Attempts, ClaimNextJob, historyVars, TypeOK, LeaseType
<1>4. MayDeliver(j)' => MayDeliver(j)
    BY DEF MayDeliver, ClaimNextJob, Oldest, TypeOK, RowType
<1> QED
    BY <1>3, <1>4, CountTypes DEF Keeps, ClaimNextJob, historyVars

(* A row that leaves PROCESSING for good gives no permission.              *)
LEMMA FinalizeKeeps ==
    ASSUME TypeOK, NEW l, NEW s \in {"PRINTED", "UNRESOLVED", "FAILED"}, Owns(l),
           Finalize(l, s), NEW j \in Jobs
    PROVE  MayDeliver(j)' => MayDeliver(j)
BY DEF MayDeliver, Finalize, Owns, TypeOK, RowType

(* The confirmation of DELIVERING uses the permission.                     *)
LEMMA TransitionUses ==
    ASSUME IInv, NEW l \in Leases, NEW k, TransitionPhase(l, k), NEW j \in Jobs
    PROVE  Keeps(j) \/ Uses(j)
<1> USE DEF IInv
<1>1. UNCHANGED <<status, leaseJob, failoverCount, reprints>>
    BY DEF TransitionPhase, leaseVars
<1>2. CASE UNCHANGED <<phase, epoch>>
    BY <1>1, <1>2, SameKeeps DEF MayDeliver
<1>3. CASE MayTransition(l, k) /\ phase' = [phase EXCEPT ![leaseJob[l]] = k]
  <2>1. k = "SPOOLED" \/ k = "DELIVERING"
    BY DEF TransitionPhase
  <2>2. CASE k = "SPOOLED"
    <3>1. UNCHANGED epoch
      BY <2>2 DEF TransitionPhase
    <3>2. MayDeliver(j)' => MayDeliver(j)
      BY <1>1, <1>3, <2>2 DEF MayDeliver, TypeOK, RowType
    <3> QED
      BY <1>1, <3>1, <3>2, SameKeeps
  <2>3. CASE k = "DELIVERING"
    <3>1. CASE UNCHANGED epoch
      <4>1. MayDeliver(j)' => MayDeliver(j)
        BY <1>1, <1>3, <2>3 DEF MayDeliver, TypeOK, RowType
      <4> QED
        BY <1>1, <3>1, <4>1, SameKeeps
    <3>2. CASE epoch' = [epoch EXCEPT ![l] = reprints[leaseJob[l]] + 1]
      <4>1. phase[leaseJob[l]] = "CLAIMED" /\ status[leaseJob[l]] = "PROCESSING"
        BY <1>3, <2>3 DEF MayTransition, ExpectedFrom, Owns
      <4>2. CASE leaseJob[l] = j
        <5>1. MayDeliver(j) /\ ~MayDeliver(j)'
          BY <1>1, <1>3, <2>3, <4>1, <4>2 DEF MayDeliver, TypeOK, RowType
        <5>2. reprints[j] + 1 # 0
          BY CountTypes
        <5>3. Attempts(j)' = Attempts(j) \union {l}
          BY <1>1, <3>2, <4>2, <5>2 DEF Attempts, TypeOK, HistoryType
        <5> QED
          BY <1>1, <5>1, <5>3 DEF Uses
      <4>3. CASE leaseJob[l] # j
        <5>1. Attempts(j)' = Attempts(j)
          BY <1>1, <3>2, <4>3 DEF Attempts, TypeOK, HistoryType
        <5>2. MayDeliver(j)' => MayDeliver(j)
          BY <1>1, <1>3, <4>3 DEF MayDeliver, TypeOK, RowType
        <5> QED
          BY <1>1, <5>1, <5>2, CountTypes DEF Keeps
      <4> QED
        BY <4>2, <4>3
    <3> QED
      BY <2>3, <3>1, <3>2 DEF TransitionPhase
  <2> QED
    BY <2>1, <2>2, <2>3
<1> QED
    BY <1>2, <1>3 DEF TransitionPhase

(* No step does anything else to the attempts at a job.                    *)
LEMMA AttemptsStep ==
    ASSUME IInv, Next, NEW j \in Jobs
    PROVE  Keeps(j) \/ Uses(j)
<1> USE DEF IInv
<1>1. ASSUME NEW i \in Jobs, NEW p \in JobPrinters, CreateJob(i, p) PROVE Keeps(j)
    BY <1>1, SameKeeps DEF CreateJob, MayDeliver, leaseVars, historyVars, TypeOK, RowType
<1>2. ASSUME NEW i \in Jobs, ClaimNextJob(i) PROVE Keeps(j)
    BY <1>2, ClaimKeeps
<1>3. ASSUME NEW l \in Leases, NEW k, TransitionPhase(l, k) PROVE Keeps(j) \/ Uses(j)
    BY <1>3, TransitionUses
<1>4. ASSUME NEW l \in Leases, Heartbeat(l) \/ ReadNotPrinted(l) PROVE Keeps(j)
    BY <1>4, SameKeeps
    DEF Heartbeat, ReadNotPrinted, MayDeliver, rowVars, leaseVars, historyVars
<1>5. ASSUME NEW l \in Leases, FinalizeAsPrinted(l) PROVE Keeps(j)
  <2>1. MayDeliver(j)' => MayDeliver(j)
    BY <1>5, FinalizeKeeps DEF FinalizeAsPrinted, MayDeliver
  <2> QED
    BY <1>5, <2>1, SameKeeps DEF FinalizeAsPrinted, leaseVars, historyVars
<1>6. ASSUME NEW l \in Leases, FinalizeAsUnresolved(l) PROVE Keeps(j)
  <2>1. MayDeliver(j)' => MayDeliver(j)
    BY <1>6, FinalizeKeeps DEF FinalizeAsUnresolved, MayDeliver
  <2> QED
    BY <1>6, <2>1, SameKeeps DEF FinalizeAsUnresolved, leaseVars, historyVars
<1>7. ASSUME NEW h \in failing, TryFailover(h) PROVE Keeps(j)
  <2>1. Attempts(j)' = Attempts(j) /\ reprints'[j] = reprints[j]
    BY <1>7 DEF TryFailover, Attempts, leaseVars, historyVars
  <2>2. CASE UNCHANGED <<status, phase, failoverCount>>
    BY <2>1, <2>2, CountTypes DEF Keeps, MayDeliver
  <2>3. CASE /\ MayFailOver(h.lease) /\ Finalize(h.lease, "PENDING")
             /\ failoverCount' = [failoverCount EXCEPT ![leaseJob[h.lease]] = 1]
    <3>1. CASE leaseJob[h.lease] = j
      <4>1. failoverCount[j] = 0 /\ failoverCount'[j] = 1
        BY <2>3, <3>1 DEF MayFailOver, TypeOK, RowType
      <4> QED
        BY <2>1, <4>1, CountTypes DEF Keeps
    <3>2. CASE leaseJob[h.lease] # j
      <4>1. failoverCount'[j] = failoverCount[j] /\ MayDeliver(j)' = MayDeliver(j)
        BY <2>3, <3>2 DEF Finalize, MayDeliver, TypeOK, RowType
      <4> QED
        BY <2>1, <4>1, CountTypes DEF Keeps
    <3> QED
      BY <3>1, <3>2
  <2> QED
    BY <1>7, <2>2, <2>3 DEF TryFailover
<1>8. ASSUME NEW h \in failing, FinalizeAsFailed(h) PROVE Keeps(j)
  <2>1. MayDeliver(j)' => MayDeliver(j)
    BY <1>8, FinalizeKeeps DEF FinalizeAsFailed, MayDeliver
  <2> QED
    BY <1>8, <2>1, SameKeeps DEF FinalizeAsFailed, leaseVars, historyVars
<1>9. ASSUME NEW c \in sweep, RequeueClaimedExpired(c) PROVE Keeps(j)
  <2>1. MayDeliver(j)' => MayDeliver(j)
    BY <1>9 DEF RequeueClaimedExpired, StillIn, MayDeliver, TypeOK, RowType
  <2> QED
    BY <1>9, <2>1, SameKeeps DEF RequeueClaimedExpired, leaseVars, historyVars
<1>10. ASSUME NEW c \in sweep, UnresolveActiveExpired(c) PROVE Keeps(j)
  <2>1. MayDeliver(j)' => MayDeliver(j)
    BY <1>10 DEF UnresolveActiveExpired, StillIn, MayDeliver, TypeOK, RowType
  <2> QED
    BY <1>10, <2>1, SameKeeps DEF UnresolveActiveExpired, leaseVars, historyVars
<1>11. ASSUME NEW i \in Jobs, NEW t, ResolveReprinted(i, t) PROVE Keeps(j)
  <2>1. Attempts(j)' = Attempts(j) /\ failoverCount'[j] = failoverCount[j]
    BY <1>11 DEF ResolveReprinted, Attempts, leaseVars
  <2>2. reprints'[j] = IF i = j THEN reprints[j] + 1 ELSE reprints[j]
    BY <1>11 DEF ResolveReprinted, TypeOK, HistoryType
  <2>3. i # j /\ MayDeliver(j)' => MayDeliver(j)
    BY <1>11 DEF ResolveReprinted, MayDeliver, TypeOK, RowType
  <2> QED
    BY <2>1, <2>2, <2>3, CountTypes DEF Keeps
<1>12. ASSUME NEW i \in Jobs, NEW s, ResolveFinally(i, s) PROVE Keeps(j)
    BY <1>12, SameKeeps DEF ResolveFinally, MayDeliver, leaseVars, historyVars, TypeOK, RowType
<1>13. ASSUME UNCHANGED <<rowVars, leaseJob, historyVars>> PROVE Keeps(j)
    BY <1>13, SameKeeps DEF MayDeliver, rowVars, historyVars
<1>14. ASSUME UNCHANGED <<rowVars, leaseJob, epoch, reprints>> PROVE Keeps(j)
    BY <1>14, SameKeeps DEF MayDeliver, rowVars
<1>15. BackendRestarts \/ SweepClaimed \/ SweepDelivering => Keeps(j)
    BY <1>13 DEF BackendRestarts, SweepClaimed, SweepDelivering, SweepReads, leaseVars
<1>16. ASSUME NEW p, SetPrinterActive(p) PROVE Keeps(j)
    BY <1>13, <1>16 DEF SetPrinterActive, leaseVars
<1>17. StartMaintenance \/ TryAdvanceToLocked \/ EndMaintenance => Keeps(j)
    BY <1>13 DEF StartMaintenance, TryAdvanceToLocked, EndMaintenance, leaseVars
<1>18. ASSUME NEW w \in Workers, WorkerStep(w) PROVE Keeps(j)
  <2>1. ASSUME NEW v, CupsVerdict(w, v) PROVE Keeps(j)
    BY <1>14, <2>1 DEF CupsVerdict
  <2>2. ASSUME NEW v, ConfigurationInvalid(w) \/ DirectVerdict(w, v) \/ CupsRefuses(w, v)
                      \/ CupsAnswerLost(w) \/ RequestFails(w)
        PROVE  Keeps(j)
    BY <1>13, <2>2
    DEF ConfigurationInvalid, DirectVerdict, CupsRefuses, CupsAnswerLost, RequestFails
  <2>3. ConfirmDelivering(w) \/ SendBytes(w) \/ CupsAccepts(w) \/ BeatHeart(w)
          \/ SendReport(w) \/ GiveUpReport(w) \/ WorkerCrashes(w) => Keeps(j)
    BY <1>13
    DEF ConfirmDelivering, SendBytes, CupsAccepts, BeatHeart, SendReport, GiveUpReport,
      WorkerCrashes, leaseVars
  <2> QED
    BY <1>2, <1>18, <2>1, <2>2, <2>3 DEF WorkerStep, Claim
<1>19. Environment => Keeps(j)
    BY <1>13, SameKeeps
    DEF Environment, LeaseExpires, CupsPrints, RequestLost, leaseVars, historyVars, MayDeliver
<1> QED
    BY <1>1, <1>2, <1>3, <1>4, <1>5, <1>6, <1>7, <1>8, <1>9, <1>10, <1>11, <1>12, <1>15,
      <1>16, <1>17, <1>18, <1>19
    DEF Next, Backend, Reaper, Administrator, ClaimAnswerLost

(* Either keeps AttemptInv.                                                *)
LEMMA AttemptStepInv ==
    ASSUME IInv, TypeOK', AttemptInv, Next
    PROVE  AttemptInv'
<1> SUFFICES ASSUME NEW j \in Jobs
             PROVE  Cardinality(Attempts(j)') + Pending(j)'
                        <= 1 + failoverCount'[j] + reprints'[j]
    BY DEF AttemptInv
<1>1. /\ failoverCount[j] \in Nat /\ reprints[j] \in Nat
      /\ IsFiniteSet(Attempts(j)) /\ Cardinality(Attempts(j)) \in Nat
    BY CountTypes DEF IInv
<1>2. failoverCount'[j] \in Nat /\ reprints'[j] \in Nat
    BY BoundsAssumption DEF TypeOK, RowType, HistoryType
<1>3. Cardinality(Attempts(j)) + Pending(j) <= 1 + failoverCount[j] + reprints[j]
    BY DEF AttemptInv
<1>4. CASE Keeps(j)
    BY <1>1, <1>2, <1>3, <1>4 DEF Keeps, Pending
<1>5. CASE Uses(j)
  <2>1. PICK l \in Leases : Attempts(j)' = Attempts(j) \union {l}
    BY <1>5 DEF Uses
  <2>2. Cardinality(Attempts(j)') \in Nat
        /\ Cardinality(Attempts(j)') <= Cardinality(Attempts(j)) + 1
    <3> DEFINE A == Attempts(j)
    <3> HIDE DEF A
    <3>1. IsFiniteSet(A) /\ Cardinality(A) \in Nat
        BY <1>1 DEF A
    <3>2. Cardinality(A \union {l}) = IF l \in A THEN Cardinality(A) ELSE Cardinality(A) + 1
        BY <3>1, FS_AddElement
    <3>3. Attempts(j)' = A \union {l}
        BY <2>1 DEF A
    <3>4. Cardinality(Attempts(j)') = Cardinality(A \union {l})
        BY <3>3
    <3>5. Cardinality(A \union {l}) \in Nat /\ Cardinality(A \union {l}) <= Cardinality(A) + 1
        BY <3>1, <3>2
    <3> QED
        BY <3>4, <3>5 DEF A
  <2> QED
    BY <1>1, <1>2, <1>3, <1>5, <2>2 DEF Uses, Pending
<1> QED
    BY <1>4, <1>5, AttemptsStep

(* Permission to deliver is given once, once more after the one failover    *)
(* and once per reprint decision, for any number of workers and requests.  *)
THEOREM AttemptsBounded == Spec => []NoThirdAttempt
<1>1. Init => AttemptInv
  <2> SUFFICES ASSUME Init, NEW j \in Jobs
               PROVE  Cardinality(Attempts(j)) + Pending(j)
                          <= 1 + failoverCount[j] + reprints[j]
      BY DEF AttemptInv
  <2>1. Attempts(j) = {}
      BY DEF Init, Attempts
  <2> QED
      BY <2>1, FS_EmptySet DEF Init, Pending
<1>2. IInv /\ IInv' /\ AttemptInv /\ [Next]_vars => AttemptInv'
  <2>1. CASE UNCHANGED vars
      BY <2>1 DEF AttemptInv, Attempts, Pending, MayDeliver, vars, rowVars, leaseVars, historyVars
  <2> QED
      BY <2>1, AttemptStepInv DEF IInv
<1>3. TypeOK /\ AttemptInv => NoThirdAttempt
  <2> SUFFICES ASSUME TypeOK, AttemptInv, NEW j \in Jobs
               PROVE  Cardinality(Attempts(j)) <= 1 + failoverCount[j] + reprints[j]
      BY DEF NoThirdAttempt, Attempts
  <2>1. Cardinality(Attempts(j)) + Pending(j) <= 1 + failoverCount[j] + reprints[j]
      BY DEF AttemptInv
  <2> QED
      BY <2>1, CountTypes DEF Pending
<1> QED
    BY <1>1, <1>2, <1>3, Inductive, TypeCorrect, PTL DEF Spec
============================================================================
