---------------------------- MODULE BackupsProofs ----------------------------
(* Proofs about the native backups: for any administrators, retention,     *)
(* number of backups, requests, faults and restarts.                       *)
EXTENDS Backups, FiniteSetTheorems, SequenceTheorems, TLAPS

(***************************************************************************)
(* The inductive invariant                                                 *)
(***************************************************************************)
Drafting == {"dump", "after", "publish", "manifest"}
Verifying == {"create", "restore", "record", "verdict"}
Copying == Verifying \cup {"rewrite", "cronrewrite"}

(* What a job knows at its step.                                           *)
TaskOK(w) ==
    LET j == jobs[w] IN
    /\ j.step \in BackupSteps \cup VerifySteps \cup {"start"} => j.todo # << >>
    /\ j.step \in BackupSteps => Head(j.todo).what = "backup"
    /\ j.step \in VerifySteps => Head(j.todo).what = "verify"
    /\ j.passed => j.step \in {"record", "verdict"}

DraftOK(w) ==
    LET j == jobs[w] IN
    j.step \in Drafting =>
        /\ j.id \in Ids /\ j.id <= counts.backups
        /\ manifests[j.id] = None
        /\ j.manifest \in Manifest
        /\ j.step = "manifest" => Stands(j.id)

RemovalOK(w) ==
    LET j == jobs[w] IN
    /\ j.step \in {"audit", "unpublish", "discard"} => j.id \in Ids
    /\ j.step = "remove" /\ Max(j.plan) \in Ids
       => manifests[Max(j.plan)] = None \/ Max(j.plan) \in overtaken

CopiedOK(w) ==
    LET j == jobs[w] IN
    j.step \in Copying =>
        /\ j.id \in Ids /\ j.id <= counts.backups
        /\ j.manifest \in Manifest
        /\ j.step \in Verifying => Stands(j.id)

JobOK(w) == TaskOK(w) /\ DraftOK(w) /\ RemovalOK(w) /\ CopiedOK(w)
JobsInv == \A w \in Workers : JobOK(w)

(* The number of a new backup was never listed.                            *)
NewInv ==
    /\ \A i \in Ids : i > counts.backups => dumps[i] = None /\ manifests[i] = None
    /\ \A v, w \in Workers :
           jobs[v].step \in Drafting /\ jobs[w].step \in Copying => jobs[v].id # jobs[w].id

(* The flags are those of the only job that runs.                          *)
FlagsInv ==
    /\ \A v, w \in Busy : v = w
    /\ backupInProgress = \E w \in Workers : jobs[w].step \in BackupSteps
    /\ restoreVerificationInProgress = \E w \in Workers : jobs[w].step \in VerifySteps

IInv == TypeOK /\ JobsInv /\ NewInv /\ FlagsInv

(***************************************************************************)
(* What every step has in common                                           *)
(***************************************************************************)
JobType(j) ==
    j \in [step : JobSteps, todo : Seq(Tasks), id : Ids \cup {0}, content : 0..MaxRows,
           manifest : Manifest \cup {None}, passed : BOOLEAN, plan : SUBSET Ids]

WorldTypes ==
    /\ rows \in 0..MaxRows /\ now \in 0..MaxTicks
    /\ phase \in {"OPEN", "LOCKED"}
    /\ backupInProgress \in BOOLEAN /\ restoreVerificationInProgress \in BOOLEAN
    /\ counts \in [backups : 0..MaxBackups, requests : 0..MaxRequests,
                   writes : 0..MaxWrites, locks : 0..MaxLocks, faults : 0..MaxFaults]
    /\ schema \in 0..counts.faults

FileTypes ==
    /\ dumps \in [Ids -> Dump \cup {None}]
    /\ manifests \in [Ids -> Manifest \cup {None}]
    /\ overtaken \subseteq Ids

JobTypes ==
    /\ jobs = [w \in Workers |-> jobs[w]]
    /\ \A w \in Workers : JobType(jobs[w])

LEMMA SplitType == TypeOK <=> WorldTypes /\ FileTypes /\ JobTypes
BY DEF TypeOK, WorldTypes, FileTypes, JobTypes, JobType

LEMMA Bounds ==
    /\ MaxBackups \in Nat /\ MaxRequests \in Nat /\ MaxRows \in Nat
    /\ MaxWrites \in Nat /\ MaxTicks \in Nat /\ MaxLocks \in Nat /\ MaxFaults \in Nat
BY BoundsAreNumbers

LEMMA NotIds == 0 \notin Ids /\ Ids \subseteq Nat
BY Bounds DEF Ids

LEMMA Steps_ ==
    /\ BackupSteps \cap VerifySteps = {}
    /\ Drafting \subseteq BackupSteps /\ Verifying \subseteq VerifySteps
    /\ Copying \cap BackupSteps = {}
BY DEF BackupSteps, VerifySteps, Drafting, Verifying, Copying

LEMMA IdleType == JobType(Idle) /\ Idle.step = "idle" /\ Idle.passed = FALSE
BY Bounds DEF Idle, JobType, JobSteps

LEMMA JobMoves ==
    ASSUME TypeOK, NEW w \in Workers, NEW j, JobType(j), jobs' = [jobs EXCEPT ![w] = j]
    PROVE  /\ jobs'[w] = j /\ JobTypes'
           /\ \A v \in Workers \ {w} : jobs'[v] = jobs[v]
<1>1. jobs = [v \in Workers |-> jobs[v]] /\ \A v \in Workers : JobType(jobs[v])
    BY SplitType DEF JobTypes
<1>2. jobs' = [v \in Workers |-> IF v = w THEN j ELSE jobs[v]]
    BY <1>1
<1>3. jobs'[w] = j /\ \A v \in Workers \ {w} : jobs'[v] = jobs[v]
    BY <1>2
<1>4. jobs' = [v \in Workers |-> jobs'[v]]
    BY <1>2
<1>5. \A v \in Workers : JobType(jobs[v])'
    <2> SUFFICES ASSUME NEW v \in Workers PROVE JobType(jobs[v])'
        OBVIOUS
    <2>1. CASE v = w
        BY <1>3, <2>1 DEF JobType
    <2>2. CASE v # w
        BY <1>1, <1>3, <2>2 DEF JobType
    <2> QED
        BY <2>1, <2>2
<1> QED
    BY <1>3, <1>4, <1>5 DEF JobTypes

LEMMA GoesTo ==
    ASSUME TypeOK, NEW w \in Workers, NEW p \in JobSteps, Goes(w, p)
    PROVE  \E j : /\ JobType(j) /\ jobs' = [jobs EXCEPT ![w] = j] /\ j.step = p
                  /\ j.todo = jobs[w].todo /\ j.id = jobs[w].id /\ j.content = jobs[w].content
                  /\ j.manifest = jobs[w].manifest /\ j.passed = jobs[w].passed
                  /\ j.plan = jobs[w].plan
<1>1. PICK j : j = [jobs[w] EXCEPT !.step = p]
    OBVIOUS
<1>2. JobType(jobs[w])
    BY SplitType DEF JobTypes
<1>3. /\ j.step = p /\ j.todo = jobs[w].todo /\ j.id = jobs[w].id
      /\ j.content = jobs[w].content /\ j.manifest = jobs[w].manifest
      /\ j.passed = jobs[w].passed /\ j.plan = jobs[w].plan
    BY <1>1, <1>2 DEF JobType
<1>4. JobType(j)
    BY <1>1, <1>2, <1>3 DEF JobType
<1>5. jobs' = [jobs EXCEPT ![w] = j]
    BY <1>1 DEF Goes
<1> QED
    BY <1>3, <1>4, <1>5

LEMMA GivesUpTo ==
    ASSUME NEW w \in Workers, Gives_up(w)
    PROVE  \E j : /\ JobType(j) /\ jobs' = [jobs EXCEPT ![w] = j] /\ j.step = "idle"
                  /\ j.passed = FALSE
BY IdleType DEF Gives_up

(* The next task of the request, or none.                                  *)
LEMMA SucceedsTo ==
    ASSUME TypeOK, NEW w \in Workers, jobs[w].todo # << >>, Succeeds(w)
    PROVE  \E j : /\ JobType(j) /\ jobs' = [jobs EXCEPT ![w] = j]
                  /\ j.step = "idle" \/ (j.step = "start" /\ j.todo # << >>)
                  /\ j.passed = FALSE
<1>1. PICK rest : rest = Tail(jobs[w].todo)
    OBVIOUS
<1>2. jobs[w].todo \in Seq(Tasks)
    BY SplitType DEF JobTypes, JobType
<1>3. rest \in Seq(Tasks)
    BY <1>1, <1>2
<1>4. CASE rest = << >>
    BY <1>1, <1>4, IdleType DEF Succeeds
<1>5. CASE rest # << >>
    <2>1. PICK j : j = [Idle EXCEPT !.step = "start", !.todo = rest]
        OBVIOUS
    <2>2. j.step = "start" /\ j.todo = rest /\ j.passed = FALSE
        BY <2>1 DEF Idle
    <2>3. JobType(j)
        BY <2>1, <2>2, <1>3, IdleType DEF JobType, JobSteps
    <2>4. jobs' = [jobs EXCEPT ![w] = j]
        BY <1>1, <1>5, <2>1 DEF Succeeds
    <2> QED
        BY <1>5, <2>2, <2>3, <2>4
<1> QED
    BY <1>4, <1>5

(* A job that others do not see goes on.                                   *)
LEMMA OthersStay ==
    ASSUME IInv, NEW v \in Workers, jobs'[v] = jobs[v],
           UNCHANGED <<rows, dumps, manifests, overtaken>>, counts'.backups = counts.backups
    PROVE  JobOK(v)'
<1>1. JobOK(v)
    BY DEF IInv, JobsInv
<1>2. TaskOK(v)'
    BY <1>1 DEF JobOK, TaskOK
<1>3. DraftOK(v)'
    BY <1>1 DEF JobOK, DraftOK, Stands
<1>4. RemovalOK(v)'
    BY <1>1 DEF JobOK, RemovalOK
<1>5. CopiedOK(v)'
    BY <1>1 DEF JobOK, CopiedOK, Stands
<1> QED
    BY <1>2, <1>3, <1>4, <1>5 DEF JobOK

(* The numbers stay apart.                                                 *)
LEMMA NewStays ==
    ASSUME IInv, NEW w \in Workers, NEW j, JobType(j), jobs' = [jobs EXCEPT ![w] = j],
           counts'.backups = counts.backups,
           \A i \in Ids : i > counts.backups => dumps'[i] = None /\ manifests'[i] = None,
           j.step \in Drafting => jobs[w].step \in Drafting /\ j.id = jobs[w].id,
           j.step \in Copying => \/ manifests[j.id] # None
                                 \/ jobs[w].step \in Copying /\ j.id = jobs[w].id
    PROVE  NewInv'
<1>1. jobs'[w] = j /\ \A v \in Workers \ {w} : jobs'[v] = jobs[v]
    BY JobMoves DEF IInv
<1>2. \A v \in Workers : jobs[v].step \in Drafting => manifests[jobs[v].id] = None
    BY DEF IInv, JobsInv, JobOK, DraftOK
<1>3. j.step \in Drafting => j.step \notin Copying
    BY DEF Drafting, Copying, Verifying
<1> QED
    BY <1>1, <1>2, <1>3 DEF IInv, NewInv

(* A step of a job that changes no file and no number of rows.             *)
LEMMA QuietStep ==
    ASSUME IInv, NEW w \in Workers, NEW j, JobType(j), jobs' = [jobs EXCEPT ![w] = j],
           UNCHANGED <<rows, dumps, manifests, overtaken>>, counts'.backups = counts.backups,
           WorldTypes', FlagsInv', JobOK(w)',
           j.step \in Drafting => jobs[w].step \in Drafting /\ j.id = jobs[w].id,
           j.step \in Copying => \/ manifests[j.id] # None
                                 \/ jobs[w].step \in Copying /\ j.id = jobs[w].id
    PROVE  IInv'
<1>1. /\ jobs'[w] = j /\ JobTypes'
      /\ \A v \in Workers \ {w} : jobs'[v] = jobs[v]
    BY JobMoves DEF IInv
<1>2. TypeOK'
    <2>1. FileTypes'
        BY SplitType DEF IInv, FileTypes
    <2> QED
        BY <1>1, <2>1, SplitType DEF TypeOK, WorldTypes, FileTypes, JobTypes, JobType
<1>3. JobsInv'
    BY <1>1, OthersStay DEF JobsInv
<1>5. NewInv'
    BY NewStays DEF IInv, NewInv
<1> QED
    BY <1>2, <1>3, <1>5 DEF IInv

(* A step of a job that writes or removes a file.                          *)
LEMMA FileStep ==
    ASSUME IInv, NEW w \in Workers, NEW j, JobType(j), jobs' = [jobs EXCEPT ![w] = j],
           UNCHANGED <<rows, counts>>, WorldTypes', FileTypes', FlagsInv',
           JobOK(w)', \A v \in Workers \ {w} : jobs'[v] = jobs[v] => JobOK(v)',
           j.step \in Drafting => jobs[w].step \in Drafting /\ j.id = jobs[w].id,
           j.step \in Copying => \/ manifests[j.id] # None
                                 \/ jobs[w].step \in Copying /\ j.id = jobs[w].id,
           \A i \in Ids : i > counts.backups => dumps'[i] = None /\ manifests'[i] = None
    PROVE  IInv'
<1>1. /\ jobs'[w] = j /\ JobTypes'
      /\ \A v \in Workers \ {w} : jobs'[v] = jobs[v]
    BY JobMoves DEF IInv
<1>2. TypeOK'
    BY <1>1, SplitType DEF TypeOK, WorldTypes, FileTypes, JobTypes, JobType
<1>3. JobsInv'
    BY <1>1 DEF JobsInv
<1>5. NewInv'
    BY NewStays DEF IInv, NewInv
<1> QED
    BY <1>2, <1>3, <1>5 DEF IInv

(***************************************************************************)
(* The flags                                                               *)
(***************************************************************************)
LEMMA FlagsStay ==
    ASSUME IInv, NEW w \in Workers, NEW j, JobType(j), jobs' = [jobs EXCEPT ![w] = j],
           j.step \in BackupSteps <=> jobs[w].step \in BackupSteps,
           j.step \in VerifySteps <=> jobs[w].step \in VerifySteps,
           UNCHANGED <<backupInProgress, restoreVerificationInProgress>>
    PROVE  FlagsInv'
<1>1. jobs'[w] = j /\ \A v \in Workers \ {w} : jobs'[v] = jobs[v]
    BY JobMoves DEF IInv
<1>2. \A v \in Workers : /\ jobs'[v].step \in BackupSteps <=> jobs[v].step \in BackupSteps
                         /\ jobs'[v].step \in VerifySteps <=> jobs[v].step \in VerifySteps
    BY <1>1
<1>3. Busy' = Busy
    BY <1>2 DEF Busy
<1> QED
    BY <1>2, <1>3 DEF IInv, FlagsInv

(* Only one job runs.                                                      *)
LEMMA Alone ==
    ASSUME IInv, NEW w \in Workers, jobs[w].step \in BackupSteps \cup VerifySteps,
           NEW v \in Workers \ {w}
    PROVE  jobs[v].step \notin BackupSteps \cup VerifySteps
BY DEF IInv, FlagsInv, Busy

LEMMA BackupLeaves ==
    ASSUME IInv, NEW w \in Workers, NEW j, JobType(j), jobs' = [jobs EXCEPT ![w] = j],
           jobs[w].step \in BackupSteps, j.step \notin BackupSteps \cup VerifySteps,
           backupInProgress' = FALSE, UNCHANGED restoreVerificationInProgress
    PROVE  FlagsInv'
<1>1. jobs'[w] = j /\ \A v \in Workers \ {w} : jobs'[v] = jobs[v]
    BY JobMoves DEF IInv
<1>2. \A v \in Workers : jobs'[v].step \notin BackupSteps \cup VerifySteps
    BY <1>1, Alone
<1>3. restoreVerificationInProgress = FALSE
    <2>1. \A v \in Workers : jobs[v].step \notin VerifySteps
        BY Alone, Steps_
    <2> QED
        BY <2>1 DEF IInv, FlagsInv
<1> QED
    BY <1>2, <1>3 DEF FlagsInv, Busy

LEMMA VerificationLeaves ==
    ASSUME IInv, NEW w \in Workers, NEW j, JobType(j), jobs' = [jobs EXCEPT ![w] = j],
           jobs[w].step \in VerifySteps, j.step \notin BackupSteps \cup VerifySteps,
           restoreVerificationInProgress' = FALSE, UNCHANGED backupInProgress
    PROVE  FlagsInv'
<1>1. jobs'[w] = j /\ \A v \in Workers \ {w} : jobs'[v] = jobs[v]
    BY JobMoves DEF IInv
<1>2. \A v \in Workers : jobs'[v].step \notin BackupSteps \cup VerifySteps
    BY <1>1, Alone
<1>3. backupInProgress = FALSE
    <2>1. \A v \in Workers : jobs[v].step \notin BackupSteps
        BY Alone, Steps_
    <2> QED
        BY <2>1 DEF IInv, FlagsInv
<1> QED
    BY <1>2, <1>3 DEF FlagsInv, Busy

LEMMA JobEnters ==
    ASSUME IInv, NEW w \in Workers, NEW j, JobType(j), jobs' = [jobs EXCEPT ![w] = j],
           ~JobRuns,
           \/ /\ j.step \in BackupSteps /\ backupInProgress' = TRUE
              /\ UNCHANGED restoreVerificationInProgress
           \/ /\ j.step \in VerifySteps /\ restoreVerificationInProgress' = TRUE
              /\ UNCHANGED backupInProgress
    PROVE  FlagsInv'
<1>1. jobs'[w] = j /\ \A v \in Workers \ {w} : jobs'[v] = jobs[v]
    BY JobMoves DEF IInv
<1>2. \A v \in Workers : jobs[v].step \notin BackupSteps \cup VerifySteps
    BY DEF IInv, FlagsInv, JobRuns
<1>3. \A v \in Workers \ {w} : jobs'[v].step \notin BackupSteps \cup VerifySteps
    BY <1>1, <1>2
<1>4. \A v \in Busy' : v = w
    BY <1>3 DEF Busy
<1>5. backupInProgress = FALSE /\ restoreVerificationInProgress = FALSE
    BY DEF JobRuns, IInv, TypeOK
<1> QED
    BY <1>1, <1>3, <1>4, <1>5, Steps_ DEF FlagsInv

(***************************************************************************)
(* Requests                                                                *)
(***************************************************************************)

(* At these steps a job knows nothing of the files.                        *)
LEMMA RestsOK ==
    ASSUME NEW w, NEW j, jobs'[w] = j, j.passed = FALSE,
           j.step \in {"idle", "due", "start", "measure", "rotate", "unlink", "check"},
           j.step \notin {"idle", "due"} => j.todo # << >>,
           j.step \in {"measure", "rotate", "unlink"} => Head(j.todo).what = "backup",
           j.step = "check" => Head(j.todo).what = "verify"
    PROVE  JobOK(w)'
<1>1. TaskOK(w)'
    BY DEF TaskOK, BackupSteps, VerifySteps
<1>2. DraftOK(w)' /\ RemovalOK(w)' /\ CopiedOK(w)'
    BY DEF DraftOK, RemovalOK, CopiedOK, Drafting, Copying, Verifying
<1> QED
    BY <1>1, <1>2 DEF JobOK

LEMMA Types == IInv => WorldTypes /\ FileTypes /\ JobTypes
BY SplitType DEF IInv

(* Of an idle worker.                                                      *)
LEMMA NotPassed ==
    ASSUME IInv, NEW w \in Workers, jobs[w].step \notin {"record", "verdict"}
    PROVE  jobs[w].passed = FALSE
BY Types DEF IInv, JobsInv, JobOK, TaskOK, JobTypes, JobType

(* What a task is.                                                         *)
LEMMA TaskTypes ==
    ASSUME NEW t \in Tasks
    PROVE  /\ t.what \in {"backup", "verify", "use"}
           /\ t.what = "backup" => t.trigger \in Triggers
           /\ t.what # "backup" => t.of \in Ids
<1>1. CASE t \in [what : {"backup"}, trigger : Triggers, of : {0}]
    BY <1>1
<1>2. CASE t \in [what : {"verify", "use"}, trigger : {""}, of : Ids]
    BY <1>2
<1> QED
    BY <1>1, <1>2 DEF Tasks

LEMMA RequestsStep ==
    ASSUME IInv, NEW w \in Workers, NEW todo \in Seq(Tasks), todo # << >>, Requests(w, todo)
    PROVE  IInv'
<1>1. PICK j : j = [jobs[w] EXCEPT !.step = "start", !.todo = todo]
    OBVIOUS
<1>2. JobType(jobs[w]) /\ jobs[w].step = "idle" /\ jobs[w].passed = FALSE
    BY Types, NotPassed DEF JobTypes, Requests, At
<1>3. j.step = "start" /\ j.todo = todo /\ j.passed = FALSE /\ j.plan = jobs[w].plan
    BY <1>1, <1>2 DEF JobType
<1>4. JobType(j)
    BY <1>1, <1>2, <1>3 DEF JobType, JobSteps
<1>5. jobs' = [jobs EXCEPT ![w] = j]
    BY <1>1 DEF Requests
<1>6. jobs'[w] = j
    BY <1>4, <1>5, JobMoves DEF IInv
<1>7. JobOK(w)'
    BY <1>3, <1>6, RestsOK
<1>8. WorldTypes' /\ counts'.backups = counts.backups
    <2>1. /\ counts.requests \in 0..MaxRequests /\ counts.requests < MaxRequests
          /\ WorldTypes
        BY Types DEF Requests, WorldTypes
    <2>2. counts.requests + 1 \in 0..MaxRequests
        BY <2>1, Bounds
    <2>3. counts' = [counts EXCEPT !.requests = @ + 1]
        BY DEF Requests, Counted
    <2>4. /\ counts' \in [backups : 0..MaxBackups, requests : 0..MaxRequests,
                          writes : 0..MaxWrites, locks : 0..MaxLocks, faults : 0..MaxFaults]
          /\ counts'.backups = counts.backups /\ counts'.faults = counts.faults
        BY <2>1, <2>2, <2>3 DEF WorldTypes
    <2> QED
        BY <2>1, <2>4 DEF WorldTypes, Requests, world, flags
<1>9. FlagsInv'
    BY <1>2, <1>3, <1>4, <1>5, FlagsStay DEF Requests, flags, BackupSteps, VerifySteps
<1> QED
    BY <1>3, <1>4, <1>5, <1>7, <1>8, <1>9, QuietStep
    DEF Requests, world, files, Drafting, Copying, Verifying

LEMMA Asked ==
    ASSUME NEW w \in Workers, IInv,
           \/ createManual(w) \/ createPreMigration(w)
           \/ \E i \in Ids : verifyRestore(w, i) \/ prepareRestoration(w, i) \/ executeRestore(w, i)
    PROVE  IInv'
<1>1. \A trigger \in Triggers : Backup(trigger) \in Tasks
    BY DEF Backup, Tasks
<1>2. \A i \in Ids : Verify(i) \in Tasks /\ Use(i) \in Tasks
    BY DEF Verify, Use, Tasks
<1>3. CASE createManual(w) \/ createPreMigration(w)
    <2>1. \A trigger \in Triggers : <<Backup(trigger)>> \in Seq(Tasks) /\ <<Backup(trigger)>> # << >>
        BY <1>1
    <2>2. "MANUAL" \in Triggers /\ "PRE_MIGRATION" \in Triggers
        BY DEF Triggers
    <2> QED
        BY <1>3, <2>1, <2>2, RequestsStep DEF createManual, createPreMigration
<1>4. ASSUME NEW i \in Ids, verifyRestore(w, i) PROVE IInv'
    <2>1. <<Verify(i)>> \in Seq(Tasks) /\ <<Verify(i)>> # << >>
        BY <1>2
    <2> QED
        BY <1>4, <2>1, RequestsStep DEF verifyRestore
<1>5. ASSUME NEW i \in Ids, prepareRestoration(w, i) PROVE IInv'
    <2>1. "PRE_RESTORE" \in Triggers
        BY DEF Triggers
    <2>2. /\ <<Backup("PRE_RESTORE"), Verify(i)>> \in Seq(Tasks)
          /\ <<Backup("PRE_RESTORE"), Verify(i)>> # << >>
        BY <1>1, <1>2, <2>1
    <2> QED
        BY <1>5, <2>2, RequestsStep DEF prepareRestoration
<1>6. ASSUME NEW i \in Ids, executeRestore(w, i) PROVE IInv'
    <2>1. "PRE_RESTORE" \in Triggers
        BY DEF Triggers
    <2>2. PICK verified : verified = IF restoreVerificationAvailable(i) THEN <<Verify(i)>> ELSE << >>
        OBVIOUS
    <2>3. verified \in Seq(Tasks)
        BY <1>2, <2>2
    <2>4. PICK rest : rest = <<Backup("PRE_RESTORE"), Use(i)>>
        OBVIOUS
    <2>5. rest \in Seq(Tasks) /\ Len(rest) = 2
        BY <1>1, <1>2, <2>1, <2>4
    <2>6. verified \o rest \in Seq(Tasks) /\ verified \o rest # << >>
        <3>1. verified \o rest \in Seq(Tasks)
            BY <2>3, <2>5, ConcatProperties
        <3>2. Len(verified \o rest) = Len(verified) + Len(rest)
            BY <2>3, <2>5, ConcatProperties
        <3>3. Len(verified) \in Nat
            BY <2>3, LenProperties
        <3>4. Len(verified \o rest) # Len(<< >>)
            BY <2>5, <3>2, <3>3
        <3> QED
            BY <3>1, <3>4
    <2>7. Requests(w, verified \o rest)
        BY <1>6, <2>2, <2>4 DEF executeRestore
    <2> QED
        BY <2>6, <2>7, RequestsStep
<1> QED
    BY <1>3, <1>4, <1>5, <1>6

(* A backup or a verification begins where nothing else runs.              *)
LEMMA StartsStep ==
    ASSUME IInv, NEW w \in Workers, Starts(w)
    PROVE  IInv'
<1>u. UNCHANGED <<rows, schema, phase, now, dumps, manifests, overtaken, counts>>
    BY DEF Starts, world, files
<1>1. /\ jobs[w].step = "start" /\ jobs[w].passed = FALSE /\ jobs[w].todo # << >>
      /\ ~JobRuns /\ Task(w).what # "use"
    BY NotPassed DEF Starts, At, IInv, JobsInv, JobOK, TaskOK
<1>2. Task(w) = Head(jobs[w].todo) /\ Task(w).what \in {"backup", "verify", "use"}
    <2>1. jobs[w].todo \in Seq(Tasks)
        BY Types DEF JobTypes, JobType
    <2>2. Head(jobs[w].todo) \in Tasks
        BY <1>1, <2>1
    <2> QED
        BY <2>2, TaskTypes DEF Task
<1>3. PICK p \in {"measure", "check"} :
            /\ Goes(w, p)
            /\ p = "measure" => /\ Task(w).what = "backup" /\ backupInProgress' = TRUE
                                /\ UNCHANGED restoreVerificationInProgress
            /\ p = "check" => /\ Task(w).what = "verify" /\ restoreVerificationInProgress' = TRUE
                              /\ UNCHANGED backupInProgress
    BY <1>1, <1>2 DEF Starts
<1>4. PICK j : /\ JobType(j) /\ jobs' = [jobs EXCEPT ![w] = j] /\ j.step = p
               /\ j.todo = jobs[w].todo /\ j.passed = jobs[w].passed
    BY <1>3, GoesTo DEF IInv, JobSteps, BackupSteps, VerifySteps
<1>5. jobs'[w] = j
    BY <1>4, JobMoves DEF IInv
<1>6. JobOK(w)'
    BY <1>1, <1>2, <1>3, <1>4, <1>5, RestsOK
<1>7. FlagsInv'
    BY <1>1, <1>3, <1>4, JobEnters DEF BackupSteps, VerifySteps
<1>8. WorldTypes'
    BY <1>3, <1>u, Types DEF WorldTypes
<1> QED
    BY <1>3, <1>4, <1>6, <1>7, <1>8, <1>u, QuietStep DEF Drafting, Copying, Verifying

(* A job that does not run is given up.                                    *)
LEMMA WaitingEnds ==
    ASSUME IInv, NEW w \in Workers, jobs[w].step \in {"start", "due", "idle"}, Gives_up(w),
           UNCHANGED <<world, files, flags, overtaken, counts>>
    PROVE  IInv'
<1>1. PICK j : /\ JobType(j) /\ jobs' = [jobs EXCEPT ![w] = j] /\ j.step = "idle"
               /\ j.passed = FALSE
    BY GivesUpTo
<1>2. jobs'[w] = j
    BY <1>1, JobMoves DEF IInv
<1>3. JobOK(w)'
    BY <1>1, <1>2, RestsOK
<1>4. FlagsInv'
    BY <1>1, FlagsStay DEF flags, BackupSteps, VerifySteps
<1>5. WorldTypes'
    BY Types DEF WorldTypes, world, flags
<1> QED
    BY <1>1, <1>3, <1>4, <1>5, QuietStep DEF Drafting, Copying, Verifying, world, files

LEMMA RefusedStep ==
    ASSUME IInv, NEW w \in Workers, Refused(w) \/ UsesDump(w)
    PROVE  IInv'
BY WaitingEnds DEF Refused, UsesDump, At

(***************************************************************************)
(* createBackup                                                            *)
(***************************************************************************)
LEMMA BackupTask ==
    ASSUME IInv, NEW w \in Workers, jobs[w].step \in BackupSteps
    PROVE  /\ jobs[w].todo \in Seq(Tasks) /\ jobs[w].todo # << >>
           /\ Task(w) \in Tasks /\ Task(w).what = "backup" /\ Task(w).trigger \in Triggers
<1>1. jobs[w].todo \in Seq(Tasks)
    BY Types DEF JobTypes, JobType
<1>2. jobs[w].todo # << >> /\ Head(jobs[w].todo).what = "backup"
    BY DEF IInv, JobsInv, JobOK, TaskOK
<1>3. Head(jobs[w].todo) \in Tasks
    BY <1>1, <1>2
<1>4. Head(jobs[w].todo).trigger \in Triggers
    BY <1>2, <1>3, TaskTypes
<1> QED
    BY <1>1, <1>2, <1>3, <1>4 DEF Task

(* What holds of a job before it has passed anything.                      *)
LEMMA BackupTaskOK ==
    ASSUME IInv, NEW w \in Workers, NEW j, jobs'[w] = j, jobs[w].step \in BackupSteps,
           jobs[w].step # "record", jobs[w].step # "verdict",
           j.step \in BackupSteps, j.todo = jobs[w].todo, j.passed = jobs[w].passed
    PROVE  TaskOK(w)'
<1>1. jobs[w].passed = FALSE
    BY NotPassed
<1>2. j.step \notin VerifySteps
    BY Steps_
<1>3. jobs[w].todo # << >> /\ Head(jobs[w].todo).what = "backup"
    BY BackupTask DEF Task
<1> QED
    BY <1>1, <1>2, <1>3 DEF TaskOK

LEMMA Counts ==
    ASSUME IInv
    PROVE  /\ counts.backups \in Nat /\ counts.backups <= MaxBackups
           /\ schema \in 0..MaxFaults /\ rows \in 0..MaxRows /\ now \in 0..MaxTicks
<1>1. counts.backups \in 0..MaxBackups /\ counts.faults \in 0..MaxFaults
    BY Types DEF WorldTypes
<1>2. schema \in 0..counts.faults /\ rows \in 0..MaxRows /\ now \in 0..MaxTicks
    BY Types DEF WorldTypes
<1> QED
    BY <1>1, <1>2, Bounds

LEMMA MeasureBeforeStep ==
    ASSUME IInv, NEW w \in Workers, measureBefore(w)
    PROVE  IInv'
<1>u. /\ UNCHANGED <<rows, schema, phase, now, dumps, manifests, overtaken>>
      /\ UNCHANGED <<backupInProgress, restoreVerificationInProgress>>
    BY DEF measureBefore, world, files, flags
<1>0. jobs[w].step = "measure" /\ jobs[w].step \in BackupSteps
    BY DEF measureBefore, At, BackupSteps
<1>1. PICK draft : draft = [trigger |-> Task(w).trigger, at |-> now, before |-> rows,
                            after |-> rows, schema |-> schema, seen |-> 0,
                            restoration |-> "NOT_RUN"]
    OBVIOUS
<1>2. draft \in Manifest
    BY <1>0, <1>1, BackupTask, Counts DEF Manifest
<1>3. PICK n : n = counts.backups + 1
    OBVIOUS
<1>4. counts.backups < MaxBackups /\ n \in Ids
    BY <1>3, Counts, Bounds DEF measureBefore, Ids
<1>5. PICK j : j = [jobs[w] EXCEPT !.step = "dump", !.id = n, !.manifest = draft]
    OBVIOUS
<1>6. JobType(jobs[w])
    BY Types DEF JobTypes
<1>7. /\ j.step = "dump" /\ j.id = n /\ j.manifest = draft /\ j.todo = jobs[w].todo
      /\ j.passed = jobs[w].passed /\ j.plan = jobs[w].plan
    BY <1>5, <1>6 DEF JobType
<1>8. JobType(j)
    BY <1>2, <1>4, <1>5, <1>6, <1>7 DEF JobType, JobSteps, BackupSteps
<1>9. jobs' = [jobs EXCEPT ![w] = j]
    BY <1>1, <1>3, <1>5 DEF measureBefore, Measured, ReservedStem
<1>10. jobs'[w] = j /\ JobTypes' /\ \A v \in Workers \ {w} : jobs'[v] = jobs[v]
    BY <1>8, <1>9, JobMoves DEF IInv
<1>11. counts' = [counts EXCEPT !.backups = n]
    BY <1>3 DEF measureBefore, Counted
<1>12. /\ counts'.backups = n /\ counts'.faults = counts.faults
       /\ counts' \in [backups : 0..MaxBackups, requests : 0..MaxRequests,
                       writes : 0..MaxWrites, locks : 0..MaxLocks, faults : 0..MaxFaults]
    <2>1. counts \in [backups : 0..MaxBackups, requests : 0..MaxRequests,
                      writes : 0..MaxWrites, locks : 0..MaxLocks, faults : 0..MaxFaults]
        BY Types DEF WorldTypes
    <2>2. n \in 0..MaxBackups
        BY <1>3, <1>4, Counts, Bounds
    <2> QED
        BY <1>11, <2>1, <2>2
<1>13. WorldTypes' /\ FileTypes'
    BY <1>u, <1>12, Types DEF WorldTypes, FileTypes
<1>14. TypeOK'
    BY <1>10, <1>13, SplitType DEF TypeOK, WorldTypes, FileTypes, JobTypes, JobType
<1>15. manifests[n] = None
    BY <1>3, <1>4, Counts DEF IInv, NewInv
<1>16. JobOK(w)'
    <2>1. TaskOK(w)'
        BY <1>0, <1>7, <1>10, BackupTaskOK DEF BackupSteps
    <2>2. DraftOK(w)'
        <3>1. n \in Nat
            BY <1>4, NotIds
        <3> QED
            BY <1>2, <1>4, <1>7, <1>10, <1>12, <1>15, <1>u, <3>1, Counts DEF DraftOK
    <2>3. RemovalOK(w)' /\ CopiedOK(w)'
        BY <1>7, <1>10 DEF RemovalOK, CopiedOK, Copying, Verifying
    <2> QED
        BY <2>1, <2>2, <2>3 DEF JobOK
<1>17. \A v \in Workers \ {w} : JobOK(v)'
    <2> SUFFICES ASSUME NEW v \in Workers \ {w} PROVE JobOK(v)'
        OBVIOUS
    <2>1. JobOK(v) /\ jobs'[v] = jobs[v]
        BY <1>10 DEF IInv, JobsInv
    <2>2. \A i \in Ids : i <= counts.backups => i <= counts'.backups
        BY <1>3, <1>12, NotIds, Counts
    <2>3. TaskOK(v)'
        BY <2>1 DEF JobOK, TaskOK
    <2>4. DraftOK(v)'
        BY <1>u, <2>1, <2>2 DEF JobOK, DraftOK, Stands
    <2>5. RemovalOK(v)'
        BY <1>u, <2>1 DEF JobOK, RemovalOK
    <2>6. CopiedOK(v)'
        BY <1>u, <2>1, <2>2 DEF JobOK, CopiedOK, Stands
    <2> QED
        BY <2>3, <2>4, <2>5, <2>6 DEF JobOK
<1>18. NewInv'
    <2>1. \A i \in Ids : i > counts'.backups => i > counts.backups
        BY <1>3, <1>12, Counts, NotIds
    <2>2. \A i \in Ids : i > counts'.backups => dumps'[i] = None /\ manifests'[i] = None
        BY <1>u, <2>1 DEF IInv, NewInv
    <2>3. \A v \in Workers : jobs[v].step \in Copying => jobs[v].id # n
        BY <1>3, NotIds, Counts DEF IInv, JobsInv, JobOK, CopiedOK
    <2>4. j.step \notin Copying
        BY <1>7 DEF Copying, Verifying
    <2> QED
        BY <1>7, <1>10, <2>2, <2>3, <2>4 DEF IInv, NewInv
<1>20. FlagsInv'
    BY <1>0, <1>7, <1>8, <1>9, <1>u, FlagsStay DEF BackupSteps, VerifySteps
<1> QED
    BY <1>14, <1>16, <1>17, <1>18, <1>20 DEF IInv, JobsInv

LEMMA CreateDumpStep ==
    ASSUME IInv, NEW w \in Workers, createDump(w)
    PROVE  IInv'
<1>u. /\ UNCHANGED <<rows, schema, phase, now, dumps, manifests, overtaken, counts>>
      /\ UNCHANGED <<backupInProgress, restoreVerificationInProgress>>
    BY DEF createDump, world, files, flags
<1>0. jobs[w].step = "dump" /\ jobs[w].step \in BackupSteps
    BY DEF createDump, At, BackupSteps
<1>1. PICK j : j = [jobs[w] EXCEPT !.step = "after", !.content = rows]
    OBVIOUS
<1>2. JobType(jobs[w])
    BY Types DEF JobTypes
<1>3. /\ j.step = "after" /\ j.id = jobs[w].id /\ j.manifest = jobs[w].manifest
      /\ j.content = rows /\ j.todo = jobs[w].todo /\ j.passed = jobs[w].passed
      /\ j.plan = jobs[w].plan
    BY <1>1, <1>2 DEF JobType
<1>4. JobType(j)
    BY <1>1, <1>2, <1>3, Counts DEF JobType, JobSteps, BackupSteps
<1>5. jobs' = [jobs EXCEPT ![w] = j]
    BY <1>1 DEF createDump
<1>6. jobs'[w] = j
    BY <1>4, <1>5, JobMoves DEF IInv
<1>7. DraftOK(w) /\ rows \in Nat
    BY Counts DEF IInv, JobsInv, JobOK
<1>8. JobOK(w)'
    <2>1. TaskOK(w)'
        BY <1>0, <1>3, <1>6, BackupTaskOK DEF BackupSteps
    <2>2. DraftOK(w)'
        BY <1>0, <1>3, <1>6, <1>7, <1>u DEF DraftOK, Drafting
    <2>3. RemovalOK(w)' /\ CopiedOK(w)'
        BY <1>3, <1>6 DEF RemovalOK, CopiedOK, Copying, Verifying
    <2> QED
        BY <2>1, <2>2, <2>3 DEF JobOK
<1>9. FlagsInv'
    BY <1>0, <1>3, <1>4, <1>5, <1>u, FlagsStay DEF BackupSteps, VerifySteps
<1>10. WorldTypes'
    BY <1>u, Types DEF WorldTypes
<1> QED
    BY <1>0, <1>3, <1>4, <1>5, <1>8, <1>9, <1>10, <1>u, QuietStep
    DEF Drafting, Copying, Verifying

LEMMA MeasureAfterStep ==
    ASSUME IInv, NEW w \in Workers, measureAfter(w)
    PROVE  IInv'
<1>u. /\ UNCHANGED <<rows, schema, phase, now, dumps, manifests, overtaken, counts>>
      /\ UNCHANGED <<backupInProgress, restoreVerificationInProgress>>
    BY DEF measureAfter, world, files, flags
<1>0. jobs[w].step = "after" /\ jobs[w].step \in BackupSteps
    BY DEF measureAfter, At, BackupSteps
<1>1. DraftOK(w)
    BY DEF IInv, JobsInv, JobOK
<1>2. PICK m : m = [jobs[w].manifest EXCEPT !.after = rows, !.at = now]
    OBVIOUS
<1>3. jobs[w].manifest \in Manifest
    BY <1>0, <1>1 DEF DraftOK, Drafting
<1>4. m \in Manifest
    BY <1>2, <1>3, Counts DEF Manifest
<1>5. PICK j : j = [jobs[w] EXCEPT !.step = "publish", !.manifest = m]
    OBVIOUS
<1>6. JobType(jobs[w])
    BY Types DEF JobTypes
<1>7. /\ j.step = "publish" /\ j.id = jobs[w].id /\ j.manifest = m
      /\ j.content = jobs[w].content /\ j.todo = jobs[w].todo /\ j.passed = jobs[w].passed
      /\ j.plan = jobs[w].plan
    BY <1>5, <1>6 DEF JobType
<1>8. JobType(j)
    BY <1>4, <1>5, <1>6, <1>7 DEF JobType, JobSteps, BackupSteps
<1>9. jobs' = [jobs EXCEPT ![w] = j]
    <2>1. j = [jobs[w] EXCEPT !.step = "publish", !.manifest.after = rows, !.manifest.at = now]
        BY <1>2, <1>5, <1>6 DEF JobType
    <2> QED
        BY <2>1 DEF measureAfter, Measured
<1>10. jobs'[w] = j
    BY <1>8, <1>9, JobMoves DEF IInv
<1>11. JobOK(w)'
    <2>1. TaskOK(w)'
        BY <1>0, <1>7, <1>10, BackupTaskOK DEF BackupSteps
    <2>2. DraftOK(w)'
        BY <1>0, <1>1, <1>4, <1>7, <1>10, <1>u DEF DraftOK, Drafting
    <2>3. RemovalOK(w)' /\ CopiedOK(w)'
        BY <1>7, <1>10 DEF RemovalOK, CopiedOK, Copying, Verifying
    <2> QED
        BY <2>1, <2>2, <2>3 DEF JobOK
<1>12. FlagsInv'
    BY <1>0, <1>7, <1>8, <1>9, <1>u, FlagsStay DEF BackupSteps, VerifySteps
<1>13. WorldTypes'
    BY <1>u, Types DEF WorldTypes
<1> QED
    BY <1>0, <1>7, <1>8, <1>9, <1>11, <1>12, <1>13, <1>u, QuietStep
    DEF Drafting, Copying, Verifying

(* The backup is there: audit and rotation.                                *)
LEMMA AuditSteps ==
    ASSUME IInv, NEW w \in Workers, auditCreated(w) \/ auditFails(w)
    PROVE  IInv'
<1>u. /\ UNCHANGED <<rows, schema, phase, now, dumps, manifests, overtaken, counts>>
      /\ UNCHANGED <<backupInProgress, restoreVerificationInProgress>>
    BY DEF auditCreated, auditFails, world, files, flags
<1>0. jobs[w].step = "audit" /\ jobs[w].step \in BackupSteps
    BY DEF auditCreated, auditFails, At, BackupSteps
<1>1. JobType(jobs[w]) /\ RemovalOK(w)
    BY Types DEF JobTypes, IInv, JobsInv, JobOK
<1>2. PICK j : /\ \/ j = [jobs[w] EXCEPT !.step = "rotate", !.id = 0]
                  \/ j = [jobs[w] EXCEPT !.step = "unpublish"]
               /\ jobs' = [jobs EXCEPT ![w] = j]
    BY DEF auditCreated, auditFails, Goes
<1>3. /\ j.step \in {"rotate", "unpublish"} /\ j.todo = jobs[w].todo
      /\ j.passed = jobs[w].passed /\ j.plan = jobs[w].plan
      /\ j.step = "unpublish" => j.id = jobs[w].id
    BY <1>1, <1>2 DEF JobType
<1>4. JobType(j)
    BY <1>1, <1>2, <1>3 DEF JobType, JobSteps, BackupSteps
<1>5. jobs'[w] = j
    BY <1>2, <1>4, JobMoves DEF IInv
<1>6. JobOK(w)'
    <2>1. TaskOK(w)'
        BY <1>0, <1>3, <1>5, BackupTaskOK DEF BackupSteps
    <2>2. RemovalOK(w)'
        BY <1>0, <1>1, <1>3, <1>5 DEF RemovalOK
    <2>3. DraftOK(w)' /\ CopiedOK(w)'
        BY <1>3, <1>5 DEF DraftOK, CopiedOK, Copying, Verifying, Drafting
    <2> QED
        BY <2>1, <2>2, <2>3 DEF JobOK
<1>7. FlagsInv'
    BY <1>0, <1>2, <1>3, <1>4, <1>u, FlagsStay DEF BackupSteps, VerifySteps
<1>8. WorldTypes'
    BY <1>u, Types DEF WorldTypes
<1> QED
    BY <1>2, <1>3, <1>4, <1>6, <1>7, <1>8, <1>u, QuietStep DEF Drafting, Copying, Verifying

LEMMA PlanRotationStep ==
    ASSUME IInv, NEW w \in Workers, planRotation(w)
    PROVE  IInv'
<1>u. /\ UNCHANGED <<rows, schema, phase, now, dumps, manifests, overtaken, counts>>
      /\ UNCHANGED <<backupInProgress, restoreVerificationInProgress>>
    BY DEF planRotation, world, files, flags
<1>0. jobs[w].step = "rotate" /\ jobs[w].step \in BackupSteps
    BY DEF planRotation, At, BackupSteps
<1>1. PICK plan \in SUBSET Ids : jobs' = [jobs EXCEPT ![w].step = "unlink", ![w].plan = plan]
    BY DEF planRotation, ValidManifests
<1>2. PICK j : j = [jobs[w] EXCEPT !.step = "unlink", !.plan = plan]
    OBVIOUS
<1>3. JobType(jobs[w])
    BY Types DEF JobTypes
<1>4. j.step = "unlink" /\ j.todo = jobs[w].todo /\ j.passed = jobs[w].passed /\ j.plan = plan
    BY <1>2, <1>3 DEF JobType
<1>5. JobType(j)
    BY <1>2, <1>3, <1>4 DEF JobType, JobSteps, BackupSteps
<1>6. jobs' = [jobs EXCEPT ![w] = j]
    BY <1>1, <1>2
<1>7. jobs'[w] = j
    BY <1>5, <1>6, JobMoves DEF IInv
<1>8. JobOK(w)'
    <2>1. /\ jobs[w].passed = FALSE /\ jobs[w].todo # << >>
          /\ Head(jobs[w].todo).what = "backup"
        BY <1>0, NotPassed, BackupTask DEF Task
    <2> QED
        BY <1>4, <1>7, <2>1, RestsOK
<1>9. FlagsInv'
    BY <1>0, <1>4, <1>5, <1>6, <1>u, FlagsStay DEF BackupSteps, VerifySteps
<1>10. WorldTypes'
    BY <1>u, Types DEF WorldTypes
<1> QED
    BY <1>4, <1>5, <1>6, <1>8, <1>9, <1>10, <1>u, QuietStep DEF Drafting, Copying, Verifying

LEMMA BackupEndsStep ==
    ASSUME IInv, NEW w \in Workers, backupEnds(w)
    PROVE  IInv'
<1>u. /\ UNCHANGED <<rows, schema, phase, now, dumps, manifests, overtaken, counts>>
      /\ backupInProgress' = FALSE /\ UNCHANGED restoreVerificationInProgress
    BY DEF backupEnds, world, files
<1>0. jobs[w].step \in BackupSteps
    BY DEF backupEnds, BackupSteps
<1>1. PICK j : /\ JobType(j) /\ jobs' = [jobs EXCEPT ![w] = j]
               /\ j.step = "idle" \/ (j.step = "start" /\ j.todo # << >>)
               /\ j.passed = FALSE
    BY <1>0, BackupTask, SucceedsTo DEF backupEnds, IInv
<1>2. jobs'[w] = j
    BY <1>1, JobMoves DEF IInv
<1>3. JobOK(w)'
    BY <1>1, <1>2, RestsOK
<1>4. FlagsInv'
    BY <1>0, <1>1, <1>u, BackupLeaves DEF BackupSteps, VerifySteps
<1>5. WorldTypes'
    BY <1>u, Types DEF WorldTypes
<1> QED
    BY <1>1, <1>3, <1>4, <1>5, <1>u, QuietStep DEF Drafting, Copying, Verifying

(***************************************************************************)
(* verifyRestoration                                                       *)
(***************************************************************************)
LEMMA VerifyTask ==
    ASSUME IInv, NEW w \in Workers, jobs[w].step \in VerifySteps
    PROVE  /\ jobs[w].todo \in Seq(Tasks) /\ jobs[w].todo # << >>
           /\ Head(jobs[w].todo).what = "verify" /\ Task(w).of \in Ids
<1>1. jobs[w].todo \in Seq(Tasks)
    BY Types DEF JobTypes, JobType
<1>2. jobs[w].todo # << >> /\ Head(jobs[w].todo).what = "verify"
    BY DEF IInv, JobsInv, JobOK, TaskOK
<1>3. Head(jobs[w].todo) \in Tasks
    BY <1>1, <1>2
<1>4. Head(jobs[w].todo).of \in Ids
    BY <1>2, <1>3, TaskTypes
<1> QED
    BY <1>1, <1>2, <1>4 DEF Task

LEMMA VerifyTaskOK ==
    ASSUME IInv, NEW w \in Workers, NEW j, jobs'[w] = j, jobs[w].step \in VerifySteps,
           j.step \in VerifySteps, j.todo = jobs[w].todo,
           j.passed => j.step \in {"record", "verdict"}
    PROVE  TaskOK(w)'
<1>1. j.step \notin BackupSteps
    BY Steps_
<1>2. jobs[w].todo # << >> /\ Head(jobs[w].todo).what = "verify"
    BY VerifyTask
<1> QED
    BY <1>1, <1>2 DEF TaskOK

(* A manifest as it stands may be taken along.                             *)
LEMMA Taken ==
    ASSUME IInv, NEW i \in Ids, manifests[i] # None
    PROVE  i <= counts.backups /\ manifests[i] \in Manifest
<1>1. i <= counts.backups
    BY NotIds, Counts DEF IInv, NewInv
<1>2. manifests[i] \in Manifest
    BY Types DEF FileTypes
<1> QED
    BY <1>1, <1>2

LEMMA CheckDumpStep ==
    ASSUME IInv, NEW w \in Workers, checkDump(w)
    PROVE  IInv'
<1>u. /\ UNCHANGED <<rows, schema, phase, now, dumps, manifests, overtaken, counts>>
      /\ UNCHANGED <<backupInProgress, restoreVerificationInProgress>>
    BY DEF checkDump, world, files, flags
<1>0. jobs[w].step = "check" /\ jobs[w].step \in VerifySteps /\ jobs[w].passed = FALSE
    BY NotPassed DEF checkDump, At, VerifySteps
<1>1. PICK i \in Ids : i = Task(w).of
    BY <1>0, VerifyTask
<1>2. manifests[i] # None /\ Stands(i)
    BY <1>1 DEF checkDump, Valid, Paired
<1>3. i <= counts.backups /\ manifests[i] \in Manifest
    BY <1>2, Taken
<1>4. PICK j : j = [jobs[w] EXCEPT !.step = "create", !.id = i, !.manifest = manifests[i]]
    OBVIOUS
<1>5. JobType(jobs[w])
    BY Types DEF JobTypes
<1>6. /\ j.step = "create" /\ j.id = i /\ j.manifest = manifests[i] /\ j.todo = jobs[w].todo
      /\ j.passed = FALSE /\ j.plan = jobs[w].plan
    BY <1>0, <1>4, <1>5 DEF JobType
<1>7. JobType(j)
    BY <1>3, <1>4, <1>5, <1>6 DEF JobType, JobSteps, VerifySteps
<1>8. jobs' = [jobs EXCEPT ![w] = j]
    BY <1>1, <1>4 DEF checkDump
<1>9. jobs'[w] = j
    BY <1>7, <1>8, JobMoves DEF IInv
<1>10. JobOK(w)'
    <2>1. TaskOK(w)'
        BY <1>0, <1>6, <1>9, VerifyTaskOK DEF VerifySteps
    <2>2. CopiedOK(w)'
        BY <1>2, <1>3, <1>6, <1>9, <1>u DEF CopiedOK, Stands
    <2>3. DraftOK(w)' /\ RemovalOK(w)'
        BY <1>6, <1>9 DEF DraftOK, RemovalOK, Drafting
    <2> QED
        BY <2>1, <2>2, <2>3 DEF JobOK
<1>11. FlagsInv'
    BY <1>0, <1>6, <1>7, <1>8, <1>u, FlagsStay DEF BackupSteps, VerifySteps
<1>12. WorldTypes'
    BY <1>u, Types DEF WorldTypes
<1> QED
    BY <1>2, <1>6, <1>7, <1>8, <1>10, <1>11, <1>12, <1>u, QuietStep DEF Drafting

LEMMA CheckFailsStep ==
    ASSUME IInv, NEW w \in Workers, checkFails(w)
    PROVE  IInv'
<1>u. /\ UNCHANGED <<rows, schema, phase, now, dumps, manifests, overtaken, counts>>
      /\ restoreVerificationInProgress' = FALSE /\ UNCHANGED backupInProgress
    BY DEF checkFails, verificationEnds, world
<1>0. jobs[w].step \in VerifySteps
    BY DEF checkFails, At, VerifySteps
<1>1. PICK j : /\ JobType(j) /\ jobs' = [jobs EXCEPT ![w] = j] /\ j.step = "idle"
               /\ j.passed = FALSE
    BY GivesUpTo DEF checkFails
<1>2. jobs'[w] = j
    BY <1>1, JobMoves DEF IInv
<1>3. JobOK(w)'
    BY <1>1, <1>2, RestsOK
<1>4. FlagsInv'
    BY <1>0, <1>1, <1>u, VerificationLeaves DEF BackupSteps, VerifySteps
<1>5. WorldTypes'
    BY <1>u, Types DEF WorldTypes
<1> QED
    BY <1>1, <1>3, <1>4, <1>5, <1>u, QuietStep DEF Drafting, Copying, Verifying

(* A copy goes on with its job.                                            *)
LEMMA CopyGoesOn ==
    ASSUME IInv, NEW w \in Workers, NEW j, JobType(j), jobs' = [jobs EXCEPT ![w] = j],
           jobs[w].step \in Verifying, j.step \in Verifying,
           j.todo = jobs[w].todo, j.id = jobs[w].id, j.manifest = jobs[w].manifest,
           j.passed => j.step \in {"record", "verdict"},
           UNCHANGED <<rows, schema, phase, now, dumps, manifests, overtaken, counts>>,
           UNCHANGED <<backupInProgress, restoreVerificationInProgress>>
    PROVE  IInv'
<1>1. jobs[w].step \in VerifySteps /\ j.step \in VerifySteps
    BY Steps_
<1>2. j.step \notin BackupSteps /\ jobs[w].step \notin BackupSteps /\ j.step \notin Drafting
    BY <1>1, Steps_
<1>3. jobs'[w] = j
    BY JobMoves DEF IInv
<1>4. JobOK(w)'
    <2>1. TaskOK(w)'
        BY <1>1, <1>3, VerifyTaskOK
    <2>2. CopiedOK(w)
        BY DEF IInv, JobsInv, JobOK
    <2>3. CopiedOK(w)'
        BY <1>3, <2>2 DEF CopiedOK, Copying, Stands
    <2>4. DraftOK(w)' /\ RemovalOK(w)'
        BY <1>2, <1>3 DEF DraftOK, RemovalOK, BackupSteps
    <2> QED
        BY <2>1, <2>3, <2>4 DEF JobOK
<1>5. FlagsInv'
    BY <1>1, <1>2, FlagsStay
<1>6. WorldTypes'
    BY Types DEF WorldTypes
<1> QED
    BY <1>2, <1>4, <1>5, <1>6, QuietStep DEF Copying

LEMMA CreateDatabaseStep ==
    ASSUME IInv, NEW w \in Workers, createVerificationDatabase(w)
    PROVE  IInv'
<1>u. /\ UNCHANGED <<rows, schema, phase, now, dumps, manifests, overtaken, counts>>
      /\ UNCHANGED <<backupInProgress, restoreVerificationInProgress>>
    BY DEF createVerificationDatabase, world, files, flags
<1>0. jobs[w].step = "create" /\ jobs[w].passed = FALSE
    BY NotPassed DEF createVerificationDatabase, At
<1>1. PICK p \in {"restore", "record"} : Goes(w, p)
    BY DEF createVerificationDatabase
<1>2. PICK j : /\ JobType(j) /\ jobs' = [jobs EXCEPT ![w] = j] /\ j.step = p
               /\ j.todo = jobs[w].todo /\ j.id = jobs[w].id
               /\ j.manifest = jobs[w].manifest /\ j.passed = jobs[w].passed
    BY <1>1, GoesTo DEF IInv, JobSteps, VerifySteps
<1> QED
    BY <1>0, <1>1, <1>2, <1>u, CopyGoesOn DEF Verifying

LEMMA RestoreAndMeasureStep ==
    ASSUME IInv, NEW w \in Workers, restoreAndMeasure(w)
    PROVE  IInv'
<1>u. /\ UNCHANGED <<rows, schema, phase, now, dumps, manifests, overtaken, counts>>
      /\ UNCHANGED <<backupInProgress, restoreVerificationInProgress>>
    BY DEF restoreAndMeasure, world, files, flags
<1>0. jobs[w].step = "restore"
    BY DEF restoreAndMeasure, At
<1>1. jobs[w].id \in Ids /\ dumps[jobs[w].id] \in Dump /\ Stands(jobs[w].id)
    <2>1. jobs[w].id \in Ids /\ Stands(jobs[w].id)
        BY <1>0 DEF IInv, JobsInv, JobOK, CopiedOK, Copying, Verifying
    <2> QED
        BY <2>1, Types DEF FileTypes, Stands
<1>2. PICK passed \in run(RestoredAsMeasured(w)) :
            jobs' = [jobs EXCEPT ![w].step = "record", ![w].passed = passed]
    BY DEF restoreAndMeasure
<1>3. passed \in BOOLEAN
    <2>1. dumps[jobs[w].id].sound \in BOOLEAN
        BY <1>1 DEF Dump
    <2>2. RestoredAsMeasured(w) \in BOOLEAN
        BY <2>1 DEF RestoredAsMeasured, Stands
    <2> QED
        BY <1>2, <2>2 DEF run
<1>4. PICK j : j = [jobs[w] EXCEPT !.step = "record", !.passed = passed]
    OBVIOUS
<1>5. JobType(jobs[w])
    BY Types DEF JobTypes
<1>6. /\ j.step = "record" /\ j.id = jobs[w].id /\ j.manifest = jobs[w].manifest
      /\ j.todo = jobs[w].todo /\ j.passed = passed /\ j.plan = jobs[w].plan
    BY <1>4, <1>5 DEF JobType
<1>7. JobType(j)
    BY <1>3, <1>4, <1>5, <1>6 DEF JobType, JobSteps, VerifySteps
<1>8. jobs' = [jobs EXCEPT ![w] = j]
    BY <1>2, <1>4
<1> QED
    BY <1>0, <1>3, <1>6, <1>7, <1>8, <1>u, CopyGoesOn DEF Verifying

LEMMA AuditVerdictStep ==
    ASSUME IInv, NEW w \in Workers, auditVerdict(w)
    PROVE  IInv'
<1>u. /\ UNCHANGED <<rows, schema, phase, now, dumps, manifests, overtaken, counts>>
      /\ restoreVerificationInProgress' = FALSE /\ UNCHANGED backupInProgress
    BY DEF auditVerdict, verificationEnds, world
<1>0. jobs[w].step \in VerifySteps
    BY DEF auditVerdict, At, VerifySteps
<1>1. PICK j : /\ JobType(j) /\ jobs' = [jobs EXCEPT ![w] = j]
               /\ j.step = "idle" \/ (j.step = "start" /\ j.todo # << >>)
               /\ j.passed = FALSE
    BY <1>0, VerifyTask, SucceedsTo DEF auditVerdict, IInv
<1>2. jobs'[w] = j
    BY <1>1, JobMoves DEF IInv
<1>3. JobOK(w)'
    BY <1>1, <1>2, RestsOK
<1>4. FlagsInv'
    BY <1>0, <1>1, <1>u, VerificationLeaves DEF BackupSteps, VerifySteps
<1>5. WorldTypes'
    BY <1>u, Types DEF WorldTypes
<1> QED
    BY <1>1, <1>3, <1>4, <1>5, <1>u, QuietStep DEF Drafting, Copying, Verifying

(***************************************************************************)
(* Listings and the clock                                                  *)
(***************************************************************************)

(* A listing takes the manifest with the time of the dump.                 *)
LEMMA ListReadsStep ==
    ASSUME IInv, NEW w \in Workers, NEW i \in Ids, listReads(w, i)
    PROVE  IInv'
<1>u. /\ UNCHANGED <<rows, schema, phase, now, dumps, manifests, overtaken, counts>>
      /\ UNCHANGED <<backupInProgress, restoreVerificationInProgress>>
    BY DEF listReads, world, files, flags
<1>0. jobs[w].step \in {"idle", "due"} /\ jobs[w].passed = FALSE
    BY NotPassed DEF listReads, At
<1>1. manifests[i] # None /\ dumps[i] # None
    BY DEF listReads, Paired, Stands
<1>2. PICK m : m = [manifests[i] EXCEPT !.seen = dumps[i].mtime]
    OBVIOUS
<1>3. i <= counts.backups /\ manifests[i] \in Manifest
    BY <1>1, Taken
<1>4. dumps[i].mtime \in 0..1
    BY <1>1, Types DEF FileTypes, Dump
<1>5. m \in Manifest
    BY <1>2, <1>3, <1>4, Types DEF Manifest, FileTypes, Dump
<1>7. PICK p \in {"rewrite", "cronrewrite"} :
            jobs' = [jobs EXCEPT ![w].step = p, ![w].id = i, ![w].manifest = m]
    BY <1>2 DEF listReads
<1>8. PICK j : j = [jobs[w] EXCEPT !.step = p, !.id = i, !.manifest = m]
    OBVIOUS
<1>9. JobType(jobs[w])
    BY Types DEF JobTypes
<1>10. /\ j.step = p /\ j.id = i /\ j.manifest = m /\ j.todo = jobs[w].todo
       /\ j.passed = FALSE /\ j.plan = jobs[w].plan
    BY <1>0, <1>8, <1>9 DEF JobType
<1>11. JobType(j)
    BY <1>5, <1>8, <1>9, <1>10 DEF JobType, JobSteps
<1>12. jobs' = [jobs EXCEPT ![w] = j]
    BY <1>7, <1>8
<1>13. jobs'[w] = j
    BY <1>11, <1>12, JobMoves DEF IInv
<1>14. JobOK(w)'
    <2>1. TaskOK(w)'
        BY <1>10, <1>13 DEF TaskOK, BackupSteps, VerifySteps
    <2>2. CopiedOK(w)'
        BY <1>3, <1>5, <1>10, <1>13, <1>u DEF CopiedOK, Verifying
    <2>3. DraftOK(w)' /\ RemovalOK(w)'
        BY <1>10, <1>13 DEF DraftOK, RemovalOK, Drafting
    <2> QED
        BY <2>1, <2>2, <2>3 DEF JobOK
<1>15. FlagsInv'
    BY <1>0, <1>10, <1>11, <1>12, <1>u, FlagsStay DEF BackupSteps, VerifySteps
<1>16. WorldTypes'
    BY <1>u, Types DEF WorldTypes
<1> QED
    BY <1>1, <1>10, <1>11, <1>12, <1>14, <1>15, <1>16, <1>u, QuietStep DEF Drafting

LEMMA CronFiresStep ==
    ASSUME IInv, cronFires
    PROVE  IInv'
<1>u. /\ UNCHANGED <<rows, schema, phase, now, dumps, manifests, overtaken, counts>>
      /\ UNCHANGED <<backupInProgress, restoreVerificationInProgress>>
    BY DEF cronFires, world, files, flags
<1>0. jobs[Cron].step = "idle" /\ jobs[Cron].passed = FALSE /\ Cron \in Workers
    BY NotPassed DEF cronFires, At, Workers
<1>1. PICK p \in {"idle", "due"} : Goes(Cron, p)
    <2>1. CASE UNCHANGED jobs
        <3>1. jobs = [v \in Workers |-> jobs[v]] /\ JobType(jobs[Cron])
            BY <1>0, Types DEF JobTypes
        <3>2. jobs[Cron] = [jobs[Cron] EXCEPT !.step = "idle"]
            BY <1>0, <3>1 DEF JobType
        <3>3. jobs = [jobs EXCEPT ![Cron] = jobs[Cron]]
            BY <3>1
        <3>4. Goes(Cron, "idle")
            BY <2>1, <3>2, <3>3 DEF Goes
        <3> QED
            BY <3>4
    <2>2. CASE Goes(Cron, "due")
        BY <2>2
    <2> QED
        BY <2>1, <2>2 DEF cronFires
<1>2. PICK j : JobType(j) /\ jobs' = [jobs EXCEPT ![Cron] = j] /\ j.step = p /\ j.passed = FALSE
    BY <1>0, <1>1, GoesTo DEF IInv, JobSteps
<1>3. jobs'[Cron] = j
    BY <1>0, <1>2, JobMoves DEF IInv
<1>4. JobOK(Cron)'
    BY <1>1, <1>2, <1>3, RestsOK
<1>5. FlagsInv'
    BY <1>0, <1>2, <1>u, FlagsStay DEF BackupSteps, VerifySteps
<1>6. WorldTypes'
    BY <1>u, Types DEF WorldTypes
<1> QED
    BY <1>0, <1>2, <1>4, <1>5, <1>6, <1>u, QuietStep DEF Drafting, Copying, Verifying

LEMMA CronDecidesStep ==
    ASSUME IInv, cronDecides
    PROVE  IInv'
<1>u. /\ UNCHANGED <<rows, schema, phase, now, dumps, manifests, overtaken, counts>>
      /\ UNCHANGED <<backupInProgress, restoreVerificationInProgress>>
    BY DEF cronDecides, world, files, flags
<1>0. jobs[Cron].step = "due" /\ Cron \in Workers
    BY DEF cronDecides, At, Workers
<1>1. PICK todo : todo = <<Backup("SCHEDULE")>>
    OBVIOUS
<1>2. todo \in Seq(Tasks) /\ todo # << >>
    BY <1>1 DEF Backup, Tasks, Triggers
<1>3. PICK j : /\ j = [Idle EXCEPT !.step = "start", !.todo = todo] \/ j = Idle
               /\ jobs' = [jobs EXCEPT ![Cron] = j]
    BY <1>1 DEF cronDecides
<1>4. j.passed = FALSE /\ (j.step = "idle" \/ (j.step = "start" /\ j.todo = todo))
    <2>1. CASE j = Idle
        BY <2>1, IdleType
    <2>2. CASE j = [Idle EXCEPT !.step = "start", !.todo = todo]
        BY <2>2 DEF Idle
    <2> QED
        BY <1>3, <2>1, <2>2
<1>5. JobType(j)
    <2>1. CASE j = Idle
        BY <2>1, IdleType
    <2>2. CASE j = [Idle EXCEPT !.step = "start", !.todo = todo]
        BY <1>2, <2>2, IdleType DEF JobType, JobSteps, Idle
    <2> QED
        BY <1>3, <2>1, <2>2
<1>6. jobs'[Cron] = j
    BY <1>0, <1>3, <1>5, JobMoves DEF IInv
<1>7. JobOK(Cron)'
    BY <1>2, <1>4, <1>6, RestsOK
<1>8. FlagsInv'
    BY <1>0, <1>3, <1>4, <1>5, <1>u, FlagsStay DEF BackupSteps, VerifySteps
<1>9. WorldTypes'
    BY <1>u, Types DEF WorldTypes
<1> QED
    BY <1>0, <1>3, <1>4, <1>5, <1>7, <1>8, <1>9, <1>u, QuietStep
    DEF Drafting, Copying, Verifying

(***************************************************************************)
(* Files                                                                   *)
(***************************************************************************)
LEMMA DumpWritten ==
    ASSUME IInv, NEW i, NEW d \in Dump \cup {None}, dumps' = [dumps EXCEPT ![i] = d]
    PROVE  /\ dumps' \in [Ids -> Dump \cup {None}]
           /\ i \in Ids => dumps'[i] = d
           /\ \A k \in Ids \ {i} : dumps'[k] = dumps[k]
<1>1. dumps \in [Ids -> Dump \cup {None}]
    BY Types DEF FileTypes
<1> QED
    BY <1>1

LEMMA ManifestWritten ==
    ASSUME IInv, NEW i, NEW m \in Manifest \cup {None}, manifests' = [manifests EXCEPT ![i] = m]
    PROVE  /\ manifests' \in [Ids -> Manifest \cup {None}]
           /\ i \in Ids => manifests'[i] = m
           /\ \A k \in Ids \ {i} : manifests'[k] = manifests[k]
<1>1. manifests \in [Ids -> Manifest \cup {None}]
    BY Types DEF FileTypes
<1> QED
    BY <1>1

(* Beside a job that runs, others only list; they read on when a dump goes. *)
LEMMA ListingsStay ==
    ASSUME IInv, NEW w \in Workers, jobs[w].step \in BackupSteps \cup VerifySteps,
           NEW v \in Workers \ {w}, jobs'[v] = jobs[v], UNCHANGED counts,
           jobs[v].step \in Copying =>
               dumps'[jobs[v].id] = dumps[jobs[v].id] \/ dumps'[jobs[v].id] = None
    PROVE  JobOK(v)'
<1>1. jobs[v].step \notin BackupSteps \cup VerifySteps
    BY Alone
<1>2. /\ jobs[v].step \notin Drafting /\ jobs[v].step \notin Verifying
      /\ jobs[v].step \notin {"audit", "unpublish", "discard", "remove"}
      /\ jobs[v].step \notin {"record", "verdict"}
    BY <1>1, Steps_ DEF BackupSteps, VerifySteps
<1>3. JobOK(v) /\ jobs[v].passed = FALSE
    BY <1>2, NotPassed DEF IInv, JobsInv
<1>4. TaskOK(v)'
    BY <1>3 DEF JobOK, TaskOK
<1>5. DraftOK(v)' /\ RemovalOK(v)'
    BY <1>2 DEF DraftOK, RemovalOK
<1>6. CopiedOK(v)'
    BY <1>2, <1>3 DEF JobOK, CopiedOK
<1> QED
    BY <1>4, <1>5, <1>6 DEF JobOK

(* The dump has its name.                                                  *)
LEMMA PublishDumpStep ==
    ASSUME IInv, NEW w \in Workers, publishDump(w)
    PROVE  IInv'
<1>u. /\ UNCHANGED <<rows, schema, phase, now, manifests, overtaken, counts>>
      /\ UNCHANGED <<backupInProgress, restoreVerificationInProgress>>
    BY DEF publishDump, world, flags
<1>0. /\ jobs[w].step = "publish" /\ jobs[w].step \in Drafting
      /\ jobs[w].step \in BackupSteps /\ DraftOK(w) /\ JobType(jobs[w])
    BY Types DEF publishDump, At, BackupSteps, Drafting, IInv, JobsInv, JobOK, JobTypes
<1>1. PICK i \in Ids : i = jobs[w].id
    BY <1>0 DEF DraftOK
<1>2. PICK d : d = [content |-> jobs[w].content, sound |-> TRUE, mtime |-> 0]
    OBVIOUS
<1>3. /\ i <= counts.backups /\ manifests[i] = None /\ jobs[w].manifest \in Manifest
    BY <1>0, <1>1, <1>2 DEF DraftOK
<1>4. d \in Dump /\ d # None
    <2>1. jobs[w].content \in 0..MaxRows
        BY <1>0 DEF JobType
    <2>2. d \in Dump
        BY <1>2, <2>1 DEF Dump
    <2>3. DOMAIN d = {"content", "sound", "mtime"} /\ DOMAIN None = {"none"}
        BY <1>2 DEF None
    <2> QED
        BY <2>2, <2>3
<1>5. dumps' = [dumps EXCEPT ![i] = d]
    BY <1>1, <1>2 DEF publishDump
<1>6. /\ dumps' \in [Ids -> Dump \cup {None}] /\ dumps'[i] = d
      /\ \A k \in Ids \ {i} : dumps'[k] = dumps[k]
    BY <1>4, <1>5, DumpWritten
<1>7. PICK j : j = [jobs[w] EXCEPT !.step = "manifest", !.content = 0]
    OBVIOUS
<1>8. /\ j.step = "manifest" /\ j.id = i /\ j.manifest = jobs[w].manifest
      /\ j.todo = jobs[w].todo /\ j.passed = jobs[w].passed /\ j.plan = jobs[w].plan
    BY <1>0, <1>1, <1>7 DEF JobType
<1>9. JobType(j)
    <2>1. 0 \in 0..MaxRows
        BY Bounds
    <2> QED
        BY <1>0, <1>7, <1>8, <2>1 DEF JobType, JobSteps, BackupSteps
<1>10. jobs' = [jobs EXCEPT ![w] = j]
    BY <1>7 DEF publishDump
<1>11. jobs'[w] = j
    BY <1>9, <1>10, JobMoves DEF IInv
<1>12. JobOK(w)'
    <2>1. TaskOK(w)'
        BY <1>0, <1>8, <1>11, BackupTaskOK DEF BackupSteps
    <2>2. DraftOK(w)'
        BY <1>3, <1>4, <1>6, <1>8, <1>11, <1>u DEF DraftOK, Stands
    <2>3. RemovalOK(w)' /\ CopiedOK(w)'
        BY <1>8, <1>11 DEF RemovalOK, CopiedOK, Copying, Verifying
    <2> QED
        BY <2>1, <2>2, <2>3 DEF JobOK
<1>13. ASSUME NEW v \in Workers \ {w}, jobs'[v] = jobs[v] PROVE JobOK(v)'
    <2>1. jobs[v].step \in Copying => jobs[v].id \in Ids \ {i}
        BY <1>0, <1>1 DEF IInv, NewInv, JobsInv, JobOK, CopiedOK
    <2> QED
        BY <1>0, <1>6, <1>13, <1>u, <2>1, ListingsStay
<1>14. FlagsInv'
    BY <1>0, <1>8, <1>9, <1>10, <1>u, FlagsStay DEF BackupSteps, VerifySteps
<1>15. WorldTypes' /\ FileTypes'
    BY <1>6, <1>u, Types DEF WorldTypes, FileTypes
<1>16. \A k \in Ids : k > counts.backups => dumps'[k] = None /\ manifests'[k] = None
    <2>1. \A k \in Ids : k > counts.backups => k # i
        BY <1>3, Counts, NotIds
    <2> QED
        BY <1>6, <1>u, <2>1 DEF IInv, NewInv
<1>18. j.step \notin Copying
    BY <1>8 DEF Copying, Verifying
<1> QED
    BY <1>0, <1>1, <1>8, <1>9, <1>10, <1>12, <1>13, <1>14, <1>15, <1>16, <1>18, <1>u,
       FileStep

LEMMA PublishManifestStep ==
    ASSUME IInv, NEW w \in Workers, publishManifest(w)
    PROVE  IInv'
<1>u. /\ UNCHANGED <<rows, schema, phase, now, dumps, overtaken, counts>>
      /\ UNCHANGED <<backupInProgress, restoreVerificationInProgress>>
    BY DEF publishManifest, world, flags
<1>0. /\ jobs[w].step = "manifest" /\ jobs[w].step \in Drafting
      /\ jobs[w].step \in BackupSteps /\ DraftOK(w) /\ JobType(jobs[w])
    BY Types DEF publishManifest, At, BackupSteps, Drafting, IInv, JobsInv, JobOK, JobTypes
<1>1. PICK i \in Ids : i = jobs[w].id
    BY <1>0 DEF DraftOK
<1>2. PICK m : m = jobs[w].manifest
    OBVIOUS
<1>3. i <= counts.backups /\ m \in Manifest /\ Stands(i)
    BY <1>0, <1>1, <1>2 DEF DraftOK
<1>4. manifests' = [manifests EXCEPT ![i] = m]
    BY <1>1, <1>2 DEF publishManifest
<1>5. /\ manifests' \in [Ids -> Manifest \cup {None}] /\ manifests'[i] = m
      /\ \A k \in Ids \ {i} : manifests'[k] = manifests[k]
    BY <1>3, <1>4, ManifestWritten
<1>6. PICK j : j = [jobs[w] EXCEPT !.step = "audit", !.manifest = None]
    OBVIOUS
<1>7. /\ j.step = "audit" /\ j.id = i /\ j.todo = jobs[w].todo /\ j.passed = jobs[w].passed
      /\ j.plan = jobs[w].plan
    BY <1>0, <1>1, <1>6 DEF JobType
<1>8. JobType(j)
    BY <1>0, <1>6, <1>7 DEF JobType, JobSteps, BackupSteps
<1>9. jobs' = [jobs EXCEPT ![w] = j]
    BY <1>6 DEF publishManifest
<1>10. jobs'[w] = j
    BY <1>8, <1>9, JobMoves DEF IInv
<1>11. JobOK(w)'
    <2>1. TaskOK(w)'
        BY <1>0, <1>7, <1>10, BackupTaskOK DEF BackupSteps
    <2>2. DraftOK(w)' /\ RemovalOK(w)' /\ CopiedOK(w)'
        BY <1>7, <1>10 DEF DraftOK, RemovalOK, CopiedOK, Drafting, Copying, Verifying
    <2> QED
        BY <2>1, <2>2 DEF JobOK
<1>12. ASSUME NEW v \in Workers \ {w}, jobs'[v] = jobs[v] PROVE JobOK(v)'
    BY <1>0, <1>12, <1>u, ListingsStay
<1>13. FlagsInv'
    BY <1>0, <1>7, <1>8, <1>9, <1>u, FlagsStay DEF BackupSteps, VerifySteps
<1>14. WorldTypes' /\ FileTypes'
    BY <1>5, <1>u, Types DEF WorldTypes, FileTypes
<1>15. \A k \in Ids : k > counts.backups => dumps'[k] = None /\ manifests'[k] = None
    <2>1. \A k \in Ids : k > counts.backups => k # i
        BY <1>3, Counts, NotIds
    <2> QED
        BY <1>5, <1>u, <2>1 DEF IInv, NewInv
<1> QED
    BY <1>7, <1>8, <1>9, <1>11, <1>12, <1>13, <1>14, <1>15, <1>u, FileStep
    DEF Drafting, Copying, Verifying

(* A backup that is withdrawn: first its manifest, then its dump.          *)
LEMMA UnpublishStep ==
    ASSUME IInv, NEW w \in Workers, unpublishManifest(w)
    PROVE  IInv'
<1>u. /\ UNCHANGED <<rows, schema, phase, now, dumps, overtaken, counts>>
      /\ UNCHANGED <<backupInProgress, restoreVerificationInProgress>>
    BY DEF unpublishManifest, world, flags
<1>0. /\ jobs[w].step = "unpublish" /\ jobs[w].step \in BackupSteps
      /\ RemovalOK(w)
    BY DEF unpublishManifest, At, BackupSteps, IInv, JobsInv, JobOK
<1>1. PICK i \in Ids : i = jobs[w].id
    BY <1>0 DEF RemovalOK
<1>2. manifests' = [manifests EXCEPT ![i] = None] \/ manifests' = manifests
    BY <1>1 DEF unpublishManifest, removeIfPresent
<1>3. /\ manifests' \in [Ids -> Manifest \cup {None}]
      /\ \A k \in Ids : manifests'[k] = manifests[k] \/ manifests'[k] = None
    BY <1>2, ManifestWritten, Types DEF FileTypes
<1>4. PICK j : /\ JobType(j) /\ jobs' = [jobs EXCEPT ![w] = j] /\ j.step = "discard"
               /\ j.todo = jobs[w].todo /\ j.id = i /\ j.passed = jobs[w].passed
    BY <1>1, GoesTo DEF unpublishManifest, IInv, JobSteps, BackupSteps
<1>5. jobs'[w] = j
    BY <1>4, JobMoves DEF IInv
<1>6. JobOK(w)'
    <2>1. TaskOK(w)'
        BY <1>0, <1>4, <1>5, BackupTaskOK DEF BackupSteps
    <2>2. RemovalOK(w)'
        BY <1>4, <1>5 DEF RemovalOK
    <2>3. DraftOK(w)' /\ CopiedOK(w)'
        BY <1>4, <1>5 DEF DraftOK, CopiedOK, Drafting, Copying, Verifying
    <2> QED
        BY <2>1, <2>2, <2>3 DEF JobOK
<1>7. ASSUME NEW v \in Workers \ {w}, jobs'[v] = jobs[v] PROVE JobOK(v)'
    BY <1>0, <1>7, <1>u, ListingsStay
<1>8. FlagsInv'
    BY <1>0, <1>4, <1>u, FlagsStay DEF BackupSteps, VerifySteps
<1>9. WorldTypes' /\ FileTypes'
    BY <1>3, <1>u, Types DEF WorldTypes, FileTypes
<1>10. \A k \in Ids : k > counts.backups => dumps'[k] = None /\ manifests'[k] = None
    BY <1>3, <1>u DEF IInv, NewInv
<1> QED
    BY <1>4, <1>6, <1>7, <1>8, <1>9, <1>10, <1>u, FileStep DEF Drafting, Copying, Verifying

LEMMA DiscardStep ==
    ASSUME IInv, NEW w \in Workers, discardDump(w)
    PROVE  IInv'
<1>u. /\ UNCHANGED <<rows, schema, phase, now, manifests, overtaken, counts>>
      /\ backupInProgress' = FALSE /\ UNCHANGED restoreVerificationInProgress
    BY DEF discardDump, world
<1>0. /\ jobs[w].step = "discard" /\ jobs[w].step \in BackupSteps
      /\ RemovalOK(w)
    BY DEF discardDump, At, BackupSteps, IInv, JobsInv, JobOK
<1>1. PICK i \in Ids : i = jobs[w].id
    BY <1>0 DEF RemovalOK
<1>2. dumps' = [dumps EXCEPT ![i] = None] \/ dumps' = dumps
    BY <1>1 DEF discardDump, removeIfPresent
<1>3. /\ dumps' \in [Ids -> Dump \cup {None}]
      /\ \A k \in Ids : dumps'[k] = dumps[k] \/ dumps'[k] = None
    BY <1>2, DumpWritten, Types DEF FileTypes
<1>4. PICK j : /\ JobType(j) /\ jobs' = [jobs EXCEPT ![w] = j] /\ j.step = "idle"
               /\ j.passed = FALSE
    BY GivesUpTo DEF discardDump
<1>5. jobs'[w] = j
    BY <1>4, JobMoves DEF IInv
<1>6. JobOK(w)'
    BY <1>4, <1>5, RestsOK
<1>7. ASSUME NEW v \in Workers \ {w}, jobs'[v] = jobs[v] PROVE JobOK(v)'
    <2>1. jobs[v].step \in Copying => jobs[v].id \in Ids
        BY DEF IInv, JobsInv, JobOK, CopiedOK
    <2> QED
        BY <1>0, <1>3, <1>7, <1>u, <2>1, ListingsStay
<1>8. FlagsInv'
    BY <1>0, <1>4, <1>u, BackupLeaves DEF BackupSteps, VerifySteps
<1>9. WorldTypes' /\ FileTypes'
    BY <1>3, <1>u, Types DEF WorldTypes, FileTypes
<1>10. \A k \in Ids : k > counts.backups => dumps'[k] = None /\ manifests'[k] = None
    BY <1>3, <1>u DEF IInv, NewInv
<1> QED
    BY <1>4, <1>6, <1>7, <1>8, <1>9, <1>10, <1>u, FileStep DEF Drafting, Copying, Verifying

(* A backup that fails takes its dump with it, which has no manifest yet.  *)
LEMMA BackupFailsStep ==
    ASSUME IInv, NEW w \in Workers, backupFails(w)
    PROVE  IInv'
<1>u. /\ UNCHANGED <<rows, schema, phase, now, manifests, overtaken, counts>>
      /\ backupInProgress' = FALSE /\ UNCHANGED restoreVerificationInProgress
    BY DEF backupFails, world
<1>0. jobs[w].step \in BackupSteps
    BY DEF backupFails, BackupSteps
<1>3. /\ dumps' \in [Ids -> Dump \cup {None}]
      /\ \A k \in Ids : dumps'[k] = dumps[k] \/ dumps'[k] = None
    <2>1. dumps' = [dumps EXCEPT ![jobs[w].id] = None] \/ dumps' = dumps
        BY DEF backupFails, removeIfPresent
    <2> QED
        BY <2>1, DumpWritten, Types DEF FileTypes
<1>4. PICK j : /\ JobType(j) /\ jobs' = [jobs EXCEPT ![w] = j] /\ j.step = "idle"
               /\ j.passed = FALSE
    BY GivesUpTo DEF backupFails
<1>5. jobs'[w] = j
    BY <1>4, JobMoves DEF IInv
<1>6. JobOK(w)'
    BY <1>4, <1>5, RestsOK
<1>7. ASSUME NEW v \in Workers \ {w}, jobs'[v] = jobs[v] PROVE JobOK(v)'
    <2>1. jobs[v].step \in Copying => jobs[v].id \in Ids
        BY DEF IInv, JobsInv, JobOK, CopiedOK
    <2> QED
        BY <1>0, <1>3, <1>7, <1>u, <2>1, ListingsStay
<1>8. FlagsInv'
    BY <1>0, <1>4, <1>u, BackupLeaves DEF BackupSteps, VerifySteps
<1>9. WorldTypes' /\ FileTypes'
    BY <1>3, <1>u, Types DEF WorldTypes, FileTypes
<1>10. \A k \in Ids : k > counts.backups => dumps'[k] = None /\ manifests'[k] = None
    BY <1>3, <1>u DEF IInv, NewInv
<1> QED
    BY <1>4, <1>6, <1>7, <1>8, <1>9, <1>10, <1>u, FileStep DEF Drafting, Copying, Verifying

(* The rotation: the manifest, then the dump.                              *)
LEMMA UnlinkManifestStep ==
    ASSUME IInv, NEW w \in Workers, unlinkManifest(w)
    PROVE  IInv'
<1>u. /\ UNCHANGED <<rows, schema, phase, now, dumps, overtaken, counts>>
      /\ UNCHANGED <<backupInProgress, restoreVerificationInProgress>>
    BY DEF unlinkManifest, world, flags
<1>0. jobs[w].step = "unlink" /\ jobs[w].step \in BackupSteps
    BY DEF unlinkManifest, At, BackupSteps
<1>1. PICK i : i = NextDeletion(w)
    OBVIOUS
<1>2. manifests' = [manifests EXCEPT ![i] = None]
    BY <1>1 DEF unlinkManifest
<1>3. /\ manifests' \in [Ids -> Manifest \cup {None}] /\ (i \in Ids => manifests'[i] = None)
      /\ \A k \in Ids \ {i} : manifests'[k] = manifests[k]
    BY <1>2, ManifestWritten
<1>4. PICK j : /\ JobType(j) /\ jobs' = [jobs EXCEPT ![w] = j] /\ j.step = "remove"
               /\ j.todo = jobs[w].todo /\ j.passed = jobs[w].passed /\ j.plan = jobs[w].plan
    BY GoesTo DEF unlinkManifest, IInv, JobSteps, BackupSteps
<1>5. jobs'[w] = j
    BY <1>4, JobMoves DEF IInv
<1>6. JobOK(w)'
    <2>1. TaskOK(w)'
        BY <1>0, <1>4, <1>5, BackupTaskOK DEF BackupSteps
    <2>2. RemovalOK(w)'
        BY <1>1, <1>3, <1>4, <1>5 DEF RemovalOK, NextDeletion
    <2>3. DraftOK(w)' /\ CopiedOK(w)'
        BY <1>4, <1>5 DEF DraftOK, CopiedOK, Drafting, Copying, Verifying
    <2> QED
        BY <2>1, <2>2, <2>3 DEF JobOK
<1>7. ASSUME NEW v \in Workers \ {w}, jobs'[v] = jobs[v] PROVE JobOK(v)'
    BY <1>0, <1>7, <1>u, ListingsStay
<1>8. FlagsInv'
    BY <1>0, <1>4, <1>u, FlagsStay DEF BackupSteps, VerifySteps
<1>9. WorldTypes' /\ FileTypes'
    BY <1>3, <1>u, Types DEF WorldTypes, FileTypes
<1>10. \A k \in Ids : k > counts.backups => dumps'[k] = None /\ manifests'[k] = None
    BY <1>3, <1>u DEF IInv, NewInv
<1> QED
    BY <1>4, <1>6, <1>7, <1>8, <1>9, <1>10, <1>u, FileStep DEF Drafting, Copying, Verifying

LEMMA UnlinkDumpStep ==
    ASSUME IInv, NEW w \in Workers, unlinkDump(w)
    PROVE  IInv'
<1>u. /\ UNCHANGED <<rows, schema, phase, now, manifests, overtaken, counts>>
      /\ UNCHANGED <<backupInProgress, restoreVerificationInProgress>>
    BY DEF unlinkDump, world, flags
<1>0. /\ jobs[w].step = "remove" /\ jobs[w].step \in BackupSteps
      /\ RemovalOK(w) /\ JobType(jobs[w])
    BY Types DEF unlinkDump, At, BackupSteps, IInv, JobsInv, JobOK, JobTypes
<1>1. PICK i : i = NextDeletion(w)
    OBVIOUS
<1>2. /\ dumps' = [dumps EXCEPT ![i] = None]
      /\ i \in Ids => manifests[i] = None \/ i \in overtaken
    BY <1>0, <1>1 DEF unlinkDump, RemovalOK, NextDeletion
<1>3. /\ dumps' \in [Ids -> Dump \cup {None}] /\ (i \in Ids => dumps'[i] = None)
      /\ \A k \in Ids \ {i} : dumps'[k] = dumps[k]
    BY <1>2, DumpWritten
<1>4. PICK j : j = [jobs[w] EXCEPT !.step = "unlink", !.plan = jobs[w].plan \ {NextDeletion(w)}]
    OBVIOUS
<1>5. /\ j.step = "unlink" /\ j.todo = jobs[w].todo /\ j.passed = jobs[w].passed
      /\ j.plan = jobs[w].plan \ {NextDeletion(w)}
    BY <1>0, <1>4 DEF JobType
<1>6. JobType(j)
    BY <1>0, <1>4, <1>5 DEF JobType, JobSteps, BackupSteps
<1>7. jobs' = [jobs EXCEPT ![w] = j]
    <2>1. jobs' = [jobs EXCEPT ![w] =
                      [jobs[w] EXCEPT !.step = "unlink", !.plan = jobs[w].plan \ {NextDeletion(w)}]]
        BY DEF unlinkDump
    <2> QED
        BY <1>4, <2>1
<1>8. jobs'[w] = j
    BY <1>6, <1>7, JobMoves DEF IInv
<1>9. JobOK(w)'
    <2>1. /\ jobs[w].passed = FALSE /\ jobs[w].todo # << >>
          /\ Head(jobs[w].todo).what = "backup"
        BY <1>0, NotPassed, BackupTask DEF Task
    <2> QED
        BY <1>5, <1>8, <2>1, RestsOK
<1>10. ASSUME NEW v \in Workers \ {w}, jobs'[v] = jobs[v] PROVE JobOK(v)'
    <2>1. jobs[v].step \in Copying => jobs[v].id \in Ids
        BY DEF IInv, JobsInv, JobOK, CopiedOK
    <2> QED
        BY <1>0, <1>3, <1>10, <1>u, <2>1, ListingsStay
<1>11. FlagsInv'
    BY <1>0, <1>5, <1>6, <1>7, <1>u, FlagsStay DEF BackupSteps, VerifySteps
<1>12. WorldTypes' /\ FileTypes'
    BY <1>3, <1>u, Types DEF WorldTypes, FileTypes
<1>13. \A k \in Ids : k > counts.backups => dumps'[k] = None /\ manifests'[k] = None
    BY <1>3, <1>u DEF IInv, NewInv
<1> QED
    BY <1>5, <1>6, <1>7, <1>9, <1>10, <1>11, <1>12, <1>13, <1>u, FileStep
    DEF Drafting, Copying, Verifying

(* A verification writes its verdict beside the dump it has restored.      *)
LEMMA Recorded ==
    ASSUME IInv, NEW w \in Workers, jobs[w].step \in Verifying, NEW m \in Manifest,
           manifests' = [manifests EXCEPT ![jobs[w].id] = m],
           UNCHANGED <<dumps, overtaken, counts>>
    PROVE  /\ FileTypes'
           /\ \A k \in Ids : k > counts.backups => dumps'[k] = None /\ manifests'[k] = None
           /\ \A v \in Workers \ {w} : jobs'[v] = jobs[v] => JobOK(v)'
<1>0. jobs[w].step \in VerifySteps /\ CopiedOK(w)
    BY Steps_ DEF IInv, JobsInv, JobOK
<1>1. PICK i \in Ids : i = jobs[w].id
    BY <1>0 DEF CopiedOK, Copying
<1>2. i <= counts.backups
    BY <1>0, <1>1 DEF CopiedOK, Copying
<1>3. /\ manifests' \in [Ids -> Manifest \cup {None}] /\ manifests'[i] = m
      /\ \A k \in Ids \ {i} : manifests'[k] = manifests[k]
    BY <1>1, ManifestWritten
<1>4. FileTypes'
    BY <1>3, Types DEF FileTypes
<1>6. \A k \in Ids : k > counts.backups => dumps'[k] = None /\ manifests'[k] = None
    <2>1. \A k \in Ids : k > counts.backups => k # i
        BY <1>2, Counts, NotIds
    <2> QED
        BY <1>3, <2>1 DEF IInv, NewInv
<1>7. \A v \in Workers \ {w} : jobs'[v] = jobs[v] => JobOK(v)'
    BY <1>0, ListingsStay
<1> QED
    BY <1>4, <1>6, <1>7

LEMMA RecordFailedStep ==
    ASSUME IInv, NEW w \in Workers, recordFailed(w)
    PROVE  IInv'
<1>u. /\ UNCHANGED <<rows, schema, phase, now, dumps, overtaken, counts>>
      /\ restoreVerificationInProgress' = FALSE /\ UNCHANGED backupInProgress
    BY DEF recordFailed, verificationEnds, world
<1>0. /\ jobs[w].step = "record" /\ jobs[w].step \in Verifying /\ jobs[w].step \in VerifySteps
      /\ jobs[w].manifest \in Manifest
    BY DEF recordFailed, At, Verifying, VerifySteps, IInv, JobsInv, JobOK, CopiedOK, Copying
<1>1. PICK m : m = [jobs[w].manifest EXCEPT !.restoration = "FAILED"]
    OBVIOUS
<1>2. m \in Manifest
    BY <1>0, <1>1 DEF Manifest
<1>3. manifests' = [manifests EXCEPT ![jobs[w].id] = m]
    BY <1>1 DEF recordFailed, replaceManifest
<1>4. PICK j : /\ JobType(j) /\ jobs' = [jobs EXCEPT ![w] = j] /\ j.step = "idle"
               /\ j.passed = FALSE
    BY GivesUpTo DEF recordFailed
<1>5. jobs'[w] = j
    BY <1>4, JobMoves DEF IInv
<1>6. JobOK(w)'
    BY <1>4, <1>5, RestsOK
<1>7. /\ FileTypes'
      /\ \A k \in Ids : k > counts.backups => dumps'[k] = None /\ manifests'[k] = None
      /\ \A v \in Workers \ {w} : jobs'[v] = jobs[v] => JobOK(v)'
    BY <1>0, <1>2, <1>3, <1>u, Recorded
<1>8. FlagsInv'
    BY <1>0, <1>4, <1>u, VerificationLeaves DEF BackupSteps, VerifySteps
<1>9. WorldTypes'
    BY <1>u, Types DEF WorldTypes
<1> QED
    BY <1>4, <1>6, <1>7, <1>8, <1>9, <1>u, FileStep DEF Drafting, Copying, Verifying

LEMMA RecordPassedStep ==
    ASSUME IInv, NEW w \in Workers, recordPassed(w)
    PROVE  IInv'
<1>u. /\ UNCHANGED <<rows, schema, phase, now, dumps, overtaken, counts>>
      /\ UNCHANGED <<backupInProgress, restoreVerificationInProgress>>
    BY DEF recordPassed, world, flags
<1>0. /\ jobs[w].step = "record" /\ jobs[w].step \in Verifying /\ jobs[w].step \in VerifySteps
      /\ jobs[w].manifest \in Manifest /\ CopiedOK(w) /\ jobs[w].passed
    BY DEF recordPassed, At, Verifying, VerifySteps, IInv, JobsInv, JobOK, CopiedOK, Copying
<1>1. PICK m : m = [jobs[w].manifest EXCEPT !.restoration = "PASSED"]
    OBVIOUS
<1>2. m \in Manifest
    BY <1>0, <1>1 DEF Manifest
<1>3. manifests' = [manifests EXCEPT ![jobs[w].id] = m]
    BY <1>1 DEF recordPassed, replaceManifest
<1>4. PICK j : /\ JobType(j) /\ jobs' = [jobs EXCEPT ![w] = j] /\ j.step = "verdict"
               /\ j.todo = jobs[w].todo /\ j.id = jobs[w].id
               /\ j.manifest = jobs[w].manifest /\ j.passed = jobs[w].passed
    <2>1. Goes(w, "verdict") /\ "verdict" \in JobSteps
        BY DEF recordPassed, JobSteps, VerifySteps
    <2> QED
        BY <2>1, GoesTo DEF IInv
<1>5. jobs'[w] = j
    BY <1>4, JobMoves DEF IInv
<1>6. JobOK(w)'
    <2>1. TaskOK(w)'
        BY <1>0, <1>4, <1>5, VerifyTaskOK DEF VerifySteps
    <2>2. CopiedOK(w)'
        BY <1>0, <1>4, <1>5, <1>u DEF CopiedOK, Copying, Verifying, Stands
    <2>3. DraftOK(w)' /\ RemovalOK(w)'
        BY <1>4, <1>5 DEF DraftOK, RemovalOK, Drafting
    <2> QED
        BY <2>1, <2>2, <2>3 DEF JobOK
<1>7. /\ FileTypes'
      /\ \A k \in Ids : k > counts.backups => dumps'[k] = None /\ manifests'[k] = None
      /\ \A v \in Workers \ {w} : jobs'[v] = jobs[v] => JobOK(v)'
    BY <1>0, <1>2, <1>3, <1>u, Recorded
<1>8. FlagsInv'
    BY <1>0, <1>4, <1>u, FlagsStay DEF BackupSteps, VerifySteps
<1>9. WorldTypes'
    BY <1>u, Types DEF WorldTypes
<1>10. jobs[w].step \in Copying /\ j.step \notin Drafting
    BY <1>0, <1>4 DEF Copying, Drafting
<1> QED
    BY <1>4, <1>6, <1>7, <1>8, <1>9, <1>10, <1>u, FileStep

LEMMA AuditVerdictFailsStep ==
    ASSUME IInv, NEW w \in Workers, auditVerdictFails(w)
    PROVE  IInv'
<1>u. /\ UNCHANGED <<rows, schema, phase, now, dumps, overtaken, counts>>
      /\ restoreVerificationInProgress' = FALSE /\ UNCHANGED backupInProgress
    BY DEF auditVerdictFails, verificationEnds, world
<1>0. /\ jobs[w].step = "verdict" /\ jobs[w].step \in Verifying /\ jobs[w].step \in VerifySteps
      /\ jobs[w].manifest \in Manifest
    BY DEF auditVerdictFails, At, Verifying, VerifySteps, IInv, JobsInv, JobOK, CopiedOK, Copying
<1>3. manifests' = [manifests EXCEPT ![jobs[w].id] = jobs[w].manifest]
    BY DEF auditVerdictFails, replaceManifest
<1>4. PICK j : /\ JobType(j) /\ jobs' = [jobs EXCEPT ![w] = j] /\ j.step = "idle"
               /\ j.passed = FALSE
    BY GivesUpTo DEF auditVerdictFails
<1>5. jobs'[w] = j
    BY <1>4, JobMoves DEF IInv
<1>6. JobOK(w)'
    BY <1>4, <1>5, RestsOK
<1>7. /\ FileTypes'
      /\ \A k \in Ids : k > counts.backups => dumps'[k] = None /\ manifests'[k] = None
      /\ \A v \in Workers \ {w} : jobs'[v] = jobs[v] => JobOK(v)'
    BY <1>0, <1>3, <1>u, Recorded
<1>8. FlagsInv'
    BY <1>0, <1>4, <1>u, VerificationLeaves DEF BackupSteps, VerifySteps
<1>9. WorldTypes'
    BY <1>u, Types DEF WorldTypes
<1> QED
    BY <1>4, <1>6, <1>7, <1>8, <1>9, <1>u, FileStep DEF Drafting, Copying, Verifying

LEMMA VerdictIsLostStep ==
    ASSUME IInv, NEW w \in Workers, verdictIsLost(w)
    PROVE  IInv'
<1>u. /\ UNCHANGED <<rows, schema, phase, now, dumps, manifests, overtaken, counts>>
      /\ restoreVerificationInProgress' = FALSE /\ UNCHANGED backupInProgress
    BY DEF verdictIsLost, verificationEnds, world
<1>0. jobs[w].step \in VerifySteps
    BY DEF verdictIsLost, VerifySteps
<1>1. PICK j : /\ JobType(j) /\ jobs' = [jobs EXCEPT ![w] = j] /\ j.step = "idle"
               /\ j.passed = FALSE
    BY GivesUpTo DEF verdictIsLost
<1>2. jobs'[w] = j
    BY <1>1, JobMoves DEF IInv
<1>3. JobOK(w)'
    BY <1>1, <1>2, RestsOK
<1>4. FlagsInv'
    BY <1>0, <1>1, <1>u, VerificationLeaves DEF BackupSteps, VerifySteps
<1>5. WorldTypes'
    BY <1>u, Types DEF WorldTypes
<1> QED
    BY <1>1, <1>3, <1>4, <1>5, <1>u, QuietStep DEF Drafting, Copying, Verifying

LEMMA ListShowsCorruptStep ==
    ASSUME IInv, NEW w \in Workers, listShowsCorrupt(w)
    PROVE  IInv'
<1>u. /\ UNCHANGED <<rows, schema, phase, now, dumps, manifests, overtaken, counts>>
      /\ UNCHANGED <<backupInProgress, restoreVerificationInProgress>>
    BY DEF listShowsCorrupt, world, files, flags
<1>0. jobs[w].step \in {"rewrite", "cronrewrite"}
    BY DEF listShowsCorrupt
<1>1. PICK p \in {"due", "idle"} : jobs' = [jobs EXCEPT ![w] = [Idle EXCEPT !.step = p]]
    BY DEF listShowsCorrupt, ListingGoesOn
<1>2. PICK j : j = [Idle EXCEPT !.step = p]
    OBVIOUS
<1>3. j.step = p /\ j.passed = FALSE
    BY <1>2 DEF Idle
<1>4. JobType(j)
    BY <1>2, <1>3, IdleType DEF JobType, JobSteps, Idle
<1>5. jobs' = [jobs EXCEPT ![w] = j] /\ jobs'[w] = j
    BY <1>1, <1>2, <1>4, JobMoves DEF IInv
<1>6. JobOK(w)'
    BY <1>1, <1>3, <1>5, RestsOK
<1>7. FlagsInv'
    <2>1. /\ j.step \notin BackupSteps /\ j.step \notin VerifySteps
          /\ jobs[w].step \notin BackupSteps /\ jobs[w].step \notin VerifySteps
        BY <1>0, <1>1, <1>3 DEF BackupSteps, VerifySteps
    <2> QED
        BY <1>4, <1>5, <1>u, <2>1, FlagsStay
<1>8. WorldTypes'
    BY <1>u, Types DEF WorldTypes
<1>9. j.step \notin Drafting /\ j.step \notin Copying
    BY <1>1, <1>3 DEF Drafting, Copying, Verifying
<1> QED
    BY <1>4, <1>5, <1>6, <1>7, <1>8, <1>9, <1>u, QuietStep

(* A listing writes its copy back, whatever has become of the files.       *)
LEMMA ListRewritesStep ==
    ASSUME IInv, NEW w \in Workers, listRewrites(w)
    PROVE  IInv'
<1>u. /\ UNCHANGED <<rows, schema, phase, now, dumps, counts>>
      /\ UNCHANGED <<backupInProgress, restoreVerificationInProgress>>
    BY DEF listRewrites, world, flags
<1>0. /\ jobs[w].step \in {"rewrite", "cronrewrite"} /\ jobs[w].step \in Copying
      /\ CopiedOK(w)
    BY DEF listRewrites, Copying, IInv, JobsInv, JobOK
<1>1. PICK i \in Ids : i = jobs[w].id
    BY <1>0 DEF CopiedOK
<1>2. PICK m \in Manifest : m = jobs[w].manifest
    BY <1>0 DEF CopiedOK
<1>3. i <= counts.backups
    BY <1>0, <1>1, <1>2 DEF CopiedOK
<1>4. manifests' = [manifests EXCEPT ![i] = m]
    BY <1>1, <1>2 DEF listRewrites, replaceManifest
<1>5. /\ manifests' \in [Ids -> Manifest \cup {None}] /\ manifests'[i] = m
      /\ \A k \in Ids \ {i} : manifests'[k] = manifests[k]
    BY <1>4, ManifestWritten
<1>6. /\ overtaken \subseteq overtaken' /\ overtaken' \subseteq overtaken \cup {i}
      /\ manifests[i] = None => i \in overtaken'
    BY <1>1 DEF listRewrites
<1>7. PICK j : /\ \E p \in {"due", "idle"} : j = [Idle EXCEPT !.step = p]
               /\ jobs' = [jobs EXCEPT ![w] = j]
    BY DEF listRewrites, ListingGoesOn
<1>8. PICK p \in {"due", "idle"} : j = [Idle EXCEPT !.step = p]
    BY <1>7
<1>9. j.step = p /\ j.passed = FALSE
    BY <1>8 DEF Idle
<1>10. JobType(j)
    BY <1>8, <1>9, IdleType DEF JobType, JobSteps, Idle
<1>11. jobs'[w] = j
    BY <1>7, <1>10, JobMoves DEF IInv
<1>12. JobOK(w)'
    BY <1>8, <1>9, <1>11, RestsOK
<1>13. ASSUME NEW v \in Workers \ {w}, jobs'[v] = jobs[v] PROVE JobOK(v)'
    <2>1. JobOK(v)
        BY DEF IInv, JobsInv
    <2>2. jobs[v].step \in Drafting => jobs[v].id \in Ids \ {i}
        BY <1>0, <1>1, <2>1 DEF IInv, NewInv, JobOK, DraftOK
    <2>3. TaskOK(v)'
        BY <1>13, <2>1 DEF JobOK, TaskOK
    <2>4. DraftOK(v)'
        BY <1>5, <1>13, <1>u, <2>1, <2>2 DEF JobOK, DraftOK, Stands
    <2>5. RemovalOK(v)'
        BY <1>5, <1>6, <1>13, <2>1 DEF JobOK, RemovalOK
    <2>6. CopiedOK(v)'
        BY <1>13, <1>u, <2>1 DEF JobOK, CopiedOK, Stands
    <2> QED
        BY <2>3, <2>4, <2>5, <2>6 DEF JobOK
<1>14. FlagsInv'
    <2>1. /\ j.step \notin BackupSteps /\ j.step \notin VerifySteps
          /\ jobs[w].step \notin BackupSteps /\ jobs[w].step \notin VerifySteps
        BY <1>0, <1>8, <1>9 DEF BackupSteps, VerifySteps
    <2> QED
        BY <1>7, <1>10, <1>u, <2>1, FlagsStay
<1>15. WorldTypes' /\ FileTypes'
    BY <1>5, <1>6, <1>u, Types DEF WorldTypes, FileTypes
<1>16. \A k \in Ids : k > counts.backups => dumps'[k] = None /\ manifests'[k] = None
    <2>1. \A k \in Ids : k > counts.backups => k # i
        BY <1>3, Counts, NotIds
    <2> QED
        BY <1>5, <1>u, <2>1 DEF IInv, NewInv
<1>18. j.step \notin Drafting /\ j.step \notin Copying
    BY <1>8, <1>9 DEF Drafting, Copying, Verifying
<1> QED
    BY <1>7, <1>10, <1>12, <1>13, <1>14, <1>15, <1>16, <1>18, <1>u, FileStep

(***************************************************************************)
(* What goes on around                                                     *)
(***************************************************************************)

(* No dump comes or goes, whatever else happens to it.                     *)
SameDumps == \A i \in Ids : Stands(i)' <=> Stands(i)

LEMMA AroundStep ==
    ASSUME IInv, UNCHANGED <<manifests, jobs, overtaken>>,
           UNCHANGED <<backupInProgress, restoreVerificationInProgress>>,
           counts'.backups = counts.backups, SameDumps, WorldTypes', FileTypes'
    PROVE  IInv'
<1>1. JobTypes'
    BY Types DEF JobTypes, JobType
<1>2. TypeOK'
    BY <1>1, SplitType DEF TypeOK, WorldTypes, FileTypes, JobTypes, JobType
<1>3. JobsInv'
    <2> SUFFICES ASSUME NEW w \in Workers PROVE JobOK(w)'
        BY DEF JobsInv
    <2>1. JobOK(w) /\ jobs'[w] = jobs[w]
        BY DEF IInv, JobsInv
    <2>2. TaskOK(w)' /\ RemovalOK(w)'
        BY <2>1 DEF JobOK, TaskOK, RemovalOK
    <2>3. DraftOK(w)' /\ CopiedOK(w)'
        BY <2>1 DEF JobOK, DraftOK, CopiedOK, SameDumps
    <2> QED
        BY <2>2, <2>3 DEF JobOK
<1>4. NewInv'
    BY DEF IInv, NewInv, SameDumps, Stands
<1>5. FlagsInv'
    BY DEF IInv, FlagsInv, Busy
<1> QED
    BY <1>2, <1>3, <1>4, <1>5 DEF IInv

(* A request writes to the database.                                       *)
LEMMA WritesStep ==
    ASSUME IInv, createQuickSale \/ cleanTestData
    PROVE  IInv'
<1>1. PICK numbers \in SUBSET (0..MaxRows) : Writes(numbers)
    <2>1. rows \in 0..MaxRows
        BY Types DEF WorldTypes
    <2>2. CASE createQuickSale
        BY <2>1, <2>2, Bounds DEF createQuickSale
    <2>3. CASE cleanTestData
        BY <2>1, <2>3, Bounds DEF cleanTestData
    <2> QED
        BY <2>2, <2>3
<1>u. /\ UNCHANGED <<schema, phase, now, dumps, manifests, jobs, overtaken>>
      /\ UNCHANGED <<backupInProgress, restoreVerificationInProgress>>
      /\ rows' \in 0..MaxRows
      /\ counts.writes < MaxWrites /\ counts' = [counts EXCEPT !.writes = @ + 1]
    BY <1>1 DEF Writes, Counted, files, flags
<1>2. counts \in [backups : 0..MaxBackups, requests : 0..MaxRequests,
                  writes : 0..MaxWrites, locks : 0..MaxLocks, faults : 0..MaxFaults]
    BY Types DEF WorldTypes
<1>3. counts.writes + 1 \in 0..MaxWrites
    BY <1>2, <1>u, Bounds
<1>4. /\ counts'.backups = counts.backups /\ counts'.faults = counts.faults
      /\ counts' \in [backups : 0..MaxBackups, requests : 0..MaxRequests,
                      writes : 0..MaxWrites, locks : 0..MaxLocks, faults : 0..MaxFaults]
    BY <1>2, <1>3, <1>u
<1>5. WorldTypes' /\ FileTypes'
    BY <1>4, <1>u, Types DEF WorldTypes, FileTypes
<1> QED
    BY <1>4, <1>5, <1>u, AroundStep DEF SameDumps, Stands

LEMMA SetPhaseStep ==
    ASSUME IInv, SetPhase
    PROVE  IInv'
<1>u. /\ UNCHANGED <<rows, schema, now, dumps, manifests, jobs, overtaken>>
      /\ UNCHANGED <<backupInProgress, restoreVerificationInProgress>>
      /\ phase' \in {"OPEN", "LOCKED"}
      /\ counts.locks < MaxLocks /\ counts' = [counts EXCEPT !.locks = @ + 1]
    BY DEF SetPhase, Counted, files, flags
<1>1. counts \in [backups : 0..MaxBackups, requests : 0..MaxRequests,
                  writes : 0..MaxWrites, locks : 0..MaxLocks, faults : 0..MaxFaults]
    BY Types DEF WorldTypes
<1>2. counts.locks + 1 \in 0..MaxLocks
    BY <1>1, <1>u, Bounds
<1>3. /\ counts'.backups = counts.backups /\ counts'.faults = counts.faults
      /\ counts' \in [backups : 0..MaxBackups, requests : 0..MaxRequests,
                      writes : 0..MaxWrites, locks : 0..MaxLocks, faults : 0..MaxFaults]
    BY <1>1, <1>2, <1>u
<1>4. WorldTypes' /\ FileTypes'
    BY <1>3, <1>u, Types DEF WorldTypes, FileTypes
<1> QED
    BY <1>3, <1>4, <1>u, AroundStep DEF SameDumps, Stands

LEMMA TickStep ==
    ASSUME IInv, Tick
    PROVE  IInv'
<1>u. /\ UNCHANGED <<rows, schema, phase, dumps, manifests, jobs, overtaken, counts>>
      /\ UNCHANGED <<backupInProgress, restoreVerificationInProgress>>
      /\ now' = now + 1 /\ now < MaxTicks
    BY DEF Tick, files, flags
<1>1. WorldTypes' /\ FileTypes'
    BY <1>u, Types, Bounds DEF WorldTypes, FileTypes
<1> QED
    BY <1>1, <1>u, AroundStep DEF SameDumps, Stands

LEMMA FaultCounted ==
    ASSUME IInv, counts.faults < MaxFaults, Counted("faults")
    PROVE  /\ counts'.backups = counts.backups /\ counts'.faults = counts.faults + 1
           /\ counts' \in [backups : 0..MaxBackups, requests : 0..MaxRequests,
                           writes : 0..MaxWrites, locks : 0..MaxLocks, faults : 0..MaxFaults]
           /\ counts.faults \in Nat
<1>1. counts \in [backups : 0..MaxBackups, requests : 0..MaxRequests,
                  writes : 0..MaxWrites, locks : 0..MaxLocks, faults : 0..MaxFaults]
    BY Types DEF WorldTypes
<1>2. counts.faults + 1 \in 0..MaxFaults /\ counts.faults \in Nat
    BY <1>1, Bounds
<1> QED
    BY <1>1, <1>2 DEF Counted

(* So does a damage.                                                       *)
LEMMA DamagedDumps ==
    ASSUME IInv, NEW i \in Ids, Damage(i)
    PROVE  dumps' \in [Ids -> Dump \cup {None}] /\ SameDumps
<1>1. PICK d : d = [dumps[i] EXCEPT !.sound = FALSE]
    OBVIOUS
<1>2. dumps[i] \in Dump /\ Stands(i)
    BY Types DEF Damage, Valid, Paired, Stands, FileTypes
<1>3. d \in Dump /\ d # None
    <2>1. d \in Dump
        BY <1>1, <1>2 DEF Dump
    <2>2. DOMAIN d = {"content", "sound", "mtime"} /\ DOMAIN None = {"none"}
        BY <2>1 DEF None, Dump
    <2> QED
        BY <2>1, <2>2
<1>4. dumps' = [dumps EXCEPT ![i] = d]
    BY <1>1 DEF Damage
<1>5. /\ dumps' \in [Ids -> Dump \cup {None}] /\ dumps'[i] = d
      /\ \A k \in Ids \ {i} : dumps'[k] = dumps[k]
    BY <1>3, <1>4, DumpWritten
<1> QED
    BY <1>2, <1>3, <1>5 DEF SameDumps, Stands

LEMMA DamageStep ==
    ASSUME IInv, NEW i \in Ids, Damage(i)
    PROVE  IInv'
<1>u. /\ UNCHANGED <<rows, schema, phase, now, manifests, jobs, overtaken>>
      /\ UNCHANGED <<backupInProgress, restoreVerificationInProgress>>
    BY DEF Damage, world, flags
<1>6. dumps' \in [Ids -> Dump \cup {None}] /\ SameDumps
    BY DamagedDumps
<1>7. /\ counts'.backups = counts.backups /\ counts'.faults = counts.faults + 1
      /\ counts' \in [backups : 0..MaxBackups, requests : 0..MaxRequests,
                      writes : 0..MaxWrites, locks : 0..MaxLocks, faults : 0..MaxFaults]
      /\ counts.faults \in Nat
    BY FaultCounted DEF Damage
<1>8. schema \in 0..counts.faults
    BY Types DEF WorldTypes
<1>9. schema' \in 0..counts'.faults
    BY <1>7, <1>8, <1>u
<1>10. WorldTypes' /\ FileTypes'
    BY <1>6, <1>7, <1>9, <1>u, Types DEF WorldTypes, FileTypes
<1> QED
    BY <1>6, <1>7, <1>10, <1>u, AroundStep

(* A restart, even from a copy, leaves the same dumps.                     *)
LEMMA RestartedDumps ==
    ASSUME IInv, NEW upgrade \in 0..1, NEW moved \in BOOLEAN, Restart(upgrade, moved),
           NEW i \in Ids
    PROVE  dumps'[i] \in Dump \cup {None} /\ (dumps'[i] = None <=> dumps[i] = None)
<1>1. dumps \in [Ids -> Dump \cup {None}]
    BY Types DEF FileTypes
<1>2. dumps'[i] = IF moved /\ dumps[i] # None THEN [dumps[i] EXCEPT !.mtime = 1] ELSE dumps[i]
    BY DEF Restart
<1>3. CASE moved /\ dumps[i] # None
    <2>1. PICK d : d = [dumps[i] EXCEPT !.mtime = 1]
        OBVIOUS
    <2>2. dumps[i] \in Dump
        BY <1>1, <1>3
    <2>3. d \in Dump
        BY <2>1, <2>2 DEF Dump
    <2>4. DOMAIN d = {"content", "sound", "mtime"} /\ DOMAIN None = {"none"}
        BY <2>3 DEF None, Dump
    <2>5. dumps'[i] = d /\ d # None
        BY <1>2, <1>3, <2>1, <2>4
    <2> QED
        BY <1>3, <2>3, <2>5
<1>4. CASE ~(moved /\ dumps[i] # None)
    BY <1>1, <1>2, <1>4
<1> QED
    BY <1>3, <1>4

(* After a restart only the files are left.                                *)
LEMMA RestartStep ==
    ASSUME IInv, NEW upgrade \in 0..1, NEW moved \in BOOLEAN, Restart(upgrade, moved)
    PROVE  IInv'
<1>u. /\ UNCHANGED <<rows, phase, now, manifests, overtaken>>
      /\ backupInProgress' = FALSE /\ restoreVerificationInProgress' = FALSE
      /\ jobs' = [w \in Workers |-> Idle] /\ schema' = schema + upgrade
    BY DEF Restart
<1>3. \A i \in Ids : dumps'[i] \in Dump \cup {None} /\ (dumps'[i] = None <=> dumps[i] = None)
    BY RestartedDumps
<1>4. SameDumps
    BY <1>3 DEF SameDumps, Stands
<1>5. FileTypes'
    <2>1. dumps' = [i \in Ids |-> dumps'[i]]
        BY DEF Restart
    <2>2. dumps' \in [Ids -> Dump \cup {None}]
        BY <1>3, <2>1
    <2> QED
        BY <1>u, <2>2, Types DEF FileTypes
<1>6. /\ counts'.backups = counts.backups /\ counts'.faults = counts.faults + 1
      /\ counts' \in [backups : 0..MaxBackups, requests : 0..MaxRequests,
                      writes : 0..MaxWrites, locks : 0..MaxLocks, faults : 0..MaxFaults]
      /\ counts.faults \in Nat
    BY FaultCounted DEF Restart
<1>7. schema \in 0..counts.faults
    BY Types DEF WorldTypes
<1>8. schema' \in 0..counts'.faults
    BY <1>6, <1>7, <1>u
<1>9. WorldTypes'
    BY <1>6, <1>8, <1>u, Types DEF WorldTypes
<1>10. /\ jobs' = [w \in Workers |-> jobs'[w]]
       /\ \A w \in Workers : jobs'[w] = Idle
    BY <1>u
<1>11. JobTypes'
    BY <1>10, IdleType DEF JobTypes, JobType
<1>12. TypeOK'
    BY <1>5, <1>9, <1>11, SplitType DEF TypeOK, WorldTypes, FileTypes, JobTypes, JobType
<1>13. JobsInv'
    BY <1>10, IdleType, RestsOK DEF JobsInv
<1>14. NewInv'
    <2>1. \A w \in Workers : jobs'[w].step \notin Drafting
        BY <1>10, IdleType DEF Drafting
    <2> QED
        BY <1>3, <1>6, <1>u, <2>1 DEF IInv, NewInv
<1>16. FlagsInv'
    BY <1>u, <1>10, IdleType DEF FlagsInv, Busy, BackupSteps, VerifySteps
<1> QED
    BY <1>12, <1>13, <1>14, <1>16 DEF IInv

(***************************************************************************)
(* The theorems                                                            *)
(***************************************************************************)
LEMMA InitIInv == Init => IInv
<1> SUFFICES ASSUME Init PROVE IInv
    OBVIOUS
<1>1. \A w \in Workers : jobs[w] = Idle
    BY DEF Init
<1>2. TypeOK
    <2>1. WorldTypes /\ FileTypes
        <3>1. counts = [backups |-> 0, requests |-> 0, writes |-> 0,
                       locks |-> 0, faults |-> 0]
            BY DEF Init
        <3>2. /\ counts.faults = 0
              /\ counts \in [backups : 0..MaxBackups, requests : 0..MaxRequests,
                             writes : 0..MaxWrites, locks : 0..MaxLocks, faults : 0..MaxFaults]
            BY <3>1, Bounds
        <3>3. /\ rows \in 0..MaxRows /\ now \in 0..MaxTicks /\ phase \in {"OPEN", "LOCKED"}
              /\ schema \in 0..counts.faults
            BY <3>2, Bounds DEF Init
        <3>4. backupInProgress \in BOOLEAN /\ restoreVerificationInProgress \in BOOLEAN
            BY DEF Init
        <3>5. FileTypes
            BY DEF Init, FileTypes
        <3> QED
            BY <3>2, <3>3, <3>4, <3>5 DEF WorldTypes
    <2>2. JobTypes
        BY <1>1, IdleType DEF Init, JobTypes, JobType
    <2> QED
        BY <2>1, <2>2, SplitType
<1>3. \A w \in Workers : jobs[w].step = "idle" /\ jobs[w].passed = FALSE
    BY <1>1, IdleType
<1>4. JobsInv
    BY <1>3 DEF JobsInv, JobOK, TaskOK, DraftOK, RemovalOK, CopiedOK, BackupSteps, VerifySteps,
                Drafting, Copying, Verifying
<1>5. NewInv
    BY <1>3 DEF Init, NewInv, Drafting
<1>7. FlagsInv
    BY <1>3 DEF Init, FlagsInv, Busy, BackupSteps, VerifySteps
<1> QED
    BY <1>2, <1>4, <1>5, <1>7 DEF IInv

LEMMA StepIInv == IInv /\ [Next]_vars => IInv'
<1> SUFFICES ASSUME IInv, [Next]_vars PROVE IInv'
    OBVIOUS
<1>1. ASSUME NEW w \in Workers, Steps(w) PROVE IInv'
    <2>1. CASE Starts(w) \/ Refused(w) \/ UsesDump(w)
        BY <2>1, StartsStep, RefusedStep
    <2>2. CASE measureBefore(w) \/ createDump(w) \/ measureAfter(w)
        BY <2>2, MeasureBeforeStep, CreateDumpStep, MeasureAfterStep
    <2>3. CASE publishDump(w) \/ publishManifest(w) \/ auditCreated(w) \/ auditFails(w)
        BY <2>3, PublishDumpStep, PublishManifestStep, AuditSteps
    <2>4. CASE unpublishManifest(w) \/ discardDump(w) \/ backupFails(w)
        BY <2>4, UnpublishStep, DiscardStep, BackupFailsStep
    <2>5. CASE planRotation(w) \/ unlinkManifest(w) \/ unlinkDump(w) \/ backupEnds(w)
        BY <2>5, PlanRotationStep, UnlinkManifestStep, UnlinkDumpStep, BackupEndsStep
    <2>6. CASE \/ checkDump(w) \/ checkFails(w) \/ createVerificationDatabase(w)
               \/ restoreAndMeasure(w)
        BY <2>6, CheckDumpStep, CheckFailsStep, CreateDatabaseStep, RestoreAndMeasureStep
    <2>7. CASE recordFailed(w) \/ recordPassed(w) \/ auditVerdict(w) \/ auditVerdictFails(w)
        BY <2>7, RecordFailedStep, RecordPassedStep, AuditVerdictStep, AuditVerdictFailsStep
    <2>8. CASE verdictIsLost(w) \/ listRewrites(w) \/ listShowsCorrupt(w)
        BY <2>8, VerdictIsLostStep, ListRewritesStep, ListShowsCorruptStep
    <2> QED
        BY <1>1, <2>1, <2>2, <2>3, <2>4, <2>5, <2>6, <2>7, <2>8 DEF Steps
<1>2. ASSUME NEW w \in Workers, NEW i \in Ids, listReads(w, i) PROVE IInv'
    BY <1>2, ListReadsStep
<1>3. ASSUME NEW w \in Admins, createManual(w) \/ createPreMigration(w) PROVE IInv'
    BY <1>3, Asked DEF Workers
<1>4. ASSUME NEW w \in Admins, NEW i \in Ids,
             verifyRestore(w, i) \/ prepareRestoration(w, i) \/ executeRestore(w, i)
      PROVE  IInv'
    BY <1>4, Asked DEF Workers
<1>5. CASE cronFires \/ cronDecides
    BY <1>5, CronFiresStep, CronDecidesStep
<1>6. CASE createQuickSale \/ cleanTestData \/ SetPhase \/ Tick
    BY <1>6, WritesStep, SetPhaseStep, TickStep
<1>7. ASSUME NEW upgrade \in 0..1, NEW moved \in BOOLEAN, Restart(upgrade, moved) PROVE IInv'
    BY <1>7, RestartStep
<1>8. ASSUME NEW i \in Ids, Damage(i) PROVE IInv'
    BY <1>8, DamageStep
<1>9. CASE UNCHANGED vars
    <2>u. /\ UNCHANGED <<rows, schema, phase, now, dumps, manifests, jobs, overtaken, counts>>
          /\ UNCHANGED <<backupInProgress, restoreVerificationInProgress>>
        BY <1>9 DEF vars, world, files, flags
    <2>1. WorldTypes' /\ FileTypes'
        BY <2>u, Types DEF WorldTypes, FileTypes
    <2> QED
        BY <2>u, <2>1, AroundStep DEF SameDumps, Stands
<1> QED
    BY <1>1, <1>2, <1>3, <1>4, <1>5, <1>6, <1>7, <1>8, <1>9 DEF Next

LEMMA AlwaysIInv == Spec => []IInv
BY InitIInv, StepIInv, PTL DEF Spec

(* The variables keep their types.                                         *)
THEOREM TypeCorrect == Spec => []TypeOK
<1>1. IInv => TypeOK
    BY DEF IInv
<1> QED
    BY <1>1, AlwaysIInv, PTL

(* One backup or one verification at a time, and each flag is up exactly   *)
(* while its job runs, whichever way the job ends (the finally blocks of   *)
(* createBackup and verifyRestoration, and the restart).                   *)
THEOREM FlagsFollow == Spec => []FlagsFollowJobs
<1>1. IInv => FlagsFollowJobs
    <2> SUFFICES ASSUME IInv PROVE FlagsFollowJobs
        OBVIOUS
    <2>1. Cardinality(Busy) <= 1
        <3>1. CASE Busy = {}
            BY <3>1, FS_EmptySet
        <3>2. CASE Busy # {}
            <4>1. PICK w \in Busy : Busy = {w}
                BY <3>2 DEF IInv, FlagsInv
            <4>2. Cardinality({w}) = 1
                BY FS_Singleton
            <4> QED
                BY <4>1, <4>2
        <3> QED
            BY <3>1, <3>2
    <2> QED
        BY <2>1 DEF IInv, FlagsInv, FlagsFollowJobs
<1> QED
    BY <1>1, AlwaysIInv, PTL

(* What OrphansOnlyInvisible says of a step.                               *)
NoNewOrphan == \A i \in Ids \ Discarded : ~Orphan(i) /\ Orphan(i)' => i \in overtaken'

(* Dumps stay, and a manifest that is new has its dump.                    *)
LEMMA DumpsStay ==
    ASSUME \A i \in Ids : Stands(i) => Stands(i)',
           \A i \in Ids : manifests'[i] # None =>
                              manifests[i] # None \/ Stands(i)' \/ i \in overtaken'
    PROVE  NoNewOrphan
BY DEF NoNewOrphan, Orphan

LEMMA SameFiles ==
    ASSUME UNCHANGED files
    PROVE  NoNewOrphan
BY DumpsStay DEF files, Stands

LEMMA ManifestComes ==
    ASSUME IInv, NEW k \in Ids, NEW m, manifests' = [manifests EXCEPT ![k] = m],
           UNCHANGED dumps, Stands(k) \/ k \in overtaken'
    PROVE  NoNewOrphan
<1>1. manifests \in [Ids -> Manifest \cup {None}]
    BY Types DEF FileTypes
<1>2. \A i \in Ids : manifests'[i] # None => manifests[i] # None \/ Stands(i) \/ i \in overtaken'
    BY <1>1
<1> QED
    BY <1>2, DumpsStay DEF Stands

LEMMA ManifestGoes ==
    ASSUME IInv, NEW k, manifests' \in removeIfPresent(manifests, k), UNCHANGED dumps
    PROVE  NoNewOrphan
<1>1. manifests \in [Ids -> Manifest \cup {None}]
    BY Types DEF FileTypes
<1>2. \A i \in Ids : manifests'[i] # None => manifests[i] # None
    BY <1>1 DEF removeIfPresent
<1> QED
    BY <1>2, DumpsStay DEF Stands

LEMMA DumpGoes ==
    ASSUME IInv, NEW k, dumps' \in removeIfPresent(dumps, k), UNCHANGED <<manifests, overtaken>>,
           k \in Ids \ Discarded => manifests[k] = None \/ k \in overtaken
    PROVE  NoNewOrphan
<1>1. dumps \in [Ids -> Dump \cup {None}]
    BY Types DEF FileTypes
<1>2. \A i \in Ids \ {k} : dumps'[i] = dumps[i]
    BY <1>1 DEF removeIfPresent
<1> QED
    BY <1>2 DEF NoNewOrphan, Orphan, Stands

(* The steps of a backup that touch a file.                                *)
LEMMA BackupOrphans ==
    ASSUME IInv, NEW w \in Workers,
           \/ publishDump(w) \/ publishManifest(w) \/ unpublishManifest(w) \/ discardDump(w)
           \/ backupFails(w) \/ unlinkManifest(w) \/ unlinkDump(w)
    PROVE  NoNewOrphan
<1>0. JobOK(w)
    BY DEF IInv, JobsInv
<1>1. CASE publishDump(w)
    <2>1. jobs[w].step \in Drafting
        BY <1>1 DEF publishDump, At, Drafting
    <2>2. /\ jobs[w].id \in Ids /\ UNCHANGED manifests
          /\ dumps' = [dumps EXCEPT ![jobs[w].id] =
                          [content |-> jobs[w].content, sound |-> TRUE, mtime |-> 0]]
        BY <1>0, <1>1, <2>1 DEF publishDump, JobOK, DraftOK
    <2>3. PICK d : d = [content |-> jobs[w].content, sound |-> TRUE, mtime |-> 0]
        OBVIOUS
    <2>4. DOMAIN d = {"content", "sound", "mtime"} /\ DOMAIN None = {"none"}
        BY <2>3 DEF None
    <2>5. d # None
        BY <2>4
    <2>6. dumps \in [Ids -> Dump \cup {None}] /\ dumps' = [dumps EXCEPT ![jobs[w].id] = d]
        BY <2>2, <2>3, Types DEF FileTypes
    <2>7. \A i \in Ids : Stands(i) => Stands(i)'
        BY <2>2, <2>5, <2>6 DEF Stands
    <2> QED
        BY <2>2, <2>7, DumpsStay
<1>2. CASE publishManifest(w)
    <2>1. jobs[w].step = "manifest" /\ jobs[w].step \in Drafting
        BY <1>2 DEF publishManifest, At, Drafting
    <2>2. jobs[w].id \in Ids /\ Stands(jobs[w].id)
        BY <1>0, <2>1 DEF JobOK, DraftOK
    <2> QED
        BY <1>2, <2>2, ManifestComes DEF publishManifest
<1>3. CASE unpublishManifest(w)
    BY <1>3, ManifestGoes DEF unpublishManifest
<1>4. CASE discardDump(w)
    <2>1. jobs[w].id \in Discarded
        BY <1>4 DEF discardDump, Discarded
    <2> QED
        BY <1>4, <2>1, DumpGoes DEF discardDump
<1>5. CASE backupFails(w) /\ At(w, "manifest")
    <2>1. jobs[w].step \in Drafting
        BY <1>5 DEF At, Drafting
    <2>2. manifests[jobs[w].id] = None
        BY <1>0, <2>1 DEF JobOK, DraftOK
    <2> QED
        BY <1>5, <2>2, DumpGoes DEF backupFails
<1>6. CASE backupFails(w) /\ ~At(w, "manifest")
    BY <1>6, SameFiles DEF backupFails, files
<1>7. CASE unlinkManifest(w)
    <2>1. manifests' \in removeIfPresent(manifests, NextDeletion(w)) /\ UNCHANGED dumps
        BY <1>7 DEF unlinkManifest, removeIfPresent
    <2> QED
        BY <2>1, ManifestGoes
<1>8. CASE unlinkDump(w)
    <2>1. /\ dumps' \in removeIfPresent(dumps, NextDeletion(w))
          /\ UNCHANGED <<manifests, overtaken>> /\ jobs[w].step = "remove"
        BY <1>8 DEF unlinkDump, removeIfPresent, At
    <2>2. NextDeletion(w) \in Ids =>
              manifests[NextDeletion(w)] = None \/ NextDeletion(w) \in overtaken
        BY <1>0, <2>1 DEF JobOK, RemovalOK, NextDeletion
    <2> QED
        BY <2>1, <2>2, DumpGoes
<1> QED
    BY <1>1, <1>2, <1>3, <1>4, <1>5, <1>6, <1>7, <1>8

(* The steps of verifications and listings that write a manifest.          *)
LEMMA CopyOrphans ==
    ASSUME IInv, NEW w \in Workers,
           recordFailed(w) \/ recordPassed(w) \/ auditVerdictFails(w) \/ listRewrites(w)
    PROVE  NoNewOrphan
<1>0. CopiedOK(w)
    BY DEF IInv, JobsInv, JobOK
<1>1. CASE recordFailed(w) \/ recordPassed(w) \/ auditVerdictFails(w)
    <2>1. jobs[w].step \in Verifying /\ jobs[w].step \in Copying
        BY <1>1 DEF recordFailed, recordPassed, auditVerdictFails, At, Verifying, Copying
    <2>2. jobs[w].id \in Ids /\ Stands(jobs[w].id)
        BY <1>0, <2>1 DEF CopiedOK
    <2>3. UNCHANGED dumps /\ \E m : manifests' = [manifests EXCEPT ![jobs[w].id] = m]
        BY <1>1 DEF recordFailed, recordPassed, auditVerdictFails, verificationEnds,
                    replaceManifest
    <2> QED
        BY <2>2, <2>3, ManifestComes
<1>2. CASE listRewrites(w)
    <2>1. jobs[w].step \in Copying
        BY <1>2 DEF listRewrites, Copying
    <2>2. PICK k \in Ids : k = jobs[w].id
        BY <1>0, <2>1 DEF CopiedOK
    <2>3. UNCHANGED dumps /\ manifests' = [manifests EXCEPT ![k] = jobs[w].manifest]
        BY <1>2, <2>2 DEF listRewrites, replaceManifest
    <2>4. manifests[k] # None \/ k \in overtaken'
        BY <1>2, <2>2 DEF listRewrites
    <2>5. manifests \in [Ids -> Manifest \cup {None}]
        BY Types DEF FileTypes
    <2>6. \A i \in Ids : manifests'[i] # None => manifests[i] # None \/ i \in overtaken'
        BY <2>3, <2>4, <2>5
    <2> QED
        BY <2>3, <2>6, DumpsStay DEF Stands
<1> QED
    BY <1>1, <1>2

(* The steps that leave the files as they are.                             *)
LEMMA QuietOrphans ==
    ASSUME NEW w \in Workers,
           \/ Starts(w) \/ Refused(w) \/ UsesDump(w)
           \/ measureBefore(w) \/ createDump(w) \/ measureAfter(w)
           \/ auditCreated(w) \/ auditFails(w) \/ planRotation(w) \/ backupEnds(w)
           \/ checkDump(w) \/ checkFails(w) \/ createVerificationDatabase(w)
           \/ restoreAndMeasure(w) \/ auditVerdict(w) \/ verdictIsLost(w) \/ listShowsCorrupt(w)
    PROVE  NoNewOrphan
<1>1. UNCHANGED files
    BY DEF files, Starts, Refused, UsesDump, measureBefore, createDump, measureAfter,
           auditCreated, auditFails, planRotation, backupEnds, checkDump, checkFails,
           createVerificationDatabase, restoreAndMeasure, auditVerdict, verdictIsLost,
           listShowsCorrupt, verificationEnds
<1> QED
    BY <1>1, SameFiles

(* What goes on around.                                                    *)
LEMMA AroundOrphans ==
    ASSUME IInv,
           \/ createQuickSale \/ cleanTestData \/ SetPhase \/ Tick
           \/ \E upgrade \in 0..1, moved \in BOOLEAN : Restart(upgrade, moved)
           \/ \E i \in Ids : Damage(i)
    PROVE  NoNewOrphan
<1>1. CASE createQuickSale \/ cleanTestData \/ SetPhase \/ Tick
    BY <1>1, SameFiles DEF createQuickSale, cleanTestData, Writes, SetPhase, Tick
<1>2. ASSUME NEW upgrade \in 0..1, NEW moved \in BOOLEAN, Restart(upgrade, moved)
      PROVE  NoNewOrphan
    <2>1. (\A i \in Ids : Stands(i)' <=> Stands(i)) /\ UNCHANGED manifests
        BY <1>2, RestartedDumps DEF Restart, Stands
    <2> QED
        BY <2>1, DumpsStay
<1>3. ASSUME NEW i \in Ids, Damage(i) PROVE NoNewOrphan
    <2>1. (\A k \in Ids : Stands(k)' <=> Stands(k)) /\ UNCHANGED manifests
        BY <1>3, DamagedDumps DEF Damage, SameDumps
    <2> QED
        BY <2>1, DumpsStay
<1> QED
    BY <1>1, <1>2, <1>3

LEMMA StepOrphans ==
    ASSUME IInv, [Next]_vars
    PROVE  NoNewOrphan
<1>1. ASSUME NEW w \in Workers, Steps(w) PROVE NoNewOrphan
    BY <1>1, BackupOrphans, CopyOrphans, QuietOrphans DEF Steps
<1>2. ASSUME NEW w \in Workers, NEW i \in Ids, listReads(w, i) PROVE NoNewOrphan
    BY <1>2, SameFiles DEF listReads
<1>3. ASSUME NEW w \in Admins, createManual(w) \/ createPreMigration(w) PROVE NoNewOrphan
    BY <1>3, SameFiles DEF createManual, createPreMigration, Requests
<1>4. ASSUME NEW w \in Admins, NEW i \in Ids,
             verifyRestore(w, i) \/ prepareRestoration(w, i) \/ executeRestore(w, i)
      PROVE  NoNewOrphan
    BY <1>4, SameFiles DEF verifyRestore, prepareRestoration, executeRestore, Requests
<1>5. CASE cronFires \/ cronDecides
    BY <1>5, SameFiles DEF cronFires, cronDecides
<1>6. CASE UNCHANGED vars
    BY <1>6, SameFiles DEF vars
<1> QED
    BY <1>1, <1>2, <1>3, <1>4, <1>5, <1>6, AroundOrphans DEF Next

(* A manifest loses its dump only where its withdrawal could not remove it *)
(* first, or where a listing writes it back: not by a failing publication, *)
(* a rotation, a verdict or a restart between any two of their steps       *)
(* (createBackup, removeNativeBackupPair, verifyRestoration).              *)
THEOREM Orphans == Spec => OrphansOnlyInvisible
<1>1. IInv /\ [Next]_vars => [NoNewOrphan]_vars
    BY StepOrphans
<1>2. [NoNewOrphan]_vars =>
          [\A i \in Ids \ Discarded : ~Orphan(i) /\ Orphan(i)' => i \in overtaken']_vars
    BY DEF NoNewOrphan
<1> QED
    BY <1>1, <1>2, AlwaysIInv, PTL DEF Spec, OrphansOnlyInvisible

(***************************************************************************)
(* The rotation                                                            *)
(***************************************************************************)
Rotating == {"unlink", "remove"}

(* What is said about the trigger of a backup, in the directory and in the *)
(* copies that listings and verifications hold.                            *)
Said(i) ==
    {t \in Triggers : \/ manifests[i] # None /\ manifests[i].trigger = t
                      \/ \E w \in Workers : /\ jobs[w].step \in Copying /\ jobs[w].id = i
                                            /\ jobs[w].manifest.trigger = t}

OneTrigger == \A i \in Ids : \A s, t \in Said(i) : s = t

(* What may go is not manual, and a younger backup stays, a verified one if*)
(* it is verified itself.                                                  *)
PlanOK(w) ==
    LET plan == jobs[w].plan IN
    jobs[w].step \in Rotating =>
        \A i \in plan :
            /\ "MANUAL" \notin Said(i)
            /\ \E j \in Ids \ plan : j > i /\ Valid(j)
            /\ i \in Verified \ overtaken => \E j \in (Verified \ plan) \cup overtaken : j > i

RotationInv == OneTrigger /\ \A w \in Workers : PlanOK(w)

(* What RotationSparesTheNet says of a step.                               *)
Spares ==
    \A i \in Gone \ Withdrawn :
        /\ manifests[i].trigger # "MANUAL"
        /\ \E j \in Ids : j > i /\ Valid(j)
        /\ i \in Verified \ overtaken => \E j \in Verified \cup overtaken : j > i

(* A set of numbers has a last one.                                        *)
LEMMA MaxIs ==
    ASSUME NEW S \in SUBSET Ids, S # {}
    PROVE  Max(S) \in S /\ \A x \in S : x <= Max(S)
<1> DEFINE from(k) == {x \in S : x >= k}
           B == {from(k) : k \in S}
<1>1. S \subseteq Nat /\ IsFiniteSet(S)
    <2>1. IsFiniteSet(Ids)
        BY Bounds, FS_Interval DEF Ids
    <2> QED
        BY <2>1, NotIds, FS_Subset
<1>2. IsWellFoundedOn(StrictSubsetOrdering(S), SUBSET S)
    BY <1>1, FS_StrictSubsetOrderingWellFounded, FS_FiniteSubsetsOfFinite
<1>3. B \subseteq SUBSET S /\ B # {}
    OBVIOUS
<1> HIDE DEF B
<1>4. PICK m \in B : \A s \in B : ~(<<s, m>> \in StrictSubsetOrdering(S))
    BY <1>2, <1>3, WFMin
<1>5. PICK k \in S : m = from(k)
    BY DEF B
<1>6. ASSUME NEW y \in S PROVE y <= k
    <2>1. from(y) \in B
        BY DEF B
    <2>2. ~(from(y) \subseteq from(k) /\ from(y) # from(k))
        BY <1>3, <1>4, <1>5, <2>1 DEF StrictSubsetOrdering
    <2> SUFFICES ASSUME y > k PROVE FALSE
        BY <1>1
    <2>3. \A n \in Nat : n >= y => n >= k
        BY <1>1
    <2>4. k \in from(k) /\ k \notin from(y)
        BY <1>1
    <2>5. from(y) \subseteq from(k)
        BY <1>1, <2>3
    <2> QED
        BY <2>2, <2>4, <2>5
<1>7. \E x \in S : \A y \in S : x >= y
    BY <1>1, <1>6
<1> QED
    BY <1>1, <1>7 DEF Max

(* The youngest is among the youngest.                                     *)
LEMMA YoungestHasMax ==
    ASSUME NEW S \in SUBSET Ids, S # {}
    PROVE  Max(S) \in Youngest(1, S)
<1>1. Max(S) \in S /\ {j \in S : j > Max(S)} = {}
    <2>1. PICK m : m = Max(S)
        OBVIOUS
    <2>2. m \in S /\ \A x \in S : x <= m /\ x \in Nat
        BY <2>1, MaxIs, NotIds
    <2> QED
        BY <2>1, <2>2
<1>2. Cardinality({j \in S : j > Max(S)}) = 0
    BY <1>1, FS_EmptySet
<1> QED
    BY <1>1, <1>2 DEF Youngest

(* What a plan of the rotation says when it is made.                       *)
LEMMA PlanSpares ==
    ASSUME NEW i \in ValidManifests \ Protected
    PROVE  /\ manifests[i].trigger # "MANUAL"
           /\ \E j \in Protected : j > i /\ Valid(j)
           /\ i \in Verified => \E j \in Verified \cap Protected : j > i
<1>1. i \in Ids /\ Valid(i) /\ i \in Nat
    BY NotIds DEF ValidManifests
<1>2. ASSUME NEW S \in SUBSET Ids, i \in S, Youngest(1, S) \subseteq Protected
      PROVE  \E j \in S \cap Protected : j > i
    <2>1. Max(S) \in S /\ i <= Max(S) /\ Max(S) \in Protected
        BY <1>2, MaxIs, YoungestHasMax
    <2>2. Max(S) \in Nat /\ Max(S) # i
        BY <2>1, NotIds
    <2> QED
        BY <1>1, <2>1, <2>2
<1>3. i \notin Of("MANUAL")
    BY DEF Protected
<1>4. \E j \in ValidManifests \cap Protected : j > i
    <2>1. ValidManifests \in SUBSET Ids /\ Youngest(1, ValidManifests) \subseteq Protected
        BY DEF ValidManifests, Protected
    <2> QED
        BY <1>2, <2>1
<1>5. i \in Verified => \E j \in Verified \cap Protected : j > i
    <2>1. Verified = {k \in ValidManifests : manifests[k].restoration = "PASSED"}
        BY DEF Verified, ValidManifests
    <2>2. Verified \in SUBSET Ids /\ Youngest(1, Verified) \subseteq Protected
        BY <2>1 DEF ValidManifests, Protected, LatestRestored
    <2> QED
        BY <1>2, <2>2
<1> QED
    BY <1>1, <1>3, <1>4, <1>5 DEF ValidManifests, Of

(***************************************************************************)
(* Steps of the others                                                     *)
(***************************************************************************)
LEMMA NoManifest == None \notin Manifest
<1> SUFFICES ASSUME NEW m \in Manifest, m = None PROVE FALSE
    OBVIOUS
<1>1. DOMAIN m = {"trigger", "at", "before", "after", "schema", "seen", "restoration"}
    BY DEF Manifest
<1>2. DOMAIN m = {"none"}
    BY DEF None
<1> QED
    BY <1>1, <1>2

LEMMA ManifestTypes ==
    ASSUME IInv, NEW i \in Ids, manifests[i] # None
    PROVE  manifests[i] \in Manifest /\ manifests[i].trigger \in Said(i)
<1>1. manifests[i] \in Manifest
    BY Types DEF FileTypes
<1> QED
    BY <1>1 DEF Said, Manifest

LEMMA CopyTypes ==
    ASSUME IInv, NEW w \in Workers, jobs[w].step \in Copying
    PROVE  /\ jobs[w].id \in Ids /\ jobs[w].manifest \in Manifest
           /\ jobs[w].manifest.trigger \in Said(jobs[w].id)
<1>1. jobs[w].id \in Ids /\ jobs[w].manifest \in Manifest
    BY DEF IInv, JobsInv, JobOK, CopiedOK
<1> QED
    BY <1>1 DEF Said, Manifest

Others(w) == \A v \in Workers \ {w} : jobs'[v] = jobs[v]

(* Nothing new is said.                                                    *)
LEMMA SaidStays ==
    ASSUME NEW w \in Workers, Others(w),
           jobs'[w].step \in Copying => jobs'[w].manifest.trigger \in Said(jobs'[w].id),
           \A i \in Ids : manifests'[i] # None => manifests'[i].trigger \in Said(i)
    PROVE  \A i \in Ids : Said(i)' \subseteq Said(i)
<1> SUFFICES ASSUME NEW i \in Ids, NEW t \in Said(i)' PROVE t \in Said(i)
    OBVIOUS
<1>1. CASE manifests'[i] # None /\ manifests'[i].trigger = t
    BY <1>1
<1>2. CASE \E v \in Workers : /\ jobs'[v].step \in Copying /\ jobs'[v].id = i
                              /\ jobs'[v].manifest.trigger = t
    <2>1. PICK v \in Workers : /\ jobs'[v].step \in Copying /\ jobs'[v].id = i
                               /\ jobs'[v].manifest.trigger = t
        BY <1>2
    <2>2. CASE v = w
        BY <2>1, <2>2
    <2>3. CASE v # w
        BY <2>1, <2>3 DEF Others, Said
    <2> QED
        BY <2>2, <2>3
<1> QED
    BY <1>1, <1>2 DEF Said

(* A step of a job beside the rotation.                                    *)
LEMMA StepBeside ==
    ASSUME IInv, IInv', RotationInv, NEW w \in Workers, Others(w),
           jobs'[w].step \notin Rotating,
           \A i \in Ids : Said(i)' \subseteq Said(i),
           \/ jobs[w].step \in BackupSteps \cup VerifySteps
           \/ /\ UNCHANGED dumps /\ overtaken \subseteq overtaken'
              /\ \A i \in Ids : \/ manifests'[i] = manifests[i]
                                \/ /\ manifests'[i] # None
                                   /\ \/ i \in overtaken'
                                      \/ /\ manifests[i] # None
                                         /\ manifests'[i].restoration = manifests[i].restoration
    PROVE  RotationInv'
<1>1. OneTrigger'
    BY DEF RotationInv, OneTrigger
<1>2. ASSUME NEW v \in Workers, jobs'[v].step \in Rotating
      PROVE  PlanOK(v)'
    <2>1. v # w /\ jobs'[v] = jobs[v]
        BY <1>2 DEF Others
    <2>2. jobs[w].step \notin BackupSteps \cup VerifySteps
        BY <1>2, <2>1 DEF IInv, FlagsInv, Busy, Rotating, BackupSteps
    <2>3. PICK plan : plan = jobs[v].plan
        OBVIOUS
    <2>4. plan \subseteq Ids
        BY <2>3, Types DEF JobTypes, JobType
    <2>5. \A i \in Ids : Valid(i) => Valid(i)'
        BY <2>2 DEF Valid, Paired, Stands
    <2>6. Verified \ overtaken' = Verified' \ overtaken' /\ overtaken \subseteq overtaken'
        BY <2>2 DEF Verified, Valid, Paired, Stands
    <2>7. \A i \in plan :
              /\ "MANUAL" \notin Said(i)
              /\ \E j \in Ids \ plan : j > i /\ Valid(j)
              /\ i \in Verified \ overtaken => \E j \in (Verified \ plan) \cup overtaken : j > i
        BY <1>2, <2>1, <2>3 DEF RotationInv, PlanOK
    <2>8. \A i \in plan :
              /\ "MANUAL" \notin Said(i)'
              /\ \E j \in Ids \ plan : j > i /\ Valid(j)'
              /\ i \in Verified' \ overtaken' => \E j \in (Verified' \ plan) \cup overtaken' : j > i
        BY <2>4, <2>5, <2>6, <2>7
    <2> QED
        BY <2>1, <2>3, <2>8 DEF PlanOK
<1>3. ASSUME NEW v \in Workers PROVE PlanOK(v)'
    BY <1>2 DEF PlanOK
<1> QED
    BY <1>1, <1>3 DEF RotationInv

(* No file with a manifest goes.                                           *)
LEMMA NothingGone ==
    ASSUME \A i \in Ids : manifests[i] # None => manifests'[i] # None
    PROVE  Spares
BY DEF Spares, Gone

(* A step that leaves the manifests alone and copies none.                 *)
LEMMA Aside ==
    ASSUME IInv, IInv', RotationInv, NEW w \in Workers, Others(w),
           jobs'[w].step \notin Rotating \cup Copying,
           UNCHANGED <<manifests, overtaken>>,
           jobs[w].step \in BackupSteps \cup VerifySteps \/ UNCHANGED dumps
    PROVE  RotationInv' /\ Spares
<1>1. \A i \in Ids : manifests'[i] # None => manifests'[i].trigger \in Said(i)
    BY ManifestTypes
<1>2. \A i \in Ids : Said(i)' \subseteq Said(i)
    BY <1>1, SaidStays
<1>3. RotationInv'
    BY <1>2, StepBeside
<1> QED
    BY <1>3, NothingGone

(* How a job moves on.                                                     *)
LEMMA MovesTo ==
    ASSUME IInv, NEW w \in Workers
    PROVE  /\ \A p \in JobSteps : Goes(w, p) =>
                  /\ Others(w) /\ jobs'[w].step = p /\ jobs'[w].id = jobs[w].id
                  /\ jobs'[w].manifest = jobs[w].manifest /\ jobs'[w].plan = jobs[w].plan
           /\ Gives_up(w) => Others(w) /\ jobs'[w].step = "idle"
           /\ jobs[w].todo # << >> /\ Succeeds(w) => Others(w) /\ jobs'[w].step \in {"idle", "start"}
<1>1. TypeOK
    BY DEF IInv
<1>2. ASSUME NEW p \in JobSteps, Goes(w, p)
      PROVE  /\ Others(w) /\ jobs'[w].step = p /\ jobs'[w].id = jobs[w].id
             /\ jobs'[w].manifest = jobs[w].manifest /\ jobs'[w].plan = jobs[w].plan
    BY <1>1, <1>2, GoesTo, JobMoves DEF Others
<1>3. ASSUME Gives_up(w)
      PROVE  Others(w) /\ jobs'[w].step = "idle"
    <2>1. PICK j : JobType(j) /\ jobs' = [jobs EXCEPT ![w] = j] /\ j.step = "idle"
        BY <1>3, GivesUpTo
    <2> QED
        BY <1>1, <2>1, JobMoves DEF Others
<1>4. ASSUME jobs[w].todo # << >>, Succeeds(w)
      PROVE  Others(w) /\ jobs'[w].step \in {"idle", "start"}
    <2>1. PICK j : /\ JobType(j) /\ jobs' = [jobs EXCEPT ![w] = j]
                   /\ j.step \in {"idle", "start"}
        BY <1>1, <1>4, SucceedsTo
    <2> QED
        BY <1>1, <2>1, JobMoves DEF Others
<1> QED
    BY <1>2, <1>3, <1>4

(* A job written as a whole record or field by field.                      *)
LEMMA JobIs ==
    ASSUME IInv, NEW w \in Workers
    PROVE  /\ jobs = [v \in Workers |-> jobs[v]]
           /\ jobs[w] = [step |-> jobs[w].step, todo |-> jobs[w].todo, id |-> jobs[w].id,
                         content |-> jobs[w].content, manifest |-> jobs[w].manifest,
                         passed |-> jobs[w].passed, plan |-> jobs[w].plan]
BY Types DEF JobTypes, JobType

LEMMA JobWritten ==
    ASSUME IInv, NEW w \in Workers, NEW p, NEW i, NEW m,
           jobs' = [jobs EXCEPT ![w] = [jobs[w] EXCEPT !.step = p, !.id = i, !.manifest = m]]
    PROVE  Others(w) /\ jobs'[w].step = p /\ jobs'[w].id = i /\ jobs'[w].manifest = m
<1>1. PICK j : j = [jobs[w] EXCEPT !.step = p, !.id = i, !.manifest = m]
    OBVIOUS
<1>2. j.step = p /\ j.id = i /\ j.manifest = m
    BY <1>1, JobIs
<1>3. jobs' = [v \in Workers |-> IF v = w THEN j ELSE jobs[v]]
    BY <1>1, JobIs
<1> QED
    BY <1>2, <1>3 DEF Others

LEMMA QuietSteps ==
    ASSUME IInv, IInv', RotationInv, NEW w \in Workers,
           \/ \E todo : Requests(w, todo)
           \/ Starts(w) \/ Refused(w) \/ UsesDump(w)
           \/ measureBefore(w) \/ createDump(w) \/ measureAfter(w) \/ publishDump(w)
           \/ auditCreated(w) \/ auditFails(w) \/ discardDump(w) \/ backupFails(w)
           \/ backupEnds(w) \/ checkFails(w) \/ auditVerdict(w) \/ verdictIsLost(w)
    PROVE  RotationInv' /\ Spares
<1> DEFINE Result == RotationInv' /\ Spares
<1>a. \A p \in JobSteps \ (Rotating \cup Copying) :
          /\ Others(w) /\ jobs'[w].step = p /\ UNCHANGED <<manifests, overtaken>>
          /\ jobs[w].step \in BackupSteps \cup VerifySteps \/ UNCHANGED dumps
          => Result
    BY Aside
<1> SUFFICES Result
    OBVIOUS
<1> HIDE DEF Result
<1>s. {"idle", "start", "measure", "check", "dump", "after", "publish", "manifest", "rotate",
       "unpublish"} \subseteq JobSteps \ (Rotating \cup Copying)
    BY DEF JobSteps, BackupSteps, VerifySteps, Rotating, Copying, Verifying
<1>j. /\ jobs = [v \in Workers |-> jobs[v]]
      /\ jobs[w] = [step |-> jobs[w].step, todo |-> jobs[w].todo, id |-> jobs[w].id,
                    content |-> jobs[w].content, manifest |-> jobs[w].manifest,
                    passed |-> jobs[w].passed, plan |-> jobs[w].plan]
    BY JobIs
<1>1. CASE \E todo : Requests(w, todo)
    <2>1. Others(w) /\ jobs'[w].step = "start"
        BY <1>1, <1>j DEF Requests, Others
    <2> QED
        BY <1>1, <1>a, <1>s, <2>1 DEF Requests, files
<1>2. CASE Starts(w)
    <2>1. Goes(w, "measure") \/ Goes(w, "check")
        BY <1>2 DEF Starts
    <2>2. Others(w) /\ jobs'[w].step \in {"measure", "check"}
        BY <1>s, <2>1, MovesTo
    <2> QED
        BY <1>2, <1>a, <1>s, <2>2 DEF Starts, files
<1>3. CASE Refused(w) \/ UsesDump(w)
    <2>1. Others(w) /\ jobs'[w].step = "idle"
        BY <1>3, MovesTo DEF Refused, UsesDump
    <2> QED
        BY <1>3, <1>a, <1>s, <2>1 DEF Refused, UsesDump, files
<1>4. CASE measureBefore(w) \/ createDump(w) \/ measureAfter(w) \/ publishDump(w)
    <2>1. Others(w)
        BY <1>4, <1>j DEF measureBefore, createDump, measureAfter, publishDump, Others
    <2>2. jobs'[w].step \in {"dump", "after", "publish", "manifest"}
        BY <1>4, <1>j DEF measureBefore, createDump, measureAfter, publishDump
    <2>3. jobs[w].step \in BackupSteps
        BY <1>4 DEF measureBefore, createDump, measureAfter, publishDump, At, BackupSteps
    <2>4. UNCHANGED <<manifests, overtaken>>
        BY <1>4 DEF measureBefore, createDump, measureAfter, publishDump, files
    <2> QED
        BY <1>a, <1>s, <2>1, <2>2, <2>3, <2>4
<1>5. CASE auditCreated(w)
    <2>1. Others(w) /\ jobs'[w].step = "rotate"
        BY <1>5, <1>j DEF auditCreated, Others
    <2> QED
        BY <1>5, <1>a, <1>s, <2>1 DEF auditCreated, files
<1>6. CASE auditFails(w)
    <2>1. Others(w) /\ jobs'[w].step = "unpublish"
        BY <1>6, <1>s, MovesTo DEF auditFails
    <2> QED
        BY <1>6, <1>a, <1>s, <2>1 DEF auditFails, files
<1>7. CASE discardDump(w) \/ backupFails(w)
    <2>1. Others(w) /\ jobs'[w].step = "idle"
        BY <1>7, MovesTo DEF discardDump, backupFails
    <2>2. jobs[w].step \in BackupSteps
        BY <1>7 DEF discardDump, backupFails, At, BackupSteps
    <2> QED
        BY <1>7, <1>a, <1>s, <2>1, <2>2 DEF discardDump, backupFails
<1>8. CASE backupEnds(w)
    <2>1. jobs[w].step \in BackupSteps
        BY <1>8 DEF backupEnds, BackupSteps
    <2>2. jobs[w].todo # << >>
        BY <2>1, BackupTask
    <2>3. Others(w) /\ jobs'[w].step \in {"idle", "start"}
        BY <1>8, <2>2, MovesTo DEF backupEnds
    <2> QED
        BY <1>8, <1>a, <1>s, <2>1, <2>3 DEF backupEnds, files
<1>9. CASE checkFails(w) \/ verdictIsLost(w)
    <2>1. Others(w) /\ jobs'[w].step = "idle"
        BY <1>9, MovesTo DEF checkFails, verdictIsLost
    <2> QED
        BY <1>9, <1>a, <1>s, <2>1 DEF checkFails, verdictIsLost, verificationEnds
<1>10. CASE auditVerdict(w)
    <2>1. jobs[w].todo # << >>
        BY <1>10, VerifyTask DEF auditVerdict, At, VerifySteps
    <2>2. Others(w) /\ jobs'[w].step \in {"idle", "start"}
        BY <1>10, <2>1, MovesTo DEF auditVerdict
    <2> QED
        BY <1>10, <1>a, <1>s, <2>2 DEF auditVerdict, verificationEnds
<1> QED
    BY <1>1, <1>2, <1>3, <1>4, <1>5, <1>6, <1>7, <1>8, <1>9, <1>10

(* A step that copies a manifest or writes a copy.                         *)
LEMMA CopyStep ==
    ASSUME IInv, IInv', RotationInv, NEW w \in Workers, Others(w),
           jobs'[w].step \notin Rotating,
           jobs'[w].step \in Copying => jobs'[w].manifest.trigger \in Said(jobs'[w].id),
           \A i \in Ids : \/ manifests'[i] = manifests[i]
                          \/ manifests'[i] \in Manifest /\ manifests'[i].trigger \in Said(i),
           \/ jobs[w].step \in BackupSteps \cup VerifySteps
           \/ /\ UNCHANGED dumps /\ overtaken \subseteq overtaken'
              /\ \A i \in Ids : \/ manifests'[i] = manifests[i]
                                \/ i \in overtaken'
                                \/ /\ manifests[i] # None
                                   /\ manifests'[i].restoration = manifests[i].restoration
    PROVE  RotationInv' /\ Spares
<1>1. \A i \in Ids : manifests'[i] # None => manifests'[i].trigger \in Said(i)
    BY ManifestTypes
<1>2. \A i \in Ids : Said(i)' \subseteq Said(i)
    BY <1>1, SaidStays
<1>3. \A i \in Ids : manifests'[i] = manifests[i] \/ manifests'[i] # None
    BY NoManifest
<1>4. RotationInv'
    BY <1>2, <1>3, StepBeside
<1> QED
    BY <1>3, <1>4, NothingGone

LEMMA CheckDumpSpares ==
    ASSUME IInv, IInv', RotationInv, NEW w \in Workers, checkDump(w)
    PROVE  RotationInv' /\ Spares
<1>1. PICK i : i = Task(w).of
    OBVIOUS
<1>2. jobs[w].step = "check" /\ manifests[i] # None /\ UNCHANGED <<dumps, manifests, overtaken>>
    BY <1>1 DEF checkDump, At, Valid, Paired, files
<1>3. /\ Others(w) /\ jobs'[w].step = "create" /\ jobs'[w].id = i
      /\ jobs'[w].manifest = manifests[i]
    <2>1. jobs' = [jobs EXCEPT ![w] = [jobs[w] EXCEPT !.step = "create", !.id = i,
                                                      !.manifest = manifests[i]]]
        BY <1>1 DEF checkDump
    <2> QED
        BY <2>1, JobWritten
<1>4. jobs'[w].step \in Copying /\ jobs'[w].step \notin Rotating
    BY <1>3 DEF Copying, Verifying, Rotating
<1>5. i \in Ids
    BY <1>3, <1>4 DEF IInv, JobsInv, JobOK, CopiedOK
<1>6. jobs'[w].manifest.trigger \in Said(jobs'[w].id)
    BY <1>2, <1>3, <1>5, ManifestTypes
<1> QED
    BY <1>2, <1>3, <1>4, <1>6, CopyStep

LEMMA VerificationSpares ==
    ASSUME IInv, IInv', RotationInv, NEW w \in Workers,
           createVerificationDatabase(w) \/ restoreAndMeasure(w)
    PROVE  RotationInv' /\ Spares
<1>1. jobs[w].step \in Copying /\ UNCHANGED <<dumps, manifests, overtaken>>
    BY DEF createVerificationDatabase, restoreAndMeasure, At, Copying, Verifying, files
<1>2. /\ Others(w) /\ jobs'[w].step \in {"restore", "record"} /\ jobs'[w].id = jobs[w].id
      /\ jobs'[w].manifest = jobs[w].manifest
    BY JobIs DEF createVerificationDatabase, restoreAndMeasure, Others, Goes, run
<1>3. jobs'[w].step \notin Rotating /\ jobs'[w].manifest.trigger \in Said(jobs'[w].id)
    BY <1>1, <1>2, CopyTypes DEF Rotating
<1> QED
    BY <1>1, <1>2, <1>3, CopyStep

(* The verdict is written into the copy that was checked.                  *)
LEMMA VerdictSpares ==
    ASSUME IInv, IInv', RotationInv, NEW w \in Workers,
           recordFailed(w) \/ recordPassed(w) \/ auditVerdictFails(w)
    PROVE  RotationInv' /\ Spares
<1>1. PICK i, m : i = jobs[w].id /\ m = jobs[w].manifest
    OBVIOUS
<1>2. jobs[w].step \in {"record", "verdict"}
    BY DEF recordFailed, recordPassed, auditVerdictFails, At
<1>3. jobs[w].step \in Copying /\ jobs[w].step \in VerifySteps
    BY <1>2 DEF Copying, Verifying, VerifySteps
<1>4. i \in Ids /\ m \in Manifest /\ m.trigger \in Said(i)
    BY <1>1, <1>3, CopyTypes
<1>5. PICK n : /\ n = m \/ \E verdict \in {"FAILED", "PASSED"} : n = [m EXCEPT !.restoration = verdict]
               /\ manifests' = [manifests EXCEPT ![i] = n]
    BY <1>1 DEF recordFailed, recordPassed, auditVerdictFails, replaceManifest
<1>6. n \in Manifest /\ n.trigger = m.trigger
    BY <1>4, <1>5 DEF Manifest
<1>7. /\ manifests'[i] = n /\ \A k \in Ids \ {i} : manifests'[k] = manifests[k]
    BY <1>4, <1>5, <1>6, ManifestWritten
<1>8. /\ Others(w) /\ jobs'[w].step \in {"idle", "verdict"}
      /\ jobs'[w].step = "verdict" => jobs'[w].id = i /\ jobs'[w].manifest = m
    <2>1. "verdict" \in JobSteps
        BY DEF JobSteps, VerifySteps
    <2>2. CASE recordPassed(w)
        BY <1>1, <2>1, <2>2, MovesTo DEF recordPassed
    <2>3. CASE recordFailed(w) \/ auditVerdictFails(w)
        BY <2>3, MovesTo DEF recordFailed, auditVerdictFails
    <2> QED
        BY <2>2, <2>3
<1>9. jobs'[w].step \in Copying => jobs'[w].manifest.trigger \in Said(jobs'[w].id)
    BY <1>4, <1>8 DEF Copying, Verifying
<1>10. jobs'[w].step \notin Rotating
    BY <1>8 DEF Rotating
<1> QED
    BY <1>3, <1>4, <1>6, <1>7, <1>8, <1>9, <1>10, CopyStep

LEMMA ListReadsSpares ==
    ASSUME IInv, IInv', RotationInv, NEW w \in Workers, NEW i \in Ids, listReads(w, i)
    PROVE  RotationInv' /\ Spares
<1>1. manifests[i] # None /\ UNCHANGED <<dumps, manifests, overtaken>>
    BY DEF listReads, Paired, files
<1>2. manifests[i] \in Manifest /\ manifests[i].trigger \in Said(i)
    BY <1>1, ManifestTypes
<1>3. PICK m : m = [manifests[i] EXCEPT !.seen = dumps[i].mtime]
    OBVIOUS
<1>4. m.trigger = manifests[i].trigger
    BY <1>2, <1>3 DEF Manifest
<1>5. /\ Others(w) /\ jobs'[w].step \in {"rewrite", "cronrewrite"} /\ jobs'[w].id = i
      /\ jobs'[w].manifest = m
    <2>1. PICK p \in {"rewrite", "cronrewrite"} :
             jobs' = [jobs EXCEPT ![w].step = p, ![w].id = i, ![w].manifest = m]
        BY <1>3 DEF listReads
    <2>2. jobs' = [jobs EXCEPT ![w] = [jobs[w] EXCEPT !.step = p, !.id = i, !.manifest = m]]
        BY <2>1
    <2>3. Others(w) /\ jobs'[w].step = p /\ jobs'[w].id = i /\ jobs'[w].manifest = m
        BY <2>2, JobWritten
    <2> QED
        BY <2>1, <2>3
<1>6. jobs'[w].step \notin Rotating /\ jobs'[w].manifest.trigger \in Said(jobs'[w].id)
    BY <1>2, <1>4, <1>5 DEF Rotating
<1> QED
    BY <1>1, <1>5, <1>6, CopyStep

(* A listing writes back what it read; a manifest that has changed         *)
(* meanwhile is then overtaken.                                            *)
LEMMA ListRewritesSpares ==
    ASSUME IInv, IInv', RotationInv, NEW w \in Workers, listRewrites(w)
    PROVE  RotationInv' /\ Spares
<1>1. PICK i, m : i = jobs[w].id /\ m = jobs[w].manifest
    OBVIOUS
<1>2. jobs[w].step \in Copying
    BY DEF listRewrites, Copying
<1>3. i \in Ids /\ m \in Manifest /\ m.trigger \in Said(i)
    BY <1>1, <1>2, CopyTypes
<1>4. manifests' = [manifests EXCEPT ![i] = m] /\ UNCHANGED dumps
    BY <1>1 DEF listRewrites, replaceManifest
<1>5. manifests'[i] = m /\ \A k \in Ids \ {i} : manifests'[k] = manifests[k]
    BY <1>3, <1>4, ManifestWritten
<1>6. /\ overtaken \subseteq overtaken'
      /\ \/ i \in overtaken'
         \/ manifests[i] # None /\ manifests[i].restoration = m.restoration
    BY <1>1 DEF listRewrites
<1>7. Others(w) /\ jobs'[w].step \in {"idle", "due"}
    BY JobIs DEF listRewrites, ListingGoesOn, Others, Idle
<1>8. jobs'[w].step \notin Rotating \cup Copying
    BY <1>7 DEF Rotating, Copying, Verifying
<1> QED
    BY <1>3, <1>4, <1>5, <1>6, <1>7, <1>8, CopyStep

(***************************************************************************)
(* Publishing, withdrawing, rotating                                       *)
(***************************************************************************)
LEMMA ListShowsCorruptSpares ==
    ASSUME IInv, IInv', RotationInv, NEW w \in Workers, listShowsCorrupt(w)
    PROVE  RotationInv' /\ Spares
<1>1. UNCHANGED <<dumps, manifests, overtaken>>
    BY DEF listShowsCorrupt, files
<1>2. Others(w) /\ jobs'[w].step \in {"idle", "due"}
    BY JobIs DEF listShowsCorrupt, ListingGoesOn, Others, Idle
<1>3. jobs'[w].step \notin Rotating \cup Copying
    BY <1>2 DEF Rotating, Copying, Verifying
<1> QED
    BY <1>1, <1>2, <1>3, Aside

(* While a job runs, nobody else rotates.                                  *)
LEMMA NobodyRotates ==
    ASSUME IInv, NEW w \in Workers, jobs[w].step \in BackupSteps \cup VerifySteps,
           Others(w), jobs'[w].step \notin Rotating
    PROVE  \A v \in Workers : PlanOK(v)'
<1>1. \A v \in Workers \ {w} : jobs'[v].step \notin Rotating
    BY DEF Others, IInv, FlagsInv, Busy, Rotating, BackupSteps
<1> QED
    BY <1>1 DEF PlanOK

(* Of a new backup nothing has been said before.                           *)
LEMMA PublishManifestSpares ==
    ASSUME IInv, IInv', RotationInv, NEW w \in Workers, publishManifest(w)
    PROVE  RotationInv' /\ Spares
<1>1. PICK i, m : i = jobs[w].id /\ m = jobs[w].manifest
    OBVIOUS
<1>2. jobs[w].step \in Drafting /\ jobs[w].step \in BackupSteps
    BY DEF publishManifest, At, Drafting, BackupSteps
<1>3. i \in Ids /\ m \in Manifest /\ manifests[i] = None
    BY <1>1, <1>2 DEF IInv, JobsInv, JobOK, DraftOK
<1>4. manifests'[i] = m /\ \A k \in Ids \ {i} : manifests'[k] = manifests[k]
    BY <1>1, <1>3, ManifestWritten DEF publishManifest
<1>5. Others(w) /\ jobs'[w].step = "audit"
    <2>1. PICK j : j = [jobs[w] EXCEPT !.step = "audit", !.manifest = None]
        OBVIOUS
    <2>2. jobs' = [jobs EXCEPT ![w] = j]
        BY <2>1 DEF publishManifest
    <2>3. j.step = "audit"
        BY <2>1, JobIs
    <2>4. jobs' = [v \in Workers |-> IF v = w THEN j ELSE jobs[v]]
        BY <2>2, JobIs
    <2> QED
        BY <2>3, <2>4 DEF Others
<1>6. jobs'[w].step \notin Rotating \cup Copying
    BY <1>5 DEF Rotating, Copying, Verifying
<1>7. \A v \in Workers : jobs[v].step \in Copying => jobs[v].id # i
    BY <1>1, <1>2 DEF IInv, NewInv
<1>8. Said(i)' \subseteq {m.trigger}
    BY <1>4, <1>5, <1>6, <1>7 DEF Said, Others
<1>9. ASSUME NEW k \in Ids \ {i}
      PROVE  Said(k)' \subseteq Said(k)
    <2> SUFFICES ASSUME NEW t \in Said(k)' PROVE t \in Said(k)
        OBVIOUS
    <2>1. \A v \in Workers : jobs'[v].step \in Copying => v # w /\ jobs'[v] = jobs[v]
        BY <1>5, <1>6 DEF Others
    <2> QED
        BY <1>4, <2>1 DEF Said
<1>10. OneTrigger'
    <2> SUFFICES ASSUME NEW k \in Ids, NEW s \in Said(k)', NEW t \in Said(k)' PROVE s = t
        BY DEF OneTrigger
    <2>1. CASE k = i
        BY <1>8, <2>1
    <2>2. CASE k # i
        BY <1>9, <2>2 DEF RotationInv, OneTrigger
    <2> QED
        BY <2>1, <2>2
<1>11. \A v \in Workers : PlanOK(v)'
    BY <1>2, <1>5, <1>6, NobodyRotates
<1>12. Spares
    BY <1>3, <1>4, NoManifest, NothingGone
<1> QED
    BY <1>10, <1>11, <1>12 DEF RotationInv

LEMMA UnpublishSpares ==
    ASSUME IInv, IInv', RotationInv, NEW w \in Workers, unpublishManifest(w)
    PROVE  RotationInv' /\ Spares
<1>1. PICK i : i = jobs[w].id
    OBVIOUS
<1>2. jobs[w].step = "unpublish" /\ jobs[w].step \in BackupSteps
    BY DEF unpublishManifest, At, BackupSteps
<1>3. i \in Ids
    BY <1>1, <1>2 DEF IInv, JobsInv, JobOK, RemovalOK
<1>4. /\ manifests'[i] = None \/ manifests'[i] = manifests[i]
      /\ \A k \in Ids \ {i} : manifests'[k] = manifests[k]
    BY <1>1, <1>3, ManifestWritten DEF unpublishManifest, removeIfPresent
<1>5. Others(w) /\ jobs'[w].step = "discard"
    BY MovesTo DEF unpublishManifest, JobSteps, BackupSteps
<1>6. jobs'[w].step \notin Rotating \cup Copying
    BY <1>5 DEF Rotating, Copying, Verifying
<1>7. \A k \in Ids : manifests'[k] # None => manifests'[k].trigger \in Said(k)
    BY <1>4, ManifestTypes
<1>8. \A k \in Ids : Said(k)' \subseteq Said(k)
    BY <1>5, <1>6, <1>7, SaidStays
<1>9. RotationInv'
    BY <1>2, <1>5, <1>6, <1>8, StepBeside
<1>10. Spares
    <2>1. Gone \subseteq {i}
        BY <1>4 DEF Gone
    <2>2. i \in Withdrawn
        BY <1>1, <1>2 DEF Withdrawn, At
    <2> QED
        BY <2>1, <2>2 DEF Spares
<1> QED
    BY <1>9, <1>10

(* Only the job at the rotation has a plan.                                *)
LEMMA OnlyRotation ==
    ASSUME IInv', OneTrigger, NEW w \in Workers, jobs'[w].step \in Rotating,
           \A k \in Ids : Said(k)' \subseteq Said(k), PlanOK(w)'
    PROVE  RotationInv'
<1>1. OneTrigger'
    BY DEF OneTrigger
<1>2. ASSUME NEW v \in Workers PROVE PlanOK(v)'
    <2>1. jobs'[v].step \in Rotating => v = w
        BY DEF IInv, FlagsInv, Busy, Rotating, BackupSteps
    <2>2. CASE v = w
        BY <2>2
    <2>3. CASE v # w
        BY <2>1, <2>3 DEF PlanOK
    <2> QED
        BY <2>2, <2>3
<1> QED
    BY <1>1, <1>2 DEF RotationInv

LEMMA PlanRotationSpares ==
    ASSUME IInv, IInv', RotationInv, NEW w \in Workers, planRotation(w)
    PROVE  RotationInv' /\ Spares
<1>1. PICK plan : plan = ValidManifests \ Protected
    OBVIOUS
<1>2. PICK j : j = [jobs[w] EXCEPT !.step = "unlink", !.plan = plan]
    OBVIOUS
<1>3. j.step = "unlink" /\ j.plan = plan
    BY <1>2, JobIs
<1>4. jobs' = [jobs EXCEPT ![w] = j]
    BY <1>1, <1>2 DEF planRotation
<1>5. jobs'[w] = j /\ Others(w)
    BY <1>4, JobIs DEF Others
<1>6. UNCHANGED <<dumps, manifests, overtaken>>
    BY DEF planRotation, files
<1>7. jobs'[w].step \in Rotating /\ jobs'[w].step \notin Copying
    BY <1>3, <1>5 DEF Rotating, Copying, Verifying
<1>8. \A k \in Ids : manifests'[k] # None => manifests'[k].trigger \in Said(k)
    BY <1>6, ManifestTypes
<1>9. \A k \in Ids : Said(k)' \subseteq Said(k)
    BY <1>5, <1>7, <1>8, SaidStays
<1>10. PlanOK(w)'
    <2> SUFFICES ASSUME NEW i \in plan
                 PROVE  /\ "MANUAL" \notin Said(i)'
                        /\ \E k \in Ids \ plan : k > i /\ Valid(k)'
                        /\ i \in Verified' \ overtaken' => \E k \in (Verified' \ plan) \cup overtaken' : k > i
        BY <1>3, <1>5 DEF PlanOK
    <2>1. i \in Ids /\ manifests[i] # None
        BY <1>1 DEF ValidManifests, Valid, Paired
    <2>2. /\ manifests[i].trigger # "MANUAL"
          /\ \E k \in Protected : k > i /\ Valid(k)
          /\ i \in Verified => \E k \in Verified \cap Protected : k > i
        BY <1>1, PlanSpares
    <2>3. "MANUAL" \notin Said(i)
        BY <2>1, <2>2, ManifestTypes DEF RotationInv, OneTrigger
    <2>4. Protected \subseteq Ids
        BY DEF Protected, Youngest, LatestRestored, DailyLast, Of, ValidManifests
    <2>5. Verified' = Verified /\ \A k \in Ids : Valid(k)' = Valid(k)
        BY <1>6 DEF Verified, Valid, Paired, Stands
    <2> QED
        BY <1>1, <1>9, <2>1, <2>2, <2>3, <2>4, <2>5
<1>11. RotationInv'
    BY <1>7, <1>9, <1>10, OnlyRotation DEF RotationInv
<1> QED
    BY <1>6, <1>11, NothingGone

(* A planned manifest goes, then its dump: younger ones stay.              *)
LEMMA PlanShrinks ==
    ASSUME RotationInv, NEW w \in Workers, jobs[w].step \in Rotating, jobs[w].plan \subseteq Ids,
           jobs'[w].step \in Rotating, jobs'[w].plan \subseteq jobs[w].plan,
           UNCHANGED overtaken, NEW gone \in jobs[w].plan,
           \A k \in Ids \ {gone} : manifests'[k] = manifests[k] /\ dumps'[k] = dumps[k],
           ~Valid(gone)',
           \A k \in Ids : Said(k)' \subseteq Said(k)
    PROVE  PlanOK(w)'
<1>1. PICK plan, rest : plan = jobs[w].plan /\ rest = jobs'[w].plan
    OBVIOUS
<1>2. \A k \in Ids \ {gone} : Valid(k)' = Valid(k) /\ (k \in Verified' <=> k \in Verified)
    BY DEF Verified, Valid, Paired, Stands
<1>3. gone \notin Verified' /\ gone \in Ids /\ Verified \subseteq Ids
    BY DEF Verified
<1>4. \A i \in plan :
          /\ "MANUAL" \notin Said(i)
          /\ \E j \in Ids \ plan : j > i /\ Valid(j)
          /\ i \in Verified \ overtaken => \E j \in (Verified \ plan) \cup overtaken : j > i
    BY <1>1 DEF RotationInv, PlanOK
<1>5. \A i \in rest :
          /\ "MANUAL" \notin Said(i)'
          /\ \E j \in Ids \ rest : j > i /\ Valid(j)'
          /\ i \in Verified' \ overtaken' => \E j \in (Verified' \ rest) \cup overtaken' : j > i
    BY <1>1, <1>2, <1>3, <1>4
<1> QED
    BY <1>1, <1>5 DEF PlanOK

LEMMA UnlinkManifestSpares ==
    ASSUME IInv, IInv', RotationInv, NEW w \in Workers, unlinkManifest(w)
    PROVE  RotationInv' /\ Spares
<1>1. PICK i, plan : i = NextDeletion(w) /\ plan = jobs[w].plan
    OBVIOUS
<1>2. plan \subseteq Ids /\ plan # {}
    BY <1>1, Types DEF unlinkManifest, JobTypes, JobType
<1>3. i \in plan /\ i \in Ids
    BY <1>1, <1>2, MaxIs DEF NextDeletion
<1>4. /\ manifests'[i] = None /\ UNCHANGED <<dumps, overtaken>>
      /\ \A k \in Ids \ {i} : manifests'[k] = manifests[k]
    BY <1>1, <1>3, ManifestWritten DEF unlinkManifest
<1>5. Others(w) /\ jobs'[w].step = "remove" /\ jobs'[w].plan = plan
    BY <1>1, MovesTo DEF unlinkManifest, JobSteps, BackupSteps
<1>6. jobs[w].step \in Rotating /\ jobs'[w].step \in Rotating /\ jobs'[w].step \notin Copying
    BY <1>5 DEF unlinkManifest, At, Rotating, Copying, Verifying
<1>7. \A k \in Ids : manifests'[k] # None => manifests'[k].trigger \in Said(k)
    BY <1>4, ManifestTypes
<1>8. \A k \in Ids : Said(k)' \subseteq Said(k)
    BY <1>5, <1>6, <1>7, SaidStays
<1>9. ~Valid(i)'
    BY <1>4 DEF Valid, Paired
<1>10. PlanOK(w)'
    BY <1>1, <1>2, <1>3, <1>4, <1>5, <1>6, <1>8, <1>9, PlanShrinks
<1>11. RotationInv'
    BY <1>6, <1>8, <1>10, OnlyRotation DEF RotationInv
<1>12. Spares
    <2>1. Gone \subseteq {i} /\ manifests[i] # None
        BY <1>1, <1>4 DEF Gone, unlinkManifest, Paired
    <2>2. /\ "MANUAL" \notin Said(i)
          /\ \E j \in Ids \ plan : j > i /\ Valid(j)
          /\ i \in Verified \ overtaken => \E j \in (Verified \ plan) \cup overtaken : j > i
        BY <1>1, <1>3, <1>6 DEF RotationInv, PlanOK
    <2>3. manifests[i].trigger # "MANUAL"
        BY <1>3, <2>1, <2>2, ManifestTypes
    <2> QED
        BY <2>1, <2>2, <2>3 DEF Spares
<1> QED
    BY <1>11, <1>12

LEMMA UnlinkDumpSpares ==
    ASSUME IInv, IInv', RotationInv, NEW w \in Workers, unlinkDump(w)
    PROVE  RotationInv' /\ Spares
<1>1. PICK i, plan : i = NextDeletion(w) /\ plan = jobs[w].plan
    OBVIOUS
<1>2. plan \subseteq Ids
    BY <1>1, Types DEF JobTypes, JobType
<1>3. PICK j : j = [jobs[w] EXCEPT !.step = "unlink", !.plan = plan \ {i}]
    OBVIOUS
<1>4. j.step = "unlink" /\ j.plan = plan \ {i}
    BY <1>3, JobIs
<1>5. jobs' = [jobs EXCEPT ![w] = j]
    BY <1>1, <1>3 DEF unlinkDump
<1>6. jobs'[w] = j /\ Others(w)
    BY <1>5, JobIs DEF Others
<1>7. dumps' = [dumps EXCEPT ![i] = None] /\ UNCHANGED <<manifests, overtaken>>
    BY <1>1 DEF unlinkDump
<1>8. jobs[w].step \in Rotating /\ jobs'[w].step \in Rotating /\ jobs'[w].step \notin Copying
    BY <1>4, <1>6 DEF unlinkDump, At, Rotating, Copying, Verifying
<1>9. \A k \in Ids : manifests'[k] # None => manifests'[k].trigger \in Said(k)
    BY <1>7, ManifestTypes
<1>10. \A k \in Ids : Said(k)' \subseteq Said(k)
    BY <1>6, <1>8, <1>9, SaidStays
<1>11. PlanOK(w)'
    <2>1. CASE plan = {}
        BY <1>4, <1>6, <2>1 DEF PlanOK
    <2>2. CASE plan # {}
        <3>1. i \in plan /\ i \in Ids
            BY <1>1, <1>2, <2>2, MaxIs DEF NextDeletion
        <3>2. dumps'[i] = None /\ \A k \in Ids \ {i} : dumps'[k] = dumps[k]
            BY <1>7, <3>1, DumpWritten
        <3>3. ~Valid(i)'
            BY <3>2 DEF Valid, Paired, Stands
        <3>4. jobs'[w].plan \subseteq jobs[w].plan
            BY <1>1, <1>4, <1>6
        <3> QED
            BY <1>1, <1>2, <1>7, <1>8, <1>10, <3>1, <3>2, <3>3, <3>4, PlanShrinks
    <2> QED
        BY <2>1, <2>2
<1>12. RotationInv'
    BY <1>8, <1>10, <1>11, OnlyRotation DEF RotationInv
<1> QED
    BY <1>7, <1>12, NothingGone

(***************************************************************************)
(* What goes on around                                                     *)
(***************************************************************************)
LEMMA AroundSpares ==
    ASSUME IInv, RotationInv, UNCHANGED <<manifests, jobs, overtaken>>,
           UNCHANGED dumps \/ \A w \in Workers : jobs[w].step \notin Rotating
    PROVE  RotationInv' /\ Spares
<1>1. \A i \in Ids : Said(i)' = Said(i)
    BY DEF Said
<1>2. OneTrigger'
    BY <1>1 DEF RotationInv, OneTrigger
<1>3. ASSUME NEW w \in Workers PROVE PlanOK(w)'
    <2>1. CASE jobs[w].step \notin Rotating
        BY <2>1 DEF PlanOK
    <2>2. CASE jobs[w].step \in Rotating
        <3>1. jobs[w].plan \subseteq Ids
            BY Types DEF JobTypes, JobType
        <3>2. Verified' = Verified /\ \A k \in Ids : Valid(k)' = Valid(k)
            BY <2>2 DEF Verified, Valid, Paired, Stands
        <3>3. PlanOK(w)
            BY DEF RotationInv
        <3> QED
            BY <1>1, <2>2, <3>1, <3>2, <3>3 DEF PlanOK
    <2> QED
        BY <2>1, <2>2
<1> QED
    BY <1>2, <1>3, NothingGone DEF RotationInv

LEMMA RestartSpares ==
    ASSUME IInv, RotationInv, NEW upgrade \in 0..1, NEW moved \in BOOLEAN, Restart(upgrade, moved)
    PROVE  RotationInv' /\ Spares
<1>1. UNCHANGED <<manifests, overtaken>> /\ \A w \in Workers : jobs'[w].step = "idle"
    BY DEF Restart, Idle
<1>2. \A w \in Workers : jobs'[w].step \notin Rotating \cup Copying
    BY <1>1 DEF Rotating, Copying, Verifying
<1>3. \A i \in Ids : Said(i)' \subseteq Said(i)
    BY <1>1, <1>2 DEF Said
<1>4. OneTrigger' /\ \A w \in Workers : PlanOK(w)'
    BY <1>2, <1>3 DEF RotationInv, OneTrigger, PlanOK
<1> QED
    BY <1>1, <1>4, NothingGone DEF RotationInv

(***************************************************************************)
(* The theorem of the rotation                                             *)
(***************************************************************************)
LEMMA InitRotation == Init => RotationInv
<1> SUFFICES ASSUME Init PROVE RotationInv
    OBVIOUS
<1>1. \A w \in Workers : jobs[w].step = "idle"
    BY DEF Init, Idle
<1>2. \A i \in Ids : Said(i) = {}
    BY <1>1 DEF Init, Said, Copying, Verifying
<1> QED
    BY <1>1, <1>2 DEF RotationInv, OneTrigger, PlanOK, Rotating

LEMMA StepSpares ==
    ASSUME IInv, IInv', RotationInv, [Next]_vars
    PROVE  RotationInv' /\ Spares
<1>1. ASSUME NEW w \in Workers, Steps(w) PROVE RotationInv' /\ Spares
    <2>1. CASE \/ Starts(w) \/ Refused(w) \/ UsesDump(w)
               \/ measureBefore(w) \/ createDump(w) \/ measureAfter(w) \/ publishDump(w)
               \/ auditCreated(w) \/ auditFails(w) \/ discardDump(w) \/ backupFails(w)
               \/ backupEnds(w) \/ checkFails(w) \/ auditVerdict(w) \/ verdictIsLost(w)
        BY <2>1, QuietSteps
    <2>2. CASE publishManifest(w) \/ unpublishManifest(w)
        BY <2>2, PublishManifestSpares, UnpublishSpares
    <2>3. CASE planRotation(w) \/ unlinkManifest(w) \/ unlinkDump(w)
        BY <2>3, PlanRotationSpares, UnlinkManifestSpares, UnlinkDumpSpares
    <2>4. CASE checkDump(w) \/ createVerificationDatabase(w) \/ restoreAndMeasure(w)
        BY <2>4, CheckDumpSpares, VerificationSpares
    <2>5. CASE recordFailed(w) \/ recordPassed(w) \/ auditVerdictFails(w)
        BY <2>5, VerdictSpares
    <2>6. CASE listRewrites(w) \/ listShowsCorrupt(w)
        BY <2>6, ListRewritesSpares, ListShowsCorruptSpares
    <2> QED
        BY <1>1, <2>1, <2>2, <2>3, <2>4, <2>5, <2>6 DEF Steps
<1>2. ASSUME NEW w \in Workers, NEW i \in Ids, listReads(w, i) PROVE RotationInv' /\ Spares
    BY <1>2, ListReadsSpares
<1>3. ASSUME NEW w \in Admins, NEW todo, Requests(w, todo) PROVE RotationInv' /\ Spares
    BY <1>3, QuietSteps DEF Workers
<1>4. ASSUME NEW w \in Admins, createManual(w) \/ createPreMigration(w)
      PROVE  RotationInv' /\ Spares
    BY <1>3, <1>4 DEF createManual, createPreMigration
<1>5. ASSUME NEW w \in Admins, NEW i \in Ids,
             verifyRestore(w, i) \/ prepareRestoration(w, i) \/ executeRestore(w, i)
      PROVE  RotationInv' /\ Spares
    BY <1>3, <1>5 DEF verifyRestore, prepareRestoration, executeRestore
<1>6. CASE cronFires \/ cronDecides
    <2>1. Cron \in Workers /\ UNCHANGED <<dumps, manifests, overtaken>>
        BY <1>6 DEF Workers, cronFires, cronDecides, files
    <2>2. CASE UNCHANGED jobs
        BY <2>1, <2>2, AroundSpares
    <2>3. CASE cronFires /\ Goes(Cron, "due")
        <3>1. Others(Cron) /\ jobs'[Cron].step = "due"
            BY <2>1, <2>3, MovesTo DEF JobSteps
        <3> QED
            BY <2>1, <3>1, Aside DEF Rotating, Copying, Verifying
    <2>4. CASE cronDecides
        <3>1. Others(Cron) /\ jobs'[Cron].step \in {"start", "idle"}
            <4>1. PICK j : /\ j \in {Idle, [Idle EXCEPT !.step = "start", !.todo = <<Backup("SCHEDULE")>>]}
                           /\ jobs' = [jobs EXCEPT ![Cron] = j]
                BY <2>4 DEF cronDecides
            <4>2. Idle.step = "idle"
                BY DEF Idle
            <4>3. \A todo : [Idle EXCEPT !.step = "start", !.todo = todo].step = "start"
                BY DEF Idle
            <4>4. j.step \in {"start", "idle"}
                BY <4>1, <4>2, <4>3
            <4> QED
                BY <2>1, <4>1, <4>4, JobIs DEF Others
        <3>2. jobs'[Cron].step \notin Rotating \cup Copying
            BY <3>1 DEF Rotating, Copying, Verifying
        <3> QED
            BY <2>1, <3>1, <3>2, Aside
    <2> QED
        BY <1>6, <2>2, <2>3, <2>4 DEF cronFires
<1>7. CASE createQuickSale \/ cleanTestData \/ SetPhase \/ Tick
    BY <1>7, AroundSpares DEF createQuickSale, cleanTestData, Writes, SetPhase, Tick, files
<1>8. ASSUME NEW upgrade \in 0..1, NEW moved \in BOOLEAN, Restart(upgrade, moved)
      PROVE  RotationInv' /\ Spares
    BY <1>8, RestartSpares
<1>9. ASSUME NEW i \in Ids, Damage(i) PROVE RotationInv' /\ Spares
    BY <1>9, AroundSpares DEF Damage, Rotating
<1>10. CASE UNCHANGED vars
    BY <1>10, AroundSpares DEF vars, files
<1> QED
    BY <1>1, <1>2, <1>4, <1>5, <1>6, <1>7, <1>8, <1>9, <1>10 DEF Next

(* No rotation takes a manual backup or the last valid one, whatever is    *)
(* listed, published and lost between its plan and its deletions, as long  *)
(* as no dump is damaged in that time; nor the youngest verified one, but  *)
(* for verdicts that a listing has written over (rotateBackups,            *)
(* removeNativeBackupPair).                                                *)
THEOREM RotationSpares == Spec => RotationSparesTheNet
<1>1. RotationInv /\ IInv /\ IInv' /\ [Next]_vars => RotationInv'
    BY StepSpares
<1>2. RotationInv /\ IInv /\ IInv' /\ [Next]_vars => [Spares]_vars
    BY StepSpares
<1>3. [Spares]_vars => [\A i \in Gone \ Withdrawn :
                            /\ manifests[i].trigger # "MANUAL"
                            /\ \E j \in Ids : j > i /\ Valid(j)
                            /\ i \in Verified \ overtaken => \E j \in Verified \cup overtaken : j > i]_vars
    BY DEF Spares
<1> QED
    BY <1>1, <1>2, <1>3, InitRotation, AlwaysIInv, PTL DEF Spec, RotationSparesTheNet
============================================================================
