------------------------------ MODULE Backups -------------------------------
(* The native backups: pairs of a dump and a manifest in one directory.    *)
(*                                                                         *)
(* A backup measures the database, dumps it, measures it again, publishes  *)
(* the dump and then the manifest, and rotates the older pairs away; a     *)
(* verification restores a dump next to the database and writes its        *)
(* verdict into the manifest.  Two flags keep these jobs apart, no flag    *)
(* holds a listing back, and the process may be gone between any two       *)
(* steps.  Dumps hold a number of rows; their names are their numbers, in  *)
(* the order in which they are made.                                       *)
EXTENDS Integers, Sequences, FiniteSets, FiniteSetsExt

CONSTANTS
    Admins, Cron,
    HourlyKeep, DailyKeep, EventKeep,   \* readRetentionPolicy
    TicksPerHour, HoursPerDay,
    MaxBackups, MaxRequests, MaxRows, MaxWrites, MaxTicks, MaxLocks, MaxFaults

\* The bounds of the model are numbers.
ASSUME BoundsAreNumbers ==
    {MaxBackups, MaxRequests, MaxRows, MaxWrites, MaxTicks, MaxLocks, MaxFaults} \subseteq Nat

VARIABLES
    rows,       \* of the database
    schema,     \* the number of its migrations
    phase,      \* of the maintenance
    now,
    dumps, manifests,
    backupInProgress, restoreVerificationInProgress,
    jobs,       \* what every worker is at
    fired,      \* the hour in which the clock last called
    overtaken,  \* manifests that a listing wrote although they had changed meanwhile
    counts

files == <<dumps, manifests>>
flags == <<backupInProgress, restoreVerificationInProgress>>
world == <<rows, schema, phase, now>>
vars == <<world, files, flags, jobs, fired, overtaken, counts>>

Workers == Admins \cup {Cron}
Ids == 1..MaxBackups
Triggers == {"MANUAL", "SCHEDULE", "PRE_RESTORE", "PRE_MIGRATION"}
None == [none |-> TRUE]

BackupSteps == {"measure", "dump", "after", "publish", "manifest", "audit",
                "unpublish", "discard", "rotate", "unlink", "remove"}
VerifySteps == {"check", "create", "restore", "record", "verdict"}
Busy == {w \in Workers : jobs[w].step \in BackupSteps \cup VerifySteps}

Idle ==
    [step |-> "idle", todo |-> << >>, id |-> 0, content |-> 0, manifest |-> None,
     passed |-> FALSE, plan |-> {}]

Goes(w, step) == jobs' = [jobs EXCEPT ![w].step = step]
At(w, step) == jobs[w].step = step
Counted(what) == counts' = [counts EXCEPT ![what] = @ + 1]

Init ==
    /\ rows \in 0..MaxRows
    /\ schema = 0
    /\ phase = "OPEN"
    /\ now = 0
    /\ dumps = [i \in Ids |-> None]
    /\ manifests = [i \in Ids |-> None]
    /\ backupInProgress = FALSE
    /\ restoreVerificationInProgress = FALSE
    /\ jobs = [w \in Workers |-> Idle]
    /\ fired = -1
    /\ overtaken = {}
    /\ counts = [backups |-> 0, requests |-> 0, writes |-> 0, locks |-> 0, faults |-> 0]

---------------------------------------------------------------------------
(* What the code sees in the directory.                                    *)

Stands(i) == dumps[i] # None
Paired(i) == manifests[i] # None /\ Stands(i)

\* Size and time of the dump are those of the last check.
Cached(i) == manifests[i].seen = dumps[i].mtime

\* listBackups shows a pair as usable; a cached one is not read again.
Listed(i) == Paired(i) /\ (Cached(i) \/ dumps[i].sound)

\* What a listing may have shown as usable: what it had to read again it may have shown as
\* corrupt, because a tool or the writing failed.
Listings ==
    {{i \in Ids : Listed(i)} \ failed : failed \in SUBSET {i \in Ids : Listed(i) /\ ~Cached(i)}}

\* createdAt of the entry runScheduledBackupIfDue finds first.
LatestListed(listing) == manifests[Max(listing)].at
IsDue(listing) == listing # {} => now - LatestListed(listing) >= TicksPerHour

Valid(i) == Paired(i) /\ dumps[i].sound

compareMigrations(m) ==
    IF m.schema = schema THEN "CURRENT" ELSE IF m.schema < schema THEN "OLDER" ELSE "NEWER"

\* applyRestoreVerificationAvailability: only a backup of the running schema can be verified.
restoreVerificationAvailable(i) == compareMigrations(manifests[i]) = "CURRENT"

\* What a restore asks of the backup it is given.
validateBackup(i) == Valid(i) /\ compareMigrations(manifests[i]) \in {"CURRENT", "OLDER"}

\* measureDatabase: the counts and sums of all tables.
Measured == rows

\* reserveStem: a name that neither a dump nor a manifest has.
ReservedStem == counts.backups + 1

\* A tool gives what it computes, or fails: it is missing, ends with a status, takes too long
\* or writes too much.
run(result) == {result, FALSE}

\* removeIfPresent: the file of i goes, or it cannot be removed and nobody is told.
removeIfPresent(kind, i) == {[kind EXCEPT ![i] = None], kind}

\* replaceManifest: a complete new file takes the place of the old one.
replaceManifest(i, manifest) == manifests' = [manifests EXCEPT ![i] = manifest]

\* readValidNativeManifestsForRotation
ValidManifests == {i \in Ids : Valid(i)}

\* slice(0, n) of the list of S: the youngest come first.
Youngest(n, S) == {i \in S : Cardinality({j \in S : j > i}) < n}

Of(trigger) == {i \in ValidManifests : manifests[i].trigger = trigger}
Day(i) == manifests[i].at \div (TicksPerHour * HoursPerDay)

\* The last scheduled backup of every day but for the hourly ones.
DailyLast ==
    LET candidates == Of("SCHEDULE") \ Youngest(HourlyKeep, Of("SCHEDULE"))
    IN {i \in candidates : \A j \in candidates : Day(j) = Day(i) => j <= i}

LatestRestored == Youngest(1, {i \in ValidManifests : manifests[i].restoration = "PASSED"})

\* Mutant: the youngest verified backup is not protected.
ProtectedUnverified ==
    UNION {Youngest(1, ValidManifests), Of("MANUAL"),
           Youngest(HourlyKeep, Of("SCHEDULE")), Youngest(DailyKeep, DailyLast),
           Youngest(EventKeep, Of("PRE_RESTORE")), Youngest(EventKeep, Of("PRE_MIGRATION"))}

Protected ==
    UNION {Youngest(1, ValidManifests), LatestRestored, Of("MANUAL"),
           Youngest(HourlyKeep, Of("SCHEDULE")), Youngest(DailyKeep, DailyLast),
           Youngest(EventKeep, Of("PRE_RESTORE")), Youngest(EventKeep, Of("PRE_MIGRATION"))}

---------------------------------------------------------------------------
(* Requests.  A request is a sequence of tasks: each starts when the one   *)
(* before it has succeeded, and a refusal or a failure ends them all.      *)

Backup(trigger) == [what |-> "backup", trigger |-> trigger, of |-> 0]
Verify(i) == [what |-> "verify", trigger |-> "", of |-> i]
Use(i) == [what |-> "use", trigger |-> "", of |-> i]

Requests(w, todo) ==
    /\ At(w, "idle")
    /\ counts.requests < MaxRequests
    /\ jobs' = [jobs EXCEPT ![w].step = "start", ![w].todo = todo]
    /\ Counted("requests")
    /\ UNCHANGED <<world, files, flags, fired, overtaken>>

createManual(w) == Requests(w, <<Backup("MANUAL")>>)
createPreMigration(w) == Requests(w, <<Backup("PRE_MIGRATION")>>)

verifyRestore(w, i) == manifests[i] # None /\ Requests(w, <<Verify(i)>>)

prepareRestoration(w, i) ==
    /\ phase = "LOCKED"
    /\ Valid(i)
    /\ restoreVerificationAvailable(i)
    /\ Requests(w, <<Backup("PRE_RESTORE"), Verify(i)>>)

\* A backup of an older schema is migrated next to the database and verified there.
executeRestore(w, i) ==
    /\ phase = "LOCKED"
    /\ validateBackup(i)
    /\ LET verified == IF restoreVerificationAvailable(i) THEN <<Verify(i)>> ELSE << >>
       IN Requests(w, verified \o <<Backup("PRE_RESTORE"), Use(i)>>)

Task(w) == Head(jobs[w].todo)

Succeeds(w) ==
    LET rest == Tail(jobs[w].todo)
    IN jobs' = [jobs EXCEPT ![w] =
                   IF rest = << >> THEN Idle ELSE [Idle EXCEPT !.step = "start", !.todo = rest]]

Gives_up(w) == jobs' = [jobs EXCEPT ![w] = Idle]

\* Mutant: a verification does not hold back other jobs.
OnlyBackupRuns == backupInProgress
JobRuns == backupInProgress \/ restoreVerificationInProgress

Starts(w) ==
    /\ At(w, "start")
    /\ Task(w).what # "use"
    /\ ~JobRuns
    /\ IF Task(w).what = "backup"
       THEN backupInProgress' = TRUE /\ Goes(w, "measure") /\ UNCHANGED restoreVerificationInProgress
       ELSE restoreVerificationInProgress' = TRUE /\ Goes(w, "check") /\ UNCHANGED backupInProgress
    /\ UNCHANGED <<world, files, fired, overtaken, counts>>

Refused(w) ==
    /\ At(w, "start")
    /\ Task(w).what # "use"
    /\ JobRuns
    /\ Gives_up(w)
    /\ UNCHANGED <<world, files, flags, fired, overtaken, counts>>

\* The restore goes on with the dump it has validated: the swap takes over here.
UsesDump(w) ==
    /\ At(w, "start")
    /\ Task(w).what = "use"
    /\ Gives_up(w)
    /\ UNCHANGED <<world, files, flags, fired, overtaken, counts>>

---------------------------------------------------------------------------
(* createBackup                                                            *)

measureBefore(w) ==
    /\ At(w, "measure")
    /\ counts.backups < MaxBackups
    /\ LET draft == [trigger |-> Task(w).trigger, at |-> now, before |-> Measured, after |-> Measured,
                     schema |-> schema, seen |-> 0, restoration |-> "NOT_RUN"]
       IN jobs' = [jobs EXCEPT ![w].step = "dump", ![w].id = ReservedStem,
                               ![w].manifest = draft]
    /\ Counted("backups")
    /\ UNCHANGED <<world, files, flags, fired, overtaken>>

createDump(w) ==
    /\ At(w, "dump")
    /\ jobs' = [jobs EXCEPT ![w].step = "after", ![w].content = rows]
    /\ UNCHANGED <<world, files, flags, fired, overtaken, counts>>

measureAfter(w) ==
    /\ At(w, "after")
    /\ jobs' = [jobs EXCEPT ![w].step = "publish", ![w].manifest.after = Measured,
                            ![w].manifest.at = now]
    /\ UNCHANGED <<world, files, flags, fired, overtaken, counts>>

publishDump(w) ==
    /\ At(w, "publish")
    /\ dumps' = [dumps EXCEPT ![jobs[w].id] =
                    [content |-> jobs[w].content, sound |-> TRUE, mtime |-> 0]]
    /\ jobs' = [jobs EXCEPT ![w].step = "manifest", ![w].content = 0]
    /\ UNCHANGED <<world, manifests, flags, fired, overtaken, counts>>

publishManifest(w) ==
    /\ At(w, "manifest")
    /\ manifests' = [manifests EXCEPT ![jobs[w].id] = jobs[w].manifest]
    /\ jobs' = [jobs EXCEPT ![w].step = "audit", ![w].manifest = None]
    /\ UNCHANGED <<world, dumps, flags, fired, overtaken, counts>>

auditCreated(w) ==
    /\ At(w, "audit")
    /\ jobs' = [jobs EXCEPT ![w].step = "rotate", ![w].id = 0]
    /\ UNCHANGED <<world, files, flags, fired, overtaken, counts>>

\* What is not audited is withdrawn, as far as its files can be removed.
auditFails(w) ==
    /\ At(w, "audit")
    /\ Goes(w, "unpublish")
    /\ UNCHANGED <<world, files, flags, fired, overtaken, counts>>

unpublishManifest(w) ==
    /\ At(w, "unpublish")
    /\ manifests' \in removeIfPresent(manifests, jobs[w].id)
    /\ Goes(w, "discard")
    /\ UNCHANGED <<world, dumps, flags, fired, overtaken, counts>>

discardDump(w) ==
    /\ At(w, "discard")
    /\ dumps' \in removeIfPresent(dumps, jobs[w].id)
    /\ backupInProgress' = FALSE
    /\ Gives_up(w)
    /\ UNCHANGED <<world, manifests, restoreVerificationInProgress, fired, overtaken, counts>>

\* Too little space, a tool that fails or does not end, sums that do not agree, a changed
\* schema.  A dump that has its name already is removed again, if it can be.
backupFails(w) ==
    /\ jobs[w].step \in {"measure", "dump", "after", "publish", "manifest"}
    /\ IF At(w, "manifest") THEN dumps' \in removeIfPresent(dumps, jobs[w].id) ELSE UNCHANGED dumps
    /\ backupInProgress' = FALSE
    /\ Gives_up(w)
    /\ UNCHANGED <<world, manifests, restoreVerificationInProgress, fired, overtaken, counts>>

\* rotateBackups: what may go.
planRotation(w) ==
    /\ At(w, "rotate")
    /\ jobs' = [jobs EXCEPT ![w].step = "unlink", ![w].plan = ValidManifests \ Protected]
    /\ UNCHANGED <<world, files, flags, fired, overtaken, counts>>

\* The youngest goes first.
NextDeletion(w) == Max(jobs[w].plan)

\* Mutant: the dump goes first.
unlinkDumpFirst(w) ==
    /\ At(w, "unlink")
    /\ jobs[w].plan # {}
    /\ Paired(NextDeletion(w))
    /\ dumps' = [dumps EXCEPT ![NextDeletion(w)] = None]
    /\ Goes(w, "remove")
    /\ UNCHANGED <<world, manifests, flags, fired, overtaken, counts>>

\* removeNativeBackupPair: the manifest goes first.
unlinkManifest(w) ==
    /\ At(w, "unlink")
    /\ jobs[w].plan # {}
    /\ Paired(NextDeletion(w))
    /\ manifests' = [manifests EXCEPT ![NextDeletion(w)] = None]
    /\ Goes(w, "remove")
    /\ UNCHANGED <<world, dumps, flags, fired, overtaken, counts>>

unlinkDump(w) ==
    /\ At(w, "remove")
    /\ dumps' = [dumps EXCEPT ![NextDeletion(w)] = None]
    /\ jobs' = [jobs EXCEPT ![w].step = "unlink", ![w].plan = @ \ {NextDeletion(w)}]
    /\ UNCHANGED <<world, manifests, flags, fired, overtaken, counts>>

\* The rotation is done, or stops at an error; the backup has succeeded either way.
backupEnds(w) ==
    /\ jobs[w].step \in {"rotate", "unlink", "remove"}
    /\ backupInProgress' = FALSE
    /\ Succeeds(w)
    /\ UNCHANGED <<world, files, restoreVerificationInProgress, fired, overtaken, counts>>

---------------------------------------------------------------------------
(* verifyRestoration                                                       *)

verificationEnds(w) ==
    /\ restoreVerificationInProgress' = FALSE
    /\ UNCHANGED <<world, dumps, backupInProgress, fired, overtaken, counts>>

checkDump(w) ==
    /\ At(w, "check")
    /\ Valid(Task(w).of)
    /\ restoreVerificationAvailable(Task(w).of)
    /\ jobs' = [jobs EXCEPT ![w].step = "create", ![w].id = Task(w).of,
                            ![w].manifest = manifests[Task(w).of]]
    /\ UNCHANGED <<world, files, flags, fired, overtaken, counts>>

\* Nothing is recorded before the verification database is asked for.
checkFails(w) ==
    /\ At(w, "check")
    /\ Gives_up(w)
    /\ UNCHANGED manifests
    /\ verificationEnds(w)

createVerificationDatabase(w) ==
    /\ At(w, "create")
    /\ \E created \in run(TRUE) :
           Goes(w, IF created THEN "restore" ELSE "record")
    /\ UNCHANGED <<world, files, flags, fired, overtaken, counts>>

\* The measurements of the restored database, and the dump hashed once more.
RestoredAsMeasured(w) ==
    /\ Stands(jobs[w].id)
    /\ dumps[jobs[w].id].content = jobs[w].manifest.after
    /\ dumps[jobs[w].id].sound

\* The database is dropped again; a tool that fails, there or before, fails the verification.
restoreAndMeasure(w) ==
    /\ At(w, "restore")
    /\ \E passed \in run(RestoredAsMeasured(w)) :
           jobs' = [jobs EXCEPT ![w].step = "record", ![w].passed = passed]
    /\ UNCHANGED <<world, files, flags, fired, overtaken, counts>>

recordFailed(w) ==
    /\ At(w, "record")
    /\ ~jobs[w].passed
    /\ replaceManifest(jobs[w].id, [jobs[w].manifest EXCEPT !.restoration = "FAILED"])
    /\ Gives_up(w)
    /\ verificationEnds(w)

recordPassed(w) ==
    /\ At(w, "record")
    /\ jobs[w].passed
    /\ replaceManifest(jobs[w].id, [jobs[w].manifest EXCEPT !.restoration = "PASSED"])
    /\ Goes(w, "verdict")
    /\ UNCHANGED <<world, dumps, flags, fired, overtaken, counts>>

auditVerdict(w) ==
    /\ At(w, "verdict")
    /\ Succeeds(w)
    /\ UNCHANGED manifests
    /\ verificationEnds(w)

auditVerdictFails(w) ==
    /\ At(w, "verdict")
    /\ replaceManifest(jobs[w].id, jobs[w].manifest)
    /\ Gives_up(w)
    /\ verificationEnds(w)

\* The verdict, or the older one in its place, cannot be written.
verdictIsLost(w) ==
    /\ jobs[w].step \in {"record", "verdict"}
    /\ Gives_up(w)
    /\ UNCHANGED manifests
    /\ verificationEnds(w)

---------------------------------------------------------------------------
(* listBackups, for an administrator or for the clock                      *)

\* A pair whose dump has another time than at its last check is read in full.
listReads(w, i) ==
    /\ At(w, IF w = Cron THEN "due" ELSE "idle")
    /\ Paired(i)
    /\ ~Cached(i)
    /\ dumps[i].sound
    /\ jobs' = [jobs EXCEPT ![w].step = IF w = Cron THEN "cronrewrite" ELSE "rewrite",
                            ![w].id = i, ![w].manifest = [manifests[i] EXCEPT !.seen = dumps[i].mtime]]
    /\ UNCHANGED <<world, files, flags, fired, overtaken, counts>>

ListingGoesOn(w) ==
    jobs' = [jobs EXCEPT ![w] =
                [Idle EXCEPT !.step = IF At(w, "cronrewrite") THEN "due" ELSE "idle"]]

\* replaceManifest with the copy that was read.
listRewrites(w) ==
    /\ jobs[w].step \in {"rewrite", "cronrewrite"}
    /\ LET i == jobs[w].id
           unchanged == /\ manifests[i] # None
                        /\ manifests[i].restoration = jobs[w].manifest.restoration
       IN /\ replaceManifest(i, jobs[w].manifest)
          /\ overtaken' = IF unchanged THEN overtaken ELSE overtaken \cup {i}
    /\ ListingGoesOn(w)
    /\ UNCHANGED <<world, dumps, flags, fired, counts>>

\* The manifest cannot be written: its backup is shown as corrupt.
listShowsCorrupt(w) ==
    /\ jobs[w].step \in {"rewrite", "cronrewrite"}
    /\ ListingGoesOn(w)
    /\ UNCHANGED <<world, files, flags, fired, overtaken, counts>>

Hour == now \div TicksPerHour

\* runScheduledBackupIfDue
cronFires ==
    /\ At(Cron, "idle")
    /\ now % TicksPerHour = 0
    /\ fired # Hour
    /\ fired' = Hour
    /\ IF phase = "LOCKED" \/ JobRuns THEN UNCHANGED jobs ELSE Goes(Cron, "due")
    /\ UNCHANGED <<world, files, flags, overtaken, counts>>

cronDecides ==
    /\ At(Cron, "due")
    /\ \E listing \in Listings :
           jobs' = [jobs EXCEPT ![Cron] =
                       IF IsDue(listing)
                       THEN [Idle EXCEPT !.step = "start", !.todo = <<Backup("SCHEDULE")>>]
                       ELSE Idle]
    /\ UNCHANGED <<world, files, flags, fired, overtaken, counts>>

---------------------------------------------------------------------------
(* What goes on around.                                                    *)

\* The requests that write to the database: what is sold adds rows, and the clean-up of an event
\* in preparation removes some.
Writes(numbers) ==
    /\ phase = "OPEN"
    /\ counts.writes < MaxWrites
    /\ rows' \in numbers
    /\ Counted("writes")
    /\ UNCHANGED <<schema, phase, now, files, flags, jobs, fired, overtaken>>

createQuickSale == rows < MaxRows /\ Writes({rows + 1})
cleanTestData == Writes(0..(rows - 1))

\* Lock and unlock of the maintenance.
SetPhase ==
    /\ counts.locks < MaxLocks
    /\ phase' = IF phase = "OPEN" THEN "LOCKED" ELSE "OPEN"
    /\ Counted("locks")
    /\ UNCHANGED <<rows, schema, now, files, flags, jobs, fired, overtaken>>

Tick ==
    /\ now < MaxTicks
    /\ now' = now + 1
    /\ UNCHANGED <<rows, schema, phase, files, flags, jobs, fired, overtaken, counts>>

\* The backend stops anywhere and starts again, perhaps with a migration, perhaps on a copy of
\* the directory, in which every dump has a new time.  Nothing in memory is left.
Restart(upgrade, moved) ==
    /\ counts.faults < MaxFaults
    /\ schema' = schema + upgrade
    /\ dumps' = [i \in Ids |-> IF moved /\ dumps[i] # None THEN [dumps[i] EXCEPT !.mtime = 1] ELSE dumps[i]]
    /\ backupInProgress' = FALSE
    /\ restoreVerificationInProgress' = FALSE
    /\ jobs' = [w \in Workers |-> Idle]
    /\ Counted("faults")
    /\ UNCHANGED <<rows, phase, now, manifests, fired, overtaken>>

\* A dump is damaged on the medium, but not while a rotation is at work.
Damage(i) ==
    /\ counts.faults < MaxFaults
    /\ Valid(i)
    /\ \A w \in Workers : jobs[w].step \notin {"unlink", "remove"}
    /\ dumps' = [dumps EXCEPT ![i].sound = FALSE]
    /\ Counted("faults")
    /\ UNCHANGED <<world, manifests, flags, jobs, fired, overtaken>>

Steps(w) ==
    \/ Starts(w) \/ Refused(w) \/ UsesDump(w)
    \/ measureBefore(w) \/ createDump(w) \/ measureAfter(w)
    \/ publishDump(w) \/ publishManifest(w) \/ auditCreated(w) \/ auditFails(w)
    \/ unpublishManifest(w) \/ discardDump(w) \/ backupFails(w)
    \/ planRotation(w) \/ unlinkManifest(w) \/ unlinkDump(w) \/ backupEnds(w)
    \/ checkDump(w) \/ checkFails(w) \/ createVerificationDatabase(w) \/ restoreAndMeasure(w)
    \/ recordFailed(w) \/ recordPassed(w) \/ auditVerdict(w) \/ auditVerdictFails(w)
    \/ verdictIsLost(w) \/ listRewrites(w) \/ listShowsCorrupt(w)

Next ==
    \/ \E w \in Workers : Steps(w)
    \/ \E w \in Workers, i \in Ids : listReads(w, i)
    \/ \E w \in Admins : createManual(w) \/ createPreMigration(w)
    \/ \E w \in Admins, i \in Ids :
           verifyRestore(w, i) \/ prepareRestoration(w, i) \/ executeRestore(w, i)
    \/ cronFires \/ cronDecides
    \/ createQuickSale \/ cleanTestData \/ SetPhase \/ Tick
    \/ \E upgrade \in 0..1, moved \in BOOLEAN : Restart(upgrade, moved)
    \/ \E i \in Ids : Damage(i)

Spec == Init /\ [][Next]_vars

---------------------------------------------------------------------------

Manifest ==
    [trigger : Triggers, at : 0..MaxTicks, before : 0..MaxRows, after : 0..MaxRows,
     schema : 0..MaxFaults, seen : 0..1, restoration : {"NOT_RUN", "PASSED", "FAILED"}]

Dump == [content : 0..MaxRows, sound : BOOLEAN, mtime : 0..1]

Tasks ==
    UNION {[what : {"backup"}, trigger : Triggers, of : {0}],
           [what : {"verify", "use"}, trigger : {""}, of : Ids]}

JobSteps == BackupSteps \cup VerifySteps \cup {"idle", "start", "due", "rewrite", "cronrewrite"}

\* The variables have their types: files are absent or complete, a job is idle or at a step of
\* createBackup, verifyRestoration or listBackups.
TypeOK ==
    /\ rows \in 0..MaxRows /\ now \in 0..MaxTicks
    /\ phase \in {"OPEN", "LOCKED"}
    /\ dumps \in [Ids -> Dump \cup {None}]
    /\ manifests \in [Ids -> Manifest \cup {None}]
    /\ backupInProgress \in BOOLEAN /\ restoreVerificationInProgress \in BOOLEAN
    /\ jobs = [w \in Workers |-> jobs[w]]
    /\ \A w \in Workers :
           jobs[w] \in [step : JobSteps, todo : Seq(Tasks), id : Ids \cup {0},
                       content : 0..MaxRows, manifest : Manifest \cup {None},
                       passed : BOOLEAN, plan : SUBSET Ids]
    /\ overtaken \subseteq Ids
    /\ counts \in [backups : 0..MaxBackups, requests : 0..MaxRequests, writes : 0..MaxWrites,
                   locks : 0..MaxLocks, faults : 0..MaxFaults]
    /\ schema \in 0..counts.faults

\* One backup or one verification at a time, and a flag is up exactly while its job runs: a
\* failed, refused or continued job leaves neither flag behind (the finally blocks).
FlagsFollowJobs ==
    /\ Cardinality(Busy) <= 1
    /\ backupInProgress = \E w \in Workers : jobs[w].step \in BackupSteps
    /\ restoreVerificationInProgress = \E w \in Workers : jobs[w].step \in VerifySteps

Orphan(i) == manifests[i] # None /\ ~Stands(i)
Discarded == {jobs[w].id : w \in {w \in Workers : At(w, "discard")}}

\* Publishing, failing, rotating and dying at any point leave at most a dump without a manifest
\* (createBackup, removeNativeBackupPair).  A manifest loses its dump only where a withdrawal
\* could not remove it before the dump, or a listing writes it back after its dump has gone.
OrphansOnlyInvisible ==
    [][\A i \in Ids \ Discarded : ~Orphan(i) /\ Orphan(i)' => i \in overtaken']_vars

Verified == {i \in Ids : Valid(i) /\ manifests[i].restoration = "PASSED"}
Gone == {i \in Ids : manifests[i] # None /\ manifests'[i] = None}
Withdrawn == {jobs[w].id : w \in {w \in Workers : At(w, "unpublish")}}

\* The rotation never takes a manual backup, the last valid one or the youngest verified one
\* (rotateBackups), provided that no dump is damaged between its plan and its deletions.  It
\* knows a verdict only from before the listings that write older manifests back: a verified
\* backup goes while a younger verified one is there, unless such a listing met one of them.
RotationSparesTheNet ==
    [][\A i \in Gone \ Withdrawn :
           /\ manifests[i].trigger # "MANUAL"
           /\ \E j \in Ids : j > i /\ Valid(j)
           /\ i \in Verified \ overtaken => \E j \in Verified \cup overtaken : j > i]_vars

\* Of the two measurements, whichever is the smaller.
Between(m) == Min({m.before, m.after})..Max({m.before, m.after})

\* "Die Pruefung nach einer Wiederherstellung": a sound dump between its two measurements is
\* not marked as failed unless a tool failed, that is, the comparison alone accepts it.
BracketedDumpsAccepted ==
    \A w \in Workers :
        /\ At(w, "restore")
        /\ Valid(jobs[w].id)
        /\ dumps[jobs[w].id].content \in Between(jobs[w].manifest)
        => RestoredAsMeasured(w)

\* "nie aber ein scheinbar vollstaendiges Paar": there is never a manifest without its dump.
ManifestHasDump == \A i \in Ids : manifests[i] # None => Stands(i)

\* The backup a restore was asked for is there when the restore comes to it, however many
\* safety backups its own preparation has made and rotated.
SelectedStillThere ==
    \A w \in Workers :
        At(w, "start") /\ Task(w).what = "use" => Stands(Task(w).of)

\* "VereinOrder erstellt stuendlich einen Dump": the clock lets an hour pass only when a backup
\* of this hour is there already.
HourlyBackup ==
    [][At(Cron, "due") /\ jobs'[Cron] = Idle /\ counts'.faults = counts.faults =>
           \E i \in Ids : Paired(i) /\ manifests[i].at \div TicksPerHour = Hour]_vars

\* The verdict of a verification stays in the manifest until the next verification.
VerdictKept ==
    [][\A i \in Ids :
           /\ manifests[i] # None /\ manifests'[i] # None
           /\ manifests[i].restoration # manifests'[i].restoration
           => restoreVerificationInProgress]_vars
=============================================================================
