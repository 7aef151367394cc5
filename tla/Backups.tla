------------------------------ MODULE Backups ------------------------------
(***************************************************************************)
(* Database backups: the rows of table backups, the archives in storage,   *)
(* the two in-memory job queues of one server process, the worker ticks    *)
(* and the requests that are suspended at an await.                        *)
(*                                                                         *)
(* Code between two awaits runs to its end, so an action is the code from  *)
(* one await to the next; a suspended request or tick is a slot of Request *)
(* whose pc names the query it waits for.                                  *)
(***************************************************************************)
EXTENDS Naturals, Sequences, FiniteSets

CONSTANTS
    Backup,       \* ids createBackupJob may hand out
    Request,      \* slots for suspended requests and worker ticks
    None,         \* no backup
    MaxRequests,  \* bound: requests accepted and worker ticks started
    MaxCrashes,   \* bound: process crashes
    MaxDay,       \* bound: the last day
    RetentionDays,
    Faults,       \* may a query or a deletion that is awaited be rejected?
    TickOverlap   \* may a scheduler tick start before the last one ended?

ASSUME BackupsAssumption ==
    /\ None \notin Backup
    /\ MaxRequests \in Nat /\ MaxCrashes \in Nat /\ MaxDay \in Nat
    /\ RetentionDays \in Nat
    /\ Faults \in BOOLEAN /\ TickOverlap \in BOOLEAN

VARIABLES
    \* columns of table backups
    status, verification, filePath, deletedAt, automatic, createdOn, completedOn,
    due,          \* backup_settings: enabled and next_backup_at has passed
    files,        \* storage: whose archive lies under a file name, None if there is none
    archive,      \* the file name a job gave its archive (its row keeps it as file_path)
    \* memory of the process, lost in a crash
    backupQueue, restoreQueue,   \* ids waiting
    backupWake, restoreWake,     \* setImmediate callbacks not yet run
    job, restore,                \* where runBackupJob / runRestoreJob is, per id
    pc, cur, todo,               \* the slots: step, backup at hand, backups left
    \* the environment
    day, requests, crashes

rowVars == <<status, verification, filePath, deletedAt, automatic, createdOn, completedOn>>
queueVars == <<backupQueue, restoreQueue, backupWake, restoreWake>>
slotVars == <<pc, cur, todo>>
envVars == <<day, requests, crashes>>
storeVars == <<files, archive>>
vars == <<rowVars, due, storeVars, queueVars, job, restore, slotVars, envVars>>

Status == {"absent", "pending", "running", "completed", "failed", "restoring", "deleted"}
JobStep == {"idle", "acquire", "dump", "verify", "complete", "settings", "fail", "end"}
RestoreStep == {"idle", "acquire", "download", "settle", "fail", "end"}
SlotStep == {"idle", "insertManual", "dueCheck", "activeCheck", "insertAutomatic", "markQueued",
             "enqueue", "removeFile", "markDeleted"}

TypeOK ==
    /\ status \in [Backup -> Status]
    /\ verification \in [Backup -> {"pending", "verified", "failed"}]
    /\ filePath \subseteq Backup
    /\ deletedAt \subseteq Backup
    /\ automatic \subseteq Backup
    /\ createdOn \in [Backup -> 0..MaxDay]
    /\ completedOn \in [Backup -> 0..MaxDay]
    /\ due \in BOOLEAN
    /\ files \in [Backup -> Backup \cup {None}]
    /\ archive \in [Backup -> Backup \cup {None}]
    /\ backupQueue \in Seq(Backup) /\ restoreQueue \in Seq(Backup)
    /\ backupWake \in Nat /\ restoreWake \in Nat
    /\ job \in [Backup -> JobStep]
    /\ restore \in [Backup -> RestoreStep]
    /\ pc \in [Request -> SlotStep]
    /\ cur \in [Request -> Backup \cup {None}]
    /\ todo \in [Request -> SUBSET Backup]
    /\ day \in 0..MaxDay /\ requests \in 0..MaxRequests /\ crashes \in 0..MaxCrashes

Init ==
    /\ status = [b \in Backup |-> "absent"]
    /\ verification = [b \in Backup |-> "pending"]
    /\ filePath = {} /\ deletedAt = {} /\ automatic = {}
    /\ createdOn = [b \in Backup |-> 0]
    /\ completedOn = [b \in Backup |-> 0]
    /\ due = FALSE
    /\ files = [n \in Backup |-> None]
    /\ archive = [b \in Backup |-> None]
    /\ backupQueue = <<>> /\ restoreQueue = <<>>
    /\ backupWake = 0 /\ restoreWake = 0
    /\ job = [b \in Backup |-> "idle"]
    /\ restore = [b \in Backup |-> "idle"]
    /\ pc = [r \in Request |-> "idle"]
    /\ cur = [r \in Request |-> None]
    /\ todo = [r \in Request |-> {}]
    /\ day = 0 /\ requests = 0 /\ crashes = 0

---------------------------------------------------------------------------
(* Queries of repository.js. *)

Live(b) == status[b] # "absent" /\ b \notin deletedAt

hasActiveBackup ==
    \E b \in Backup : Live(b) /\ status[b] \in {"pending", "running", "restoring"}

\* Mutant: only a backup that has completed counts for today.
queuedToday_completed ==
    \E b \in automatic : createdOn[b] = day /\ status[b] = "completed"

\* An automatic backup of today that is not deleted suppresses the next one.
queuedToday ==
    \E b \in automatic : createdOn[b] = day /\ status[b] # "deleted"

expiredBackups ==
    {b \in Backup : Live(b) /\ status[b] = "completed"
                            /\ completedOn[b] + RetentionDays < day}

---------------------------------------------------------------------------
(* Creating a backup: POST /backups and the backup-scheduler tick. *)

Goto(r, step) == pc' = [pc EXCEPT ![r] = step]

\* A request is accepted, or a tick of a worker starts.
begin ==
    /\ requests < MaxRequests /\ requests' = requests + 1
    /\ UNCHANGED <<day, crashes>>

\* hasActiveBackup() answered false; a true answer is a 409 and changes nothing.
queueManualBackup(r) ==
    /\ pc[r] = "idle" /\ begin
    /\ ~ hasActiveBackup
    /\ Goto(r, "insertManual")
    /\ UNCHANGED <<rowVars, due, storeVars, queueVars, job, restore, cur, todo>>

inTick(r) ==
    \/ pc[r] \in {"dueCheck", "activeCheck", "insertAutomatic", "markQueued"}
    \/ pc[r] = "enqueue" /\ cur[r] \in automatic

\* getSettings() answered, and by these settings an automatic backup is due.
queueAutomaticBackup(r) ==
    /\ pc[r] = "idle" /\ begin
    /\ TickOverlap \/ \A s \in Request : ~ inTick(s)
    /\ due
    /\ Goto(r, "dueCheck")
    /\ UNCHANGED <<rowVars, due, storeVars, queueVars, job, restore, cur, todo>>

\* The query of getDueAutomaticBackup() ...
getDueAutomaticBackup(r) ==
    /\ pc[r] = "dueCheck"
    /\ Goto(r, IF queuedToday THEN "idle" ELSE "activeCheck")
    /\ UNCHANGED <<rowVars, due, storeVars, queueVars, job, restore, cur, todo, envVars>>

\* ... and then hasActiveBackup() of the same tick, a second query.
automaticActiveCheck(r) ==
    /\ pc[r] = "activeCheck"
    /\ Goto(r, IF hasActiveBackup THEN "idle" ELSE "insertAutomatic")
    /\ UNCHANGED <<rowVars, due, storeVars, queueVars, job, restore, cur, todo, envVars>>

createBackupJob(r) ==
    /\ pc[r] \in {"insertManual", "insertAutomatic"}
    /\ \E b \in Backup :
         /\ status[b] = "absent"
         /\ status' = [status EXCEPT ![b] = "pending"]
         /\ createdOn' = [createdOn EXCEPT ![b] = day]
         /\ automatic' = IF pc[r] = "insertAutomatic" THEN automatic \cup {b} ELSE automatic
         /\ cur' = [cur EXCEPT ![r] = b]
    /\ Goto(r, IF pc[r] = "insertAutomatic" THEN "markQueued" ELSE "enqueue")
    /\ UNCHANGED <<verification, filePath, deletedAt, completedOn, due, storeVars, queueVars,
                   job, restore, todo, envVars>>

markAutomaticQueued(r) ==
    /\ pc[r] = "markQueued"
    /\ due' = FALSE
    /\ Goto(r, "enqueue")
    /\ UNCHANGED <<rowVars, storeVars, queueVars, job, restore, cur, todo, envVars>>

enqueueBackup(r) ==
    /\ pc[r] = "enqueue"
    /\ backupQueue' = Append(backupQueue, cur[r])
    /\ backupWake' = backupWake + 1
    /\ Goto(r, "idle")
    /\ cur' = [cur EXCEPT ![r] = None]
    /\ UNCHANGED <<rowVars, due, storeVars, restoreQueue, restoreWake, job, restore, todo, envVars>>

---------------------------------------------------------------------------
(* Deleting: DELETE /backups/:id and the backup-retention tick.  Both delete *)
(* the archive first and then mark the row, one await apart.                 *)

\* The step that removes b, or only marks it when the row read had no file.
removalStep(b) == IF b \in filePath THEN "removeFile" ELSE "markDeleted"

deleteBackup(r, b) ==
    /\ pc[r] = "idle" /\ begin
    /\ Live(b) /\ status[b] \notin {"running", "restoring"}
    /\ Goto(r, removalStep(b))
    /\ cur' = [cur EXCEPT ![r] = b]
    /\ UNCHANGED <<rowVars, due, storeVars, queueVars, job, restore, todo>>

enforceRetention(r) ==
    /\ pc[r] = "idle" /\ begin
    /\ \E b \in expiredBackups :
         /\ Goto(r, removalStep(b))
         /\ cur' = [cur EXCEPT ![r] = b]
         /\ todo' = [todo EXCEPT ![r] = expiredBackups \ {b}]
    /\ UNCHANGED <<rowVars, due, storeVars, queueVars, job, restore>>

\* storage.delete() of the file the row names, whoever wrote it; a failure is swallowed.
deleteFile(r) ==
    \/ files' = [files EXCEPT ![archive[cur[r]]] = None]
    \/ Faults /\ UNCHANGED files

\* Mutant: the row of a removed archive is not marked.
removeFile_only(r) ==
    /\ pc[r] = "removeFile" /\ deleteFile(r)
    /\ Goto(r, "idle")
    /\ UNCHANGED <<rowVars, due, archive, queueVars, job, restore, cur, todo, envVars>>

removeFile(r) ==
    /\ pc[r] = "removeFile" /\ deleteFile(r)
    /\ Goto(r, "markDeleted")
    /\ UNCHANGED <<rowVars, due, archive, queueVars, job, restore, cur, todo, envVars>>

\* The UPDATE asks only for deleted_at IS NULL; the retention tick goes on
\* with the next backup of its list, all of which were completed, with a file.
markDeleted(r) ==
    /\ pc[r] = "markDeleted"
    /\ deletedAt' = deletedAt \cup {cur[r]}
    /\ status' = IF cur[r] \in deletedAt THEN status
                  ELSE [status EXCEPT ![cur[r]] = "deleted"]
    /\ \/ /\ todo[r] = {}
          /\ Goto(r, "idle")
          /\ cur' = [cur EXCEPT ![r] = None]
          /\ UNCHANGED todo
       \/ \E b \in todo[r] :
          /\ Goto(r, "removeFile")
          /\ cur' = [cur EXCEPT ![r] = b]
          /\ todo' = [todo EXCEPT ![r] = @ \ {b}]
    /\ UNCHANGED <<verification, filePath, automatic, createdOn, completedOn,
                   due, storeVars, queueVars, job, restore, envVars>>

\* The query a slot waits for is rejected: the handler answers 500, the tick
\* logs the error; what was done before stays done.
rejectQuery(r) ==
    /\ Faults /\ pc[r] \notin {"idle", "removeFile", "enqueue"}
    /\ Goto(r, "idle")
    /\ cur' = [cur EXCEPT ![r] = None]
    /\ todo' = [todo EXCEPT ![r] = {}]
    /\ UNCHANGED <<rowVars, due, storeVars, queueVars, job, restore, envVars>>

---------------------------------------------------------------------------
(* Running a backup. *)

\* Mutant: the head is read and left in the queue.
processBackupQueue_peeks ==
    /\ backupWake > 0 /\ backupWake' = backupWake - 1
    /\ backupQueue # <<>> /\ job' = [job EXCEPT ![Head(backupQueue)] = "acquire"]
    /\ UNCHANGED <<rowVars, due, storeVars, backupQueue, restoreQueue, restoreWake, restore,
                   slotVars, envVars>>

\* Mutant: an id that is taken while any other job runs is dropped.
processBackupQueue_drops ==
    /\ backupWake > 0 /\ backupWake' = backupWake - 1
    /\ backupQueue # <<>> /\ backupQueue' = Tail(backupQueue)
    /\ job' = IF \A b \in Backup : job[b] = "idle"
              THEN [job EXCEPT ![Head(backupQueue)] = "acquire"]
              ELSE job
    /\ UNCHANGED <<rowVars, due, storeVars, restoreQueue, restoreWake, restore, slotVars, envVars>>

\* processBackupQueue() up to its await of runBackupJob(); an id that is
\* running already is dropped.
processBackupQueue ==
    /\ backupWake > 0
    /\ backupWake' = backupWake - 1
    /\ \/ backupQueue = <<>> /\ UNCHANGED <<backupQueue, job>>
       \/ /\ backupQueue # <<>>
          /\ backupQueue' = Tail(backupQueue)
          /\ job' = IF job[Head(backupQueue)] = "idle"
                    THEN [job EXCEPT ![Head(backupQueue)] = "acquire"]
                    ELSE job
    /\ UNCHANGED <<rowVars, due, storeVars, restoreQueue, restoreWake, restore, slotVars, envVars>>

JobGoto(b, step) == job' = [job EXCEPT ![b] = step]

\* runBackupJob(b) returned: the finally block of processBackupQueue().
finishBackup(b) ==
    /\ JobGoto(b, "idle")
    /\ backupWake' = IF backupQueue # <<>> THEN backupWake + 1 ELSE backupWake
    /\ UNCHANGED <<backupQueue, restoreQueue, restoreWake>>

\* The UPDATE of the acquisition; then the directory, a heartbeat and the
\* settings are awaited, which change nothing, and the archive gets its name.
\* The name is the millisecond (Date.now()), so it may be that of a job that
\* was named in the same one and is still at its pg_dump.
acquireBackupJob(b) ==
    /\ job[b] = "acquire"
    /\ IF status[b] = "pending" /\ b \notin deletedAt
       THEN /\ status' = [status EXCEPT ![b] = "running"]
            /\ \E n \in {b} \cup {archive[c] : c \in {d \in Backup : job[d] = "dump"}} :
                 archive' = [archive EXCEPT ![b] = n]
            /\ JobGoto(b, "dump")
            /\ UNCHANGED queueVars
       ELSE UNCHANGED <<status, archive>> /\ finishBackup(b)
    /\ UNCHANGED <<verification, filePath, deletedAt, automatic, createdOn, completedOn,
                   due, files, restore, slotVars, envVars>>

\* The settings, pg_dump, tar, encryption and the upload, which writes over a
\* file of that name; any of them may fail.
createBackupArchive(b) ==
    /\ job[b] = "dump"
    /\ \/ files' = [files EXCEPT ![archive[b]] = b] /\ JobGoto(b, "verify")
       \/ UNCHANGED files /\ JobGoto(b, "fail")
    /\ UNCHANGED <<rowVars, due, archive, queueVars, restore, slotVars, envVars>>

\* The stored file is read again: it must have the checksum of what was
\* uploaded.  Any of the reads may fail.
verifyArchive(b) ==
    /\ job[b] = "verify"
    /\ \/ files[archive[b]] = b /\ JobGoto(b, "complete")
       \/ JobGoto(b, "fail")
    /\ UNCHANGED <<rowVars, due, storeVars, queueVars, restore, slotVars, envVars>>

\* The UPDATE names the row by its id alone.
completeBackup(b) ==
    /\ job[b] = "complete"
    /\ status' = [status EXCEPT ![b] = "completed"]
    /\ verification' = [verification EXCEPT ![b] = "verified"]
    /\ filePath' = filePath \cup {b}
    /\ completedOn' = [completedOn EXCEPT ![b] = day]
    /\ JobGoto(b, "settings")
    /\ UNCHANGED <<deletedAt, automatic, createdOn, due, storeVars, queueVars, restore, slotVars, envVars>>

\* A query of the job is rejected, that of the completion or the one after it:
\* the catch block takes over.
rejectCompletion(b) ==
    /\ Faults /\ job[b] \in {"complete", "settings"}
    /\ JobGoto(b, "fail")
    /\ UNCHANGED <<rowVars, due, storeVars, queueVars, restore, slotVars, envVars>>

markSettingsBackupCompleted(b) ==
    /\ job[b] = "settings"
    /\ due' = FALSE
    /\ JobGoto(b, "end")
    /\ UNCHANGED <<rowVars, storeVars, queueVars, restore, slotVars, envVars>>

failBackup(b) ==
    /\ job[b] = "fail"
    /\ status' = [status EXCEPT ![b] = "failed"]
    /\ verification' = [verification EXCEPT ![b] = "failed"]
    /\ completedOn' = [completedOn EXCEPT ![b] = day]
    /\ JobGoto(b, "end")
    /\ UNCHANGED <<filePath, deletedAt, automatic, createdOn, due, storeVars, queueVars, restore,
                   slotVars, envVars>>

\* The audit, the clearing of the directory and the heartbeat, none of which
\* can fail, are over: runBackupJob() returns.
endBackup(b) ==
    /\ job[b] = "end"
    /\ finishBackup(b)
    /\ UNCHANGED <<rowVars, due, storeVars, restore, slotVars, envVars>>

---------------------------------------------------------------------------
(* Restoring. *)

\* POST /backups/:id/restore, confirmed, once getBackup() has answered.
queueRestore(b) ==
    /\ begin
    /\ Live(b) /\ status[b] = "completed" /\ verification[b] = "verified"
    /\ restoreQueue' = Append(restoreQueue, b)
    /\ restoreWake' = restoreWake + 1
    /\ UNCHANGED <<rowVars, due, storeVars, backupQueue, backupWake, job, restore, slotVars>>

processRestoreQueue ==
    /\ restoreWake > 0
    /\ restoreWake' = restoreWake - 1
    /\ \/ restoreQueue = <<>> /\ UNCHANGED <<restoreQueue, restore>>
       \/ /\ restoreQueue # <<>>
          /\ restoreQueue' = Tail(restoreQueue)
          /\ restore' = IF restore[Head(restoreQueue)] = "idle"
                        THEN [restore EXCEPT ![Head(restoreQueue)] = "acquire"]
                        ELSE restore
    /\ UNCHANGED <<rowVars, due, storeVars, backupQueue, backupWake, job, slotVars, envVars>>

RestoreGoto(b, step) == restore' = [restore EXCEPT ![b] = step]

finishRestore(b) ==
    /\ RestoreGoto(b, "idle")
    /\ restoreWake' = IF restoreQueue # <<>> THEN restoreWake + 1 ELSE restoreWake
    /\ UNCHANGED <<backupQueue, restoreQueue, backupWake>>

\* The UPDATE asks for status completed only, not for the verification.
acquireRestoreJob(b) ==
    /\ restore[b] = "acquire"
    /\ IF status[b] = "completed" /\ b \notin deletedAt
       THEN /\ status' = [status EXCEPT ![b] = "restoring"]
            /\ RestoreGoto(b, "download")
            /\ UNCHANGED queueVars
       ELSE UNCHANGED status /\ finishRestore(b)
    /\ UNCHANGED <<verification, filePath, deletedAt, automatic, createdOn, completedOn,
                   due, storeVars, job, slotVars, envVars>>

\* Download, checksum, decryption, extraction and psql.  A missing archive, or
\* one that is not the row's, fails; anything else may.
replayArchive(b) ==
    /\ restore[b] = "download"
    /\ \/ files[archive[b]] = b /\ RestoreGoto(b, "settle")
       \/ RestoreGoto(b, "fail")
    /\ UNCHANGED <<rowVars, due, storeVars, queueVars, job, slotVars, envVars>>

completeRestore(b) ==
    /\ restore[b] = "settle"
    /\ \/ /\ status' = [status EXCEPT ![b] = "completed"]
          /\ verification' = [verification EXCEPT ![b] = "verified"]
          /\ RestoreGoto(b, "end")
       \/ /\ Faults /\ RestoreGoto(b, "fail")
          /\ UNCHANGED <<status, verification>>
    /\ UNCHANGED <<filePath, deletedAt, automatic, createdOn, completedOn,
                   due, storeVars, queueVars, job, slotVars, envVars>>

\* Mutant: a failed restore condemns the backup and leaves its status.
failRestore_condemns(b) ==
    /\ restore[b] = "fail"
    /\ verification' = [verification EXCEPT ![b] = "failed"]
    /\ RestoreGoto(b, "end")
    /\ UNCHANGED <<status, filePath, deletedAt, automatic, createdOn, completedOn,
                   due, storeVars, queueVars, job, slotVars, envVars>>

failRestore(b) ==
    /\ restore[b] = "fail"
    /\ status' = [status EXCEPT ![b] = "completed"]
    /\ RestoreGoto(b, "end")
    /\ UNCHANGED <<verification, filePath, deletedAt, automatic, createdOn, completedOn,
                   due, storeVars, queueVars, job, slotVars, envVars>>

\* The audit and the clearing of the directory, which cannot fail, are over:
\* until then a restore of b that is taken from the queue is dropped.
endRestore(b) ==
    /\ restore[b] = "end"
    /\ finishRestore(b)
    /\ UNCHANGED <<rowVars, due, storeVars, job, slotVars, envVars>>

---------------------------------------------------------------------------
(* The environment. *)

\* PUT /backups/settings recomputes next_backup_at, which is in the future.
updateSettings ==
    /\ due /\ due' = FALSE
    /\ UNCHANGED <<rowVars, storeVars, queueVars, job, restore, slotVars, envVars>>

\* next_backup_at passes, on this day or the next.
comeDue ==
    /\ ~ due /\ due' = TRUE
    /\ UNCHANGED <<rowVars, storeVars, queueVars, job, restore, slotVars, envVars>>

nextDay ==
    /\ day < MaxDay /\ day' = day + 1
    /\ UNCHANGED <<rowVars, due, storeVars, queueVars, job, restore, slotVars, requests, crashes>>

\* The process dies (a rejection that escapes processBackupQueue or
\* processRestoreQueue does that too) and starts again: server.js looks at no
\* row of table backups.
crash ==
    /\ crashes < MaxCrashes /\ crashes' = crashes + 1
    /\ backupQueue' = <<>> /\ restoreQueue' = <<>>
    /\ backupWake' = 0 /\ restoreWake' = 0
    /\ job' = [b \in Backup |-> "idle"]
    /\ restore' = [b \in Backup |-> "idle"]
    /\ pc' = [r \in Request |-> "idle"]
    /\ cur' = [r \in Request |-> None]
    /\ todo' = [r \in Request |-> {}]
    /\ UNCHANGED <<rowVars, due, storeVars, day, requests>>

SlotNext(r) ==
    \/ queueManualBackup(r) \/ queueAutomaticBackup(r)
    \/ getDueAutomaticBackup(r) \/ automaticActiveCheck(r)
    \/ createBackupJob(r) \/ markAutomaticQueued(r) \/ enqueueBackup(r)
    \/ enforceRetention(r) \/ removeFile(r) \/ markDeleted(r)
    \/ rejectQuery(r)
    \/ \E b \in Backup : deleteBackup(r, b)

BackupNext(b) ==
    \/ acquireBackupJob(b) \/ createBackupArchive(b) \/ verifyArchive(b)
    \/ completeBackup(b) \/ rejectCompletion(b) \/ markSettingsBackupCompleted(b)
    \/ failBackup(b) \/ endBackup(b)

RestoreNext(b) ==
    \/ acquireRestoreJob(b) \/ replayArchive(b) \/ completeRestore(b) \/ failRestore(b)
    \/ endRestore(b)

Next ==
    \/ \E r \in Request : SlotNext(r)
    \/ processBackupQueue \/ processRestoreQueue
    \/ \E b \in Backup : BackupNext(b) \/ queueRestore(b) \/ RestoreNext(b)
    \/ updateSettings \/ comeDue \/ nextDay \/ crash

Spec == Init /\ [][Next]_vars

\* The event loop runs every callback whose promise has settled, and every
\* command, query and file operation settles.
Fairness ==
    /\ \A r \in Request : WF_vars(pc[r] # "idle" /\ SlotNext(r))
    /\ WF_vars(processBackupQueue) /\ WF_vars(processRestoreQueue)
    /\ \A b \in Backup : WF_vars(BackupNext(b)) /\ WF_vars(RestoreNext(b))

FairSpec == Spec /\ Fairness

---------------------------------------------------------------------------
(* Properties. *)

\* No queued job is forgotten: there are at least as many pending callbacks of
\* processBackupQueue / processRestoreQueue as ids in the queue it serves,
\* although a callback that meets a running id returns without rescheduling.
NoLostWakeup ==
    /\ Len(backupQueue) <= backupWake
    /\ Len(restoreQueue) <= restoreWake

\* Slot r has inserted row b and has still to enqueue it.
Creating(r, b) == pc[r] \in {"markQueued", "enqueue"} /\ cur[r] = b

\* b waits in the queue of backup jobs.
Queued(b) == \E i \in 1..Len(backupQueue) : backupQueue[i] = b

\* A backup is executed by one hand at a time: its creator, one place in the
\* queue, or its job.  So the "already running" return of processBackupQueue
\* never throws a queued backup away, and two jobs never write one archive.
OneHolder ==
    \A b \in Backup :
        /\ \A r, s \in Request : Creating(r, b) /\ Creating(s, b) => r = s
        /\ \A i, j \in 1..Len(backupQueue) :
              backupQueue[i] = b /\ backupQueue[j] = b => i = j
        /\ \A r \in Request : Creating(r, b) => ~ Queued(b) /\ job[b] = "idle"
        /\ Queued(b) => job[b] = "idle"

\* What OneHolder rests on: a slot past its first step is at some backup, and
\* an id nobody was given yet is held by nobody.
SlotsAim ==
    \A r \in Request :
        pc[r] \in {"markQueued", "enqueue", "removeFile", "markDeleted"} => cur[r] \in Backup
AbsentIsFree ==
    \A b \in Backup : status[b] = "absent" =>
        ~ Queued(b) /\ job[b] = "idle" /\ \A r \in Request : ~ Creating(r, b)

\* The inductive invariant of the proofs.
Inv == TypeOK /\ SlotsAim /\ AbsentIsFree /\ NoLostWakeup /\ OneHolder

\* The row a 409 "already running or queued" rests on is being worked on: a
\* pending row has a creator, a place in the queue or a job about to acquire
\* it, a running row its job, a restoring row its restore.
ActiveIsServed ==
    \A b \in Backup : Live(b) =>
        /\ status[b] = "pending" =>
              \/ \E r \in Request : Creating(r, b)
              \/ Queued(b)
              \/ job[b] = "acquire"
        /\ status[b] = "running" => job[b] \in {"dump", "verify", "complete", "fail"}
        /\ status[b] = "restoring" => restore[b] \in {"download", "settle", "fail"}

\* A slot that is about to remove the archive of b or to mark its row.
Removing(b) ==
    \E r \in Request : pc[r] \in {"removeFile", "markDeleted"} /\ cur[r] = b

\* The backups whose archive has the file name of b's: b, and any other that was
\* named in the same millisecond.
Namesakes(b) == {c \in Backup : archive[c] = archive[b]}

\* What a user is shown as completed and verified has its archive in storage,
\* unless its removal is under way; two jobs that named their archives in one
\* millisecond share a file, and then it may be the archive of the other, or
\* gone with the other.
VerifiedIsStored ==
    \A b \in Backup :
        Live(b) /\ status[b] = "completed" /\ verification[b] = "verified"
            => \E c \in Namesakes(b) :
                  \/ files[archive[b]] = c
                  \/ c \in filePath /\ (Removing(c) \/ c \in deletedAt)

\* The scheduler queues at most one automatic backup a day that is not deleted.
OneAutomaticPerDay ==
    \A a, b \in automatic :
        createdOn[a] = createdOn[b] /\ a \notin deletedAt /\ b \notin deletedAt => a = b

\* No step takes a verification back: a failed restore, a late job or a
\* second restore leaves a verified backup verified.
VerifiedStaysVerified ==
    [][\A b \in Backup : verification[b] = "verified" => verification'[b] = "verified"]_vars

\* Row b is with the queue of jobs or a step before: only a stop of the process
\* can lose it now (an automatic one is lost before, when markAutomaticQueued
\* is rejected after the row was inserted).
HandedOver(b) ==
    \/ \E r \in Request : pc[r] = "enqueue" /\ cur[r] = b
    \/ Queued(b)
    \/ job[b] # "idle"

\* Whatever queries are rejected: a backup that was handed over (a running one
\* is, by its job) is settled, its row does not stay pending or running, and a
\* row that is being restored does not stay restoring.
BackupsSettle ==
    \A b \in Backup :
        /\ HandedOver(b) ~> status[b] \notin {"pending", "running"}
        /\ status[b] = "restoring" ~> status[b] # "restoring"

---------------------------------------------------------------------------
(* Messages of the code that its handlers do not keep. *)

\* service.js:152 "Running or restoring backups cannot be deleted."
BusyIsNotDeleted ==
    [][\A b \in Backup : b \notin deletedAt /\ b \in deletedAt'
          => status[b] \notin {"running", "restoring"}]_vars

=============================================================================
