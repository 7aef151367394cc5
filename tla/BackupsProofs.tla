--------------------------- MODULE BackupsProofs ---------------------------
(* Proofs about Backups, for any sets of backups and slots and any bounds. *)
EXTENDS Backups, TLAPS

\* What most actions are written with.
USE BackupsAssumption
USE DEF Goto, JobGoto, RestoreGoto, begin, rowVars, storeVars, queueVars, slotVars, envVars, vars

(***************************************************************************)
(* Types.  Every step writes values of the columns' and variables' domains.*)
(***************************************************************************)
\* What a callback takes from a queue that is not empty, and what it leaves.
LEMMA HeadAndTail ==
    ASSUME NEW S, NEW q \in Seq(S), q # <<>>
    PROVE  /\ Head(q) \in S /\ Head(q) = q[1]
           /\ Len(q) \in Nat /\ Len(q) > 0
           /\ Tail(q) \in Seq(S) /\ Len(Tail(q)) = Len(q) - 1
           /\ \A i \in 1..Len(Tail(q)) : Tail(q)[i] = q[i + 1] /\ i + 1 \in 2..Len(q)
OBVIOUS

\* A step of a request handler or of a scheduler or retention tick keeps the
\* types, and leaves a slot past its first await aimed at a backup.
LEMMA SlotTypes ==
    ASSUME TypeOK, SlotsAim, NEW r \in Request, SlotNext(r)
    PROVE  TypeOK' /\ SlotsAim'
<1> USE DEF TypeOK, SlotsAim, Status, SlotStep
<1>1. CASE queueManualBackup(r)      BY <1>1 DEF queueManualBackup
<1>2. CASE queueAutomaticBackup(r)   BY <1>2 DEF queueAutomaticBackup
<1>3. CASE getDueAutomaticBackup(r)  BY <1>3 DEF getDueAutomaticBackup
<1>4. CASE automaticActiveCheck(r)   BY <1>4 DEF automaticActiveCheck
<1>5. CASE createBackupJob(r)        BY <1>5 DEF createBackupJob
<1>6. CASE markAutomaticQueued(r)    BY <1>6 DEF markAutomaticQueued
<1>7. CASE enqueueBackup(r)          BY <1>7 DEF enqueueBackup
<1>8. CASE enforceRetention(r)       BY <1>8 DEF enforceRetention, removalStep, expiredBackups
<1>9. CASE removeFile(r)
  <2>1. files' \in [Backup -> Backup \cup {None}]
    BY <1>9 DEF removeFile, deleteFile
  <2> QED BY <1>9, <2>1 DEF removeFile
<1>10. CASE markDeleted(r)
  <2>1. cur[r] \in Backup               BY <1>10 DEF markDeleted
  <2>2. status' \in [Backup -> Status] /\ deletedAt' \subseteq Backup
    BY <1>10, <2>1 DEF markDeleted
  <2>3. CASE Goto(r, "idle") /\ cur' = [cur EXCEPT ![r] = None] /\ UNCHANGED todo
    BY <1>10, <2>2, <2>3 DEF markDeleted
  <2>4. ASSUME NEW b \in todo[r], Goto(r, "removeFile"),
               cur' = [cur EXCEPT ![r] = b], todo' = [todo EXCEPT ![r] = @ \ {b}]
        PROVE  TypeOK' /\ SlotsAim'
    <3>1. b \in Backup /\ todo[r] \ {b} \subseteq Backup   OBVIOUS
    <3> QED BY <1>10, <2>2, <2>4, <3>1 DEF markDeleted
  <2> QED BY <1>10, <2>3, <2>4 DEF markDeleted
<1>11. CASE rejectQuery(r)           BY <1>11 DEF rejectQuery
<1>12. ASSUME NEW b \in Backup, deleteBackup(r, b)
       PROVE  TypeOK' /\ SlotsAim'
  BY <1>12 DEF deleteBackup, removalStep
<1> QED
  BY <1>1, <1>2, <1>3, <1>4, <1>5, <1>6, <1>7, <1>8, <1>9, <1>10, <1>11, <1>12 DEF SlotNext

\* The finally blocks of the two queue processors keep the types of what they write.
LEMMA FinishTypes ==
    ASSUME TypeOK, NEW b \in Backup
    PROVE  /\ finishBackup(b) => /\ job' \in [Backup -> JobStep] /\ backupWake' \in Nat
                                 /\ UNCHANGED <<backupQueue, restoreQueue, restoreWake>>
           /\ finishRestore(b) => /\ restore' \in [Backup -> RestoreStep] /\ restoreWake' \in Nat
                                  /\ UNCHANGED <<backupQueue, restoreQueue, backupWake>>
<1>1. finishBackup(b) => job' \in [Backup -> JobStep]
  BY DEF TypeOK, finishBackup, JobStep
<1>2. finishRestore(b) => restore' \in [Backup -> RestoreStep]
  BY DEF TypeOK, finishRestore, RestoreStep
<1>3. /\ finishBackup(b) => backupWake' \in Nat
      /\ finishRestore(b) => restoreWake' \in Nat
  <2>1. backupWake \in Nat /\ restoreWake \in Nat
    BY DEF TypeOK
  <2> QED BY ONLY <2>1 DEF finishBackup, finishRestore
<1>4. /\ finishBackup(b) => UNCHANGED <<backupQueue, restoreQueue, restoreWake>>
      /\ finishRestore(b) => UNCHANGED <<backupQueue, restoreQueue, backupWake>>
  BY DEF finishBackup, finishRestore
<1> QED BY <1>1, <1>2, <1>3, <1>4

\* A step of runBackupJob keeps the types.
LEMMA BackupTypes ==
    ASSUME TypeOK, SlotsAim, NEW b \in Backup, BackupNext(b)
    PROVE  TypeOK' /\ SlotsAim'
<1> USE DEF TypeOK, SlotsAim, Status, JobStep
<1>1. CASE acquireBackupJob(b)
  <2>1. CASE status[b] = "pending" /\ b \notin deletedAt
    <3>1. PICK n \in {b} \cup {archive[c] : c \in {d \in Backup : job[d] = "dump"}} :
             archive' = [archive EXCEPT ![b] = n]
      BY <1>1, <2>1 DEF acquireBackupJob
    <3>2. archive' \in [Backup -> Backup \cup {None}]
      BY <3>1
    <3>3. /\ status' = [status EXCEPT ![b] = "running"] /\ job' = [job EXCEPT ![b] = "dump"]
          /\ UNCHANGED <<verification, filePath, deletedAt, automatic, createdOn, completedOn,
                         due, files, queueVars, restore, slotVars, envVars>>
      BY <1>1, <2>1 DEF acquireBackupJob
    <3> QED BY <3>2, <3>3
  <2>2. CASE ~ (status[b] = "pending" /\ b \notin deletedAt)
    BY <1>1, <2>2, FinishTypes DEF acquireBackupJob
  <2> QED BY <2>1, <2>2
<1>2. CASE createBackupArchive(b)
  <2>1. job' \in [Backup -> JobStep] /\ files' \in [Backup -> Backup \cup {None}]
    <3>1. job \in [Backup -> JobStep] /\ files \in [Backup -> Backup \cup {None}]
      OBVIOUS
    <3> QED BY ONLY <3>1, <1>2, b \in Backup DEF createBackupArchive, JobGoto, JobStep
  <2>2. UNCHANGED <<rowVars, due, archive, queueVars, restore, slotVars, envVars>>
    BY <1>2 DEF createBackupArchive
  <2> QED BY <2>1, <2>2
<1>3. CASE completeBackup(b)               BY <1>3 DEF completeBackup
<1>4. CASE verifyArchive(b)
  <2>1. job' \in [Backup -> JobStep]
    <3>1. job \in [Backup -> JobStep]
      OBVIOUS
    <3> QED BY ONLY <3>1, <1>4, b \in Backup DEF verifyArchive, JobGoto, JobStep
  <2>2. UNCHANGED <<rowVars, due, storeVars, queueVars, restore, slotVars, envVars>>
    BY <1>4 DEF verifyArchive
  <2> QED BY <2>1, <2>2
<1>5. CASE rejectCompletion(b)             BY <1>5 DEF rejectCompletion
<1>6. CASE markSettingsBackupCompleted(b)  BY <1>6 DEF markSettingsBackupCompleted
<1>7. CASE failBackup(b)                   BY <1>7 DEF failBackup
<1>8. CASE endBackup(b)                    BY <1>8, FinishTypes DEF endBackup
<1> QED BY <1>1, <1>2, <1>3, <1>4, <1>5, <1>6, <1>7, <1>8 DEF BackupNext

\* A step of runRestoreJob, or queueRestore, keeps the types.
LEMMA RestoreTypes ==
    ASSUME TypeOK, SlotsAim, NEW b \in Backup, RestoreNext(b) \/ queueRestore(b)
    PROVE  TypeOK' /\ SlotsAim'
<1> USE DEF TypeOK, SlotsAim, Status, RestoreStep
<1>1. CASE acquireRestoreJob(b)
  <2>1. CASE status[b] = "completed" /\ b \notin deletedAt
    BY <1>1, <2>1 DEF acquireRestoreJob
  <2>2. CASE ~ (status[b] = "completed" /\ b \notin deletedAt)
    BY <1>1, <2>2, FinishTypes DEF acquireRestoreJob
  <2> QED BY <2>1, <2>2
<1>2. CASE replayArchive(b)
  <2>1. restore' \in [Backup -> RestoreStep]
    BY <1>2 DEF replayArchive
  <2>2. UNCHANGED <<rowVars, due, storeVars, queueVars, job, slotVars, envVars>>
    BY <1>2 DEF replayArchive
  <2> QED BY <2>1, <2>2
<1>3. CASE completeRestore(b)
  <2>1. /\ status' \in [Backup -> Status] /\ restore' \in [Backup -> RestoreStep]
        /\ verification' \in [Backup -> {"pending", "verified", "failed"}]
    <3>1. CASE /\ status' = [status EXCEPT ![b] = "completed"]
               /\ verification' = [verification EXCEPT ![b] = "verified"]
               /\ RestoreGoto(b, "end")
      BY <3>1
    <3>2. CASE RestoreGoto(b, "fail") /\ UNCHANGED <<status, verification>>
      BY <3>2
    <3> QED BY <1>3, <3>1, <3>2 DEF completeRestore
  <2>2. UNCHANGED <<filePath, deletedAt, automatic, createdOn, completedOn,
                    due, storeVars, queueVars, job, slotVars, envVars>>
    BY <1>3 DEF completeRestore
  <2> QED BY <2>1, <2>2
<1>4. CASE failRestore(b)        BY <1>4 DEF failRestore
<1>5. CASE endRestore(b)         BY <1>5, FinishTypes DEF endRestore
<1>6. CASE queueRestore(b)       BY <1>6 DEF queueRestore
<1> QED BY <1>1, <1>2, <1>3, <1>4, <1>5, <1>6 DEF RestoreNext

\* The queue processors, the clock, the settings and a crash keep the types.
LEMMA SharedTypes ==
    ASSUME TypeOK, SlotsAim,
           \/ processBackupQueue \/ processRestoreQueue
           \/ updateSettings \/ comeDue \/ nextDay \/ crash
    PROVE  TypeOK' /\ SlotsAim'
<1> USE DEF TypeOK, SlotsAim
<1>1. CASE processBackupQueue
  <2>1. CASE backupQueue = <<>>   BY <1>1, <2>1 DEF processBackupQueue
  <2>2. CASE backupQueue # <<>>
    <3>1. Head(backupQueue) \in Backup /\ Tail(backupQueue) \in Seq(Backup)
      BY <2>2
    <3>2. job' \in [Backup -> JobStep]
      BY <1>1, <2>2, <3>1 DEF processBackupQueue, JobStep
    <3>3. backupQueue' = Tail(backupQueue) /\ backupWake' = backupWake - 1 /\ backupWake > 0
      BY <1>1, <2>2 DEF processBackupQueue
    <3>4. backupQueue' \in Seq(Backup) /\ backupWake' \in Nat
      BY <3>1, <3>3
    <3> QED BY <1>1, <3>2, <3>4 DEF processBackupQueue
  <2> QED BY <2>1, <2>2
<1>2. CASE processRestoreQueue
  <2>1. CASE restoreQueue = <<>>  BY <1>2, <2>1 DEF processRestoreQueue
  <2>2. CASE restoreQueue # <<>>
    <3>1. Head(restoreQueue) \in Backup /\ Tail(restoreQueue) \in Seq(Backup)
      BY <2>2
    <3>2. restore' \in [Backup -> RestoreStep]
      BY <1>2, <2>2, <3>1 DEF processRestoreQueue, RestoreStep
    <3>3. restoreQueue' = Tail(restoreQueue) /\ restoreWake' = restoreWake - 1 /\ restoreWake > 0
      BY <1>2, <2>2 DEF processRestoreQueue
    <3>4. restoreQueue' \in Seq(Backup) /\ restoreWake' \in Nat
      BY <3>1, <3>3
    <3> QED BY <1>2, <3>2, <3>4 DEF processRestoreQueue
  <2> QED BY <2>1, <2>2
<1>3. CASE updateSettings         BY <1>3 DEF updateSettings
<1>4. CASE comeDue                BY <1>4 DEF comeDue
<1>5. CASE nextDay                BY <1>5 DEF nextDay
<1>6. CASE crash                  BY <1>6 DEF crash, JobStep, RestoreStep, SlotStep
<1> QED BY <1>1, <1>2, <1>3, <1>4, <1>5, <1>6

\* In every reachable state the rows, queues, jobs and slots have their types,
\* and a slot that is about to act on a backup has one at hand.
THEOREM TypeCorrect == Spec => [](TypeOK /\ SlotsAim)
<1>1. Init => TypeOK /\ SlotsAim
  <2> SUFFICES ASSUME Init  PROVE TypeOK /\ SlotsAim
    OBVIOUS
  <2>1. /\ status \in [Backup -> Status]
        /\ job \in [Backup -> JobStep] /\ restore \in [Backup -> RestoreStep]
    BY DEF Init, Status, JobStep, RestoreStep
  <2>2. /\ pc \in [Request -> SlotStep] /\ cur \in [Request -> Backup \cup {None}]
        /\ todo \in [Request -> SUBSET Backup]
    BY DEF Init, SlotStep
  <2>3. createdOn \in [Backup -> 0..MaxDay] /\ completedOn \in [Backup -> 0..MaxDay]
    BY DEF Init
  <2>4. SlotsAim  BY DEF Init, SlotsAim
  <2>5. backupQueue \in Seq(Backup) /\ restoreQueue \in Seq(Backup)
    BY DEF Init
  <2>6. /\ verification \in [Backup -> {"pending", "verified", "failed"}]
        /\ day \in 0..MaxDay /\ requests \in 0..MaxRequests /\ crashes \in 0..MaxCrashes
    BY DEF Init
  <2> QED BY <2>1, <2>2, <2>3, <2>4, <2>5, <2>6 DEF Init, TypeOK
<1>2. TypeOK /\ SlotsAim /\ [Next]_vars => TypeOK' /\ SlotsAim'
  <2> SUFFICES ASSUME TypeOK, SlotsAim, [Next]_vars
               PROVE  TypeOK' /\ SlotsAim'
    OBVIOUS
  <2>1. CASE UNCHANGED vars  BY <2>1 DEF TypeOK, SlotsAim
  <2>2. CASE Next
    BY <2>2, SlotTypes, BackupTypes, RestoreTypes, SharedTypes DEF Next
  <2> QED BY <2>1, <2>2
<1> QED BY <1>1, <1>2, PTL DEF Spec

(***************************************************************************)
(* NoLostWakeup.  Each push brings its callback; each shift consumes one.   *)
(***************************************************************************)
\* No queued backup or restore is left without a pending callback of its
\* queue processor (enqueueBackup, queueRestore, processBackupQueue).
THEOREM WakeupsSuffice == Spec => []NoLostWakeup
<1> USE DEF NoLostWakeup, TypeOK
<1>1. Init => NoLostWakeup  BY DEF Init
<1>2. TypeOK /\ SlotsAim /\ NoLostWakeup /\ [Next]_vars => NoLostWakeup'
  <2> SUFFICES ASSUME TypeOK, SlotsAim, NoLostWakeup, [Next]_vars
               PROVE  NoLostWakeup'
    OBVIOUS
  <2>1. ASSUME NEW r \in Request, enqueueBackup(r)  PROVE NoLostWakeup'
    BY <2>1 DEF enqueueBackup, SlotsAim
  <2>2. ASSUME NEW r \in Request, SlotNext(r), ~ enqueueBackup(r)
        PROVE  UNCHANGED queueVars
    BY <2>2 DEF SlotNext, queueManualBackup, queueAutomaticBackup, getDueAutomaticBackup,
        automaticActiveCheck, createBackupJob, markAutomaticQueued, deleteBackup,
        enforceRetention, removeFile, markDeleted, rejectQuery
  <2>3. ASSUME NEW b \in Backup, BackupNext(b)
        PROVE  UNCHANGED queueVars \/ finishBackup(b)
    BY <2>3 DEF BackupNext, acquireBackupJob, createBackupArchive, completeBackup,
        verifyArchive, rejectCompletion, markSettingsBackupCompleted, failBackup, endBackup
  <2>4. ASSUME NEW b \in Backup, RestoreNext(b)
        PROVE  UNCHANGED queueVars \/ finishRestore(b)
    BY <2>4 DEF RestoreNext, acquireRestoreJob, replayArchive, completeRestore, failRestore, endRestore
  <2>5. ASSUME NEW b \in Backup, finishBackup(b) \/ finishRestore(b)  PROVE NoLostWakeup'
    BY <2>5 DEF finishBackup, finishRestore
  <2>6. ASSUME NEW b \in Backup, queueRestore(b)  PROVE NoLostWakeup'
    BY <2>6 DEF queueRestore
  <2>7. CASE processBackupQueue
    BY <2>7 DEF processBackupQueue
  <2>8. CASE processRestoreQueue
    BY <2>8 DEF processRestoreQueue
  <2>9. CASE crash   BY <2>9 DEF crash
  <2>10. CASE updateSettings \/ comeDue \/ nextDay \/ UNCHANGED vars
    BY <2>10 DEF updateSettings, comeDue, nextDay
  <2> QED BY <2>1, <2>2, <2>3, <2>4, <2>5, <2>6, <2>7, <2>8, <2>9, <2>10 DEF Next
<1> QED BY <1>1, <1>2, TypeCorrect, PTL DEF Spec

(***************************************************************************)
(* OneHolder.  A creator inserts the row, hands the id to the queue and     *)
(* lets go; the queue hands it to the job.  Only these three steps make a   *)
(* holder, and each takes the id from where it was: from the ids not yet    *)
(* given out (hence AbsentIsFree), from the creator, from the queue.        *)
(***************************************************************************)
HolderInv == AbsentIsFree /\ OneHolder

\* A step that gives no backup a new creator, queue place or job, and returns
\* no id to createBackupJob, keeps the holders unique.
LEMMA NoNewHolder ==
    ASSUME HolderInv,
           \A r \in Request, b \in Backup : Creating(r, b)' => Creating(r, b),
           backupQueue' = backupQueue,
           \A b \in Backup : job'[b] # "idle" => job[b] # "idle",
           \A b \in Backup : status'[b] = "absent" => status[b] = "absent"
    PROVE  HolderInv'
BY DEF HolderInv, AbsentIsFree, OneHolder, Queued

\* The handlers and ticks keep the holders unique: createBackupJob takes a
\* free id, enqueueBackup moves it from the creator to the queue.
LEMMA SlotHolders ==
    ASSUME TypeOK, SlotsAim, HolderInv, NEW r \in Request, SlotNext(r)
    PROVE  HolderInv'
<1> USE DEF TypeOK
<1>1. CASE createBackupJob(r)
  <2>1. PICK b \in Backup : /\ status[b] = "absent"
                            /\ status' = [status EXCEPT ![b] = "pending"]
                            /\ cur' = [cur EXCEPT ![r] = b]
    BY <1>1 DEF createBackupJob
  <2>2. /\ backupQueue' = backupQueue /\ job' = job
        /\ pc'[r] \in {"markQueued", "enqueue"}
        /\ \A s \in Request : s # r => pc'[s] = pc[s] /\ cur'[s] = cur[s]
    BY <1>1, <2>1 DEF createBackupJob
  <2>3. \A s \in Request, c \in Backup :
           Creating(s, c)' <=> (s = r /\ c = b) \/ (s # r /\ Creating(s, c))
    BY <2>1, <2>2 DEF Creating
  <2>4. ~ Queued(b) /\ job[b] = "idle" /\ \A s \in Request : ~ Creating(s, b)
    BY <2>1 DEF HolderInv, AbsentIsFree
  <2>5. \A c \in Backup : Queued(c)' <=> Queued(c)
    BY <2>2 DEF Queued
  <2>6. AbsentIsFree'
    BY <2>1, <2>2, <2>3, <2>5 DEF HolderInv, AbsentIsFree
  <2>7. OneHolder'
    BY <2>2, <2>3, <2>4, <2>5 DEF HolderInv, OneHolder
  <2> QED BY <2>6, <2>7 DEF HolderInv
<1>2. CASE enqueueBackup(r)
  <2> DEFINE b == cur[r]
  <2>1. b \in Backup /\ Creating(r, b)
    BY <1>2 DEF enqueueBackup, SlotsAim, Creating
  <2>2. /\ backupQueue' = Append(backupQueue, b)
        /\ job' = job /\ status' = status
    BY <1>2 DEF enqueueBackup
  <2>3. ~ Queued(b) /\ job[b] = "idle" /\ \A s \in Request : Creating(s, b) => s = r
    BY <2>1 DEF HolderInv, OneHolder
  <2>4. \A s \in Request, c \in Backup : Creating(s, c)' <=> s # r /\ Creating(s, c)
    BY <1>2 DEF enqueueBackup, Creating
  <2>5. \A i \in 1..Len(backupQueue') :
           backupQueue'[i] = IF i = Len(backupQueue) + 1 THEN b ELSE backupQueue[i]
    <3>1. backupQueue \in Seq(Backup)
      OBVIOUS
    <3> QED BY ONLY <2>1, <2>2, <3>1
  <2>6. Len(backupQueue') = Len(backupQueue) + 1 /\ Len(backupQueue) \in Nat
    BY <2>1, <2>2
  <2> DEFINE n == Len(backupQueue)
  <2>7. \A c \in Backup : Queued(c)' <=> Queued(c) \/ c = b
    <3> SUFFICES ASSUME NEW c \in Backup  PROVE Queued(c)' <=> Queued(c) \/ c = b
      OBVIOUS
    <3>1. ASSUME NEW i \in 1..Len(backupQueue'), backupQueue'[i] = c
          PROVE  Queued(c) \/ c = b
      <4>1. CASE i = n + 1  BY <3>1, <2>5, <4>1
      <4>2. CASE i # n + 1
        <5>1. i \in 1..n /\ backupQueue[i] = c  BY <3>1, <2>5, <2>6, <4>2
        <5> QED BY <5>1 DEF Queued
      <4> QED BY <4>1, <4>2
    <3>2. ASSUME NEW i \in 1..n, backupQueue[i] = c  PROVE Queued(c)'
      <4>1. i \in 1..Len(backupQueue') /\ backupQueue'[i] = c
        BY <3>2, <2>5, <2>6
      <4> QED BY <4>1 DEF Queued
    <3>3. ASSUME c = b  PROVE Queued(c)'
      <4>1. n + 1 \in 1..Len(backupQueue')  BY <2>6
      <4>2. backupQueue'[n + 1] = c         BY <3>3, <2>5, <4>1
      <4> QED BY <4>1, <4>2 DEF Queued
    <3> QED BY <3>1, <3>2, <3>3 DEF Queued
  <2>8. AbsentIsFree'
    BY <2>1, <2>2, <2>4, <2>7 DEF HolderInv, AbsentIsFree
  <2>9. \A c \in Backup : \A i, j \in 1..Len(backupQueue') :
           backupQueue'[i] = c /\ backupQueue'[j] = c => i = j
    <3> SUFFICES ASSUME NEW c \in Backup,
                        NEW i \in 1..Len(backupQueue'), NEW j \in 1..Len(backupQueue'),
                        backupQueue'[i] = c, backupQueue'[j] = c
                 PROVE  i = j
      OBVIOUS
    <3>1. \A k \in 1..n : backupQueue[k] # b
      BY <2>3 DEF Queued
    <3>2. \A k \in 1..Len(backupQueue') : k # n + 1 => k \in 1..n /\ backupQueue'[k] = backupQueue[k]
      BY <2>5, <2>6
    <3>3. CASE c = b
      <4>1. i = n + 1 /\ j = n + 1  BY <3>1, <3>2, <3>3
      <4> QED BY <4>1
    <3>4. CASE c # b
      <4>1. i # n + 1 /\ j # n + 1  BY <2>5, <3>4
      <4>2. backupQueue[i] = c /\ backupQueue[j] = c /\ i \in 1..n /\ j \in 1..n
        BY <3>2, <4>1
      <4> QED BY <4>2 DEF HolderInv, OneHolder
    <3> QED BY <3>3, <3>4
  <2>10. OneHolder'
    BY <2>2, <2>3, <2>4, <2>7, <2>9 DEF HolderInv, OneHolder
  <2> QED BY <2>8, <2>10 DEF HolderInv
<1>3. CASE ~ createBackupJob(r) /\ ~ enqueueBackup(r)
  <2>1. backupQueue' = backupQueue /\ job' = job
    BY <1>3 DEF SlotNext, queueManualBackup, queueAutomaticBackup, getDueAutomaticBackup,
        automaticActiveCheck, markAutomaticQueued, deleteBackup,
        enforceRetention, removeFile, markDeleted, rejectQuery
  <2>2. \A c \in Backup : status'[c] = "absent" => status[c] = "absent"
    <3>1. CASE markDeleted(r)  BY <3>1 DEF markDeleted, SlotsAim
    <3>2. CASE ~ markDeleted(r)
      BY <1>3, <3>2 DEF SlotNext, queueManualBackup, queueAutomaticBackup, getDueAutomaticBackup,
          automaticActiveCheck, markAutomaticQueued, deleteBackup,
          enforceRetention, removeFile, rejectQuery
    <3> QED BY <3>1, <3>2
  <2>3. \A s \in Request, c \in Backup : Creating(s, c)' => Creating(s, c)
    <3>1. CASE markAutomaticQueued(r)  BY <3>1 DEF markAutomaticQueued, Creating
    <3>2. CASE ~ markAutomaticQueued(r)
      <4>1. pc'[r] \notin {"markQueued", "enqueue"}
        BY <1>3, <3>2 DEF SlotNext, queueManualBackup, queueAutomaticBackup, getDueAutomaticBackup,
            automaticActiveCheck, deleteBackup, removalStep,
            enforceRetention, removeFile, markDeleted, rejectQuery
      <4>2. \A s \in Request : s # r => pc'[s] = pc[s] /\ cur'[s] = cur[s]
        BY <1>3, <3>2 DEF SlotNext, queueManualBackup, queueAutomaticBackup, getDueAutomaticBackup,
            automaticActiveCheck, deleteBackup,
            enforceRetention, removeFile, markDeleted, rejectQuery
      <4> QED BY <4>1, <4>2 DEF Creating
    <3> QED BY <3>1, <3>2
  <2> QED BY <2>1, <2>2, <2>3, NoNewHolder
<1> QED BY <1>1, <1>2, <1>3

\* The steps of runBackupJob keep the holders unique.
LEMMA BackupHolders ==
    ASSUME TypeOK, HolderInv, NEW b \in Backup, BackupNext(b)
    PROVE  HolderInv'
<1> USE DEF TypeOK, BackupNext, acquireBackupJob, createBackupArchive, completeBackup,
        verifyArchive, rejectCompletion, markSettingsBackupCompleted, failBackup, endBackup, finishBackup
<1>1. backupQueue' = backupQueue /\ pc' = pc /\ cur' = cur
  OBVIOUS
<1>2. \A c \in Backup : job'[c] # "idle" => job[c] # "idle"
  OBVIOUS
<1>3. \A c \in Backup : status'[c] = "absent" => status[c] = "absent"
  OBVIOUS
<1> QED BY <1>1, <1>2, <1>3, NoNewHolder DEF Creating

\* The steps of a restore keep the holders of backup jobs unique.
LEMMA RestoreHolders ==
    ASSUME TypeOK, HolderInv, NEW b \in Backup, RestoreNext(b) \/ queueRestore(b)
    PROVE  HolderInv'
<1> USE DEF TypeOK, RestoreNext, acquireRestoreJob, replayArchive, completeRestore,
        failRestore, endRestore, finishRestore, queueRestore
<1>1. backupQueue' = backupQueue /\ pc' = pc /\ cur' = cur /\ job' = job
  OBVIOUS
<1>2. \A c \in Backup : status'[c] = "absent" => status[c] = "absent"
  OBVIOUS
<1> QED BY <1>1, <1>2, NoNewHolder DEF Creating

\* processBackupQueue moves the head of the queue to its job; the other shared
\* steps make no holder.
LEMMA SharedHolders ==
    ASSUME TypeOK, HolderInv,
           \/ processBackupQueue \/ processRestoreQueue
           \/ updateSettings \/ comeDue \/ nextDay \/ crash
    PROVE  HolderInv'
<1> USE DEF TypeOK
<1>1. CASE processBackupQueue /\ backupQueue # <<>>
  <2> DEFINE b == Head(backupQueue)
  <2>1. /\ backupQueue' = Tail(backupQueue) /\ status' = status /\ pc' = pc /\ cur' = cur
        /\ job' = IF job[b] = "idle" THEN [job EXCEPT ![b] = "acquire"] ELSE job
    BY <1>1 DEF processBackupQueue
  <2>2. /\ b \in Backup /\ Len(backupQueue) \in Nat /\ Len(backupQueue) > 0
        /\ b = backupQueue[1]
        /\ Len(backupQueue') = Len(backupQueue) - 1
        /\ \A i \in 1..Len(backupQueue') :
              backupQueue'[i] = backupQueue[i + 1] /\ i + 1 \in 2..Len(backupQueue)
    BY <1>1, <2>1, HeadAndTail
  <2>3. Queued(b)
    BY <2>2 DEF Queued
  <2>4. job[b] = "idle" /\ \A r \in Request : ~ Creating(r, b)
    BY <2>2, <2>3 DEF HolderInv, OneHolder
  <2>5. \A r \in Request, c \in Backup : Creating(r, c)' <=> Creating(r, c)
    BY <2>1 DEF Creating
  <2>6. \A c \in Backup : Queued(c)' => Queued(c)
    <3> SUFFICES ASSUME NEW c \in Backup,
                        NEW i \in 1..Len(backupQueue'), backupQueue'[i] = c
                 PROVE  Queued(c)
      BY DEF Queued
    <3>1. i + 1 \in 1..Len(backupQueue) /\ backupQueue[i + 1] = c
      BY ONLY <2>2, i \in 1..Len(backupQueue'), backupQueue'[i] = c
    <3> QED BY <3>1 DEF Queued
  <2>7. \A c \in Backup : Queued(c)' => c # b
    <3> SUFFICES ASSUME NEW c \in Backup, c = b,
                        NEW i \in 1..Len(backupQueue'), backupQueue'[i] = c
                 PROVE  FALSE
      BY DEF Queued
    <3>1. i + 1 \in 1..Len(backupQueue) /\ backupQueue[i + 1] = b
      BY ONLY <2>2, i \in 1..Len(backupQueue'), backupQueue'[i] = c, c = b
    <3>2. 1 \in 1..Len(backupQueue) /\ backupQueue[1] = b
      BY ONLY <2>2
    <3>3. i + 1 = 1
      BY <2>2, <3>1, <3>2 DEF HolderInv, OneHolder
    <3> QED BY <3>3
  <2>8. \A c \in Backup : c # b => job'[c] = job[c]
    BY <2>1, <2>2
  <2>9. AbsentIsFree'
    BY <2>1, <2>2, <2>3, <2>5, <2>6, <2>8 DEF HolderInv, AbsentIsFree
  <2>10. \A c \in Backup : \A i, j \in 1..Len(backupQueue') :
           backupQueue'[i] = c /\ backupQueue'[j] = c => i = j
    <3> SUFFICES ASSUME NEW c \in Backup,
                        NEW i \in 1..Len(backupQueue'), NEW j \in 1..Len(backupQueue'),
                        backupQueue'[i] = c, backupQueue'[j] = c
                 PROVE  i = j
      OBVIOUS
    <3>1. backupQueue[i + 1] = c /\ backupQueue[j + 1] = c
      BY <2>2
    <3>2. i + 1 \in 1..Len(backupQueue) /\ j + 1 \in 1..Len(backupQueue)
      BY <2>2
    <3>3. i + 1 = j + 1
      BY <3>1, <3>2 DEF HolderInv, OneHolder
    <3> QED BY <3>3
  <2>11. OneHolder'
    BY <2>4, <2>5, <2>6, <2>7, <2>8, <2>10 DEF HolderInv, OneHolder
  <2> QED BY <2>9, <2>11 DEF HolderInv
<1>2. CASE processBackupQueue /\ backupQueue = <<>>
  BY <1>2, NoNewHolder DEF processBackupQueue, Creating
<1>3. CASE crash
  BY <1>3 DEF crash, HolderInv, AbsentIsFree, OneHolder, Queued, Creating
<1>4. CASE processRestoreQueue \/ updateSettings \/ comeDue \/ nextDay
  <2>1. /\ backupQueue' = backupQueue /\ job' = job /\ status' = status
        /\ pc' = pc /\ cur' = cur
    BY <1>4 DEF processRestoreQueue, updateSettings, comeDue, nextDay
  <2> QED BY <2>1, NoNewHolder DEF Creating
<1> QED BY <1>1, <1>2, <1>3, <1>4

\* A backup always has at most one hand at it: its creator, one place in the
\* queue, or its job, and an id not yet given out has none.
THEOREM HoldersAreUnique == Spec => []HolderInv
<1>1. Init => HolderInv
  BY DEF Init, HolderInv, AbsentIsFree, OneHolder, Queued, Creating
<1>2. TypeOK /\ SlotsAim /\ HolderInv /\ [Next]_vars => HolderInv'
  <2> SUFFICES ASSUME TypeOK, SlotsAim, HolderInv, [Next]_vars
               PROVE  HolderInv'
    OBVIOUS
  <2>1. CASE UNCHANGED vars
    BY <2>1, NoNewHolder DEF Creating
  <2>2. CASE Next
    BY <2>2, SlotHolders, BackupHolders, RestoreHolders, SharedHolders DEF Next
  <2> QED BY <2>1, <2>2
<1> QED BY <1>1, <1>2, TypeCorrect, PTL DEF Spec

\* The inductive invariant the model-checking run checks holds for all constants.
THEOREM InvHolds == Spec => []Inv
<1>1. TypeOK /\ SlotsAim /\ HolderInv /\ NoLostWakeup => Inv
  BY DEF Inv, HolderInv
<1> QED BY <1>1, TypeCorrect, HoldersAreUnique, WakeupsSuffice, PTL

(***************************************************************************)
(* ActiveIsServed, for a process that does not crash and whose queries are  *)
(* answered: an active row has someone at work on it, so the 409 of         *)
(* queueManualBackup is right.  One crash is enough to lose this: no code   *)
(* looks at the rows when the process starts again.                         *)
(***************************************************************************)
\* A handler or tick whose queries are answered leaves no active row unserved.
LEMMA SlotServes ==
    ASSUME ~ Faults, TypeOK, SlotsAim, HolderInv, ActiveIsServed,
           NEW r \in Request, SlotNext(r)
    PROVE  ActiveIsServed'
<1> USE DEF TypeOK
<1>1. restore' = restore /\ job' = job
  BY DEF SlotNext, queueManualBackup, queueAutomaticBackup, getDueAutomaticBackup,
      automaticActiveCheck, createBackupJob, markAutomaticQueued, enqueueBackup, deleteBackup,
      enforceRetention, removeFile, markDeleted, rejectQuery
<1>2. CASE createBackupJob(r)
  <2>1. PICK b \in Backup : /\ status' = [status EXCEPT ![b] = "pending"]
                            /\ cur' = [cur EXCEPT ![r] = b]
    BY <1>2 DEF createBackupJob
  <2>2. /\ backupQueue' = backupQueue /\ deletedAt' = deletedAt
        /\ pc'[r] \in {"markQueued", "enqueue"} /\ pc[r] \notin {"markQueued", "enqueue"}
        /\ \A s \in Request : s # r => pc'[s] = pc[s] /\ cur'[s] = cur[s]
    BY <1>2 DEF createBackupJob
  <2>3. Creating(r, b)' /\ \A s \in Request, c \in Backup : Creating(s, c) => Creating(s, c)'
    BY <2>1, <2>2 DEF Creating
  <2>4. \A c \in Backup : Queued(c)' <=> Queued(c)
    BY <2>2 DEF Queued
  <2> QED BY <1>1, <2>1, <2>2, <2>3, <2>4 DEF ActiveIsServed, Live
<1>3. CASE enqueueBackup(r)
  <2>1. /\ cur[r] \in Backup /\ backupQueue' = Append(backupQueue, cur[r])
        /\ status' = status /\ deletedAt' = deletedAt
    BY <1>3 DEF enqueueBackup, SlotsAim
  <2>2. \A s \in Request, c \in Backup : Creating(s, c) => Creating(s, c)' \/ c = cur[r]
    BY <1>3 DEF enqueueBackup, Creating
  <2>3. \A c \in Backup : Queued(c) \/ c = cur[r] => Queued(c)'
    <3> SUFFICES ASSUME NEW c \in Backup, Queued(c) \/ c = cur[r]  PROVE Queued(c)'
      OBVIOUS
    <3>1. /\ Len(backupQueue') = Len(backupQueue) + 1 /\ Len(backupQueue) \in Nat
          /\ \A i \in 1..Len(backupQueue) : backupQueue'[i] = backupQueue[i]
          /\ backupQueue'[Len(backupQueue) + 1] = cur[r]
      BY <2>1
    <3>2. CASE c = cur[r]
      <4>1. Len(backupQueue) + 1 \in 1..Len(backupQueue')  BY <3>1
      <4> QED BY <3>1, <3>2, <4>1 DEF Queued
    <3>3. ASSUME NEW i \in 1..Len(backupQueue), backupQueue[i] = c  PROVE Queued(c)'
      <4>1. i \in 1..Len(backupQueue') /\ backupQueue'[i] = c  BY <3>1, <3>3
      <4> QED BY <4>1 DEF Queued
    <3> QED BY <3>2, <3>3 DEF Queued
  <2> QED BY <1>1, <2>1, <2>2, <2>3 DEF ActiveIsServed, Live
<1>4. CASE markDeleted(r)
  <2>1. /\ cur[r] \in Backup /\ deletedAt' = deletedAt \cup {cur[r]}
        /\ \A c \in Backup : c # cur[r] => status'[c] = status[c]
        /\ backupQueue' = backupQueue
    BY <1>4 DEF markDeleted, SlotsAim
  <2>2. \A s \in Request, c \in Backup : Creating(s, c) => Creating(s, c)'
    BY <1>4 DEF markDeleted, Creating
  <2>3. \A c \in Backup : Queued(c)' <=> Queued(c)
    BY <2>1 DEF Queued
  <2> QED BY <1>1, <2>1, <2>2, <2>3 DEF ActiveIsServed, Live
<1>5. CASE ~ createBackupJob(r) /\ ~ enqueueBackup(r) /\ ~ markDeleted(r)
  <2>1. status' = status /\ deletedAt' = deletedAt /\ backupQueue' = backupQueue
    BY <1>5 DEF SlotNext, queueManualBackup, queueAutomaticBackup, getDueAutomaticBackup,
        automaticActiveCheck, markAutomaticQueued, deleteBackup, enforceRetention, removeFile,
        rejectQuery
  <2>2. \A s \in Request, c \in Backup : Creating(s, c) => Creating(s, c)'
    BY <1>5 DEF Creating, SlotNext, queueManualBackup, queueAutomaticBackup,
        getDueAutomaticBackup, automaticActiveCheck, markAutomaticQueued, deleteBackup,
        enforceRetention, removeFile, rejectQuery
  <2>3. \A c \in Backup : Queued(c)' <=> Queued(c)
    BY <2>1 DEF Queued
  <2> QED BY <1>1, <2>1, <2>2, <2>3 DEF ActiveIsServed, Live
<1> QED BY <1>2, <1>3, <1>4, <1>5

\* The steps of a backup or restore job leave no active row unserved.
LEMMA JobServes ==
    ASSUME ~ Faults, TypeOK, ActiveIsServed, NEW b \in Backup,
           BackupNext(b) \/ RestoreNext(b) \/ queueRestore(b)
    PROVE  ActiveIsServed'
<1> USE DEF TypeOK
<1>1. /\ backupQueue' = backupQueue /\ pc' = pc /\ cur' = cur /\ deletedAt' = deletedAt
      /\ \A c \in Backup : c # b => /\ status'[c] = status[c]
                                   /\ job'[c] = job[c] /\ restore'[c] = restore[c]
  BY DEF BackupNext, acquireBackupJob, createBackupArchive, completeBackup,
      verifyArchive, rejectCompletion, markSettingsBackupCompleted, failBackup, endBackup, finishBackup,
      RestoreNext, acquireRestoreJob, replayArchive, completeRestore,
      failRestore, endRestore, finishRestore, queueRestore
<1>2. /\ \A c \in Backup : Queued(c) => Queued(c)'
      /\ \A r \in Request, c \in Backup : Creating(r, c) => Creating(r, c)'
  BY <1>1 DEF Queued, Creating
<1>3. Live(b)' =>
        /\ status'[b] = "pending" =>
              (\E r \in Request : Creating(r, b)) \/ Queued(b) \/ job'[b] = "acquire"
        /\ status'[b] = "running" => job'[b] \in {"dump", "verify", "complete", "fail"}
        /\ status'[b] = "restoring" => restore'[b] \in {"download", "settle", "fail"}
  <2> USE DEF ActiveIsServed, Live
  <2>1. CASE BackupNext(b)
    <3> USE DEF finishBackup
    <3>1. CASE acquireBackupJob(b)             BY <3>1 DEF acquireBackupJob
    <3>2. CASE createBackupArchive(b)          BY <3>2 DEF createBackupArchive
    <3>3. CASE verifyArchive(b)                BY <3>3 DEF verifyArchive
    <3>4. CASE completeBackup(b)               BY <3>4 DEF completeBackup
    <3>5. CASE rejectCompletion(b)             BY <3>5 DEF rejectCompletion
    <3>6. CASE markSettingsBackupCompleted(b)  BY <3>6 DEF markSettingsBackupCompleted
    <3>7. CASE failBackup(b)                   BY <3>7 DEF failBackup
    <3>8. CASE endBackup(b)                    BY <3>8 DEF endBackup
    <3> QED BY <2>1, <3>1, <3>2, <3>3, <3>4, <3>5, <3>6, <3>7, <3>8 DEF BackupNext
  <2>2. CASE RestoreNext(b) \/ queueRestore(b)
    <3> USE DEF finishRestore
    <3>1. CASE acquireRestoreJob(b)  BY <3>1 DEF acquireRestoreJob
    <3>2. CASE replayArchive(b)      BY <3>2 DEF replayArchive
    <3>3. CASE completeRestore(b)    BY <3>3 DEF completeRestore
    <3>4. CASE failRestore(b)        BY <3>4 DEF failRestore
    <3>5. CASE endRestore(b)         BY <3>5 DEF endRestore
    <3>6. CASE queueRestore(b)       BY <3>6 DEF queueRestore
    <3> QED BY <2>2, <3>1, <3>2, <3>3, <3>4, <3>5, <3>6 DEF RestoreNext
  <2> QED BY <2>1, <2>2
<1>4. ASSUME NEW c \in Backup, c # b, Live(c)'
      PROVE  /\ status'[c] = "pending" =>
                   \/ \E r \in Request : Creating(r, c)'
                   \/ Queued(c)'
                   \/ job'[c] = "acquire"
             /\ status'[c] = "running" => job'[c] \in {"dump", "verify", "complete", "fail"}
             /\ status'[c] = "restoring" => restore'[c] \in {"download", "settle", "fail"}
  <2>1. Live(c)  BY <1>1, <1>4 DEF Live
  <2>2. status'[c] = status[c] /\ job'[c] = job[c] /\ restore'[c] = restore[c]
    BY <1>1, <1>4
  <2> QED BY <2>1, <2>2, <1>2 DEF ActiveIsServed
<1>5. ASSUME Live(b)'
      PROVE  /\ status'[b] = "pending" =>
                   \/ \E r \in Request : Creating(r, b)'
                   \/ Queued(b)'
                   \/ job'[b] = "acquire"
             /\ status'[b] = "running" => job'[b] \in {"dump", "verify", "complete", "fail"}
             /\ status'[b] = "restoring" => restore'[b] \in {"download", "settle", "fail"}
  BY <1>2, <1>3, <1>5
<1> QED BY <1>4, <1>5 DEF ActiveIsServed

\* The queue processors leave no active row unserved when nothing crashes: the
\* id they take gets a job, which needs that its job was idle (OneHolder).
LEMMA QueueServes ==
    ASSUME MaxCrashes = 0, TypeOK, HolderInv, ActiveIsServed,
           \/ processBackupQueue \/ processRestoreQueue
           \/ updateSettings \/ comeDue \/ nextDay \/ crash
    PROVE  ActiveIsServed'
<1> USE DEF TypeOK
<1>1. CASE processBackupQueue /\ backupQueue # <<>>
  <2> DEFINE h == Head(backupQueue)
  <2>1. PICK b \in Backup : b = h
    BY <1>1
  <2>2. /\ backupQueue' = Tail(backupQueue) /\ status' = status /\ deletedAt' = deletedAt
        /\ pc' = pc /\ cur' = cur /\ restore' = restore
        /\ job' = IF job[b] = "idle" THEN [job EXCEPT ![b] = "acquire"] ELSE job
    BY <1>1, <2>1 DEF processBackupQueue
  <2>3. /\ Len(backupQueue) \in Nat /\ Len(backupQueue) > 0 /\ b = backupQueue[1]
        /\ Len(backupQueue') = Len(backupQueue) - 1
        /\ \A i \in 1..Len(backupQueue') : backupQueue'[i] = backupQueue[i + 1]
    BY <1>1, <2>1, <2>2
  <2>4. Queued(b)
    BY <2>3 DEF Queued
  <2>5. job'[b] = "acquire" /\ job[b] = "idle" /\ \A c \in Backup : c # b => job'[c] = job[c]
    BY <2>2, <2>4 DEF HolderInv, OneHolder
  <2>6. \A c \in Backup : Queued(c) => Queued(c)' \/ c = b
    <3> SUFFICES ASSUME NEW c \in Backup, c # b,
                        NEW i \in 1..Len(backupQueue), backupQueue[i] = c
                 PROVE  Queued(c)'
      BY DEF Queued
    <3>1. i # 1  BY <2>3
    <3>2. i - 1 \in 1..Len(backupQueue') /\ (i - 1) + 1 = i  BY <2>3, <3>1
    <3>3. backupQueue'[i - 1] = c  BY <2>3, <3>2
    <3> QED BY <3>2, <3>3 DEF Queued
  <2>7. \A r \in Request, c \in Backup : Creating(r, c)' <=> Creating(r, c)
    BY <2>2 DEF Creating
  <2> QED BY <2>2, <2>5, <2>6, <2>7 DEF ActiveIsServed, Live
<1>2. CASE processBackupQueue /\ backupQueue = <<>>
  BY <1>2 DEF processBackupQueue, ActiveIsServed, Live, Queued, Creating
<1>3. CASE processRestoreQueue
  <2>1. /\ backupQueue' = backupQueue /\ status' = status /\ deletedAt' = deletedAt
        /\ pc' = pc /\ cur' = cur /\ job' = job
    BY <1>3 DEF processRestoreQueue
  <2>2. \A c \in Backup : restore[c] # "idle" => restore'[c] = restore[c]
    <3>1. CASE restoreQueue = <<>>  BY <1>3, <3>1 DEF processRestoreQueue
    <3>2. CASE restoreQueue # <<>>
      <4>1. restore' = IF restore[Head(restoreQueue)] = "idle"
                       THEN [restore EXCEPT ![Head(restoreQueue)] = "acquire"] ELSE restore
        BY <1>3, <3>2 DEF processRestoreQueue
      <4> QED BY <4>1
    <3> QED BY <3>1, <3>2
  <2> QED BY <2>1, <2>2 DEF ActiveIsServed, Live, Queued, Creating
<1>4. CASE updateSettings \/ comeDue \/ nextDay
  BY <1>4 DEF updateSettings, comeDue, nextDay, ActiveIsServed, Live, Queued, Creating
<1>5. CASE crash
  BY <1>5 DEF crash
<1> QED BY <1>1, <1>2, <1>3, <1>4, <1>5

\* Without a crash or a rejected query every pending, running or restoring row
\* is being worked on, so queueManualBackup refuses only while work is under way.
THEOREM ServedWithoutCrash ==
    ASSUME ~ Faults, MaxCrashes = 0
    PROVE  Spec => []ActiveIsServed
<1>1. Init => ActiveIsServed
  BY DEF Init, ActiveIsServed, Live
<1>2. TypeOK /\ SlotsAim /\ HolderInv /\ ActiveIsServed /\ [Next]_vars => ActiveIsServed'
  <2> SUFFICES ASSUME TypeOK, SlotsAim, HolderInv, ActiveIsServed, [Next]_vars
               PROVE  ActiveIsServed'
    OBVIOUS
  <2>1. CASE UNCHANGED vars
    BY <2>1 DEF ActiveIsServed, Live, Queued, Creating
  <2>2. CASE Next
    BY <2>2, SlotServes, JobServes, QueueServes DEF Next
  <2> QED BY <2>1, <2>2
<1> QED BY <1>1, <1>2, TypeCorrect, HoldersAreUnique, PTL DEF Spec

(***************************************************************************)
(* VerifiedStaysVerified, for queries that are answered.  Only failBackup   *)
(* takes a verification back; it needs a job that failed before its row was *)
(* completed, and such a row is neither verified nor about to be.  (A       *)
(* rejected query after completeBackup breaks this: the catch block marks   *)
(* the verified backup failed.)                                             *)
(***************************************************************************)
Unfinished(b) ==
    \/ status[b] = "absent"
    \/ Queued(b)
    \/ job[b] \in {"acquire", "dump", "verify", "complete", "fail"}
    \/ \E r \in Request : Creating(r, b)

\* Its archive has no name yet.
Unnamed(b) ==
    \/ status[b] = "absent"
    \/ Queued(b)
    \/ job[b] = "acquire"
    \/ \E r \in Request : Creating(r, b)

UnfinishedIsUnverified ==
    \A b \in Backup : Unfinished(b) =>
        /\ verification[b] # "verified"
        /\ status[b] \notin {"completed", "restoring"}
        /\ restore[b] \in {"idle", "acquire"}

\* A step that makes no backup unfinished again and neither verifies nor
\* restores an unfinished one keeps the invariant for that backup.
LEMMA StillUnfinished ==
    ASSUME UnfinishedIsUnverified,
           NEW b \in Backup, Unfinished(b)' => Unfinished(b),
           verification'[b] = verification[b],
           status'[b] = status[b] \/ status'[b] \notin {"completed", "restoring"},
           restore'[b] = restore[b] \/ restore'[b] \in {"idle", "acquire"}
    PROVE  Unfinished(b)' => /\ verification'[b] # "verified"
                             /\ status'[b] \notin {"completed", "restoring"}
                             /\ restore'[b] \in {"idle", "acquire"}
BY DEF UnfinishedIsUnverified

\* A handler or tick makes no backup unfinished again: createBackupJob takes an
\* id that was nobody's, enqueueBackup the one its slot holds.
LEMMA SlotUnfinished ==
    ASSUME TypeOK, SlotsAim, NEW r \in Request, SlotNext(r)
    PROVE  \A c \in Backup : /\ Unfinished(c)' => Unfinished(c)
                             /\ Unnamed(c)' => Unnamed(c)
<1> USE DEF TypeOK
<1>1. job' = job
  BY DEF SlotNext, queueManualBackup, queueAutomaticBackup, getDueAutomaticBackup,
      automaticActiveCheck, createBackupJob, markAutomaticQueued, enqueueBackup, deleteBackup,
      enforceRetention, removeFile, markDeleted, rejectQuery
<1>2. \A c \in Backup : status'[c] = status[c] \/ status'[c] \in {"pending", "deleted"}
  <2>1. CASE markDeleted(r)  BY <2>1 DEF markDeleted, SlotsAim
  <2>2. CASE ~ markDeleted(r)
    BY <2>2 DEF SlotNext, queueManualBackup, queueAutomaticBackup, getDueAutomaticBackup,
        automaticActiveCheck, createBackupJob, markAutomaticQueued, enqueueBackup, deleteBackup,
        enforceRetention, removeFile, rejectQuery
  <2> QED BY <2>1, <2>2
<1>3. CASE createBackupJob(r)
  <2>1. PICK b \in Backup : /\ status[b] = "absent"
                            /\ status' = [status EXCEPT ![b] = "pending"]
                            /\ cur' = [cur EXCEPT ![r] = b]
    BY <1>3 DEF createBackupJob
  <2>2. backupQueue' = backupQueue /\ \A s \in Request : s # r => pc'[s] = pc[s] /\ cur'[s] = cur[s]
    BY <1>3, <2>1 DEF createBackupJob
  <2>3. \A s \in Request, c \in Backup : Creating(s, c)' => Creating(s, c) \/ c = b
    BY <2>1, <2>2 DEF Creating
  <2> QED BY <1>1, <2>1, <2>2, <2>3 DEF Unfinished, Unnamed, Queued
<1>4. CASE enqueueBackup(r)
  <2>1. /\ cur[r] \in Backup /\ Creating(r, cur[r]) /\ status' = status
        /\ backupQueue' = Append(backupQueue, cur[r])
    BY <1>4 DEF enqueueBackup, SlotsAim, Creating
  <2>2. \A s \in Request, c \in Backup : Creating(s, c)' => Creating(s, c)
    BY <1>4 DEF enqueueBackup, Creating
  <2>3. \A c \in Backup : Queued(c)' => Queued(c) \/ c = cur[r]
    <3> SUFFICES ASSUME NEW c \in Backup,
                        NEW i \in 1..Len(backupQueue'), backupQueue'[i] = c
                 PROVE  Queued(c) \/ c = cur[r]
      BY DEF Queued
    <3>1. /\ Len(backupQueue') = Len(backupQueue) + 1 /\ Len(backupQueue) \in Nat
          /\ \A k \in 1..Len(backupQueue) : backupQueue'[k] = backupQueue[k]
          /\ backupQueue'[Len(backupQueue) + 1] = cur[r]
      BY <2>1
    <3>2. i \in 1..Len(backupQueue) \/ i = Len(backupQueue) + 1  BY <3>1
    <3> QED BY <3>1, <3>2 DEF Queued
  <2> QED BY <1>1, <2>1, <2>2, <2>3 DEF Unfinished, Unnamed
<1>5. CASE ~ createBackupJob(r) /\ ~ enqueueBackup(r)
  <2>1. backupQueue' = backupQueue
    BY <1>5 DEF SlotNext, queueManualBackup, queueAutomaticBackup, getDueAutomaticBackup,
        automaticActiveCheck, markAutomaticQueued, deleteBackup,
        enforceRetention, removeFile, markDeleted, rejectQuery
  <2>2. \A c \in Backup : status'[c] = "absent" => status[c] = "absent"
    BY <1>2
  <2>3. \A s \in Request, c \in Backup : Creating(s, c)' => Creating(s, c)
    BY <1>5 DEF Creating, removalStep, SlotNext, queueManualBackup, queueAutomaticBackup,
        getDueAutomaticBackup, automaticActiveCheck, markAutomaticQueued, deleteBackup,
        enforceRetention, removeFile, markDeleted, rejectQuery
  <2> QED BY <1>1, <2>1, <2>2, <2>3 DEF Unfinished, Unnamed, Queued
<1> QED BY <1>3, <1>4, <1>5

\* Nor do the queue processors, the clock, the settings and a crash.
LEMMA SharedUnfinished ==
    ASSUME TypeOK,
           \/ processBackupQueue \/ processRestoreQueue
           \/ updateSettings \/ comeDue \/ nextDay \/ crash
    PROVE  \A c \in Backup : /\ Unfinished(c)' => Unfinished(c)
                             /\ Unnamed(c)' => Unnamed(c)
<1> USE DEF TypeOK
<1>1. status' = status
  BY DEF processBackupQueue, processRestoreQueue, updateSettings, comeDue, nextDay, crash
<1>2. CASE processBackupQueue /\ backupQueue # <<>>
  <2> DEFINE h == Head(backupQueue)
  <2>1. PICK b \in Backup : b = h
    BY <1>2, HeadAndTail
  <2>2. /\ backupQueue' = Tail(backupQueue) /\ pc' = pc /\ cur' = cur
        /\ job' = IF job[b] = "idle" THEN [job EXCEPT ![b] = "acquire"] ELSE job
    BY <1>2, <2>1 DEF processBackupQueue
  <2>3. /\ Len(backupQueue) \in Nat /\ Len(backupQueue) > 0 /\ b = backupQueue[1]
        /\ Len(backupQueue') = Len(backupQueue) - 1
        /\ \A i \in 1..Len(backupQueue') :
              backupQueue'[i] = backupQueue[i + 1] /\ i + 1 \in 2..Len(backupQueue)
    BY <1>2, <2>1, <2>2, HeadAndTail
  <2>4. Queued(b)
    BY <2>3 DEF Queued
  <2>5. \A c \in Backup : Queued(c)' => Queued(c)
    <3> SUFFICES ASSUME NEW c \in Backup,
                        NEW i \in 1..Len(backupQueue'), backupQueue'[i] = c
                 PROVE  Queued(c)
      BY DEF Queued
    <3>1. i + 1 \in 1..Len(backupQueue) /\ backupQueue[i + 1] = c
      BY ONLY <2>3, i \in 1..Len(backupQueue'), backupQueue'[i] = c
    <3> QED BY <3>1 DEF Queued
  <2>6. \A r \in Request, c \in Backup : Creating(r, c)' => Creating(r, c)
    BY <2>2 DEF Creating
  <2> QED BY <1>1, <2>2, <2>4, <2>5, <2>6 DEF Unfinished, Unnamed
<1>3. CASE ~ (processBackupQueue /\ backupQueue # <<>>) /\ ~ crash
  BY <1>3 DEF processBackupQueue, processRestoreQueue, updateSettings, comeDue, nextDay,
      Unfinished, Unnamed, Queued, Creating
<1>4. CASE crash
  BY <1>4 DEF crash, Unfinished, Unnamed, Queued, Creating
<1> QED BY <1>2, <1>3, <1>4

\* Nor does a step of a job or a restore.
LEMMA JobUnfinished ==
    ASSUME ~ Faults, TypeOK, NEW b \in Backup, BackupNext(b) \/ RestoreNext(b) \/ queueRestore(b)
    PROVE  \A c \in Backup : /\ Unfinished(c)' => Unfinished(c)
                             /\ Unnamed(c)' => Unnamed(c)
<1> USE DEF TypeOK
<1>1. backupQueue' = backupQueue /\ pc' = pc /\ cur' = cur
  BY DEF BackupNext, acquireBackupJob, createBackupArchive, completeBackup,
      verifyArchive, rejectCompletion, markSettingsBackupCompleted, failBackup, endBackup, finishBackup,
      RestoreNext, acquireRestoreJob, replayArchive, completeRestore,
      failRestore, endRestore, finishRestore, queueRestore
<1>2. \A c \in Backup : status'[c] = "absent" => status[c] = "absent"
  BY DEF BackupNext, acquireBackupJob, createBackupArchive, completeBackup,
      verifyArchive, rejectCompletion, markSettingsBackupCompleted, failBackup, endBackup, finishBackup,
      RestoreNext, acquireRestoreJob, replayArchive, completeRestore,
      failRestore, endRestore, finishRestore, queueRestore
<1>3. \A c \in Backup :
          /\ job'[c] \in {"acquire", "dump", "verify", "complete", "fail"} =>
                job[c] \in {"acquire", "dump", "verify", "complete", "fail"}
          /\ job'[c] = "acquire" => job[c] = "acquire"
  BY DEF BackupNext, acquireBackupJob, createBackupArchive, completeBackup,
      verifyArchive, rejectCompletion, markSettingsBackupCompleted, failBackup, endBackup, finishBackup,
      RestoreNext, acquireRestoreJob, replayArchive, completeRestore,
      failRestore, endRestore, finishRestore, queueRestore
<1> QED BY <1>1, <1>2, <1>3 DEF Unfinished, Unnamed, Queued, Creating

\* A handler or tick keeps the unfinished backups unverified.
LEMMA UnfinishedSlot ==
    ASSUME TypeOK, SlotsAim, UnfinishedIsUnverified, NEW r \in Request, SlotNext(r)
    PROVE  UnfinishedIsUnverified'
<1> USE DEF TypeOK
<1>1. verification' = verification /\ restore' = restore /\ job' = job
  BY DEF SlotNext, queueManualBackup, queueAutomaticBackup, getDueAutomaticBackup,
      automaticActiveCheck, createBackupJob, markAutomaticQueued, enqueueBackup, deleteBackup,
      enforceRetention, removeFile, markDeleted, rejectQuery
<1>2. \A c \in Backup : status'[c] = status[c] \/ status'[c] \in {"pending", "deleted"}
  <2>1. CASE markDeleted(r)  BY <2>1 DEF markDeleted, SlotsAim
  <2>2. CASE ~ markDeleted(r)
    BY <2>2 DEF SlotNext, queueManualBackup, queueAutomaticBackup, getDueAutomaticBackup,
        automaticActiveCheck, createBackupJob, markAutomaticQueued, enqueueBackup, deleteBackup,
        enforceRetention, removeFile, rejectQuery
  <2> QED BY <2>1, <2>2
<1>3. \A c \in Backup : Unfinished(c)' => Unfinished(c)
  BY SlotUnfinished
<1> QED BY <1>1, <1>2, <1>3, StillUnfinished DEF UnfinishedIsUnverified

\* A job step keeps the unfinished backups unverified, and takes back no
\* verification: only failBackup would, and its backup was unfinished.
LEMMA UnfinishedJob ==
    ASSUME ~ Faults, TypeOK, HolderInv, UnfinishedIsUnverified, NEW b \in Backup,
           BackupNext(b) \/ RestoreNext(b) \/ queueRestore(b)
    PROVE  UnfinishedIsUnverified' /\ (\A c \in Backup :
               verification[c] = "verified" => verification'[c] = "verified")
<1> USE DEF TypeOK
<1>1. /\ backupQueue' = backupQueue /\ pc' = pc /\ cur' = cur
      /\ \A c \in Backup : c # b => /\ status'[c] = status[c] /\ verification'[c] = verification[c]
                                   /\ job'[c] = job[c] /\ restore'[c] = restore[c]
  BY DEF BackupNext, acquireBackupJob, createBackupArchive, completeBackup,
      verifyArchive, rejectCompletion, markSettingsBackupCompleted, failBackup, endBackup, finishBackup,
      RestoreNext, acquireRestoreJob, replayArchive, completeRestore,
      failRestore, endRestore, finishRestore, queueRestore
<1>2. /\ \A c \in Backup : Queued(c)' => Queued(c)
      /\ \A r \in Request, c \in Backup : Creating(r, c)' => Creating(r, c)
  BY <1>1 DEF Queued, Creating
<1>3. \A c \in Backup : c # b => (Unfinished(c)' => Unfinished(c))
  BY <1>1, <1>2 DEF Unfinished
<1>4. \A c \in Backup : c # b =>
         (Unfinished(c)' => /\ verification'[c] # "verified"
                            /\ status'[c] \notin {"completed", "restoring"}
                            /\ restore'[c] \in {"idle", "acquire"})
  BY <1>1, <1>3 DEF UnfinishedIsUnverified
<1>5. /\ Unfinished(b)' => /\ verification'[b] # "verified"
                           /\ status'[b] \notin {"completed", "restoring"}
                           /\ restore'[b] \in {"idle", "acquire"}
      /\ verification[b] = "verified" => verification'[b] = "verified"
  <2>1. CASE job[b] \in {"acquire", "dump", "verify", "complete", "fail"} /\ BackupNext(b)
    <3>1. Unfinished(b)  BY <2>1 DEF Unfinished
    <3>2. /\ verification[b] # "verified" /\ status[b] \notin {"completed", "restoring"}
          /\ restore[b] \in {"idle", "acquire"}
      BY <3>1 DEF UnfinishedIsUnverified
    <3>3. restore' = restore
      BY <2>1 DEF BackupNext, acquireBackupJob, createBackupArchive, completeBackup,
          verifyArchive, rejectCompletion, markSettingsBackupCompleted, failBackup, endBackup
    <3>4. CASE completeBackup(b)
      <4>1. job'[b] = "settings" /\ status'[b] = "completed"
        BY <3>4 DEF completeBackup
      <4>2. ~ Queued(b) /\ \A r \in Request : ~ Creating(r, b)
        BY <2>1 DEF HolderInv, OneHolder
      <4>3. ~ Unfinished(b)'
        BY <1>2, <4>1, <4>2 DEF Unfinished
      <4> QED BY <3>2, <4>3
    <3>5. CASE ~ completeBackup(b)
      BY <2>1, <3>2, <3>3, <3>5 DEF BackupNext, acquireBackupJob, createBackupArchive,
          verifyArchive, rejectCompletion, markSettingsBackupCompleted, failBackup, endBackup
    <3> QED BY <3>4, <3>5
  <2>2. CASE markSettingsBackupCompleted(b) \/ endBackup(b)
    <3>1. /\ status' = status /\ verification' = verification /\ restore' = restore
          /\ job'[b] \in {"end", "idle"}
      BY <2>2 DEF markSettingsBackupCompleted, endBackup, finishBackup
    <3>2. Unfinished(b)' => Unfinished(b)
      BY <1>2, <3>1 DEF Unfinished
    <3> QED BY <3>1, <3>2 DEF UnfinishedIsUnverified
  <2>3. CASE restore[b] \in {"download", "settle", "fail"} /\ RestoreNext(b)
    <3>1. ~ Unfinished(b)  BY <2>3 DEF UnfinishedIsUnverified
    <3>2. job' = job /\ (status'[b] = "absent" => status[b] = "absent")
      BY <2>3 DEF RestoreNext, acquireRestoreJob, replayArchive, completeRestore,
          failRestore, endRestore, finishRestore
    <3>3. ~ Unfinished(b)'  BY <1>2, <3>1, <3>2 DEF Unfinished
    <3>4. verification[b] = "verified" => verification'[b] = "verified"
      BY <2>3 DEF RestoreNext, acquireRestoreJob, replayArchive, completeRestore,
          failRestore, endRestore, finishRestore
    <3> QED BY <3>3, <3>4
  <2>4. CASE acquireRestoreJob(b) \/ endRestore(b) \/ queueRestore(b)
    <3>1. /\ job' = job /\ verification' = verification
          /\ \/ status'[b] = status[b] /\ restore'[b] \in {restore[b], "idle"}
             \/ status[b] = "completed" /\ status'[b] = "restoring"
      BY <2>4 DEF acquireRestoreJob, endRestore, queueRestore, finishRestore
    <3>2. Unfinished(b)' => Unfinished(b)
      BY <1>2, <3>1 DEF Unfinished
    <3> QED BY <3>1, <3>2 DEF UnfinishedIsUnverified
  <2>5. BackupNext(b) => \/ job[b] \in {"acquire", "dump", "verify", "complete", "fail"}
                         \/ markSettingsBackupCompleted(b) \/ endBackup(b)
    BY DEF BackupNext, acquireBackupJob, createBackupArchive, completeBackup,
        verifyArchive, rejectCompletion, failBackup
  <2>6. RestoreNext(b) => \/ restore[b] \in {"download", "settle", "fail"}
                          \/ acquireRestoreJob(b) \/ endRestore(b)
    BY DEF RestoreNext, replayArchive, completeRestore, failRestore
  <2> QED BY <2>1, <2>2, <2>3, <2>4, <2>5, <2>6
<1>6. \A c \in Backup : verification[c] = "verified" => verification'[c] = "verified"
  BY <1>1, <1>5
<1> QED BY <1>4, <1>5, <1>6 DEF UnfinishedIsUnverified

\* The shared steps keep the unfinished backups unverified.
LEMMA UnfinishedShared ==
    ASSUME TypeOK, HolderInv, UnfinishedIsUnverified,
           \/ processBackupQueue \/ processRestoreQueue
           \/ updateSettings \/ comeDue \/ nextDay \/ crash
    PROVE  UnfinishedIsUnverified'
<1> USE DEF TypeOK
<1>1. verification' = verification /\ status' = status
  BY DEF processBackupQueue, processRestoreQueue, updateSettings, comeDue, nextDay, crash
<1>2. \A c \in Backup : restore'[c] = restore[c] \/ restore'[c] \in {"idle", "acquire"}
  <2>1. CASE processRestoreQueue /\ restoreQueue # <<>>
    <3>1. restore' = IF restore[Head(restoreQueue)] = "idle"
                     THEN [restore EXCEPT ![Head(restoreQueue)] = "acquire"] ELSE restore
      BY <2>1 DEF processRestoreQueue
    <3> QED BY <3>1
  <2>2. CASE processRestoreQueue /\ restoreQueue = <<>>
    BY <2>2 DEF processRestoreQueue
  <2>3. CASE ~ processRestoreQueue
    BY <2>3 DEF processBackupQueue, updateSettings, comeDue, nextDay, crash
  <2> QED BY <2>1, <2>2, <2>3
<1>3. \A c \in Backup : Unfinished(c)' => Unfinished(c)
  BY SharedUnfinished
<1> QED BY <1>1, <1>2, <1>3, StillUnfinished DEF UnfinishedIsUnverified

\* When the queries of a job are answered, no step takes the verification of a
\* backup back: not a failed restore, not a late job, not a second restore.
THEOREM VerificationIsKept ==
    ASSUME ~ Faults
    PROVE  Spec => VerifiedStaysVerified
<1>1. Init => UnfinishedIsUnverified
  BY DEF Init, UnfinishedIsUnverified
<1>2. TypeOK /\ SlotsAim /\ HolderInv /\ UnfinishedIsUnverified /\ [Next]_vars =>
          UnfinishedIsUnverified'
       /\ (\A b \in Backup : verification[b] = "verified" => verification'[b] = "verified")
  <2> SUFFICES ASSUME TypeOK, SlotsAim, HolderInv, UnfinishedIsUnverified, [Next]_vars
               PROVE  /\ UnfinishedIsUnverified'
                      /\ \A b \in Backup :
                            verification[b] = "verified" => verification'[b] = "verified"
    OBVIOUS
  <2>1. CASE UNCHANGED vars
    BY <2>1 DEF UnfinishedIsUnverified, Unfinished, Queued, Creating
  <2>2. ASSUME NEW r \in Request, SlotNext(r)  PROVE verification' = verification
    BY <2>2 DEF SlotNext, queueManualBackup, queueAutomaticBackup, getDueAutomaticBackup,
        automaticActiveCheck, createBackupJob, markAutomaticQueued, enqueueBackup, deleteBackup,
        enforceRetention, removeFile, markDeleted, rejectQuery
  <2>3. ASSUME \/ processBackupQueue \/ processRestoreQueue
               \/ updateSettings \/ comeDue \/ nextDay \/ crash
        PROVE  verification' = verification
    BY <2>3 DEF processBackupQueue, processRestoreQueue, updateSettings, comeDue, nextDay, crash
  <2>4. CASE Next
    BY <2>2, <2>3, <2>4, UnfinishedSlot, UnfinishedJob, UnfinishedShared DEF Next
  <2> QED BY <2>1, <2>4
<1> QED BY <1>1, <1>2, TypeCorrect, HoldersAreUnique, PTL DEF Spec, VerifiedStaysVerified

(***************************************************************************)
(* VerifiedIsStored, without crashes and rejected queries.  A job checks    *)
(* its archive before it completes the row.  From then on the file is lost  *)
(* only to an upload under the same name, which leaves the archive of the   *)
(* other job there, or to the removal of a backup whose file has that name, *)
(* which goes on to mark the row of that backup.                            *)
(***************************************************************************)
HasFile(b) ==
    \/ status[b] \in {"completed", "restoring"}
    \/ restore[b] \in {"download", "settle", "fail"}

\* The file of b holds the archive of c, or was removed with backup c.
SavedBy(b, c) ==
    /\ archive[c] = archive[b]
    /\ \/ files[archive[b]] = c
       \/ c \in filePath /\ (Removing(c) \/ c \in deletedAt)

Saved(b) == \E c \in Backup : SavedBy(b, c)

StoredInv ==
    /\ \A b \in Backup : Unfinished(b) => b \notin filePath
    /\ \A b \in Backup : Unnamed(b) => archive[b] = None
    /\ \A b \in Backup :
          job[b] \in {"dump", "verify", "complete"} \/ b \in filePath => archive[b] \in Backup
    /\ \A b \in Backup : HasFile(b) => b \in filePath
    /\ \A r \in Request : pc[r] = "removeFile" => cur[r] \in filePath
    /\ \A r \in Request : todo[r] \subseteq filePath
    /\ \A b \in Backup : job[b] = "complete" \/ b \in filePath => Saved(b)

\* What keeps a file saved: nobody writes under its name, and the removal that
\* took it is not given up.
LEMMA SavedStays ==
    ASSUME NEW b \in Backup, NEW c \in Backup, SavedBy(b, c),
           archive'[b] = archive[b], archive'[c] = archive[c], filePath \subseteq filePath',
           Removing(c) \/ c \in deletedAt => Removing(c)' \/ c \in deletedAt',
           files'[archive[b]] = files[archive[b]]
    PROVE  Saved(b)'
BY DEF Saved, SavedBy

\* A handler or tick keeps it: a removal aims at a backup with a file, and
\* goes on to mark the row of the archive it removed.
LEMMA StoredSlot ==
    ASSUME ~ Faults, TypeOK, SlotsAim, StoredInv, NEW r \in Request, SlotNext(r)
    PROVE  StoredInv'
<1> USE DEF TypeOK
<1>1. filePath' = filePath /\ restore' = restore /\ job' = job /\ archive' = archive
  BY DEF SlotNext, queueManualBackup, queueAutomaticBackup, getDueAutomaticBackup,
        automaticActiveCheck, createBackupJob, markAutomaticQueued, enqueueBackup, deleteBackup,
        enforceRetention, removeFile, markDeleted, rejectQuery
<1>2. \A b \in Backup : /\ Unfinished(b)' => b \notin filePath'
                        /\ Unnamed(b)' => archive'[b] = None
  BY <1>1, SlotUnfinished DEF StoredInv
<1>3. \A b \in Backup :
         job'[b] \in {"dump", "verify", "complete"} \/ b \in filePath' => archive'[b] \in Backup
  BY <1>1 DEF StoredInv
<1>4. \A b \in Backup : HasFile(b)' => b \in filePath'
  <2>1. \A b \in Backup : status'[b] = status[b] \/ status'[b] \in {"pending", "deleted"}
    <3>1. CASE markDeleted(r)  BY <3>1 DEF markDeleted, SlotsAim
    <3>2. CASE ~ markDeleted(r)
      BY <3>2 DEF SlotNext, queueManualBackup, queueAutomaticBackup, getDueAutomaticBackup,
        automaticActiveCheck, createBackupJob, markAutomaticQueued, enqueueBackup, deleteBackup,
        enforceRetention, removeFile, rejectQuery
    <3> QED BY <3>1, <3>2
  <2> QED BY <1>1, <2>1 DEF HasFile, StoredInv
<1>5. /\ \A s \in Request : pc'[s] = "removeFile" => cur'[s] \in filePath'
      /\ \A s \in Request : todo'[s] \subseteq filePath'
  <2> USE DEF StoredInv
  <2>1. \A s \in Request : s # r => pc'[s] = pc[s] /\ cur'[s] = cur[s] /\ todo'[s] = todo[s]
    BY DEF SlotNext, queueManualBackup, queueAutomaticBackup, getDueAutomaticBackup,
        automaticActiveCheck, createBackupJob, markAutomaticQueued, enqueueBackup, deleteBackup,
        enforceRetention, removeFile, markDeleted, rejectQuery
  <2>2. /\ pc'[r] = "removeFile" => cur'[r] \in filePath
        /\ todo'[r] \subseteq filePath
    <3>1. ASSUME NEW b \in Backup, deleteBackup(r, b)
          PROVE  /\ pc'[r] = "removeFile" => cur'[r] \in filePath
                 /\ todo'[r] \subseteq filePath
      BY <3>1 DEF deleteBackup, removalStep
    <3>2. CASE enforceRetention(r)
      <4>1. expiredBackups \subseteq filePath
        BY DEF expiredBackups, HasFile
      <4>2. PICK b \in expiredBackups : /\ pc'[r] = removalStep(b) /\ cur'[r] = b
                                        /\ todo'[r] = expiredBackups \ {b}
        BY <3>2 DEF enforceRetention
      <4> QED BY <4>1, <4>2
    <3>3. CASE markDeleted(r)
      <4>1. ASSUME NEW b \in todo[r], cur' = [cur EXCEPT ![r] = b],
                   todo' = [todo EXCEPT ![r] = @ \ {b}]
            PROVE  /\ pc'[r] = "removeFile" => cur'[r] \in filePath
                   /\ todo'[r] \subseteq filePath
        BY <4>1
      <4> QED BY <3>3, <4>1 DEF markDeleted
    <3>4. CASE ~ markDeleted(r) /\ ~ enforceRetention(r) /\ ~ (\E b \in Backup : deleteBackup(r, b))
      BY <3>4 DEF SlotNext, queueManualBackup, queueAutomaticBackup, getDueAutomaticBackup,
        automaticActiveCheck, createBackupJob, markAutomaticQueued, enqueueBackup,
        removeFile, rejectQuery
    <3> QED BY <3>1, <3>2, <3>3, <3>4
  <2> QED BY <1>1, <2>1, <2>2
<1>6. \A b \in Backup : job'[b] = "complete" \/ b \in filePath' => Saved(b)'
  <2> SUFFICES ASSUME NEW b \in Backup, job[b] = "complete" \/ b \in filePath
               PROVE  Saved(b)'
    BY <1>1
  <2>1. PICK c \in Backup : SavedBy(b, c)
    BY DEF StoredInv, Saved
  <2>2. CASE removeFile(r)
    <3> DEFINE d == cur[r]
    <3>1. d \in Backup /\ d \in filePath /\ Removing(d)
      BY <2>2 DEF removeFile, SlotsAim, StoredInv, Removing
    <3>2. /\ files' = [files EXCEPT ![archive[d]] = None]
          /\ pc' = [pc EXCEPT ![r] = "markDeleted"] /\ cur' = cur /\ deletedAt' = deletedAt
      BY <2>2 DEF removeFile, deleteFile
    <3>3. \A e \in Backup : Removing(e) => Removing(e)'
      BY <2>2, <3>2 DEF Removing
    <3>4. CASE archive[d] = archive[b]
      BY <1>1, <3>1, <3>3, <3>4 DEF Saved, SavedBy
    <3>5. CASE archive[d] # archive[b]
      <4>1. archive[b] \in Backup
        BY DEF StoredInv
      <4>2. files'[archive[b]] = files[archive[b]]
        BY <3>2, <3>5, <4>1
      <4> QED BY <1>1, <2>1, <3>2, <3>3, <4>2, SavedStays
    <3> QED BY <3>4, <3>5
  <2>3. CASE markDeleted(r)
    <3>1. /\ files' = files /\ deletedAt' = deletedAt \cup {cur[r]}
          /\ \A s \in Request : s # r => pc'[s] = pc[s] /\ cur'[s] = cur[s]
      BY <2>3 DEF markDeleted
    <3>2. \A e \in Backup : Removing(e) /\ e # cur[r] => Removing(e)'
      BY <3>1 DEF Removing
    <3> QED BY <1>1, <2>1, <3>1, <3>2, SavedStays
  <2>4. CASE ~ removeFile(r) /\ ~ markDeleted(r)
    <3>1. /\ files' = files /\ deletedAt' = deletedAt
          /\ \A s \in Request : s # r => pc'[s] = pc[s] /\ cur'[s] = cur[s]
          /\ pc[r] \notin {"removeFile", "markDeleted"}
      BY <2>4 DEF SlotNext, queueManualBackup, queueAutomaticBackup, getDueAutomaticBackup,
        automaticActiveCheck, createBackupJob, markAutomaticQueued, enqueueBackup, deleteBackup,
        enforceRetention, rejectQuery
    <3>2. \A e \in Backup : Removing(e) => Removing(e)'
      BY <3>1 DEF Removing
    <3> QED BY <1>1, <2>1, <3>1, <3>2, SavedStays
  <2> QED BY <2>2, <2>3, <2>4
<1> QED BY <1>2, <1>3, <1>4, <1>5, <1>6 DEF StoredInv

\* A job names its archive once, after the last step at which it has none, and
\* by the name of a job that has one or by one of its own.
LEMMA StoredNames ==
    ASSUME ~ Faults, TypeOK, HolderInv, StoredInv, NEW b \in Backup,
           BackupNext(b) \/ RestoreNext(b) \/ queueRestore(b)
    PROVE  /\ \A c \in Backup : Unnamed(c)' => archive'[c] = None
           /\ \A c \in Backup : job'[c] \in {"dump", "verify", "complete"} \/ c \in filePath' =>
                 archive'[c] \in Backup
           /\ \A c \in Backup :
                 archive'[c] = archive[c] \/ (c = b /\ job'[b] = "dump" /\ archive[b] = None)
<1> USE DEF TypeOK
<1>1. CASE acquireBackupJob(b) /\ job'[b] = "dump"
  <2>1. PICK n \in {b} \cup {archive[c] : c \in {d \in Backup : job[d] = "dump"}} :
           archive' = [archive EXCEPT ![b] = n]
    BY <1>1 DEF acquireBackupJob, finishBackup
  <2>2. n \in Backup
    BY DEF StoredInv
  <2>3. /\ job[b] = "acquire" /\ status'[b] = "running" /\ filePath' = filePath
        /\ backupQueue' = backupQueue /\ pc' = pc /\ cur' = cur
        /\ \A c \in Backup : c # b => job'[c] = job[c]
    BY <1>1 DEF acquireBackupJob, finishBackup
  <2>4. archive[b] = None /\ ~ Queued(b) /\ \A r \in Request : ~ Creating(r, b)
    BY <2>3 DEF StoredInv, Unnamed, HolderInv, OneHolder
  <2>5. ~ Unnamed(b)'
    BY <1>1, <2>3, <2>4 DEF Unnamed, Queued, Creating
  <2>6. \A c \in Backup : Unnamed(c)' => archive'[c] = None
    BY <2>1, <2>5, JobUnfinished DEF StoredInv
  <2> QED BY <1>1, <2>1, <2>2, <2>3, <2>4, <2>6 DEF StoredInv
<1>2. CASE ~ (acquireBackupJob(b) /\ job'[b] = "dump")
  <2>1. archive' = archive
    BY <1>2 DEF BackupNext, acquireBackupJob, createBackupArchive, completeBackup,
      verifyArchive, rejectCompletion, markSettingsBackupCompleted, failBackup, endBackup,
      RestoreNext, acquireRestoreJob, replayArchive, completeRestore,
      failRestore, endRestore, queueRestore
  <2>2. \A c \in Backup : job'[c] \in {"dump", "verify", "complete"} \/ c \in filePath' =>
           job[c] \in {"dump", "verify", "complete"} \/ c \in filePath
    <3>1. CASE acquireBackupJob(b)
      BY <1>2, <3>1 DEF acquireBackupJob, finishBackup
    <3>2. CASE ~ acquireBackupJob(b)
      BY <3>2 DEF BackupNext, createBackupArchive, completeBackup,
        verifyArchive, rejectCompletion, markSettingsBackupCompleted, failBackup, endBackup,
        finishBackup, RestoreNext, acquireRestoreJob, replayArchive, completeRestore,
        failRestore, endRestore, queueRestore
    <3> QED BY <3>1, <3>2
  <2> QED BY <2>1, <2>2, JobUnfinished DEF StoredInv
<1> QED BY <1>1, <1>2

\* A job or restore keeps it: a job completes its backup when it has found its
\* archive, and a restore ends where it began, at a completed backup.
LEMMA StoredJob ==
    ASSUME ~ Faults, TypeOK, HolderInv, StoredInv, NEW b \in Backup,
           BackupNext(b) \/ RestoreNext(b) \/ queueRestore(b)
    PROVE  StoredInv'
<1> USE DEF TypeOK
<1>1. /\ backupQueue' = backupQueue /\ pc' = pc /\ cur' = cur /\ todo' = todo
      /\ deletedAt' = deletedAt
  BY DEF BackupNext, acquireBackupJob, createBackupArchive, completeBackup,
      verifyArchive, rejectCompletion, markSettingsBackupCompleted, failBackup, endBackup, finishBackup,
      RestoreNext, acquireRestoreJob, replayArchive, completeRestore,
      failRestore, endRestore, finishRestore, queueRestore
<1>2. \A c \in Backup : Removing(c)' <=> Removing(c)
  BY <1>1 DEF Removing
<1>3. filePath' = filePath \/ completeBackup(b)
  BY DEF BackupNext, acquireBackupJob, createBackupArchive,
      verifyArchive, rejectCompletion, markSettingsBackupCompleted, failBackup, endBackup,
      RestoreNext, acquireRestoreJob, replayArchive, completeRestore, failRestore, endRestore, queueRestore
<1>4. completeBackup(b) => /\ filePath' = filePath \cup {b} /\ job[b] = "complete"
                           /\ ~ Unfinished(b)'
  <2> SUFFICES ASSUME completeBackup(b)
               PROVE  filePath' = filePath \cup {b} /\ job[b] = "complete" /\ ~ Unfinished(b)'
    OBVIOUS
  <2>1. job[b] = "complete" /\ job'[b] = "settings" /\ status'[b] = "completed"
    BY DEF completeBackup
  <2>2. ~ Queued(b) /\ \A r \in Request : ~ Creating(r, b)
    BY <2>1 DEF HolderInv, OneHolder
  <2>3. ~ Queued(b)' /\ \A r \in Request : ~ Creating(r, b)'
    BY <1>1, <2>2 DEF Queued, Creating
  <2> QED BY <2>1, <2>3 DEF completeBackup, Unfinished
<1>5. \A c \in Backup : Unfinished(c)' => c \notin filePath'
  BY <1>3, <1>4, JobUnfinished DEF StoredInv
<1>6. \A c \in Backup : job'[c] = "complete" \/ c \in filePath' => Saved(c)'
  <2> SUFFICES ASSUME NEW c \in Backup, job'[c] = "complete" \/ c \in filePath'
               PROVE  Saved(c)'
    OBVIOUS
  <2>1. CASE createBackupArchive(b)
    <3>1. /\ archive' = archive /\ filePath' = filePath
          /\ job[c] = "complete" \/ c \in filePath
      BY <2>1 DEF createBackupArchive
    <3>2. PICK w \in Backup : SavedBy(c, w)
      BY <3>1 DEF StoredInv, Saved
    <3>3. \/ files' = [files EXCEPT ![archive[b]] = b]
          \/ files' = files
      BY <2>1 DEF createBackupArchive
    <3>4. archive[b] \in Backup
      BY <2>1 DEF createBackupArchive, StoredInv
    <3>5. CASE archive[c] = archive[b] /\ files' = [files EXCEPT ![archive[b]] = b]
      BY <3>1, <3>4, <3>5 DEF Saved, SavedBy
    <3>6. CASE ~ (archive[c] = archive[b] /\ files' = [files EXCEPT ![archive[b]] = b])
      <4>1. archive[c] \in Backup
        BY <3>1 DEF StoredInv
      <4>2. CASE files' = files
        BY <1>1, <1>2, <3>1, <3>2, <4>2, SavedStays
      <4>3. CASE files' = [files EXCEPT ![archive[b]] = b] /\ archive[c] # archive[b]
        <5>1. files'[archive[c]] = files[archive[c]]
          BY <4>1, <4>3
        <5> QED BY <1>1, <1>2, <3>1, <3>2, <5>1, SavedStays
      <4> QED BY <3>3, <3>6, <4>2, <4>3
    <3> QED BY <3>5, <3>6
  <2>2. CASE verifyArchive(b) /\ c = b /\ job'[b] = "complete"
    <3>1. files[archive[b]] = b /\ files' = files /\ archive' = archive
      BY <2>2 DEF verifyArchive
    <3> QED BY <2>2, <3>1 DEF Saved, SavedBy
  <2>3. CASE ~ createBackupArchive(b) /\ ~ (verifyArchive(b) /\ c = b /\ job'[b] = "complete")
    <3>1. files' = files
      BY <2>3 DEF BackupNext, acquireBackupJob, completeBackup,
        verifyArchive, rejectCompletion, markSettingsBackupCompleted, failBackup, endBackup,
        RestoreNext, acquireRestoreJob, replayArchive, completeRestore,
        failRestore, endRestore, queueRestore
    <3>2. job[c] = "complete" \/ c \in filePath
      BY <2>3, <1>3, <1>4 DEF BackupNext, acquireBackupJob, completeBackup,
        verifyArchive, rejectCompletion, markSettingsBackupCompleted, failBackup, endBackup,
        finishBackup, RestoreNext, acquireRestoreJob, replayArchive, completeRestore,
        failRestore, endRestore, queueRestore
    <3>3. PICK w \in Backup : SavedBy(c, w)
      BY <3>2 DEF StoredInv, Saved
    <3>4. archive[c] \in Backup /\ archive[w] = archive[c]
      BY <3>2, <3>3 DEF StoredInv, SavedBy
    <3>5. archive'[c] = archive[c] /\ archive'[w] = archive[w]
      BY <3>4, StoredNames
    <3>6. filePath \subseteq filePath'
      BY <1>3, <1>4
    <3> QED BY <1>1, <1>2, <3>1, <3>3, <3>5, <3>6, SavedStays
  <2> QED BY <2>1, <2>2, <2>3
<1>7. \A c \in Backup : HasFile(c)' => c \in filePath'
  <2> USE DEF HasFile, StoredInv
  <2>1. \A c \in Backup : c # b => status'[c] = status[c] /\ restore'[c] = restore[c]
    BY DEF BackupNext, acquireBackupJob, createBackupArchive, completeBackup,
      verifyArchive, rejectCompletion, markSettingsBackupCompleted, failBackup, endBackup, finishBackup,
      RestoreNext, acquireRestoreJob, replayArchive, completeRestore,
      failRestore, endRestore, finishRestore, queueRestore
  <2>2. filePath \subseteq filePath'
    BY <1>3, <1>4
  <2>3. CASE completeBackup(b)
    BY <1>4, <2>1, <2>2, <2>3
  <2>4. CASE BackupNext(b) /\ ~ completeBackup(b)
    BY <2>1, <2>2, <2>4 DEF BackupNext, acquireBackupJob, createBackupArchive,
      verifyArchive, rejectCompletion, markSettingsBackupCompleted, failBackup, endBackup
  <2>5. CASE acquireRestoreJob(b)
    BY <2>1, <2>2, <2>5 DEF acquireRestoreJob, finishRestore
  <2>6. CASE restore[b] \in {"download", "settle", "fail"}
    BY <2>1, <2>2, <2>6
  <2>7. CASE queueRestore(b)
    BY <2>2, <2>7 DEF queueRestore
  <2>8. CASE endRestore(b)
    BY <2>1, <2>2, <2>8 DEF endRestore, finishRestore
  <2> QED BY <2>3, <2>4, <2>5, <2>6, <2>7, <2>8 DEF RestoreNext, replayArchive, completeRestore, failRestore
<1>8. /\ \A r \in Request : pc'[r] = "removeFile" => cur'[r] \in filePath'
      /\ \A r \in Request : todo'[r] \subseteq filePath'
  BY <1>1, <1>3, <1>4 DEF StoredInv
<1> QED BY <1>5, <1>6, <1>7, <1>8, StoredNames DEF StoredInv

\* While the process does not die and its queries are answered, whatever is
\* shown as completed and verified has its archive in storage or its removal
\* under way, but for what a job named in the same millisecond did to their
\* file: through removals, retention ticks and restores at any moment.
THEOREM VerifiedHaveArchives ==
    ASSUME MaxCrashes = 0, ~ Faults
    PROVE  Spec => []VerifiedIsStored
<1>1. Init => StoredInv
  BY DEF Init, StoredInv, HasFile
<1>2. TypeOK /\ SlotsAim /\ HolderInv /\ StoredInv /\ [Next]_vars => StoredInv'
  <2> SUFFICES ASSUME TypeOK, SlotsAim, HolderInv, StoredInv, [Next]_vars  PROVE StoredInv'
    OBVIOUS
  <2>1. CASE processBackupQueue \/ processRestoreQueue
    <3>1. /\ UNCHANGED <<rowVars, storeVars, slotVars>>
          /\ \A c \in Backup : /\ job'[c] \in {job[c], "acquire"}
                                /\ restore'[c] \in {restore[c], "acquire"}
      BY <2>1, HeadAndTail DEF processBackupQueue, processRestoreQueue, TypeOK
    <3>2. \A c \in Backup : /\ Unfinished(c)' => Unfinished(c)
                            /\ Unnamed(c)' => Unnamed(c)
      BY <2>1, SharedUnfinished
    <3> QED BY <3>1, <3>2 DEF StoredInv, HasFile, Removing, Saved, SavedBy
  <2>2. CASE updateSettings \/ comeDue \/ nextDay \/ UNCHANGED vars
    <3>1. UNCHANGED <<rowVars, storeVars, slotVars, job, restore, backupQueue>>
      BY <2>2 DEF updateSettings, comeDue, nextDay
    <3> QED BY <3>1 DEF StoredInv, HasFile, Removing, Unfinished, Unnamed, Queued, Creating, Saved, SavedBy
  <2>3. ~ crash
    BY DEF crash, TypeOK
  <2> QED BY <2>1, <2>2, <2>3, StoredSlot, StoredJob DEF Next
<1>3. TypeOK /\ StoredInv => VerifiedIsStored
  <2> SUFFICES ASSUME TypeOK, StoredInv, NEW b \in Backup, status[b] = "completed"
               PROVE  \E c \in Namesakes(b) :
                         \/ files[archive[b]] = c
                         \/ c \in filePath /\ (Removing(c) \/ c \in deletedAt)
    BY DEF VerifiedIsStored
  <2>1. Saved(b)
    BY DEF StoredInv, HasFile
  <2> QED BY <2>1 DEF Saved, SavedBy, Namesakes
<1> QED BY <1>1, <1>2, <1>3, TypeCorrect, HoldersAreUnique, PTL DEF Spec

(***************************************************************************)
(* OneAutomaticPerDay, when a tick of the scheduler ends before the next    *)
(* begins.  What a tick saw at its first query still holds at its insert:   *)
(* there is no automatic backup of the day that is not deleted, because     *)
(* only ticks create one, and none is of a day to come.                     *)
(***************************************************************************)
TickInv ==
    /\ \A b \in Backup : status[b] = "deleted" => b \in deletedAt
    /\ \A b \in Backup : createdOn[b] <= day
    /\ \A b \in automatic : status[b] # "absent"
    /\ \A r, s \in Request : inTick(r) /\ inTick(s) => r = s
    /\ \A r \in Request : pc[r] \in {"activeCheck", "insertAutomatic"} =>
          \A b \in automatic : createdOn[b] = day => b \in deletedAt
    /\ OneAutomaticPerDay

\* What a step may do to the ticks, if it creates no backup and begins no tick.
LEMMA SameTicks ==
    ASSUME TickInv,
           createdOn' = createdOn, automatic' = automatic, day' = day,
           deletedAt \subseteq deletedAt',
           \A b \in Backup : status'[b] = "deleted" => status[b] = "deleted" \/ b \in deletedAt',
           \A b \in Backup : status'[b] = "absent" => status[b] = "absent",
           automatic \subseteq Backup,
           \A r \in Request : inTick(r)' => inTick(r),
           \A r \in Request : pc'[r] \in {"activeCheck", "insertAutomatic"} =>
              \/ pc[r] \in {"activeCheck", "insertAutomatic"}
              \/ \A b \in automatic : createdOn[b] = day => b \in deletedAt
    PROVE  TickInv'
BY DEF TickInv, OneAutomaticPerDay

\* A handler or tick keeps it.
LEMMA TickSlot ==
    ASSUME ~ TickOverlap, TypeOK, SlotsAim, HolderInv, TickInv, NEW r \in Request, SlotNext(r)
    PROVE  TickInv'
<1> USE DEF TypeOK
<1>1. CASE createBackupJob(r)
  <2>1. PICK b \in Backup :
           /\ status[b] = "absent"
           /\ status' = [status EXCEPT ![b] = "pending"]
           /\ createdOn' = [createdOn EXCEPT ![b] = day]
           /\ automatic' = IF pc[r] = "insertAutomatic" THEN automatic \cup {b} ELSE automatic
           /\ cur' = [cur EXCEPT ![r] = b]
    BY <1>1 DEF createBackupJob
  <2>2. /\ pc[r] \in {"insertManual", "insertAutomatic"}
        /\ pc' = [pc EXCEPT ![r] = IF pc[r] = "insertAutomatic" THEN "markQueued" ELSE "enqueue"]
        /\ deletedAt' = deletedAt /\ day' = day
    BY <1>1 DEF createBackupJob
  <2>3. b \notin automatic
    BY <2>1 DEF TickInv
  <2>4. \A s \in Request : s # r => pc'[s] = pc[s] /\ cur'[s] = cur[s]
    BY <2>1, <2>2
  <2>5. \A s \in Request : ~ Creating(s, b)
    BY <2>1 DEF HolderInv, AbsentIsFree
  <2>6. \A s \in Request : s # r => (inTick(s)' <=> inTick(s))
    BY <2>1, <2>4, <2>5 DEF inTick, Creating
  <2>7. inTick(r)' => pc[r] = "insertAutomatic"
    BY <2>1, <2>2, <2>3 DEF inTick
  <2>8. \A s, t \in Request : inTick(s)' /\ inTick(t)' => s = t
    BY <2>6, <2>7 DEF TickInv, inTick
  <2>9. pc[r] = "insertAutomatic" => \A c \in automatic : createdOn[c] = day => c \in deletedAt
    BY DEF TickInv
  <2>10. \A c \in Backup : c # b => createdOn'[c] = createdOn[c]
    BY <2>1
  <2>11. \A s \in Request : pc'[s] \in {"activeCheck", "insertAutomatic"} =>
            \A c \in automatic' : createdOn'[c] = day' => c \in deletedAt'
    <3> SUFFICES ASSUME NEW s \in Request, pc'[s] \in {"activeCheck", "insertAutomatic"}
                 PROVE  \A c \in automatic' : createdOn'[c] = day' => c \in deletedAt'
      OBVIOUS
    <3>1. s # r /\ pc[s] \in {"activeCheck", "insertAutomatic"}
      BY <2>2, <2>4
    <3>2. pc[r] # "insertAutomatic"
      BY <3>1 DEF TickInv, inTick
    <3> QED BY <2>1, <2>2, <2>3, <2>10, <3>1, <3>2 DEF TickInv
  <2>12. OneAutomaticPerDay'
    BY <2>1, <2>2, <2>3, <2>9, <2>10 DEF TickInv, OneAutomaticPerDay
  <2>13. /\ \A c \in Backup : status'[c] = "deleted" => c \in deletedAt'
         /\ \A c \in Backup : createdOn'[c] <= day'
         /\ \A c \in automatic' : status'[c] # "absent"
    BY <2>1, <2>2 DEF TickInv
  <2> QED BY <2>8, <2>11, <2>12, <2>13 DEF TickInv
<1>2. CASE queueAutomaticBackup(r)
  <2>1. \A s \in Request : ~ inTick(s)
    BY <1>2 DEF queueAutomaticBackup
  <2>2. /\ pc' = [pc EXCEPT ![r] = "dueCheck"] /\ cur' = cur /\ automatic' = automatic
        /\ UNCHANGED <<status, createdOn, deletedAt, day>>
    BY <1>2 DEF queueAutomaticBackup
  <2>3. \A s \in Request : s # r => ~ inTick(s)'
    BY <2>1, <2>2 DEF inTick
  <2> QED BY <2>2, <2>3 DEF TickInv, OneAutomaticPerDay
<1>3. CASE ~ createBackupJob(r) /\ ~ queueAutomaticBackup(r)
  <2>1. /\ createdOn' = createdOn /\ automatic' = automatic /\ day' = day
        /\ deletedAt \subseteq deletedAt'
    BY <1>3 DEF SlotNext, queueManualBackup, getDueAutomaticBackup,
        automaticActiveCheck, markAutomaticQueued, enqueueBackup, deleteBackup,
        enforceRetention, removeFile, markDeleted, rejectQuery
  <2>2. \A b \in Backup :
           \/ status'[b] = status[b]
           \/ status'[b] = "deleted" /\ b \in deletedAt'
    <3>1. CASE markDeleted(r)  BY <3>1 DEF markDeleted, SlotsAim
    <3>2. CASE ~ markDeleted(r)
      BY <1>3, <3>2 DEF SlotNext, queueManualBackup, getDueAutomaticBackup,
        automaticActiveCheck, markAutomaticQueued, enqueueBackup, deleteBackup,
        enforceRetention, removeFile, rejectQuery
    <3> QED BY <3>1, <3>2
  <2>3. \A s \in Request : s # r => pc'[s] = pc[s] /\ cur'[s] = cur[s]
    BY <1>3 DEF SlotNext, queueManualBackup, getDueAutomaticBackup,
        automaticActiveCheck, markAutomaticQueued, enqueueBackup, deleteBackup,
        enforceRetention, removeFile, markDeleted, rejectQuery
  <2>4. inTick(r)' => inTick(r)
    BY <1>3, <2>1 DEF inTick, removalStep, SlotNext, queueManualBackup, getDueAutomaticBackup,
        automaticActiveCheck, markAutomaticQueued, enqueueBackup, deleteBackup,
        enforceRetention, removeFile, markDeleted, rejectQuery
  <2>5. pc'[r] \in {"activeCheck", "insertAutomatic"} =>
           \/ pc[r] = "activeCheck"
           \/ \A b \in automatic : createdOn[b] = day => b \in deletedAt
    <3>1. CASE getDueAutomaticBackup(r)
      BY <3>1 DEF getDueAutomaticBackup, queuedToday, TickInv
    <3>2. CASE ~ getDueAutomaticBackup(r)
      BY <1>3, <3>2 DEF SlotNext, queueManualBackup, automaticActiveCheck, markAutomaticQueued,
        enqueueBackup, deleteBackup, enforceRetention, removalStep, removeFile, markDeleted,
        rejectQuery
    <3> QED BY <3>1, <3>2
  <2>6. \A s \in Request : inTick(s)' => inTick(s)
    BY <2>1, <2>3, <2>4 DEF inTick
  <2> QED BY <2>1, <2>2, <2>3, <2>5, <2>6, SameTicks
<1> QED BY <1>1, <1>2, <1>3

\* The scheduler leaves at most one automatic backup of a day that is not
\* deleted, whatever runs, fails, is deleted or dies meanwhile, and if the day
\* changes between its queries: a tick only has to end before the next begins.
THEOREM OneAutomaticBackup ==
    ASSUME ~ TickOverlap
    PROVE  Spec => []OneAutomaticPerDay
<1>1. Init => TickInv
  BY DEF Init, TickInv, inTick, OneAutomaticPerDay
<1>2. TypeOK /\ SlotsAim /\ HolderInv /\ TickInv /\ [Next]_vars => TickInv'
  <2> SUFFICES ASSUME TypeOK, SlotsAim, HolderInv, TickInv, [Next]_vars  PROVE TickInv'
    OBVIOUS
  <2> USE DEF TypeOK
  <2>1. ASSUME NEW b \in Backup, BackupNext(b) \/ RestoreNext(b) \/ queueRestore(b)
        PROVE  TickInv'
    <3>1. /\ createdOn' = createdOn /\ automatic' = automatic /\ day' = day
          /\ deletedAt' = deletedAt /\ pc' = pc /\ cur' = cur
          /\ \A c \in Backup : status'[c] \in {"absent", "deleted"} => status'[c] = status[c]
      BY <2>1 DEF BackupNext, acquireBackupJob, createBackupArchive, completeBackup,
        verifyArchive, rejectCompletion, markSettingsBackupCompleted, failBackup, endBackup, finishBackup,
        RestoreNext, acquireRestoreJob, replayArchive, completeRestore,
        failRestore, endRestore, finishRestore, queueRestore
    <3> QED BY <3>1, SameTicks DEF inTick
  <2>2. CASE processBackupQueue \/ processRestoreQueue \/ updateSettings \/ comeDue
             \/ UNCHANGED vars
    <3>1. UNCHANGED <<rowVars, slotVars, day>>
      BY <2>2 DEF processBackupQueue, processRestoreQueue, updateSettings, comeDue
    <3> QED BY <3>1, SameTicks DEF inTick
  <2>3. CASE nextDay
    <3>1. /\ UNCHANGED <<rowVars, slotVars>> /\ day' = day + 1
          /\ \A b \in Backup : createdOn[b] \in Nat /\ createdOn[b] <= day
      BY <2>3 DEF nextDay, TickInv
    <3>2. \A b \in Backup : createdOn[b] # day' /\ createdOn[b] <= day'
      BY <3>1
    <3>3. automatic \subseteq Backup /\ \A r \in Request : inTick(r)' <=> inTick(r)
      BY <3>1 DEF inTick
    <3> QED BY <3>1, <3>2, <3>3 DEF TickInv, OneAutomaticPerDay
  <2>4. CASE crash
    <3>1. UNCHANGED <<rowVars, day>> /\ \A r \in Request : pc'[r] = "idle"
      BY <2>4 DEF crash
    <3> QED BY <3>1, SameTicks DEF inTick
  <2> QED BY <2>1, <2>2, <2>3, <2>4, TickSlot DEF Next
<1>3. TickInv => OneAutomaticPerDay  BY DEF TickInv
<1> QED BY <1>1, <1>2, <1>3, TypeCorrect, HoldersAreUnique, PTL DEF Spec
=============================================================================
