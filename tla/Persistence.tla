---------------------------- MODULE Persistence ----------------------------
(***************************************************************************)
(* A JSON collection with its copy in Postgres: every write replaces the   *)
(* file and queues a snapshot of it, which is copied record by record to   *)
(* table operational_records; a start of the server merges the table into  *)
(* the file. The disk may come back empty after a stop. The collection is  *)
(* that of the employees: the server also makes a profile for every        *)
(* account that has none, at a start as well.                              *)
(***************************************************************************)
EXTENDS Naturals, Sequences

CONSTANTS
    Record,      \* ids of the collection
    Profile,     \* those that belong to accounts
    MaxClock, MaxEdits, MaxQueue, MaxFaults, MaxStops   \* bounds

ASSUME PersistenceAssumption ==
    /\ Profile \subseteq Record
    /\ {MaxClock, MaxEdits, MaxQueue, MaxFaults, MaxStops} \subseteq Nat

VARIABLES
    clock,     \* Date.now(), which never goes back
    edits,     \* how many changes of content were made
    file,      \* the records of the file
    torn,      \* the file ends in the middle
    table,     \* the rows of the collection in operational_records
    queue,     \* snapshots waiting in persistTail, the one being copied first
    done,      \* records of that one already copied, or given up
    rows,      \* what loadCollectionsFromPostgres() has read
    phase,     \* how far start() is
    accounts,  \* profiles that the row of their account in Postgres names
    faults, stops   \* queries rejected, stops of the process

vars == <<clock, edits, file, torn, table, queue, done, rows, phase, accounts, faults, stops>>

\* A record as its updatedAt and the last edit its content has; 0 and 0 when
\* there is none. A profile made by the server itself has no edit.
Version == [edit : Nat, at : Nat]
Collection == [Record -> Version]
Nothing == [r \in Record |-> [edit |-> 0, at |-> 0]]
present(f) == {r \in Record : f[r].at > 0}
Snapshot == {f \in Collection : present(f) # {}}

Phase == {"down", "starting", "loaded", "merged", "up"}

TypeOK ==
    /\ clock \in Nat /\ edits \in Nat /\ faults \in Nat /\ stops \in Nat
    /\ file \in Collection /\ table \in Collection /\ rows \in Collection
    /\ torn \in BOOLEAN /\ phase \in Phase /\ accounts \subseteq Profile
    /\ queue \in Seq(Snapshot)
    /\ IF queue = <<>> THEN done = {} ELSE done \in (SUBSET present(Head(queue))) \ {present(Head(queue))}

Init ==
    /\ clock = 1 /\ edits = 0 /\ faults = 0 /\ stops = 0
    /\ file = Nothing /\ table = Nothing /\ rows = Nothing
    /\ torn = FALSE /\ phase = "down" /\ accounts = {}
    /\ queue = <<>> /\ done = {}

---------------------------------------------------------------------------
(* Writing and copying. *)

\* Mutant: the newest snapshot overtakes the others.
queuePersist_newest(f) == queue' = IF queue = <<>> THEN <<f>> ELSE <<Head(queue), f>> \o Tail(queue)

\* Mutant: only what changed is copied.
queuePersist_changes(f) ==
    queue' = Append(queue, [r \in Record |-> IF f[r] = file[r] THEN Nothing[r] ELSE f[r]])

queuePersist(f) == queue' = Append(queue, f)

writeCollection(f) == file' = f /\ queuePersist(f)

\* Mutant: the stamp of the request's body stands.
stamps_body(r) == 1..clock

\* Most writers renew updatedAt; some leave the one the record has.
stamps(r) == {clock} \cup ({file[r].at} \ {0})

\* Any handler that creates, changes or marks a record as deleted.
save(r) ==
    /\ phase = "up" /\ ~torn /\ Len(queue) < MaxQueue /\ edits < MaxEdits
    /\ \E at \in stamps(r) :
          writeCollection([file EXCEPT ![r] = [edit |-> edits + 1, at |-> at]])
    /\ edits' = edits + 1
    /\ UNCHANGED <<clock, torn, table, done, rows, phase, accounts, faults, stops>>

\* A profile that is found keeps its content and is stamped again; one that is
\* not is made from the account, under the id the account is linked to.
\* A profile that was deleted would not be found (employeeProfile.js), but no handler
\* writes deletedAt to a row of employees: those who leave are made inactive.
ensured(f, who) ==
    [r \in Record |-> IF r \in who THEN [edit |-> f[r].edit, at |-> clock] ELSE f[r]]

\* For a new account and for one whose profile a handler looks up.
ensureEmployeeProfile(r) ==
    /\ phase = "up" /\ ~torn /\ Len(queue) < MaxQueue
    /\ writeCollection(ensured(file, {r}))
    /\ UNCHANGED <<clock, edits, torn, table, done, rows, phase, accounts, faults, stops>>

\* By the INSERT of the account, or by an UPDATE once its profile is found or made.
linkUserToEmployeeProfile(r) ==
    /\ r \notin accounts
    /\ phase = "up" \/ (phase # "down" /\ file[r].at > 0)
    /\ accounts' = accounts \cup {r}
    /\ UNCHANGED <<clock, edits, file, torn, table, queue, done, rows, phase, faults, stops>>

copied(r) ==
    IF done \cup {r} = present(Head(queue))
    THEN queue' = Tail(queue) /\ done' = {}
    ELSE done' = done \cup {r} /\ UNCHANGED queue

\* One turn of the loop; a rejected query is logged and the next record follows.
persistRecord(r) ==
    /\ phase # "down" /\ queue # <<>>
    /\ r \in present(Head(queue)) \ done
    /\ \/ table' = [table EXCEPT ![r] = Head(queue)[r]] /\ UNCHANGED faults
       \/ faults < MaxFaults /\ faults' = faults + 1 /\ UNCHANGED table
    /\ copied(r)
    /\ UNCHANGED <<clock, edits, file, torn, rows, phase, accounts, stops>>

---------------------------------------------------------------------------
(* The start of the server, and its end. *)

exit ==
    /\ phase' = "down" /\ queue' = <<>> /\ done' = {} /\ rows' = Nothing
    /\ UNCHANGED <<clock, edits, table, accounts, faults>>

\* Every account gets a profile, those not linked yet too if it is found by their
\* email. The snapshots of one loop differ only in the profiles it has not come
\* to; the last stands for them.
ensureEmployeeProfilesForUsers ==
    \E found \in SUBSET (Profile \cap present(file)) :
        LET who == accounts \cup found
        IN  IF who = {} THEN UNCHANGED <<file, queue>> ELSE writeCollection(ensured(file, who))

\* Ends with the profiles: a file that cannot be parsed is only logged here.
syncAllUsersToSupabase ==
    /\ phase = "down" /\ phase' = "starting"
    /\ IF torn THEN UNCHANGED <<file, queue>> ELSE ensureEmployeeProfilesForUsers
    /\ UNCHANGED <<clock, edits, torn, table, done, rows, accounts, faults, stops>>

loadCollectionsFromPostgres ==
    /\ phase = "starting" /\ phase' = "loaded"
    /\ rows' = table
    /\ UNCHANGED <<clock, edits, file, torn, table, queue, done, accounts, faults, stops>>

\* Mutant: only an empty collection is restored.
merge_empty(f, g) == IF present(f) = {} THEN g ELSE f

merge(f, g) == [r \in Record |-> IF g[r].at >= f[r].at THEN g[r] ELSE f[r]]

\* Only a collection with rows is read and written, and nothing is queued.
hydrate ==
    /\ phase = "loaded"
    /\ IF torn /\ present(rows) # {}
       THEN exit /\ UNCHANGED <<file, torn, stops>>
       ELSE /\ phase' = "merged"
            /\ file' = IF torn THEN file ELSE merge(file, rows)
            /\ rows' = Nothing
            /\ UNCHANGED <<clock, edits, torn, table, queue, done, accounts, faults, stops>>

\* The profiles once more, outside a try block this time.
listen ==
    /\ phase = "merged"
    /\ IF torn /\ accounts # {}
       THEN exit /\ UNCHANGED <<file, torn, stops>>
       ELSE /\ phase' = "up"
            /\ ensureEmployeeProfilesForUsers
            /\ UNCHANGED <<clock, edits, torn, table, done, rows, accounts, faults, stops>>

\* The process ends, perhaps inside writeFileSync(): emptied first, then filled.
stop ==
    /\ phase # "down" /\ stops < MaxStops
    /\ exit
    /\ \/ UNCHANGED <<file, torn>>
       \/ file' = Nothing /\ torn' \in BOOLEAN
    /\ stops' = stops + 1

\* A new deployment starts on an empty disk.
loseDisk ==
    /\ phase = "down"
    /\ file' = Nothing /\ torn' = FALSE
    /\ UNCHANGED <<clock, edits, table, queue, done, rows, phase, accounts, faults, stops>>

tick ==
    /\ clock < MaxClock /\ clock' = clock + 1
    /\ UNCHANGED <<edits, file, torn, table, queue, done, rows, phase, accounts, faults, stops>>

Copy == \E r \in Record : persistRecord(r)

Next ==
    \/ \E r \in Record : save(r)
    \/ \E r \in Profile : ensureEmployeeProfile(r) \/ linkUserToEmployeeProfile(r)
    \/ Copy
    \/ syncAllUsersToSupabase \/ loadCollectionsFromPostgres \/ hydrate \/ listen
    \/ stop \/ loseDisk \/ tick

Spec == Init /\ [][Next]_vars

\* Queries settle, so the chain of copies goes on.
FairSpec == Spec /\ WF_vars(Copy)

---------------------------------------------------------------------------
(* Properties. *)

\* While requests are served, the file has every record the table has, in a
\* version stamped no earlier: also after a start on an empty disk.
CopyIsBehind ==
    phase = "up" /\ ~torn => \A r \in Record : table[r].at <= file[r].at

\* Snapshots are copied in the order of the writes, across restarts as well: a
\* row is never overwritten by a version stamped earlier.
CopyNeverGoesBack == [][\A r \in Record : table[r].at <= table'[r].at]_vars

\* Among all versions of a record that are around, in the file, the table, a
\* snapshot or a half-done start, one stamped later has no older content: the
\* merge, which looks at stamps only, chooses rightly unless they are equal.
\* Profiles, which the server makes and stamps itself, are excepted.
StampsOrderEdits ==
    \A r \in Record \ Profile :
        LET versions == {file[r], table[r], rows[r]} \cup {queue[i][r] : i \in 1..Len(queue)}
        IN  \A v, w \in versions : 0 < v.at /\ v.at < w.at => v.edit < w.edit

\* Unless a query fails or the process ends, one write is enough for the table to
\* get as new as the file in every record, also in those that an earlier process
\* wrote and did not copy. (As new by the stamps: with equal ones, a start may
\* leave the table with the newer content and the file with the older.)
CopiesCatchUp ==
    phase = "up" /\ queue # <<>> /\ faults = 0
        ~> (\A r \in Record : table[r].at = file[r].at) \/ phase = "down" \/ faults > 0

\* Violated: content that reached the table survives the loss of the files.
ProfilesAreKept == [][\A r \in Profile : table[r].edit <= table'[r].edit]_vars
=============================================================================
