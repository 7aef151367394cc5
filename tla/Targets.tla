------------------------------ MODULE Targets ------------------------------
(***************************************************************************)
(* Targets and the tasks that count towards them: the service              *)
(* (targets/target.service.js), the interns' portal (intern/service.js)    *)
(* and the writes of the leads' portals, which take any field. Milestones, *)
(* comments and what a measure is of are left out; overdue is found out    *)
(* when a target is written.                                               *)
(***************************************************************************)
EXTENDS Naturals, Sequences, FiniteSets

CONSTANTS Target, Employee, Task, MaxValue,
          MaxRows  \* bound: assignment rows of an employee

TargetsConstants == MaxValue \in Nat \ {0} /\ "none" \notin Target

VARIABLES
    target,      \* targets: status, value, goal, late, completedAt, source
    assignments, \* target_assignments of an employee, in the order of their rows
    task,        \* tasks of a target: none, open or completed
    edited,      \* targets whose status a lead wrote
    resumed      \* targets that were made active by hand

vars == <<target, assignments, task, edited, resumed>>

TARGET_STATUS == {"DRAFT", "ACTIVE", "PAUSED", "COMPLETED", "OVERDUE", "CANCELLED"}
Held == {"DRAFT", "PAUSED", "CANCELLED"}
noTarget == [status |-> "absent", value |-> 0, goal |-> 1, late |-> FALSE,
             completedAt |-> FALSE, fromTasks |-> FALSE]

Init ==
    /\ target = [t \in Target |-> noTarget]
    /\ assignments = [t \in Target |-> [e \in Employee |-> <<>>]]
    /\ task = [k \in Task |-> [target |-> "none", completed |-> FALSE]]
    /\ edited = {} /\ resumed = {}

found(t) == target[t].status # "absent"

\* 100 %, in the percentage that is cut at it.
reached(r) == r.value >= r.goal

resolveStatus(r) ==
    IF r.status \in Held THEN r.status
    ELSE IF reached(r) THEN "COMPLETED"
    ELSE IF r.late \/ r.status = "OVERDUE" THEN "OVERDUE" ELSE "ACTIVE"

write(t, r) == target' = [target EXCEPT ![t] = r]

\* One row each, also for who has one already.
buildAssignments(t, es) ==
    /\ \A e \in es : Len(assignments[t][e]) < MaxRows
    /\ assignments' = [assignments EXCEPT ![t] =
           [e \in Employee |-> IF e \in es THEN Append(@[e], "ASSIGNED") ELSE @[e]]]

\* An assignment that was taken back gives access all the same.
canAccessTarget(t, e) == assignments[t][e] # <<>>

---------------------------------------------------------------------------
(* The service. *)

\* What was given as complete begins with a value of zero, and is not. An employee that
\* is not there refuses the call when the target is made and those before are assigned.
createTarget(t, s, g, l, es) ==
    /\ target[t] = noTarget
    /\ write(t, LET r == [noTarget EXCEPT !.status = s, !.goal = g, !.late = l]
                IN [r EXCEPT !.status = resolveStatus(r)])
    /\ buildAssignments(t, es)
    /\ UNCHANGED <<task, edited, resumed>>

\* Mutant: the status is of the goal there was.
normalized_old(t, v, g, l) ==
    [target[t] EXCEPT !.value = v, !.goal = g, !.late = l,
        !.status = resolveStatus([target[t] EXCEPT !.value = v]), !.completedAt = v >= g]

normalized(t, v, g, l) ==
    LET r == [target[t] EXCEPT !.value = v, !.goal = g, !.late = l]
    IN [r EXCEPT !.status = resolveStatus(r), !.completedAt = reached(r)]

\* A value it gives is no row of target_progress.
updateTarget(t, v, g, l) ==
    /\ found(t)
    /\ write(t, normalized(t, v, g, l))
    /\ UNCHANGED <<assignments, task, edited, resumed>>

updateProgressFromTasks(t) == Cardinality({k \in Task : task[k].target = t /\ task[k].completed})
hasTasks(t) == \E k \in Task : task[k].target = t

\* What the caller says, unless the tasks of the target say it.
progressOf(t, v) == IF target[t].fromTasks /\ hasTasks(t) THEN updateProgressFromTasks(t) ELSE v

updateProgress(t, v) ==
    /\ target[t].status \in {"ACTIVE", "OVERDUE"}
    /\ write(t, LET r == [target[t] EXCEPT !.value = progressOf(t, v)]
                IN [r EXCEPT !.status = resolveStatus(r), !.completedAt = reached(r)])
    /\ UNCHANGED <<assignments, task, edited, resumed>>

\* Leaves completedAt alone, and does not ask whether the end has passed.
internUpdatesProgress(t, v) ==
    /\ found(t) /\ target[t].status \notin Held \cup {"COMPLETED"}
    /\ write(t, LET r == [target[t] EXCEPT !.value = v]
                IN [r EXCEPT !.status = IF reached(r) THEN "COMPLETED" ELSE @])
    /\ UNCHANGED <<assignments, task, edited, resumed>>

assignTarget(t, es) ==
    /\ found(t)
    /\ buildAssignments(t, es)
    /\ UNCHANGED <<target, task, edited, resumed>>

\* The first row there is, though it may be taken back already.
unassignTarget(t, e) ==
    /\ found(t) /\ assignments[t][e] # <<>>
    /\ assignments' = [assignments EXCEPT ![t][e][1] = "UNASSIGNED"]
    /\ UNCHANGED <<target, task, edited, resumed>>

\* Pause, resume and cancel, from any status.
setTargetStatus(t, s) ==
    /\ found(t)
    /\ s \in {"PAUSED", "ACTIVE", "CANCELLED"}
    /\ write(t, [target[t] EXCEPT !.status = s])
    /\ resumed' = IF s = "ACTIVE" THEN resumed \cup {t} ELSE resumed
    /\ UNCHANGED <<assignments, task, edited>>

---------------------------------------------------------------------------
(* The leads' portals: they alone can make a target count its tasks. *)

createScopedRecord(t, s, g, b) ==
    /\ target[t] = noTarget
    /\ write(t, [noTarget EXCEPT !.status = s, !.goal = g, !.fromTasks = b])
    /\ edited' = edited \cup {t}
    /\ UNCHANGED <<assignments, task, resumed>>

writeScopedRecord(t, s) ==
    /\ found(t)
    /\ write(t, [target[t] EXCEPT !.status = s])
    /\ edited' = edited \cup {t}
    /\ UNCHANGED <<assignments, task, resumed>>

\* A percentage and a value that nobody compares.
updateTargetProgress(t, v, done) ==
    /\ found(t)
    /\ write(t, [target[t] EXCEPT !.value = v, !.status = IF done THEN "COMPLETED" ELSE @])
    /\ edited' = edited \cup {t}
    /\ UNCHANGED <<assignments, task, resumed>>

completeTarget(t) ==
    /\ found(t)
    /\ write(t, [target[t] EXCEPT !.status = "COMPLETED", !.completedAt = TRUE])
    /\ edited' = edited \cup {t}
    /\ UNCHANGED <<assignments, task, resumed>>

---------------------------------------------------------------------------
(* Tasks: a portal's, completed and opened again by whoever they are assigned to. *)

createTask(k, t) ==
    /\ task[k].target = "none"
    /\ task' = [task EXCEPT ![k].target = t]
    /\ UNCHANGED <<target, assignments, edited, resumed>>

updateTask(k, done) ==
    /\ task[k].target # "none"
    /\ task' = [task EXCEPT ![k].completed = done]
    /\ UNCHANGED <<target, assignments, edited, resumed>>

completeTask(k) == updateTask(k, TRUE)
updateTaskProgress(k, done) == updateTask(k, done)

timePasses(t) ==
    /\ found(t) /\ ~target[t].late
    /\ write(t, [target[t] EXCEPT !.late = TRUE])
    /\ UNCHANGED <<assignments, task, edited, resumed>>

Values == 0..MaxValue
Goals == 1..MaxValue

Service(t) ==
    \/ \E s \in TARGET_STATUS, g \in Goals, l \in BOOLEAN, es \in SUBSET Employee :
           createTarget(t, s, g, l, es)
    \/ \E v \in Values, g \in Goals, l \in BOOLEAN : updateTarget(t, v, g, l)
    \/ \E e \in Employee, v \in Values : canAccessTarget(t, e) /\ updateProgress(t, v)
    \/ \E v \in Values : internUpdatesProgress(t, v)
    \/ \E es \in SUBSET Employee : assignTarget(t, es)
    \/ \E e \in Employee : unassignTarget(t, e)
    \/ \E s \in TARGET_STATUS : setTargetStatus(t, s)

Leads(t) ==
    \/ \E s \in TARGET_STATUS, g \in Goals, b \in BOOLEAN : createScopedRecord(t, s, g, b)
    \/ \E s \in TARGET_STATUS : writeScopedRecord(t, s)
    \/ \E v \in Values, done \in BOOLEAN : updateTargetProgress(t, v, done)
    \/ completeTarget(t)

Next ==
    \/ \E t \in Target : Service(t) \/ Leads(t) \/ timePasses(t)
    \/ \E k \in Task, t \in Target : createTask(k, t)
    \/ \E k \in Task : completeTask(k) \/ \E done \in BOOLEAN : updateTaskProgress(k, done)

Spec == Init /\ [][Next]_vars

---------------------------------------------------------------------------
(* Properties. *)

\* However its goal, its value and its end are changed, a target whose status no lead
\* wrote is complete only at its goal, and one at its goal is complete, held, or was
\* resumed by hand.
CompletedIsReached ==
    \A t \in Target \ edited : found(t) =>
        /\ target[t].status = "COMPLETED" => reached(target[t])
        /\ reached(target[t]) => target[t].status \in Held \cup {"COMPLETED"} \/ t \in resumed
---------------------------------------------------------------------------
(* The invariant CompletedIsReached follows from: rows have their fields and a goal. *)

Field == {"status", "value", "goal", "late", "completedAt", "fromTasks"}
WellFormed(r) == DOMAIN r = Field /\ r.goal \in Nat \ {0}

Inv ==
    /\ target = [t \in Target |-> target[t]]
    /\ \A t \in Target : WellFormed(target[t])
    /\ CompletedIsReached
=============================================================================
