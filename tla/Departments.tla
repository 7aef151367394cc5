---------------------------- MODULE Departments ----------------------------
(***************************************************************************)
(* Departments (departments/departmentService.js, lookups/catalog.js):     *)
(* seeded, created, headed, deactivated with or without a transfer of      *)
(* their members, deleted. Whatever an update does not mention it keeps,   *)
(* except that it makes the department active.                             *)
(***************************************************************************)
EXTENDS Naturals, FiniteSets

CONSTANTS Department, Code, Employee,
          None      \* no head, no department, no code given

DepartmentsConstants == None \notin Department \cup Code \cup Employee \cup {"active", "inactive"}

VARIABLES
    department,  \* departments: status, code, hodId, hodName
    member       \* employees: departmentId, department_id, status

vars == <<department, member>>

ACTIVE_STATUSES == {"active", "on leave"}
INACTIVE_HOD_STATUSES == {"inactive", "suspended"}
noDepartment == [status |-> "absent", code |-> None, hodId |-> None, hodName |-> None]
rows == {d \in Department : department[d].status \notin {"absent", "deleted"}}

Init ==
    /\ department = [d \in Department |-> noDepartment]
    /\ member = [e \in Employee |-> [departmentId |-> None, department_id |-> None, status |-> "active"]]

departmentMatches(e, d) == d \in {member[e].departmentId, member[e].department_id}
isActiveMember(e) == member[e].status \in ACTIVE_STATUSES
calculateHeadcount(d) == Cardinality({e \in Employee : departmentMatches(e, d) /\ isActiveMember(e)})
ensureActiveEmployee(e) == member[e].status \notin INACTIVE_HOD_STATUSES

\* Mutant: the codes of active departments only.
ensureUniqueCode_active(c, d) ==
    \A other \in rows \ {d} : department[other].status = "active" => department[other].code # c

ensureUniqueCode(c, d) == \A other \in rows \ {d} : department[other].code # c

\* One that was not given is the first that is free.
normalizedCode(c) == IF c # None THEN {c} ELSE {k \in Code : ensureUniqueCode(k, None)}

---------------------------------------------------------------------------
(* Departments. *)

\* Whenever none is left, and the rows that were deleted are overwritten.
ensureDefaultDepartments(d, c) ==
    /\ rows = {}
    /\ department' = [x \in Department |-> IF x = d THEN [noDepartment EXCEPT !.status = "active", !.code = c]
                                           ELSE noDepartment]
    /\ UNCHANGED member

createDepartment(d, c, s, h) ==
    /\ department[d] = noDepartment
    /\ h # None => ensureActiveEmployee(h)
    /\ \E k \in normalizedCode(c) :
          /\ ensureUniqueCode(k, d)
          /\ department' = [department EXCEPT ![d] = [status |-> s, code |-> k, hodId |-> h, hodName |-> h]]
    /\ UNCHANGED member

\* The row after an update that gives a code, a status and a head, or not.
updated(d, c, s, h) ==
    [department[d] EXCEPT !.status = IF s = None THEN "active" ELSE s,
                          !.code = IF c = None THEN @ ELSE c,
                          !.hodId = IF h = None THEN @ ELSE h,
                          !.hodName = IF h = None THEN @ ELSE h]

updateDepartment(d, c, s, h) ==
    /\ d \in rows
    /\ h # None => ensureActiveEmployee(h)
    /\ c # None => ensureUniqueCode(c, d)
    /\ department' = [department EXCEPT ![d] = updated(d, c, s, h)]

editDepartment(d, c, s, h) == updateDepartment(d, c, s, h) /\ UNCHANGED member

softDeleteDepartment(d) ==
    /\ d \in rows
    /\ department' = [department EXCEPT ![d].status = "deleted"]
    /\ UNCHANGED member

\* By either field, but only one of the two is written.
transferDepartmentMembers(d, to) ==
    member' = [e \in Employee |->
                  IF departmentMatches(e, d) /\ isActiveMember(e)
                  THEN [member[e] EXCEPT !.departmentId = to] ELSE member[e]]

\* An activation gives no transfer, a transfer is to any department there is.
setDepartmentStatus(d, s, confirmed, to) ==
    /\ d \in rows
    /\ s = "inactive" /\ calculateHeadcount(d) > 0 => confirmed
    /\ updateDepartment(d, None, s, None)
    /\ IF s = "inactive" /\ to # None
       THEN to \in rows /\ transferDepartmentMembers(d, to)
       ELSE UNCHANGED member

setHod(d, e) == editDepartment(d, None, None, e)

\* Takes the id away, not the name.
removeHod(d) ==
    /\ d \in rows
    /\ department' = [department EXCEPT ![d] = [updated(d, None, None, None) EXCEPT !.hodId = None]]
    /\ UNCHANGED member

---------------------------------------------------------------------------
(* The staff directory: both fields when the row is made, one when it is moved. *)

joins(e, d) ==
    /\ d \in rows /\ member[e].departmentId = None
    /\ member' = [member EXCEPT ![e].departmentId = d, ![e].department_id = d]
    /\ UNCHANGED department

performStaffAction(e, d, s) ==
    /\ member' = [member EXCEPT ![e].departmentId = d, ![e].status = s]
    /\ UNCHANGED department

Administrator(d) ==
    \/ \E c \in Code : ensureDefaultDepartments(d, c)
    \/ \E c \in Code \cup {None}, s \in {"active", "inactive"}, h \in Employee \cup {None} :
           createDepartment(d, c, s, h)
    \/ \E c \in Code \cup {None}, s \in {"active", "inactive", None}, h \in Employee \cup {None} :
           editDepartment(d, c, s, h)
    \/ softDeleteDepartment(d)
    \/ \E s \in {"active", "inactive"}, confirmed \in BOOLEAN, to \in Department \cup {None} :
           setDepartmentStatus(d, s, confirmed, to)
    \/ \E e \in Employee : setHod(d, e)
    \/ removeHod(d)

Next ==
    \/ \E d \in Department : Administrator(d)
    \/ \E e \in Employee, d \in Department : joins(e, d)
    \/ \E e \in Employee : \E d \in rows \cup {member[e].departmentId},
          s \in ACTIVE_STATUSES \cup INACTIVE_HOD_STATUSES : performStaffAction(e, d, s)

Spec == Init /\ [][Next]_vars

---------------------------------------------------------------------------
(* Properties. *)

\* Through every creation, edit, activation and seeding, a code is of one department that
\* is not deleted, inactive ones included; and a head that has an id has the name that
\* goes with it.
CodeIsOfOneDepartment ==
    /\ \A d, other \in rows : d # other => department[d].code # department[other].code
    /\ \A d \in rows : department[d].code # None
                       /\ department[d].hodId \in {None, department[d].hodName}
---------------------------------------------------------------------------
(* The invariant CodeIsOfOneDepartment follows from. *)

Row == [status : {"absent", "active", "inactive", "deleted"}, code : Code \cup {None},
        hodId : Employee \cup {None}, hodName : Employee \cup {None}]

Inv == department \in [Department -> Row] /\ CodeIsOfOneDepartment
=============================================================================
