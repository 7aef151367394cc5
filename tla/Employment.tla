----------------------------- MODULE Employment -----------------------------
(***************************************************************************)
(* The status of an employee, from hiring to exit. The staff directory     *)
(* (employers/staffDirectoryService.js) changes it together with the login *)
(* account, which it awaits; HR (hr.service.js) changes it by onboarding,  *)
(* confirmation and exit, and leaves the account as it is. Departments,    *)
(* managers, documents and onboarding tasks are left out.                  *)
(***************************************************************************)
EXTENDS Naturals, FiniteSets

CONSTANTS
    Employee, Onboarding, Confirmation, Exit,
    None,
    MaxInFlight   \* requests that await the account at one time (bound)

EmploymentConstants == None \notin Employee /\ MaxInFlight \in Nat

VARIABLES
    employee,      \* rows of employees: status, confirmationStatus
    account,       \* the status of the login account
    onboarding,    \* rows of onboarding_records
    confirmation,  \* rows of employee_confirmations: the decision
    exit,          \* rows of employee_exit_records
    inFlight,      \* directory requests that have written the account and not yet the row
    restored       \* accounts put in use again since, by whoever may (auxiliary)

vars == <<employee, account, onboarding, confirmation, exit, inFlight, restored>>

OutOfWork == {"inactive", "suspended", "terminated"}
OnboardingStatus == {"PENDING", "REVIEW", "COMPLETED", "CONFIRMED", "CANCELLED"}
EXIT_STATUSES == {"PENDING", "UNDER_REVIEW", "APPROVED", "COMPLETED", "CANCELLED", "REJECTED"}
Decision == {"CONFIRMED", "EXTENDED", "NOT_CONFIRMED"}

noEmployee == [status |-> "absent", confirmation |-> "none"]
noRow == [status |-> "absent", employee |-> None]

Init ==
    /\ employee = [e \in Employee |-> noEmployee]
    /\ account = [e \in Employee |-> "absent"]
    /\ onboarding = [o \in Onboarding |-> noRow]
    /\ confirmation = [c \in Confirmation |-> noRow]
    /\ exit = [x \in Exit |-> noRow]
    /\ inFlight = {}
    /\ restored = {}

employed(e) == employee[e] # noEmployee
becomes(e, s) == employee' = [employee EXCEPT ![e].status = s]

---------------------------------------------------------------------------
(* The staff directory. *)

\* With a login or without.
createStaff(e, login) ==
    /\ ~employed(e)
    /\ becomes(e, "active")
    /\ account' = [account EXCEPT ![e] = IF login THEN "active" ELSE "absent"]
    /\ UNCHANGED <<onboarding, confirmation, exit, inFlight, restored>>

accountStatus(s) == IF s = "suspended" THEN "suspended" ELSE "inactive"

\* Mutant: the row first, then the account.
beginStaffAction_rowFirst(e, s) ==
    /\ employed(e) /\ account[e] # "absent"
    /\ Cardinality(inFlight) < MaxInFlight
    /\ becomes(e, s)
    /\ inFlight' = inFlight \cup {<<e, s>>}
    /\ restored' = restored \ {e}
    /\ UNCHANGED <<account, onboarding, confirmation, exit>>

\* performStaffAction: deactivate, suspend and terminate await the account's update.
beginStaffAction(e, s) ==
    /\ employed(e) /\ account[e] # "absent"
    /\ Cardinality(inFlight) < MaxInFlight
    /\ account' = [account EXCEPT ![e] = accountStatus(s)]
    /\ inFlight' = inFlight \cup {<<e, s>>}
    /\ restored' = restored \ {e}
    /\ UNCHANGED <<employee, onboarding, confirmation, exit>>

\* The row is looked for by several keys and saved by its id: asked for by another
\* key, the request fails here.
endStaffAction(e, s, byId) ==
    /\ <<e, s>> \in inFlight
    /\ inFlight' = inFlight \ {<<e, s>>}
    /\ IF byId THEN becomes(e, s) ELSE UNCHANGED employee
    /\ UNCHANGED <<account, onboarding, confirmation, exit, restored>>

\* Activating leaves the account as it is, and so does putting out of work somebody without one.
setStaffStatus(e, s) ==
    /\ employed(e) /\ (s = "active" \/ account[e] = "absent")
    /\ becomes(e, s)
    /\ UNCHANGED <<account, onboarding, confirmation, exit, inFlight, restored>>

putInUse(e) ==
    /\ account[e] # "absent"
    /\ account' = [account EXCEPT ![e] = "active"]
    /\ restored' = restored \cup {e}
    /\ UNCHANGED <<employee, onboarding, confirmation, exit, inFlight>>

\* users/userAccessService.js: reactivate, unlock.
reactivateAccount(e) == putInUse(e)

\* auth/routes.js: whoever an account is of is mailed a token when they forgot their
\* password, and makes the account active with it. Neither request looks at what its
\* status is, and a token may be older than the status.
resetPassword(e) == putInUse(e)

---------------------------------------------------------------------------
(* HR. Nothing looks at the status the employee has. *)

createOnboarding(o, e, s) ==
    /\ employed(e) /\ onboarding[o] = noRow
    /\ onboarding' = [onboarding EXCEPT ![o] = [status |-> s, employee |-> e]]
    /\ becomes(e, IF employee[e].status = "active" THEN "ONBOARDING" ELSE employee[e].status)
    /\ UNCHANGED <<account, confirmation, exit, inFlight, restored>>

\* confirmationStatus is not written here.
updateOnboarding(o, s) ==
    /\ onboarding[o] # noRow
    /\ onboarding' = [onboarding EXCEPT ![o].status = s]
    /\ CASE s = "CONFIRMED" -> becomes(onboarding[o].employee, "CONFIRMED")
         [] s = "COMPLETED" -> becomes(onboarding[o].employee, "AWAITING_CONFIRMATION")
         [] OTHER -> UNCHANGED employee
    /\ UNCHANGED <<account, confirmation, exit, inFlight, restored>>

statusOf(d) ==
    CASE d = "CONFIRMED" -> "CONFIRMED" [] d = "EXTENDED" -> "PROBATION" [] OTHER -> "AWAITING_CONFIRMATION"

\* By the id of the employee a row is made, by its own id a row is decided again.
decideConfirmation(c, e, d) ==
    /\ employed(e)
    /\ confirmation[c] = noRow \/ confirmation[c].employee = e
    /\ confirmation' = [confirmation EXCEPT ![c] = [status |-> d, employee |-> e]]
    /\ employee' = [employee EXCEPT ![e] = [status |-> statusOf(d), confirmation |-> d]]
    /\ UNCHANGED <<account, onboarding, exit, inFlight, restored>>

approveConfirmation(c, e) == decideConfirmation(c, e, "CONFIRMED")
extendConfirmation(c, e) == decideConfirmation(c, e, "EXTENDED")
notConfirmEmployee(c, e) == decideConfirmation(c, e, "NOT_CONFIRMED")

\* Others may be open.
createEmployeeExit(x, e) ==
    /\ employed(e) /\ exit[x] = noRow
    /\ exit' = [exit EXCEPT ![x] = [status |-> "PENDING", employee |-> e]]
    /\ UNCHANGED <<employee, account, onboarding, confirmation, inFlight, restored>>

setExit(x, from, s) ==
    /\ exit[x].status \in from
    /\ exit' = [exit EXCEPT ![x].status = s]
    /\ UNCHANGED <<account, onboarding, confirmation, inFlight, restored>>

\* Any status, and the employee stays.
updateEmployeeExit(x, s) == setExit(x, EXIT_STATUSES, s) /\ UNCHANGED employee
approveEmployeeExit(x) == setExit(x, {"PENDING", "UNDER_REVIEW"}, "APPROVED") /\ UNCHANGED employee
cancelEmployeeExit(x, s) == setExit(x, EXIT_STATUSES, s) /\ UNCHANGED employee
completeEmployeeExit(x) == setExit(x, {"APPROVED", "UNDER_REVIEW"}, "COMPLETED") /\ becomes(exit[x].employee, "EXITED")

---------------------------------------------------------------------------

Directory(e) ==
    \/ \E login \in BOOLEAN : createStaff(e, login)
    \/ \E s \in OutOfWork : beginStaffAction(e, s)
    \/ \E s \in OutOfWork, byId \in BOOLEAN : endStaffAction(e, s, byId)
    \/ \E s \in OutOfWork \cup {"active"} : setStaffStatus(e, s)
    \/ reactivateAccount(e)
    \/ resetPassword(e)

HR(e) ==
    \/ \E o \in Onboarding, s \in OnboardingStatus : createOnboarding(o, e, s)
    \/ \E c \in Confirmation : approveConfirmation(c, e) \/ extendConfirmation(c, e) \/ notConfirmEmployee(c, e)
    \/ \E x \in Exit : createEmployeeExit(x, e)

Exits(x) ==
    \/ \E s \in EXIT_STATUSES : updateEmployeeExit(x, s)
    \/ approveEmployeeExit(x)
    \/ \E s \in {"CANCELLED", "REJECTED"} : cancelEmployeeExit(x, s)
    \/ completeEmployeeExit(x)

Next ==
    \/ \E e \in Employee : Directory(e) \/ HR(e)
    \/ \E o \in Onboarding, s \in OnboardingStatus : updateOnboarding(o, s)
    \/ \E x \in Exit : Exits(x)

Spec == Init /\ [][Next]_vars

---------------------------------------------------------------------------
(* Properties. *)

\* Somebody put out of work by the directory cannot sign in, whatever requests of
\* the directory and HR were served at the same time and before, until after it the
\* administrator of accounts says so or they have reset their password themselves;
\* and the employee's confirmation status is the decision of a row of theirs.
OutOfWorkHasNoAccess ==
    \A e \in Employee :
        /\ employee[e].status \in OutOfWork /\ e \notin restored => account[e] # "active"
        /\ employee[e].confirmation # "none" =>
               \E c \in Confirmation : confirmation[c] = [status |-> employee[e].confirmation, employee |-> e]
---------------------------------------------------------------------------
(* The invariant OutOfWorkHasNoAccess follows from. *)

Status == OutOfWork \cup {"active", "ONBOARDING", "AWAITING_CONFIRMATION", "CONFIRMED",
                          "PROBATION", "EXITED"}

TypeOK ==
    /\ employee \in [Employee -> [status : Status \cup {"absent"}, confirmation : Decision \cup {"none"}]]
    /\ account \in [Employee -> {"absent", "active", "inactive", "suspended"}]
    /\ confirmation \in [Confirmation -> [status : Decision \cup {"absent"}, employee : Employee \cup {None}]]

\* Of an employee e: none is half hired, and who is being put out of work is out already.
AccessAgrees(e) ==
    /\ employee[e].status = "absent" => ~employed(e)
    /\ employee[e].status \in OutOfWork /\ e \notin restored => account[e] # "active"
    /\ \A s \in OutOfWork : <<e, s>> \in inFlight =>
           employed(e) /\ (e \notin restored => account[e] # "active")

Decided(e) ==
    employee[e].confirmation # "none" =>
        \E c \in Confirmation : confirmation[c] = [status |-> employee[e].confirmation, employee |-> e]

Inv ==
    /\ TypeOK
    /\ \A e \in Employee : AccessAgrees(e) /\ Decided(e)
=============================================================================
