------------------------------ MODULE Careers ------------------------------
(***************************************************************************)
(* Salaries and the requests that change them: promotions and salary       *)
(* adjustments of HR (hr.service.js), recommended by department leads and  *)
(* implemented by accountants, and the staff directory, which changes a    *)
(* salary at once. An adjustment is kept twice, in salary_adjustments and  *)
(* in salary_increments; the reports read the second. Departments and      *)
(* positions that go with a promotion are left out.                        *)
(***************************************************************************)
EXTENDS Naturals

CONSTANTS
    Employee, Promotion, Adjustment, Salary,
    None,      \* no employee, or a value the row does not have
    MaxRows    \* rows of history for one request (bound)

CareersConstants == None \notin Employee \cup Salary /\ MaxRows \in Nat \ {0} /\ Promotion \cap Adjustment = {}

VARIABLES
    salary,      \* employees: salary and basicSalary
    promotion,   \* rows of promotions
    adjustment,  \* rows of salary_adjustments
    increment,   \* the status of the same rows in salary_increments
    history,     \* rows of employee_salary_history that name a request
    edited       \* promotions the superadmin wrote past the HR service (auxiliary)

vars == <<salary, promotion, adjustment, increment, history, edited>>

Request == Promotion \cup Adjustment
Status == {"PENDING", "APPROVED", "REJECTED", "RETURNED", "PENDING_IMPLEMENTATION", "IMPLEMENTED"}

noRequest == [status |-> "absent", employee |-> None, newSalary |-> None]

Init ==
    /\ salary \in [Employee -> {[current |-> s, basic |-> s] : s \in Salary}]
    /\ promotion = [p \in Promotion |-> noRequest]
    /\ adjustment = [a \in Adjustment |-> noRequest]
    /\ increment = [a \in Adjustment |-> "absent"]
    /\ history = [r \in Request |-> 0]
    /\ edited = {}

row(s, e, n) == [status |-> s, employee |-> e, newSalary |-> n]

\* The row of history is written whether or not the employee was found.
recorded(r) == history[r] < MaxRows /\ history' = [history EXCEPT ![r] = @ + 1]

---------------------------------------------------------------------------
(* Promotions. *)

\* Without a new salary the present one is written into the promotion.
createPromotion(p, e, s) ==
    /\ promotion[p] = noRequest
    /\ promotion' = [promotion EXCEPT ![p] = row("PENDING", e, IF s = None THEN salary[e].current ELSE s)]
    /\ UNCHANGED <<salary, adjustment, increment, history, edited>>

\* manager/service.js: the body as it is.
recommendPromotion(p, e, s) ==
    /\ promotion[p] = noRequest
    /\ promotion' = [promotion EXCEPT ![p] = row("PENDING", e, s)]
    /\ UNCHANGED <<salary, adjustment, increment, history, edited>>

\* The salary as it was when the promotion was written; basicSalary stays.
approvePromotion(p) ==
    LET q == promotion[p] IN
    /\ q.status = "PENDING"
    /\ salary' = IF q.employee = None \/ q.newSalary = None THEN salary
                 ELSE [salary EXCEPT ![q.employee].current = q.newSalary]
    /\ promotion' = [promotion EXCEPT ![p].status = "APPROVED"]
    /\ recorded(p)
    /\ UNCHANGED <<adjustment, increment, edited>>

\* Whatever the status is: one that was approved and paid too.
setPromotion(p, s) ==
    /\ promotion[p] # noRequest
    /\ promotion' = [promotion EXCEPT ![p].status = s]
    /\ UNCHANGED <<salary, adjustment, increment, history, edited>>

rejectPromotion(p) == setPromotion(p, "REJECTED")
returnPromotion(p) == setPromotion(p, "RETURNED")

\* /promotions is served by the generic router too: any field may be written, and
\* its action "approve" leaves the status as it is.
editPromotion(p, s) ==
    /\ promotion[p] # noRequest
    /\ promotion' = [promotion EXCEPT ![p].status = s]
    /\ edited' = edited \cup {p}
    /\ UNCHANGED <<salary, adjustment, increment, history>>

---------------------------------------------------------------------------
(* Salary adjustments. *)

createSalaryAdjustment(a, e, s) ==
    /\ adjustment[a] = noRequest
    /\ adjustment' = [adjustment EXCEPT ![a] = row("PENDING", e, s)]
    /\ increment' = [increment EXCEPT ![a] = "PENDING"]
    /\ UNCHANGED <<salary, promotion, history, edited>>

\* Leads and accountants write salary_adjustments only. None is a body that names
\* the salary otherwise, proposed_salary for instance.
addAdjustment(a, e, n, s) ==
    /\ adjustment[a] = noRequest
    /\ adjustment' = [adjustment EXCEPT ![a] = row(s, e, n)]
    /\ UNCHANGED <<salary, promotion, increment, history, edited>>

createSalaryRecommendation(a, e, n) == addAdjustment(a, e, n, "PENDING")

\* Mutant: only the first copy is written.
syncSalaryIncrementStatus_first(a, s) ==
    /\ adjustment' = [adjustment EXCEPT ![a].status = s]
    /\ UNCHANGED increment

syncSalaryIncrementStatus(a, s) ==
    /\ adjustment' = [adjustment EXCEPT ![a].status = s]
    /\ increment' = [increment EXCEPT ![a] = IF @ = "absent" THEN @ ELSE s]

approveSalaryAdjustment(a) ==
    LET q == adjustment[a] IN
    /\ q.status = "PENDING"
    /\ salary' = IF q.employee = None THEN salary
                 ELSE [salary EXCEPT ![q.employee] = [current |-> q.newSalary, basic |-> q.newSalary]]
    /\ syncSalaryIncrementStatus(a, "APPROVED")
    /\ recorded(a)
    /\ UNCHANGED <<promotion, edited>>

rejectSalaryAdjustment(a) ==
    /\ adjustment[a].status = "PENDING"
    /\ syncSalaryIncrementStatus(a, "REJECTED")
    /\ UNCHANGED <<salary, promotion, history, edited>>

\* returnRequest and the accountant's implement: the first copy, in any status.
setAdjustment(a, s) ==
    /\ adjustment[a] # noRequest
    /\ adjustment' = [adjustment EXCEPT ![a].status = s]
    /\ UNCHANGED <<salary, promotion, increment, history, edited>>

returnAdjustment(a) == setAdjustment(a, "RETURNED")
implementSalary(a) == setAdjustment(a, "IMPLEMENTED")

---------------------------------------------------------------------------
(* The staff directory: "promote" and "change-salary" write the salary and
   no row that names a request.                                            *)

performStaffAction(e, s) ==
    /\ salary' = [salary EXCEPT ![e].current = s]
    /\ UNCHANGED <<promotion, adjustment, increment, history, edited>>

Promotions(p) ==
    \/ \E e \in Employee, s \in Salary \cup {None} : createPromotion(p, e, s)
    \/ \E e \in Employee \cup {None}, s \in Salary \cup {None} : recommendPromotion(p, e, s)
    \/ approvePromotion(p)
    \/ rejectPromotion(p)
    \/ returnPromotion(p)
    \/ \E s \in Status : editPromotion(p, s)

Adjustments(a) ==
    \/ \E e \in Employee \cup {None}, s \in Salary : createSalaryAdjustment(a, e, s)
    \/ \E e \in Employee \cup {None}, n \in Salary \cup {None} : createSalaryRecommendation(a, e, n)
    \/ \E e \in Employee, n \in Salary, s \in Status : addAdjustment(a, e, n, s)
    \/ approveSalaryAdjustment(a)
    \/ rejectSalaryAdjustment(a)
    \/ returnAdjustment(a)
    \/ implementSalary(a)

Next ==
    \/ \E p \in Promotion : Promotions(p)
    \/ \E a \in Adjustment : Adjustments(a)
    \/ \E e \in Employee, s \in Salary : performStaffAction(e, s)

Spec == Init /\ [][Next]_vars

---------------------------------------------------------------------------
(* Properties. *)

\* However requests are rejected, returned and implemented before and after, one
\* is applied once unless the superadmin reopens it, and the copy of an adjustment
\* that the reports read says approved exactly when it was applied.
AppliedOnceAndReported ==
    /\ \A r \in Request \ edited : history[r] <= 1
    /\ \A a \in Adjustment : increment[a] # "absent" => (increment[a] = "APPROVED" <=> history[a] = 1)
---------------------------------------------------------------------------
(* The invariant AppliedOnceAndReported follows from: what may still be approved has not been. *)

Row == [status : Status \cup {"absent"}, employee : Employee \cup {None}, newSalary : Salary \cup {None}]

Paid == [current : Salary \cup {None}, basic : Salary \cup {None}]

ToApprove == {"absent", "PENDING"}

Inv ==
    /\ salary \in [Employee -> Paid]
    /\ promotion \in [Promotion -> Row]
    /\ adjustment \in [Adjustment -> Row]
    /\ increment \in [Adjustment -> Status \cup {"absent"}]
    /\ history \in [Request -> Nat]
    /\ edited \subseteq Promotion
    /\ \A p \in Promotion \ edited :
           history[p] <= 1 /\ (promotion[p].status \in ToApprove => history[p] = 0)
    /\ \A a \in Adjustment :
           /\ history[a] <= 1 /\ (adjustment[a].status \in ToApprove => history[a] = 0)
           /\ adjustment[a].status = "absent" => increment[a] = "absent"
           /\ increment[a] # "absent" => (increment[a] = "APPROVED" <=> history[a] = 1)
=============================================================================
