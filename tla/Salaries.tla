----------------------------- MODULE Salaries -----------------------------
(***************************************************************************)
(* What a payroll run pays (payroll/payroll.service.js): salary structures *)
(* and their components, the salaries assigned to employees with the days  *)
(* they are effective, deductions, and the calculation of an item          *)
(* (payroll-calculation.service.js). Money is in cents. The approval and   *)
(* the payment of a run are module Payroll.                                *)
(***************************************************************************)
EXTENDS Integers, Sequences, FiniteSets, FiniteSetsExt

CONSTANTS
    Employee,
    Structure,   \* salary structures, of one component each (bound)
    Salary,      \* base salaries
    Value,       \* of a component: cents or per cent
    Rate,        \* tax and pension rates, per cent; the code does not check them
    Repayment,   \* what an employee's loans and advances take of a month
    Threshold,   \* below which nothing is taxed
    MaxRows,     \* salaries assigned to an employee (bound)
    MaxTaken,    \* deductions of an employee (bound)
    Horizon      \* days (bound)

SalariesConstants ==
    /\ Salary \subseteq Nat \ {0} /\ Value \subseteq Nat /\ Rate \subseteq 0 .. 100
    /\ Repayment \subseteq Nat /\ Threshold \in Nat /\ Horizon \in Nat

VARIABLES
    structure,   \* the component of each structure
    assignments, \* rows of employee_salary_assignments, the oldest first
    deductions,  \* rows of employee_deductions
    repayment,   \* by employee: nothing here writes loans or advances
    rules,       \* the first tax rule and the pension: nothing writes them either
    item         \* of each employee in the last run

vars == <<structure, assignments, deductions, repayment, rules, item>>

Day == 1 .. Horizon
Unset == 0              \* an effective day that was left out
Forever == Horizon + 1  \* 9999-12-31, and an end that was left out

noComponent == [kind |-> "EARNING", type |-> "FIXED", value |-> 0]
noItem == [basic |-> 0, gross |-> 0, total |-> 0, net |-> 0]

Init ==
    /\ structure = [s \in Structure |-> noComponent]
    /\ assignments = [e \in Employee |-> <<>>]
    /\ deductions = [e \in Employee |-> <<>>]
    /\ repayment \in [Employee -> Repayment]
    /\ rules \in [tax : Rate, pension : Rate]
    /\ item = [e \in Employee |-> noItem]

---------------------------------------------------------------------------
(* The calculation. *)

\* Of hundredths; a half goes up or down, as its binary form has it.
roundMoney(n, up) == (n + IF up THEN 50 ELSE 49) \div 100

\* A formula is worth nothing.
calculateComponentAmount(k, base, up) ==
    IF k.type = "PERCENTAGE" THEN roundMoney(base * k.value, up)
    ELSE IF k.type = "FORMULA" THEN 0 ELSE k.value

calculateTax(gross, up) == roundMoney(Max({0, gross - Threshold}) * rules.tax, up)
calculateStatutoryDeductions(gross, up) == roundMoney(gross * rules.pension, up)

\* Mutant: a salary is not found on its own first day.
inForce_after(row, d) == row.active /\ (row.from < d \/ row.from = Unset) /\ d <= row.to

inForce(row, d) == row.active /\ row.from <= d /\ d <= row.to

listEmployeeDeductions(e, d) == {i \in DOMAIN deductions[e] : inForce(deductions[e][i], d)}

deducted(e, d) == MapThenSumSet(LAMBDA i : deductions[e][i].amount, listEmployeeDeductions(e, d))

\* A component of a kind that is neither an earning nor a deduction counts for nothing.
calculatePayrollForEmployee(e, a, d, up) ==
    LET k == structure[a.structure]
        amount == calculateComponentAmount(k, a.base, up)
        gross == a.base + IF k.kind = "EARNING" THEN amount ELSE 0
        total == (IF k.kind = "DEDUCTION" THEN amount ELSE 0)
                 + calculateTax(gross, up) + calculateStatutoryDeductions(gross, up)
                 + deducted(e, d) + repayment[e]
    IN [basic |-> a.base, gross |-> gross, total |-> total, net |-> gross - total]

activeSalaries(e, d) == {i \in DOMAIN assignments[e] : inForce(assignments[e][i], d)}

\* The one that began last, the older row of two that began together; 0 if there is none.
findActiveSalaryAssignment(e, d) ==
    LET began == {i \in activeSalaries(e, d) :
                      \A j \in activeSalaries(e, d) : assignments[e][j].from <= assignments[e][i].from}
    IN IF began = {} THEN 0 ELSE Min(began)

---------------------------------------------------------------------------
(* The handlers. *)

createSalaryStructure(s, k) ==
    /\ structure[s] = noComponent /\ k # noComponent
    /\ structure' = [structure EXCEPT ![s] = k]
    /\ UNCHANGED <<assignments, deductions, repayment, rules, item>>

\* A type or a value that is left out is written all the same: fixed, and nothing.
updateDeduction(s, type, v) ==
    /\ structure[s] # noComponent
    /\ structure' = [structure EXCEPT ![s].type = type, ![s].value = v]
    /\ UNCHANGED <<assignments, deductions, repayment, rules, item>>

\* The salary in force on the first day of the new one ends at once: with no first day,
\* the one in force for ever.
assignEmployeeSalary(e, s, base, from, to) ==
    /\ Len(assignments[e]) < MaxRows
    /\ LET i == findActiveSalaryAssignment(e, IF from = Unset THEN Forever ELSE from)
           row == [structure |-> s, base |-> base, from |-> from, to |-> to, active |-> TRUE]
           kept == IF i = 0 THEN assignments[e]
                   ELSE [assignments[e] EXCEPT ![i].active = FALSE,
                                               ![i].to = IF from = Unset THEN Forever ELSE from]
       IN assignments' = [assignments EXCEPT ![e] = Append(kept, row)]
    /\ UNCHANGED <<structure, deductions, repayment, rules, item>>

addEmployeeDeduction(e, amount, from, to) ==
    /\ Len(deductions[e]) < MaxTaken
    /\ deductions' = [deductions EXCEPT ![e] =
                          Append(@, [amount |-> amount, from |-> from, to |-> to, active |-> TRUE])]
    /\ UNCHANGED <<structure, assignments, repayment, rules, item>>

removeEmployeeDeduction(e, i) ==
    /\ i \in DOMAIN deductions[e] /\ deductions[e][i].active
    /\ deductions' = [deductions EXCEPT ![e][i].active = FALSE]
    /\ UNCHANGED <<structure, assignments, repayment, rules, item>>

\* accountant/routes.js writes the same rows with the body of its request; one that is no
\* longer active is not looked for again (to reactivate it is to create it).
portalCreates(e, row) ==
    /\ Len(deductions[e]) < MaxTaken
    /\ deductions' = [deductions EXCEPT ![e] = Append(@, row)]
    /\ UNCHANGED <<structure, assignments, repayment, rules, item>>

portalUpdates(e, i, row) ==
    /\ i \in DOMAIN deductions[e] /\ deductions[e][i].active
    /\ deductions' = [deductions EXCEPT ![e][i] = row]
    /\ UNCHANGED <<structure, assignments, repayment, rules, item>>

validatePayrollReadiness(d) == \A e \in Employee : findActiveSalaryAssignment(e, d) # 0

\* Of a period that ends on day d. Refused as a whole when one employee has no salary.
createPayrollRun(d, up) ==
    /\ validatePayrollReadiness(d)
    /\ item' = [e \in Employee |-> calculatePayrollForEmployee(e,
                    assignments[e][findActiveSalaryAssignment(e, d)], d, up)]
    /\ UNCHANGED <<structure, assignments, deductions, repayment, rules>>

Types == {"FIXED", "PERCENTAGE", "FORMULA"}
Deduction == [amount : Value, from : Day \cup {Unset}, to : Day \cup {Forever}, active : BOOLEAN]
Components == [kind : {"EARNING", "DEDUCTION", "BENEFIT"}, type : Types, value : Value]

Next ==
    \/ \E s \in Structure, k \in Components : createSalaryStructure(s, k)
    \/ \E s \in Structure, type \in Types, v \in Value \cup {0} : updateDeduction(s, type, v)
    \/ \E e \in Employee, s \in Structure, base \in Salary, from \in Day \cup {Unset}, to \in Day \cup {Forever} :
           structure[s] # noComponent /\ assignEmployeeSalary(e, s, base, from, to)
    \/ \E e \in Employee, amount \in Value, from \in Day, to \in Day \cup {Forever} :
           addEmployeeDeduction(e, amount, from, to)
    \/ \E e \in Employee, i \in 1 .. MaxTaken : removeEmployeeDeduction(e, i)
    \/ \E e \in Employee, row \in Deduction :
           portalCreates(e, row) \/ \E i \in 1 .. MaxTaken : portalUpdates(e, i, row)
    \/ \E d \in Day, up \in BOOLEAN : createPayrollRun(d, up)

Spec == Init /\ [][Next]_vars

---------------------------------------------------------------------------
(* Properties. *)

\* The net salary without any rounding, in ten thousandths of a cent.
exactNet(e, a, d) ==
    LET k == structure[a.structure]
        amount == IF k.type = "PERCENTAGE" THEN a.base * k.value
                  ELSE IF k.type = "FIXED" THEN 100 * k.value ELSE 0
        gross == 100 * a.base + IF k.kind = "EARNING" THEN amount ELSE 0
    IN 100 * (gross - IF k.kind = "DEDUCTION" THEN amount ELSE 0)
       - Max({0, gross - 100 * Threshold}) * rules.tax - gross * rules.pension
       - 10000 * (repayment[e] + deducted(e, d))

\* An employee is paid from one salary: of those in force on a day, one began last, unless
\* it was assigned without a first day. And what is paid is at most half a cent per rounded
\* line away from what the salary, the rates and the deductions make, whichever way the
\* halves go.
PaidFromOneSalary ==
    \A e \in Employee, d \in Day :
        /\ \A i, j \in activeSalaries(e, d) :
              i # j /\ assignments[e][i].from = assignments[e][j].from => assignments[e][i].from = Unset
        /\ \A i \in activeSalaries(e, d), up \in BOOLEAN :
              LET off == 10000 * calculatePayrollForEmployee(e, assignments[e][i], d, up).net
                         - exactNet(e, assignments[e][i], d)
              IN -15000 <= off /\ off <= 15000
---------------------------------------------------------------------------
(* The invariant PaidFromOneSalary follows from: of the salaries of an employee that can be *)
(* in force, no two begin on one day.                                                       *)

Component == [kind : {"EARNING", "DEDUCTION", "BENEFIT"}, type : Types, value : Value \cup {0}]
Assignment == [structure : Structure, base : Salary, from : Day \cup {Unset},
               to : Day \cup {Forever}, active : BOOLEAN]

canBegin(row, f) == row.active /\ row.from = f /\ f <= row.to

Inv ==
    /\ structure \in [Structure -> Component]
    /\ assignments \in [Employee -> Seq(Assignment)]
    /\ deductions \in [Employee -> Seq(Deduction)]
    /\ repayment \in [Employee -> Repayment]
    /\ rules \in [tax : Rate, pension : Rate]
    /\ \A e \in Employee, f \in Day : \A i, j \in DOMAIN assignments[e] :
           canBegin(assignments[e][i], f) /\ canBegin(assignments[e][j], f) => i = j
=============================================================================
