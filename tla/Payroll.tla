------------------------------ MODULE Payroll ------------------------------
(***************************************************************************)
(* Payroll runs: periods, runs with their items and approvals, the rows of *)
(* collection payroll_payments, and payment by hand or through Paystack,   *)
(* which is module Payments, a reference per run and employee.             *)
(*                                                                         *)
(* All collections are written in the handler that changes them; only a    *)
(* payment through Paystack is suspended, once per item, and other         *)
(* handlers then run.                                                      *)
(***************************************************************************)
EXTENDS Naturals, FiniteSets

CONSTANTS
    Run, Period, Employee,
    Verifier,   \* requests to the payments themselves, whatever their reference
    None,
    MaxRecords, MaxEvents

ASSUME PayrollAssumption ==
    /\ None \notin Run \X Employee /\ Run \cap Verifier = {}
    /\ MaxRecords \in Nat /\ MaxEvents \in Nat

VARIABLES
    period,      \* "closed" for a period LOCKED or CANCELLED, "open" for any other
    run,         \* status of a run
    items,       \* employees of a run
    approvals,   \* statuses in the rows of payroll_approvals
    paid,        \* rows of payroll_payments per run, employee and status
    paying,      \* runs whose processPayment is under way at Paystack
    todo,        \* and the items it still has to pay
    touched,     \* history: references a verifier named or the portal recorded
    payments, seen, call, charge, events   \* of module Payments

Pay == INSTANCE Payments WITH
    Ref <- Run \X Employee, Call <- Run \cup Verifier, EventsNumbered <- TRUE

payVars == <<payments, seen, call, charge, events>>
runVars == <<run, items, approvals>>
vars == <<period, runVars, paid, paying, todo, touched, payVars>>

PeriodStatus == {"open", "closed"}
RunStatus == {"PENDING_APPROVAL", "APPROVED", "PAYMENT_PROCESSING", "PAID", "LOCKED",
              "CANCELLED", "REJECTED"}
RowStatus == {"PROCESSING", "SUCCESS"}

TypeOK ==
    /\ period \in [Period -> PeriodStatus \cup {"absent"}]
    /\ run \in [Run -> RunStatus \cup {"absent"}]
    /\ items \in [Run -> SUBSET Employee]
    /\ approvals \in [Run -> SUBSET {"APPROVED", "REJECTED"}]
    /\ paid \in [Run \X Employee -> [RowStatus -> Nat]]
    /\ paying \subseteq Run
    /\ todo \in [Run -> SUBSET Employee]
    /\ touched \subseteq Run \X Employee
    /\ Pay!TypeOK

Init ==
    /\ period = [p \in Period |-> "absent"]
    /\ run = [r \in Run |-> "absent"]
    /\ items = [r \in Run |-> {}]
    /\ approvals = [r \in Run |-> {}]
    /\ paid = [x \in Run \X Employee |-> [s \in RowStatus |-> 0]]
    /\ paying = {}
    /\ todo = [r \in Run |-> {}]
    /\ touched = {}
    /\ Pay!Init

---------------------------------------------------------------------------
(* Periods and runs. *)

createPayrollPeriod(p, s) ==
    /\ period[p] = "absent"
    /\ period' = [period EXCEPT ![p] = s]
    /\ UNCHANGED <<runVars, paid, paying, todo, touched, payVars>>

\* The status of the request is written whatever it is and was; a request that
\* names none erases it, and the period counts as open.
updatePayrollPeriod(p, s) ==
    /\ period[p] # "absent"
    /\ period' = [period EXCEPT ![p] = s]
    /\ UNCHANGED <<runVars, paid, paying, todo, touched, payVars>>

\* An item and a payslip for every active employee, once all of them are ready;
\* the period turns PROCESSING, which is open.
createPayrollRun(r, p, staff) ==
    /\ run[r] = "absent"
    /\ period[p] = "open"
    /\ staff # {}
    /\ run' = [run EXCEPT ![r] = "PENDING_APPROVAL"]
    /\ items' = [items EXCEPT ![r] = staff]
    /\ UNCHANGED <<period, approvals, paid, paying, todo, touched, payVars>>

\* Mutant: the approval row takes the status before the decision.
decide_draft(r, decision) ==
    /\ run' = [run EXCEPT ![r] = decision]
    /\ approvals' = [approvals EXCEPT ![r] = @ \cup {run[r]}]
    /\ UNCHANGED <<period, items, paid, paying, todo, touched, payVars>>

decide(r, decision) ==
    /\ run' = [run EXCEPT ![r] = decision]
    /\ approvals' = [approvals EXCEPT ![r] = @ \cup {decision}]
    /\ UNCHANGED <<period, items, paid, paying, todo, touched, payVars>>

approveRun(r) == run[r] = "PENDING_APPROVAL" /\ decide(r, "APPROVED")

rejectRun(r) == run[r] # "absent" /\ decide(r, "REJECTED")

\* Mutant: a run that is still being paid can be locked.
lockRun_early(r) ==
    /\ run[r] \in {"PAYMENT_PROCESSING", "PAID"}
    /\ run' = [run EXCEPT ![r] = "LOCKED"]
    /\ UNCHANGED <<period, items, approvals, paid, paying, todo, touched, payVars>>

lockRun(r) ==
    /\ run[r] = "PAID"
    /\ run' = [run EXCEPT ![r] = "LOCKED"]
    /\ UNCHANGED <<period, items, approvals, paid, paying, todo, touched, payVars>>

cancelRun(r) ==
    /\ run[r] \notin {"absent", "PAID", "LOCKED"}
    /\ run' = [run EXCEPT ![r] = "CANCELLED"]
    /\ UNCHANGED <<period, items, approvals, paid, paying, todo, touched, payVars>>

---------------------------------------------------------------------------
(* Paying a run. *)

addRow(r, e, s) == paid' = [paid EXCEPT ![<<r, e>>][s] = @ + 1]

\* Mutant: a run can be paid before it is approved.
payable_unapproved(r) == run[r] \in {"PENDING_APPROVAL", "APPROVED"}

\* Mutant: a payment that did not finish can be asked for again.
payable_again(r) == run[r] \in {"APPROVED", "PAYMENT_PROCESSING"}

payable(r) == run[r] = "APPROVED"

payManually(r) ==
    /\ payable(r)
    /\ paid' = [x \in Run \X Employee |->
                  IF x[1] = r /\ x[2] \in items[r]
                  THEN [paid[x] EXCEPT !["SUCCESS"] = @ + 1] ELSE paid[x]]
    /\ run' = [run EXCEPT ![r] = "PAID"]
    /\ UNCHANGED <<period, items, approvals, paying, todo, touched, payVars>>

payByPaystack(r) ==
    /\ payable(r)
    /\ run' = [run EXCEPT ![r] = "PAYMENT_PROCESSING"]
    /\ paying' = paying \cup {r}
    /\ todo' = [todo EXCEPT ![r] = items[r]]
    /\ UNCHANGED <<period, items, approvals, paid, touched, payVars>>

doneWith(r, e) == todo' = [todo EXCEPT ![r] = @ \ {e}]

\* The next item: one whose reference has a record gets its row at once, for
\* another Paystack is asked.  (The code goes from an answer to the next query
\* without a pause; a handler that runs between the two here can run there
\* while the answer is awaited.)
payItem(r, e) ==
    /\ r \in paying /\ e \in todo[r] /\ call[r] = Pay!idle
    /\ \/ /\ Pay!recordsOf(<<r, e>>) # {}
          /\ addRow(r, e, "PROCESSING") /\ doneWith(r, e)
          /\ UNCHANGED payVars
       \/ /\ Pay!initializePaystackPayment(r, <<r, e>>)
          /\ UNCHANGED <<paid, todo>>
    /\ UNCHANGED <<period, runVars, paying, touched>>

\* Mutant: a failed query is tried again, for ever.
stopPaying_retries(r) == UNCHANGED <<paying, todo, paid>>

\* processPayment() throws: Paystack is not connected or refuses, or a query fails.
stopPaying(r) ==
    /\ paying' = paying \ {r}
    /\ todo' = [todo EXCEPT ![r] = {}]
    /\ UNCHANGED paid

\* Mutant: what Paystack refused gets its row as well.
itemAnswered_refused(r) ==
    /\ r \in paying /\ Pay!settle(r)
    /\ addRow(r, call[r].ref[2], "PROCESSING") /\ doneWith(r, call[r].ref[2])
    /\ UNCHANGED <<period, runVars, touched, paying>>

itemAnswered(r) ==
    /\ r \in paying /\ Pay!settle(r)
    /\ \/ /\ call[r].answer = "ok"
          /\ addRow(r, call[r].ref[2], "PROCESSING") /\ doneWith(r, call[r].ref[2])
          /\ UNCHANGED paying
       \/ call[r].answer = "refused" /\ stopPaying(r)
    /\ UNCHANGED <<period, runVars, touched>>

itemFails(r) ==
    /\ r \in paying /\ stopPaying(r)
    /\ \/ Pay!connectionFails(r)
       \/ call[r] = Pay!idle /\ todo[r] # {} /\ UNCHANGED payVars
    /\ UNCHANGED <<period, runVars, touched>>

finishPaystack(r) ==
    /\ r \in paying /\ todo[r] = {}
    /\ run' = [run EXCEPT ![r] = "PAYMENT_PROCESSING"]
    /\ paying' = paying \ {r}
    /\ UNCHANGED <<period, items, approvals, paid, todo, touched, payVars>>

---------------------------------------------------------------------------
(* Paystack, requests to verify, and a restart. *)

askElsewhere(v, x) ==
    /\ Pay!initializePaystackPayment(v, x) \/ Pay!verifyPaystackPayment(v, x)
    /\ touched' = touched \cup {x}

\* The portal, which may give any record the reference of an item.
book(x) ==
    /\ Pay!recordPayment(x) \/ \E i \in DOMAIN payments : Pay!reconcilePayment(i, x)
    /\ touched' = touched \cup ({x} \cap (Run \X Employee))

paystackStep ==
    /\ \/ /\ \/ Pay!Paystack
             \/ \E c \in Run \cup Verifier : Pay!paystackAnswers(c)
             \/ \E v \in Verifier : Pay!settle(v) \/ Pay!connectionFails(v)
          /\ UNCHANGED touched
       \/ \E v \in Verifier, x \in Run \X Employee : askElsewhere(v, x)
       \/ \E x \in (Run \X Employee) \cup {None} : book(x)
    /\ UNCHANGED <<period, runVars, paid, paying, todo>>

\* Collections are files and survive; suspended requests do not.
restart ==
    /\ call' = [c \in Run \cup Verifier |-> Pay!idle]
    /\ paying' = {}
    /\ todo' = [r \in Run |-> {}]
    /\ UNCHANGED <<period, runVars, paid, touched, payments, seen, charge, events>>

PayNext(r) ==
    \/ \E e \in Employee : payItem(r, e)
    \/ itemAnswered(r) \/ itemFails(r) \/ finishPaystack(r)

Next ==
    \/ \E p \in Period, s \in PeriodStatus :
          createPayrollPeriod(p, s) \/ updatePayrollPeriod(p, s)
    \/ \E r \in Run :
          \/ \E p \in Period, staff \in SUBSET Employee : createPayrollRun(r, p, staff)
          \/ approveRun(r) \/ rejectRun(r) \/ lockRun(r) \/ cancelRun(r)
          \/ payManually(r) \/ payByPaystack(r) \/ PayNext(r)
    \/ paystackStep
    \/ restart

Spec == Init /\ [][Next]_vars

\* Every query to Paystack is answered or fails, and what it resumes runs.
Fairness ==
    \A r \in Run : WF_vars(PayNext(r)) /\ WF_vars(Pay!paystackAnswers(r) /\ paystackStep)

FairSpec == Spec /\ Fairness

---------------------------------------------------------------------------
(* Properties. *)

rows(x) == paid[x]["PROCESSING"] + paid[x]["SUCCESS"]

\* No item is paid twice, by hand or through Paystack, in a retry, after a
\* restart or by two requests at once: it has at most one row.
ItemPaidOnce == \A x \in Run \X Employee : rows(x) <= 1

\* Only what somebody approved is paid, and only the items of the run.
PaidWasApproved ==
    \A r \in Run, e \in Employee : rows(<<r, e>>) > 0 =>
        "APPROVED" \in approvals[r] /\ e \in items[r]

\* A run that is paid or locked has paid every item: a payment that is only
\* initialized, or was cut off by a refusal or a restart, does not count.
PaidRunIsPaid ==
    \A r \in Run : run[r] \in {"PAID", "LOCKED"} =>
        \A e \in items[r] : paid[<<r, e>>]["SUCCESS"] = 1

\* What these three rest on: a run leaves APPROVED when it is paid and never
\* returns, an item still to pay has no row, and a query awaits its item's answer.
PayInv ==
    \A r \in Run :
        /\ run[r] = "APPROVED" \/ r \in paying => "APPROVED" \in approvals[r]
        /\ r \in paying => run[r] \in {"PAYMENT_PROCESSING", "CANCELLED", "REJECTED"}
        /\ \A e \in Employee : rows(<<r, e>>) > 0 =>
              run[r] \notin {"absent", "PENDING_APPROVAL", "APPROVED"}
        /\ \A e \in todo[r] : r \in paying /\ e \in items[r] /\ rows(<<r, e>>) = 0
        /\ call[r] # Pay!idle =>
              r \in paying /\ \E e \in todo[r] : call[r].ref = <<r, e>>

\* The inductive invariant of the proofs.
Inv == TypeOK /\ ItemPaidOnce /\ PaidWasApproved /\ PaidRunIsPaid /\ PayInv

\* A row of a payment through Paystack stands for a charge that Paystack opened.
\* Only a reference that a request beside the payroll named, or the portal
\* recorded, may have had a record before its run was paid, and a row without.
RowHasCharge ==
    \A x \in Run \X Employee :
        paid[x]["PROCESSING"] > 0 => charge[x] # "none" \/ x \in touched

\* A request to pay a run through Paystack ends.
PayingEnds == \A r \in Run : r \in paying ~> r \notin paying

(* A message of the code that its handlers do not keep. *)

\* payroll.service.js:472 "Only approved payroll runs can be processed for
\* payment.": no payment of a run is recorded once it is rejected or cancelled.
OnlyApprovedIsPaid ==
    [][\A r \in Run, e \in Employee :
          paid'[<<r, e>>] # paid[<<r, e>>] => run[r] \in {"APPROVED", "PAYMENT_PROCESSING"}]_vars

=============================================================================
