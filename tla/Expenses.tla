------------------------------ MODULE Expenses ------------------------------
(***************************************************************************)
(* Expense claims, the policy they are held against, their approval level  *)
(* by level and their reimbursement in parts. The accountant's portal      *)
(* records payments of the same rows in fields of its own, which no        *)
(* handler of the claims reads. Every handler is one synchronous step.     *)
(***************************************************************************)
EXTENDS Integers

CONSTANTS
    Expense, Person,
    Amount,        \* amounts of money (bound)
    FinanceFrom,   \* 75000: above it finance approves whatever the policy says
    BoardFrom,     \* 500000: above it there is a further level
    MaxAside,      \* sums that no handler of the claims reads back (bound)
    None

ExpensesConstants ==
    /\ Amount \subseteq Nat \ {0}
    /\ FinanceFrom \in Nat /\ BoardFrom \in Nat /\ MaxAside \in Nat
    /\ None \notin Person \cup {"PENDING"} /\ "PENDING" \notin Person

VARIABLES
    policy,            \* the policy that applies to the claims
    expense,           \* rows of expenses
    expenseApproval,   \* per claim and level: no row, a pending one, or who approved
    reimbursed,        \* per claim: the sum of its reimbursement rows that are PAID
    sent               \* per claim: the sum of those that are PROCESSING

vars == <<policy, expense, expenseApproval, reimbursed, sent>>

Level == 1..3
Open == {"SUBMITTED", "UNDER_REVIEW"}
Payable == {"APPROVED", "PROCESSING"}

noExpense ==
    [status |-> "absent", reimbursement |-> "NOT_REQUIRED", owner |-> None, amount |-> 0,
     approved |-> 0, level |-> 0, required |-> 0, receipt |-> FALSE, portal |-> 0,
     lead |-> FALSE]

\* ensureDefaultPolicies makes policies that allow reimbursement; users edit them.
Policies ==
    [manager : BOOLEAN, finance : BOOLEAN, receipt : BOOLEAN, allowed : BOOLEAN, max : Amount]

Init ==
    /\ policy \in {p \in Policies : p.manager /\ p.allowed}
    /\ expense = [e \in Expense |-> noExpense]
    /\ expenseApproval = [e \in Expense |-> [l \in Level |-> None]]
    /\ reimbursed = [e \in Expense |-> 0]
    /\ sent = [e \in Expense |-> 0]

one(b) == IF b THEN 1 ELSE 0

getRequiredApprovalLevels(n) ==
    LET levels == one(policy.manager) + one(policy.finance \/ n > FinanceFrom) + one(n > BoardFrom)
    IN  IF levels = 0 THEN 1 ELSE levels

\* approvedAmount || amount
approvedAmount(e) == IF expense[e].approved = 0 THEN expense[e].amount ELSE expense[e].approved

---------------------------------------------------------------------------
(* expense.service.js. *)

openLevel(e, l) == expenseApproval' = [expenseApproval EXCEPT ![e][l] = "PENDING"]
pays == <<reimbursed, sent>>

\* A claim that is submitted at once is held against the limit of the policy, but
\* neither against its receipts nor against its refusal of reimbursement.
createExpense(e, o, n, r, draft) ==
    /\ expense[e] = noExpense
    /\ draft \/ n <= policy.max
    /\ expense' = [expense EXCEPT ![e] =
           [status |-> IF draft THEN "DRAFT" ELSE "SUBMITTED",
            reimbursement |-> IF draft THEN "NOT_REQUIRED" ELSE "PENDING",
            owner |-> o, amount |-> n, approved |-> 0, level |-> one(~ draft),
            required |-> getRequiredApprovalLevels(n), receipt |-> r, portal |-> 0,
            lead |-> FALSE]]
    /\ IF draft THEN UNCHANGED expenseApproval ELSE openLevel(e, 1)
    /\ UNCHANGED <<policy, pays>>

updateExpense(e, n) ==
    /\ expense[e].status = "DRAFT"
    /\ expense' = [expense EXCEPT ![e].amount = n]
    /\ UNCHANGED <<policy, expenseApproval, pays>>

\* Mutant: the levels computed for the draft are kept.
submitExpense_stale(e) ==
    /\ expense[e].status = "DRAFT"
    /\ expense[e].amount <= policy.max
    /\ policy.receipt => expense[e].receipt
    /\ expense' = [expense EXCEPT
           ![e].status = "SUBMITTED", ![e].level = 1,
           ![e].reimbursement = IF policy.allowed THEN "PENDING" ELSE "NOT_REQUIRED"]
    /\ openLevel(e, 1)
    /\ UNCHANGED <<policy, pays>>

submitExpense(e) ==
    /\ expense[e].status = "DRAFT"
    /\ expense[e].amount <= policy.max
    /\ policy.receipt => expense[e].receipt
    /\ expense' = [expense EXCEPT
           ![e].status = "SUBMITTED", ![e].level = 1,
           ![e].required = getRequiredApprovalLevels(expense[e].amount),
           ![e].reimbursement = IF policy.allowed THEN "PENDING" ELSE "NOT_REQUIRED"]
    /\ openLevel(e, 1)
    /\ UNCHANGED <<policy, pays>>

\* By anybody but the claimant, the same person at every level included, of any
\* amount up to the claimed one.
approveExpense(e, a, n) ==
    LET l == expense[e].level
        last == l >= expense[e].required
        given == [expenseApproval EXCEPT ![e][l] = a]
    IN  /\ expense[e].status \in Open
        /\ a # expense[e].owner
        /\ n <= expense[e].amount
        /\ expenseApproval' = IF last THEN given ELSE [given EXCEPT ![e][l + 1] = "PENDING"]
        /\ expense' = [expense EXCEPT
               ![e].status = IF last THEN "APPROVED" ELSE "UNDER_REVIEW",
               ![e].level = IF last THEN l ELSE l + 1,
               ![e].approved = n,
               ![e].reimbursement = IF last /\ @ # "NOT_REQUIRED" THEN "PENDING" ELSE @]
        /\ UNCHANGED <<policy, pays>>

\* In any state, a completed claim included.
rejectExpense(e) ==
    /\ expense[e] # noExpense
    /\ expense' = [expense EXCEPT ![e].status = "REJECTED", ![e].reimbursement = "NOT_REQUIRED"]
    /\ UNCHANGED <<policy, expenseApproval, pays>>

cancelExpense(e) ==
    /\ expense[e].status \notin {"absent", "COMPLETED", "CANCELLED"}
    /\ expense' = [expense EXCEPT ![e].status = "CANCELLED", ![e].reimbursement = "NOT_REQUIRED"]
    /\ UNCHANGED <<policy, expenseApproval, pays>>

addReceipt(e) ==
    /\ expense[e] # noExpense
    /\ expense' = [expense EXCEPT ![e].receipt = TRUE]
    /\ UNCHANGED <<policy, expenseApproval, pays>>

\* A row of n in status s; only rows that are PAID count against what remains.
\* A row that is PROCESSING stays so: no handler settles it.
processReimbursement(e, a, n, s) ==
    LET total == reimbursed[e] + (IF s = "PAID" THEN n ELSE 0)
        paid == total >= approvedAmount(e)
    IN  /\ expense[e].status \in Payable
        /\ a # expense[e].owner
        /\ expense[e].reimbursement # "NOT_REQUIRED"
        /\ n <= approvedAmount(e) - reimbursed[e]
        /\ reimbursed' = [reimbursed EXCEPT ![e] = total]
        /\ sent' = [sent EXCEPT ![e] = @ + (IF s = "PROCESSING" THEN n ELSE 0)]
        /\ expense' = [expense EXCEPT
               ![e].status = IF paid THEN "COMPLETED" ELSE "PROCESSING",
               ![e].reimbursement = IF s = "FAILED" THEN "FAILED"
                                    ELSE IF paid THEN "PAID" ELSE "PROCESSING"]
        /\ UNCHANGED <<policy, expenseApproval>>

\* One field at a time: a body with several is as good as several bodies.
updatePolicy ==
    /\ policy' \in {[policy EXCEPT ![f] = b] :
                       f \in {"manager", "finance", "receipt", "allowed"}, b \in BOOLEAN}
                   \cup {[policy EXCEPT !.max = m] : m \in Amount}
    /\ UNCHANGED <<expense, expenseApproval, pays>>

---------------------------------------------------------------------------
(* The portals. *)

\* The accountant's recordSourcePayment: of any claim in any state, of any amount.
portalPays(e, n) ==
    /\ expense[e] # noExpense
    /\ expense[e].portal + n <= MaxAside
    /\ expense' = [expense EXCEPT ![e].portal = @ + n]
    /\ UNCHANGED <<policy, expenseApproval, pays>>

\* The lead's updateStatus: in any state, at no level, and nothing but the status
\* (the body it also spreads over the row is left out).
leadDecides(e, s) ==
    /\ expense[e] # noExpense
    /\ expense' = [expense EXCEPT ![e].status = s, ![e].lead = @ \/ s = "APPROVED"]
    /\ UNCHANGED <<policy, expenseApproval, pays>>

Handler(e) ==
    \/ \E o \in Person, n \in Amount, r, draft \in BOOLEAN : createExpense(e, o, n, r, draft)
    \/ \E n \in Amount : updateExpense(e, n)
    \/ submitExpense(e)
    \/ \E a \in Person, n \in Amount : approveExpense(e, a, n)
    \/ rejectExpense(e)
    \/ cancelExpense(e)
    \/ addReceipt(e)
    \/ \E a \in Person, n \in Amount, s \in {"PROCESSING", "PAID", "FAILED"} :
          sent[e] + n <= MaxAside /\ processReimbursement(e, a, n, s)
    \/ \E n \in Amount : portalPays(e, n)
    \/ \E s \in {"APPROVED", "REJECTED"} : leadDecides(e, s)

Next == (\E e \in Expense : Handler(e)) \/ updatePolicy

Spec == Init /\ [][Next]_vars

---------------------------------------------------------------------------
(* Properties. *)

\* Every level the amount calls for, whatever the policy was when the claim was
\* drafted, was approved by somebody else than the claimant.
ApprovedInFull(e) ==
    /\ expense[e].required >= one(expense[e].amount > FinanceFrom) + one(expense[e].amount > BoardFrom)
    /\ \A l \in 1..expense[e].required : expenseApproval[e][l] \in Person \ {expense[e].owner}

\* Money is reimbursed only of a claim that was approved in full at its present
\* amount, or by a lead in one go, and never more of it than was approved; and a
\* claim is complete exactly when all of it is, unless a lead approves it anew:
\* through drafts that change, policies that change, levels that adjust the
\* amount, failed and partial rows, rejections and cancellations.
ReimbursedAsApproved ==
    \A e \in Expense :
        /\ expense[e].status \in Payable \cup {"COMPLETED"} \/ reimbursed[e] > 0 =>
              expense[e].lead \/ ApprovedInFull(e)
        /\ reimbursed[e] <= approvedAmount(e)
        /\ approvedAmount(e) <= expense[e].amount
        /\ expense[e].status = "COMPLETED" =>
              reimbursed[e] = approvedAmount(e) /\ expense[e].reimbursement = "PAID"
        /\ expense[e].status \in Payable => expense[e].lead \/ reimbursed[e] < approvedAmount(e)
---------------------------------------------------------------------------
(* The invariant ReimbursedAsApproved follows from. *)

Status == Open \cup Payable \cup {"DRAFT", "COMPLETED", "REJECTED", "CANCELLED"}
Reimbursement == {"NOT_REQUIRED", "PENDING", "PROCESSING", "PAID", "FAILED"}
Row ==
    [status : Status \cup {"absent"}, reimbursement : Reimbursement, owner : Person \cup {None},
     amount : Nat, approved : Nat, level : 0..3, required : 0..3, receipt : BOOLEAN,
     portal : Nat, lead : BOOLEAN]
Signatures == [Level -> Person \cup {None, "PENDING"}]

\* Of a row r with the approvals g and the reimbursements p.
due(r) == IF r.approved = 0 THEN r.amount ELSE r.approved
SignedUpTo(r, g, l) == \A k \in 1..l : g[k] \in Person \ {r.owner}
EnoughLevels(r) == r.required >= one(r.amount > FinanceFrom) + one(r.amount > BoardFrom)

ClaimAgrees(r, g) ==
    /\ r.status = "absent" => r = noExpense
    /\ r.status # "absent" => r.amount > 0
    /\ r.status = "DRAFT" => r.approved = 0
    /\ r.status \in Open => /\ r.level \in 1..r.required
                            /\ EnoughLevels(r)
                            /\ SignedUpTo(r, g, r.level - 1)

ReimbursementAgrees(r, g, p) ==
    /\ r.status \in Open \cup {"DRAFT"} => ~ r.lead /\ p = 0
    /\ r.status \in Payable \cup {"COMPLETED"} \/ p > 0 =>
           r.lead \/ (EnoughLevels(r) /\ SignedUpTo(r, g, r.required))
    /\ p <= due(r) /\ due(r) <= r.amount
    /\ r.status = "COMPLETED" => p = due(r) /\ r.reimbursement = "PAID"
    /\ r.status \in Payable => r.lead \/ p < due(r)

TypeOK ==
    /\ policy \in Policies
    /\ expense \in [Expense -> Row]
    /\ expenseApproval \in [Expense -> Signatures]
    /\ reimbursed \in [Expense -> Nat]

Inv ==
    /\ TypeOK
    /\ \A e \in Expense : /\ ClaimAgrees(expense[e], expenseApproval[e])
                          /\ ReimbursementAgrees(expense[e], expenseApproval[e], reimbursed[e])
=============================================================================
