------------------------------- MODULE Bills -------------------------------
(***************************************************************************)
(* Vendor bills: approval level by level, payment in parts, the expense    *)
(* recorded when one is paid. The accountant's portal writes the same rows *)
(* with the body of its request, statuses and amounts included, and        *)
(* records payments in fields of its own that bill.service.js does not     *)
(* read. Every handler is one synchronous step.                            *)
(***************************************************************************)
EXTENDS Integers

CONSTANTS
    Bill, Person,
    Amount,      \* totals and payments (bound)
    Written,     \* the amounts in a body of the portal (bound)
    TwoFrom,     \* 500000: above it a bill has two levels
    ThreeFrom,   \* 2000000: above it three
    MaxPortal,   \* what the portal records as paid of one bill (bound)
    MaxPrices,   \* how often the portal writes the amounts of one bill (bound)
    None

BillsConstants ==
    /\ Amount \subseteq Nat \ {0} /\ Written \subseteq Nat
    /\ TwoFrom \in Nat /\ ThreeFrom \in Nat /\ MaxPortal \in Nat /\ MaxPrices \in Nat
    /\ None \notin Person /\ "PENDING" \notin Person

VARIABLES
    bill,           \* rows of bills
    billApproval,   \* per bill and level: no row, a pending one, or who approved
    paidRows,       \* per bill: the sum of its rows in bill_payments
    recorded        \* per bill: its rows in expenses

vars == <<bill, billApproval, paidRows, recorded>>

Open == {"SUBMITTED", "UNDER_REVIEW", "PENDING_APPROVAL"}
Status == Open \cup {"DRAFT", "APPROVED", "SCHEDULED", "PARTIALLY_PAID", "PAID", "DISPUTED",
                     "REJECTED", "CANCELLED"}

noBill ==
    [status |-> "absent", approval |-> "PENDING", owner |-> None, total |-> 0, paid |-> 0,
     due |-> 0, level |-> 0, required |-> 0, portal |-> 0, prices |-> 0, edited |-> FALSE]

Init ==
    /\ bill = [b \in Bill |-> noBill]
    /\ billApproval = [b \in Bill |-> [l \in 1..3 |-> None]]
    /\ paidRows = [b \in Bill |-> 0]
    /\ recorded = [b \in Bill |-> 0]

getRequiredApprovalLevels(n) == IF n <= TwoFrom THEN 1 ELSE IF n <= ThreeFrom THEN 2 ELSE 3

money == <<paidRows, recorded>>
openLevel(b, l) == billApproval' = [billApproval EXCEPT ![b][l] = "PENDING"]

---------------------------------------------------------------------------
(* bill.service.js. *)

createBill(b, o, n, draft) ==
    /\ bill[b] = noBill
    /\ bill' = [bill EXCEPT ![b] =
           [noBill EXCEPT !.status = IF draft THEN "DRAFT" ELSE "SUBMITTED", !.owner = o,
                          !.total = n, !.due = n, !.level = IF draft THEN 0 ELSE 1,
                          !.required = getRequiredApprovalLevels(n)]]
    /\ IF draft THEN UNCHANGED billApproval ELSE openLevel(b, 1)
    /\ UNCHANGED money

submitBill(b) ==
    /\ bill[b].status = "DRAFT"
    /\ bill' = [bill EXCEPT ![b].status = "SUBMITTED", ![b].level = 1]
    /\ openLevel(b, 1)
    /\ UNCHANGED money

\* The levels of a row the portal created, which has no such fields, are computed.
approveBill(b, a) ==
    LET l == IF bill[b].level = 0 THEN 1 ELSE bill[b].level
        required == IF bill[b].required = 0 THEN getRequiredApprovalLevels(bill[b].total)
                    ELSE bill[b].required
        last == l >= required
        given == [billApproval EXCEPT ![b][l] = a]
    IN  /\ bill[b].status \in Open
        /\ a # bill[b].owner
        /\ billApproval' = IF last THEN given ELSE [given EXCEPT ![b][l + 1] = "PENDING"]
        /\ bill' = [bill EXCEPT
               ![b].status = IF last THEN "APPROVED" ELSE "PENDING_APPROVAL",
               ![b].approval = IF last THEN "APPROVED" ELSE "PENDING",
               ![b].level = IF last THEN bill[b].level ELSE l + 1]
        /\ UNCHANGED money

\* In any state, a bill that was paid included.
rejectBill(b) ==
    /\ bill[b] # noBill
    /\ bill' = [bill EXCEPT ![b].status = "REJECTED", ![b].approval = "REJECTED"]
    /\ UNCHANGED <<billApproval, money>>

\* In any state. Nothing but a rejection or a cancellation follows.
disputeBill(b) ==
    /\ bill[b] # noBill
    /\ bill' = [bill EXCEPT ![b].status = "DISPUTED"]
    /\ UNCHANGED <<billApproval, money>>

cancelBill(b) ==
    /\ bill[b].status \notin {"absent", "PAID", "CANCELLED"}
    /\ bill' = [bill EXCEPT ![b].status = "CANCELLED"]
    /\ UNCHANGED <<billApproval, money>>

schedulePayment(b) ==
    /\ bill[b].approval = "APPROVED"
    /\ bill[b].status \in {"APPROVED", "SCHEDULED"}
    /\ bill' = [bill EXCEPT ![b].status = "SCHEDULED"]
    /\ UNCHANGED <<billApproval, money>>

\* calculatePaymentState: what is due falls below zero, and the status is that of
\* a part payment, when a body had the row say that more was due than was left.
paidInFull(b, n) == bill[b].paid + n = bill[b].total

\* Mutant: what is due is not reduced.
recordPayment_stillDue(b, a, n) ==
    /\ bill[b].approval = "APPROVED"
    /\ bill[b].status \in {"APPROVED", "PARTIALLY_PAID", "SCHEDULED"}
    /\ a # bill[b].owner
    /\ n <= bill[b].due
    /\ bill' = [bill EXCEPT ![b].paid = @ + n,
                            ![b].status = IF paidInFull(b, n) THEN "PAID" ELSE "PARTIALLY_PAID"]
    /\ paidRows' = [paidRows EXCEPT ![b] = @ + n]
    /\ recorded' = [recorded EXCEPT ![b] = IF paidInFull(b, n) /\ @ = 0 THEN 1 ELSE @]
    /\ UNCHANGED billApproval

\* By somebody else than the creator of the row.
recordPayment(b, a, n) ==
    /\ bill[b].approval = "APPROVED"
    /\ bill[b].status \in {"APPROVED", "PARTIALLY_PAID", "SCHEDULED"}
    /\ a # bill[b].owner
    /\ n <= bill[b].due
    /\ bill' = [bill EXCEPT ![b].paid = @ + n, ![b].due = bill[b].total - (bill[b].paid + n),
                            ![b].status = IF paidInFull(b, n) THEN "PAID" ELSE "PARTIALLY_PAID"]
    /\ paidRows' = [paidRows EXCEPT ![b] = @ + n]
    /\ recorded' = [recorded EXCEPT ![b] = IF paidInFull(b, n) /\ @ = 0 THEN 1 ELSE @]
    /\ UNCHANGED billApproval

---------------------------------------------------------------------------
(* The accountant's portal. *)

\* createScopedRecord: the fields of the row are those of the body, its amounts
\* (total n, paid p, due d) and its statuses included.
portalCreates(b, o, s, approval, n, p, d) ==
    /\ bill[b] = noBill
    /\ bill' = [bill EXCEPT ![b] =
           [noBill EXCEPT !.status = s, !.approval = approval, !.owner = o, !.total = n,
                          !.paid = p, !.due = d, !.prices = 1, !.edited = TRUE]]
    /\ UNCHANGED <<billApproval, money>>

\* writeScopedRecord: the body overwrites the row; first its statuses, then its
\* amounts (a body with both is the one after the other). The levels and the
\* creator, which a body may write too, decide nothing that is claimed of a row
\* whose statuses it could have chosen.
portalUpdates(b, s, approval) ==
    /\ bill[b] # noBill
    /\ bill' = [bill EXCEPT ![b].status = s, ![b].approval = approval, ![b].edited = TRUE]
    /\ UNCHANGED <<billApproval, money>>

portalPrices(b, n, p, d) ==
    /\ bill[b] # noBill
    /\ bill[b].prices < MaxPrices
    /\ bill' = [bill EXCEPT ![b].total = n, ![b].paid = p, ![b].due = d,
                            ![b].prices = @ + 1, ![b].edited = TRUE]
    /\ UNCHANGED <<billApproval, money>>

\* recordSourcePayment: of a bill in any state, of any amount.
portalPays(b, n) ==
    /\ bill[b] # noBill
    /\ bill[b].portal + n <= MaxPortal
    /\ bill' = [bill EXCEPT ![b].portal = @ + n]
    /\ UNCHANGED <<billApproval, money>>

Service(b) ==
    \/ \E o \in Person, n \in Amount, draft \in BOOLEAN : createBill(b, o, n, draft)
    \/ submitBill(b)
    \/ \E a \in Person : approveBill(b, a)
    \/ rejectBill(b)
    \/ disputeBill(b)
    \/ cancelBill(b)
    \/ schedulePayment(b)
    \/ \E a \in Person, n \in Amount : recordPayment(b, a, n)

Approvals == {"PENDING", "APPROVED", "REJECTED"}

Portal(b) ==
    \/ \E o \in Person, s \in Status, approval \in Approvals, n, p, d \in Written :
           portalCreates(b, o, s, approval, n, p, d)
    \/ \E s \in Status, approval \in Approvals : portalUpdates(b, s, approval)
    \/ \E n, p, d \in Written : portalPrices(b, n, p, d)
    \/ \E n \in Amount : portalPays(b, n)

Next == \E b \in Bill : Service(b) \/ Portal(b)

Spec == Init /\ [][Next]_vars

---------------------------------------------------------------------------
(* Properties. *)

\* Of a bill whose amounts no body wrote, the payments never exceed the total, the
\* row says what they are and what is left, and the expense is recorded, once, when
\* it is paid in full. One that no body wrote at all is paid, even in part, only
\* after every level its total calls for was approved by somebody else than its
\* creator. Of no bill is an expense recorded of which nothing was paid.
PaidAsApproved ==
    \A b \in Bill :
        /\ bill[b].prices = 0 =>
              /\ paidRows[b] = bill[b].paid
              /\ bill[b].paid + bill[b].due = bill[b].total
              /\ bill[b].due >= 0
              /\ recorded[b] = IF bill[b].paid > 0 /\ bill[b].due = 0 THEN 1 ELSE 0
        /\ paidRows[b] > 0 /\ ~ bill[b].edited =>
              \A l \in 1..getRequiredApprovalLevels(bill[b].total) :
                  billApproval[b][l] \in Person \ {bill[b].owner}
        /\ recorded[b] > 0 => paidRows[b] > 0

---------------------------------------------------------------------------
(* The invariant PaidAsApproved follows from. *)

Row ==
    [status : Status \cup {"absent"}, approval : Approvals, owner : Person \cup {None},
     total : Nat, paid : Nat, due : Int, level : 0..3, required : 0..3, portal : Nat,
     prices : Nat, edited : BOOLEAN]
Signatures == [1..3 -> Person \cup {None, "PENDING"}]

\* Of a row r whose amounts no body wrote, with the payments p and the expenses e.
MoneyAgrees(r, p, e) ==
    /\ p = r.paid
    /\ r.paid + r.due = r.total
    /\ r.due >= 0
    /\ e = IF r.paid > 0 /\ r.due = 0 THEN 1 ELSE 0

\* Of an unedited row r with the approvals g and the payments p.
SignedUpTo(r, g, l) == \A k \in 1..l : g[k] \in Person \ {r.owner}

ApprovalsAgree(r, g, p) ==
    /\ r.status # "absent" => r.required = getRequiredApprovalLevels(r.total)
    /\ r.status \in Open => /\ r.approval # "APPROVED"
                            /\ r.level \in 1..r.required
                            /\ SignedUpTo(r, g, r.level - 1)
    /\ r.approval = "APPROVED" \/ p > 0 =>
           /\ r.status \notin Open \cup {"DRAFT", "absent"}
           /\ SignedUpTo(r, g, r.required)

BillAgrees(r, g, p, e) ==
    /\ r.status = "absent" => r = noBill
    /\ r.prices = 0 => MoneyAgrees(r, p, e)
    /\ ~ r.edited => r.prices = 0 /\ ApprovalsAgree(r, g, p)
    /\ e > 0 => p > 0

TypeOK ==
    /\ bill \in [Bill -> Row]
    /\ billApproval \in [Bill -> Signatures]
    /\ paidRows \in [Bill -> Nat]
    /\ recorded \in [Bill -> 0..1]

Inv ==
    /\ TypeOK
    /\ \A b \in Bill : BillAgrees(bill[b], billApproval[b], paidRows[b], recorded[b])
=============================================================================
