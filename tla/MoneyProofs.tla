---------------------------- MODULE MoneyProofs ----------------------------
(***************************************************************************)
(* No money leaves the office that was not approved: of expense claims,    *)
(* purchases and bills, for all persons, rows, amounts and levels. Each    *)
(* part has an inductive invariant, Inv at the end of its module, which    *)
(* relates every row to its approvals and to what was paid of it; s1 .. s5 *)
(* are the variables of the part that is explored.                         *)
(***************************************************************************)
EXTENDS Workflows, TLAPS

---------------------------------------------------------------------------
(* Bills. *)

LEMMA BillsAssumed ==
    /\ Billed \subseteq Nat \ {0} /\ Written \subseteq Nat
    /\ TwoFrom \in Nat /\ ThreeFrom \in Nat
    /\ None \notin Person /\ "PENDING" \notin Person
BY WorkflowsAssumption DEF Bil!BillsConstants

LEMMA BillsStart == Bil!Init => Bil!Inv
<1> SUFFICES ASSUME Bil!Init PROVE Bil!Inv
  OBVIOUS
<1>1. Bil!noBill \in Bil!Row
  BY DEF Bil!noBill, Bil!Row, Bil!Approvals
<1>2. [l \in 1..3 |-> None] \in Bil!Signatures
  BY DEF Bil!Signatures
<1>3. Bil!TypeOK
  BY <1>1, <1>2 DEF Bil!Init, Bil!TypeOK
<1>4. Bil!BillAgrees(Bil!noBill, [l \in 1..3 |-> None], 0, 0)
  BY DEF Bil!BillAgrees, Bil!MoneyAgrees, Bil!ApprovalsAgree, Bil!noBill, Bil!Open
<1> QED
  BY <1>3, <1>4 DEF Bil!Init, Bil!Inv

\* A step writes one bill, and keeps the invariant when it keeps that bill's.
LEMMA OneBill ==
    ASSUME Bil!Inv, NEW b \in Bill,
           /\ s1' = [s1 EXCEPT ![b] = s1'[b]]
           /\ s2' = [s2 EXCEPT ![b] = s2'[b]]
           /\ s3' = [s3 EXCEPT ![b] = s3'[b]]
           /\ s4' = [s4 EXCEPT ![b] = s4'[b]],
           /\ s1'[b] \in Bil!Row
           /\ s2'[b] \in Bil!Signatures
           /\ s3'[b] \in Nat
           /\ s4'[b] \in 0..1,
           Bil!BillAgrees(s1'[b], s2'[b], s3'[b], s4'[b])
    PROVE  Bil!Inv'
<1>1. Bil!TypeOK'
  BY DEF Bil!Inv, Bil!TypeOK
<1>2. ASSUME NEW c \in Bill PROVE Bil!BillAgrees(s1'[c], s2'[c], s3'[c], s4'[c])
  <2>1. CASE c = b
    BY <2>1 DEF Bil!Inv, Bil!TypeOK
  <2>2. CASE c # b
    BY <2>2 DEF Bil!Inv, Bil!TypeOK
  <2> QED
    BY <2>1, <2>2
<1> QED
  BY <1>1, <1>2 DEF Bil!Inv, Bil!BillAgrees, Bil!MoneyAgrees, Bil!ApprovalsAgree, Bil!SignedUpTo

LEMMA BillLevels ==
    ASSUME NEW n \in Nat
    PROVE  Bil!getRequiredApprovalLevels(n) \in 1..3
BY DEF Bil!getRequiredApprovalLevels

LEMMA BillFacts ==
    ASSUME Bil!Inv, NEW b \in Bill
    PROVE  /\ s1[b] \in Bil!Row /\ s2[b] \in Bil!Signatures /\ s3[b] \in Nat /\ s4[b] \in 0..1
           /\ Bil!BillAgrees(s1[b], s2[b], s3[b], s4[b])
BY DEF Bil!Inv, Bil!TypeOK

\* What leaves the approvals and the money alone.
LEMMA OnlyTheRow ==
    ASSUME Bil!Inv, NEW b \in Bill, UNCHANGED <<s2, s3, s4>>
    PROVE  /\ s2' = [s2 EXCEPT ![b] = s2'[b]] /\ s2'[b] = s2[b]
           /\ s3' = [s3 EXCEPT ![b] = s3'[b]] /\ s3'[b] = s3[b]
           /\ s4' = [s4 EXCEPT ![b] = s4'[b]] /\ s4'[b] = s4[b]
BY DEF Bil!Inv, Bil!TypeOK

\* A row is its fields.
LEMMA BillFields ==
    ASSUME NEW r \in Bil!Row
    PROVE  r = [status |-> r.status, approval |-> r.approval, owner |-> r.owner,
                total |-> r.total, paid |-> r.paid, due |-> r.due, level |-> r.level,
                required |-> r.required, portal |-> r.portal, prices |-> r.prices,
                edited |-> r.edited]
BY DEF Bil!Row

LEMMA BillCreated ==
    ASSUME Bil!Inv, NEW b \in Bill, NEW o \in Person, NEW n \in Billed, NEW draft \in BOOLEAN,
           Bil!createBill(b, o, n, draft)
    PROVE  Bil!Inv'
<1>1. n \in Nat \ {0} /\ Bil!getRequiredApprovalLevels(n) \in 1..3
  BY BillLevels, BillsAssumed
<1>2. s1'[b] = [status |-> IF draft THEN "DRAFT" ELSE "SUBMITTED", approval |-> "PENDING",
                owner |-> o, total |-> n, paid |-> 0, due |-> n,
                level |-> IF draft THEN 0 ELSE 1,
                required |-> Bil!getRequiredApprovalLevels(n), portal |-> 0, prices |-> 0,
                edited |-> FALSE]
  BY DEF Bil!createBill, Bil!Inv, Bil!TypeOK, Bil!noBill
<1>3. s2'[b] = IF draft THEN s2[b] ELSE [s2[b] EXCEPT ![1] = "PENDING"]
  BY DEF Bil!createBill, Bil!openLevel, Bil!Inv, Bil!TypeOK
<1>4. s3[b] = 0 /\ s4[b] = 0 /\ UNCHANGED <<s3, s4>>
  BY BillFacts DEF Bil!createBill, Bil!BillAgrees, Bil!MoneyAgrees, Bil!noBill, Bil!money
<1>5. /\ s1' = [s1 EXCEPT ![b] = s1'[b]]
      /\ s2' = [s2 EXCEPT ![b] = s2'[b]]
      /\ s3' = [s3 EXCEPT ![b] = s3'[b]]
      /\ s4' = [s4 EXCEPT ![b] = s4'[b]]
  BY <1>4 DEF Bil!createBill, Bil!openLevel, Bil!Inv, Bil!TypeOK
<1>6. s1'[b] \in Bil!Row
  BY <1>1, <1>2 DEF Bil!Row, Bil!Approvals, Bil!Status, Bil!Open
<1>7. s2'[b] \in Bil!Signatures
  BY <1>3, BillFacts DEF Bil!Signatures
<1>8. Bil!BillAgrees(s1'[b], s2'[b], 0, 0)
  BY <1>1, <1>2
     DEF Bil!BillAgrees, Bil!MoneyAgrees, Bil!ApprovalsAgree, Bil!Open, Bil!SignedUpTo
<1> QED
  BY <1>4, <1>5, <1>6, <1>7, <1>8, OneBill

LEMMA BillSubmitted ==
    ASSUME Bil!Inv, NEW b \in Bill, Bil!submitBill(b)
    PROVE  Bil!Inv'
<1>1. /\ s1[b] \in Bil!Row /\ s2[b] \in Bil!Signatures /\ s3[b] \in Nat /\ s4[b] \in 0..1
      /\ Bil!BillAgrees(s1[b], s2[b], s3[b], s4[b])
  BY BillFacts
<1>2. /\ s1[b].status = "DRAFT"
      /\ s1'[b] = [s1[b] EXCEPT !.status = "SUBMITTED", !.level = 1]
      /\ s2'[b] = [s2[b] EXCEPT ![1] = "PENDING"]
      /\ UNCHANGED <<s3, s4>>
  BY DEF Bil!submitBill, Bil!openLevel, Bil!money, Bil!Inv, Bil!TypeOK
<1>3. /\ s1' = [s1 EXCEPT ![b] = s1'[b]]
      /\ s2' = [s2 EXCEPT ![b] = s2'[b]]
      /\ s3' = [s3 EXCEPT ![b] = s3'[b]]
      /\ s4' = [s4 EXCEPT ![b] = s4'[b]]
  BY DEF Bil!submitBill, Bil!openLevel, Bil!Inv, Bil!TypeOK, Bil!money
<1>4. s1'[b] \in Bil!Row
  <2>1. s1'[b] = [status |-> "SUBMITTED", approval |-> s1[b].approval, owner |-> s1[b].owner,
                  total |-> s1[b].total, paid |-> s1[b].paid, due |-> s1[b].due, level |-> 1,
                  required |-> s1[b].required, portal |-> s1[b].portal,
                  prices |-> s1[b].prices, edited |-> s1[b].edited]
    BY <1>1, <1>2, BillFields
  <2> QED
    BY <1>1, <2>1 DEF Bil!Row, Bil!Status, Bil!Open
<1>5. s2'[b] \in Bil!Signatures
  BY <1>1, <1>2 DEF Bil!Signatures
<1>6. Bil!BillAgrees(s1'[b], s2'[b], s3[b], s4[b])
  BY <1>1, <1>2, BillLevels
     DEF Bil!BillAgrees, Bil!MoneyAgrees, Bil!ApprovalsAgree, Bil!Open, Bil!SignedUpTo, Bil!Row
<1> QED
  BY <1>1, <1>2, <1>3, <1>4, <1>5, <1>6, OneBill

\* The statuses, the portal's payments and the mark of its edits are all that is written,
\* and the new statuses of an unedited row call for no approval it does not have.
LEMMA StatusWritten ==
    ASSUME Bil!Inv, NEW b \in Bill,
           NEW s \in Bil!Status, NEW a \in Bil!Approvals,
           NEW q \in Nat, NEW x \in BOOLEAN,
           s1[b] # Bil!noBill,
           s1' = [s1 EXCEPT ![b] = s1'[b]], UNCHANGED <<s2, s3, s4>>,
           s1'[b] = [status |-> s, approval |-> a, owner |-> s1[b].owner, total |-> s1[b].total,
                     paid |-> s1[b].paid, due |-> s1[b].due, level |-> s1[b].level,
                     required |-> s1[b].required, portal |-> q, prices |-> s1[b].prices,
                     edited |-> x],
           ~ x => /\ ~ s1[b].edited
                  /\ \/ s = s1[b].status /\ a = s1[b].approval
                     \/ /\ s \notin Bil!Open \cup {"DRAFT"}
                        /\ a = "APPROVED" => s1[b].approval = "APPROVED"
    PROVE  Bil!Inv'
<1>1. /\ s1[b] \in Bil!Row /\ s2[b] \in Bil!Signatures /\ s3[b] \in Nat /\ s4[b] \in 0..1
      /\ Bil!BillAgrees(s1[b], s2[b], s3[b], s4[b])
  BY BillFacts
<1>2. s1[b].status # "absent" /\ s # "absent"
  BY <1>1 DEF Bil!BillAgrees, Bil!Status, Bil!Open
<1>3. s1'[b] \in Bil!Row
  BY <1>1 DEF Bil!Row
<1>4. s1[b].prices = 0 => Bil!MoneyAgrees(s1'[b], s3[b], s4[b])
  BY <1>1 DEF Bil!BillAgrees, Bil!MoneyAgrees
<1>5. ASSUME ~ x PROVE Bil!ApprovalsAgree(s1'[b], s2[b], s3[b])
  BY <1>1, <1>2, <1>5 DEF Bil!BillAgrees, Bil!ApprovalsAgree, Bil!SignedUpTo
<1>6. s1'[b].status = s /\ s1'[b].edited = x /\ s1'[b].prices = s1[b].prices
  OBVIOUS
<1>7. Bil!BillAgrees(s1'[b], s2[b], s3[b], s4[b])
  BY <1>1, <1>2, <1>4, <1>5, <1>6 DEF Bil!BillAgrees
<1> QED
  BY <1>1, <1>3, <1>7, OneBill, OnlyTheRow

LEMMA BillApproved ==
    ASSUME Bil!Inv, NEW b \in Bill, NEW a \in Person, Bil!approveBill(b, a)
    PROVE  Bil!Inv'
<1> DEFINE l == IF s1[b].level = 0 THEN 1 ELSE s1[b].level
           required == IF s1[b].required = 0
                       THEN Bil!getRequiredApprovalLevels(s1[b].total) ELSE s1[b].required
           last == l >= required
           given == [s2[b] EXCEPT ![l] = a]
<1>1. /\ s1[b] \in Bil!Row /\ s2[b] \in Bil!Signatures /\ s3[b] \in Nat /\ s4[b] \in 0..1
      /\ Bil!BillAgrees(s1[b], s2[b], s3[b], s4[b])
  BY BillFacts
<1>2. /\ s1[b].total \in Nat /\ s1[b].level \in 0..3 /\ s1[b].required \in 0..3
      /\ s1[b].edited \in BOOLEAN
  BY <1>1 DEF Bil!Row
<1>3. l \in 1..3 /\ required \in 1..3
  BY <1>2, BillLevels
<1>4. /\ s1[b].status \in Bil!Open /\ a # s1[b].owner
      /\ s1'[b] = [s1[b] EXCEPT !.status = IF last THEN "APPROVED" ELSE "PENDING_APPROVAL",
                                !.approval = IF last THEN "APPROVED" ELSE "PENDING",
                                !.level = IF last THEN s1[b].level ELSE l + 1]
      /\ s2'[b] = IF last THEN given ELSE [given EXCEPT ![l + 1] = "PENDING"]
      /\ UNCHANGED <<s3, s4>>
  BY DEF Bil!approveBill, Bil!money, Bil!Inv, Bil!TypeOK
<1>5. /\ s1' = [s1 EXCEPT ![b] = s1'[b]]
      /\ s2' = [s2 EXCEPT ![b] = s2'[b]]
      /\ s3' = [s3 EXCEPT ![b] = s3'[b]] /\ s3'[b] = s3[b]
      /\ s4' = [s4 EXCEPT ![b] = s4'[b]] /\ s4'[b] = s4[b]
  BY DEF Bil!approveBill, Bil!money, Bil!Inv, Bil!TypeOK
<1>6. s1'[b] = [status |-> IF last THEN "APPROVED" ELSE "PENDING_APPROVAL",
                approval |-> IF last THEN "APPROVED" ELSE "PENDING",
                owner |-> s1[b].owner, total |-> s1[b].total, paid |-> s1[b].paid,
                due |-> s1[b].due, level |-> IF last THEN s1[b].level ELSE l + 1,
                required |-> s1[b].required, portal |-> s1[b].portal, prices |-> s1[b].prices,
                  edited |-> s1[b].edited]
  BY <1>1, <1>4, BillFields
<1> HIDE DEF l, required
<1>7. s1'[b] \in Bil!Row
  BY <1>1, <1>2, <1>3, <1>6 DEF Bil!Row, Bil!Approvals, Bil!Status, Bil!Open
<1>8. s2'[b] \in Bil!Signatures
  BY <1>1, <1>3, <1>4 DEF Bil!Signatures
<1>9. s1[b].prices = 0 => Bil!MoneyAgrees(s1'[b], s3[b], s4[b])
  BY <1>1, <1>6 DEF Bil!BillAgrees, Bil!MoneyAgrees
<1>10. ASSUME ~ s1[b].edited
       PROVE  Bil!ApprovalsAgree(s1'[b], s2'[b], s3[b])
  <2>1. /\ s1[b].required = Bil!getRequiredApprovalLevels(s1[b].total)
        /\ s1[b].level \in 1..s1[b].required
        /\ Bil!SignedUpTo(s1[b], s2[b], s1[b].level - 1)
        /\ s3[b] = 0
    BY <1>1, <1>4, <1>10 DEF Bil!BillAgrees, Bil!ApprovalsAgree, Bil!Open
  <2>2. l = s1[b].level /\ required = s1[b].required
    BY <1>2, <2>1 DEF l, required
  <2>3. \A k \in 1..l : s2'[b][k] \in Person \ {s1[b].owner}
    BY <1>1, <1>3, <1>4, <2>1, <2>2 DEF Bil!SignedUpTo, Bil!Signatures
  <2>4. CASE last
    BY <1>3, <1>6, <2>1, <2>2, <2>3, <2>4 DEF Bil!ApprovalsAgree, Bil!SignedUpTo, Bil!Open
  <2>5. CASE ~ last
    BY <1>3, <1>6, <2>1, <2>2, <2>3, <2>5 DEF Bil!ApprovalsAgree, Bil!SignedUpTo, Bil!Open
  <2> QED
    BY <2>4, <2>5
<1>11. Bil!BillAgrees(s1'[b], s2'[b], s3[b], s4[b])
  BY <1>1, <1>6, <1>9, <1>10 DEF Bil!BillAgrees
<1> QED
  BY <1>1, <1>5, <1>7, <1>8, <1>11, OneBill

LEMMA BillPaid ==
    ASSUME Bil!Inv, NEW b \in Bill, NEW a \in Person, NEW n \in Billed, Bil!recordPayment(b, a, n)
    PROVE  Bil!Inv'
<1>1. /\ s1[b] \in Bil!Row /\ s2[b] \in Bil!Signatures /\ s3[b] \in Nat /\ s4[b] \in 0..1
      /\ Bil!BillAgrees(s1[b], s2[b], s3[b], s4[b])
  BY BillFacts
<1>2. /\ s1[b].total \in Nat /\ s1[b].paid \in Nat /\ s1[b].due \in Int /\ n \in Nat \ {0}
      /\ n <= s1[b].due /\ s1[b].approval = "APPROVED"
      /\ s1[b].status \in {"APPROVED", "PARTIALLY_PAID", "SCHEDULED"}
  BY <1>1, BillsAssumed DEF Bil!Row, Bil!recordPayment
<1>3. /\ s1'[b] = [s1[b] EXCEPT
             !.paid = s1[b].paid + n, !.due = s1[b].total - (s1[b].paid + n),
             !.status = IF s1[b].paid + n = s1[b].total THEN "PAID" ELSE "PARTIALLY_PAID"]
      /\ s2'[b] = s2[b]
      /\ s3'[b] = s3[b] + n
      /\ s4'[b] = IF s1[b].paid + n = s1[b].total /\ s4[b] = 0 THEN 1 ELSE s4[b]
  BY DEF Bil!recordPayment, Bil!paidInFull, Bil!Inv, Bil!TypeOK
<1>4. /\ s1' = [s1 EXCEPT ![b] = s1'[b]]
      /\ s2' = [s2 EXCEPT ![b] = s2'[b]]
      /\ s3' = [s3 EXCEPT ![b] = s3'[b]]
      /\ s4' = [s4 EXCEPT ![b] = s4'[b]]
  BY DEF Bil!recordPayment, Bil!Inv, Bil!TypeOK
<1>5. s1'[b] = [status |-> IF s1[b].paid + n = s1[b].total THEN "PAID" ELSE "PARTIALLY_PAID",
                approval |-> s1[b].approval, owner |-> s1[b].owner, total |-> s1[b].total,
                paid |-> s1[b].paid + n, due |-> s1[b].total - (s1[b].paid + n),
                level |-> s1[b].level, required |-> s1[b].required,
                portal |-> s1[b].portal, prices |-> s1[b].prices,
                  edited |-> s1[b].edited]
  BY <1>1, <1>3, BillFields
<1>6. s1[b].total - (s1[b].paid + n) \in Int /\ s1[b].paid + n \in Nat /\ s3'[b] > 0
  BY <1>1, <1>2, <1>3
<1>8. s1'[b] \in Bil!Row
  <2>1. PICK d \in Int, x \in {"PAID", "PARTIALLY_PAID"} :
             s1'[b] = [status |-> x, approval |-> s1[b].approval, owner |-> s1[b].owner,
                       total |-> s1[b].total, paid |-> s1[b].paid + n, due |-> d,
                       level |-> s1[b].level, required |-> s1[b].required,
                       portal |-> s1[b].portal, prices |-> s1[b].prices,
                       edited |-> s1[b].edited]
    BY <1>5, <1>6
  <2>2. {"PAID", "PARTIALLY_PAID"} \subseteq Bil!Status
    BY DEF Bil!Status
  <2> QED
    BY <1>1, <1>6, <2>1, <2>2 DEF Bil!Row
<1>9. ASSUME s1[b].prices = 0 PROVE Bil!MoneyAgrees(s1'[b], s3'[b], s4'[b])
  <2>1. /\ s3[b] = s1[b].paid /\ s1[b].paid + s1[b].due = s1[b].total
        /\ s4[b] = IF s1[b].paid > 0 /\ s1[b].due = 0 THEN 1 ELSE 0
    BY <1>1, <1>9 DEF Bil!BillAgrees, Bil!MoneyAgrees
  <2>2. /\ s1'[b].paid = s1[b].paid + n /\ s1'[b].total = s1[b].total
        /\ s1'[b].due = s1[b].total - (s1[b].paid + n)
    BY <1>5
  <2>3. /\ s1[b].paid + n + (s1[b].total - (s1[b].paid + n)) = s1[b].total
        /\ s1[b].paid + n > 0
        /\ s1[b].total - (s1[b].paid + n) >= 0
        /\ s1[b].paid + n = s1[b].total <=> s1[b].total - (s1[b].paid + n) = 0
        /\ s4[b] = 0
    BY <1>2, <2>1
  <2>4. /\ s3'[b] = s1'[b].paid /\ s1'[b].paid + s1'[b].due = s1'[b].total
        /\ s1'[b].paid > 0 /\ s1'[b].due >= 0
    BY <1>3, <2>1, <2>2, <2>3
  <2>5. s4'[b] = IF s1'[b].due = 0 THEN 1 ELSE 0
    BY <1>3, <2>2, <2>3
  <2> QED
    BY <2>5, <2>4 DEF Bil!MoneyAgrees
<1>10. ASSUME ~ s1[b].edited PROVE Bil!ApprovalsAgree(s1'[b], s2[b], s3'[b])
  <2>1. /\ s1[b].required = Bil!getRequiredApprovalLevels(s1[b].total)
        /\ Bil!SignedUpTo(s1[b], s2[b], s1[b].required)
    BY <1>1, <1>2, <1>10 DEF Bil!BillAgrees, Bil!ApprovalsAgree
  <2> QED
    BY <1>5, <2>1 DEF Bil!ApprovalsAgree, Bil!SignedUpTo, Bil!Open
<1>11. Bil!BillAgrees(s1'[b], s2[b], s3'[b], s4'[b])
  BY <1>1, <1>5, <1>6, <1>9, <1>10 DEF Bil!BillAgrees
<1>12. s3'[b] \in Nat /\ s4'[b] \in 0..1
  BY <1>1, <1>2, <1>3
<1> QED
  BY <1>1, <1>3, <1>4, <1>8, <1>11, <1>12, OneBill

LEMMA PortalCreatesBill ==
    ASSUME Bil!Inv, NEW b \in Bill, NEW o \in Person, NEW s \in Bil!Status,
           NEW a \in Bil!Approvals, NEW n \in Written, NEW p \in Written, NEW d \in Written,
           Bil!portalCreates(b, o, s, a, n, p, d)
    PROVE  Bil!Inv'
<1>1. n \in Nat /\ p \in Nat /\ d \in Nat
  BY BillsAssumed
<1>2. /\ s1[b] = Bil!noBill
      /\ s1'[b] = [status |-> s, approval |-> a, owner |-> o, total |-> n, paid |-> p,
                   due |-> d, level |-> 0, required |-> 0, portal |-> 0, prices |-> 1,
                   edited |-> TRUE]
      /\ s1' = [s1 EXCEPT ![b] = s1'[b]] /\ UNCHANGED <<s2, s3, s4>>
  BY DEF Bil!portalCreates, Bil!Inv, Bil!TypeOK, Bil!noBill, Bil!money
<1>3. s3[b] = 0 /\ s4[b] = 0 /\ s2[b] \in Bil!Signatures
  BY <1>2, BillFacts DEF Bil!BillAgrees, Bil!MoneyAgrees, Bil!noBill
<1>4. s1'[b] \in Bil!Row
  BY <1>1, <1>2 DEF Bil!Row
<1>5. Bil!BillAgrees(s1'[b], s2[b], 0, 0)
  BY <1>2 DEF Bil!BillAgrees, Bil!Status, Bil!Open
<1> QED
  BY <1>2, <1>3, <1>4, <1>5, OneBill, OnlyTheRow

LEMMA PortalPricesBill ==
    ASSUME Bil!Inv, NEW b \in Bill, NEW n \in Written, NEW p \in Written, NEW d \in Written,
           Bil!portalPrices(b, n, p, d)
    PROVE  Bil!Inv'
<1>1. /\ s1[b] \in Bil!Row /\ s2[b] \in Bil!Signatures /\ s3[b] \in Nat /\ s4[b] \in 0..1
      /\ Bil!BillAgrees(s1[b], s2[b], s3[b], s4[b])
  BY BillFacts
<1>2. n \in Nat /\ p \in Nat /\ d \in Nat /\ s1[b].prices \in Nat
  BY <1>1, BillsAssumed DEF Bil!Row
<1>3. /\ s1[b] # Bil!noBill
      /\ s1'[b] = [s1[b] EXCEPT !.total = n, !.paid = p, !.due = d,
                                !.prices = s1[b].prices + 1, !.edited = TRUE]
      /\ s1' = [s1 EXCEPT ![b] = s1'[b]] /\ UNCHANGED <<s2, s3, s4>>
  BY DEF Bil!portalPrices, Bil!money, Bil!Inv, Bil!TypeOK
<1>4. s1'[b] = [status |-> s1[b].status, approval |-> s1[b].approval, owner |-> s1[b].owner,
                total |-> n, paid |-> p, due |-> d, level |-> s1[b].level,
                required |-> s1[b].required, portal |-> s1[b].portal,
                prices |-> s1[b].prices + 1, edited |-> TRUE]
  BY <1>1, <1>3, BillFields
<1>5. s1'[b] \in Bil!Row
  <2>1. PICK m \in Nat : m = s1[b].prices + 1
    BY <1>2
  <2> QED
    BY <1>1, <1>2, <1>4, <2>1 DEF Bil!Row
<1>6. Bil!BillAgrees(s1'[b], s2[b], s3[b], s4[b])
  <2>1. s1'[b].prices # 0
    BY <1>2, <1>4
  <2>2. s1'[b].status # "absent" /\ s1'[b].edited /\ (s4[b] > 0 => s3[b] > 0)
    BY <1>1, <1>3, <1>4 DEF Bil!BillAgrees
  <2> QED
    BY <2>1, <2>2 DEF Bil!BillAgrees
<1> QED
  BY <1>1, <1>3, <1>5, <1>6, OneBill, OnlyTheRow

LEMMA BillsStep == ASSUME Bil!Inv, Bil!Next PROVE Bil!Inv'
<1>1. PICK b \in Bill : Bil!Service(b) \/ Bil!Portal(b)
  BY DEF Bil!Next
<1>2. s1[b] \in Bil!Row /\ Bil!BillAgrees(s1[b], s2[b], s3[b], s4[b])
  BY <1>1, BillFacts
<1>3. /\ s1[b].approval \in Bil!Approvals
      /\ s1[b].portal \in Nat /\ s1[b].edited \in BOOLEAN
  BY <1>2 DEF Bil!Row
<1>4. CASE \E o \in Person, n \in Billed, draft \in BOOLEAN : Bil!createBill(b, o, n, draft)
  BY <1>4, BillCreated
<1>5. CASE Bil!submitBill(b)
  BY <1>5, BillSubmitted
<1>6. CASE \E a \in Person : Bil!approveBill(b, a)
  BY <1>6, BillApproved
<1>7. CASE Bil!rejectBill(b)
  <2>1. /\ s1[b] # Bil!noBill
        /\ s1'[b] = [s1[b] EXCEPT !.status = "REJECTED", !.approval = "REJECTED"]
        /\ s1' = [s1 EXCEPT ![b] = s1'[b]] /\ UNCHANGED <<s2, s3, s4>>
    BY <1>7 DEF Bil!rejectBill, Bil!money, Bil!Inv, Bil!TypeOK
  <2>2. s1'[b] = [status |-> "REJECTED", approval |-> "REJECTED", owner |-> s1[b].owner,
                  total |-> s1[b].total, paid |-> s1[b].paid, due |-> s1[b].due,
                  level |-> s1[b].level, required |-> s1[b].required,
                  portal |-> s1[b].portal, prices |-> s1[b].prices,
                  edited |-> s1[b].edited]
    BY <1>2, <2>1, BillFields
  <2>3. "REJECTED" \in Bil!Status \ (Bil!Open \cup {"DRAFT"}) /\ "REJECTED" \in Bil!Approvals
    BY DEF Bil!Status, Bil!Open, Bil!Approvals
  <2> QED
    BY <1>3, <2>1, <2>2, <2>3, StatusWritten
<1>8. CASE Bil!disputeBill(b)
  <2>1. /\ s1[b] # Bil!noBill
        /\ s1'[b] = [s1[b] EXCEPT !.status = "DISPUTED"]
        /\ s1' = [s1 EXCEPT ![b] = s1'[b]] /\ UNCHANGED <<s2, s3, s4>>
    BY <1>8 DEF Bil!disputeBill, Bil!money, Bil!Inv, Bil!TypeOK
  <2>2. s1'[b] = [status |-> "DISPUTED", approval |-> s1[b].approval, owner |-> s1[b].owner,
                  total |-> s1[b].total, paid |-> s1[b].paid, due |-> s1[b].due,
                  level |-> s1[b].level, required |-> s1[b].required,
                  portal |-> s1[b].portal, prices |-> s1[b].prices,
                  edited |-> s1[b].edited]
    BY <1>2, <2>1, BillFields
  <2>3. "DISPUTED" \in Bil!Status \ (Bil!Open \cup {"DRAFT"})
    BY DEF Bil!Status, Bil!Open
  <2> QED
    BY <1>3, <2>1, <2>2, <2>3, StatusWritten
<1>9. CASE Bil!cancelBill(b)
  <2>1. /\ s1[b] # Bil!noBill
        /\ s1'[b] = [s1[b] EXCEPT !.status = "CANCELLED"]
        /\ s1' = [s1 EXCEPT ![b] = s1'[b]] /\ UNCHANGED <<s2, s3, s4>>
    BY <1>9 DEF Bil!cancelBill, Bil!money, Bil!Inv, Bil!TypeOK, Bil!noBill
  <2>2. s1'[b] = [status |-> "CANCELLED", approval |-> s1[b].approval, owner |-> s1[b].owner,
                  total |-> s1[b].total, paid |-> s1[b].paid, due |-> s1[b].due,
                  level |-> s1[b].level, required |-> s1[b].required,
                  portal |-> s1[b].portal, prices |-> s1[b].prices,
                  edited |-> s1[b].edited]
    BY <1>2, <2>1, BillFields
  <2>3. "CANCELLED" \in Bil!Status \ (Bil!Open \cup {"DRAFT"})
    BY DEF Bil!Status, Bil!Open
  <2> QED
    BY <1>3, <2>1, <2>2, <2>3, StatusWritten
<1>10. CASE Bil!schedulePayment(b)
  <2>1. /\ s1[b] # Bil!noBill
        /\ s1'[b] = [s1[b] EXCEPT !.status = "SCHEDULED"]
        /\ s1' = [s1 EXCEPT ![b] = s1'[b]] /\ UNCHANGED <<s2, s3, s4>>
    BY <1>10 DEF Bil!schedulePayment, Bil!money, Bil!Inv, Bil!TypeOK, Bil!noBill
  <2>2. s1'[b] = [status |-> "SCHEDULED", approval |-> s1[b].approval, owner |-> s1[b].owner,
                  total |-> s1[b].total, paid |-> s1[b].paid, due |-> s1[b].due,
                  level |-> s1[b].level, required |-> s1[b].required,
                  portal |-> s1[b].portal, prices |-> s1[b].prices,
                  edited |-> s1[b].edited]
    BY <1>2, <2>1, BillFields
  <2>3. "SCHEDULED" \in Bil!Status \ (Bil!Open \cup {"DRAFT"})
    BY DEF Bil!Status, Bil!Open
  <2> QED
    BY <1>3, <2>1, <2>2, <2>3, StatusWritten
<1>11. CASE \E a \in Person, n \in Billed : Bil!recordPayment(b, a, n)
  BY <1>11, BillPaid
<1>12. CASE \E o \in Person, s \in Bil!Status, a \in Bil!Approvals, n, p, d \in Written :
               Bil!portalCreates(b, o, s, a, n, p, d)
  BY <1>12, PortalCreatesBill
<1>15. CASE \E n, p, d \in Written : Bil!portalPrices(b, n, p, d)
  BY <1>15, PortalPricesBill
<1>13. ASSUME NEW s \in Bil!Status, NEW a \in Bil!Approvals,
              Bil!portalUpdates(b, s, a)
       PROVE  Bil!Inv'
  <2>1. /\ s1[b] # Bil!noBill
        /\ s1'[b] = [s1[b] EXCEPT !.status = s, !.approval = a, !.edited = TRUE]
        /\ s1' = [s1 EXCEPT ![b] = s1'[b]] /\ UNCHANGED <<s2, s3, s4>>
    BY <1>13 DEF Bil!portalUpdates, Bil!money, Bil!Inv, Bil!TypeOK
  <2>2. s1'[b] = [status |-> s, approval |-> a, owner |-> s1[b].owner,
                  total |-> s1[b].total, paid |-> s1[b].paid, due |-> s1[b].due,
                  level |-> s1[b].level, required |-> s1[b].required,
                  portal |-> s1[b].portal, prices |-> s1[b].prices,
                  edited |-> TRUE]
    BY <1>2, <2>1, BillFields
  <2> QED
    BY <1>3, <2>1, <2>2, StatusWritten
<1>14. ASSUME NEW n \in Billed, Bil!portalPays(b, n)
       PROVE  Bil!Inv'
  <2>1. /\ s1[b] # Bil!noBill
        /\ s1'[b] = [s1[b] EXCEPT !.portal = s1[b].portal + n]
        /\ s1' = [s1 EXCEPT ![b] = s1'[b]] /\ UNCHANGED <<s2, s3, s4>>
    BY <1>14 DEF Bil!portalPays, Bil!money, Bil!Inv, Bil!TypeOK
  <2>2. s1'[b] = [status |-> s1[b].status, approval |-> s1[b].approval, owner |-> s1[b].owner,
                  total |-> s1[b].total, paid |-> s1[b].paid, due |-> s1[b].due,
                  level |-> s1[b].level, required |-> s1[b].required,
                  portal |-> s1[b].portal + n, prices |-> s1[b].prices,
                  edited |-> s1[b].edited]
    BY <1>2, <2>1, BillFields
  <2>3. s1[b].status \in Bil!Status /\ s1[b].portal + n \in Nat
    BY <1>2, <1>3, <2>1, BillsAssumed DEF Bil!BillAgrees, Bil!Row
  <2> QED
    BY <1>3, <2>1, <2>2, <2>3, StatusWritten
<1> QED
  BY <1>1, <1>4, <1>5, <1>6, <1>7, <1>8, <1>9, <1>10, <1>11, <1>12, <1>13, <1>14, <1>15
     DEF Bil!Service, Bil!Portal

LEMMA BillsPaid == ASSUME Bil!Inv PROVE Bil!PaidAsApproved
<1> SUFFICES ASSUME NEW b \in Bill
             PROVE  /\ s1[b].prices = 0 =>
                          /\ s3[b] = s1[b].paid
                          /\ s1[b].paid + s1[b].due = s1[b].total
                          /\ s1[b].due >= 0
                          /\ s4[b] = IF s1[b].paid > 0 /\ s1[b].due = 0 THEN 1 ELSE 0
                    /\ s3[b] > 0 /\ ~ s1[b].edited =>
                          \A l \in 1..Bil!getRequiredApprovalLevels(s1[b].total) :
                              s2[b][l] \in Person \ {s1[b].owner}
                    /\ s4[b] > 0 => s3[b] > 0
  BY DEF Bil!PaidAsApproved
<1>1. Bil!BillAgrees(s1[b], s2[b], s3[b], s4[b])
  BY BillFacts
<1> QED
  BY <1>1 DEF Bil!BillAgrees, Bil!MoneyAgrees, Bil!ApprovalsAgree, Bil!SignedUpTo

---------------------------------------------------------------------------
(* Procurement. *)

LEMMA ProcurementAssumed ==
    /\ Levels \subseteq 1..3
    /\ Quantity \subseteq Nat \ {0}
    /\ None \notin Person \cup Vendor /\ "PENDING" \notin Person
BY WorkflowsAssumption DEF Proc!ProcurementConstants

LEMMA ProcurementStart == Proc!Init => Proc!Inv
<1> SUFFICES ASSUME Proc!Init PROVE Proc!Inv
  OBVIOUS
<1>1. Proc!noPurchase \in Proc!Row /\ Proc!noOrder \in Proc!OrderRow
  BY DEF Proc!noPurchase, Proc!Row, Proc!noOrder, Proc!OrderRow
<1>2. [l \in 1..3 |-> None] \in Proc!Signatures
  BY DEF Proc!Signatures
<1>3. Proc!TypeOK
  BY <1>1, <1>2 DEF Proc!Init, Proc!TypeOK
<1>4. /\ Proc!RequestAgrees(Proc!noPurchase, [l \in 1..3 |-> None])
      /\ Proc!OrderAgrees(Proc!noPurchase, [l \in 1..3 |-> None], Proc!noOrder)
  BY DEF Proc!RequestAgrees, Proc!OrderAgrees, Proc!noPurchase, Proc!Waiting, Proc!Bought
<1> QED
  BY <1>3, <1>4 DEF Proc!Init, Proc!Inv

\* A step writes one request, and keeps the invariant when it keeps that request's.
LEMMA OnePurchase ==
    ASSUME Proc!Inv, NEW q \in Purchase,
           /\ s2' = [s2 EXCEPT ![q] = s2'[q]]
           /\ s3' = [s3 EXCEPT ![q] = s3'[q]]
           /\ s4' = [s4 EXCEPT ![q] = s4'[q]],
           s2'[q] \in Proc!Row,
           s3'[q] \in Proc!Signatures,
           s4'[q] \in Proc!OrderRow,
           Proc!RequestAgrees(s2'[q], s3'[q]),
           Proc!OrderAgrees(s2'[q], s3'[q], s4'[q])
    PROVE  Proc!Inv'
<1>1. Proc!TypeOK'
  BY DEF Proc!Inv, Proc!TypeOK
<1>2. ASSUME NEW p \in Purchase
      PROVE  Proc!RequestAgrees(s2'[p], s3'[p]) /\ Proc!OrderAgrees(s2'[p], s3'[p], s4'[p])
  <2>1. CASE p = q
    BY <2>1
  <2>2. CASE p # q
    BY <2>2 DEF Proc!Inv, Proc!TypeOK
  <2> QED
    BY <2>1, <2>2
<1> QED
  BY <1>1, <1>2
     DEF Proc!Inv, Proc!RequestAgrees, Proc!OrderAgrees, Proc!SignedUpTo, Proc!noPurchase,
         Proc!noOrder

LEMMA PurchaseFacts ==
    ASSUME Proc!Inv, NEW q \in Purchase
    PROVE  /\ s2[q] \in Proc!Row /\ s3[q] \in Proc!Signatures /\ s4[q] \in Proc!OrderRow
           /\ Proc!RequestAgrees(s2[q], s3[q])
           /\ Proc!OrderAgrees(s2[q], s3[q], s4[q])
BY DEF Proc!Inv, Proc!TypeOK

\* What a step leaves alone, and a row as its fields.
LEMMA PurchaseKept ==
    ASSUME Proc!Inv, NEW q \in Purchase
    PROVE  /\ UNCHANGED s3 => s3' = [s3 EXCEPT ![q] = s3'[q]] /\ s3'[q] = s3[q]
           /\ UNCHANGED s4 => s4' = [s4 EXCEPT ![q] = s4'[q]] /\ s4'[q] = s4[q]
           /\ UNCHANGED s2 => s2' = [s2 EXCEPT ![q] = s2'[q]] /\ s2'[q] = s2[q]
BY DEF Proc!Inv, Proc!TypeOK

LEMMA PurchaseFields ==
    ASSUME NEW r \in Proc!Row
    PROVE  r = [status |-> r.status, owner |-> r.owner, vendor |-> r.vendor, level |-> r.level,
                required |-> r.required, lead |-> r.lead]
BY DEF Proc!Row

LEMMA OrderFields ==
    ASSUME NEW o \in Proc!OrderRow
    PROVE  o = [status |-> o.status, vendor |-> o.vendor, quantity |-> o.quantity,
                received |-> o.received]
BY DEF Proc!OrderRow

LEMMA PurchaseCreated ==
    ASSUME Proc!Inv, NEW q \in Purchase, NEW o \in Person, NEW n \in Levels,
           NEW draft \in BOOLEAN, Proc!createPurchaseRequest(q, o, n, draft)
    PROVE  Proc!Inv'
<1>1. n \in 1..3
  BY ProcurementAssumed
<1>2. /\ s2[q] = Proc!noPurchase
      /\ s2'[q] = [status |-> IF draft THEN "DRAFT" ELSE "SUBMITTED", owner |-> o,
                   vendor |-> None, level |-> IF draft THEN 0 ELSE 1, required |-> n,
                   lead |-> FALSE]
      /\ s3'[q] = IF draft THEN s3[q] ELSE [s3[q] EXCEPT ![1] = "PENDING"]
      /\ UNCHANGED s4
  BY DEF Proc!createPurchaseRequest, Proc!openLevel, Proc!Inv, Proc!TypeOK
<1>3. /\ s2' = [s2 EXCEPT ![q] = s2'[q]]
      /\ s3' = [s3 EXCEPT ![q] = s3'[q]]
  BY DEF Proc!createPurchaseRequest, Proc!openLevel, Proc!Inv, Proc!TypeOK
<1>4. s4[q] = Proc!noOrder
  BY <1>2, PurchaseFacts DEF Proc!OrderAgrees, Proc!noPurchase, Proc!Bought
<1>5. s2'[q] \in Proc!Row
  BY <1>1, <1>2 DEF Proc!Row, Proc!Status, Proc!Waiting
<1>6. s3'[q] \in Proc!Signatures
  BY <1>2, PurchaseFacts DEF Proc!Signatures
<1>7. Proc!RequestAgrees(s2'[q], s3'[q])
  BY <1>1, <1>2 DEF Proc!RequestAgrees, Proc!Waiting, Proc!SignedUpTo
<1>8. Proc!OrderAgrees(s2'[q], s3'[q], s4[q])
  BY <1>2, <1>4 DEF Proc!OrderAgrees, Proc!Bought
<1> QED
  BY <1>2, <1>3, <1>5, <1>6, <1>7, <1>8, PurchaseFacts, PurchaseKept, OnePurchase

LEMMA PurchaseSubmitted ==
    ASSUME Proc!Inv, NEW q \in Purchase, Proc!submitRequest(q)
    PROVE  Proc!Inv'
<1>1. /\ s2[q] \in Proc!Row /\ s3[q] \in Proc!Signatures /\ s4[q] \in Proc!OrderRow
      /\ Proc!RequestAgrees(s2[q], s3[q])
      /\ Proc!OrderAgrees(s2[q], s3[q], s4[q])
  BY PurchaseFacts
<1>2. /\ s2[q].status = "DRAFT"
      /\ s2'[q] = [s2[q] EXCEPT !.status = "SUBMITTED", !.level = 1]
      /\ s3'[q] = [s3[q] EXCEPT ![1] = "PENDING"]
      /\ UNCHANGED s4
  BY DEF Proc!submitRequest, Proc!openLevel, Proc!Inv, Proc!TypeOK
<1>3. /\ s2' = [s2 EXCEPT ![q] = s2'[q]]
      /\ s3' = [s3 EXCEPT ![q] = s3'[q]]
  BY DEF Proc!submitRequest, Proc!openLevel, Proc!Inv, Proc!TypeOK
<1>4. s2'[q] = [status |-> "SUBMITTED", owner |-> s2[q].owner, vendor |-> s2[q].vendor,
                level |-> 1, required |-> s2[q].required, lead |-> s2[q].lead]
  BY <1>1, <1>2, PurchaseFields
<1>5. s2'[q] \in Proc!Row
  BY <1>1, <1>4 DEF Proc!Row, Proc!Status, Proc!Waiting
<1>6. s3'[q] \in Proc!Signatures
  BY <1>1, <1>2 DEF Proc!Signatures
<1>7. Proc!RequestAgrees(s2'[q], s3'[q])
  BY <1>1, <1>2, <1>4 DEF Proc!RequestAgrees, Proc!Waiting, Proc!SignedUpTo
<1>8. s4[q] = Proc!noOrder
  BY <1>1, <1>2 DEF Proc!OrderAgrees, Proc!Bought
<1>9. Proc!OrderAgrees(s2'[q], s3'[q], s4[q])
  BY <1>4, <1>8 DEF Proc!OrderAgrees, Proc!Bought
<1> QED
  BY <1>1, <1>2, <1>3, <1>5, <1>6, <1>7, <1>9, PurchaseKept, OnePurchase

LEMMA PurchaseApproved ==
    ASSUME Proc!Inv, NEW q \in Purchase, NEW a \in Person, Proc!approveRequest(q, a)
    PROVE  Proc!Inv'
<1> DEFINE l == s2[q].level
           last == l >= s2[q].required
           given == [s3[q] EXCEPT ![l] = a]
<1>1. /\ s2[q] \in Proc!Row /\ s3[q] \in Proc!Signatures /\ s4[q] \in Proc!OrderRow
      /\ Proc!RequestAgrees(s2[q], s3[q])
      /\ Proc!OrderAgrees(s2[q], s3[q], s4[q])
  BY PurchaseFacts
<1>2. /\ s2[q].status \in Proc!Waiting /\ a # s2[q].owner
      /\ s2'[q] = [s2[q] EXCEPT !.status = IF last THEN "APPROVED" ELSE "PENDING_APPROVAL",
                                !.level = IF last THEN l ELSE l + 1]
      /\ s3'[q] = IF last THEN given ELSE [given EXCEPT ![l + 1] = "PENDING"]
      /\ UNCHANGED s4
  BY DEF Proc!approveRequest, Proc!Inv, Proc!TypeOK
<1>3. /\ s2' = [s2 EXCEPT ![q] = s2'[q]]
      /\ s3' = [s3 EXCEPT ![q] = s3'[q]]
  BY DEF Proc!approveRequest, Proc!Inv, Proc!TypeOK
<1>4. s2'[q] = [status |-> IF last THEN "APPROVED" ELSE "PENDING_APPROVAL",
                owner |-> s2[q].owner, vendor |-> s2[q].vendor,
                level |-> IF last THEN l ELSE l + 1,
                required |-> s2[q].required, lead |-> s2[q].lead]
  BY <1>1, <1>2, PurchaseFields
<1>5. /\ s2[q].required \in 1..3 /\ l \in 1..s2[q].required
      /\ Proc!SignedUpTo(s2[q], s3[q], l - 1)
      /\ ~ s2[q].lead
  BY <1>1, <1>2 DEF Proc!RequestAgrees
<1>6. s4[q] = Proc!noOrder
  BY <1>1, <1>2, <1>5 DEF Proc!OrderAgrees, Proc!Bought, Proc!Waiting
<1>7. \A k \in 1..l : s3'[q][k] \in Person \ {s2[q].owner}
  BY <1>1, <1>2, <1>5 DEF Proc!SignedUpTo, Proc!Signatures
<1>8. s3'[q] \in Proc!Signatures
  BY <1>1, <1>2, <1>5 DEF Proc!Signatures
<1> HIDE DEF l
<1>9. s2'[q] \in Proc!Row
  BY <1>1, <1>4, <1>5 DEF Proc!Row, Proc!Status, Proc!Waiting
<1>10. Proc!RequestAgrees(s2'[q], s3'[q])
  <2>1. CASE last
    BY <1>4, <1>5, <1>7, <2>1 DEF Proc!RequestAgrees, Proc!SignedUpTo, Proc!Waiting
  <2>2. CASE ~ last
    BY <1>4, <1>5, <1>7, <2>2 DEF Proc!RequestAgrees, Proc!SignedUpTo, Proc!Waiting
  <2> QED
    BY <2>1, <2>2
<1>11. Proc!OrderAgrees(s2'[q], s3'[q], s4[q])
  BY <1>4, <1>6 DEF Proc!OrderAgrees, Proc!Bought
<1> QED
  BY <1>1, <1>2, <1>3, <1>8, <1>9, <1>10, <1>11, PurchaseKept, OnePurchase

\* The status, the vendor and the lead's approval are all that is written, and the new
\* status calls for no approval the request does not have.
LEMMA PurchaseStatusWritten ==
    ASSUME Proc!Inv, NEW q \in Purchase,
           NEW s \in Proc!Status, NEW v \in Vendor \cup {None}, NEW x \in BOOLEAN,
           s2[q] # Proc!noPurchase,
           s2' = [s2 EXCEPT ![q] = s2'[q]], UNCHANGED <<s3, s4>>,
           s2'[q] = [status |-> s, owner |-> s2[q].owner, vendor |-> v, level |-> s2[q].level,
                     required |-> s2[q].required, lead |-> x],
           s2[q].lead => x,
           \/ s = s2[q].status /\ x = s2[q].lead
           \/ s = "REJECTED"
           \/ s = "APPROVED" /\ x
           \/ s = "CANCELLED" /\ s2[q].status \in {"DRAFT", "SUBMITTED"}
    PROVE  Proc!Inv'
<1>1. /\ s2[q] \in Proc!Row /\ s3[q] \in Proc!Signatures /\ s4[q] \in Proc!OrderRow
      /\ Proc!RequestAgrees(s2[q], s3[q])
      /\ Proc!OrderAgrees(s2[q], s3[q], s4[q])
  BY PurchaseFacts
<1>2. s2'[q] \in Proc!Row
  BY <1>1 DEF Proc!Row
<1>3. s # "absent" /\ s2[q].status # "absent"
  BY <1>1 DEF Proc!RequestAgrees, Proc!Status, Proc!Waiting, Proc!Bought
<1>4. Proc!RequestAgrees(s2'[q], s3[q])
  BY <1>1, <1>3 DEF Proc!RequestAgrees, Proc!SignedUpTo, Proc!Waiting
<1>5. Proc!OrderAgrees(s2'[q], s3[q], s4[q])
  BY <1>1 DEF Proc!OrderAgrees, Proc!SignedUpTo, Proc!Bought
<1> QED
  BY <1>1, <1>2, <1>4, <1>5, PurchaseKept, OnePurchase

LEMMA OrderCreated ==
    ASSUME Proc!Inv, NEW q \in Purchase, NEW v \in Vendor \cup {s2[q].vendor},
           NEW n \in Quantity, Proc!createPurchaseOrder(q, v, n)
    PROVE  Proc!Inv'
<1>1. /\ s2[q] \in Proc!Row /\ s3[q] \in Proc!Signatures /\ s4[q] \in Proc!OrderRow
      /\ Proc!RequestAgrees(s2[q], s3[q])
      /\ Proc!OrderAgrees(s2[q], s3[q], s4[q])
  BY PurchaseFacts
<1>2. /\ s2[q].status = "APPROVED" /\ v # None
      /\ s2'[q] = [s2[q] EXCEPT !.status = "ORDERED"]
      /\ s4'[q] = [status |-> "DRAFT", vendor |-> v, quantity |-> n, received |-> 0]
      /\ s2' = [s2 EXCEPT ![q] = s2'[q]]
      /\ s4' = [s4 EXCEPT ![q] = s4'[q]]
      /\ UNCHANGED s3
  BY DEF Proc!createPurchaseOrder, Proc!Inv, Proc!TypeOK
<1>3. s2'[q] = [status |-> "ORDERED", owner |-> s2[q].owner, vendor |-> s2[q].vendor,
                level |-> s2[q].level, required |-> s2[q].required, lead |-> s2[q].lead]
  BY <1>1, <1>2, PurchaseFields
<1>4. n \in Nat /\ v \in Vendor \cup {None}
  BY <1>1, ProcurementAssumed DEF Proc!Row
<1>5. s2'[q] \in Proc!Row
  BY <1>1, <1>3 DEF Proc!Row, Proc!Status, Proc!Bought
<1>6. s4'[q] \in Proc!OrderRow
  BY <1>2, <1>4 DEF Proc!OrderRow, Proc!OrderStatus
<1>7. Proc!RequestAgrees(s2'[q], s3[q])
  BY <1>3 DEF Proc!RequestAgrees, Proc!Waiting
<1>8. Proc!OrderAgrees(s2'[q], s3[q], s4'[q])
  BY <1>1, <1>2, <1>3
     DEF Proc!OrderAgrees, Proc!RequestAgrees, Proc!SignedUpTo, Proc!Bought, Proc!noOrder
<1> QED
  BY <1>1, <1>2, <1>5, <1>6, <1>7, <1>8, PurchaseKept, OnePurchase

LEMMA OrderStatusWritten ==
    ASSUME Proc!Inv, NEW q \in Purchase, NEW s \in Proc!OrderStatus,
           s4[q] # Proc!noOrder,
           s4' = [s4 EXCEPT ![q].status = s], UNCHANGED <<s2, s3>>
    PROVE  Proc!Inv'
<1>1. /\ s2[q] \in Proc!Row /\ s3[q] \in Proc!Signatures /\ s4[q] \in Proc!OrderRow
      /\ Proc!RequestAgrees(s2[q], s3[q])
      /\ Proc!OrderAgrees(s2[q], s3[q], s4[q])
  BY PurchaseFacts
<1>2. s4'[q] = [s4[q] EXCEPT !.status = s] /\ s4' = [s4 EXCEPT ![q] = s4'[q]]
  BY DEF Proc!Inv, Proc!TypeOK
<1>3. s4'[q] = [status |-> s, vendor |-> s4[q].vendor, quantity |-> s4[q].quantity,
                received |-> s4[q].received]
  BY <1>1, <1>2, OrderFields
<1>4. s4'[q] \in Proc!OrderRow
  BY <1>1, <1>3 DEF Proc!OrderRow
<1>5. s # "absent"
  BY DEF Proc!OrderStatus
<1>6. Proc!OrderAgrees(s2[q], s3[q], s4'[q])
  BY <1>1, <1>3, <1>5 DEF Proc!OrderAgrees, Proc!noOrder
<1> QED
  BY <1>1, <1>2, <1>4, <1>6, PurchaseKept, OnePurchase

LEMMA OrderReceived ==
    ASSUME Proc!Inv, NEW q \in Purchase, NEW n \in Quantity, NEW complete \in BOOLEAN,
           Proc!receivePurchaseOrder(q, n, complete)
    PROVE  Proc!Inv'
<1> DEFINE s == IF complete THEN "DELIVERED" ELSE "PARTIALLY_DELIVERED"
<1>1. /\ s2[q] \in Proc!Row /\ s3[q] \in Proc!Signatures /\ s4[q] \in Proc!OrderRow
      /\ Proc!RequestAgrees(s2[q], s3[q])
      /\ Proc!OrderAgrees(s2[q], s3[q], s4[q])
  BY PurchaseFacts
<1>2. /\ s4[q].status # "absent"
      /\ s2'[q] = [s2[q] EXCEPT !.status = s]
      /\ s4'[q] = [s4[q] EXCEPT !.received = s4[q].received + n, !.status = s]
      /\ s2' = [s2 EXCEPT ![q] = s2'[q]]
      /\ s4' = [s4 EXCEPT ![q] = s4'[q]]
      /\ UNCHANGED s3
  BY DEF Proc!receivePurchaseOrder, Proc!Inv, Proc!TypeOK
<1> HIDE DEF s
<1>3. /\ s2'[q] = [status |-> s, owner |-> s2[q].owner, vendor |-> s2[q].vendor,
                   level |-> s2[q].level, required |-> s2[q].required, lead |-> s2[q].lead]
      /\ s4'[q] = [status |-> s, vendor |-> s4[q].vendor, quantity |-> s4[q].quantity,
                   received |-> s4[q].received + n]
  BY <1>1, <1>2, PurchaseFields, OrderFields
<1>4. s4[q].received + n \in Nat
  BY <1>1, ProcurementAssumed DEF Proc!OrderRow
<1>5. s \in Proc!Bought /\ s \in Proc!Status /\ s \in Proc!OrderStatus
  BY DEF s, Proc!Bought, Proc!Status, Proc!OrderStatus
<1>6. s2'[q] \in Proc!Row
  BY <1>1, <1>3, <1>5 DEF Proc!Row
<1>7. s4'[q] \in Proc!OrderRow
  BY <1>1, <1>3, <1>4, <1>5 DEF Proc!OrderRow
<1>8. Proc!RequestAgrees(s2'[q], s3[q])
  BY <1>3, <1>5 DEF Proc!RequestAgrees, Proc!Waiting, Proc!Bought
<1>9. s4[q] # Proc!noOrder
  BY <1>2 DEF Proc!noOrder
<1>10. Proc!OrderAgrees(s2'[q], s3[q], s4'[q])
  BY <1>1, <1>3, <1>5, <1>9
     DEF Proc!OrderAgrees, Proc!SignedUpTo, Proc!Bought, Proc!noOrder
<1> QED
  BY <1>1, <1>2, <1>6, <1>7, <1>8, <1>10, PurchaseKept, OnePurchase

LEMMA PortalCreatesPurchase ==
    ASSUME Proc!Inv, NEW q \in Purchase, NEW o \in Person, Proc!leadCreates(q, o)
    PROVE  Proc!Inv'
<1>1. /\ s2[q] \in Proc!Row /\ s3[q] \in Proc!Signatures /\ s4[q] \in Proc!OrderRow
      /\ Proc!OrderAgrees(s2[q], s3[q], s4[q])
  BY PurchaseFacts
<1>2. /\ s2[q] = Proc!noPurchase
      /\ s2'[q] = [status |-> "PENDING", owner |-> o, vendor |-> None, level |-> 0,
                   required |-> 0, lead |-> FALSE]
      /\ s2' = [s2 EXCEPT ![q] = s2'[q]] /\ UNCHANGED <<s3, s4>>
  <2>1. /\ s2[q] = Proc!noPurchase
        /\ s2'[q] = [s2[q] EXCEPT !.status = "PENDING", !.owner = o]
        /\ s2' = [s2 EXCEPT ![q] = s2'[q]] /\ UNCHANGED <<s3, s4>>
    BY DEF Proc!leadCreates, Proc!Inv, Proc!TypeOK
  <2>2. s2'[q] = [status |-> "PENDING", owner |-> o, vendor |-> s2[q].vendor,
                  level |-> s2[q].level, required |-> s2[q].required, lead |-> s2[q].lead]
    BY <1>1, <2>1, PurchaseFields
  <2> QED
    BY <2>1, <2>2 DEF Proc!noPurchase
<1>3. s4[q] = Proc!noOrder
  BY <1>1, <1>2 DEF Proc!OrderAgrees, Proc!noPurchase, Proc!Bought
<1>4. s2'[q] \in Proc!Row
  BY <1>2 DEF Proc!Row, Proc!Status
<1>5. Proc!RequestAgrees(s2'[q], s3[q]) /\ Proc!OrderAgrees(s2'[q], s3[q], s4[q])
  BY <1>2, <1>3 DEF Proc!RequestAgrees, Proc!OrderAgrees, Proc!Waiting, Proc!Bought
<1> QED
  BY <1>1, <1>2, <1>4, <1>5, PurchaseKept, OnePurchase

LEMMA ProcurementStep == ASSUME Proc!Inv, Proc!Next PROVE Proc!Inv'
<1>1. ASSUME NEW q \in Purchase, Proc!Request(q) \/ Proc!Order(q) \/ Proc!Portal(q)
      PROVE  Proc!Inv'
  <2>1. /\ s2[q] \in Proc!Row /\ s4[q] \in Proc!OrderRow
        /\ Proc!RequestAgrees(s2[q], s3[q])
        /\ Proc!OrderAgrees(s2[q], s3[q], s4[q])
    BY PurchaseFacts
  <2>2. s2[q].vendor \in Vendor \cup {None} /\ s2[q].lead \in BOOLEAN
    BY <2>1 DEF Proc!Row
  <2>3. CASE \E o \in Person, n \in Levels, draft \in BOOLEAN :
                 Proc!createPurchaseRequest(q, o, n, draft)
    BY <2>3, PurchaseCreated
  <2>4. CASE Proc!submitRequest(q)
    BY <2>4, PurchaseSubmitted
  <2>5. CASE \E a \in Person : Proc!approveRequest(q, a)
    BY <2>5, PurchaseApproved
  <2>6. CASE Proc!rejectRequest(q)
    <3>1. /\ s2[q] # Proc!noPurchase
          /\ s2'[q] = [s2[q] EXCEPT !.status = "REJECTED"]
          /\ s2' = [s2 EXCEPT ![q] = s2'[q]] /\ UNCHANGED <<s3, s4>>
      BY <2>6 DEF Proc!rejectRequest, Proc!Inv, Proc!TypeOK
    <3>2. s2'[q] = [status |-> "REJECTED", owner |-> s2[q].owner, vendor |-> s2[q].vendor,
                    level |-> s2[q].level, required |-> s2[q].required, lead |-> s2[q].lead]
      BY <2>1, <3>1, PurchaseFields
    <3>3. "REJECTED" \in Proc!Status
      BY DEF Proc!Status
    <3> QED
      BY <2>2, <3>1, <3>2, <3>3, PurchaseStatusWritten
  <2>7. CASE Proc!cancelRequest(q)
    <3>1. /\ s2[q].status \in {"DRAFT", "SUBMITTED"} /\ s2[q] # Proc!noPurchase
          /\ s2'[q] = [s2[q] EXCEPT !.status = "CANCELLED"]
          /\ s2' = [s2 EXCEPT ![q] = s2'[q]] /\ UNCHANGED <<s3, s4>>
      BY <2>7 DEF Proc!cancelRequest, Proc!Inv, Proc!TypeOK, Proc!noPurchase
    <3>2. s2'[q] = [status |-> "CANCELLED", owner |-> s2[q].owner, vendor |-> s2[q].vendor,
                    level |-> s2[q].level, required |-> s2[q].required, lead |-> s2[q].lead]
      BY <2>1, <3>1, PurchaseFields
    <3>3. "CANCELLED" \in Proc!Status
      BY DEF Proc!Status
    <3> QED
      BY <2>2, <3>1, <3>2, <3>3, PurchaseStatusWritten
  <2>8. ASSUME NEW v \in Vendor, Proc!assignVendor(q, v)
        PROVE  Proc!Inv'
    <3>1. /\ s2[q].status = "APPROVED" /\ s2[q] # Proc!noPurchase
          /\ s2'[q] = [s2[q] EXCEPT !.vendor = v]
          /\ s2' = [s2 EXCEPT ![q] = s2'[q]] /\ UNCHANGED <<s3, s4>>
      BY <2>8 DEF Proc!assignVendor, Proc!Inv, Proc!TypeOK, Proc!noPurchase
    <3>2. s2'[q] = [status |-> s2[q].status, owner |-> s2[q].owner, vendor |-> v,
                    level |-> s2[q].level, required |-> s2[q].required, lead |-> s2[q].lead]
      BY <2>1, <3>1, PurchaseFields
    <3>3. s2[q].status \in Proc!Status
      BY <3>1 DEF Proc!Status
    <3> QED
      BY <2>2, <3>1, <3>2, <3>3, PurchaseStatusWritten
  <2>9. CASE \E v \in Vendor \cup {s2[q].vendor}, n \in Quantity :
                 Proc!createPurchaseOrder(q, v, n)
    BY <2>9, OrderCreated
  <2>10. ASSUME NEW s \in Proc!OrderStatus, Proc!updatePurchaseOrder(q, s)
         PROVE  Proc!Inv'
    <3>1. s4[q] # Proc!noOrder
      BY <2>10 DEF Proc!updatePurchaseOrder, Proc!noOrder
    <3> QED
      BY <2>10, <3>1, OrderStatusWritten DEF Proc!updatePurchaseOrder
  <2>11. ASSUME NEW s \in {"SENT", "CANCELLED"}, Proc!setPurchaseOrderStatus(q, s)
         PROVE  Proc!Inv'
    <3>1. s \in Proc!OrderStatus
      BY DEF Proc!OrderStatus
    <3> QED
      BY <2>11, <3>1, OrderStatusWritten DEF Proc!setPurchaseOrderStatus
  <2>12. CASE \E n \in Quantity, complete \in BOOLEAN : Proc!receivePurchaseOrder(q, n, complete)
    BY <2>12, OrderReceived
  <2>13. CASE \E o \in Person : Proc!leadCreates(q, o)
    BY <2>13, PortalCreatesPurchase
  <2>14. ASSUME NEW s \in {"APPROVED", "REJECTED"}, Proc!leadDecides(q, s)
         PROVE  Proc!Inv'
    <3>1. PICK x \in BOOLEAN :
              /\ x <=> s2[q].lead \/ s = "APPROVED"
              /\ s2[q] # Proc!noPurchase
              /\ s2'[q] = [s2[q] EXCEPT !.status = s, !.lead = x]
              /\ s2' = [s2 EXCEPT ![q] = s2'[q]] /\ UNCHANGED <<s3, s4>>
      BY <2>14 DEF Proc!leadDecides, Proc!Inv, Proc!TypeOK
    <3>2. s \in Proc!Status
      BY DEF Proc!Status
    <3>3. s2'[q] = [status |-> s, owner |-> s2[q].owner, vendor |-> s2[q].vendor,
                    level |-> s2[q].level, required |-> s2[q].required, lead |-> x]
      BY <2>1, <3>1, PurchaseFields
    <3> QED
      BY <2>2, <3>1, <3>2, <3>3, PurchaseStatusWritten
  <2> QED
    BY <1>1, <2>3, <2>4, <2>5, <2>6, <2>7, <2>8, <2>9, <2>10, <2>11, <2>12, <2>13, <2>14
       DEF Proc!Request, Proc!Order, Proc!Portal
<1>2. ASSUME NEW v \in Vendor, NEW s \in {"active", "inactive"}, Proc!updateVendor(v, s)
      PROVE  Proc!Inv'
  BY <1>2
     DEF Proc!updateVendor, Proc!Inv, Proc!TypeOK, Proc!RequestAgrees, Proc!OrderAgrees,
         Proc!SignedUpTo, Proc!noPurchase, Proc!noOrder
<1> QED
  BY <1>1, <1>2 DEF Proc!Next

LEMMA PurchasesOrdered == ASSUME Proc!Inv PROVE Proc!OrderedAsApproved
BY DEF Proc!Inv, Proc!OrderAgrees, Proc!OrderedAsApproved, Proc!SignedUpTo

---------------------------------------------------------------------------
(* Expenses. *)

LEMMA ExpensesAssumed ==
    /\ Claimed \subseteq Nat \ {0}
    /\ FinanceFrom \in Nat /\ BoardFrom \in Nat
    /\ None \notin Person \cup {"PENDING"} /\ "PENDING" \notin Person
BY WorkflowsAssumption DEF Exp!ExpensesConstants

LEMMA ExpensesStart == Exp!Init => Exp!Inv
<1> SUFFICES ASSUME Exp!Init PROVE Exp!Inv
  OBVIOUS
<1>1. Exp!noExpense \in Exp!Row
  BY DEF Exp!noExpense, Exp!Row, Exp!Reimbursement
<1>2. [l \in Exp!Level |-> None] \in Exp!Signatures
  BY DEF Exp!Signatures
<1>3. Exp!TypeOK
  BY <1>1, <1>2 DEF Exp!Init, Exp!TypeOK
<1>4. /\ Exp!ClaimAgrees(Exp!noExpense, [l \in Exp!Level |-> None])
      /\ Exp!ReimbursementAgrees(Exp!noExpense, [l \in Exp!Level |-> None], 0)
  BY DEF Exp!ClaimAgrees, Exp!ReimbursementAgrees, Exp!noExpense, Exp!Open, Exp!Payable, Exp!due
<1> QED
  BY <1>3, <1>4 DEF Exp!Init, Exp!Inv

\* A step writes one claim, and keeps the invariant when it keeps that claim's.
LEMMA OneExpense ==
    ASSUME Exp!Inv, NEW e \in Expense,
           UNCHANGED s1,
           /\ s2' = [s2 EXCEPT ![e] = s2'[e]]
           /\ s3' = [s3 EXCEPT ![e] = s3'[e]]
           /\ s4' = [s4 EXCEPT ![e] = s4'[e]],
           s2'[e] \in Exp!Row,
           s3'[e] \in Exp!Signatures,
           s4'[e] \in Nat,
           Exp!ClaimAgrees(s2'[e], s3'[e]),
           Exp!ReimbursementAgrees(s2'[e], s3'[e], s4'[e])
    PROVE  Exp!Inv'
<1>1. Exp!TypeOK'
  BY DEF Exp!Inv, Exp!TypeOK
<1>2. ASSUME NEW f \in Expense
      PROVE  Exp!ClaimAgrees(s2'[f], s3'[f]) /\ Exp!ReimbursementAgrees(s2'[f], s3'[f], s4'[f])
  <2>1. CASE f = e
    BY <2>1
  <2>2. CASE f # e
    BY <2>2 DEF Exp!Inv, Exp!TypeOK
  <2> QED
    BY <2>1, <2>2
<1> QED
  BY <1>1, <1>2
     DEF Exp!Inv, Exp!ClaimAgrees, Exp!ReimbursementAgrees, Exp!SignedUpTo, Exp!EnoughLevels,
         Exp!due, Exp!noExpense, Exp!one

LEMMA ExpenseFacts ==
    ASSUME Exp!Inv, NEW e \in Expense
    PROVE  /\ s2[e] \in Exp!Row /\ s3[e] \in Exp!Signatures /\ s4[e] \in Nat
           /\ Exp!ClaimAgrees(s2[e], s3[e])
           /\ Exp!ReimbursementAgrees(s2[e], s3[e], s4[e])
BY DEF Exp!Inv, Exp!TypeOK

LEMMA ExpenseKept ==
    ASSUME Exp!Inv, NEW e \in Expense
    PROVE  /\ UNCHANGED s3 => s3' = [s3 EXCEPT ![e] = s3'[e]] /\ s3'[e] = s3[e]
           /\ UNCHANGED s4 => s4' = [s4 EXCEPT ![e] = s4'[e]] /\ s4'[e] = s4[e]
BY DEF Exp!Inv, Exp!TypeOK

LEMMA ExpenseFields ==
    ASSUME NEW r \in Exp!Row
    PROVE  r = [status |-> r.status, reimbursement |-> r.reimbursement, owner |-> r.owner,
                amount |-> r.amount, approved |-> r.approved, level |-> r.level,
                required |-> r.required, receipt |-> r.receipt, portal |-> r.portal,
                lead |-> r.lead]
BY DEF Exp!Row

\* Whatever the policy is, the levels are one to three, and those the amount calls for.
LEMMA ExpenseLevels ==
    ASSUME NEW n \in Nat
    PROVE  /\ Exp!getRequiredApprovalLevels(n) \in 1..3
           /\ Exp!getRequiredApprovalLevels(n) >= Exp!one(n > FinanceFrom) + Exp!one(n > BoardFrom)
BY ExpensesAssumed DEF Exp!getRequiredApprovalLevels, Exp!one

LEMMA ExpenseCreated ==
    ASSUME Exp!Inv, NEW e \in Expense, NEW o \in Person, NEW n \in Claimed,
           NEW r \in BOOLEAN, NEW draft \in BOOLEAN, Exp!createExpense(e, o, n, r, draft)
    PROVE  Exp!Inv'
<1>1. n \in Nat \ {0}
  BY ExpensesAssumed
<1>2. PICK k \in 1..3 : /\ k = Exp!getRequiredApprovalLevels(n)
                        /\ k >= Exp!one(n > FinanceFrom) + Exp!one(n > BoardFrom)
  BY <1>1, ExpenseLevels
<1>3. /\ s2[e] = Exp!noExpense
      /\ s2'[e] = [status |-> IF draft THEN "DRAFT" ELSE "SUBMITTED",
                   reimbursement |-> IF draft THEN "NOT_REQUIRED" ELSE "PENDING",
                   owner |-> o, amount |-> n, approved |-> 0,
                   level |-> IF draft THEN 0 ELSE 1, required |-> k, receipt |-> r,
                   portal |-> 0, lead |-> FALSE]
      /\ s3'[e] = IF draft THEN s3[e] ELSE [s3[e] EXCEPT ![1] = "PENDING"]
      /\ UNCHANGED <<s1, s4>>
  BY <1>2 DEF Exp!createExpense, Exp!openLevel, Exp!pays, Exp!Inv, Exp!TypeOK, Exp!one
<1>4. /\ s2' = [s2 EXCEPT ![e] = s2'[e]]
      /\ s3' = [s3 EXCEPT ![e] = s3'[e]]
  BY DEF Exp!createExpense, Exp!openLevel, Exp!Inv, Exp!TypeOK
<1>5. s4[e] = 0
  BY <1>3, ExpenseFacts DEF Exp!ReimbursementAgrees, Exp!noExpense, Exp!due
<1>6. s2'[e] \in Exp!Row
  BY <1>1, <1>3 DEF Exp!Row, Exp!Status, Exp!Open, Exp!Reimbursement
<1>7. s3'[e] \in Exp!Signatures
  BY <1>3, ExpenseFacts DEF Exp!Signatures, Exp!Level
<1>8. Exp!ClaimAgrees(s2'[e], s3'[e])
  BY <1>1, <1>2, <1>3 DEF Exp!ClaimAgrees, Exp!EnoughLevels, Exp!SignedUpTo, Exp!Open
<1>9. Exp!ReimbursementAgrees(s2'[e], s3'[e], 0)
  BY <1>1, <1>3 DEF Exp!ReimbursementAgrees, Exp!due, Exp!Payable, Exp!Open
<1> QED
  BY <1>3, <1>4, <1>5, <1>6, <1>7, <1>8, <1>9, ExpenseKept, OneExpense

LEMMA ExpenseUpdated ==
    ASSUME Exp!Inv, NEW e \in Expense, NEW n \in Claimed, Exp!updateExpense(e, n)
    PROVE  Exp!Inv'
<1>1. /\ s2[e] \in Exp!Row /\ s3[e] \in Exp!Signatures /\ s4[e] \in Nat
      /\ Exp!ClaimAgrees(s2[e], s3[e])
      /\ Exp!ReimbursementAgrees(s2[e], s3[e], s4[e])
  BY ExpenseFacts
<1>2. n \in Nat \ {0}
  BY ExpensesAssumed
<1>3. /\ s2[e].status = "DRAFT"
      /\ s2'[e] = [s2[e] EXCEPT !.amount = n]
      /\ s2' = [s2 EXCEPT ![e] = s2'[e]] /\ UNCHANGED <<s1, s3, s4>>
  BY DEF Exp!updateExpense, Exp!pays, Exp!Inv, Exp!TypeOK
<1>4. s2'[e] = [status |-> "DRAFT", reimbursement |-> s2[e].reimbursement, owner |-> s2[e].owner,
                amount |-> n, approved |-> s2[e].approved, level |-> s2[e].level,
                required |-> s2[e].required, receipt |-> s2[e].receipt,
                portal |-> s2[e].portal, lead |-> s2[e].lead]
  BY <1>1, <1>3, ExpenseFields
<1>5. s2'[e] \in Exp!Row
  BY <1>1, <1>2, <1>4 DEF Exp!Row, Exp!Status
<1>6. /\ Exp!ClaimAgrees(s2'[e], s3[e])
      /\ Exp!ReimbursementAgrees(s2'[e], s3[e], s4[e])
  BY <1>1, <1>2, <1>3, <1>4
     DEF Exp!ClaimAgrees, Exp!ReimbursementAgrees, Exp!due, Exp!Payable, Exp!Open
<1> QED
  BY <1>1, <1>3, <1>5, <1>6, ExpenseKept, OneExpense

LEMMA ExpenseSubmitted ==
    ASSUME Exp!Inv, NEW e \in Expense, Exp!submitExpense(e)
    PROVE  Exp!Inv'
<1>1. /\ s2[e] \in Exp!Row /\ s3[e] \in Exp!Signatures /\ s4[e] \in Nat
      /\ Exp!ClaimAgrees(s2[e], s3[e])
      /\ Exp!ReimbursementAgrees(s2[e], s3[e], s4[e])
  BY ExpenseFacts
<1>2. s2[e].amount \in Nat
  BY <1>1 DEF Exp!Row
<1>3. PICK k \in 1..3 :
          /\ k = Exp!getRequiredApprovalLevels(s2[e].amount)
          /\ k >= Exp!one(s2[e].amount > FinanceFrom) + Exp!one(s2[e].amount > BoardFrom)
  BY <1>2, ExpenseLevels
<1>4. PICK w \in {"PENDING", "NOT_REQUIRED"} :
          s2'[e] = [s2[e] EXCEPT !.status = "SUBMITTED", !.level = 1, !.required = k,
                                 !.reimbursement = w]
  BY <1>3 DEF Exp!submitExpense, Exp!Inv, Exp!TypeOK
<1>5. /\ s2[e].status = "DRAFT"
      /\ s3'[e] = [s3[e] EXCEPT ![1] = "PENDING"]
      /\ s2' = [s2 EXCEPT ![e] = s2'[e]]
      /\ s3' = [s3 EXCEPT ![e] = s3'[e]]
      /\ UNCHANGED <<s1, s4>>
  BY DEF Exp!submitExpense, Exp!openLevel, Exp!pays, Exp!Inv, Exp!TypeOK
<1>6. s2'[e] = [status |-> "SUBMITTED", reimbursement |-> w, owner |-> s2[e].owner,
                amount |-> s2[e].amount, approved |-> s2[e].approved, level |-> 1,
                required |-> k, receipt |-> s2[e].receipt, portal |-> s2[e].portal,
                lead |-> s2[e].lead]
  BY <1>1, <1>4, ExpenseFields
<1>7. s2'[e] \in Exp!Row
  BY <1>1, <1>6 DEF Exp!Row, Exp!Status, Exp!Open, Exp!Reimbursement
<1>8. s3'[e] \in Exp!Signatures
  BY <1>1, <1>5 DEF Exp!Signatures, Exp!Level
<1>9. Exp!ClaimAgrees(s2'[e], s3'[e])
  BY <1>1, <1>3, <1>5, <1>6 DEF Exp!ClaimAgrees, Exp!EnoughLevels, Exp!SignedUpTo, Exp!Open
<1>10. Exp!ReimbursementAgrees(s2'[e], s3'[e], s4[e])
  BY <1>1, <1>5, <1>6 DEF Exp!ReimbursementAgrees, Exp!due, Exp!Payable, Exp!Open
<1> QED
  BY <1>1, <1>5, <1>7, <1>8, <1>9, <1>10, ExpenseKept, OneExpense

LEMMA ExpenseApproved ==
    ASSUME Exp!Inv, NEW e \in Expense, NEW a \in Person, NEW n \in Claimed,
           Exp!approveExpense(e, a, n)
    PROVE  Exp!Inv'
<1> DEFINE l == s2[e].level
           last == l >= s2[e].required
           given == [s3[e] EXCEPT ![l] = a]
<1>1. /\ s2[e] \in Exp!Row /\ s3[e] \in Exp!Signatures /\ s4[e] \in Nat
      /\ Exp!ClaimAgrees(s2[e], s3[e])
      /\ Exp!ReimbursementAgrees(s2[e], s3[e], s4[e])
  BY ExpenseFacts
<1>2. /\ s2[e].status \in Exp!Open /\ a # s2[e].owner /\ n <= s2[e].amount
      /\ s3'[e] = IF last THEN given ELSE [given EXCEPT ![l + 1] = "PENDING"]
      /\ s2' = [s2 EXCEPT ![e] = s2'[e]]
      /\ s3' = [s3 EXCEPT ![e] = s3'[e]]
      /\ UNCHANGED <<s1, s4>>
  BY DEF Exp!approveExpense, Exp!pays, Exp!Inv, Exp!TypeOK
<1>3. PICK w \in Exp!Reimbursement :
          s2'[e] = [s2[e] EXCEPT !.status = IF last THEN "APPROVED" ELSE "UNDER_REVIEW",
                                 !.level = IF last THEN l ELSE l + 1, !.approved = n,
                                 !.reimbursement = w]
  <2>1. s2[e].reimbursement \in Exp!Reimbursement /\ "PENDING" \in Exp!Reimbursement
    BY <1>1 DEF Exp!Row, Exp!Reimbursement
  <2> QED
    BY <2>1 DEF Exp!approveExpense, Exp!Inv, Exp!TypeOK
<1>4. s2'[e] = [status |-> IF last THEN "APPROVED" ELSE "UNDER_REVIEW",
                reimbursement |-> w, owner |-> s2[e].owner, amount |-> s2[e].amount,
                approved |-> n, level |-> IF last THEN l ELSE l + 1,
                required |-> s2[e].required, receipt |-> s2[e].receipt,
                portal |-> s2[e].portal, lead |-> s2[e].lead]
  BY <1>1, <1>3, ExpenseFields
<1>5. /\ s2[e].required \in 1..3 /\ l \in 1..s2[e].required /\ n \in Nat \ {0}
      /\ Exp!EnoughLevels(s2[e]) /\ Exp!SignedUpTo(s2[e], s3[e], l - 1)
      /\ ~ s2[e].lead /\ s4[e] = 0 /\ s2[e].amount \in Nat
  BY <1>1, <1>2, ExpensesAssumed DEF Exp!ClaimAgrees, Exp!ReimbursementAgrees, Exp!Row
<1>6. \A k \in 1..l : s3'[e][k] \in Person \ {s2[e].owner}
  BY <1>1, <1>2, <1>5 DEF Exp!SignedUpTo, Exp!Signatures, Exp!Level
<1>7. s3'[e] \in Exp!Signatures
  BY <1>1, <1>2, <1>5 DEF Exp!Signatures, Exp!Level
<1> HIDE DEF l
<1>8. s2'[e] \in Exp!Row
  BY <1>1, <1>4, <1>5 DEF Exp!Row, Exp!Status, Exp!Open, Exp!Payable
<1>9. CASE last
  <2>1. Exp!ClaimAgrees(s2'[e], s3'[e])
    BY <1>2, <1>4, <1>5, <1>9 DEF Exp!ClaimAgrees, Exp!Open
  <2>2. l = s2[e].required
    BY <1>5, <1>9
  <2>3. Exp!EnoughLevels(s2'[e]) /\ Exp!SignedUpTo(s2'[e], s3'[e], s2'[e].required)
    BY <1>4, <1>5, <1>6, <2>2 DEF Exp!EnoughLevels, Exp!SignedUpTo
  <2>4. Exp!ReimbursementAgrees(s2'[e], s3'[e], 0)
    BY <1>2, <1>4, <1>5, <1>9, <2>3 DEF Exp!ReimbursementAgrees, Exp!due, Exp!Open, Exp!Payable
  <2> QED
    BY <1>2, <1>5, <1>7, <1>8, <2>1, <2>4, ExpenseKept, OneExpense
<1>10. CASE ~ last
  <2>1. Exp!EnoughLevels(s2'[e]) /\ Exp!SignedUpTo(s2'[e], s3'[e], l)
    BY <1>4, <1>5, <1>6 DEF Exp!EnoughLevels, Exp!SignedUpTo
  <2>2. Exp!ClaimAgrees(s2'[e], s3'[e])
    BY <1>2, <1>4, <1>5, <1>10, <2>1 DEF Exp!ClaimAgrees, Exp!Open
  <2>3. Exp!ReimbursementAgrees(s2'[e], s3'[e], 0)
    BY <1>2, <1>4, <1>5, <1>10 DEF Exp!ReimbursementAgrees, Exp!due, Exp!Open, Exp!Payable
  <2> QED
    BY <1>2, <1>5, <1>7, <1>8, <2>2, <2>3, ExpenseKept, OneExpense
<1> QED
  BY <1>9, <1>10

\* The statuses, the receipt, the portal's payments and the lead's approval are all that
\* is written, and the new status calls for no approval the claim does not have.
LEMMA ExpenseStatusWritten ==
    ASSUME Exp!Inv, NEW e \in Expense,
           NEW s \in Exp!Status, NEW w \in Exp!Reimbursement, NEW c \in BOOLEAN, NEW q \in Nat,
           NEW x \in BOOLEAN,
           s2[e] # Exp!noExpense,
           s2' = [s2 EXCEPT ![e] = s2'[e]], UNCHANGED <<s1, s3, s4>>,
           s2'[e] = [status |-> s, reimbursement |-> w, owner |-> s2[e].owner,
                     amount |-> s2[e].amount, approved |-> s2[e].approved,
                     level |-> s2[e].level, required |-> s2[e].required, receipt |-> c,
                     portal |-> q, lead |-> x],
           s2[e].lead => x,
           \/ s = s2[e].status /\ w = s2[e].reimbursement /\ x = s2[e].lead
           \/ s \in {"REJECTED", "CANCELLED"}
           \/ s = "APPROVED" /\ x
    PROVE  Exp!Inv'
<1>1. /\ s2[e] \in Exp!Row /\ s3[e] \in Exp!Signatures /\ s4[e] \in Nat
      /\ Exp!ClaimAgrees(s2[e], s3[e])
      /\ Exp!ReimbursementAgrees(s2[e], s3[e], s4[e])
  BY ExpenseFacts
<1>2. s2'[e] \in Exp!Row
  BY <1>1 DEF Exp!Row
<1>3. s # "absent" /\ s2[e].status # "absent"
  BY <1>1 DEF Exp!ClaimAgrees, Exp!Status, Exp!Open, Exp!Payable
<1>4. Exp!ClaimAgrees(s2'[e], s3[e])
  BY <1>1, <1>3 DEF Exp!ClaimAgrees, Exp!SignedUpTo, Exp!EnoughLevels, Exp!Open
<1>5. Exp!ReimbursementAgrees(s2'[e], s3[e], s4[e])
  BY <1>1
     DEF Exp!ReimbursementAgrees, Exp!SignedUpTo, Exp!EnoughLevels, Exp!due, Exp!Open, Exp!Payable
<1> QED
  BY <1>1, <1>2, <1>4, <1>5, ExpenseKept, OneExpense

LEMMA ExpenseReimbursed ==
    ASSUME Exp!Inv, NEW e \in Expense, NEW a \in Person, NEW n \in Claimed,
           NEW s \in {"PROCESSING", "PAID", "FAILED"}, Exp!processReimbursement(e, a, n, s)
    PROVE  Exp!Inv'
<1> DEFINE total == s4[e] + (IF s = "PAID" THEN n ELSE 0)
           paid == total >= Exp!due(s2[e])
           w == IF s = "FAILED" THEN "FAILED" ELSE IF paid THEN "PAID" ELSE "PROCESSING"
<1>1. /\ s2[e] \in Exp!Row /\ s3[e] \in Exp!Signatures /\ s4[e] \in Nat
      /\ Exp!ClaimAgrees(s2[e], s3[e])
      /\ Exp!ReimbursementAgrees(s2[e], s3[e], s4[e])
  BY ExpenseFacts
<1>2. /\ s2[e].status \in Exp!Payable /\ n <= Exp!due(s2[e]) - s4[e]
      /\ s4'[e] = total
      /\ s2'[e] = [s2[e] EXCEPT !.status = IF paid THEN "COMPLETED" ELSE "PROCESSING",
                                !.reimbursement = w]
      /\ s2' = [s2 EXCEPT ![e] = s2'[e]]
      /\ s4' = [s4 EXCEPT ![e] = s4'[e]]
      /\ UNCHANGED <<s1, s3>>
  BY DEF Exp!processReimbursement, Exp!approvedAmount, Exp!due, Exp!Inv, Exp!TypeOK
<1>3. s2'[e] = [status |-> IF paid THEN "COMPLETED" ELSE "PROCESSING", reimbursement |-> w,
                owner |-> s2[e].owner, amount |-> s2[e].amount, approved |-> s2[e].approved,
                level |-> s2[e].level, required |-> s2[e].required,
                receipt |-> s2[e].receipt, portal |-> s2[e].portal, lead |-> s2[e].lead]
  BY <1>1, <1>2, ExpenseFields
<1>4. Exp!due(s2'[e]) = Exp!due(s2[e])
  BY <1>3 DEF Exp!due
<1>5. n \in Nat \ {0} /\ Exp!due(s2[e]) \in Nat
  BY <1>1, ExpensesAssumed DEF Exp!Row, Exp!due
<1>6. /\ total \in Nat /\ total <= Exp!due(s2[e])
      /\ paid => total = Exp!due(s2[e]) /\ w = "PAID"
      /\ ~ paid => total < Exp!due(s2[e])
  BY <1>1, <1>2, <1>5
<1>7. w \in Exp!Reimbursement
  BY DEF Exp!Reimbursement
<1> HIDE DEF total, w
<1>8. s2'[e] \in Exp!Row
  BY <1>1, <1>3, <1>7 DEF Exp!Row, Exp!Status, Exp!Payable
<1>9. Exp!ClaimAgrees(s2'[e], s3[e])
  BY <1>1, <1>2, <1>3 DEF Exp!ClaimAgrees, Exp!Open, Exp!Payable
<1>10. s2'[e].lead \/ (Exp!EnoughLevels(s2'[e]) /\ Exp!SignedUpTo(s2'[e], s3[e], s2'[e].required))
  <2>1. s2[e].lead \/ (Exp!EnoughLevels(s2[e]) /\ Exp!SignedUpTo(s2[e], s3[e], s2[e].required))
    BY <1>1, <1>2 DEF Exp!ReimbursementAgrees
  <2> QED
    BY <1>3, <2>1 DEF Exp!EnoughLevels, Exp!SignedUpTo
<1>11. Exp!due(s2'[e]) <= s2'[e].amount
  BY <1>1, <1>3, <1>4 DEF Exp!ReimbursementAgrees
<1>12. Exp!ReimbursementAgrees(s2'[e], s3[e], total)
  <2>1. CASE paid
    BY <1>3, <1>4, <1>6, <1>10, <1>11, <2>1 DEF Exp!ReimbursementAgrees, Exp!Open, Exp!Payable
  <2>2. CASE ~ paid
    BY <1>3, <1>4, <1>6, <1>10, <1>11, <2>2 DEF Exp!ReimbursementAgrees, Exp!Open, Exp!Payable
  <2> QED
    BY <2>1, <2>2
<1> QED
  BY <1>1, <1>2, <1>6, <1>8, <1>9, <1>12, ExpenseKept, OneExpense

LEMMA PolicyUpdated == ASSUME Exp!Inv, Exp!updatePolicy PROVE Exp!Inv'
<1>1. s1 \in Exp!Policies
  BY DEF Exp!Inv, Exp!TypeOK
<1>2. s1' \in Exp!Policies
  <2>1. ASSUME NEW m \in Claimed PROVE [s1 EXCEPT !.max = m] \in Exp!Policies
    BY <1>1 DEF Exp!Policies
  <2>2. ASSUME NEW b \in BOOLEAN
        PROVE  /\ [s1 EXCEPT !.manager = b] \in Exp!Policies
               /\ [s1 EXCEPT !.finance = b] \in Exp!Policies
               /\ [s1 EXCEPT !.receipt = b] \in Exp!Policies
               /\ [s1 EXCEPT !.allowed = b] \in Exp!Policies
    BY <1>1 DEF Exp!Policies
  <2>3. ASSUME NEW f \in {"manager", "finance", "receipt", "allowed"}, NEW b \in BOOLEAN
        PROVE  [s1 EXCEPT ![f] = b] \in Exp!Policies
    BY <2>2
  <2> QED
    BY <2>1, <2>3 DEF Exp!updatePolicy
<1>3. UNCHANGED <<s2, s3, s4>>
  BY DEF Exp!updatePolicy, Exp!pays
<1> QED
  BY <1>2, <1>3
     DEF Exp!Inv, Exp!TypeOK, Exp!ClaimAgrees, Exp!ReimbursementAgrees, Exp!SignedUpTo,
         Exp!EnoughLevels, Exp!due, Exp!noExpense, Exp!one

LEMMA ExpensesStep == ASSUME Exp!Inv, Exp!Next PROVE Exp!Inv'
<1>1. ASSUME NEW e \in Expense, Exp!Handler(e) PROVE Exp!Inv'
  <2>1. s2[e] \in Exp!Row /\ Exp!ClaimAgrees(s2[e], s3[e])
    BY ExpenseFacts
  <2>2. /\ s2[e].lead \in BOOLEAN /\ s2[e].receipt \in BOOLEAN /\ s2[e].portal \in Nat
        /\ s2[e].reimbursement \in Exp!Reimbursement
        /\ s2[e] # Exp!noExpense => s2[e].status \in Exp!Status
    BY <2>1 DEF Exp!Row, Exp!ClaimAgrees
  <2>3. CASE \E o \in Person, n \in Claimed, r, draft \in BOOLEAN : Exp!createExpense(e, o, n, r, draft)
    BY <2>3, ExpenseCreated
  <2>4. CASE \E n \in Claimed : Exp!updateExpense(e, n)
    BY <2>4, ExpenseUpdated
  <2>5. CASE Exp!submitExpense(e)
    BY <2>5, ExpenseSubmitted
  <2>6. CASE \E a \in Person, n \in Claimed : Exp!approveExpense(e, a, n)
    BY <2>6, ExpenseApproved
  <2>7. ASSUME NEW s \in {"REJECTED", "CANCELLED"}, s2[e] # Exp!noExpense,
               s2' = [s2 EXCEPT ![e].status = s, ![e].reimbursement = "NOT_REQUIRED"],
               UNCHANGED <<s1, s3, s4>>
        PROVE  Exp!Inv'
    <3>1. /\ s2[e] # Exp!noExpense
          /\ s2'[e] = [s2[e] EXCEPT !.status = s, !.reimbursement = "NOT_REQUIRED"]
          /\ s2' = [s2 EXCEPT ![e] = s2'[e]] /\ UNCHANGED <<s1, s3, s4>>
      BY <2>7 DEF Exp!Inv, Exp!TypeOK
    <3>2. s2'[e] = [status |-> s, reimbursement |-> "NOT_REQUIRED", owner |-> s2[e].owner,
                    amount |-> s2[e].amount, approved |-> s2[e].approved,
                    level |-> s2[e].level, required |-> s2[e].required,
                    receipt |-> s2[e].receipt, portal |-> s2[e].portal, lead |-> s2[e].lead]
      BY <2>1, <3>1, ExpenseFields
    <3>3. /\ s \in {"REJECTED", "CANCELLED"} /\ s \in Exp!Status
          /\ "NOT_REQUIRED" \in Exp!Reimbursement
      BY <2>7 DEF Exp!Status, Exp!Reimbursement
    <3> QED
      BY <2>2, <3>1, <3>2, <3>3, ExpenseStatusWritten
  <2>8. CASE Exp!rejectExpense(e)
    BY <2>7, <2>8 DEF Exp!rejectExpense, Exp!pays
  <2>9. CASE Exp!cancelExpense(e)
    <3>1. s2[e] # Exp!noExpense
      BY <2>9 DEF Exp!cancelExpense, Exp!noExpense
    <3> QED
      BY <2>7, <2>9, <3>1 DEF Exp!cancelExpense, Exp!pays
  <2>10. CASE Exp!addReceipt(e)
    <3>1. /\ s2[e] # Exp!noExpense
          /\ s2'[e] = [s2[e] EXCEPT !.receipt = TRUE]
          /\ s2' = [s2 EXCEPT ![e] = s2'[e]] /\ UNCHANGED <<s1, s3, s4>>
      BY <2>10 DEF Exp!addReceipt, Exp!pays, Exp!Inv, Exp!TypeOK
    <3>2. s2'[e] = [status |-> s2[e].status, reimbursement |-> s2[e].reimbursement,
                    owner |-> s2[e].owner, amount |-> s2[e].amount,
                    approved |-> s2[e].approved, level |-> s2[e].level,
                    required |-> s2[e].required, receipt |-> TRUE, portal |-> s2[e].portal,
                    lead |-> s2[e].lead]
      BY <2>1, <3>1, ExpenseFields
    <3> QED
      BY <2>2, <3>1, <3>2, ExpenseStatusWritten
  <2>11. CASE \E a \in Person, n \in Claimed, s \in {"PROCESSING", "PAID", "FAILED"} :
                  Exp!processReimbursement(e, a, n, s)
    BY <2>11, ExpenseReimbursed
  <2>12. ASSUME NEW n \in Claimed, Exp!portalPays(e, n)
         PROVE  Exp!Inv'
    <3>1. /\ s2[e] # Exp!noExpense
          /\ s2'[e] = [s2[e] EXCEPT !.portal = s2[e].portal + n]
          /\ s2' = [s2 EXCEPT ![e] = s2'[e]] /\ UNCHANGED <<s1, s3, s4>>
      BY <2>12 DEF Exp!portalPays, Exp!pays, Exp!Inv, Exp!TypeOK
    <3>2. s2'[e] = [status |-> s2[e].status, reimbursement |-> s2[e].reimbursement,
                    owner |-> s2[e].owner, amount |-> s2[e].amount,
                    approved |-> s2[e].approved, level |-> s2[e].level,
                    required |-> s2[e].required, receipt |-> s2[e].receipt,
                    portal |-> s2[e].portal + n, lead |-> s2[e].lead]
      BY <2>1, <3>1, ExpenseFields
    <3>3. s2[e].portal + n \in Nat
      BY <2>2, ExpensesAssumed
    <3> QED
      BY <2>2, <3>1, <3>2, <3>3, ExpenseStatusWritten
  <2>13. ASSUME NEW s \in {"APPROVED", "REJECTED"}, Exp!leadDecides(e, s)
         PROVE  Exp!Inv'
    <3>1. PICK x \in BOOLEAN :
              /\ x <=> s2[e].lead \/ s = "APPROVED"
              /\ s2[e] # Exp!noExpense
              /\ s2'[e] = [s2[e] EXCEPT !.status = s, !.lead = x]
              /\ s2' = [s2 EXCEPT ![e] = s2'[e]] /\ UNCHANGED <<s1, s3, s4>>
      BY <2>13 DEF Exp!leadDecides, Exp!pays, Exp!Inv, Exp!TypeOK
    <3>2. s2'[e] = [status |-> s, reimbursement |-> s2[e].reimbursement,
                    owner |-> s2[e].owner, amount |-> s2[e].amount,
                    approved |-> s2[e].approved, level |-> s2[e].level,
                    required |-> s2[e].required, receipt |-> s2[e].receipt,
                    portal |-> s2[e].portal, lead |-> x]
      BY <2>1, <3>1, ExpenseFields
    <3>3. s \in Exp!Status
      BY DEF Exp!Status, Exp!Payable
    <3> QED
      BY <2>2, <3>1, <3>2, <3>3, ExpenseStatusWritten
  <2> QED
    BY <1>1, <2>3, <2>4, <2>5, <2>6, <2>8, <2>9, <2>10, <2>11, <2>12, <2>13 DEF Exp!Handler
<1> QED
  BY <1>1, PolicyUpdated DEF Exp!Next

LEMMA ExpensesReimbursed == ASSUME Exp!Inv PROVE Exp!ReimbursedAsApproved
BY DEF Exp!Inv, Exp!ReimbursementAgrees, Exp!ReimbursedAsApproved, Exp!ApprovedInFull,
       Exp!SignedUpTo, Exp!EnoughLevels, Exp!due, Exp!approvedAmount

---------------------------------------------------------------------------
\* No money leaves that was not approved as the amount calls for, of claims, purchases
\* and bills alike, whatever the amounts, the policies and the number of people are.
THEOREM MoneyLeaves == WorkflowsSpec => []MoneyLeavesAsApproved
<1> DEFINE I == /\ part = "expenses" => Exp!Inv
                /\ part = "procurement" => Proc!Inv
                /\ part = "bills" => Bil!Inv
<1>1. WorkflowsInit => I
  BY ExpensesStart, ProcurementStart, BillsStart DEF WorkflowsInit
<1>2. I /\ [WorkflowsNext]_<<part, s1, s2, s3, s4, s5, s6, s7, vars>> => I'
  <2> SUFFICES ASSUME I, [WorkflowsNext]_<<part, s1, s2, s3, s4, s5, s6, s7, vars>> PROVE I'
    OBVIOUS
  <2>1. CASE UNCHANGED <<part, s1, s2, s3, s4, s5, s6, s7, vars>>
    BY <2>1
       DEF Exp!Inv, Exp!TypeOK, Exp!ClaimAgrees, Exp!ReimbursementAgrees, Exp!SignedUpTo,
           Exp!EnoughLevels, Exp!due, Exp!noExpense, Exp!one,
           Proc!Inv, Proc!TypeOK, Proc!RequestAgrees, Proc!OrderAgrees, Proc!SignedUpTo,
           Proc!noPurchase, Proc!noOrder,
           Bil!Inv, Bil!TypeOK, Bil!BillAgrees, Bil!MoneyAgrees, Bil!ApprovalsAgree,
           Bil!SignedUpTo, Bil!noBill
  <2>2. CASE WorkflowsNext
    <3>1. /\ part' = part
          /\ part = "expenses" => Exp!Next
          /\ part = "procurement" => Proc!Next
          /\ part = "bills" => Bil!Next
      BY <2>2 DEF WorkflowsNext, paymentsRest
    <3> QED
      BY <3>1, ExpensesStep, ProcurementStep, BillsStep
  <2> QED
    BY <2>1, <2>2
<1>3. I => MoneyLeavesAsApproved
  BY ExpensesReimbursed, PurchasesOrdered, BillsPaid DEF MoneyLeavesAsApproved
<1> QED
  BY <1>1, <1>2, <1>3, PTL DEF WorkflowsSpec
=============================================================================
