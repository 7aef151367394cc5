--------------------------- MODULE PayrollProofs ---------------------------
(* Proofs about Payroll, for any runs, periods, employees and verifications. *)
EXTENDS Payroll, Sequences, TLAPS

USE PayrollAssumption
USE DEF RunStatus, PeriodStatus, RowStatus, payVars, runVars,
        Pay!Op, Pay!Answer, Pay!Kind, Pay!Status, Pay!idle

(***************************************************************************)
(* Types.                                                                  *)
(***************************************************************************)

\* A handler that leaves Payments alone keeps its types.
LEMMA SamePay ==
    ASSUME Pay!TypeOK, UNCHANGED payVars
    PROVE  Pay!TypeOK'
BY DEF Pay!TypeOK

\* One more row of status s for one item, and no other change of rows.
LEMMA AddRow ==
    ASSUME paid \in [Run \X Employee -> [RowStatus -> Nat]],
           NEW r \in Run, NEW e \in Employee, NEW s \in RowStatus, addRow(r, e, s)
    PROVE  /\ paid' \in [Run \X Employee -> [RowStatus -> Nat]]
           /\ \A x \in Run \X Employee : x # <<r, e>> => paid'[x] = paid[x]
           /\ paid'[<<r, e>>][s] = paid[<<r, e>>][s] + 1
           /\ \A t \in RowStatus : t # s => paid'[<<r, e>>][t] = paid[<<r, e>>][t]
<1>1. <<r, e>> \in Run \X Employee
  OBVIOUS
<1>2. paid[<<r, e>>] \in [RowStatus -> Nat]
  BY <1>1
<1>3. [paid[<<r, e>>] EXCEPT ![s] = @ + 1] \in [RowStatus -> Nat]
  BY <1>2
<1>4. paid' = [paid EXCEPT ![<<r, e>>] = [paid[<<r, e>>] EXCEPT ![s] = @ + 1]]
  BY DEF addRow
<1> QED BY <1>1, <1>2, <1>3, <1>4

\* What is saved is one record, of the reference it is saved for.
LEMMA Saving ==
    ASSUME payments \in Seq(Pay!Record), NEW x \in Run \X Employee, NEW s \in Pay!Status,
           Pay!savePayment(x, s)
    PROVE  /\ payments' \in Seq(Pay!Record)
           /\ \A i \in DOMAIN payments' :
                 payments'[i].ref = x \/ (i \in DOMAIN payments /\ payments'[i] = payments[i])
<1>0. \A i \in DOMAIN payments : payments[i] \in Pay!Record
  OBVIOUS
<1> USE DEF Pay!Record
<1>1. CASE payments' = Append(payments, [ref |-> x, status |-> s])
  BY <1>1
<1>2. CASE \E i \in Pay!recordsOf(x) : payments' = [payments EXCEPT ![i].status = s]
  <2>1. PICK i \in Pay!recordsOf(x) : payments' = [payments EXCEPT ![i].status = s]
    BY <1>2
  <2>2. i \in DOMAIN payments /\ payments[i] \in Pay!Record /\ payments[i].ref = x
    BY <1>0, <2>1 DEF Pay!recordsOf
  <2>3. [payments[i] EXCEPT !.status = s] = [ref |-> x, status |-> s]
    BY <2>2
  <2>4. payments' = [payments EXCEPT ![i] = [ref |-> x, status |-> s]]
    BY <2>1, <2>3
  <2> QED BY <2>2, <2>4
<1> QED BY <1>1, <1>2 DEF Pay!savePayment

\* So is what the portal books.
LEMMA Booking ==
    ASSUME payments \in Seq(Pay!Record), NEW x \in (Run \X Employee) \cup {None}, book(x)
    PROVE  /\ payments' \in Seq(Pay!Record)
           /\ \A i \in DOMAIN payments' :
                 payments'[i].ref = x \/ (i \in DOMAIN payments /\ payments'[i] = payments[i])
<1> USE DEF Pay!Record
<1>1. CASE payments' = Append(payments, [ref |-> x, status |-> "booked"])
  BY <1>1
<1>2. CASE \E i \in DOMAIN payments :
              payments' = [payments EXCEPT ![i] = [ref |-> x, status |-> "booked"]]
  BY <1>2
<1> QED BY <1>1, <1>2 DEF book, Pay!recordPayment, Pay!reconcilePayment

\* What the handler does with Paystack's answer keeps the types of Payments.
LEMMA SettleTypes ==
    ASSUME Pay!TypeOK, NEW c \in Run \cup Verifier, Pay!settle(c)
    PROVE  Pay!TypeOK' /\ call[c] \in [op : Pay!Op, ref : Run \X Employee, answer : Pay!Answer]
<1> USE DEF Pay!TypeOK
<1>1. call[c] \in [op : Pay!Op, ref : Run \X Employee, answer : Pay!Answer]
  BY DEF Pay!settle
<1>2. Pay!saved(c) \in Pay!Status /\ call[c].ref \in Run \X Employee
  BY <1>1 DEF Pay!saved
<1>3. payments' \in Seq(Pay!Record)
  BY <1>2, Saving DEF Pay!settle
<1> QED BY <1>1, <1>3 DEF Pay!settle

\* A query, a failed query and Paystack's own steps keep the types of Payments.
LEMMA PayTypes ==
    ASSUME Pay!TypeOK,
           \/ Pay!Paystack
           \/ \E c \in Run \cup Verifier :
                \/ Pay!paystackAnswers(c) \/ Pay!connectionFails(c)
                \/ \E x \in Run \X Employee :
                      Pay!verifyPaystackPayment(c, x) \/ Pay!initializePaystackPayment(c, x)
    PROVE  Pay!TypeOK'
<1> USE DEF Pay!TypeOK
<1>1. ASSUME NEW c \in Run \cup Verifier, Pay!paystackAnswers(c)  PROVE Pay!TypeOK'
  <2>1. charge' \in [Run \X Employee -> {"none", "open", "success", "failed", "reversed"}]
    BY <1>1 DEF Pay!paystackAnswers
  <2>2. /\ call[c] \in [op : Pay!Op, ref : Run \X Employee, answer : Pay!Answer]
        /\ \E a \in Pay!Answer : call' = [call EXCEPT ![c].answer = a]
    BY <1>1 DEF Pay!paystackAnswers
  <2>3. call' \in [Run \cup Verifier ->
                     {Pay!idle} \cup [op : Pay!Op, ref : Run \X Employee, answer : Pay!Answer]]
    BY <2>2
  <2> QED BY <1>1, <2>1, <2>3 DEF Pay!paystackAnswers
<1>2. ASSUME NEW c \in Run \cup Verifier, Pay!connectionFails(c)  PROVE Pay!TypeOK'
  BY <1>2 DEF Pay!connectionFails
<1>3. ASSUME NEW c \in Run \cup Verifier, NEW x \in Run \X Employee,
             Pay!verifyPaystackPayment(c, x) \/ Pay!initializePaystackPayment(c, x)
      PROVE  Pay!TypeOK'
  <2>1. /\ UNCHANGED <<payments, seen, charge, events>>
        /\ \E o \in Pay!Op : call' = [call EXCEPT ![c] = [op |-> o, ref |-> x, answer |-> "waiting"]]
    BY <1>3 DEF Pay!verifyPaystackPayment, Pay!initializePaystackPayment, Pay!ask
  <2> QED BY <2>1
<1>4. ASSUME NEW r \in Run \X Employee, NEW k \in Pay!Kind, Pay!chargeMoves(r, k)
      PROVE  Pay!TypeOK'
  BY <1>4 DEF Pay!chargeMoves
<1>5. ASSUME NEW e \in events, Pay!handlePaystackWebhook(e)  PROVE Pay!TypeOK'
  <2>1. payments' \in Seq(Pay!Record)
    BY <1>5, Saving DEF Pay!handlePaystackWebhook, Pay!record
  <2> QED BY <1>5, <2>1 DEF Pay!handlePaystackWebhook
<1> QED BY <1>1, <1>2, <1>3, <1>4, <1>5 DEF Pay!Paystack

\* A step of processPayment at Paystack keeps the types.
LEMMA PayingTypes ==
    ASSUME TypeOK, NEW r \in Run, PayNext(r)
    PROVE  TypeOK'
<1> USE DEF TypeOK
<1>1. ASSUME NEW e \in Employee, payItem(r, e)  PROVE TypeOK'
  <2>1. Pay!TypeOK'
    <3>1. CASE UNCHANGED payVars
      BY <3>1, SamePay
    <3>2. CASE Pay!initializePaystackPayment(r, <<r, e>>)
      BY <3>2, PayTypes
    <3> QED BY <1>1, <3>1, <3>2 DEF payItem
  <2>2. /\ paid' \in [Run \X Employee -> [RowStatus -> Nat]]
        /\ todo' \in [Run -> SUBSET Employee]
    BY <1>1, AddRow DEF payItem, doneWith
  <2> QED BY <1>1, <2>1, <2>2 DEF payItem
<1>2. CASE itemAnswered(r)
  <2>1. Pay!TypeOK' /\ call[r].ref[2] \in Employee
    BY <1>2, SettleTypes DEF itemAnswered
  <2>2. CASE /\ addRow(r, call[r].ref[2], "PROCESSING") /\ doneWith(r, call[r].ref[2])
             /\ UNCHANGED paying
    <3>1. paid' \in [Run \X Employee -> [RowStatus -> Nat]]
      BY <2>1, <2>2, AddRow
    <3>2. todo' \in [Run -> SUBSET Employee]
      BY <2>2 DEF doneWith
    <3> QED BY <1>2, <2>1, <2>2, <3>1, <3>2 DEF itemAnswered
  <2>3. CASE stopPaying(r)
    BY <1>2, <2>1, <2>3 DEF itemAnswered, stopPaying
  <2> QED BY <1>2, <2>2, <2>3 DEF itemAnswered
<1>3. CASE itemFails(r)
  <2>1. Pay!TypeOK'
    <3>1. CASE UNCHANGED payVars
      BY <3>1, SamePay
    <3>2. CASE Pay!connectionFails(r)
      BY <3>2, PayTypes
    <3> QED BY <1>3, <3>1, <3>2 DEF itemFails
  <2> QED BY <1>3, <2>1 DEF itemFails, stopPaying
<1>4. CASE finishPaystack(r)
  BY <1>4, SamePay DEF finishPaystack
<1> QED BY <1>1, <1>2, <1>3, <1>4 DEF PayNext

\* Every step keeps the types.
LEMMA StepTypes ==
    ASSUME TypeOK, [Next]_vars
    PROVE  TypeOK'
<1> USE DEF TypeOK
<1>1. ASSUME NEW p \in Period, NEW s \in PeriodStatus,
             createPayrollPeriod(p, s) \/ updatePayrollPeriod(p, s)
      PROVE  TypeOK'
  BY <1>1, SamePay DEF createPayrollPeriod, updatePayrollPeriod
<1>2. ASSUME NEW r \in Run, NEW p \in Period, NEW staff \in SUBSET Employee,
             createPayrollRun(r, p, staff)
      PROVE  TypeOK'
  BY <1>2, SamePay DEF createPayrollRun
<1>3. ASSUME NEW r \in Run, approveRun(r) \/ rejectRun(r) \/ lockRun(r) \/ cancelRun(r)
      PROVE  TypeOK'
  BY <1>3, SamePay DEF approveRun, rejectRun, lockRun, cancelRun, decide
<1>4. ASSUME NEW r \in Run, payManually(r) \/ payByPaystack(r)  PROVE TypeOK'
  <2>1. CASE payManually(r)
    <3>1. \A x \in Run \X Employee :
             [paid[x] EXCEPT !["SUCCESS"] = @ + 1] \in [RowStatus -> Nat]
      OBVIOUS
    <3>2. paid' \in [Run \X Employee -> [RowStatus -> Nat]]
      BY <2>1, <3>1 DEF payManually
    <3> QED BY <2>1, <3>2, SamePay DEF payManually
  <2>2. CASE payByPaystack(r)
    BY <2>2, SamePay DEF payByPaystack
  <2> QED BY <1>4, <2>1, <2>2
<1>5. CASE paystackStep
  <2>1. ASSUME NEW v \in Verifier, NEW x \in Run \X Employee, askElsewhere(v, x)
        PROVE  Pay!TypeOK' /\ touched' \subseteq Run \X Employee
    BY <2>1, PayTypes DEF askElsewhere
  <2>2. ASSUME NEW x \in (Run \X Employee) \cup {None}, book(x)
        PROVE  Pay!TypeOK' /\ touched' \subseteq Run \X Employee
    <3>1. payments' \in Seq(Pay!Record) /\ UNCHANGED <<seen, call, charge, events>>
      BY <2>2, Booking DEF Pay!TypeOK, book, Pay!recordPayment, Pay!reconcilePayment
    <3> QED BY <2>2, <3>1 DEF Pay!TypeOK, book
  <2>3. Pay!TypeOK' /\ touched' \subseteq Run \X Employee
    BY <1>5, <2>1, <2>2, PayTypes, SettleTypes DEF paystackStep
  <2> QED BY <1>5, <2>3 DEF paystackStep
<1>6. CASE restart
  BY <1>6 DEF restart, Pay!TypeOK
<1>7. CASE UNCHANGED vars
  BY <1>7, SamePay DEF vars
<1> QED BY <1>1, <1>2, <1>3, <1>4, <1>5, <1>6, <1>7, PayingTypes DEF Next
(***************************************************************************)
(* The invariant.  A run is APPROVED only between its approval and the one  *)
(* request that pays it; each item leaves todo with the row it gets.        *)
(***************************************************************************)
Safe(r) ==
    /\ \A e \in Employee : rows(<<r, e>>) <= 1
    /\ \A e \in Employee : rows(<<r, e>>) > 0 => "APPROVED" \in approvals[r] /\ e \in items[r]
    /\ run[r] \in {"PAID", "LOCKED"} => \A e \in items[r] : paid[<<r, e>>]["SUCCESS"] = 1
    /\ run[r] = "APPROVED" \/ r \in paying => "APPROVED" \in approvals[r]
    /\ r \in paying => run[r] \in {"PAYMENT_PROCESSING", "CANCELLED", "REJECTED"}
    /\ \A e \in Employee : rows(<<r, e>>) > 0 =>
          run[r] \notin {"absent", "PENDING_APPROVAL", "APPROVED"}
    /\ \A e \in todo[r] : r \in paying /\ e \in items[r] /\ rows(<<r, e>>) = 0
    /\ call[r] # Pay!idle => r \in paying /\ \E e \in todo[r] : call[r].ref = <<r, e>>

\* The invariant, run by run.
LEMMA InvIsSafe == Inv <=> TypeOK /\ \A r \in Run : Safe(r)
<1>1. ItemPaidOnce <=> \A r \in Run : \A e \in Employee : rows(<<r, e>>) <= 1
  BY DEF ItemPaidOnce
<1> QED BY <1>1 DEF Inv, PaidWasApproved, PaidRunIsPaid, PayInv, Safe

\* A run whose state, items, rows and call a step leaves alone stays safe.
LEMMA SameRun ==
    ASSUME NEW r \in Run, Safe(r),
           run'[r] = run[r], items'[r] = items[r], approvals'[r] = approvals[r],
           \A e \in Employee : paid'[<<r, e>>] = paid[<<r, e>>],
           r \in paying' <=> r \in paying, todo'[r] = todo[r],
           call'[r] = call[r] \/ call'[r] = Pay!idle
              \/ (call'[r].ref = call[r].ref /\ call[r] # Pay!idle),
           todo[r] \subseteq Employee, items[r] \subseteq Employee
    PROVE  Safe(r)'
BY DEF Safe, rows

\* A step of processPayment keeps its run safe: the item that gets a row had
\* none and is no longer to be paid.
LEMMA PayingSafe ==
    ASSUME TypeOK, NEW r \in Run, Safe(r), PayNext(r)
    PROVE  Safe(r)'
<1> USE DEF TypeOK
<1>0. \A e \in Employee : paid[<<r, e>>]["PROCESSING"] \in Nat /\ paid[<<r, e>>]["SUCCESS"] \in Nat
  OBVIOUS
<1>1. ASSUME NEW e \in Employee,
             addRow(r, e, "PROCESSING"), doneWith(r, e), e \in todo[r],
             UNCHANGED runVars, paying' = paying, call'[r] = Pay!idle
      PROVE  Safe(r)'
  <2>1. rows(<<r, e>>)' = 1 /\ r \in paying /\ e \in items[r]
    BY <1>0, <1>1, AddRow DEF Safe, rows
  <2>2. \A d \in Employee : d # e => rows(<<r, d>>)' = rows(<<r, d>>)
    BY <1>1, AddRow DEF rows
  <2>3. todo'[r] = todo[r] \ {e}
    BY <1>1 DEF doneWith
  <2>4. run'[r] \in {"PAYMENT_PROCESSING", "CANCELLED", "REJECTED"}
    BY <1>1, <2>1 DEF Safe
  <2> QED BY <1>1, <2>1, <2>2, <2>3, <2>4 DEF Safe
<1>2. ASSUME NEW e \in Employee, payItem(r, e)  PROVE Safe(r)'
  <2>1. CASE addRow(r, e, "PROCESSING") /\ doneWith(r, e) /\ UNCHANGED payVars
    BY <1>1, <1>2, <2>1 DEF payItem
  <2>2. CASE Pay!initializePaystackPayment(r, <<r, e>>) /\ UNCHANGED <<paid, todo>>
    <3>1. call'[r].ref = <<r, e>>
      BY <2>2 DEF Pay!initializePaystackPayment, Pay!ask, Pay!TypeOK
    <3> QED BY <1>2, <2>2, <3>1 DEF payItem, Safe, rows
  <2> QED BY <1>2, <2>1, <2>2 DEF payItem
<1>3. CASE itemAnswered(r)
  <2>1. call[r] # Pay!idle /\ call'[r] = Pay!idle
    BY <1>3 DEF itemAnswered, Pay!settle, Pay!TypeOK
  <2>2. PICK e \in todo[r] : call[r].ref = <<r, e>>
    BY <2>1 DEF Safe
  <2>3. CASE addRow(r, e, "PROCESSING") /\ doneWith(r, e) /\ UNCHANGED paying
    BY <1>1, <1>3, <2>1, <2>3 DEF itemAnswered
  <2>4. CASE stopPaying(r)
    BY <1>3, <2>1, <2>4 DEF itemAnswered, stopPaying, Safe, rows
  <2> QED BY <1>3, <2>2, <2>3, <2>4 DEF itemAnswered
<1>4. CASE itemFails(r)
  <2>1. call'[r] = Pay!idle
    BY <1>4 DEF itemFails, Pay!connectionFails, Pay!TypeOK
  <2> QED BY <1>4, <2>1 DEF itemFails, stopPaying, Safe, rows
<1>5. CASE finishPaystack(r)
  BY <1>5 DEF finishPaystack, Safe, rows
<1> QED BY <1>2, <1>3, <1>4, <1>5 DEF PayNext
\* A step of processPayment for one run leaves every other run alone.
LEMMA PayingElsewhere ==
    ASSUME TypeOK, NEW q \in Run, NEW r \in Run, q # r, Safe(q), Safe(r), PayNext(q)
    PROVE  Safe(r)'
<1> USE DEF TypeOK
<1>1. r \in paying' <=> r \in paying
  BY DEF PayNext, payItem, itemAnswered, itemFails, finishPaystack, stopPaying
<1>2. todo'[r] = todo[r]
  BY DEF PayNext, payItem, itemAnswered, itemFails, finishPaystack, stopPaying, doneWith
<1>3. call'[r] = call[r]
  BY DEF PayNext, payItem, itemAnswered, itemFails, finishPaystack, Pay!TypeOK, payVars,
      Pay!settle, Pay!connectionFails, Pay!initializePaystackPayment, Pay!ask
<1>4. \A e \in Employee : paid'[<<r, e>>] = paid[<<r, e>>]
  <2>1. ASSUME NEW d \in Employee, addRow(q, d, "PROCESSING")
        PROVE  \A e \in Employee : paid'[<<r, e>>] = paid[<<r, e>>]
    BY <2>1, AddRow
  <2>2. CASE itemAnswered(q)
    <3>1. call[q].ref[2] \in Employee
      BY <2>2, SettleTypes DEF itemAnswered
    <3> QED BY <2>1, <2>2, <3>1 DEF itemAnswered, stopPaying
  <2>3. ASSUME NEW e \in Employee, payItem(q, e)
        PROVE  \A d \in Employee : paid'[<<r, d>>] = paid[<<r, d>>]
    BY <2>1, <2>3 DEF payItem
  <2> QED BY <2>2, <2>3 DEF PayNext, itemFails, finishPaystack, stopPaying
<1>5. run'[r] = run[r] /\ items'[r] = items[r] /\ approvals'[r] = approvals[r]
  BY DEF PayNext, payItem, itemAnswered, itemFails, finishPaystack
<1> QED BY <1>1, <1>2, <1>3, <1>4, <1>5, SameRun

\* The decisions on a run, its calculation and its payment by hand keep it safe.
LEMMA DecisionSafe ==
    ASSUME TypeOK, NEW r \in Run, Safe(r),
           \/ approveRun(r) \/ rejectRun(r) \/ lockRun(r) \/ cancelRun(r)
           \/ payManually(r) \/ payByPaystack(r)
           \/ \E p \in Period, staff \in SUBSET Employee : createPayrollRun(r, p, staff)
    PROVE  Safe(r)'
<1> USE DEF TypeOK
<1>0. \A e \in Employee : paid[<<r, e>>]["PROCESSING"] \in Nat /\ paid[<<r, e>>]["SUCCESS"] \in Nat
  OBVIOUS
<1>1. CASE approveRun(r)  BY <1>0, <1>1 DEF approveRun, decide, Safe, rows
<1>2. CASE rejectRun(r)   BY <1>0, <1>2 DEF rejectRun, decide, Safe, rows
<1>3. CASE lockRun(r)     BY <1>0, <1>3 DEF lockRun, Safe, rows
<1>4. CASE cancelRun(r)   BY <1>0, <1>4 DEF cancelRun, Safe, rows
<1>5. CASE payManually(r)
  <2>0. \A e \in Employee : rows(<<r, e>>) \in Nat
    BY <1>0 DEF rows
  <2>1. \A e \in Employee : rows(<<r, e>>) = 0
    BY <1>5, <2>0 DEF payManually, payable, Safe
  <2>2. \A e \in Employee :
           /\ e \in items[r] => rows(<<r, e>>)' = 1 /\ paid'[<<r, e>>]["SUCCESS"] = 1
           /\ e \notin items[r] => rows(<<r, e>>)' = 0
    BY <1>0, <1>5, <2>1 DEF payManually, rows
  <2>3. r \notin paying /\ "APPROVED" \in approvals[r]
    BY <1>5 DEF payManually, payable, Safe
  <2>4. /\ run'[r] = "PAID" /\ items' = items /\ approvals' = approvals
        /\ paying' = paying /\ todo' = todo /\ call' = call
    BY <1>5 DEF payManually
  <2>5. todo[r] = {} /\ call[r] = Pay!idle
    BY <2>3 DEF Safe
  <2>6. items[r] \subseteq Employee
    OBVIOUS
  <2>7. \A e \in Employee : rows(<<r, e>>)' <= 1 /\ (rows(<<r, e>>)' > 0 => e \in items[r])
    BY <2>2
  <2>8. \A e \in items[r] : paid'[<<r, e>>]["SUCCESS"] = 1
    BY <2>2, <2>6
  <2> HIDE DEF TypeOK, Pay!idle
  <2> QED BY <2>3, <2>4, <2>5, <2>7, <2>8 DEF Safe
<1>6. CASE payByPaystack(r)
  <2>1. \A e \in Employee : rows(<<r, e>>)' = rows(<<r, e>>) /\ rows(<<r, e>>) \in Nat
    BY <1>0, <1>6 DEF payByPaystack, rows
  <2>2. /\ run'[r] = "PAYMENT_PROCESSING" /\ run[r] = "APPROVED" /\ r \in paying'
        /\ todo'[r] = items[r] /\ items' = items /\ call' = call /\ approvals' = approvals
    BY <1>6 DEF payByPaystack, payable
  <2> QED BY <2>1, <2>2 DEF Safe
<1>7. ASSUME NEW p \in Period, NEW staff \in SUBSET Employee, createPayrollRun(r, p, staff)
      PROVE  Safe(r)'
  BY <1>0, <1>7 DEF createPayrollRun, Safe, rows
<1> QED BY <1>1, <1>2, <1>3, <1>4, <1>5, <1>6, <1>7

\* No item is paid twice, nothing unapproved is paid, and a paid or locked run
\* is paid in full, whatever the interleaving of handlers, answers and restarts.
THEOREM InvHolds == Spec => []Inv
<1>1. Init => Inv
  BY DEF Init, Inv, TypeOK, ItemPaidOnce, PaidWasApproved, PaidRunIsPaid, PayInv, rows,
         Pay!Init, Pay!TypeOK
<1>2. Inv /\ [Next]_vars => Inv'
  <2> SUFFICES ASSUME Inv, [Next]_vars  PROVE Inv'
    OBVIOUS
  <2>1. TypeOK /\ TypeOK' /\ \A r \in Run : Safe(r)
    BY InvIsSafe, StepTypes
  <2>2. ASSUME NEW r \in Run  PROVE Safe(r)'
    <3> USE DEF TypeOK
    <3>1. CASE paystackStep
      <4>1. call'[r] = call[r] \/ (call'[r].ref = call[r].ref /\ call[r] # Pay!idle)
        <5>1. CASE Pay!Paystack
          BY <5>1 DEF Pay!Paystack, Pay!chargeMoves, Pay!handlePaystackWebhook
        <5>2. ASSUME NEW c \in Run \cup Verifier, Pay!paystackAnswers(c)
              PROVE  call'[r] = call[r] \/ (call'[r].ref = call[r].ref /\ call[r] # Pay!idle)
          BY <2>1, <5>2 DEF Pay!paystackAnswers, Pay!TypeOK
        <5>3. ASSUME NEW v \in Verifier, NEW x \in Run \X Employee, askElsewhere(v, x)
              PROVE  call'[r] = call[r]
          BY <2>1, <5>3 DEF askElsewhere, Pay!verifyPaystackPayment,
             Pay!initializePaystackPayment, Pay!ask, Pay!TypeOK
        <5>4. ASSUME NEW v \in Verifier, Pay!settle(v) \/ Pay!connectionFails(v)
              PROVE  call'[r] = call[r]
          BY <2>1, <5>4 DEF Pay!settle, Pay!connectionFails, Pay!TypeOK
        <5>5. ASSUME NEW x \in (Run \X Employee) \cup {None}, book(x)
              PROVE  call' = call
          BY <5>5 DEF book, Pay!recordPayment, Pay!reconcilePayment
        <5> QED BY <3>1, <5>1, <5>2, <5>3, <5>4, <5>5 DEF paystackStep
      <4> QED BY <2>1, <3>1, <4>1, SameRun DEF paystackStep
    <3>2. CASE restart
      BY <2>1, <3>2 DEF restart, Safe, rows
    <3>3. ASSUME NEW p \in Period, NEW s \in PeriodStatus,
                 createPayrollPeriod(p, s) \/ updatePayrollPeriod(p, s)
          PROVE  Safe(r)'
      BY <2>1, <3>3, SameRun DEF createPayrollPeriod, updatePayrollPeriod
    <3>4. ASSUME NEW q \in Run, PayNext(q)  PROVE Safe(r)'
      BY <2>1, <3>4, PayingSafe, PayingElsewhere
    <3>5. ASSUME NEW q \in Run,
                 \/ approveRun(q) \/ rejectRun(q) \/ lockRun(q) \/ cancelRun(q)
                 \/ payManually(q) \/ payByPaystack(q)
                 \/ \E p \in Period, staff \in SUBSET Employee : createPayrollRun(q, p, staff)
          PROVE  Safe(r)'
      <4>1. CASE q = r
        BY <2>1, <3>5, <4>1, DecisionSafe
      <4>2. CASE q # r
        <5>1. \A e \in Employee : paid'[<<r, e>>] = paid[<<r, e>>]
          BY <2>1, <3>5, <4>2 DEF approveRun, rejectRun, lockRun, cancelRun, decide,
             payManually, payByPaystack, createPayrollRun
        <5>2. /\ run'[r] = run[r] /\ items'[r] = items[r] /\ approvals'[r] = approvals[r]
              /\ (r \in paying' <=> r \in paying) /\ todo'[r] = todo[r] /\ call'[r] = call[r]
          BY <2>1, <3>5, <4>2 DEF approveRun, rejectRun, lockRun, cancelRun, decide,
             payManually, payByPaystack, createPayrollRun
        <5> QED BY <2>1, <5>1, <5>2, SameRun
      <4> QED BY <4>1, <4>2
    <3>6. CASE UNCHANGED vars
      BY <2>1, <3>6, SameRun DEF vars
    <3> QED BY <3>1, <3>2, <3>3, <3>4, <3>5, <3>6 DEF Next
  <2>3. TypeOK' /\ (\A r \in Run : Safe(r)')
    BY <2>1, <2>2
  <2>4. Inv' <=> TypeOK' /\ \A r \in Run : Safe(r)'
    BY DEF Inv, ItemPaidOnce, PaidWasApproved, PaidRunIsPaid, PayInv, Safe
  <2> QED BY <2>3, <2>4
<1> QED BY <1>1, <1>2, PTL DEF Spec

\* An item of a run has at most one row in payroll_payments.
COROLLARY NoItemPaidTwice == Spec => []ItemPaidOnce
<1>1. Inv => ItemPaidOnce  BY DEF Inv
<1> QED BY <1>1, InvHolds, PTL

\* Only items of a run that was approved are paid.
COROLLARY OnlyApprovedPaid == Spec => []PaidWasApproved
<1>1. Inv => PaidWasApproved  BY DEF Inv
<1> QED BY <1>1, InvHolds, PTL

\* A run shown as paid or locked has a successful payment of every item.
COROLLARY PaidRunsArePaid == Spec => []PaidRunIsPaid
<1>1. Inv => PaidRunIsPaid  BY DEF Inv
<1> QED BY <1>1, InvHolds, PTL


(***************************************************************************)
(* RowHasCharge.  A record of an item's reference is of a charge, or of a   *)
(* reference that was touched, or its own run was refused and is over.      *)
(***************************************************************************)
Known(x) == charge[x] # "none" \/ x \in touched

Over(r) ==
    /\ r \notin paying
    /\ run[r] \notin {"absent", "PENDING_APPROVAL", "APPROVED"}

RecordKnown ==
    \A i \in DOMAIN payments : \A r \in Run, e \in Employee :
        payments[i].ref = <<r, e>> => Known(<<r, e>>) \/ Over(r)

\* Whose answers and events there are.
AskedInv ==
    /\ \A r \in Run : call[r] # Pay!idle => call[r].op = "initialize"
    /\ \A c \in Run \cup Verifier :
          call[c].op = "initialize" /\ call[c].answer = "ok" => charge[call[c].ref] # "none"
    /\ \A v \in Verifier : call[v] # Pay!idle => call[v].ref \in touched
    /\ \A e \in events : charge[e.ref] # "none"

ChargeInv == RowHasCharge /\ RecordKnown /\ AskedInv

\* The steps that are neither of a call, nor of Paystack, nor of the portal.
Quiet ==
    \/ UNCHANGED vars
    \/ \E p \in Period, s \in PeriodStatus :
          createPayrollPeriod(p, s) \/ updatePayrollPeriod(p, s)
    \/ \E r \in Run :
          \/ approveRun(r) \/ rejectRun(r) \/ lockRun(r) \/ cancelRun(r)
          \/ payManually(r) \/ payByPaystack(r) \/ finishPaystack(r)
          \/ \E p \in Period, staff \in SUBSET Employee : createPayrollRun(r, p, staff)

\* They leave Payments alone and add no row of a payment through Paystack.
LEMMA QuietSteps ==
    ASSUME TypeOK, Quiet
    PROVE  /\ UNCHANGED <<payVars, touched>>
           /\ \A x \in Run \X Employee : paid'[x]["PROCESSING"] = paid[x]["PROCESSING"]
<1> USE DEF TypeOK
<1>1. CASE \E r \in Run : payManually(r)
  <2>1. PICK r \in Run : payManually(r)
    BY <1>1
  <2>2. \A x \in Run \X Employee :
           [paid[x] EXCEPT !["SUCCESS"] = @ + 1]["PROCESSING"] = paid[x]["PROCESSING"]
    OBVIOUS
  <2>3. \A x \in Run \X Employee :
           paid'[x] = [paid[x] EXCEPT !["SUCCESS"] = @ + 1] \/ paid'[x] = paid[x]
    BY <2>1 DEF payManually
  <2> QED BY <2>1, <2>2, <2>3 DEF payManually
<1>2. CASE ~ \E r \in Run : payManually(r)
  <2>1. UNCHANGED <<payVars, touched, paid>>
    BY <1>2 DEF Quiet, vars, createPayrollPeriod, updatePayrollPeriod, approveRun, rejectRun,
       lockRun, cancelRun, decide, payByPaystack, finishPaystack, createPayrollRun
  <2> QED BY <2>1
<1> QED BY <1>1, <1>2

\* Paystack forgets no charge, and what was touched stays touched.
LEMMA ChargesStay ==
    ASSUME TypeOK, [Next]_vars
    PROVE  /\ \A x \in Run \X Employee : charge[x] # "none" => charge'[x] # "none"
           /\ touched \subseteq touched'
<1> USE DEF TypeOK
<1>1. CASE paystackStep
  <2>1. CASE \E c \in Run \cup Verifier : Pay!paystackAnswers(c) /\ UNCHANGED touched
    BY <2>1 DEF Pay!paystackAnswers, Pay!TypeOK
  <2>2. CASE \E y \in Run \X Employee, k \in Pay!Kind : Pay!chargeMoves(y, k) /\ UNCHANGED touched
    BY <2>2 DEF Pay!chargeMoves, Pay!TypeOK
  <2>3. CASE UNCHANGED charge /\ touched \subseteq touched'
    BY <2>3
  <2> QED BY <1>1, <2>1, <2>2, <2>3 DEF paystackStep, Pay!Paystack, Pay!handlePaystackWebhook,
        Pay!settle, Pay!connectionFails, askElsewhere, book, Pay!verifyPaystackPayment,
        Pay!initializePaystackPayment, Pay!ask, Pay!recordPayment, Pay!reconcilePayment
<1>2. CASE restart
  BY <1>2 DEF restart
<1>3. ASSUME NEW r \in Run, itemAnswered(r) \/ itemFails(r) \/ \E e \in Employee : payItem(r, e)
      PROVE  UNCHANGED <<charge, touched>>
  BY <1>3 DEF itemAnswered, itemFails, payItem, Pay!settle, Pay!connectionFails,
     Pay!initializePaystackPayment, Pay!ask, payVars
<1>4. CASE Quiet
  BY <1>4, QuietSteps DEF payVars
<1> QED BY <1>1, <1>2, <1>3, <1>4 DEF Next, PayNext, Quiet

\* A charge that is known stays known, and a run that is over stays so.
LEMMA KnownStays ==
    ASSUME TypeOK, [Next]_vars
    PROVE  /\ \A x \in Run \X Employee : Known(x) => Known(x)'
           /\ \A r \in Run : Over(r) => Over(r)'
<1> USE DEF TypeOK, Known
<1>1. ASSUME NEW r \in Run, Over(r)  PROVE Over(r)'
  <2> USE <1>1 DEF Over
  <2>1. CASE UNCHANGED vars \/ restart \/ paystackStep
             \/ \E p \in Period, s \in PeriodStatus :
                   createPayrollPeriod(p, s) \/ updatePayrollPeriod(p, s)
    BY <2>1 DEF vars, runVars, restart, paystackStep, createPayrollPeriod, updatePayrollPeriod
  <2>2. ASSUME NEW q \in Run, PayNext(q)  PROVE Over(r)'
    BY <2>2 DEF PayNext, payItem, itemAnswered, itemFails, stopPaying, finishPaystack
  <2>3. ASSUME NEW q \in Run,
               approveRun(q) \/ rejectRun(q) \/ lockRun(q) \/ cancelRun(q) \/ payManually(q)
        PROVE  Over(r)'
    BY <2>3 DEF approveRun, rejectRun, lockRun, cancelRun, decide, payManually
  <2>4. ASSUME NEW q \in Run, payByPaystack(q)  PROVE Over(r)'
    BY <2>4 DEF payByPaystack, payable
  <2>5. ASSUME NEW q \in Run, NEW p \in Period, NEW staff \in SUBSET Employee,
               createPayrollRun(q, p, staff)
        PROVE  Over(r)'
    BY <2>5 DEF createPayrollRun
  <2> QED BY <2>1, <2>2, <2>3, <2>4, <2>5 DEF Next
<1> QED BY <1>1, ChargesStay

\* A run asks Paystack for nothing but initializations, a verifier names what
\* it touches, and what Paystack grants or reports it knows.
LEMMA AskedStays ==
    ASSUME TypeOK, AskedInv, [Next]_vars
    PROVE  AskedInv'
<1> USE DEF TypeOK, Pay!TypeOK, AskedInv
<1>0. \A c \in Run \cup Verifier :
         call[c] = Pay!idle \/ call[c] \in [op : Pay!Op, ref : Run \X Employee, answer : Pay!Answer]
  OBVIOUS
<1>1. \A x \in Run \X Employee : charge[x] # "none" => charge'[x] # "none"
  BY ChargesStay
<1>2. ASSUME \A c \in Run \cup Verifier : call'[c] = call[c] \/ call'[c] = Pay!idle,
             events' = events, touched \subseteq touched'
      PROVE  AskedInv'
  <2>1. ASSUME NEW c \in Run \cup Verifier, call'[c].op = "initialize", call'[c].answer = "ok"
        PROVE  charge'[call'[c].ref] # "none"
    <3>0. call'[c] # Pay!idle
      BY <2>1
    <3>1. call'[c] = call[c] /\ call[c].ref \in Run \X Employee
      BY <1>0, <1>2, <3>0
    <3> QED BY <1>1, <2>1, <3>1
  <2>2. \A e \in events' : charge'[e.ref] # "none"
    BY <1>1, <1>2
  <2>3. \A v \in Verifier : call'[v] # Pay!idle => call'[v].ref \in touched'
    BY <1>2
  <2>4. \A r \in Run : call'[r] # Pay!idle => call'[r].op = "initialize"
    BY <1>2
  <2> HIDE DEF TypeOK, Pay!TypeOK
  <2> QED BY <2>1, <2>2, <2>3, <2>4
<1>3. ASSUME NEW c \in Run \cup Verifier, NEW x \in Run \X Employee, NEW o \in Pay!Op,
             call' = [call EXCEPT ![c] = [op |-> o, ref |-> x, answer |-> "waiting"]],
             UNCHANGED <<charge, events>>, touched \subseteq touched',
             c \in Run => o = "initialize", c \in Verifier => x \in touched'
      PROVE  AskedInv'
  BY <1>3, PayrollAssumption
<1>4. ASSUME NEW c \in Run \cup Verifier, Pay!paystackAnswers(c), UNCHANGED touched
      PROVE  AskedInv'
  <2>1. call[c] \in [op : Pay!Op, ref : Run \X Employee, answer : Pay!Answer]
    BY <1>4 DEF Pay!paystackAnswers
  <2>2. PICK a \in {"ok", "refused"} :
          /\ call' = [call EXCEPT ![c].answer = a]
          /\ call[c].op = "initialize" /\ a = "ok" => charge'[call[c].ref] # "none"
    BY <1>4, <2>1 DEF Pay!paystackAnswers
  <2>3. call' = [call EXCEPT ![c] = [op |-> call[c].op, ref |-> call[c].ref, answer |-> a]]
    <3>1. [call[c] EXCEPT !.answer = a]
             = [op |-> call[c].op, ref |-> call[c].ref, answer |-> a]
      BY <2>1
    <3> QED BY <2>2, <3>1
  <2>4. call[c] # Pay!idle /\ events' = events
    BY <1>4 DEF Pay!paystackAnswers
  <2> QED BY <1>1, <1>4, <2>1, <2>2, <2>3, <2>4
<1>5. ASSUME NEW y \in Run \X Employee, NEW k \in Pay!Kind, Pay!chargeMoves(y, k),
             UNCHANGED touched
      PROVE  AskedInv'
  BY <1>1, <1>5 DEF Pay!chargeMoves
<1>6. CASE paystackStep
  <2>1. ASSUME NEW v \in Verifier, NEW x \in Run \X Employee, askElsewhere(v, x)
        PROVE  AskedInv'
    BY <1>3, <2>1, PayrollAssumption DEF askElsewhere, Pay!verifyPaystackPayment,
       Pay!initializePaystackPayment, Pay!ask
  <2>2. ASSUME NEW x \in (Run \X Employee) \cup {None}, book(x)  PROVE AskedInv'
    BY <1>2, <2>2 DEF book, Pay!recordPayment, Pay!reconcilePayment
  <2>3. ASSUME NEW v \in Verifier, Pay!settle(v) \/ Pay!connectionFails(v), UNCHANGED touched
        PROVE  AskedInv'
    BY <1>2, <2>3 DEF Pay!settle, Pay!connectionFails
  <2>4. ASSUME NEW e \in events, Pay!handlePaystackWebhook(e), UNCHANGED touched
        PROVE  AskedInv'
    BY <1>2, <2>4 DEF Pay!handlePaystackWebhook
  <2> QED BY <1>4, <1>5, <1>6, <2>1, <2>2, <2>3, <2>4 DEF paystackStep, Pay!Paystack
<1>7. CASE restart
  BY <1>2, <1>7 DEF restart
<1>8. ASSUME NEW r \in Run, NEW e \in Employee, payItem(r, e)  PROVE AskedInv'
  <2>1. CASE UNCHANGED payVars
    BY <1>2, <1>8, <2>1 DEF payItem, payVars
  <2>2. CASE Pay!initializePaystackPayment(r, <<r, e>>)
    BY <1>3, <1>8, <2>2, PayrollAssumption DEF payItem, Pay!initializePaystackPayment, Pay!ask
  <2> QED BY <1>8, <2>1, <2>2 DEF payItem
<1>9. ASSUME NEW r \in Run, itemAnswered(r) \/ itemFails(r)  PROVE AskedInv'
  BY <1>2, <1>9 DEF itemAnswered, itemFails, Pay!settle, Pay!connectionFails, payVars
<1>10. CASE Quiet
  BY <1>2, <1>10, QuietSteps DEF payVars
<1> QED BY <1>6, <1>7, <1>8, <1>9, <1>10 DEF Next, PayNext, Quiet

\* Whatever makes a record makes it of a known reference, but a refusal of the
\* run's own, which ends its payment.
LEMMA RecordsKnown ==
    ASSUME Inv, RecordKnown, AskedInv, [Next]_vars
    PROVE  RecordKnown'
<1> USE DEF Inv, TypeOK, Pay!TypeOK
<1>1. ASSUME NEW x \in (Run \X Employee) \cup {None},
             \A i \in DOMAIN payments' :
                payments'[i].ref = x \/ (i \in DOMAIN payments /\ payments'[i] = payments[i]),
             x \in Run \X Employee => Known(x)' \/ Over(x[1])'
      PROVE  RecordKnown'
  <2> SUFFICES ASSUME NEW i \in DOMAIN payments', NEW r \in Run, NEW e \in Employee,
                      payments'[i].ref = <<r, e>>
               PROVE  Known(<<r, e>>)' \/ Over(r)'
    BY DEF RecordKnown
  <2>1. CASE x = <<r, e>>
    BY <1>1, <2>1
  <2>2. CASE i \in DOMAIN payments /\ payments[i].ref = <<r, e>>
    <3>1. Known(<<r, e>>) \/ Over(r)
      BY <2>2 DEF RecordKnown
    <3>2. <<r, e>> \in Run \X Employee
      OBVIOUS
    <3> QED BY ONLY <3>1, <3>2, KnownStays, TypeOK, [Next]_vars, r \in Run
  <2> QED BY <1>1, <2>1, <2>2
<1>2. CASE UNCHANGED payments
  BY <1>1, <1>2, PayrollAssumption
<1>3. ASSUME NEW c \in Run \cup Verifier, NEW x \in Run \X Employee, call[c].ref = x,
             Pay!settle(c), Known(x)' \/ Over(x[1])'
      PROVE  RecordKnown'
  <2>1. call[c] \in [op : Pay!Op, ref : Run \X Employee, answer : Pay!Answer]
    BY <1>3, SettleTypes
  <2>2. Pay!saved(c) \in Pay!Status
    BY <2>1 DEF Pay!saved
  <2> QED BY <1>1, <1>2, <1>3, <2>2, Saving DEF Pay!settle
<1>4. CASE paystackStep
  <2>1. ASSUME NEW v \in Verifier, Pay!settle(v), UNCHANGED touched  PROVE RecordKnown'
    <3>1. call[v] # Pay!idle /\ call[v].ref \in Run \X Employee
      BY <2>1, SettleTypes DEF Pay!settle
    <3>2. PICK x \in Run \X Employee : call[v].ref = x
      BY <3>1
    <3>3. x \in touched'
      BY <2>1, <3>1, <3>2 DEF AskedInv
    <3> QED BY <1>3, <2>1, <3>2, <3>3 DEF Known
  <2>2. ASSUME NEW e \in events, Pay!handlePaystackWebhook(e)  PROVE RecordKnown'
    <3>1. Known(e.ref)' /\ e.ref \in Run \X Employee
      BY <2>2 DEF AskedInv, Known, Pay!handlePaystackWebhook
    <3> QED BY <1>1, <1>2, <2>2, <3>1, Saving DEF Pay!handlePaystackWebhook, Pay!record
  <2>3. ASSUME NEW x \in (Run \X Employee) \cup {None}, book(x)  PROVE RecordKnown'
    <3>1. x \in Run \X Employee => Known(x)'
      BY <2>3 DEF book, Known
    <3> QED BY <1>1, <2>3, <3>1, Booking
  <2>4. ASSUME NEW v \in Verifier, NEW x \in Run \X Employee, askElsewhere(v, x)
        PROVE  UNCHANGED payments
    BY <2>4 DEF askElsewhere, Pay!verifyPaystackPayment, Pay!initializePaystackPayment, Pay!ask
  <2>5. ASSUME \/ \E c \in Run \cup Verifier : Pay!paystackAnswers(c) \/ Pay!connectionFails(c)
               \/ \E y \in Run \X Employee, k \in Pay!Kind : Pay!chargeMoves(y, k)
        PROVE  UNCHANGED payments
    BY <2>5 DEF Pay!paystackAnswers, Pay!connectionFails, Pay!chargeMoves
  <2> QED BY <1>2, <1>4, <2>1, <2>2, <2>3, <2>4, <2>5 DEF paystackStep, Pay!Paystack
<1>5. ASSUME NEW r \in Run, itemAnswered(r)  PROVE RecordKnown'
  <2>1. /\ call[r] \in [op : Pay!Op, ref : Run \X Employee, answer : Pay!Answer]
        /\ call[r].op = "initialize" /\ call[r] # Pay!idle
    BY <1>5, SettleTypes DEF itemAnswered, AskedInv, Pay!settle
  <2>2. PICK e \in Employee : call[r].ref = <<r, e>>
    BY <2>1 DEF PayInv
  <2>3. CASE call[r].answer = "ok"
    <3>1. charge[<<r, e>>] # "none" /\ charge' = charge
      BY <1>5, <2>1, <2>2, <2>3 DEF AskedInv, itemAnswered, Pay!settle
    <3> QED BY <1>3, <1>5, <2>2, <3>1 DEF Known, itemAnswered
  <2>4. CASE stopPaying(r)
    <3>1. run[r] \in {"PAYMENT_PROCESSING", "CANCELLED", "REJECTED"}
      BY <1>5 DEF PayInv, itemAnswered
    <3>2. run' = run /\ r \notin paying'
      BY <1>5, <2>4 DEF itemAnswered, stopPaying
    <3>3. Over(r)'
      BY ONLY <3>1, <3>2 DEF Over
    <3>4. <<r, e>> \in Run \X Employee /\ <<r, e>>[1] = r
      OBVIOUS
    <3>5. Over(<<r, e>>[1])'
      BY ONLY <3>3, <3>4
    <3> QED BY <1>3, <1>5, <2>2, <3>4, <3>5 DEF itemAnswered
  <2> QED BY <1>5, <2>3, <2>4 DEF itemAnswered
<1>6. ASSUME NEW r \in Run, itemFails(r) \/ \E e \in Employee : payItem(r, e)
      PROVE  UNCHANGED payments
  BY <1>6 DEF itemFails, payItem, Pay!connectionFails, Pay!initializePaystackPayment, Pay!ask,
     payVars
<1>7. CASE restart
  BY <1>2, <1>7 DEF restart
<1>8. CASE Quiet
  BY <1>2, <1>8, QuietSteps DEF payVars
<1> QED BY <1>2, <1>4, <1>5, <1>6, <1>7, <1>8 DEF Next, PayNext, Quiet

\* A step adds a PROCESSING row only for an item whose reference has a record
\* (payItem) or a granted charge (itemAnswered).
LEMMA NewRowKnown ==
    ASSUME Inv, RecordKnown, AskedInv, [Next]_vars, NEW x \in Run \X Employee
    PROVE  paid'[x]["PROCESSING"] = paid[x]["PROCESSING"] \/ Known(x)
<1> USE DEF Inv, TypeOK, Pay!TypeOK
<1>1. ASSUME NEW r \in Run, NEW e \in Employee, addRow(r, e, "PROCESSING"), x # <<r, e>>
      PROVE  paid'[x] = paid[x]
  <2>1. paid \in [Run \X Employee -> [RowStatus -> Nat]] /\ "PROCESSING" \in RowStatus
    OBVIOUS
  <2> QED BY ONLY <1>1, <2>1, AddRow, r \in Run, e \in Employee, x \in Run \X Employee
<1>2. ASSUME NEW r \in Run, NEW e \in Employee, payItem(r, e)
      PROVE  paid'[x] = paid[x] \/ Known(x)
  <2>1. CASE Pay!recordsOf(<<r, e>>) # {} /\ addRow(r, e, "PROCESSING")
    <3>1. Known(<<r, e>>)
      BY <1>2, <2>1 DEF RecordKnown, Over, payItem, Pay!recordsOf
    <3> QED BY <1>1, <2>1, <3>1
  <2>2. CASE UNCHANGED paid
    BY <2>2
  <2> QED BY <1>2, <2>1, <2>2 DEF payItem
<1>3. ASSUME NEW r \in Run, itemAnswered(r)
      PROVE  paid'[x] = paid[x] \/ Known(x)
  <2>1. /\ call[r] \in [op : Pay!Op, ref : Run \X Employee, answer : Pay!Answer]
        /\ call[r].op = "initialize" /\ call[r] # Pay!idle
    BY <1>3, SettleTypes DEF itemAnswered, AskedInv, Pay!settle
  <2>2. PICK e \in Employee : call[r].ref = <<r, e>>
    BY <2>1 DEF PayInv
  <2>3. CASE call[r].answer = "ok" /\ addRow(r, call[r].ref[2], "PROCESSING")
    <3>1. charge[call[r].ref] # "none"
      BY ONLY <2>1, <2>3, AskedInv, r \in Run DEF AskedInv
    <3>2. Known(<<r, e>>)
      BY <2>2, <3>1 DEF Known
    <3>3. addRow(r, e, "PROCESSING")
      BY <2>2, <2>3
    <3> QED BY <1>1, <3>2, <3>3
  <2>4. CASE stopPaying(r)
    BY <2>4 DEF stopPaying
  <2> QED BY <1>3, <2>3, <2>4 DEF itemAnswered
<1>4. CASE restart \/ paystackStep \/ \E r \in Run : itemFails(r)
  BY <1>4 DEF restart, paystackStep, itemFails, stopPaying
<1>5. CASE Quiet
  BY <1>5, QuietSteps
<1> QED BY <1>2, <1>3, <1>4, <1>5 DEF Next, PayNext, Quiet

\* A row of a payment through Paystack stands for a charge Paystack opened,
\* through refusals, lost answers, restarts and whatever the portal writes,
\* unless its reference was named beside the payroll or recorded by the portal.
THEOREM RowsHaveCharges == Spec => []RowHasCharge
<1>1. Init => ChargeInv
  BY DEF Init, Pay!Init, ChargeInv, RowHasCharge, RecordKnown, AskedInv
<1>2. Inv /\ ChargeInv /\ [Next]_vars => ChargeInv'
  <2> SUFFICES ASSUME Inv, ChargeInv, [Next]_vars  PROVE ChargeInv'
    OBVIOUS
  <2>1. TypeOK /\ RecordKnown /\ AskedInv /\ RowHasCharge
    BY DEF Inv, ChargeInv
  <2>2. ASSUME NEW x \in Run \X Employee, paid'[x]["PROCESSING"] > 0
        PROVE  charge'[x] # "none" \/ x \in touched'
    <3>1. Known(x)
      BY <2>1, <2>2, NewRowKnown DEF RowHasCharge, Known
    <3> QED BY <2>1, <3>1, KnownStays DEF Known
  <2> QED BY <2>1, <2>2, RecordsKnown, AskedStays DEF ChargeInv, RowHasCharge
<1>3. ChargeInv => RowHasCharge  BY DEF ChargeInv
<1> QED BY <1>1, <1>2, <1>3, InvHolds, PTL DEF Spec
=============================================================================
