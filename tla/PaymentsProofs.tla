--------------------------- MODULE PaymentsProofs ---------------------------
(* Proofs about Payments, for any references and any number of requests. *)
EXTENDS Payments, TLAPS

\* What makes a success earned: a verification was answered ok, or an event
\* success was sent, only by a charge that had succeeded, and a charge that has
\* succeeded can only be reversed.
Earned(r) == charge[r] \in {"success", "reversed"}

EarnedInv ==
    /\ SuccessIsEarned
    /\ \A c \in Call :
          call[c].op = "verify" /\ call[c].answer = "ok" => Earned(call[c].ref)
    /\ \A e \in events : e.kind = "success" => Earned(e.ref)

\* A status is saved in one record of its reference: the first, or a new one.
LEMMA Saving ==
    ASSUME payments \in Seq(Record), NEW r \in Ref, NEW s \in Status, savePayment(r, s)
    PROVE  /\ payments' \in Seq(Record)
           /\ DOMAIN payments \subseteq DOMAIN payments'
           /\ \A i \in DOMAIN payments' :
                 payments'[i] = [ref |-> r, status |-> s]
                    \/ (i \in DOMAIN payments /\ payments'[i] = payments[i])
<1>0. \A i \in DOMAIN payments : payments[i] \in Record
  OBVIOUS
<1> USE DEF Record
<1>1. CASE payments' = Append(payments, [ref |-> r, status |-> s])
  BY <1>1
<1>2. CASE \E i \in recordsOf(r) : payments' = [payments EXCEPT ![i].status = s]
  <2>1. PICK i \in recordsOf(r) : payments' = [payments EXCEPT ![i].status = s]
    BY <1>2
  <2>2. i \in DOMAIN payments /\ payments[i] \in Record /\ payments[i].ref = r
    BY <1>0, <2>1 DEF recordsOf
  <2>3. [payments[i] EXCEPT !.status = s] = [ref |-> r, status |-> s]
    BY <2>2
  <2>4. payments' = [payments EXCEPT ![i] = [ref |-> r, status |-> s]]
    BY <2>1, <2>3
  <2> QED BY <2>2, <2>4
<1> QED BY <1>1, <1>2 DEF savePayment

\* What the portal writes is booked, and everything else stays.
LEMMA Booking ==
    ASSUME payments \in Seq(Record), Portal
    PROVE  /\ payments' \in Seq(Record)
           /\ DOMAIN payments \subseteq DOMAIN payments'
           /\ \A i \in DOMAIN payments' :
                 payments'[i].status = "booked"
                    \/ (i \in DOMAIN payments /\ payments'[i] = payments[i])
<1> USE DEF Record, Status
<1>1. ASSUME NEW r \in Ref \cup {None}, recordPayment(r)
      PROVE  payments' = Append(payments, [ref |-> r, status |-> "booked"])
  BY <1>1 DEF recordPayment
<1>2. ASSUME NEW r \in Ref \cup {None}, NEW i \in DOMAIN payments, reconcilePayment(i, r)
      PROVE  payments' = [payments EXCEPT ![i] = [ref |-> r, status |-> "booked"]]
  BY <1>2 DEF reconcilePayment
<1>3. CASE \E r \in Ref \cup {None} :
              payments' = Append(payments, [ref |-> r, status |-> "booked"])
  BY <1>3
<1>4. CASE \E r \in Ref \cup {None}, i \in DOMAIN payments :
              payments' = [payments EXCEPT ![i] = [ref |-> r, status |-> "booked"]]
  BY <1>4
<1> QED BY <1>1, <1>2, <1>3, <1>4 DEF Portal

\* Every step of a request, of the webhook, of Paystack and of the portal keeps
\* the types.
THEOREM TypeCorrect == Spec => []TypeOK
<1> USE DEF TypeOK, idle, Op, Answer, Kind, Status
<1>1. Init => TypeOK
  BY DEF Init
<1>2. TypeOK /\ [Next]_vars => TypeOK'
  <2> SUFFICES ASSUME TypeOK, [Next]_vars  PROVE TypeOK'
    OBVIOUS
  <2>1. ASSUME NEW c \in Call, NEW r \in Ref, NEW op \in Op, ask(c, op, r)
        PROVE  TypeOK'
    BY <2>1 DEF ask
  <2>2. ASSUME NEW c \in Call, NEW r \in Ref,
               initializePaystackPayment(c, r) \/ verifyPaystackPayment(c, r)
                  \/ createPaystackTransfer(c, r)
        PROVE  TypeOK'
    BY <2>1, <2>2 DEF initializePaystackPayment, verifyPaystackPayment, createPaystackTransfer
  <2>3. ASSUME NEW c \in Call, paystackAnswers(c)  PROVE TypeOK'
    BY <2>3 DEF paystackAnswers
  <2>4. ASSUME NEW c \in Call, settle(c)  PROVE TypeOK'
    <3>1. call[c] \in [op : Op, ref : Ref, answer : Answer]
      BY <2>4 DEF settle
    <3>2. saved(c) \in Status
      BY <3>1 DEF saved
    <3>3. payments' \in Seq(Record)
      BY <2>4, <3>1, <3>2, Saving DEF settle
    <3> QED BY <2>4, <3>3 DEF settle
  <2>5. ASSUME NEW c \in Call, connectionFails(c)  PROVE TypeOK'
    BY <2>5 DEF connectionFails
  <2>6. ASSUME NEW e \in events, handlePaystackWebhook(e)  PROVE TypeOK'
    <3>1. payments' \in Seq(Record)
      BY <2>6, Saving DEF handlePaystackWebhook, record
    <3> QED BY <2>6, <3>1 DEF handlePaystackWebhook
  <2>7. ASSUME NEW r \in Ref, NEW k \in Kind, chargeMoves(r, k)  PROVE TypeOK'
    BY <2>7 DEF chargeMoves
  <2>8. CASE Portal
    BY <2>8, Booking DEF Portal, recordPayment, reconcilePayment
  <2>9. CASE UNCHANGED vars
    BY <2>9 DEF vars
  <2> QED BY <2>2, <2>3, <2>4, <2>5, <2>6, <2>7, <2>8, <2>9 DEF Next, CallNext, Paystack
<1> QED BY <1>1, <1>2, PTL DEF Spec

\* A success that is saved was earned, and the portal saves none.
LEMMA EarnedSaving ==
    ASSUME TypeOK, SuccessIsEarned, UNCHANGED charge,
           \/ Portal
           \/ \E r \in Ref, s \in Status :
                 savePayment(r, s) /\ (s = "success" => Earned(r))
    PROVE  SuccessIsEarned'
<1> USE DEF TypeOK, SuccessIsEarned, Earned
<1>1. CASE Portal
  BY <1>1, Booking
<1>2. ASSUME NEW r \in Ref, NEW s \in Status,
             savePayment(r, s), s = "success" => Earned(r)
      PROVE  SuccessIsEarned'
  BY <1>2, Saving
<1> QED BY <1>1, <1>2

\* No payment is ever shown as successful whose charge did not succeed: not
\* by a late or repeated webhook, a verification, an initialization or
\* the accountant.
THEOREM SuccessesAreEarned == Spec => []SuccessIsEarned
<1> USE DEF TypeOK, idle, Op, Answer, Kind, Status, EarnedInv, SuccessIsEarned, Earned
<1>1. Init => EarnedInv
  BY DEF Init
<1>2. TypeOK /\ EarnedInv /\ [Next]_vars => EarnedInv'
  <2> SUFFICES ASSUME TypeOK, EarnedInv, [Next]_vars  PROVE EarnedInv'
    OBVIOUS
  <2>1. ASSUME NEW c \in Call, NEW r \in Ref,
               initializePaystackPayment(c, r) \/ verifyPaystackPayment(c, r)
                  \/ createPaystackTransfer(c, r)
        PROVE  EarnedInv'
    BY <2>1 DEF ask, initializePaystackPayment, verifyPaystackPayment, createPaystackTransfer
  <2>2. ASSUME NEW c \in Call, paystackAnswers(c)  PROVE EarnedInv'
    <3>1. \A x \in Ref : Earned(x) => Earned(x)'
      BY <2>2 DEF paystackAnswers
    <3>2. SuccessIsEarned'
      <4>1. payments' = payments /\ \A i \in DOMAIN payments : payments[i] \in Record
        BY <2>2 DEF paystackAnswers
      <4> QED BY <3>1, <4>1
    <3>3. \A e \in events' : e.kind = "success" => Earned(e.ref)'
      BY <2>2, <3>1 DEF paystackAnswers
    <3>4. ASSUME NEW d \in Call, call'[d].op = "verify", call'[d].answer = "ok"
          PROVE  Earned(call[d].ref)'
      <4>1. call[c] \in [op : Op, ref : Ref, answer : Answer]
        BY <2>2 DEF paystackAnswers
      <4>2. PICK x \in {"ok", "refused"} :
              /\ call' = [call EXCEPT ![c].answer = x]
              /\ x = "ok" /\ call[c].op = "verify" => Earned(call[c].ref)
        BY <2>2 DEF paystackAnswers
      <4>3. CASE d = c
        <5>1. call'[d].op = call[c].op /\ call'[d].ref = call[c].ref /\ call'[d].answer = x
          BY <4>1, <4>2, <4>3
        <5>2. Earned(call[c].ref) /\ call[c].ref \in Ref
          BY <3>4, <4>1, <4>2, <5>1
        <5> QED BY <3>1, <5>1, <5>2
      <4>4. CASE d # c
        <5>1. call'[d] = call[d] /\ call[d].op = "verify" /\ call[d].answer = "ok"
          BY <3>4, <4>2, <4>4
        <5>2. Earned(call[d].ref) /\ call[d].ref \in Ref
          BY <5>1
        <5> QED BY <3>1, <5>1, <5>2
      <4> QED BY <4>3, <4>4
    <3> QED BY <3>2, <3>3, <3>4
  <2>3. ASSUME NEW c \in Call, settle(c)  PROVE EarnedInv'
    <3>1. call[c] \in [op : Op, ref : Ref, answer : Answer]
      BY <2>3 DEF settle
    <3>2. call[c].op # "transfer" /\ saved(c) = "success" => Earned(call[c].ref)
      <4>1. /\ call[c].ref \in Ref /\ call[c].op \in Op
            /\ call[c].answer \in {"ok", "refused"}
        BY <3>1, <2>3 DEF settle
      <4>2. CASE call[c].op = "transfer"
        BY <4>1, <4>2 DEF saved
      <4>3. CASE call[c].op # "transfer" /\ call[c].answer = "refused"
        BY <4>3 DEF saved
      <4>4. CASE call[c].op = "initialize" /\ call[c].answer = "ok"
        BY <4>4 DEF saved
      <4>5. CASE call[c].op = "verify" /\ call[c].answer = "ok"
        BY <4>5
      <4> QED BY <4>1, <4>2, <4>3, <4>4, <4>5
    <3>3. SuccessIsEarned'
      BY <2>3, <3>1, <3>2, EarnedSaving DEF settle, saved
    <3> QED BY <2>3, <3>3 DEF settle
  <2>4. ASSUME NEW c \in Call, connectionFails(c)  PROVE EarnedInv'
    BY <2>4 DEF connectionFails
  <2>5. ASSUME NEW e \in events, handlePaystackWebhook(e)  PROVE EarnedInv'
    <3>1. SuccessIsEarned'
      BY <2>5, EarnedSaving DEF handlePaystackWebhook, record
    <3> QED BY <2>5, <3>1 DEF handlePaystackWebhook
  <2>6. ASSUME NEW r \in Ref, NEW k \in Kind, chargeMoves(r, k)  PROVE EarnedInv'
    <3>1. \A x \in Ref : Earned(x) => Earned(x)'
      BY <2>6 DEF chargeMoves
    <3>2. \A e \in events' : e.kind = "success" => Earned(e.ref)'
      BY <2>6, <3>1 DEF chargeMoves
    <3>3. \A c \in Call : call[c].op = "verify" /\ call[c].answer = "ok" => Earned(call[c].ref)'
      BY <2>6, <3>1 DEF chargeMoves
    <3> QED BY <2>6, <3>1, <3>2, <3>3 DEF chargeMoves
  <2>7. CASE Portal
    BY <2>7, EarnedSaving DEF Portal, recordPayment, reconcilePayment
  <2>8. CASE UNCHANGED vars
    BY <2>8 DEF vars
  <2> QED BY <2>1, <2>2, <2>3, <2>4, <2>5, <2>6, <2>7, <2>8 DEF Next, CallNext, Paystack
<1> QED BY <1>1, <1>2, TypeCorrect, PTL DEF Spec, EarnedInv

\* Until its answer is handled, an initialization that Paystack granted leaves
\* the charge open: the checkout link is not with the customer yet.
GrantIsOpen ==
    \A c \in Call :
        call[c].op = "initialize" /\ call[c].answer = "ok" => charge[call[c].ref] = "open"

\* Only the customer moves a charge, and not before the link is handed out.
LEMMA GrantsAreOpen == Spec => []GrantIsOpen
<1> USE DEF TypeOK, idle, Op, Answer, Kind, Status, GrantIsOpen
<1>1. Init => GrantIsOpen
  BY DEF Init
<1>2. TypeOK /\ GrantIsOpen /\ [Next]_vars => GrantIsOpen'
  <2> SUFFICES ASSUME TypeOK, GrantIsOpen, [Next]_vars  PROVE GrantIsOpen'
    OBVIOUS
  <2>1. ASSUME NEW c \in Call, NEW r \in Ref,
               initializePaystackPayment(c, r) \/ verifyPaystackPayment(c, r)
                  \/ createPaystackTransfer(c, r)
        PROVE  GrantIsOpen'
    BY <2>1 DEF ask, initializePaystackPayment, verifyPaystackPayment, createPaystackTransfer
  <2>2. ASSUME NEW c \in Call, paystackAnswers(c)  PROVE GrantIsOpen'
    BY <2>2 DEF paystackAnswers
  <2>3. ASSUME NEW c \in Call, settle(c) \/ connectionFails(c)  PROVE GrantIsOpen'
    BY <2>3 DEF settle, connectionFails
  <2>4. ASSUME NEW e \in events, handlePaystackWebhook(e)  PROVE GrantIsOpen'
    BY <2>4 DEF handlePaystackWebhook
  <2>5. ASSUME NEW r \in Ref, NEW k \in Kind, chargeMoves(r, k)  PROVE GrantIsOpen'
    <3> SUFFICES ASSUME NEW c \in Call, call[c].op = "initialize", call[c].answer = "ok"
                 PROVE  charge'[call[c].ref] = "open"
      BY <2>5 DEF chargeMoves
    <3>1. call[c] \in [op : Op, ref : Ref, answer : Answer]
      OBVIOUS
    <3>2. call[c].ref # r
      BY <2>5, <3>1 DEF chargeMoves
    <3> QED BY <2>5, <3>1, <3>2 DEF chargeMoves
  <2>6. CASE Portal
    BY <2>6 DEF Portal, recordPayment, reconcilePayment
  <2>7. CASE UNCHANGED vars
    BY <2>7 DEF vars
  <2> QED BY <2>1, <2>2, <2>3, <2>4, <2>5, <2>6, <2>7 DEF Next, CallNext, Paystack
<1> QED BY <1>1, <1>2, TypeCorrect, PTL DEF Spec

\* A success is never taken back by a redelivered event, nor by a record that
\* takes its reference: only a refusal, the event of a failure that was not
\* recorded before, or its reconciliation does, whatever the ids of the events.
THEOREM SuccessesAreKept == Spec => SuccessIsKept
<1> DEFINE Kept(i) ==
      LET r == payments[i].ref IN
      /\ payments[i].status = "success" /\ charge[r] = "success"
      /\ payments'[i] # payments[i]
      => \/ payments'[i].status = "booked"
         \/ \E c \in Call :
               call[c] \in [op : {"initialize", "verify"}, ref : {r}, answer : {"refused"}]
         \/ \E e \in seen' \ seen : e.ref = r /\ e.kind \in {"failed", "reversed"}
<1>1. ASSUME TypeOK, GrantIsOpen, [Next]_vars, NEW i \in DOMAIN payments,
             payments[i].status = "success", charge[payments[i].ref] = "success",
             payments'[i] # payments[i]
      PROVE  Kept(i)
  <2> DEFINE r == payments[i].ref
  <2>0. payments[i] \in Record /\ payments[i] = [ref |-> r, status |-> "success"]
    <3>1. payments[i] \in Record
      BY <1>1 DEF TypeOK
    <3> QED BY <1>1, <3>1 DEF Record
  <2>1. ASSUME NEW x \in Ref, NEW s \in Status, savePayment(x, s)
        PROVE  x = r /\ s # "success"
    <3>1. payments'[i] = [ref |-> x, status |-> s] /\ i \in DOMAIN payments'
      BY <1>1, <2>1, Saving DEF TypeOK
    <3>2. payments' = Append(payments, [ref |-> x, status |-> s]) => payments'[i] = payments[i]
      BY <1>1 DEF TypeOK
    <3>3. PICK j \in recordsOf(x) : payments' = [payments EXCEPT ![j].status = s]
      BY <1>1, <2>1, <3>2 DEF savePayment
    <3>4. j = i
      BY <1>1, <3>3 DEF TypeOK, recordsOf
    <3>5. x = r
      BY <3>3, <3>4 DEF recordsOf
    <3> QED BY <1>1, <2>0, <3>1, <3>5
  <2>2. CASE \E c \in Call : settle(c)
    <3>1. PICK c \in Call : settle(c)
      BY <2>2
    <3>2. /\ call[c] \in [op : Op, ref : Ref, answer : Answer]
          /\ call[c].op \in Op /\ call[c].ref \in Ref /\ call[c].answer \in {"ok", "refused"}
      BY <1>1, <3>1 DEF TypeOK, settle, idle, Answer
    <3>3. call[c].op # "transfer" /\ savePayment(call[c].ref, saved(c))
      BY <1>1, <3>1 DEF settle
    <3>4. saved(c) \in Status
      BY <3>2 DEF saved, Status
    <3>5. call[c].ref = r /\ saved(c) # "success"
      BY <2>1, <3>2, <3>3, <3>4
    <3>6. CASE call[c].answer = "refused"
      BY <3>2, <3>3, <3>5, <3>6 DEF Op
    <3>7. CASE call[c].answer = "ok" /\ call[c].op = "initialize"
      <4>1. charge[r] = "open"
        BY <1>1, <3>5, <3>7 DEF GrantIsOpen
      <4> QED BY <1>1, <4>1
    <3>8. CASE call[c].answer = "ok" /\ call[c].op = "verify"
      BY <3>5, <3>8 DEF saved
    <3> QED BY <3>2, <3>3, <3>6, <3>7, <3>8 DEF Op
  <2>3. CASE \E e \in events : handlePaystackWebhook(e)
    <3>1. PICK e \in events : handlePaystackWebhook(e)
      BY <2>3
    <3>2. e \in seen' \ seen /\ e.ref \in Ref
      BY <1>1, <3>1 DEF TypeOK, handlePaystackWebhook, known
    <3>3. e.kind # "other" /\ record(e)
      BY <1>1, <3>1 DEF handlePaystackWebhook, record
    <3>4. e.ref = r /\ e.kind \in {"failed", "reversed"}
      BY <2>1, <3>2, <3>3 DEF record, Status
    <3> QED BY <3>2, <3>4
  <2>4. CASE Portal
    BY <1>1, <2>4, Booking DEF TypeOK
  <2>5. CASE UNCHANGED payments
    BY <1>1, <2>5
  <2> QED BY <1>1, <2>2, <2>3, <2>4, <2>5 DEF Next, CallNext, Paystack, ask, initializePaystackPayment,
        verifyPaystackPayment, createPaystackTransfer, paystackAnswers, connectionFails,
        chargeMoves, vars
<1>2. TypeOK /\ GrantIsOpen /\ [Next]_vars => [\A i \in DOMAIN payments : Kept(i)]_vars
  BY <1>1
<1> QED BY <1>2, TypeCorrect, GrantsAreOpen, PTL DEF Spec, SuccessIsKept
=============================================================================
