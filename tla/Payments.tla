------------------------------ MODULE Payments ------------------------------
(***************************************************************************)
(* Paystack payments: the records of collection payments, the requests     *)
(* that are suspended in a call to Paystack, and the webhook that Paystack *)
(* delivers at least once, in any order.  A record is found by its         *)
(* reference, the first of several; the accountant's portal writes the     *)
(* same collection, with references of its own choice.                     *)
(***************************************************************************)
EXTENDS Naturals, Sequences, FiniteSets

CONSTANTS
    Ref,             \* payment and transfer references
    Call,            \* slots for requests that wait for Paystack
    None,            \* of no request; a record's reference that is none of Ref
    EventsNumbered,  \* has an event an id of its own, or only its charge's?
    MaxRecords,      \* the accountant's portal acts while there are fewer records
    MaxEvents        \* and charges move while there are fewer events

ASSUME PaymentsAssumption ==
    /\ None \notin Ref /\ EventsNumbered \in BOOLEAN
    /\ MaxRecords \in Nat /\ MaxEvents \in Nat

VARIABLES
    payments,  \* the records that are not deleted, in order
    seen,      \* events in collection integration_webhook_events
    call,      \* the suspended request: what it asked, for which reference, the answer
    charge,    \* Paystack's state of the charge or transfer of a reference
    events     \* events Paystack delivers, again and again

vars == <<payments, seen, call, charge, events>>

Op == {"initialize", "verify", "transfer"}
Answer == {"waiting", "ok", "refused"}
Kind == {"success", "failed", "reversed", "other"}
Status == {"pending", "success", "failed", "booked"}   \* "booked": of the portal
Record == [ref : Ref \cup {None}, status : Status]
idle == [op |-> "idle", ref |-> None, answer |-> "waiting"]
eventId(e) == IF EventsNumbered THEN e ELSE e.ref

TypeOK ==
    /\ payments \in Seq(Record)
    /\ seen \subseteq [ref : Ref, kind : Kind]
    /\ call \in [Call -> {idle} \cup [op : Op, ref : Ref, answer : Answer]]
    /\ charge \in [Ref -> {"none", "open", "success", "failed", "reversed"}]
    /\ events \subseteq [ref : Ref, kind : Kind]

Init ==
    /\ payments = <<>>
    /\ seen = {}
    /\ call = [c \in Call |-> idle]
    /\ charge = [r \in Ref |-> "none"]
    /\ events = {}

---------------------------------------------------------------------------
(* The records. *)

recordsOf(r) == {i \in DOMAIN payments : payments[i].ref = r}

\* The first record of the reference takes the status; without one, a new one.
savePayment(r, status) ==
    \/ /\ recordsOf(r) = {}
       /\ payments' = Append(payments, [ref |-> r, status |-> status])
    \/ \E i \in recordsOf(r) :
          /\ \A j \in recordsOf(r) : i <= j
          /\ payments' = [payments EXCEPT ![i].status = status]

---------------------------------------------------------------------------
(* Requests.  Each sends its query, is suspended, and saves the record on   *)
(* the answer without looking at what was saved meanwhile.                  *)

ask(c, op, r) ==
    /\ call[c] = idle
    /\ call' = [call EXCEPT ![c] = [op |-> op, ref |-> r, answer |-> "waiting"]]
    /\ UNCHANGED <<payments, seen, charge, events>>

\* A reference that has a record is answered from it and asks nothing.
initializePaystackPayment(c, r) == recordsOf(r) = {} /\ ask(c, "initialize", r)

verifyPaystackPayment(c, r) == ask(c, "verify", r)

createPaystackTransfer(c, r) == ask(c, "transfer", r)

\* Mutant: a verification succeeds for any charge that has not failed.
paystackAnswers_lenient(c) ==
    /\ call[c].op # "idle" /\ call[c].answer = "waiting"
    /\ LET r == call[c].ref
           new == call[c].op # "verify" /\ charge[r] = "none"
           ok == new \/ (call[c].op = "verify" /\ charge[r] # "failed")
       IN  /\ call' = [call EXCEPT ![c].answer = IF ok THEN "ok" ELSE "refused"]
           /\ charge' = IF new THEN [charge EXCEPT ![r] = "open"] ELSE charge
    /\ UNCHANGED <<payments, seen, events>>

\* Paystack answers: a new reference is opened or refused, a known one is
\* refused; a verification succeeds only for a charge that has succeeded, and
\* for any charge, or a reference Paystack does not know, it may be refused.
paystackAnswers(c) ==
    /\ call[c].op # "idle" /\ call[c].answer = "waiting"
    /\ LET r == call[c].ref IN
       \/ /\ call[c].op # "verify" /\ charge[r] = "none"
          /\ charge' = [charge EXCEPT ![r] = "open"]
          /\ call' = [call EXCEPT ![c].answer = "ok"]
       \/ /\ call[c].op = "verify" /\ charge[r] = "success"
          /\ call' = [call EXCEPT ![c].answer = "ok"]
          /\ UNCHANGED charge
       \/ /\ call' = [call EXCEPT ![c].answer = "refused"]
          /\ UNCHANGED charge
    /\ UNCHANGED <<payments, seen, events>>

\* The status saved for the answer.
saved(c) ==
    IF call[c].answer = "refused" THEN "failed"
    ELSE IF call[c].op = "initialize" THEN "pending" ELSE "success"

\* The rest of the handler, once Paystack has answered; a transfer saves nothing.
settle(c) ==
    /\ call[c].answer # "waiting"
    /\ \/ call[c].op = "transfer" /\ UNCHANGED payments
       \/ call[c].op # "transfer" /\ savePayment(call[c].ref, saved(c))
    /\ call' = [call EXCEPT ![c] = idle]
    /\ UNCHANGED <<seen, charge, events>>

\* fetch() rejects, before or after Paystack saw the query; nothing is saved.
connectionFails(c) ==
    /\ call[c].op # "idle"
    /\ call' = [call EXCEPT ![c] = idle]
    /\ UNCHANGED <<payments, seen, charge, events>>

---------------------------------------------------------------------------
(* The webhook. *)

\* The id of e is the id of an event that was recorded.
known(e) == \E s \in seen : eventId(s) = eventId(e)

\* An event that is neither of a success nor of a failure leaves the status.
record(e) ==
    \/ e.kind = "success" /\ savePayment(e.ref, "success")
    \/ e.kind \in {"failed", "reversed"} /\ savePayment(e.ref, "failed")
    \/ e.kind = "other" /\ UNCHANGED payments

\* Mutant: an event that was processed already is processed again.
handlePaystackWebhook_repeats(e) ==
    /\ e \in events
    /\ seen' = seen \cup {e}
    /\ record(e)
    /\ UNCHANGED <<call, charge, events>>

\* A signed event; one whose id is known is answered and changes nothing.
handlePaystackWebhook(e) ==
    /\ e \in events
    /\ ~ known(e)
    /\ seen' = seen \cup {e}
    /\ record(e)
    /\ UNCHANGED <<call, charge, events>>

---------------------------------------------------------------------------
(* The accountant's portal. Its statuses are written in capitals: none of   *)
(* them is the "success" of Paystack.                                      *)

\* A payment made elsewhere, also of a bill, an order or an expense, is
\* recorded with any reference, one that has a record included.
recordPayment(r) ==
    /\ Len(payments) < MaxRecords
    /\ payments' = Append(payments, [ref |-> r, status |-> "booked"])
    /\ UNCHANGED <<seen, call, charge, events>>

\* Any record is reconciled: the request's fields are written over it, its
\* reference or its deletion included.
reconcilePayment(i, r) ==
    /\ r # payments[i].ref => Len(payments) < MaxRecords
    /\ payments' = [payments EXCEPT ![i] = [ref |-> r, status |-> "booked"]]
    /\ UNCHANGED <<seen, call, charge, events>>

Portal ==
    \E r \in Ref \cup {None} :
        recordPayment(r) \/ \E i \in DOMAIN payments : reconcilePayment(i, r)

---------------------------------------------------------------------------
(* Paystack and its customer. *)

\* The customer pays, at a second attempt perhaps, but not before the answer
\* with the checkout link is handled; a success may be reversed.  What else
\* Paystack reports of a charge moves nothing.
chargeMoves(r, kind) ==
    /\ Cardinality(events) < MaxEvents
    /\ \A c \in Call : call[c] # [op |-> "initialize", ref |-> r, answer |-> "ok"]
    /\ \/ charge[r] = "open" /\ kind \in {"success", "failed"}
       \/ charge[r] = "failed" /\ kind = "success"
       \/ charge[r] = "success" /\ kind = "reversed"
       \/ charge[r] # "none" /\ kind = "other"
    /\ charge' = IF kind = "other" THEN charge ELSE [charge EXCEPT ![r] = kind]
    /\ events' = events \cup {[ref |-> r, kind |-> kind]}
    /\ UNCHANGED <<payments, seen, call>>

CallNext(c) == paystackAnswers(c) \/ settle(c) \/ connectionFails(c)

Paystack ==
    \/ \E r \in Ref, kind \in Kind : chargeMoves(r, kind)
    \/ \E e \in events : handlePaystackWebhook(e)

Next ==
    \/ \E c \in Call, r \in Ref :
          \/ initializePaystackPayment(c, r) \/ verifyPaystackPayment(c, r)
          \/ createPaystackTransfer(c, r)
    \/ \E c \in Call : CallNext(c)
    \/ Paystack
    \/ Portal

Spec == Init /\ [][Next]_vars

---------------------------------------------------------------------------
(* Properties. *)

\* A record with the status Paystack's payments have when they succeed is of a
\* charge that did: neither a verification nor a webhook marks another one, and
\* whatever the portal records or gives another reference is none.
SuccessIsEarned ==
    \A i \in DOMAIN payments : payments[i].status = "success" =>
        payments[i].ref \in Ref /\ charge[payments[i].ref] \in {"success", "reversed"}

\* While the charge stands, a success is lost only to a request that Paystack
\* refused, to an event of a failure that was not recorded before, or to the
\* accountant who reconciles it: a redelivered event takes nothing back, nor
\* does a payment that is recorded, or renamed, with the same reference.
SuccessIsKept ==
    [][\A i \in DOMAIN payments :
          LET r == payments[i].ref IN
          /\ payments[i].status = "success" /\ charge[r] = "success"
          /\ payments'[i] # payments[i]
          => \/ payments'[i].status = "booked"
             \/ \E c \in Call :
                   call[c] \in [op : {"initialize", "verify"}, ref : {r}, answer : {"refused"}]
             \/ \E e \in seen' \ seen : e.ref = r /\ e.kind \in {"failed", "reversed"}]_vars
=============================================================================
