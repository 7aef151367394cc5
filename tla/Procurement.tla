---------------------------- MODULE Procurement ----------------------------
(***************************************************************************)
(* Purchase requests, their approval level by level, the order made of an  *)
(* approved one and its receipts. Every handler is one synchronous step.   *)
(***************************************************************************)
EXTENDS Integers

CONSTANTS
    Purchase, Person, Vendor,
    Levels,      \* approval levels the amounts of the instance call for
    Quantity,    \* what an order may ask for of its item (bound)
    MaxReceived, \* what may be received of it altogether (bound)
    None

ProcurementConstants ==
    /\ Levels \subseteq 1..3
    /\ Quantity \subseteq Nat \ {0} /\ MaxReceived \in Nat
    /\ None \notin Person \cup Vendor /\ "PENDING" \notin Person

VARIABLES
    vendor,            \* active or not
    purchase,          \* rows of purchase_requests
    purchaseApproval,  \* per request and level: no row, a pending one, or who approved
    order              \* rows of purchase_orders, found by their request, with what was received

vars == <<vendor, purchase, purchaseApproval, order>>

Waiting == {"SUBMITTED", "UNDER_REVIEW", "PENDING_APPROVAL"}
OrderStatus == {"DRAFT", "SENT", "ACKNOWLEDGED", "PARTIALLY_DELIVERED", "DELIVERED", "CANCELLED", "CLOSED"}
Finalized == {"DELIVERED", "CLOSED", "CANCELLED"}

noPurchase == [status |-> "absent", owner |-> None, vendor |-> None, level |-> 0, required |-> 0, lead |-> FALSE]
noOrder == [status |-> "absent", vendor |-> None, quantity |-> 0, received |-> 0]

Init ==
    /\ vendor \in [Vendor -> {"active", "inactive"}]
    /\ purchase = [q \in Purchase |-> noPurchase]
    /\ purchaseApproval = [q \in Purchase |-> [l \in 1..3 |-> None]]
    /\ order = [q \in Purchase |-> noOrder]

---------------------------------------------------------------------------
(* procurement.service.js: requests. *)

openLevel(q, l) == purchaseApproval' = [purchaseApproval EXCEPT ![q][l] = "PENDING"]

createPurchaseRequest(q, o, n, draft) ==
    /\ purchase[q] = noPurchase
    /\ purchase' = [purchase EXCEPT ![q] =
           [status |-> IF draft THEN "DRAFT" ELSE "SUBMITTED", owner |-> o, vendor |-> None,
            level |-> IF draft THEN 0 ELSE 1, required |-> n, lead |-> FALSE]]
    /\ IF draft THEN UNCHANGED purchaseApproval ELSE openLevel(q, 1)
    /\ UNCHANGED <<vendor, order>>

submitRequest(q) ==
    /\ purchase[q].status = "DRAFT"
    /\ purchase' = [purchase EXCEPT ![q].status = "SUBMITTED", ![q].level = 1]
    /\ openLevel(q, 1)
    /\ UNCHANGED <<vendor, order>>

\* Mutant: the level is not compared with those required.
approveRequest_once(q, a) ==
    /\ purchase[q].status \in Waiting
    /\ a # purchase[q].owner
    /\ purchaseApproval' = [purchaseApproval EXCEPT ![q][purchase[q].level] = a]
    /\ purchase' = [purchase EXCEPT ![q].status = "APPROVED"]
    /\ UNCHANGED <<vendor, order>>

approveRequest(q, a) ==
    LET l == purchase[q].level
        last == l >= purchase[q].required
        given == [purchaseApproval EXCEPT ![q][l] = a]
    IN  /\ purchase[q].status \in Waiting
        /\ a # purchase[q].owner
        /\ purchaseApproval' = IF last THEN given ELSE [given EXCEPT ![q][l + 1] = "PENDING"]
        /\ purchase' = [purchase EXCEPT
               ![q].status = IF last THEN "APPROVED" ELSE "PENDING_APPROVAL",
               ![q].level = IF last THEN l ELSE l + 1]
        /\ UNCHANGED <<vendor, order>>

\* In any state, one that was ordered or delivered included. The order stays.
rejectRequest(q) ==
    /\ purchase[q] # noPurchase
    /\ purchase' = [purchase EXCEPT ![q].status = "REJECTED"]
    /\ UNCHANGED <<vendor, purchaseApproval, order>>

cancelRequest(q) ==
    /\ purchase[q].status \in {"DRAFT", "SUBMITTED"}
    /\ purchase' = [purchase EXCEPT ![q].status = "CANCELLED"]
    /\ UNCHANGED <<vendor, purchaseApproval, order>>

assignVendor(q, v) ==
    /\ purchase[q].status = "APPROVED"
    /\ vendor[v] = "active"
    /\ purchase' = [purchase EXCEPT ![q].vendor = v]
    /\ UNCHANGED <<vendor, purchaseApproval, order>>

---------------------------------------------------------------------------
(* Orders and receipts. *)

\* The vendor named in the body, or else the one assigned; an inactive one will do.
createPurchaseOrder(q, v, n) ==
    /\ purchase[q].status = "APPROVED"
    /\ order[q] = noOrder
    /\ v # None
    /\ order' = [order EXCEPT ![q] = [status |-> "DRAFT", vendor |-> v, quantity |-> n, received |-> 0]]
    /\ purchase' = [purchase EXCEPT ![q].status = "ORDERED"]
    /\ UNCHANGED <<vendor, purchaseApproval>>

updatePurchaseOrder(q, s) ==
    /\ order[q].status \notin Finalized \cup {"absent"}
    /\ order' = [order EXCEPT ![q].status = s]
    /\ UNCHANGED <<vendor, purchase, purchaseApproval>>

\* Sent or cancelled, from any status; the request is not told.
setPurchaseOrderStatus(q, s) ==
    /\ order[q] # noOrder
    /\ order' = [order EXCEPT ![q].status = s]
    /\ UNCHANGED <<vendor, purchase, purchaseApproval>>

\* One receipt is compared with the whole order, whatever came before; its status
\* may also be given in the body. It overwrites the status of the request.
receivePurchaseOrder(q, n, complete) ==
    /\ order[q].status \notin {"absent", "CANCELLED", "CLOSED"}
    /\ order[q].received + n <= MaxReceived
    /\ order' = [order EXCEPT
           ![q].received = @ + n,
           ![q].status = IF complete THEN "DELIVERED" ELSE "PARTIALLY_DELIVERED"]
    /\ purchase' = [purchase EXCEPT
           ![q].status = IF complete THEN "DELIVERED" ELSE "PARTIALLY_DELIVERED"]
    /\ UNCHANGED <<vendor, purchaseApproval>>

---------------------------------------------------------------------------
(* The portal of department leads, and vendors/routes.js. *)

\* A request that no handler of procurement.service.js submits or decides.
leadCreates(q, o) ==
    /\ purchase[q] = noPurchase
    /\ purchase' = [purchase EXCEPT ![q].status = "PENDING", ![q].owner = o]
    /\ UNCHANGED <<vendor, purchaseApproval, order>>

\* manager/service.js updateStatus: in any state, at no level. The body it also
\* spreads over the row is left out.
leadDecides(q, s) ==
    /\ purchase[q] # noPurchase
    /\ purchase' = [purchase EXCEPT ![q].status = s, ![q].lead = @ \/ s = "APPROVED"]
    /\ UNCHANGED <<vendor, purchaseApproval, order>>

updateVendor(v, s) ==
    /\ vendor' = [vendor EXCEPT ![v] = s]
    /\ UNCHANGED <<purchase, purchaseApproval, order>>

Request(q) ==
    \/ \E o \in Person, n \in Levels, draft \in BOOLEAN : createPurchaseRequest(q, o, n, draft)
    \/ submitRequest(q)
    \/ \E a \in Person : approveRequest(q, a)
    \/ rejectRequest(q)
    \/ cancelRequest(q)
    \/ \E v \in Vendor : assignVendor(q, v)

Order(q) ==
    \/ \E v \in Vendor \cup {purchase[q].vendor}, n \in Quantity : createPurchaseOrder(q, v, n)
    \/ \E s \in OrderStatus : updatePurchaseOrder(q, s)
    \/ \E s \in {"SENT", "CANCELLED"} : setPurchaseOrderStatus(q, s)
    \/ \E n \in Quantity, complete \in BOOLEAN : receivePurchaseOrder(q, n, complete)

Portal(q) ==
    \/ \E o \in Person : leadCreates(q, o)
    \/ \E s \in {"APPROVED", "REJECTED"} : leadDecides(q, s)

Next ==
    \/ \E q \in Purchase : Request(q) \/ Order(q) \/ Portal(q)
    \/ \E v \in Vendor, s \in {"active", "inactive"} : updateVendor(v, s)

Spec == Init /\ [][Next]_vars

---------------------------------------------------------------------------
(* Properties. *)

Bought == {"ORDERED", "PARTIALLY_DELIVERED", "DELIVERED"}

\* What is ordered, and so what is received, was approved at every level by
\* somebody else than the requester, or by a lead in one go; a request that ended
\* without an order never gets one unless a lead approves it: though rejections
\* come in any state and receipts overwrite the status of the request.
OrderedAsApproved ==
    \A q \in Purchase :
        /\ order[q] # noOrder =>
              /\ purchase[q].lead \/ (\A l \in 1..purchase[q].required :
                                       purchaseApproval[q][l] \in Person \ {purchase[q].owner})
              /\ purchase[q].status \in Bought \cup {"REJECTED"}
                      \cup (IF purchase[q].lead THEN {"APPROVED"} ELSE {})
        /\ purchase[q].status \in Bought => order[q] # noOrder
---------------------------------------------------------------------------
(* The invariant OrderedAsApproved follows from. *)

Status == Waiting \cup Bought \cup {"DRAFT", "PENDING", "APPROVED", "REJECTED", "CANCELLED"}
Row ==
    [status : Status \cup {"absent"}, owner : Person \cup {None}, vendor : Vendor \cup {None},
     level : 0..3, required : 0..3, lead : BOOLEAN]
Signatures == [1..3 -> Person \cup {None, "PENDING"}]
OrderRow ==
    [status : OrderStatus \cup {"absent"}, vendor : Vendor \cup {None}, quantity : Nat,
     received : Nat]

\* Of a row r with the approvals g and the order o.
SignedUpTo(r, g, l) == \A k \in 1..l : g[k] \in Person \ {r.owner}

RequestAgrees(r, g) ==
    /\ r.status = "absent" => r = noPurchase
    /\ r.status \in Waiting \cup {"DRAFT"} => ~ r.lead /\ r.required \in 1..3
    /\ r.status \in Waiting => r.level \in 1..r.required /\ SignedUpTo(r, g, r.level - 1)
    /\ r.status = "APPROVED" => r.lead \/ SignedUpTo(r, g, r.required)

OrderAgrees(r, g, o) ==
    /\ o.status = "absent" => o = noOrder
    /\ r.status \in Bought => o # noOrder
    /\ o # noOrder =>
           /\ r.lead \/ SignedUpTo(r, g, r.required)
           /\ \/ r.status \in Bought \cup {"REJECTED"}
              \/ r.status = "APPROVED" /\ r.lead

TypeOK ==
    /\ purchase \in [Purchase -> Row]
    /\ purchaseApproval \in [Purchase -> Signatures]
    /\ order \in [Purchase -> OrderRow]

Inv ==
    /\ TypeOK
    /\ \A q \in Purchase : /\ RequestAgrees(purchase[q], purchaseApproval[q])
                           /\ OrderAgrees(purchase[q], purchaseApproval[q], order[q])
=============================================================================
