------------------------------- MODULE Leave -------------------------------
(***************************************************************************)
(* Leave requests, their extensions and the balances they are taken from.  *)
(* leave.service.js books every request: days are pending while it waits,  *)
(* used once it is approved, and free again when it ends. The HR, manager  *)
(* and HOD portals write the same collection leave_requests and book       *)
(* nothing. Every handler is one synchronous step.                         *)
(***************************************************************************)
EXTENDS Integers, FiniteSets

CONSTANTS
    Employee, Request, Extension,
    Type,      \* a leave type in a year
    Days,      \* working days of a request or extension (bound)
    Grant,     \* days a balance may grant (bound)
    None

ASSUME LeaveAssumption ==
    /\ Days \subseteq Nat \ {0}
    /\ Grant \subseteq Int
    /\ None \notin Employee \cup Type \cup Request

VARIABLES
    request,   \* rows of leave_requests
    balance,   \* rows of leave_balances per employee and type
    extension  \* rows of leave_extensions

vars == <<request, balance, extension>>

Active == {"PENDING", "APPROVED"}
Ended == {"REJECTED", "CANCELLED", "WITHDRAWN"}
Account == Employee \X Type

noRequest == [status |-> "absent", owner |-> None, type |-> None, days |-> 0]
noExtension == [status |-> "absent", of |-> None, days |-> 0]

\* Days used and pending are never negative: every release is clamped. An
\* extension is one of an existing request.
TypeOK ==
    /\ request \in [Request ->
           {noRequest} \cup [status : Active \cup Ended, owner : Employee, type : Type, days : Nat]]
    /\ balance \in [Account -> [granted : Int, used : Nat, pending : Nat]]
    /\ extension \in [Extension ->
           {noExtension} \cup [status : {"PENDING", "APPROVED", "REJECTED"}, of : Request, days : Nat]]
    /\ \A x \in Extension : extension[x] = noExtension \/ request[extension[x].of] # noRequest

\* A balance is created when it is first read, with what the policy grants then.
Init ==
    /\ request = [q \in Request |-> noRequest]
    /\ \E g \in [Account -> Grant] :
          balance = [a \in Account |-> [granted |-> g[a], used |-> 0, pending |-> 0]]
    /\ extension = [x \in Extension |-> noExtension]

active(q) == request[q].status \in Active
account(q) == <<request[q].owner, request[q].type>>

\* calculateRemaining: allocated, carried forward and accrued days are granted.
remaining(b) == b.granted - b.used - b.pending
\* Math.max(0, m - n).
less(m, n) == IF n > m THEN 0 ELSE m - n

---------------------------------------------------------------------------
(* leave.service.js. *)

\* Mutant: the days are not compared with the balance.
createLeaveRequest_unchecked(q, e, t, d) ==
    /\ request[q] = noRequest
    /\ ~ \E p \in Request : active(p) /\ request[p].owner = e
    /\ request' = [request EXCEPT ![q] = [status |-> "PENDING", owner |-> e, type |-> t, days |-> d]]
    /\ balance' = [balance EXCEPT ![<<e, t>>].pending = @ + d]
    /\ UNCHANGED extension

\* An employee with a waiting or approved request, whatever its dates, may only
\* ask for an extension of it.
createLeaveRequest(q, e, t, d) ==
    /\ request[q] = noRequest
    /\ ~ \E p \in Request : active(p) /\ request[p].owner = e
    /\ remaining(balance[<<e, t>>]) >= d
    /\ request' = [request EXCEPT ![q] = [status |-> "PENDING", owner |-> e, type |-> t, days |-> d]]
    /\ balance' = [balance EXCEPT ![<<e, t>>].pending = @ + d]
    /\ UNCHANGED extension

\* The status of q becomes s, from a status in from.
move(q, from, s) ==
    /\ request[q].status \in from
    /\ request' = [request EXCEPT ![q].status = s]
    /\ UNCHANGED extension

\* Mutant: the days stay pending.
approveLeaveRequest_twice(q) ==
    /\ move(q, {"PENDING"}, "APPROVED")
    /\ request[q].days = 0 \/ remaining(balance[account(q)]) >= 0
    /\ balance' = [balance EXCEPT ![account(q)].used = @ + request[q].days]

\* The check of the balance adds the days of the request on both sides, and passes
\* whatever remains when the request has none: undefined compares with nothing.
approveLeaveRequest(q) ==
    /\ move(q, {"PENDING"}, "APPROVED")
    /\ request[q].days = 0 \/ remaining(balance[account(q)]) >= 0
    /\ balance' = [balance EXCEPT
           ![account(q)].pending = less(@, request[q].days),
           ![account(q)].used = @ + request[q].days]

rejectLeaveRequest(q) ==
    /\ move(q, {"PENDING"}, "REJECTED")
    /\ balance' = [balance EXCEPT ![account(q)].pending = less(@, request[q].days)]

\* By its owner or by a superadmin with a profile of their own, e in both cases;
\* the days are released on the balance of e.
withdrawLeaveRequest(q, e) ==
    /\ move(q, {"PENDING"}, "WITHDRAWN")
    /\ balance' = [balance EXCEPT ![<<e, request[q].type>>].pending = less(@, request[q].days)]

\* Mutant: the days are released without the clamp.
cancelLeaveRequest_unclamped(q) ==
    /\ move(q, {"APPROVED"}, "CANCELLED")
    /\ balance' = [balance EXCEPT ![account(q)].used = @ - request[q].days]

cancelLeaveRequest(q) ==
    /\ move(q, {"APPROVED"}, "CANCELLED")
    /\ balance' = [balance EXCEPT ![account(q)].used = less(@, request[q].days)]

adjustBalance(a, g) ==
    /\ g # balance[a].granted
    /\ balance' = [balance EXCEPT ![a].granted = g]
    /\ UNCHANGED <<request, extension>>

\* Nothing is held until the extension is approved.
requestLeaveExtension(x, q, d) ==
    /\ extension[x] = noExtension
    /\ active(q)
    /\ ~ \E y \in Extension : extension[y].of = q /\ extension[y].status = "PENDING"
    /\ remaining(balance[account(q)]) >= d
    /\ extension' = [extension EXCEPT ![x] = [status |-> "PENDING", of |-> q, days |-> d]]
    /\ UNCHANGED <<request, balance>>

\* Of a request in any state, and an extension named by its id in any state too.
approveLeaveExtension(x) ==
    LET q == extension[x].of
        d == extension[x].days
    IN  /\ extension[x] # noExtension
        /\ remaining(balance[account(q)]) >= d
        /\ extension' = [extension EXCEPT ![x].status = "APPROVED"]
        /\ request' = [request EXCEPT ![q].days = @ + d]
        /\ balance' = IF request[q].status = "APPROVED"
                      THEN [balance EXCEPT ![account(q)].used = @ + d]
                      ELSE [balance EXCEPT ![account(q)].pending = @ + d]

rejectLeaveExtension(x) ==
    /\ extension[x] # noExtension
    /\ extension' = [extension EXCEPT ![x].status = "REJECTED"]
    /\ UNCHANGED <<request, balance>>

---------------------------------------------------------------------------
(* The portals. *)

\* createLeave of HR for a named employee, and of a manager: no check and no
\* booking; a request that names no duration has none.
portalCreates(q, e, t, d) ==
    /\ request[q] = noRequest
    /\ request' = [request EXCEPT ![q] = [status |-> "PENDING", owner |-> e, type |-> t, days |-> d]]
    /\ UNCHANGED <<balance, extension>>

\* updateStatus, by a manager or HOD: the fields of the request's body overwrite
\* those of the row, and no balance is written.
portalDecides(q, s, e, t, d) ==
    /\ request[q].status = "PENDING"
    /\ request' = [request EXCEPT ![q] = [status |-> s, owner |-> e, type |-> t, days |-> d]]
    /\ UNCHANGED <<balance, extension>>

Portal(q) ==
    \E e \in Employee, t \in Type, d \in Days \cup {0, request[q].days} :
        \/ portalCreates(q, e, t, d)
        \/ \E s \in {"APPROVED", "REJECTED"} : portalDecides(q, s, e, t, d)

Service(q) ==
    \/ \E e \in Employee, t \in Type, d \in Days : createLeaveRequest(q, e, t, d)
    \/ approveLeaveRequest(q)
    \/ rejectLeaveRequest(q)
    \/ \E e \in Employee : withdrawLeaveRequest(q, e)
    \/ cancelLeaveRequest(q)

Extend(x) ==
    \/ \E q \in Request, d \in Days : requestLeaveExtension(x, q, d)
    \/ approveLeaveExtension(x)
    \/ rejectLeaveExtension(x)

Next ==
    \/ \E q \in Request : Service(q) \/ Portal(q)
    \/ \E x \in Extension : Extend(x)
    \/ \E a \in Account, g \in Grant : adjustBalance(a, g)

Spec == Init /\ [][Next]_vars

---------------------------------------------------------------------------
(* Properties. *)

in(q, a, s) == request[q].status = s /\ account(q) = a

\* The n days account a has in status s are those of its only request in s.
booked(a, s, n) ==
    /\ \A q \in Request : in(q, a, s) => request[q].days = n
    /\ n = 0 \/ \E q \in Request : in(q, a, s)

\* The employee has at most one request that waits or is approved, and the
\* balances hold exactly its days, and none once it ended.
Agrees(e) ==
    /\ \A p, q \in Request :
          active(p) /\ active(q) /\ request[p].owner = e /\ request[q].owner = e => p = q
    /\ \A t \in Type :
          /\ booked(<<e, t>>, "PENDING", balance[<<e, t>>].pending)
          /\ booked(<<e, t>>, "APPROVED", balance[<<e, t>>].used)

\* A step that writes a request of e, or e's balance, without the other: a
\* portal's, a withdrawal by another employee, and an extension of a request
\* that ended.
PastTheBooks(e) ==
    \E q \in Request :
        \/ e \in {request[q].owner, request'[q].owner} /\ Portal(q)
        \/ \E f \in Employee \ {request[q].owner} :
              e \in {f, request[q].owner} /\ withdrawLeaveRequest(q, f)
        \/ \E x \in Extension :
              /\ extension[x].of = q /\ request[q].owner = e /\ ~ active(q)
              /\ approveLeaveExtension(x)

\* An employee's balances and requests agree, through approvals, rejections,
\* withdrawals, cancellations, adjustments and extensions (one approved twice
\* included), until a step goes past the books: those three are the only ones
\* leave.service.js and the portals get wrong.
BooksAreKept == [][\A e \in Employee : Agrees(e) => Agrees(e)' \/ PastTheBooks(e)]_vars

\* What remains is driven below zero, or further below, only by an adjustment or
\* by the approval of a request whose days were never held, a portal's: the
\* check approveLeaveRequest makes adds the days of the request on both sides.
OverdrawnByApproval ==
    [][\A a \in Account :
          \/ remaining(balance'[a]) >= 0
          \/ remaining(balance'[a]) >= remaining(balance[a])
          \/ balance'[a].granted < balance[a].granted
          \/ \E q \in Request :
                approveLeaveRequest(q) /\ account(q) = a /\ balance[a].pending < request[q].days]_vars
=============================================================================
