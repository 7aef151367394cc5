---------------------------- MODULE LeaveProofs ----------------------------
(* Proofs about Leave, for any employees, requests, extensions and types. *)
EXTENDS Leave, TLAPS

USE LeaveAssumption
USE DEF Active, Ended, Account, noRequest, noExtension

Row == [status : Active \cup Ended, owner : Employee, type : Type, days : Nat]

\* A request that is there has an account; Math.max(0, ...) is natural.
LEMMA Rows ==
    ASSUME TypeOK, NEW q \in Request, request[q].status # "absent"
    PROVE  /\ request[q] \in Row
           /\ account(q) \in Account
           /\ balance[account(q)] \in [granted : Int, used : Nat, pending : Nat]
<1>1. request[q] \in Row
  BY DEF TypeOK, Row
<1> QED BY <1>1 DEF TypeOK, Row, account

LEMMA Less ==
    ASSUME NEW m \in Nat, NEW n \in Nat
    PROVE  /\ less(m, n) \in Nat
           /\ m >= n => less(m, n) = m - n
BY DEF less

\* What a move between statuses does to the rows.
Moved(q, s) ==
    /\ request[q] \in Row
    /\ request' = [request EXCEPT ![q] = [request[q] EXCEPT !.status = s]]
    /\ request'[q] \in Row
    /\ request'[q] = [request[q] EXCEPT !.status = s]
    /\ \A p \in Request : p # q => request'[p] = request[p]

LEMMA Moves ==
    ASSUME TypeOK, NEW q \in Request, NEW from \in SUBSET Active, NEW s \in Active \cup Ended,
           move(q, from, s)
    PROVE  Moved(q, s)
<1>1. request[q] \in Row
  BY Rows DEF move
<1> QED BY <1>1 DEF move, Row, TypeOK, Moved

(***************************************************************************)
(* Types.                                                                  *)
(***************************************************************************)

\* A move between statuses, with a balance of the right type, keeps the types.
LEMMA MoveTypes ==
    ASSUME TypeOK, NEW q \in Request, NEW from \in SUBSET Active, NEW s \in Active \cup Ended,
           move(q, from, s),
           NEW a \in Account, NEW b \in [granted : Int, used : Nat, pending : Nat],
           balance' = [balance EXCEPT ![a] = b]
    PROVE  TypeOK'
<1>0. Moved(q, s)
  BY Moves
<1>1. request'[q] \in Row
  BY <1>0 DEF Moved
<1>2. request'[q] # noRequest
  BY <1>1 DEF Row
<1>3. request' = [request EXCEPT ![q] = request'[q]]
  BY <1>0 DEF Moved
<1> QED BY <1>1, <1>2, <1>3 DEF TypeOK, Row, move

LEMMA ServiceTypes ==
    ASSUME TypeOK, NEW q \in Request, Service(q)
    PROVE  TypeOK'
<1>1. ASSUME NEW e \in Employee, NEW t \in Type, NEW d \in Days, createLeaveRequest(q, e, t, d)
      PROVE  TypeOK'
  BY <1>1 DEF createLeaveRequest, TypeOK
<1> DEFINE a == account(q)
           b == balance[a]
           n == request[q].days
<1>2. CASE approveLeaveRequest(q)
  <2>1. move(q, {"PENDING"}, "APPROVED")  BY <1>2 DEF approveLeaveRequest
  <2>2. a \in Account /\ n \in Nat /\ b \in [granted : Int, used : Nat, pending : Nat]
    BY <2>1, Rows DEF move, Row
  <2>3. less(b.pending, n) \in Nat
    BY <2>2, Less
  <2> DEFINE c == [granted |-> b.granted, used |-> b.used + n, pending |-> less(b.pending, n)]
  <2>4. c \in [granted : Int, used : Nat, pending : Nat]
    BY <2>2, <2>3
  <2>5. balance' = [balance EXCEPT ![a] = c]
    <3>1. balance \in [Account -> [granted : Int, used : Nat, pending : Nat]]
      BY DEF TypeOK
    <3>2. balance' = [balance EXCEPT ![a].pending = less(@, n), ![a].used = @ + n]
      BY <1>2 DEF approveLeaveRequest
    <3> HIDE DEF a, n
    <3>3. balance'[a] = c /\ \A o \in Account : o # a => balance'[o] = balance[o]
      BY <2>2, <3>1, <3>2
    <3> QED BY <2>2, <3>1, <3>2, <3>3
  <2> HIDE DEF a, b, n, c
  <2> QED BY <2>1, <2>2, <2>4, <2>5, MoveTypes
<1>3. CASE rejectLeaveRequest(q)
  <2>1. move(q, {"PENDING"}, "REJECTED")  BY <1>3 DEF rejectLeaveRequest
  <2>2. a \in Account /\ n \in Nat /\ b \in [granted : Int, used : Nat, pending : Nat]
    BY <2>1, Rows DEF move, Row
  <2>3. [b EXCEPT !.pending = less(@, n)] \in [granted : Int, used : Nat, pending : Nat]
    BY <2>2, Less
  <2>4. balance' = [balance EXCEPT ![a] = [b EXCEPT !.pending = less(@, n)]]
    BY <1>3 DEF rejectLeaveRequest
  <2> HIDE DEF a, b, n
  <2> QED BY <2>1, <2>2, <2>3, <2>4, MoveTypes
<1>4. ASSUME NEW e \in Employee, withdrawLeaveRequest(q, e)
      PROVE  TypeOK'
  <2> DEFINE c == <<e, request[q].type>>
  <2>1. move(q, {"PENDING"}, "WITHDRAWN")  BY <1>4 DEF withdrawLeaveRequest
  <2>2. c \in Account /\ n \in Nat /\ balance[c] \in [granted : Int, used : Nat, pending : Nat]
    BY <2>1, Rows DEF move, Row, TypeOK
  <2>3. [balance[c] EXCEPT !.pending = less(@, n)] \in [granted : Int, used : Nat, pending : Nat]
    BY <2>2, Less
  <2>4. balance' = [balance EXCEPT ![c] = [balance[c] EXCEPT !.pending = less(@, n)]]
    BY <1>4 DEF withdrawLeaveRequest
  <2> HIDE DEF c, n
  <2> QED BY <2>1, <2>2, <2>3, <2>4, MoveTypes
<1>5. CASE cancelLeaveRequest(q)
  <2>1. move(q, {"APPROVED"}, "CANCELLED")  BY <1>5 DEF cancelLeaveRequest
  <2>2. a \in Account /\ n \in Nat /\ b \in [granted : Int, used : Nat, pending : Nat]
    BY <2>1, Rows DEF move, Row
  <2>3. [b EXCEPT !.used = less(@, n)] \in [granted : Int, used : Nat, pending : Nat]
    BY <2>2, Less
  <2>4. balance' = [balance EXCEPT ![a] = [b EXCEPT !.used = less(@, n)]]
    BY <1>5 DEF cancelLeaveRequest
  <2> HIDE DEF a, b, n
  <2> QED BY <2>1, <2>2, <2>3, <2>4, MoveTypes
<1> QED BY <1>1, <1>2, <1>3, <1>4, <1>5 DEF Service

LEMMA PortalTypes ==
    ASSUME TypeOK, NEW q \in Request, Portal(q)
    PROVE  TypeOK'
<1> USE DEF TypeOK
<1> PICK e \in Employee, t \in Type, d \in Days \cup {0, request[q].days} :
        \/ portalCreates(q, e, t, d)
        \/ \E s \in {"APPROVED", "REJECTED"} : portalDecides(q, s, e, t, d)
  BY DEF Portal
<1>1. d \in Nat
  BY DEF Row
<1> QED BY <1>1 DEF portalCreates, portalDecides

LEMMA ExtendTypes ==
    ASSUME TypeOK, NEW x \in Extension, Extend(x)
    PROVE  TypeOK'
<1> USE DEF TypeOK
<1>1. ASSUME NEW q \in Request, NEW d \in Days, requestLeaveExtension(x, q, d)
      PROVE  TypeOK'
  BY <1>1 DEF requestLeaveExtension, active
<1>2. CASE approveLeaveExtension(x)
  BY <1>2, Rows DEF approveLeaveExtension, Row
<1>3. CASE rejectLeaveExtension(x)
  BY <1>3 DEF rejectLeaveExtension
<1> QED BY <1>1, <1>2, <1>3 DEF Extend

LEMMA StepTypes ==
    ASSUME TypeOK, [Next]_vars
    PROVE  TypeOK'
<1>1. ASSUME NEW a \in Account, NEW g \in Grant, adjustBalance(a, g)
      PROVE  TypeOK'
  BY <1>1 DEF adjustBalance, TypeOK
<1>2. CASE UNCHANGED vars
  BY <1>2 DEF vars, TypeOK
<1> QED BY <1>1, <1>2, ServiceTypes, PortalTypes, ExtendTypes DEF Next

\* Days used and pending stay natural numbers whatever is released, and every
\* extension is one of an existing request.
THEOREM TypeCorrect == Spec => []TypeOK
<1>1. ASSUME Init  PROVE TypeOK
  <2> PICK g \in [Account -> Grant] :
         balance = [a \in Account |-> [granted |-> g[a], used |-> 0, pending |-> 0]]
    BY <1>1 DEF Init
  <2> QED BY <1>1 DEF Init, TypeOK
<1>2. TypeOK /\ [Next]_vars => TypeOK'
  BY StepTypes
<1> QED BY <1>1, <1>2, PTL DEF Spec

(***************************************************************************)
(* The books.                                                              *)
(***************************************************************************)

\* Rows of others do not matter.
LEMMA Untouched ==
    ASSUME TypeOK, NEW e \in Employee, Agrees(e),
           \A q \in Request : request[q].owner = e \/ request'[q].owner = e => request'[q] = request[q],
           \A t \in Type : /\ balance'[<<e, t>>].pending = balance[<<e, t>>].pending
                          /\ balance'[<<e, t>>].used = balance[<<e, t>>].used
    PROVE  Agrees(e)'
<1>1. ASSUME NEW t \in Type, NEW q \in Request, NEW s
      PROVE  in(q, <<e, t>>, s)' <=> in(q, <<e, t>>, s)
  BY DEF in, account
<1>2. \A q \in Request : \A t \in Type, s \in Active : in(q, <<e, t>>, s) => request'[q] = request[q]
  BY DEF in, account
<1>3. ASSUME NEW t \in Type, NEW s \in Active, NEW n, booked(<<e, t>>, s, n)
      PROVE  booked(<<e, t>>, s, n)'
  BY <1>1, <1>2, <1>3 DEF booked
<1>4. \A t \in Type : /\ booked(<<e, t>>, "PENDING", balance[<<e, t>>].pending)'
                     /\ booked(<<e, t>>, "APPROVED", balance[<<e, t>>].used)'
  <2> TAKE t \in Type
  <2>1. /\ booked(<<e, t>>, "PENDING", balance[<<e, t>>].pending)
        /\ booked(<<e, t>>, "APPROVED", balance[<<e, t>>].used)
    BY DEF Agrees
  <2> QED BY <2>1, <1>1, <1>2 DEF booked
<1> QED BY <1>4 DEF Agrees, active

\* Days one account of e holds in status s.
held(q, e, t, s) == IF in(q, <<e, t>>, s) THEN request[q].days ELSE 0

\* With one active request q, the balances of e hold what q does.
LEMMA OneHeld ==
    ASSUME TypeOK, NEW e \in Employee, Agrees(e),
           NEW q \in Request, active(q), request[q].owner = e
    PROVE  /\ \A p \in Request : p # q => ~ (active(p) /\ request[p].owner = e)
           /\ \A t \in Type : /\ balance[<<e, t>>].pending = held(q, e, t, "PENDING")
                             /\ balance[<<e, t>>].used = held(q, e, t, "APPROVED")
<1>1. \A p \in Request : p # q => ~ (active(p) /\ request[p].owner = e)
  BY DEF Agrees
<1>2. \A p \in Request : \A t \in Type, s \in Active : in(p, <<e, t>>, s) => p = q
  BY <1>1 DEF in, account, active
<1>3. ASSUME NEW t \in Type
      PROVE  /\ balance[<<e, t>>].pending = held(q, e, t, "PENDING")
             /\ balance[<<e, t>>].used = held(q, e, t, "APPROVED")
  <2>1. /\ booked(<<e, t>>, "PENDING", balance[<<e, t>>].pending)
        /\ booked(<<e, t>>, "APPROVED", balance[<<e, t>>].used)
    BY DEF Agrees
  <2> QED BY <2>1, <1>2 DEF booked, held
<1> QED BY <1>1, <1>3

\* Balances that hold what q does after a step, q being the only request of e
\* that can be active then, agree.
LEMMA HeldAgrees ==
    ASSUME NEW e \in Employee, NEW q \in Request,
           \A p \in Request : p # q => ~ (active(p) /\ request[p].owner = e)',
           \A t \in Type : /\ balance'[<<e, t>>].pending = held(q, e, t, "PENDING")'
                          /\ balance'[<<e, t>>].used = held(q, e, t, "APPROVED")'
    PROVE  Agrees(e)'
<1>1. \A p \in Request : \A t \in Type, s \in Active : in(p, <<e, t>>, s)' => p = q
  BY DEF in, account, active
<1>2. ASSUME NEW t \in Type, NEW s \in Active
      PROVE  booked(<<e, t>>, s, held(q, e, t, s))'
  BY <1>1 DEF booked, held
<1>3. \A t \in Type : /\ booked(<<e, t>>, "PENDING", balance[<<e, t>>].pending)'
                     /\ booked(<<e, t>>, "APPROVED", balance[<<e, t>>].used)'
  BY <1>2 DEF booked
<1> QED BY <1>3 DEF Agrees

\* A decision on request q of e whose account then has n days used and no day
\* pending, n being what q holds.
LEMMA MoveAgrees ==
    ASSUME TypeOK, NEW e \in Employee, Agrees(e), NEW q \in Request, request[q].owner = e,
           NEW from \in SUBSET Active, NEW s \in Active \cup Ended, move(q, from, s), s # "PENDING",
           \A t \in Type : <<e, t>> # account(q) => balance'[<<e, t>>] = balance[<<e, t>>],
           balance'[account(q)].pending = 0,
           balance'[account(q)].used = IF s = "APPROVED" THEN request[q].days ELSE 0
    PROVE  Agrees(e)'
<1>1. active(q)
  BY DEF move, active
<1>2. /\ request[q] \in Row /\ request'[q] = [request[q] EXCEPT !.status = s]
      /\ \A p \in Request : p # q => request'[p] = request[p]
  <2>1. Moved(q, s)
    BY Moves
  <2> QED BY <2>1 DEF Moved
<1>3. account(q)' = account(q) /\ account(q) = <<e, request[q].type>> /\ request[q].type \in Type
  BY <1>2 DEF account, Row
<1>4. \A p \in Request : p # q => ~ (active(p) /\ request[p].owner = e)'
  BY <1>1, <1>2, OneHeld DEF active
<1>5. ASSUME NEW t \in Type
      PROVE  /\ balance'[<<e, t>>].pending = held(q, e, t, "PENDING")'
             /\ balance'[<<e, t>>].used = held(q, e, t, "APPROVED")'
  <2>1. CASE <<e, t>> = account(q)
    BY <2>1, <1>2, <1>3 DEF held, in, Row
  <2>2. CASE <<e, t>> # account(q)
    <3>1. balance[<<e, t>>].pending = 0 /\ balance[<<e, t>>].used = 0
      BY <2>2, <1>1, OneHeld DEF held, in
    <3> QED BY <2>2, <3>1, <1>3 DEF held, in
  <2> QED BY <2>1, <2>2
<1> QED BY <1>4, <1>5, HeldAgrees

\* A decision on the request of another employee.
LEMMA MoveOther ==
    ASSUME TypeOK, NEW e \in Employee, Agrees(e), NEW q \in Request, request[q].owner # e,
           NEW from \in SUBSET Active, NEW s \in Active \cup Ended, move(q, from, s),
           \A t \in Type : balance'[<<e, t>>] = balance[<<e, t>>]
    PROVE  Agrees(e)'
<1>1. /\ request[q] \in Row /\ request'[q] = [request[q] EXCEPT !.status = s]
      /\ \A p \in Request : p # q => request'[p] = request[p]
  <2>1. Moved(q, s)
    BY Moves
  <2> QED BY <2>1 DEF Moved
<1>2. request'[q].owner = request[q].owner
  BY <1>1 DEF Row
<1> QED BY <1>1, <1>2, Untouched

\* What a request that waits, or an approved one, holds.
LEMMA Holds ==
    ASSUME TypeOK, NEW e \in Employee, Agrees(e), NEW q \in Request, active(q), request[q].owner = e
    PROVE  /\ request[q].status = "PENDING" =>
                balance[account(q)].pending = request[q].days /\ balance[account(q)].used = 0
           /\ request[q].status = "APPROVED" =>
                balance[account(q)].used = request[q].days /\ balance[account(q)].pending = 0
<1>1. request[q] \in Row /\ account(q) = <<e, request[q].type>>
  BY Rows DEF active, account
<1>2. request[q].type \in Type
  BY <1>1 DEF Row
<1> QED BY <1>1, <1>2, OneHeld DEF held, in

LEMMA ServiceAgrees ==
    ASSUME TypeOK, NEW e \in Employee, Agrees(e), NEW q \in Request, Service(q), ~ PastTheBooks(e)
    PROVE  Agrees(e)'
<1> DEFINE a == account(q)
<1>0. request[q].status # "absent" =>
         /\ request[q].days \in Nat /\ request[q].owner \in Employee
         /\ a \in Account /\ a = <<request[q].owner, request[q].type>>
         /\ less(request[q].days, request[q].days) = 0
  <2>1. request[q].status # "absent" => request[q] \in Row /\ a \in Account
    BY Rows
  <2>2. request[q].status # "absent" => request[q].days \in Nat
    BY <2>1 DEF Row
  <2>3. request[q].status # "absent" => less(request[q].days, request[q].days) = 0
    BY <2>2 DEF less
  <2> QED BY <2>1, <2>2, <2>3 DEF Row, account
<1>1. ASSUME NEW f \in Employee, NEW t \in Type, NEW d \in Days, createLeaveRequest(q, f, t, d)
      PROVE  Agrees(e)'
  <2>1. CASE f # e
    <3>1. \A u \in Type : balance'[<<e, u>>] = balance[<<e, u>>]
      BY <1>1, <2>1 DEF createLeaveRequest, TypeOK
    <3>2. \A p \in Request : request[p].owner = e \/ request'[p].owner = e => request'[p] = request[p]
      BY <1>1, <2>1 DEF createLeaveRequest, TypeOK
    <3> QED BY <3>1, <3>2, Untouched
  <2>2. CASE f = e
    <3>1. \A u \in Type : balance[<<e, u>>].pending = 0 /\ balance[<<e, u>>].used = 0
      BY <1>1, <2>2 DEF createLeaveRequest, Agrees, booked, in, account, active
    <3>2. \A p \in Request : p # q => ~ (active(p) /\ request[p].owner = e)'
      BY <1>1, <2>2 DEF createLeaveRequest, active, TypeOK
    <3>3. request'[q] = [status |-> "PENDING", owner |-> e, type |-> t, days |-> d]
      BY <1>1, <2>2 DEF createLeaveRequest, TypeOK
    <3>4. \A u \in Type : /\ balance'[<<e, u>>].used = 0
                         /\ balance'[<<e, u>>].pending = IF u = t THEN d ELSE 0
      BY <1>1, <2>2, <3>1 DEF createLeaveRequest, TypeOK
    <3>5. \A u \in Type : /\ balance'[<<e, u>>].pending = held(q, e, u, "PENDING")'
                         /\ balance'[<<e, u>>].used = held(q, e, u, "APPROVED")'
      BY <3>3, <3>4 DEF held, in, account
    <3> QED BY <3>2, <3>5, HeldAgrees
  <2> QED BY <2>1, <2>2
<1>2. CASE approveLeaveRequest(q)
  <2>1. move(q, {"PENDING"}, "APPROVED") /\ active(q) /\ request[q].status = "PENDING"
    BY <1>2 DEF approveLeaveRequest, move, active
  <2>2. CASE request[q].owner = e
    <3>1. balance[a].pending = request[q].days /\ balance[a].used = 0
      BY <2>1, <2>2, Holds
    <3>2. balance'[a].pending = 0 /\ balance'[a].used = request[q].days
      BY <1>2, <1>0, <2>1, <3>1 DEF approveLeaveRequest, TypeOK
    <3>3. \A t \in Type : <<e, t>> # a => balance'[<<e, t>>] = balance[<<e, t>>]
      BY <1>2, <2>1 DEF approveLeaveRequest, TypeOK
    <3> QED BY <2>1, <2>2, <3>2, <3>3, MoveAgrees
  <2>3. CASE request[q].owner # e
    <3>1. \A t \in Type : balance'[<<e, t>>] = balance[<<e, t>>]
      BY <1>2, <1>0, <2>1, <2>3 DEF approveLeaveRequest, TypeOK
    <3> QED BY <2>1, <2>3, <3>1, MoveOther
  <2> QED BY <2>2, <2>3
<1>3. CASE rejectLeaveRequest(q)
  <2>1. move(q, {"PENDING"}, "REJECTED") /\ active(q) /\ request[q].status = "PENDING"
    BY <1>3 DEF rejectLeaveRequest, move, active
  <2>2. CASE request[q].owner = e
    <3>1. balance[a].pending = request[q].days /\ balance[a].used = 0
      BY <2>1, <2>2, Holds
    <3>2. balance'[a].pending = 0 /\ balance'[a].used = 0
      BY <1>3, <1>0, <2>1, <3>1 DEF rejectLeaveRequest, TypeOK
    <3>3. \A t \in Type : <<e, t>> # a => balance'[<<e, t>>] = balance[<<e, t>>]
      BY <1>3, <2>1 DEF rejectLeaveRequest, TypeOK
    <3> QED BY <2>1, <2>2, <3>2, <3>3, MoveAgrees
  <2>3. CASE request[q].owner # e
    <3>1. \A t \in Type : balance'[<<e, t>>] = balance[<<e, t>>]
      BY <1>3, <1>0, <2>1, <2>3 DEF rejectLeaveRequest, TypeOK
    <3> QED BY <2>1, <2>3, <3>1, MoveOther
  <2> QED BY <2>2, <2>3
<1>4. ASSUME NEW f \in Employee, withdrawLeaveRequest(q, f)
      PROVE  Agrees(e)'
  <2>1. move(q, {"PENDING"}, "WITHDRAWN") /\ active(q) /\ request[q].status = "PENDING"
    BY <1>4 DEF withdrawLeaveRequest, move, active
  <2>2. f # request[q].owner => e # f /\ e # request[q].owner
    BY <1>4 DEF PastTheBooks
  <2>3. CASE request[q].owner = e
    <3>1. balance[a].pending = request[q].days /\ balance[a].used = 0
      BY <2>1, <2>3, Holds
    <3>2. <<f, request[q].type>> = a
      BY <2>3, <2>2 DEF account
    <3>3. balance' = [balance EXCEPT ![a].pending = less(@, request[q].days)]
      BY <1>4, <3>2 DEF withdrawLeaveRequest
    <3>4. balance'[a].pending = 0 /\ balance'[a].used = 0
      BY <1>0, <2>1, <3>1, <3>3 DEF TypeOK
    <3>5. \A t \in Type : <<e, t>> # a => balance'[<<e, t>>] = balance[<<e, t>>]
      BY <1>4, <2>1, <3>2 DEF withdrawLeaveRequest, TypeOK
    <3> QED BY <2>1, <2>3, <3>4, <3>5, MoveAgrees
  <2>4. CASE request[q].owner # e
    <3>1. e # f
      BY <2>4, <2>2
    <3>2. \A t \in Type : balance'[<<e, t>>] = balance[<<e, t>>]
      BY <1>4, <2>1, <3>1 DEF withdrawLeaveRequest, TypeOK
    <3> QED BY <2>1, <2>4, <3>2, MoveOther
  <2> QED BY <2>3, <2>4
<1>5. CASE cancelLeaveRequest(q)
  <2>1. move(q, {"APPROVED"}, "CANCELLED") /\ active(q) /\ request[q].status = "APPROVED"
    BY <1>5 DEF cancelLeaveRequest, move, active
  <2>2. CASE request[q].owner = e
    <3>1. balance[a].used = request[q].days /\ balance[a].pending = 0
      BY <2>1, <2>2, Holds
    <3>2. balance'[a].pending = 0 /\ balance'[a].used = 0
      BY <1>5, <1>0, <2>1, <3>1 DEF cancelLeaveRequest, TypeOK
    <3>3. \A t \in Type : <<e, t>> # a => balance'[<<e, t>>] = balance[<<e, t>>]
      BY <1>5, <2>1 DEF cancelLeaveRequest, TypeOK
    <3> QED BY <2>1, <2>2, <3>2, <3>3, MoveAgrees
  <2>3. CASE request[q].owner # e
    <3>1. \A t \in Type : balance'[<<e, t>>] = balance[<<e, t>>]
      BY <1>5, <1>0, <2>1, <2>3 DEF cancelLeaveRequest, TypeOK
    <3> QED BY <2>1, <2>3, <3>1, MoveOther
  <2> QED BY <2>2, <2>3
<1> QED BY <1>1, <1>2, <1>3, <1>4, <1>5 DEF Service

LEMMA PortalAgrees ==
    ASSUME TypeOK, NEW e \in Employee, Agrees(e), NEW q \in Request, Portal(q), ~ PastTheBooks(e)
    PROVE  Agrees(e)'
<1>1. request[q].owner # e /\ request'[q].owner # e
  BY DEF PastTheBooks
<1>2. UNCHANGED balance /\ \A p \in Request : p # q => request'[p] = request[p]
  BY DEF Portal, portalCreates, portalDecides, TypeOK
<1> QED BY <1>1, <1>2, Untouched

LEMMA ExtendAgrees ==
    ASSUME TypeOK, NEW e \in Employee, Agrees(e), NEW x \in Extension, Extend(x), ~ PastTheBooks(e)
    PROVE  Agrees(e)'
<1>1. CASE UNCHANGED <<request, balance>>
  BY <1>1, Untouched
<1>2. CASE approveLeaveExtension(x)
  <2> PICK q \in Request, d \in Nat : q = extension[x].of /\ d = extension[x].days
    BY <1>2 DEF approveLeaveExtension, TypeOK
  <2> DEFINE a == account(q)
  <2>1. request[q].status # "absent"
    BY <1>2 DEF approveLeaveExtension, TypeOK
  <2>2. request[q] \in Row /\ a \in Account /\ a = <<request[q].owner, request[q].type>>
    BY <2>1, Rows DEF account
  <2>3. /\ request'[q] = [request[q] EXCEPT !.days = @ + d]
        /\ \A p \in Request : p # q => request'[p] = request[p]
        /\ balance' = IF request[q].status = "APPROVED"
                      THEN [balance EXCEPT ![a].used = @ + d]
                      ELSE [balance EXCEPT ![a].pending = @ + d]
    BY <1>2, <2>1 DEF approveLeaveExtension, TypeOK
  <2>4. /\ request'[q].owner = request[q].owner /\ request'[q].status = request[q].status
        /\ request'[q].type = request[q].type /\ request'[q].days = request[q].days + d
    BY <2>2, <2>3 DEF Row
  <2>5. CASE request[q].owner # e
    <3>1. \A t \in Type : balance'[<<e, t>>] = balance[<<e, t>>]
      BY <2>2, <2>3, <2>5 DEF TypeOK
    <3> QED BY <2>3, <2>4, <2>5, <3>1, Untouched
  <2>6. CASE request[q].owner = e
    <3>1. active(q)
      BY <1>2, <2>1, <2>6 DEF PastTheBooks
    <3>2. \A p \in Request : p # q => ~ (active(p) /\ request[p].owner = e)'
      BY <2>1, <2>3, <2>6, <3>1, OneHeld DEF active
    <3>3. ASSUME NEW t \in Type
          PROVE  /\ balance'[<<e, t>>].pending = held(q, e, t, "PENDING")'
                 /\ balance'[<<e, t>>].used = held(q, e, t, "APPROVED")'
      <4>1. /\ balance[<<e, t>>].pending = held(q, e, t, "PENDING")
            /\ balance[<<e, t>>].used = held(q, e, t, "APPROVED")
        BY <2>1, <2>6, <3>1, OneHeld
      <4>2. CASE <<e, t>> = a
        <5>1. /\ balance[a] \in [granted : Int, used : Nat, pending : Nat]
              /\ balance \in [Account -> [granted : Int, used : Nat, pending : Nat]]
          BY <2>2 DEF TypeOK
        <5>2. CASE request[q].status = "APPROVED"
          <6>1. balance'[a].pending = balance[a].pending /\ balance'[a].used = balance[a].used + d
            BY <2>2, <2>3, <5>1, <5>2
          <6> QED BY <6>1, <4>1, <4>2, <2>4, <5>2 DEF held, in, account
        <5>3. CASE request[q].status = "PENDING"
          <6>1. balance'[a].used = balance[a].used /\ balance'[a].pending = balance[a].pending + d
            BY <2>2, <2>3, <5>1, <5>3
          <6> QED BY <6>1, <4>1, <4>2, <2>4, <5>3 DEF held, in, account
        <5> QED BY <3>1, <5>2, <5>3 DEF active
      <4>3. CASE <<e, t>> # a
        <5>1. balance'[<<e, t>>] = balance[<<e, t>>]
          BY <2>2, <2>3, <4>3 DEF TypeOK
        <5> QED BY <5>1, <4>1, <4>3, <2>4 DEF held, in, account
      <4> QED BY <4>2, <4>3
    <3> QED BY <2>1, <3>2, <3>3, HeldAgrees
  <2> QED BY <2>5, <2>6
<1> QED BY <1>1, <1>2 DEF Extend, requestLeaveExtension, rejectLeaveExtension

\* An employee's requests and balances agree until a portal, another employee's
\* withdrawal or an extension of an ended request writes one without the other.
THEOREM BooksKept == Spec => BooksAreKept
<1>1. ASSUME TypeOK, [Next]_vars, NEW e \in Employee, Agrees(e), ~ PastTheBooks(e)
      PROVE  Agrees(e)'
  <2>1. ASSUME NEW a \in Account, NEW g \in Grant, adjustBalance(a, g)
        PROVE  Agrees(e)'
    <3>1. request' = request /\ \A t \in Type : /\ balance'[<<e, t>>].pending = balance[<<e, t>>].pending
                                               /\ balance'[<<e, t>>].used = balance[<<e, t>>].used
      BY <2>1 DEF adjustBalance, TypeOK
    <3> QED BY <1>1, <3>1, Untouched
  <2>2. CASE UNCHANGED vars
    BY <1>1, <2>2, Untouched DEF vars
  <2> QED BY <1>1, <2>1, <2>2, ServiceAgrees, PortalAgrees, ExtendAgrees DEF Next
<1>2. TypeOK /\ [Next]_vars
        => [\A e \in Employee : Agrees(e) => Agrees(e)' \/ PastTheBooks(e)]_vars
  BY <1>1
<1> QED BY <1>2, TypeCorrect, PTL DEF Spec, BooksAreKept

(***************************************************************************)
(* Overdrawn balances.                                                     *)
(***************************************************************************)

\* Only adjusting a balance, and approving what it does not hold, overdraw it.
THEOREM OverdrawnOnlyByApproval == Spec => OverdrawnByApproval
<1> DEFINE Fine(a) == \/ remaining(balance'[a]) >= 0
                      \/ remaining(balance'[a]) >= remaining(balance[a])
                      \/ balance'[a].granted < balance[a].granted
                      \/ \E q \in Request :
                            approveLeaveRequest(q) /\ account(q) = a /\ balance[a].pending < request[q].days
<1>1. ASSUME TypeOK, [Next]_vars, NEW a \in Account  PROVE Fine(a)
  <2>0. /\ balance \in [Account -> [granted : Int, used : Nat, pending : Nat]]
        /\ balance[a].granted \in Int /\ balance[a].used \in Nat /\ balance[a].pending \in Nat
    BY <1>1 DEF TypeOK
  <2>1. CASE balance'[a] = balance[a]
    BY <2>0, <2>1 DEF remaining
  <2>2. ASSUME NEW q \in Request, Service(q)  PROVE Fine(a)
    <3>1. ASSUME NEW e \in Employee, NEW t \in Type, NEW d \in Days, createLeaveRequest(q, e, t, d)
          PROVE  Fine(a)
      BY <2>0, <2>1, <3>1 DEF createLeaveRequest, remaining
    <3>2. CASE approveLeaveRequest(q)
      <4>1. request[q].days \in Nat
        BY <1>1, <3>2, Rows DEF approveLeaveRequest, move, Row
      <4>2. CASE account(q) = a /\ balance[a].pending >= request[q].days
        BY <2>0, <3>2, <4>1, <4>2, Less DEF approveLeaveRequest, remaining
      <4>3. CASE account(q) # a
        BY <2>0, <2>1, <3>2, <4>3 DEF approveLeaveRequest
      <4> QED BY <2>0, <3>2, <4>1, <4>2, <4>3
    <3>3. ASSUME NEW c \in Account, move(q, {"PENDING"}, "REJECTED") \/ move(q, {"PENDING"}, "WITHDRAWN"),
                 balance' = [balance EXCEPT ![c].pending = less(@, request[q].days)]
          PROVE  Fine(a)
      <4>1. request[q].days \in Nat
        BY <1>1, <3>3, Rows DEF move, Row
      <4>2. less(balance[a].pending, request[q].days) <= balance[a].pending
            /\ less(balance[a].pending, request[q].days) \in Nat
        BY <2>0, <4>1 DEF less
      <4> QED BY <2>0, <2>1, <3>3, <4>2 DEF remaining
    <3>4. CASE cancelLeaveRequest(q)
      <4>1. request[q].days \in Nat
        BY <1>1, <3>4, Rows DEF cancelLeaveRequest, move, Row
      <4>2. less(balance[a].used, request[q].days) <= balance[a].used
            /\ less(balance[a].used, request[q].days) \in Nat
        BY <2>0, <4>1 DEF less
      <4> QED BY <2>0, <2>1, <3>4, <4>2 DEF cancelLeaveRequest, remaining
    <3>5. request[q].status # "absent" => account(q) \in Account /\ request[q].type \in Type
      BY <1>1, Rows DEF Row
    <3>6. CASE rejectLeaveRequest(q)
      BY <3>3, <3>5, <3>6 DEF rejectLeaveRequest, move
    <3>7. ASSUME NEW e \in Employee, withdrawLeaveRequest(q, e)  PROVE Fine(a)
      <4> DEFINE c == <<e, request[q].type>>
      <4>1. c \in Account
        BY <3>5, <3>7 DEF withdrawLeaveRequest, move
      <4>2. /\ move(q, {"PENDING"}, "WITHDRAWN")
            /\ balance' = [balance EXCEPT ![c].pending = less(@, request[q].days)]
        BY <3>7 DEF withdrawLeaveRequest
      <4> HIDE DEF c, Fine
      <4> QED BY <3>3, <4>1, <4>2
    <3> HIDE DEF Fine
    <3> QED BY <2>2, <3>1, <3>2, <3>4, <3>6, <3>7 DEF Service
  <2>3. ASSUME NEW x \in Extension, approveLeaveExtension(x)  PROVE Fine(a)
    <3>1. extension[x].days \in Nat
      BY <1>1, <2>3 DEF approveLeaveExtension, TypeOK
    <3>2. CASE account(extension[x].of) = a
      BY <2>0, <2>3, <3>1, <3>2 DEF approveLeaveExtension, remaining
    <3>3. CASE account(extension[x].of) # a
      BY <2>0, <2>1, <2>3, <3>3 DEF approveLeaveExtension
    <3> QED BY <3>2, <3>3
  <2>4. ASSUME NEW c \in Account, NEW g \in Grant, adjustBalance(c, g)  PROVE Fine(a)
    BY <2>0, <2>1, <2>4 DEF adjustBalance, remaining
  <2>5. ASSUME NEW q \in Request, Portal(q)  PROVE Fine(a)
    BY <2>1, <2>5 DEF Portal, portalCreates, portalDecides
  <2>6. ASSUME NEW x \in Extension, Extend(x), ~ approveLeaveExtension(x)  PROVE Fine(a)
    BY <2>1, <2>6 DEF Extend, requestLeaveExtension, rejectLeaveExtension
  <2> QED BY <1>1, <2>1, <2>2, <2>3, <2>4, <2>5, <2>6 DEF Next, vars
<1> HIDE DEF Fine
<1>2. TypeOK /\ [Next]_vars => [\A a \in Account : Fine(a)]_vars
  BY <1>1
<1> USE DEF Fine
<1> QED BY <1>2, TypeCorrect, PTL DEF Spec, OverdrawnByApproval
=============================================================================
