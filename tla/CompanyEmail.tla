---------------------------- MODULE CompanyEmail ----------------------------
(***************************************************************************)
(* Requests for a company e-mail address and the mailboxes made of them    *)
(* (secretary/service.js). A mailbox is found by the request it came from. *)
(* The domains allowed, the reserved names and the login addresses are     *)
(* left out: they do not change with these handlers.                       *)
(***************************************************************************)
EXTENDS Naturals

CONSTANTS Request, Employee, Address, Unset

CompanyEmailConstants == Unset \notin Address

VARIABLES
    emailRequest,  \* rows of email_requests
    mailbox,       \* rows of company_email_accounts
    companyEmail   \* the address on the employee's row

vars == <<emailRequest, mailbox, companyEmail>>

EmailStatus == {"PENDING", "UNDER_REVIEW", "APPROVED", "REJECTED", "CREATING", "CREATED", "FAILED", "CANCELLED"}

EmailTransitions ==
    [PENDING |-> {"UNDER_REVIEW", "CANCELLED"},
     UNDER_REVIEW |-> {"APPROVED", "REJECTED", "CANCELLED", "PENDING"},
     APPROVED |-> {"CREATING", "CANCELLED"},
     REJECTED |-> {"CANCELLED"},
     CREATING |-> {"CREATED", "FAILED", "CANCELLED"},
     FAILED |-> {"CREATING", "CANCELLED"},
     CREATED |-> {}, CANCELLED |-> {}]

noRequest == [status |-> "absent", employee |-> Unset, wanted |-> Unset, assigned |-> Unset]
noMailbox == [status |-> "absent", employee |-> Unset, address |-> Unset]

Init ==
    /\ emailRequest = [r \in Request |-> noRequest]
    /\ mailbox = [r \in Request |-> noMailbox]
    /\ companyEmail = [e \in Employee |-> Unset]

---------------------------------------------------------------------------
(* Who already has address a: mailboxes, employees and requests, apart     *)
(* from those that ask.                                                    *)

Claims == {"PENDING", "UNDER_REVIEW", "APPROVED", "CREATING", "CREATED"}

heldByMailbox(a, mine) == \E r \in Request \ mine : mailbox[r].status \notin {"absent", "DEACTIVATED"} /\ mailbox[r].address = a
heldByEmployee(a, mine) == \E e \in Employee \ mine : companyEmail[e] = a
claimed(a, mine) == \E r \in Request \ mine :
    emailRequest[r].status \in Claims /\ a \in {emailRequest[r].wanted, emailRequest[r].assigned}

\* Mutant: requests are not looked at.
findEmailConflict_noRequests(a, mailboxes, employees, requests) ==
    heldByMailbox(a, mailboxes) \/ heldByEmployee(a, employees)

findEmailConflict(a, mailboxes, employees, requests) ==
    heldByMailbox(a, mailboxes) \/ heldByEmployee(a, employees) \/ claimed(a, requests)

---------------------------------------------------------------------------
(* Requests. *)

\* Any status may be given in the body; nobody looks whether the address is free.
createEmailRequest(r, e, a, s) ==
    /\ emailRequest[r] = noRequest
    /\ emailRequest' = [emailRequest EXCEPT ![r] =
           [status |-> s, employee |-> e, wanted |-> a, assigned |-> Unset]]
    /\ UNCHANGED <<mailbox, companyEmail>>

\* assertTransition lets a request be set to the status it has.
updateEmailRequestStatus(r, s) ==
    /\ emailRequest[r] # noRequest
    /\ s = emailRequest[r].status \/ s \in EmailTransitions[emailRequest[r].status]
    /\ emailRequest' = [emailRequest EXCEPT ![r].status = s]
    /\ UNCHANGED <<mailbox, companyEmail>>

cancelEmailRequest(r) ==
    /\ emailRequest[r].status \notin {"absent", "CREATED", "CANCELLED"}
    /\ updateEmailRequestStatus(r, "CANCELLED")

\* The address of the body is looked at and not kept.
retryEmailCreation(r, a) ==
    /\ emailRequest[r].status = "FAILED"
    /\ ~findEmailConflict(a, {}, {}, {r})
    /\ emailRequest' = [emailRequest EXCEPT ![r].status = "CREATING"]
    /\ UNCHANGED <<mailbox, companyEmail>>

createAndAssignCompanyEmail(r, a, works) ==
    LET e == emailRequest[r].employee IN
    /\ emailRequest[r].status \in {"APPROVED", "CREATING"}
    /\ ~findEmailConflict(a, {}, {e}, {r})
    /\ emailRequest' = [emailRequest EXCEPT
           ![r].status = IF works THEN "CREATED" ELSE "FAILED", ![r].assigned = a]
    /\ IF works
       THEN /\ mailbox' = [mailbox EXCEPT ![r] = [status |-> "ACTIVE", employee |-> e, address |-> a]]
            /\ companyEmail' = [companyEmail EXCEPT ![e] = a]
       ELSE UNCHANGED <<mailbox, companyEmail>>

---------------------------------------------------------------------------
(* Mailboxes. *)

changeCompanyEmailAddress(r, a) ==
    /\ mailbox[r].status \in {"ACTIVE", "SUSPENDED"}
    /\ ~findEmailConflict(a, {r}, {mailbox[r].employee}, {})
    /\ mailbox' = [mailbox EXCEPT ![r].address = a]
    /\ companyEmail' = [companyEmail EXCEPT ![mailbox[r].employee] = a]
    /\ UNCHANGED emailRequest

setMailbox(r, from, to) ==
    /\ mailbox[r].status \in from
    /\ mailbox' = [mailbox EXCEPT ![r].status = to]
    /\ UNCHANGED <<emailRequest, companyEmail>>

suspendCompanyEmail(r) == setMailbox(r, {"ACTIVE"}, "SUSPENDED")
reactivateCompanyEmail(r) == setMailbox(r, {"SUSPENDED"}, "ACTIVE")
\* No handler carries the deactivation out.
requestCompanyEmailDeactivation(r) == setMailbox(r, {"ACTIVE", "SUSPENDED"}, "DEACTIVATION_PENDING")

Requests(r) ==
    \/ \E e \in Employee, a \in Address, s \in EmailStatus : createEmailRequest(r, e, a, s)
    \/ \E s \in EmailStatus : updateEmailRequestStatus(r, s)
    \/ cancelEmailRequest(r)
    \/ \E a \in Address : retryEmailCreation(r, a)
    \/ \E a \in Address, works \in BOOLEAN : createAndAssignCompanyEmail(r, a, works)

Mailboxes(r) ==
    \/ \E a \in Address : changeCompanyEmailAddress(r, a)
    \/ suspendCompanyEmail(r)
    \/ reactivateCompanyEmail(r)
    \/ requestCompanyEmailDeactivation(r)

Next == \E r \in Request : Requests(r) \/ Mailboxes(r)

Spec == Init /\ [][Next]_vars

---------------------------------------------------------------------------
(* Properties. *)

\* An address is of one mailbox at most, and is not given to another when the
\* mailbox it was made for takes a new one: its old mail would go to somebody
\* else. The address on an employee's row is that of a mailbox of theirs.
AddressIsOfOneMailbox ==
    /\ \A r, s \in Request : r # s /\ mailbox[r] # noMailbox /\ mailbox[s] # noMailbox =>
           mailbox[s].address \notin {mailbox[r].address, emailRequest[r].assigned}
    /\ \A e \in Employee : companyEmail[e] # Unset =>
           \E r \in Request : mailbox[r].employee = e /\ mailbox[r].address = companyEmail[e]
---------------------------------------------------------------------------
(* The invariant AddressIsOfOneMailbox follows from: what was assigned is an address, and *)
(* a mailbox is of a request that was carried out, so that nobody is given its address.   *)

Row == [status : EmailStatus, employee : Employee, wanted : Address, assigned : Address \cup {Unset}]
Made == [status : {"ACTIVE", "SUSPENDED", "DEACTIVATION_PENDING"}, employee : Employee, address : Address]

TypeOK ==
    /\ emailRequest \in [Request -> Row \cup {noRequest}]
    /\ mailbox \in [Request -> Made \cup {noMailbox}]
    /\ companyEmail \in [Employee -> Address \cup {Unset}]

Inv ==
    /\ TypeOK
    /\ \A r \in Request : mailbox[r] # noMailbox => emailRequest[r].status = "CREATED"
    /\ AddressIsOfOneMailbox
=============================================================================
