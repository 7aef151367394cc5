----------------------------- MODULE Placements -----------------------------
(***************************************************************************)
(* The placements of interns and NYSC members of one type                  *)
(* (nyscIntern/nyscIntern.service.js): taken on, supervised, extended,     *)
(* ended, hired; the sign-in made while they are; and their own portal     *)
(* (intern/service.js). Documents, reviews, attendance and personal data    *)
(* are left out, and dates: the calendar gives what has not ended any stage.*)
(***************************************************************************)
EXTENDS Naturals, FiniteSets

CONSTANTS Profile, Person, Employee,
          NoEmail  \* a profile created without one

PlacementsConstants == "none" \notin Employee /\ NoEmail \notin Person /\ "generated" \notin Person

VARIABLES
    placement,   \* placements with their profile: email, status stored, supervisor
    supervisors, \* placement_supervisors that are active
    records,     \* "exit" for an exit record, "employee" for a row of employees
    provisioning,\* where the call that makes the sign-in stands, the email it read
    account,     \* emails that have an account
    edited       \* profiles whose email was changed by hand

vars == <<placement, supervisors, records, provisioning, account, edited>>

Stages == {"PENDING", "ACTIVE", "ENDING_SOON"}
Final == {"COMPLETED", "EXITED", "TERMINATED", "CANCELLED"}
noPlacement == [status |-> "absent", email |-> NoEmail, supervisor |-> "none", deleted |-> FALSE]
idle == [at |-> "idle", email |-> NoEmail]

Init ==
    /\ placement = [p \in Profile |-> noPlacement]
    /\ supervisors = [p \in Profile |-> {}]
    /\ records = [p \in Profile |-> {}]
    /\ provisioning = [p \in Profile |-> idle]
    /\ account \in SUBSET Person
    /\ edited = {}

found(p) == placement[p].status # "absent" /\ ~placement[p].deleted
open(p) == placement[p].status \in Stages
derivePlacementStatus(p) == IF placement[p].status \in Final THEN {placement[p].status} ELSE Stages

\* Mutant: a placement about to end does not count.
ensureNoActiveDuplicate_active(m) ==
    \A p \in Profile : found(p) /\ placement[p].email = m => placement[p].status # "ACTIVE"

\* Whoever has no email is the same person as all who have none.
ensureNoActiveDuplicate(m) ==
    \A p \in Profile : found(p) /\ placement[p].email = m => placement[p].status \in Final

---------------------------------------------------------------------------
(* The office. *)

supervises(p, e) ==
    /\ supervisors' = [supervisors EXCEPT ![p] = {e}]
    /\ placement' = [placement EXCEPT ![p].supervisor = e]

createProfile(p, m, s, e) ==
    /\ placement[p] = noPlacement
    /\ ensureNoActiveDuplicate(m)
    /\ s \in derivePlacementStatus(p)
    /\ placement' = [placement EXCEPT ![p].email = m, ![p].status = s, ![p].supervisor = e]
    /\ supervisors' = [supervisors EXCEPT ![p] = {e} \cap Employee]
    /\ provisioning' = [provisioning EXCEPT ![p] = [at |-> "looking", email |-> m]]
    /\ UNCHANGED <<records, account, edited>>

assignSupervisor(p, e) ==
    /\ found(p)
    /\ supervises(p, e)
    /\ UNCHANGED <<records, provisioning, account, edited>>

\* Not compared with the other profiles.
updateProfile(p, m) ==
    /\ found(p)
    /\ m # placement[p].email
    /\ placement' = [placement EXCEPT ![p].email = m]
    /\ edited' = edited \cup {p}
    /\ UNCHANGED <<supervisors, records, provisioning, account>>

\* To a later day: an ended placement stays so.
extendPlacement(p, s) ==
    /\ found(p)
    /\ s \in derivePlacementStatus(p)
    /\ placement' = [placement EXCEPT ![p].status = s]
    /\ UNCHANGED <<supervisors, records, provisioning, account, edited>>

ends(p, s, what) ==
    /\ found(p)
    /\ placement' = [placement EXCEPT ![p].status = s]
    /\ records' = [records EXCEPT ![p] = @ \cup {what}]
    /\ UNCHANGED <<supervisors, provisioning, account, edited>>

\* Whatever its status, an ended placement's too.
processExit(p, s) == s \in {"COMPLETED", "TERMINATED", "EXITED"} /\ ends(p, s, "exit")
convertToEmployee(p) == ends(p, "COMPLETED", "employee")

removeProfile(p) ==
    /\ found(p)
    /\ placement' = [placement EXCEPT ![p].status = "CANCELLED", ![p].deleted = TRUE]
    /\ UNCHANGED <<supervisors, records, provisioning, account, edited>>

---------------------------------------------------------------------------
(* provisionPlacementLogin, between whose awaits all the rest can happen; the email it
   works with is the one it read. *)

at(p, from) == provisioning[p].at = from
goes(p, to) == provisioning' = [provisioning EXCEPT ![p].at = to]

looksForLogin(p) ==
    /\ at(p, "looking")
    /\ goes(p, IF provisioning[p].email \in account THEN "linking" ELSE "making")
    /\ UNCHANGED <<placement, supervisors, records, account, edited>>

\* An email that has got an account meanwhile makes it fail, and the placement is kept.
createUser(p) ==
    /\ at(p, "making")
    /\ IF provisioning[p].email \in account THEN provisioning' = [provisioning EXCEPT ![p] = idle]
       ELSE goes(p, "linking")
    /\ account' = account \cup ({provisioning[p].email} \cap Person)
    /\ UNCHANGED <<placement, supervisors, records, edited>>

\* Writes the email it read over one given meanwhile, or the one it made up; a profile
\* that was removed meanwhile is left alone.
linksLogin(p) ==
    /\ at(p, "linking")
    /\ provisioning' = [provisioning EXCEPT ![p] = idle]
    /\ placement' = [placement EXCEPT ![p].email = IF ~found(p) THEN @
                         ELSE IF provisioning[p].email = NoEmail THEN "generated"
                         ELSE provisioning[p].email]
    /\ UNCHANGED <<supervisors, records, account, edited>>

restart ==
    /\ \E p \in Profile : provisioning[p] # idle
    /\ provisioning' = [p \in Profile |-> idle]
    /\ UNCHANGED <<placement, supervisors, records, account, edited>>

Office(p) ==
    \/ \E m \in Person \cup {NoEmail}, s \in Stages, e \in Employee \cup {"none"} :
           createProfile(p, m, s, e)
    \/ \E e \in Employee : assignSupervisor(p, e)
    \/ \E m \in Person : updateProfile(p, m)
    \/ \E s \in Stages \cup Final : extendPlacement(p, s)
    \/ \E s \in Final : processExit(p, s)
    \/ convertToEmployee(p)
    \/ removeProfile(p)

Next ==
    \/ \E p \in Profile : Office(p)
    \/ \E p \in Profile : looksForLogin(p) \/ createUser(p) \/ linksLogin(p)
    \/ restart

Spec == Init /\ [][Next]_vars

---------------------------------------------------------------------------
(* Properties. *)

\* A person whose email nobody changed by hand has one placement at most that is not
\* ended, though sign-ins are made while others are taken on; one that ended other than
\* by removal has an exit record or became an employee, and is not open again; its
\* supervisor is the one active one. (Of every step.)
OneOpenPlacement ==
    /\ \A p, q \in Profile :
          p # q /\ open(p)' /\ open(q)' /\ placement'[p].email = placement'[q].email
              => {p, q} \cap edited' # {} \/ placement'[p].email = "generated"
    /\ \A p \in Profile :
          /\ placement'[p].status \in Final \ {"CANCELLED"} => records'[p] # {}
          /\ placement[p].status \in Final => ~open(p)'
          /\ supervisors'[p] \ {placement'[p].supervisor} = {}
---------------------------------------------------------------------------
(* The invariant OneOpenPlacement follows from: a sign-in is made with the email its        *)
(* placement still has, unless that was changed by hand.                                    *)

Row == [status : Stages \cup Final \cup {"absent"}, email : Person \cup {NoEmail, "generated"},
        supervisor : Employee \cup {"none"}, deleted : BOOLEAN]

TypeOK ==
    /\ placement \in [Profile -> Row]
    /\ supervisors \in [Profile -> SUBSET Employee]
    /\ records \in [Profile -> SUBSET {"exit", "employee"}]
    /\ provisioning \in [Profile -> [at : {"idle", "looking", "making", "linking"},
                                     email : Person \cup {NoEmail}]]
    /\ edited \subseteq Profile

Whole(p) ==
    /\ placement[p].deleted => placement[p].status = "CANCELLED"
    /\ p \notin edited /\ ~at(p, "idle") => provisioning[p].email = placement[p].email
    /\ placement[p].status \in Final \ {"CANCELLED"} => records[p] # {}
    /\ supervisors[p] \subseteq {placement[p].supervisor}

Apart(p, q) ==
    open(p) /\ open(q) /\ placement[p].email = placement[q].email
        => {p, q} \cap edited # {} \/ placement[p].email = "generated"

Inv ==
    /\ TypeOK
    /\ \A p \in Profile : Whole(p)
    /\ \A p, q \in Profile : p # q => Apart(p, q)
=============================================================================
