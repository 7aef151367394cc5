-------------------------- MODULE WorkflowsProofs --------------------------
(***************************************************************************)
(* People, their time and their accounts: what no step of a workflow takes *)
(* back, for all employees, rows and requests. Each part has an inductive  *)
(* invariant, Inv at the end of its module; s1 .. s7 are the variables of  *)
(* the part that is explored. What leaves the office is in MoneyProofs.    *)
(***************************************************************************)
EXTENDS Workflows, Sequences, FiniteSetTheorems, WellFoundedInduction, TLAPS

---------------------------------------------------------------------------
(* Employment. *)

LEMMA EmploymentStart == Emp!Init => Emp!Inv
BY WorkflowsAssumption
   DEF Emp!EmploymentConstants, Emp!Init, Emp!Inv, Emp!TypeOK, Emp!AccessAgrees, Emp!Decided,
       Emp!noEmployee, Emp!noRow, Emp!OutOfWork, Emp!Status, Emp!employed

LEMMA EmployeeFacts ==
    ASSUME Emp!Inv, NEW e \in Employee
    PROVE  /\ s1[e] = [status |-> s1[e].status, confirmation |-> s1[e].confirmation]
           /\ s1[e].status \in Emp!Status \cup {"absent"}
           /\ s1[e].confirmation \in Emp!Decision \cup {"none"}
           /\ Emp!AccessAgrees(e) /\ Emp!Decided(e)
BY DEF Emp!Inv, Emp!TypeOK

\* A status that does not put anybody out of work takes no access away that is owed, and
\* no decision.
LEMMA StatusBecomes ==
    ASSUME Emp!Inv, NEW x, NEW s \in Emp!Status \ Emp!OutOfWork,
           s1' = [s1 EXCEPT ![x].status = s], UNCHANGED <<s2, s4, s6, s7>>
    PROVE  Emp!Inv'
<1>1. Emp!TypeOK'
  <2>1. s1' \in [Employee -> [status : Emp!Status \cup {"absent"},
                              confirmation : Emp!Decision \cup {"none"}]]
    BY DEF Emp!Inv, Emp!TypeOK
  <2> QED
    BY <2>1 DEF Emp!Inv, Emp!TypeOK
<1>2. ASSUME NEW e \in Employee
      PROVE  /\ s1'[e].confirmation = s1[e].confirmation
             /\ s1'[e] = s1[e] \/ s1'[e].status = s
  BY DEF Emp!Inv, Emp!TypeOK
<1>3. s # "absent"
  BY DEF Emp!Status, Emp!OutOfWork
<1>4. ASSUME NEW e \in Employee PROVE Emp!AccessAgrees(e)' /\ Emp!Decided(e)'
  <2>1. Emp!AccessAgrees(e) /\ Emp!Decided(e)
    BY EmployeeFacts
  <2>2. Emp!Decided(e)'
    BY <1>2, <2>1 DEF Emp!Decided
  <2>3. CASE s1'[e] = s1[e]
    BY <2>1, <2>2, <2>3 DEF Emp!AccessAgrees, Emp!employed, Emp!noEmployee
  <2>4. CASE s1'[e].status = s
    BY <1>3, <2>1, <2>2, <2>4 DEF Emp!AccessAgrees, Emp!employed, Emp!noEmployee
  <2> QED
    BY <1>2, <2>3, <2>4
<1> QED
  BY <1>1, <1>4 DEF Emp!Inv

LEMMA StaffCreated ==
    ASSUME Emp!Inv, NEW e \in Employee, NEW login \in BOOLEAN, Emp!createStaff(e, login)
    PROVE  Emp!Inv'
<1>1. /\ s1[e] = Emp!noEmployee /\ s1' = [s1 EXCEPT ![e].status = "active"]
      /\ s2' = [s2 EXCEPT ![e] = IF login THEN "active" ELSE "absent"]
      /\ UNCHANGED <<s4, s6, s7>>
  BY DEF Emp!createStaff, Emp!becomes, Emp!employed
<1>2. Emp!TypeOK'
  BY <1>1 DEF Emp!Inv, Emp!TypeOK, Emp!Status
<1>3. /\ s1'[e].status = "active" /\ s1'[e].confirmation = s1[e].confirmation
      /\ \A f \in Employee \ {e} : s1'[f] = s1[f] /\ s2'[f] = s2[f]
  BY <1>1 DEF Emp!Inv, Emp!TypeOK
<1>4. \A s \in Emp!OutOfWork : <<e, s>> \notin s6
  BY <1>1, EmployeeFacts DEF Emp!AccessAgrees, Emp!employed
<1>5. ASSUME NEW f \in Employee PROVE Emp!AccessAgrees(f)' /\ Emp!Decided(f)'
  <2>1. Emp!AccessAgrees(f) /\ Emp!Decided(f)
    BY EmployeeFacts
  <2>2. Emp!Decided(f)'
    BY <1>1, <1>3, <2>1 DEF Emp!Decided
  <2>3. CASE f = e
    BY <1>1, <1>3, <1>4, <2>2, <2>3
       DEF Emp!AccessAgrees, Emp!employed, Emp!noEmployee, Emp!OutOfWork
  <2>4. CASE f # e
    BY <1>1, <1>3, <2>1, <2>2, <2>4 DEF Emp!AccessAgrees, Emp!employed, Emp!noEmployee
  <2> QED
    BY <2>3, <2>4
<1> QED
  BY <1>2, <1>5 DEF Emp!Inv

LEMMA StaffActionBegun ==
    ASSUME Emp!Inv, NEW e \in Employee, NEW s \in Emp!OutOfWork, Emp!beginStaffAction(e, s)
    PROVE  Emp!Inv'
<1>1. /\ Emp!employed(e)
      /\ s2' = [s2 EXCEPT ![e] = Emp!accountStatus(s)]
      /\ s6' = s6 \cup {<<e, s>>} /\ s7' = s7 \ {e}
      /\ UNCHANGED <<s1, s4>>
  BY DEF Emp!beginStaffAction
<1>2. Emp!accountStatus(s) \in {"inactive", "suspended"}
  BY DEF Emp!accountStatus
<1>3. Emp!TypeOK'
  BY <1>1, <1>2 DEF Emp!Inv, Emp!TypeOK
<1>4. s2'[e] # "active" /\ \A f \in Employee \ {e} : s2'[f] = s2[f]
  BY <1>1, <1>2 DEF Emp!Inv, Emp!TypeOK
<1>5. ASSUME NEW f \in Employee PROVE Emp!AccessAgrees(f)' /\ Emp!Decided(f)'
  <2>1. Emp!AccessAgrees(f) /\ Emp!Decided(f)
    BY EmployeeFacts
  <2>2. Emp!Decided(f)'
    BY <1>1, <2>1 DEF Emp!Decided
  <2>3. CASE f = e
    BY <1>1, <1>4, <2>1, <2>2, <2>3 DEF Emp!AccessAgrees, Emp!employed, Emp!noEmployee
  <2>4. CASE f # e
    BY <1>1, <1>4, <2>1, <2>2, <2>4 DEF Emp!AccessAgrees, Emp!employed, Emp!noEmployee
  <2> QED
    BY <2>3, <2>4
<1> QED
  BY <1>3, <1>5 DEF Emp!Inv

\* The row of an employee is put out of work when the account is already: by a request
\* that has written the account, or because there is none.
LEMMA PutOutOfWork ==
    ASSUME Emp!Inv, NEW e \in Employee, NEW s \in Emp!OutOfWork,
           e \notin s7 => s2[e] # "active",
           s1' = [s1 EXCEPT ![e].status = s], s6' \subseteq s6, UNCHANGED <<s2, s4, s7>>
    PROVE  Emp!Inv'
<1>1. Emp!TypeOK'
  <2>1. s \in Emp!Status
    BY DEF Emp!Status
  <2>2. s1' \in [Employee -> [status : Emp!Status \cup {"absent"},
                              confirmation : Emp!Decision \cup {"none"}]]
    BY <2>1 DEF Emp!Inv, Emp!TypeOK
  <2> QED
    BY <2>2 DEF Emp!Inv, Emp!TypeOK
<1>2. /\ s1'[e].status = s /\ s1'[e].confirmation = s1[e].confirmation
      /\ \A f \in Employee \ {e} : s1'[f] = s1[f]
  BY DEF Emp!Inv, Emp!TypeOK
<1>3. s # "absent"
  BY DEF Emp!OutOfWork
<1>4. ASSUME NEW f \in Employee PROVE Emp!AccessAgrees(f)' /\ Emp!Decided(f)'
  <2>1. Emp!AccessAgrees(f) /\ Emp!Decided(f)
    BY EmployeeFacts
  <2>2. Emp!Decided(f)'
    BY <1>2, <2>1 DEF Emp!Decided
  <2>3. CASE f = e
    BY <1>2, <1>3, <2>1, <2>2, <2>3 DEF Emp!AccessAgrees, Emp!employed, Emp!noEmployee
  <2>4. CASE f # e
    BY <1>2, <2>1, <2>2, <2>4 DEF Emp!AccessAgrees, Emp!employed, Emp!noEmployee
  <2> QED
    BY <2>3, <2>4
<1> QED
  BY <1>1, <1>4 DEF Emp!Inv

LEMMA AccountReactivated ==
    ASSUME Emp!Inv, NEW e \in Employee, Emp!putInUse(e)
    PROVE  Emp!Inv'
<1>1. /\ s2' = [s2 EXCEPT ![e] = "active"] /\ s7' = s7 \cup {e}
      /\ UNCHANGED <<s1, s4, s6>>
  BY DEF Emp!putInUse
<1>2. Emp!TypeOK'
  BY <1>1 DEF Emp!Inv, Emp!TypeOK
<1>3. \A f \in Employee \ {e} : s2'[f] = s2[f]
  BY <1>1 DEF Emp!Inv, Emp!TypeOK
<1>4. ASSUME NEW f \in Employee PROVE Emp!AccessAgrees(f)' /\ Emp!Decided(f)'
  <2>1. Emp!AccessAgrees(f) /\ Emp!Decided(f)
    BY EmployeeFacts
  <2>2. Emp!Decided(f)'
    BY <1>1, <2>1 DEF Emp!Decided
  <2>3. CASE f = e
    BY <1>1, <2>1, <2>2, <2>3 DEF Emp!AccessAgrees, Emp!employed, Emp!noEmployee
  <2>4. CASE f # e
    BY <1>1, <1>3, <2>1, <2>2, <2>4 DEF Emp!AccessAgrees, Emp!employed, Emp!noEmployee
  <2> QED
    BY <2>3, <2>4
<1> QED
  BY <1>2, <1>4 DEF Emp!Inv

LEMMA ConfirmationDecided ==
    ASSUME Emp!Inv, NEW e \in Employee, NEW c \in Confirmation, NEW d \in Emp!Decision,
           Emp!decideConfirmation(c, e, d)
    PROVE  Emp!Inv'
<1>1. /\ s4[c] = Emp!noRow \/ s4[c].employee = e
      /\ s4' = [s4 EXCEPT ![c] = [status |-> d, employee |-> e]]
      /\ s1' = [s1 EXCEPT ![e] = [status |-> Emp!statusOf(d), confirmation |-> d]]
      /\ UNCHANGED <<s2, s6, s7>>
  BY DEF Emp!decideConfirmation
<1>2. Emp!statusOf(d) \in Emp!Status \ Emp!OutOfWork /\ Emp!statusOf(d) # "absent"
  BY DEF Emp!statusOf, Emp!Status, Emp!OutOfWork
<1>3. Emp!TypeOK'
  BY <1>1, <1>2 DEF Emp!Inv, Emp!TypeOK
<1>4. /\ s1'[e] = [status |-> Emp!statusOf(d), confirmation |-> d]
      /\ s4'[c] = [status |-> d, employee |-> e]
      /\ \A f \in Employee \ {e} : s1'[f] = s1[f]
      /\ \A b \in Confirmation \ {c} : s4'[b] = s4[b]
  BY <1>1 DEF Emp!Inv, Emp!TypeOK
<1>5. s4[c].employee \in {e, None}
  BY <1>1 DEF Emp!noRow
<1>6. ASSUME NEW f \in Employee PROVE Emp!AccessAgrees(f)' /\ Emp!Decided(f)'
  <2>1. Emp!AccessAgrees(f) /\ Emp!Decided(f)
    BY EmployeeFacts
  <2>2. CASE f = e
    <3>1. Emp!Decided(f)'
      BY <1>4, <2>2 DEF Emp!Decided
    <3> QED
      BY <1>1, <1>2, <1>4, <2>1, <2>2, <3>1
         DEF Emp!AccessAgrees, Emp!employed, Emp!noEmployee
  <2>3. CASE f # e
    <3>1. ASSUME s1[f].confirmation # "none"
          PROVE  \E b \in Confirmation : s4'[b] = [status |-> s1[f].confirmation, employee |-> f]
      <4>1. PICK b \in Confirmation : s4[b] = [status |-> s1[f].confirmation, employee |-> f]
        BY <2>1, <3>1 DEF Emp!Decided
      <4>2. s4[b].employee = f /\ f # None
        BY <4>1, WorkflowsAssumption DEF Emp!EmploymentConstants
      <4> QED
        BY <1>4, <1>5, <2>3, <4>1, <4>2
    <3>2. Emp!Decided(f)'
      BY <1>4, <2>3, <3>1 DEF Emp!Decided
    <3> QED
      BY <1>1, <1>4, <2>1, <2>3, <3>2 DEF Emp!AccessAgrees, Emp!employed, Emp!noEmployee
  <2> QED
    BY <2>2, <2>3
<1> QED
  BY <1>3, <1>6 DEF Emp!Inv

\* Onboarding rows, exits and requests that end leave the statuses and the decisions alone.
LEMMA EmploymentUntouched ==
    ASSUME Emp!Inv, s6' \subseteq s6, UNCHANGED <<s1, s2, s4, s7>>
    PROVE  Emp!Inv'
<1>1. ASSUME NEW e \in Employee PROVE Emp!AccessAgrees(e)' /\ Emp!Decided(e)'
  <2>1. Emp!AccessAgrees(e) /\ Emp!Decided(e)
    BY EmployeeFacts
  <2> QED
    BY <2>1 DEF Emp!AccessAgrees, Emp!Decided, Emp!employed, Emp!noEmployee
<1> QED
  BY <1>1 DEF Emp!Inv, Emp!TypeOK

LEMMA EmploymentStep == ASSUME Emp!Inv, Emp!Next PROVE Emp!Inv'
<1>1. \A s \in {"active", "ONBOARDING", "AWAITING_CONFIRMATION", "CONFIRMED", "EXITED"} :
          s \in Emp!Status \ Emp!OutOfWork
  BY DEF Emp!Status, Emp!OutOfWork
<1>2. ASSUME NEW e \in Employee, Emp!Directory(e) PROVE Emp!Inv'
  <2>1. Emp!AccessAgrees(e)
    BY EmployeeFacts
  <2>2. CASE \E login \in BOOLEAN : Emp!createStaff(e, login)
    BY <2>2, StaffCreated
  <2>3. CASE \E s \in Emp!OutOfWork : Emp!beginStaffAction(e, s)
    BY <2>3, StaffActionBegun
  <2>4. ASSUME NEW s \in Emp!OutOfWork, NEW byId \in BOOLEAN, Emp!endStaffAction(e, s, byId)
        PROVE  Emp!Inv'
    <3>1. /\ <<e, s>> \in s6 /\ s6' \subseteq s6 /\ UNCHANGED <<s2, s4, s7>>
          /\ s1' = [s1 EXCEPT ![e].status = s] \/ UNCHANGED s1
      BY <2>4 DEF Emp!endStaffAction, Emp!becomes
    <3>2. e \notin s7 => s2[e] # "active"
      BY <2>1, <3>1 DEF Emp!AccessAgrees
    <3> QED
      BY <3>1, <3>2, PutOutOfWork, EmploymentUntouched
  <2>5. ASSUME NEW s \in Emp!OutOfWork \cup {"active"}, Emp!setStaffStatus(e, s)
        PROVE  Emp!Inv'
    <3>1. /\ s = "active" \/ s2[e] = "absent"
          /\ s1' = [s1 EXCEPT ![e].status = s] /\ UNCHANGED <<s2, s4, s6, s7>>
      BY <2>5 DEF Emp!setStaffStatus, Emp!becomes
    <3>2. CASE s = "active"
      BY <1>1, <3>1, <3>2, StatusBecomes
    <3>3. CASE s # "active"
      BY <3>1, <3>3, PutOutOfWork
    <3> QED
      BY <3>2, <3>3
  <2>6. CASE Emp!reactivateAccount(e) \/ Emp!resetPassword(e)
    BY <2>6, AccountReactivated DEF Emp!reactivateAccount, Emp!resetPassword
  <2> QED
    BY <1>2, <2>2, <2>3, <2>4, <2>5, <2>6 DEF Emp!Directory
<1>3. ASSUME NEW e \in Employee, Emp!HR(e) PROVE Emp!Inv'
  <2>1. ASSUME NEW o \in Onboarding, NEW s \in Emp!OnboardingStatus, Emp!createOnboarding(o, e, s)
        PROVE  Emp!Inv'
    <3>1. UNCHANGED <<s2, s4, s6, s7>>
      BY <2>1 DEF Emp!createOnboarding
    <3>2. CASE s1[e].status = "active"
      <4>1. s1' = [s1 EXCEPT ![e].status = "ONBOARDING"]
        BY <2>1, <3>2 DEF Emp!createOnboarding, Emp!becomes
      <4> QED
        BY <1>1, <3>1, <4>1, StatusBecomes
    <3>3. CASE s1[e].status # "active"
      <4>1. s1' = [s1 EXCEPT ![e].status = s1[e].status]
        BY <2>1, <3>3 DEF Emp!createOnboarding, Emp!becomes
      <4>2. UNCHANGED s1
        BY <4>1 DEF Emp!Inv, Emp!TypeOK
      <4> QED
        BY <3>1, <4>2, EmploymentUntouched
    <3> QED
      BY <3>2, <3>3
  <2>2. ASSUME NEW c \in Confirmation,
               \/ Emp!approveConfirmation(c, e)
               \/ Emp!extendConfirmation(c, e)
               \/ Emp!notConfirmEmployee(c, e)
        PROVE  Emp!Inv'
    <3>1. \E d \in Emp!Decision : Emp!decideConfirmation(c, e, d)
      BY <2>2 DEF Emp!approveConfirmation, Emp!extendConfirmation, Emp!notConfirmEmployee, Emp!Decision
    <3> QED
      BY <3>1, ConfirmationDecided
  <2>3. ASSUME NEW x \in Exit, Emp!createEmployeeExit(x, e)
        PROVE  Emp!Inv'
    BY <2>3, EmploymentUntouched DEF Emp!createEmployeeExit
  <2> QED
    BY <1>3, <2>1, <2>2, <2>3 DEF Emp!HR
<1>4. ASSUME NEW o \in Onboarding, NEW s \in Emp!OnboardingStatus, Emp!updateOnboarding(o, s)
      PROVE  Emp!Inv'
  <2>1. UNCHANGED <<s2, s4, s6, s7>>
    BY <1>4 DEF Emp!updateOnboarding
  <2>2. \/ s1' = [s1 EXCEPT ![s3[o].employee].status = "CONFIRMED"]
        \/ s1' = [s1 EXCEPT ![s3[o].employee].status = "AWAITING_CONFIRMATION"]
        \/ UNCHANGED s1
    BY <1>4 DEF Emp!updateOnboarding, Emp!becomes
  <2> QED
    BY <1>1, <2>1, <2>2, StatusBecomes, EmploymentUntouched
<1>5. ASSUME NEW x \in Exit, Emp!Exits(x) PROVE Emp!Inv'
  <2>1. UNCHANGED <<s2, s4, s6, s7>>
    BY <1>5 DEF Emp!Exits, Emp!updateEmployeeExit, Emp!approveEmployeeExit,
                Emp!cancelEmployeeExit, Emp!completeEmployeeExit, Emp!setExit
  <2>2. UNCHANGED s1 \/ s1' = [s1 EXCEPT ![s5[x].employee].status = "EXITED"]
    BY <1>5 DEF Emp!Exits, Emp!updateEmployeeExit, Emp!approveEmployeeExit,
                Emp!cancelEmployeeExit, Emp!completeEmployeeExit, Emp!becomes
  <2> QED
    BY <1>1, <2>1, <2>2, StatusBecomes, EmploymentUntouched
<1> QED
  BY <1>2, <1>3, <1>4, <1>5 DEF Emp!Next

LEMMA EmploymentKept ==
    ASSUME Emp!Inv, UNCHANGED <<s1, s2, s3, s4, s5, s6, s7>> PROVE Emp!Inv'
BY EmploymentUntouched

\* Whoever the directory puts out of work cannot sign in until the administrator says so
\* or they have reset their password, whatever requests overlap, of any number of employees.
THEOREM OutOfWork == WorkflowsSpec => []OutOfWorkHasNoAccess
<1> DEFINE I == part = "employment" => Emp!Inv
<1>1. WorkflowsInit => I
  BY EmploymentStart DEF WorkflowsInit
<1>2. I /\ [WorkflowsNext]_<<part, s1, s2, s3, s4, s5, s6, s7, vars>> => I'
  <2>1. ASSUME WorkflowsNext PROVE part' = part /\ (part = "employment" => Emp!Next)
    BY <2>1 DEF WorkflowsNext, paymentsRest
  <2> QED
    BY <2>1, EmploymentStep, EmploymentKept
<1>3. I => OutOfWorkHasNoAccess
  BY DEF OutOfWorkHasNoAccess, Emp!OutOfWorkHasNoAccess, Emp!Inv, Emp!AccessAgrees, Emp!Decided
<1> QED
  BY <1>1, <1>2, <1>3, PTL DEF WorkflowsSpec

---------------------------------------------------------------------------
(* Meetings. *)

LEMMA MeetingsStart == Meet!Init => Meet!Inv
BY DEF Meet!Init, Meet!Inv, Meet!TypeOK, Meet!Row, Meet!noMeeting, Meet!BookedOnceOrUnchecked,
       Meet!Active

LEMMA MeetingFields ==
    ASSUME NEW r \in Meet!Row
    PROVE  /\ r = [status |-> r.status, organizer |-> r.organizer, room |-> r.room,
                   start |-> r.start, end |-> r.end]
           /\ r.organizer \in Person \cup {None} /\ r.room \in Room \cup {None}
BY DEF Meet!Row

LEMMA MeetingWith ==
    ASSUME NEW r, NEW s, NEW o, NEW q, NEW a, NEW b, NEW x,
           r = [status |-> s, organizer |-> o, room |-> q, start |-> a, end |-> b]
    PROVE  /\ [r EXCEPT !.start = x] =
                  [status |-> s, organizer |-> o, room |-> q, start |-> x, end |-> b]
           /\ [r EXCEPT !.end = x] =
                  [status |-> s, organizer |-> o, room |-> q, start |-> a, end |-> x]
           /\ [r EXCEPT !.status = x] =
                  [status |-> x, organizer |-> o, room |-> q, start |-> a, end |-> b]
OBVIOUS

\* A meeting with another time.
LEMMA MeetingMoved ==
    ASSUME NEW r \in Meet!Row, NEW t
    PROVE  Meet!at(r, t) = [status |-> r.status, organizer |-> r.organizer, room |-> r.room,
                            start |-> t[1], end |-> t[2]]
<1> DEFINE started == [r EXCEPT !.start = t[1]]
<1>1. started = [status |-> r.status, organizer |-> r.organizer, room |-> r.room,
                 start |-> t[1], end |-> r.end]
  BY MeetingFields, MeetingWith
<1>2. Meet!at(r, t) = [started EXCEPT !.end = t[2]]
  BY DEF Meet!at
<1> HIDE DEF started
<1> QED
  BY <1>1, <1>2, MeetingWith

LEMMA MeetingMovedAs ==
    ASSUME NEW r \in Meet!Row, NEW t, NEW s
    PROVE  [Meet!at(r, t) EXCEPT !.status = s] =
               [status |-> s, organizer |-> r.organizer, room |-> r.room,
                start |-> t[1], end |-> t[2]]
<1> DEFINE moved == Meet!at(r, t)
<1>1. moved = [status |-> r.status, organizer |-> r.organizer, room |-> r.room,
               start |-> t[1], end |-> t[2]]
  BY MeetingMoved
<1> HIDE DEF moved
<1>2. [moved EXCEPT !.status = s] = [status |-> s, organizer |-> r.organizer, room |-> r.room,
                                     start |-> t[1], end |-> t[2]]
  BY <1>1, MeetingWith
<1> QED
  BY <1>2 DEF moved

LEMMA SlotIsInTime == \A t \in Meet!Slot : t[1] \in Nat /\ t[2] \in Nat
BY WorkflowsAssumption DEF Meet!Slot, Meet!MeetingsConstants

LEMMA ScheduledIsRow ==
    ASSUME NEW o \in Person, NEW r \in Room \cup {None}, NEW t \in Meet!Slot,
           NEW s \in Meet!PortalStatus
    PROVE  /\ Meet!scheduled(o, r, t) \in Meet!Row
           /\ [Meet!scheduled(o, r, t) EXCEPT !.status = s] \in Meet!Row
BY SlotIsInTime DEF Meet!scheduled, Meet!Row, Meet!PortalStatus

\* One meeting is written: it was looked at, or is marked, or what it clashes with is.
LEMMA MeetingWritten ==
    ASSUME Meet!Inv, NEW m \in Meeting, NEW row \in Meet!Row,
           Meet!writes(m, row),
           s2' \in [Meeting -> Meet!Row], \A n \in Meeting : s2'[n] \in {s2[n], Meet!noMeeting},
           \A n \in Meeting \ {m} : n \in s3 => n \in s3',
           row.status \in Meet!Active /\ m \notin s3' =>
               \A n \in Meeting \ {m} :
                   s1[n].status \in Meet!Active /\ Meet!clash(row, s1[n]) => n \in s3
    PROVE  Meet!Inv'
<1>1. Meet!TypeOK'
  BY DEF Meet!Inv, Meet!TypeOK, Meet!writes
<1>2. s1'[m] = row /\ \A n \in Meeting \ {m} : s1'[n] = s1[n]
  BY DEF Meet!Inv, Meet!TypeOK, Meet!writes
<1>3. ASSUME NEW n \in Meeting \ {m}, {row.status, s1[n].status} \subseteq Meet!Active,
             Meet!clash(row, s1[n]) \/ Meet!clash(s1[n], row)
      PROVE  m \in s3' \/ n \in s3'
  <2>1. Meet!clash(row, s1[n])
    BY <1>3 DEF Meet!clash, Meet!overlaps
  <2> QED
    BY <1>3, <2>1
<1>4. ASSUME NEW n \in Meeting \ {m}, NEW k \in Meeting \ {m}, n # k,
             {s1[n].status, s1[k].status} \subseteq Meet!Active, Meet!clash(s1[n], s1[k])
      PROVE  n \in s3' \/ k \in s3'
  BY <1>4 DEF Meet!Inv, Meet!BookedOnceOrUnchecked
<1>5. ASSUME NEW n \in Meeting, NEW k \in Meeting, n # k,
             {s1'[n].status, s1'[k].status} \subseteq Meet!Active, Meet!clash(s1'[n], s1'[k])
      PROVE  n \in s3' \/ k \in s3'
  <2>1. CASE n = m
    BY <1>2, <1>3, <1>5, <2>1
  <2>2. CASE k = m
    BY <1>2, <1>3, <1>5, <2>2
  <2>3. CASE n # m /\ k # m
    BY <1>2, <1>4, <1>5, <2>3
  <2> QED
    BY <2>1, <2>2, <2>3
<1>6. Meet!BookedOnceOrUnchecked'
  BY <1>5 DEF Meet!BookedOnceOrUnchecked, Meet!clash, Meet!overlaps
<1>7. ASSUME NEW n \in Meeting \ s4', s2'[n] # Meet!noMeeting PROVE Meet!free(n, s2[n])'
  <2>1. n = m /\ n \notin s4 /\ s2'[n] = s2[n]
    BY <1>7 DEF Meet!writes
  <2>2. Meet!free(n, s2[n])
    BY <1>7, <2>1 DEF Meet!Inv
  <2> QED
    BY <1>2, <2>1, <2>2 DEF Meet!free, Meet!clash, Meet!overlaps
<1> QED
  BY <1>1, <1>6, <1>7 DEF Meet!Inv, Meet!noMeeting

\* Nothing is written to the meetings: what is about to be written was looked at, or is given up.
LEMMA MeetingsUntouched ==
    ASSUME Meet!Inv, s2' \in [Meeting -> Meet!Row], UNCHANGED <<s1, s3>>,
           \A n \in Meeting \ s4' : s2'[n] # Meet!noMeeting =>
               Meet!free(n, s2'[n]) \/ (s2'[n] = s2[n] /\ n \notin s4)
    PROVE  Meet!Inv'
<1>1. \A n \in Meeting \ s4' : s2'[n] # Meet!noMeeting => Meet!free(n, s2'[n])
  BY DEF Meet!Inv
<1>2. \A n \in Meeting \ s4' : s2'[n] # Meet!noMeeting => Meet!free(n, s2[n])'
  BY <1>1 DEF Meet!free, Meet!clash, Meet!overlaps
<1> QED
  BY <1>2 DEF Meet!Inv, Meet!TypeOK, Meet!BookedOnceOrUnchecked, Meet!clash, Meet!overlaps, Meet!noMeeting

LEMMA MeetingsKept == ASSUME Meet!Inv, UNCHANGED <<s1, s2, s3, s4, s5, s6, s7>> PROVE Meet!Inv'
BY MeetingsUntouched DEF Meet!Inv, Meet!TypeOK

LEMMA ServiceWrites == ASSUME Meet!Inv, NEW m \in Meeting, Meet!Service(m) PROVE Meet!Inv'
<1> DEFINE old == s1[m]
<1>0. /\ old \in Meet!Row /\ s2[m] \in Meet!Row /\ Meet!noMeeting \in Meet!Row
      /\ s2 \in [Meeting -> Meet!Row]
  BY DEF Meet!Inv, Meet!TypeOK, Meet!noMeeting, Meet!Row
<1>1. ASSUME NEW o \in Person, NEW r \in Room \cup {None}, NEW t \in Meet!Slot,
             Meet!createMeeting(m, o, r, t)
      PROVE  Meet!Inv'
  <2>1. /\ Meet!free(m, Meet!scheduled(o, r, t))
        /\ Meet!writes(m, Meet!scheduled(o, r, t)) /\ UNCHANGED <<s2, s3>>
    BY <1>1 DEF Meet!createMeeting
  <2>2. Meet!scheduled(o, r, t) \in Meet!Row
    BY ScheduledIsRow DEF Meet!PortalStatus
  <2> QED
    BY <1>0, <2>1, <2>2, MeetingWritten DEF Meet!free
<1>2. ASSUME NEW o \in Person, NEW r \in Room \cup {None}, NEW t \in Meet!Slot,
             Meet!beginVirtual(m, o, r, t)
      PROVE  Meet!Inv'
  <2>1. Meet!scheduled(o, r, t) \in Meet!Row
    BY ScheduledIsRow DEF Meet!PortalStatus
  <2>2. /\ s2' = [s2 EXCEPT ![m] = Meet!scheduled(o, r, t)] /\ s4' = s4 \ {m}
        /\ Meet!free(m, Meet!scheduled(o, r, t)) /\ UNCHANGED <<s1, s3>>
    BY <1>2 DEF Meet!beginVirtual
  <2>3. /\ s2' \in [Meeting -> Meet!Row] /\ Meet!free(m, s2'[m])
        /\ \A n \in Meeting \ {m} : s2'[n] = s2[n] /\ (n \in s4 => n \in s4')
    BY <1>0, <2>1, <2>2
  <2>4. \A n \in Meeting \ s4' : s2'[n] # Meet!noMeeting =>
            Meet!free(n, s2'[n]) \/ (s2'[n] = s2[n] /\ n \notin s4)
    BY <2>3
  <2>5. s2' \in [Meeting -> Meet!Row] /\ UNCHANGED <<s1, s3>>
    BY <2>2, <2>3
  <2> QED
    BY <2>4, <2>5, MeetingsUntouched
<1>3. ASSUME NEW works \in BOOLEAN, Meet!endVirtual(m, works) PROVE Meet!Inv'
  <2>1. s2' \in [Meeting -> Meet!Row] /\ \A n \in Meeting : s2'[n] \in {s2[n], Meet!noMeeting}
    BY <1>0, <1>3 DEF Meet!endVirtual
  <2>2. CASE works
    <3>1. /\ Meet!writes(m, s2[m]) /\ s2[m] # Meet!noMeeting
          /\ s3' = IF m \in s4 THEN s3 \cup {m} ELSE s3
      BY <1>3, <2>2 DEF Meet!endVirtual
    <3>2. m \notin s4 => Meet!free(m, s2[m])
      BY <3>1 DEF Meet!Inv
    <3>3. m \notin s3' => \A n \in Meeting \ {m} :
              s1[n].status \in Meet!Active => ~Meet!clash(s2[m], s1[n])
      BY <3>1, <3>2 DEF Meet!free
    <3>4. \A n \in Meeting \ {m} : n \in s3 => n \in s3'
      BY <3>1
    <3> QED
      BY <1>0, <2>1, <3>1, <3>3, <3>4, MeetingWritten
  <2>3. CASE ~works
    <3>1. UNCHANGED <<s1, s3, s4>>
      BY <1>3, <2>3 DEF Meet!endVirtual
    <3> QED
      BY <2>1, <3>1, MeetingsUntouched
  <2> QED
    BY <2>2, <2>3
<1>4. ASSUME NEW t \in Meet!Slot, NEW r \in Room \cup {None}, NEW given \in BOOLEAN,
             Meet!updateSchedule(m, t, r, given)
      PROVE  Meet!Inv'
  <2> DEFINE at(q) == [status |-> old.status, organizer |-> old.organizer, room |-> q,
                       start |-> t[1], end |-> t[2]]
             looked == at(IF given /\ r # None THEN r ELSE old.room)
             row == at(IF given THEN r ELSE old.room)
  <2>1. Meet!at(old, t) = at(old.room)
    BY <1>0, MeetingMoved
  <2>2. \A q : [at(old.room) EXCEPT !.room = q] = at(q)
    OBVIOUS
  <2>3. /\ (IF given /\ r # None THEN [Meet!at(old, t) EXCEPT !.room = r] ELSE Meet!at(old, t))
              = looked
        /\ (IF given THEN [Meet!at(old, t) EXCEPT !.room = r] ELSE Meet!at(old, t)) = row
    BY <2>1, <2>2
  <2>4. /\ Meet!free(m, looked) /\ Meet!writes(m, row)
        /\ s3' = s3 \ {m} /\ UNCHANGED s2
    BY <1>4, <2>3 DEF Meet!updateSchedule
  <2>5. row \in Meet!Row
    BY <1>0, SlotIsInTime, MeetingFields DEF Meet!Row
  <2>6. \A q : Meet!clash(row, q) => Meet!clash(looked, q)
    BY DEF Meet!clash, Meet!overlaps
  <2>7. looked.status = row.status
    OBVIOUS
  <2> HIDE DEF row, looked
  <2> QED
    BY <1>0, <2>4, <2>5, <2>6, MeetingWritten DEF Meet!free
<1>5. ASSUME NEW r \in Room \cup {None}, Meet!updateRoom(m, r) PROVE Meet!Inv'
  <2> DEFINE row == [status |-> old.status, organizer |-> old.organizer, room |-> r,
                     start |-> old.start, end |-> old.end]
  <2>1. Meet!writes(m, [old EXCEPT !.room = r]) /\ s3' = s3 \cup {m} /\ UNCHANGED s2
    BY <1>5 DEF Meet!updateRoom
  <2>2. [old EXCEPT !.room = r] = row
    BY <1>0, MeetingFields
  <2>3. row \in Meet!Row
    BY <1>0 DEF Meet!Row
  <2> HIDE DEF row
  <2> QED
    BY <1>0, <2>1, <2>2, <2>3, MeetingWritten
<1>6. CASE Meet!cancelMeeting(m)
  <2> DEFINE row == [status |-> "CANCELLED", organizer |-> old.organizer, room |-> old.room,
                     start |-> old.start, end |-> old.end]
  <2>1. Meet!writes(m, [old EXCEPT !.status = "CANCELLED"]) /\ UNCHANGED <<s2, s3>>
    BY <1>6 DEF Meet!cancelMeeting
  <2>2. [old EXCEPT !.status = "CANCELLED"] = row
    BY <1>0, MeetingFields
  <2>3. row \in Meet!Row /\ row.status \notin Meet!Active
    BY <1>0 DEF Meet!Row, Meet!PortalStatus, Meet!Active
  <2> HIDE DEF row
  <2> QED
    BY <1>0, <2>1, <2>2, <2>3, MeetingWritten
<1>7. ASSUME NEW t \in Meet!Slot, Meet!postponeMeeting(m, t) PROVE Meet!Inv'
  <2> DEFINE row == [status |-> "SCHEDULED", organizer |-> old.organizer, room |-> old.room,
                     start |-> t[1], end |-> t[2]]
  <2>1. [Meet!at(old, t) EXCEPT !.status = "SCHEDULED"] = row
    BY <1>0, MeetingMovedAs
  <2>2. /\ Meet!free(m, row) /\ Meet!writes(m, row)
        /\ s3' = s3 \ {m} /\ UNCHANGED s2
    BY <1>7, <2>1 DEF Meet!postponeMeeting
  <2>3. row \in Meet!Row
    BY <1>0, SlotIsInTime DEF Meet!Row, Meet!PortalStatus
  <2> HIDE DEF row
  <2> QED
    BY <1>0, <2>2, <2>3, MeetingWritten DEF Meet!free
<1>8. ASSUME NEW s \in {"ONGOING", "COMPLETED"}, Meet!setMeetingStatus(m, s) PROVE Meet!Inv'
  <2> DEFINE row == [status |-> s, organizer |-> old.organizer, room |-> old.room,
                     start |-> old.start, end |-> old.end]
  <2>1. /\ Meet!writes(m, [old EXCEPT !.status = s]) /\ UNCHANGED s2
        /\ s3' = IF old.status \in Meet!Active THEN s3 ELSE s3 \cup {m}
    BY <1>8 DEF Meet!setMeetingStatus
  <2>2. [old EXCEPT !.status = s] = row
    BY <1>0, MeetingFields
  <2>3. row \in Meet!Row
    BY <1>0 DEF Meet!Row, Meet!PortalStatus
  <2>4. \A n : Meet!clash(row, n) => Meet!clash(old, n)
    BY DEF Meet!clash, Meet!overlaps
  <2>5. ASSUME m \notin s3'
        PROVE  \A n \in Meeting \ {m} :
                   s1[n].status \in Meet!Active /\ Meet!clash(row, s1[n]) => n \in s3
    BY <2>1, <2>4, <2>5 DEF Meet!Inv, Meet!BookedOnceOrUnchecked
  <2>6. \A n \in Meeting \ {m} : n \in s3 => n \in s3'
    BY <2>1
  <2> HIDE DEF row
  <2> QED
    BY <1>0, <2>1, <2>2, <2>3, <2>5, <2>6, MeetingWritten
<1> QED
  BY <1>1, <1>2, <1>3, <1>4, <1>5, <1>6, <1>7, <1>8 DEF Meet!Service

LEMMA PortalWrites == ASSUME Meet!Inv, NEW m \in Meeting, Meet!Portal(m) PROVE Meet!Inv'
<1> DEFINE old == s1[m]
<1>0. old \in Meet!Row /\ s2 \in [Meeting -> Meet!Row]
  BY DEF Meet!Inv, Meet!TypeOK
<1>1. ASSUME NEW o \in Person, NEW t \in Meet!Slot, NEW s \in Meet!PortalStatus,
             Meet!portalCreates(m, o, t, s)
      PROVE  Meet!Inv'
  <2> DEFINE row == [Meet!scheduled(o, None, t) EXCEPT !.status = s]
  <2>1. Meet!writes(m, row) /\ s3' = s3 \cup {m} /\ UNCHANGED s2
    BY <1>1 DEF Meet!portalCreates
  <2>2. row \in Meet!Row
    BY ScheduledIsRow
  <2> HIDE DEF row
  <2> QED
    BY <1>0, <2>1, <2>2, MeetingWritten
<1>2. ASSUME NEW t \in Meet!Slot, NEW s \in Meet!PortalStatus, Meet!portalWrites(m, t, s)
      PROVE  Meet!Inv'
  <2> DEFINE row == [status |-> s, organizer |-> old.organizer, room |-> old.room,
                     start |-> t[1], end |-> t[2]]
  <2>1. /\ Meet!writes(m, [Meet!at(old, t) EXCEPT !.status = s])
        /\ s3' = s3 \cup {m} /\ UNCHANGED s2
    BY <1>2 DEF Meet!portalWrites
  <2>2. [Meet!at(old, t) EXCEPT !.status = s] = row
    BY <1>0, MeetingMovedAs
  <2>3. row \in Meet!Row
    BY <1>0, SlotIsInTime DEF Meet!Row
  <2> HIDE DEF row
  <2> QED
    BY <1>0, <2>1, <2>2, <2>3, MeetingWritten
<1>3. CASE Meet!portalCancels(m)
  BY <1>3, ServiceWrites DEF Meet!portalCancels, Meet!Service
<1> QED
  BY <1>1, <1>2, <1>3 DEF Meet!Portal

LEMMA MeetingsStep == ASSUME Meet!Inv, Meet!Next PROVE Meet!Inv'
BY ServiceWrites, PortalWrites DEF Meet!Next

\* Two meetings clash only if one of them was put there without a look at the others, or its
\* provider answered after another was written, of any number of meetings, rooms, organizers
\* and points in time.
THEOREM BookedOnce == WorkflowsSpec => []BookedOnceOrUnchecked
<1> DEFINE I == part = "meetings" => Meet!Inv
<1>1. WorkflowsInit => I
  BY MeetingsStart DEF WorkflowsInit
<1>2. I /\ [WorkflowsNext]_<<part, s1, s2, s3, s4, s5, s6, s7, vars>> => I'
  <2>1. ASSUME WorkflowsNext PROVE part' = part /\ (part = "meetings" => Meet!Next)
    BY <2>1 DEF WorkflowsNext, paymentsRest
  <2> QED
    BY <2>1, MeetingsStep, MeetingsKept
<1>3. I => BookedOnceOrUnchecked
  BY DEF BookedOnceOrUnchecked, Meet!Inv
<1> QED
  BY <1>1, <1>2, <1>3, PTL DEF WorkflowsSpec

---------------------------------------------------------------------------
(* Discipline. *)

LEMMA DisciplineStart == Dis!Init => Dis!Inv
BY DEF Dis!Init, Dis!Inv, Dis!TypeOK, Dis!OfTheService, Dis!HistoryTellsStatus, Dis!noCase

LEMMA CaseStatusWritten ==
    ASSUME Dis!Inv, NEW c \in Case, NEW s, s1' = [s1 EXCEPT ![c].status = s]
    PROVE  s1' = [s1 EXCEPT ![c] = [status |-> s, resolved |-> s1[c].resolved]]
<1>1. s1' = [s1 EXCEPT ![c] = [s1[c] EXCEPT !.status = s]]
  OBVIOUS
<1>2. s1[c] = [status |-> s1[c].status, resolved |-> s1[c].resolved]
  BY DEF Dis!Inv, Dis!TypeOK
<1>3. [s1[c] EXCEPT !.status = s] = [status |-> s, resolved |-> s1[c].resolved]
  BY <1>2
<1> QED
  BY <1>1, <1>3

\* One case: its row, the last status of its history, the status it was closed in.
LEMMA CaseWritten ==
    ASSUME Dis!Inv, NEW c \in Case, NEW s \in Dis!CASE_STATUS \cup {"absent"},
           NEW b \in BOOLEAN, NEW h \in Dis!CASE_STATUS \cup {"none", "absent"},
           NEW k \in Dis!CASE_STATUS \cup {"none", "absent"},
           s1' = [s1 EXCEPT ![c] = [status |-> s, resolved |-> b]],
           s4' = [s4 EXCEPT ![c] = h], s5' = [s5 EXCEPT ![c] = k],
           s6 \subseteq s6', \A d \in Case \ {c} : d \in s6' => d \in s6,
           c \notin s6' =>
               /\ s \notin {"CANCELLED", "ARCHIVED", "PENDING_REVIEW"}
               /\ s = "absent" => b = FALSE
               /\ s \in {"RESOLVED", "CLOSED"} => b
               /\ s # "absent" => h = s
               /\ s = "CLOSED" => k = "RESOLVED"
    PROVE  Dis!Inv'
<1>1. Dis!TypeOK'
  BY DEF Dis!Inv, Dis!TypeOK
<1>2. /\ s1'[c] = [status |-> s, resolved |-> b] /\ s4'[c] = h /\ s5'[c] = k
      /\ \A d \in Case \ {c} : s1'[d] = s1[d] /\ s4'[d] = s4[d] /\ s5'[d] = s5[d]
  BY DEF Dis!Inv, Dis!TypeOK
<1>3. ASSUME NEW d \in Case, d \notin s6'
      PROVE  /\ Dis!OfTheService(d)'
             /\ s1'[d] # Dis!noCase =>
                    /\ s4'[d] = s1'[d].status
                    /\ s1'[d].status = "CLOSED" => s1'[d].resolved /\ s5'[d] = "RESOLVED"
  <2>1. CASE d = c
    <3>1. s1'[d] # Dis!noCase => s # "absent"
      BY <1>2, <1>3, <2>1 DEF Dis!noCase
    <3>2. s = "absent" => s1'[d] = Dis!noCase
      BY <1>2, <1>3, <2>1 DEF Dis!noCase
    <3>3. s1'[d].status = s /\ s1'[d].resolved = b
      BY <1>2, <2>1
    <3> QED
      BY <1>2, <1>3, <2>1, <3>1, <3>2, <3>3 DEF Dis!OfTheService
  <2>2. CASE d # c
    BY <1>2, <1>3, <2>2
       DEF Dis!Inv, Dis!OfTheService, Dis!HistoryTellsStatus, Dis!noCase
  <2> QED
    BY <2>1, <2>2
<1>4. (\A d \in Case \ s6 : Dis!OfTheService(d))' /\ Dis!HistoryTellsStatus'
  BY <1>3 DEF Dis!HistoryTellsStatus, Dis!noCase
<1> QED
  BY <1>1, <1>4 DEF Dis!Inv

\* The history repeats the status a case has, and nothing else is written of any case.
LEMMA CaseAnnotated ==
    ASSUME Dis!Inv, NEW c, s4' = [s4 EXCEPT ![c] = s1[c].status], UNCHANGED <<s1, s5, s6>>
    PROVE  Dis!Inv'
<1>1. \A d \in Case : s4'[d] = IF d = c THEN s1[d].status ELSE s4[d]
  BY DEF Dis!Inv, Dis!TypeOK
<1>2. Dis!TypeOK'
  <2>1. \A d \in Case : s1[d].status \in Dis!CASE_STATUS \cup {"absent"}
    BY DEF Dis!Inv, Dis!TypeOK
  <2>2. s4' = [d \in Case |-> s4'[d]]
    BY DEF Dis!Inv, Dis!TypeOK
  <2>3. \A d \in Case : s4'[d] \in Dis!CASE_STATUS \cup {"none", "absent"}
    BY <1>1, <2>1 DEF Dis!Inv, Dis!TypeOK
  <2> QED
    BY <2>2, <2>3 DEF Dis!Inv, Dis!TypeOK
<1>3. Dis!HistoryTellsStatus'
  BY <1>1 DEF Dis!Inv, Dis!HistoryTellsStatus, Dis!noCase
<1> QED
  BY <1>2, <1>3 DEF Dis!Inv, Dis!OfTheService, Dis!noCase

LEMMA DisciplineUntouched ==
    ASSUME Dis!Inv, UNCHANGED <<s1, s4, s5, s6>> PROVE Dis!Inv'
BY DEF Dis!Inv, Dis!TypeOK, Dis!OfTheService, Dis!HistoryTellsStatus, Dis!noCase

\* The service moves a case on: what it closes was resolved.
LEMMA CaseMovedOn ==
    ASSUME Dis!Inv, NEW c \in Case,
           NEW s \in {"UNDER_INVESTIGATION", "RESOLVED", "CLOSED", "ACTION_ISSUED", "APPEAL_PENDING"},
           s = "CLOSED" => s1[c].status \in {"RESOLVED", "CANCELLED"},
           Dis!setStatus(c, s)
    PROVE  Dis!Inv'
<1> DEFINE b == s1[c].resolved \/ s = "RESOLVED"
           k == IF s = "CLOSED" THEN s1[c].status ELSE s5[c]
<1>0. /\ s1[c] = [status |-> s1[c].status, resolved |-> s1[c].resolved]
      /\ s1[c].status \in Dis!CASE_STATUS \cup {"absent"} /\ s1[c].resolved \in BOOLEAN
  BY DEF Dis!Inv, Dis!TypeOK
<1>1. /\ s1[c] # Dis!noCase
      /\ s1' = [s1 EXCEPT ![c] = [status |-> s, resolved |-> b]]
      /\ s4' = [s4 EXCEPT ![c] = s] /\ s5' = [s5 EXCEPT ![c] = k] /\ UNCHANGED s6
  BY DEF Dis!setStatus, Dis!recordHistory, Dis!Inv, Dis!TypeOK
<1>3. s \in Dis!CASE_STATUS /\ b \in BOOLEAN /\ k \in Dis!CASE_STATUS \cup {"none", "absent"}
  BY <1>0 DEF Dis!Inv, Dis!TypeOK, Dis!CASE_STATUS
<1>4. ASSUME c \notin s6
      PROVE  /\ s \in {"RESOLVED", "CLOSED"} => b
             /\ s = "CLOSED" => k = "RESOLVED"
  BY <1>4 DEF Dis!Inv, Dis!OfTheService
<1> HIDE DEF b, k
<1> QED
  BY <1>1, <1>3, <1>4, CaseWritten

\* A lead writes the status, and that it was a lead is remembered.
LEMMA CaseEdited ==
    ASSUME Dis!Inv, NEW c \in Case, NEW s \in Dis!CASE_STATUS,
           s1' = [s1 EXCEPT ![c].status = s], s6' = s6 \cup {c}, UNCHANGED <<s4, s5>>
    PROVE  Dis!Inv'
<1> DEFINE b == s1[c].resolved
           h == s4[c]
           k == s5[c]
<1>1. /\ b \in BOOLEAN
      /\ h \in Dis!CASE_STATUS \cup {"none", "absent"} /\ s4' = [s4 EXCEPT ![c] = h]
      /\ k \in Dis!CASE_STATUS \cup {"none", "absent"} /\ s5' = [s5 EXCEPT ![c] = k]
  BY DEF Dis!Inv, Dis!TypeOK
<1>2. s1' = [s1 EXCEPT ![c] = [status |-> s, resolved |-> b]]
  BY CaseStatusWritten
<1>3. /\ s \in Dis!CASE_STATUS \cup {"absent"} /\ s6 \subseteq s6' /\ c \in s6'
      /\ \A d \in Case \ {c} : d \in s6' => d \in s6
  OBVIOUS
<1> HIDE DEF b, h, k
<1> QED
  BY <1>1, <1>2, <1>3, CaseWritten

LEMMA CaseServed == ASSUME Dis!Inv, NEW c \in Case, Dis!Service(c) PROVE Dis!Inv'
<1>1. ASSUME NEW a \in Action, Dis!createCase(c, a) PROVE Dis!Inv'
  <2>1. /\ s1[c] = [status |-> "absent", resolved |-> FALSE]
        /\ s1' = [s1 EXCEPT ![c].status = "OPEN"] /\ s4' = [s4 EXCEPT ![c] = "OPEN"]
        /\ UNCHANGED <<s5, s6>>
    BY <1>1 DEF Dis!createCase, Dis!recordHistory, Dis!noCase
  <2> DEFINE b == s1[c].resolved
             k == s5[c]
  <2>2. s1' = [s1 EXCEPT ![c] = [status |-> "OPEN", resolved |-> b]]
    BY <2>1, CaseStatusWritten
  <2>3. b \in BOOLEAN
    BY <2>1
  <2>4. /\ s5' = [s5 EXCEPT ![c] = k] /\ k \in Dis!CASE_STATUS \cup {"none", "absent"}
        /\ "OPEN" \in Dis!CASE_STATUS
    BY <2>1 DEF Dis!Inv, Dis!TypeOK, Dis!CASE_STATUS
  <2>5. s4' = [s4 EXCEPT ![c] = "OPEN"] /\ UNCHANGED s6
    BY <2>1
  <2> HIDE DEF b, k
  <2> QED
    BY <2>2, <2>3, <2>4, <2>5, CaseWritten
<1>2. CASE Dis!annotate(c) \/ Dis!updateCase(c)
  BY <1>2, CaseAnnotated DEF Dis!annotate, Dis!updateCase, Dis!recordHistory
<1>3. CASE Dis!startInvestigation(c) \/ Dis!reopenCase(c) \/ Dis!resolveCase(c)
  BY <1>3, CaseMovedOn DEF Dis!startInvestigation, Dis!reopenCase, Dis!resolveCase
<1>4. CASE Dis!closeCase(c)
  BY <1>4, CaseMovedOn DEF Dis!closeCase
<1>5. ASSUME NEW a \in Action, NEW s \in {"PENDING", "ACTIVE"}, Dis!issueAction(a, c, s)
      PROVE  Dis!Inv'
  BY <1>5, CaseMovedOn DEF Dis!issueAction
<1>6. ASSUME NEW p \in Appeal, Dis!submitAppeal(p, c) PROVE Dis!Inv'
  BY <1>6, CaseMovedOn DEF Dis!submitAppeal
<1> QED
  BY <1>1, <1>2, <1>3, <1>4, <1>5, <1>6 DEF Dis!Service

LEMMA DisciplineStep == ASSUME Dis!Inv, Dis!Next PROVE Dis!Inv'
<1>1. ASSUME NEW c \in Case, Dis!Portal(c) PROVE Dis!Inv'
  <2>1. /\ \E s \in Dis!CASE_STATUS : s1' = [s1 EXCEPT ![c].status = s]
        /\ s6' = s6 \cup {c} /\ UNCHANGED <<s4, s5>>
    BY <1>1 DEF Dis!Portal, Dis!portalCreates, Dis!portalWrites, Dis!portalCloses, Dis!CASE_STATUS
  <2> QED
    BY <2>1, CaseEdited
<1>2. ASSUME NEW a \in Action, Dis!revokeAction(a) PROVE Dis!Inv'
  BY <1>2, CaseAnnotated DEF Dis!revokeAction, Dis!recordHistory
<1>3. ASSUME NEW a \in Action, NEW s \in {"ACKNOWLEDGED", "REFUSED"}, Dis!acknowledgeAction(a, s)
      PROVE  Dis!Inv'
  BY <1>3, CaseAnnotated DEF Dis!acknowledgeAction, Dis!recordHistory
<1>4. ASSUME NEW p \in Appeal, NEW d \in {"APPROVED", "REJECTED"}, Dis!reviewAppeal(p, d)
      PROVE  Dis!Inv'
  <2>1. Dis!nextStatus(d) \in {"UNDER_INVESTIGATION", "ACTION_ISSUED"}
    BY DEF Dis!nextStatus
  <2>2. Dis!setStatus(s3[p].case, Dis!nextStatus(d))
    BY <1>4 DEF Dis!reviewAppeal
  <2>3. CASE s3[p].case \in Case
    BY <2>1, <2>2, <2>3, CaseMovedOn
  <2>4. CASE s3[p].case \notin Case
    BY <2>1, <2>2, <2>4, DisciplineUntouched
       DEF Dis!setStatus, Dis!recordHistory, Dis!Inv, Dis!TypeOK
  <2> QED
    BY <2>3, <2>4
<1> QED
  BY <1>1, <1>2, <1>3, <1>4, CaseServed DEF Dis!Next

LEMMA DisciplineKept ==
    ASSUME Dis!Inv, UNCHANGED <<s1, s2, s3, s4, s5, s6, s7>> PROVE Dis!Inv'
BY DisciplineUntouched

---------------------------------------------------------------------------
(* Targets. *)

LEMMA TargetsStart == Tar!Init => Tar!Inv
<1>1. DOMAIN Tar!noTarget = Tar!Field /\ Tar!noTarget.goal = 1 /\ Tar!noTarget.status = "absent"
  BY DEF Tar!noTarget, Tar!Field
<1> QED
  BY <1>1 DEF Tar!Init, Tar!Inv, Tar!WellFormed, Tar!CompletedIsReached, Tar!found

\* A row is complete at its goal, and at its goal complete or held.
TargetTells(r) ==
    /\ r.status = "COMPLETED" => Tar!reached(r)
    /\ Tar!reached(r) => r.status \in Tar!Held \cup {"COMPLETED"}

LEMMA TargetWritten ==
    ASSUME Tar!Inv, NEW t \in Target, NEW r, Tar!WellFormed(r),
           s1' = [s1 EXCEPT ![t] = r], s4 \subseteq s4', s5 \subseteq s5',
           \/ t \in s4'
           \/ TargetTells(r)
           \/ t \in s5' /\ (r.status = "COMPLETED" => Tar!reached(r))
    PROVE  Tar!Inv'
<1>1. s1'[t] = r /\ \A u \in Target \ {t} : s1'[u] = s1[u]
  BY DEF Tar!Inv
<1>2. (s1 = [u \in Target |-> s1[u]])'
  BY DEF Tar!Inv
<1>3. \A u \in Target : Tar!WellFormed(s1[u])'
  BY <1>1 DEF Tar!Inv, Tar!WellFormed
<1>4. ASSUME NEW u \in Target \ s4', Tar!found(u)'
      PROVE  /\ s1'[u].status = "COMPLETED" => Tar!reached(s1'[u])
             /\ Tar!reached(s1'[u]) => s1'[u].status \in Tar!Held \cup {"COMPLETED"} \/ u \in s5'
  <2>1. CASE u = t
    BY <1>1, <1>4, <2>1 DEF TargetTells
  <2>2. CASE u # t
    BY <1>1, <1>4, <2>2 DEF Tar!Inv, Tar!CompletedIsReached, Tar!found
  <2> QED
    BY <2>1, <2>2
<1>5. Tar!CompletedIsReached'
  BY <1>4 DEF Tar!CompletedIsReached, Tar!found, Tar!reached
<1> QED
  BY <1>2, <1>3, <1>5 DEF Tar!Inv

LEMMA TargetsUntouched == ASSUME Tar!Inv, UNCHANGED <<s1, s4, s5>> PROVE Tar!Inv'
BY DEF Tar!Inv, Tar!WellFormed, Tar!CompletedIsReached, Tar!found, Tar!reached

LEMMA TargetsKept == ASSUME Tar!Inv, UNCHANGED <<s1, s2, s3, s4, s5, s6, s7>> PROVE Tar!Inv'
BY TargetsUntouched

\* What resolveStatus makes of a row tells what the row has reached.
LEMMA StatusResolved ==
    ASSUME NEW r, DOMAIN r = Tar!Field
    PROVE  /\ TargetTells([r EXCEPT !.status = Tar!resolveStatus(r)])
           /\ \A b : TargetTells([r EXCEPT !.status = Tar!resolveStatus(r), !.completedAt = b])
<1> DEFINE s == Tar!resolveStatus(r)
<1>1. /\ s = "COMPLETED" => Tar!reached(r)
      /\ Tar!reached(r) => s \in Tar!Held \cup {"COMPLETED"}
  BY DEF Tar!resolveStatus, Tar!Held
<1> HIDE DEF s
<1>2. ASSUME NEW q, q.status = s, q.value = r.value, q.goal = r.goal PROVE TargetTells(q)
  BY <1>1, <1>2 DEF TargetTells, Tar!reached
<1>3. ASSUME NEW q, q = [r EXCEPT !.status = s]
      PROVE  q.status = s /\ q.value = r.value /\ q.goal = r.goal
  BY <1>3 DEF Tar!Field
<1>4. ASSUME NEW b, NEW q, q = [r EXCEPT !.status = s, !.completedAt = b]
      PROVE  q.status = s /\ q.value = r.value /\ q.goal = r.goal
  BY <1>4 DEF Tar!Field
<1> QED
  BY <1>2, <1>3, <1>4 DEF s

LEMMA TargetCreated ==
    ASSUME Tar!Inv, NEW t \in Target, NEW s, NEW g \in Tar!Goals, NEW l, NEW es,
           Tar!createTarget(t, s, g, l, es)
    PROVE  Tar!Inv'
<1> DEFINE given == [Tar!noTarget EXCEPT !.status = s, !.goal = g, !.late = l]
           made == [given EXCEPT !.status = Tar!resolveStatus(given)]
<1>1. s1' = [s1 EXCEPT ![t] = made] /\ UNCHANGED <<s4, s5>>
  BY DEF Tar!createTarget, Tar!write
<1>2. DOMAIN given = Tar!Field /\ given.goal = g
  BY DEF Tar!noTarget, Tar!Field
<1>3. g \in Nat \ {0}
  BY DEF Tar!Goals
<1> HIDE DEF given
<1>4. DOMAIN made = Tar!Field /\ made.goal = g
  BY <1>2 DEF Tar!Field
<1>5. TargetTells(made)
  BY <1>2, StatusResolved
<1> HIDE DEF made
<1>6. Tar!WellFormed(made)
  BY <1>3, <1>4 DEF Tar!WellFormed
<1> QED
  BY <1>1, <1>5, <1>6, TargetWritten

\* A value, a goal and an end are written, and the status they call for.
LEMMA TargetNormalized ==
    ASSUME Tar!Inv, NEW t \in Target, NEW r, DOMAIN r = Tar!Field, r.goal \in Nat \ {0}, NEW b,
           s1' = [s1 EXCEPT ![t] = [r EXCEPT !.status = Tar!resolveStatus(r), !.completedAt = b]],
           UNCHANGED <<s4, s5>>
    PROVE  Tar!Inv'
<1> DEFINE made == [r EXCEPT !.status = Tar!resolveStatus(r), !.completedAt = b]
<1>1. DOMAIN made = Tar!Field /\ made.goal = r.goal
  BY DEF Tar!Field
<1>2. TargetTells(made)
  BY StatusResolved
<1>3. s1' = [s1 EXCEPT ![t] = made]
  OBVIOUS
<1> HIDE DEF made
<1>4. Tar!WellFormed(made)
  BY <1>1 DEF Tar!WellFormed
<1> QED
  BY <1>2, <1>3, <1>4, TargetWritten

LEMMA TargetUpdated ==
    ASSUME Tar!Inv, NEW t \in Target, NEW v, NEW g \in Tar!Goals, NEW l,
           Tar!updateTarget(t, v, g, l)
    PROVE  Tar!Inv'
<1> DEFINE r == [s1[t] EXCEPT !.value = v, !.goal = g, !.late = l]
           b == Tar!reached(r)
<1>1. s1' = [s1 EXCEPT ![t] = [r EXCEPT !.status = Tar!resolveStatus(r), !.completedAt = b]]
  BY DEF Tar!updateTarget, Tar!write, Tar!normalized
<1>2. DOMAIN r = Tar!Field /\ r.goal = g
  BY DEF Tar!Inv, Tar!WellFormed, Tar!Field
<1>3. g \in Nat \ {0} /\ UNCHANGED <<s4, s5>>
  BY DEF Tar!Goals, Tar!updateTarget
<1> HIDE DEF r, b
<1> QED
  BY <1>1, <1>2, <1>3, TargetNormalized

LEMMA ProgressUpdated ==
    ASSUME Tar!Inv, NEW t \in Target, NEW v, Tar!updateProgress(t, v)
    PROVE  Tar!Inv'
<1> DEFINE r == [s1[t] EXCEPT !.value = Tar!progressOf(t, v)]
           b == Tar!reached(r)
<1>1. s1' = [s1 EXCEPT ![t] = [r EXCEPT !.status = Tar!resolveStatus(r), !.completedAt = b]]
  BY DEF Tar!updateProgress, Tar!write
<1>2. DOMAIN r = Tar!Field /\ r.goal \in Nat \ {0}
  BY DEF Tar!Inv, Tar!WellFormed, Tar!Field
<1>3. UNCHANGED <<s4, s5>>
  BY DEF Tar!updateProgress
<1> HIDE DEF r, b
<1> QED
  BY <1>1, <1>2, <1>3, TargetNormalized

LEMMA InternUpdates ==
    ASSUME Tar!Inv, NEW t \in Target, NEW v, Tar!internUpdatesProgress(t, v)
    PROVE  Tar!Inv'
<1> DEFINE r == [s1[t] EXCEPT !.value = v]
           s == IF Tar!reached(r) THEN "COMPLETED" ELSE s1[t].status
           made == [r EXCEPT !.status = s]
<1>1. /\ s1[t].status \notin Tar!Held \cup {"COMPLETED"}
      /\ DOMAIN s1[t] = Tar!Field /\ s1[t].goal \in Nat \ {0} /\ UNCHANGED <<s4, s5>>
  BY DEF Tar!internUpdatesProgress, Tar!Inv, Tar!WellFormed
<1>2. r.status = s1[t].status /\ DOMAIN r = Tar!Field /\ r.goal = s1[t].goal /\ r.value = v
  BY <1>1 DEF Tar!Field
<1>3. s1' = [s1 EXCEPT ![t] = made]
  BY <1>2 DEF Tar!internUpdatesProgress, Tar!write
<1>4. made.status = s /\ DOMAIN made = Tar!Field /\ made.goal = r.goal /\ made.value = r.value
  BY <1>2 DEF Tar!Field
<1>5. TargetTells(made)
  <2> HIDE DEF made, r
  <2> QED
    BY <1>1, <1>4 DEF TargetTells, Tar!reached
<1> HIDE DEF made, r
<1>6. Tar!WellFormed(made)
  BY <1>1, <1>2, <1>4 DEF Tar!WellFormed
<1> QED
  BY <1>1, <1>3, <1>5, <1>6, TargetWritten

LEMMA TargetHeldOrResumed ==
    ASSUME Tar!Inv, NEW t \in Target, NEW s, Tar!setTargetStatus(t, s)
    PROVE  Tar!Inv'
<1> DEFINE made == [s1[t] EXCEPT !.status = s]
<1>1. /\ s \in {"PAUSED", "ACTIVE", "CANCELLED"} /\ s1' = [s1 EXCEPT ![t] = made]
      /\ s5' = (IF s = "ACTIVE" THEN s5 \cup {t} ELSE s5) /\ UNCHANGED s4
  BY DEF Tar!setTargetStatus, Tar!write
<1>2. /\ DOMAIN made = Tar!Field /\ made.status = s /\ made.goal = s1[t].goal
      /\ s1[t].goal \in Nat \ {0}
  BY DEF Tar!Inv, Tar!WellFormed, Tar!Field
<1> HIDE DEF made
<1>3. Tar!WellFormed(made)
  BY <1>2 DEF Tar!WellFormed
<1>4. s # "ACTIVE" => TargetTells(made)
  BY <1>1, <1>2 DEF TargetTells, Tar!Held
<1>5. s5 \subseteq s5' /\ (s = "ACTIVE" => t \in s5')
  BY <1>1
<1> QED
  BY <1>1, <1>2, <1>3, <1>4, <1>5, TargetWritten

LEMMA TargetLate ==
    ASSUME Tar!Inv, NEW t \in Target, Tar!timePasses(t)
    PROVE  Tar!Inv'
<1> DEFINE made == [s1[t] EXCEPT !.late = TRUE]
<1>1. /\ Tar!found(t) /\ s1' = [s1 EXCEPT ![t] = made] /\ UNCHANGED <<s4, s5>>
  BY DEF Tar!timePasses, Tar!write
<1>2. /\ DOMAIN made = Tar!Field /\ made.status = s1[t].status /\ made.goal = s1[t].goal
      /\ made.value = s1[t].value /\ s1[t].goal \in Nat \ {0}
  BY DEF Tar!Inv, Tar!WellFormed, Tar!Field
<1> HIDE DEF made
<1>3. Tar!WellFormed(made)
  BY <1>2 DEF Tar!WellFormed
<1>4. ASSUME t \notin s4
      PROVE  \/ TargetTells(made)
             \/ t \in s5 /\ (made.status = "COMPLETED" => Tar!reached(made))
  BY <1>1, <1>2, <1>4 DEF Tar!Inv, Tar!CompletedIsReached, TargetTells, Tar!reached
<1> QED
  BY <1>1, <1>3, <1>4, TargetWritten

LEMMA LeadsWrite == ASSUME Tar!Inv, NEW t \in Target, Tar!Leads(t) PROVE Tar!Inv'
<1>1. s4' = s4 \cup {t} /\ UNCHANGED s5
  BY DEF Tar!Leads, Tar!createScopedRecord, Tar!writeScopedRecord, Tar!updateTargetProgress,
         Tar!completeTarget
<1>2. DOMAIN s1[t] = Tar!Field /\ s1[t].goal \in Nat \ {0}
  BY DEF Tar!Inv, Tar!WellFormed
<1>3. ASSUME NEW r, Tar!WellFormed(r), s1' = [s1 EXCEPT ![t] = r] PROVE Tar!Inv'
  BY <1>1, <1>3, TargetWritten
<1>4. ASSUME NEW s, NEW g \in Tar!Goals, NEW b, Tar!createScopedRecord(t, s, g, b) PROVE Tar!Inv'
  <2> DEFINE r == [Tar!noTarget EXCEPT !.status = s, !.goal = g, !.fromTasks = b]
  <2>1. s1' = [s1 EXCEPT ![t] = r] /\ g \in Nat \ {0}
    BY <1>4 DEF Tar!createScopedRecord, Tar!write, Tar!Goals
  <2>2. DOMAIN r = Tar!Field /\ r.goal = g
    BY DEF Tar!noTarget, Tar!Field
  <2> HIDE DEF r
  <2> QED
    BY <1>3, <2>1, <2>2 DEF Tar!WellFormed
<1>5. ASSUME NEW s, Tar!writeScopedRecord(t, s) PROVE Tar!Inv'
  <2> DEFINE r == [s1[t] EXCEPT !.status = s]
  <2>1. s1' = [s1 EXCEPT ![t] = r]
    BY <1>5 DEF Tar!writeScopedRecord, Tar!write
  <2>2. DOMAIN r = Tar!Field /\ r.goal = s1[t].goal
    BY <1>2 DEF Tar!Field
  <2> HIDE DEF r
  <2> QED
    BY <1>2, <1>3, <2>1, <2>2 DEF Tar!WellFormed
<1>6. ASSUME NEW v, NEW done, Tar!updateTargetProgress(t, v, done) PROVE Tar!Inv'
  <2> DEFINE s == IF done THEN "COMPLETED" ELSE s1[t].status
             r == [s1[t] EXCEPT !.value = v, !.status = s]
  <2>1. s1' = [s1 EXCEPT ![t] = r]
    BY <1>2, <1>6 DEF Tar!updateTargetProgress, Tar!write, Tar!Field
  <2>2. DOMAIN r = Tar!Field /\ r.goal = s1[t].goal
    BY <1>2 DEF Tar!Field
  <2> HIDE DEF r
  <2> QED
    BY <1>2, <1>3, <2>1, <2>2 DEF Tar!WellFormed
<1>7. CASE Tar!completeTarget(t)
  <2> DEFINE r == [s1[t] EXCEPT !.status = "COMPLETED", !.completedAt = TRUE]
  <2>1. s1' = [s1 EXCEPT ![t] = r]
    BY <1>7 DEF Tar!completeTarget, Tar!write
  <2>2. DOMAIN r = Tar!Field /\ r.goal = s1[t].goal
    BY <1>2 DEF Tar!Field
  <2> HIDE DEF r
  <2> QED
    BY <1>2, <1>3, <2>1, <2>2 DEF Tar!WellFormed
<1> QED
  BY <1>4, <1>5, <1>6, <1>7 DEF Tar!Leads

LEMMA TargetsStep == ASSUME Tar!Inv, Tar!Next PROVE Tar!Inv'
<1>1. ASSUME NEW t \in Target, Tar!Service(t) PROVE Tar!Inv'
  <2>1. CASE \E es : Tar!assignTarget(t, es)
    BY <2>1, TargetsUntouched DEF Tar!assignTarget
  <2>2. CASE \E e \in Employee : Tar!unassignTarget(t, e)
    BY <2>2, TargetsUntouched DEF Tar!unassignTarget
  <2> QED
    BY <1>1, <2>1, <2>2, TargetCreated, TargetUpdated, ProgressUpdated, InternUpdates,
       TargetHeldOrResumed DEF Tar!Service
<1>2. ASSUME NEW k \in Task, \/ \E t \in Target : Tar!createTask(k, t)
                             \/ Tar!completeTask(k)
                             \/ \E done \in BOOLEAN : Tar!updateTaskProgress(k, done)
      PROVE  Tar!Inv'
  BY <1>2, TargetsUntouched
     DEF Tar!createTask, Tar!completeTask, Tar!updateTaskProgress, Tar!updateTask
<1> QED
  BY <1>1, <1>2, LeadsWrite, TargetLate DEF Tar!Next

\* The history of a case that no lead wrote ends with the status it has; and a target whose
\* status no lead wrote is complete at its goal, and at its goal complete, held or resumed
\* by hand; however cases, appeals, goals and tasks follow each other, of any number.
THEOREM StatusExplained == WorkflowsSpec => []StatusIsExplained
<1> DEFINE I == /\ part = "discipline" => Dis!Inv
                /\ part = "targets" => Tar!Inv
<1>1. WorkflowsInit => I
  BY DisciplineStart, TargetsStart DEF WorkflowsInit
<1>2. I /\ [WorkflowsNext]_<<part, s1, s2, s3, s4, s5, s6, s7, vars>> => I'
  <2>1. ASSUME WorkflowsNext
        PROVE  /\ part' = part
               /\ part = "discipline" => Dis!Next
               /\ part = "targets" => Tar!Next
    BY <2>1 DEF WorkflowsNext, paymentsRest
  <2> QED
    BY <2>1, DisciplineStep, DisciplineKept, TargetsStep, TargetsKept
<1>3. I => StatusIsExplained
  BY DEF StatusIsExplained, Dis!Inv, Tar!Inv
<1> QED
  BY <1>1, <1>2, <1>3, PTL DEF WorkflowsSpec

---------------------------------------------------------------------------
(* Connections: of providers whose tokens are renewed, R, and of the others. *)

LEMMA NoneIsNoToken == None \notin Grant \cup Provider \cup State
BY WorkflowsAssumption DEF Con!ConnectionsConstants

LEMMA ConnectionsStart == ASSUME NEW R, Con(R)!Init PROVE Con(R)!Inv
BY NoneIsNoToken
   DEF Con!Init, Con!Inv, Con!TypeOK, Con!Row, Con!Waiter, Con!Whole, Con!CallAgrees,
       Con!noConnection, Con!idle, Con!waiter

LEMMA ConnectionsUntouched == ASSUME NEW R, Con(R)!Inv, UNCHANGED <<s1, s2, s3, s4>> PROVE Con(R)!Inv'
BY DEF Con!Inv, Con!TypeOK, Con!Whole, Con!CallAgrees

\* One connection and one call are written: the connection is whole unless it is overtaken,
\* and has a token if another call needs one; the call agrees with its connection.
LEMMA ConnectionsAgree ==
    ASSUME NEW R, Con(R)!Inv, Con(R)!TypeOK', NEW p, NEW c,
           \A q \in Provider \ {p} : s1'[q] = s1[q] /\ (q \in s4' <=> q \in s4),
           p \in Provider \ s4' => Con(R)!Whole(p)',
           p \notin s4' => \A d \in Call \ {c} :
               s3[d].at \in {"refreshing", "testing", "using"} /\ s3[d].of = p
                   => s1'[p].access # None,
           \A d \in Call \ {c} : s3'[d] = s3[d],
           c \in Call => Con(R)!CallAgrees(c)',
           \A s \in State : s2[s].at = "used" => s2'[s].at = "used",
           c \in Call /\ s3'[c].state # None =>
               \A d \in Call \ {c} : s3[d].state # s3'[c].state
    PROVE  Con(R)!Inv'
<1>1. ASSUME NEW q \in Provider \ s4' PROVE Con(R)!Whole(q)'
  <2>1. CASE q = p
    BY <2>1
  <2>2. CASE q # p
    BY <1>1, <2>2 DEF Con!Inv, Con!Whole
  <2> QED
    BY <2>1, <2>2
<1>2. ASSUME NEW d \in Call PROVE Con(R)!CallAgrees(d)'
  <2>1. CASE d = c
    BY <1>2, <2>1
  <2>2. CASE d # c
    <3>1. s3'[d] = s3[d] /\ Con(R)!CallAgrees(d)
      BY <1>2, <2>2 DEF Con!Inv
    <3>2. s3[d].state # None => s3[d].state \in State
      BY <1>2 DEF Con!Inv, Con!TypeOK, Con!Waiter
    <3>3. s3[d].at \in {"refreshing", "testing", "using"} /\ s3[d].of \notin s4'
              => s1'[s3[d].of].access # None
      <4>1. CASE s3[d].of = p
        BY <2>2, <4>1
      <4>2. CASE s3[d].of # p
        BY <3>1, <4>2 DEF Con!CallAgrees
      <4> QED
        BY <4>1, <4>2
    <3> QED
      BY <3>1, <3>2, <3>3 DEF Con!CallAgrees
  <2> QED
    BY <2>1, <2>2
<1>3. \A b, d \in Call : s3'[b].state = s3'[d].state /\ b # d => s3'[b].state = None
  BY DEF Con!Inv
<1> QED
  BY <1>1, <1>2, <1>3 DEF Con!Inv

\* The connection of a provider alone is written, and a call ends.
LEMMA ConnectionWritten ==
    ASSUME NEW R, Con(R)!Inv, NEW p \in Provider, NEW c,
           s1' = [s1 EXCEPT ![p] = s1'[p]], s1'[p] \in Con(R)!Row,
           UNCHANGED s2, \A q \in Provider \ {p} : q \in s4' <=> q \in s4,
           s3' \in [Call -> Con(R)!Waiter], \A d \in Call \ {c} : s3'[d] = s3[d],
           c \in Call => s3'[c] = s3[c] \/ s3'[c] = Con(R)!idle,
           p \notin s4' => Con(R)!Whole(p)',
           p \notin s4' =>
               \A d \in Call : s3'[d].at \in {"refreshing", "testing", "using"} /\ s3'[d].of = p
                   => s1'[p].access # None
    PROVE  Con(R)!Inv'
<1>1. Con(R)!TypeOK'
  BY DEF Con!Inv, Con!TypeOK
<1>2. \A q \in Provider \ {p} : s1'[q] = s1[q]
  BY DEF Con!Inv, Con!TypeOK
<1>3. ASSUME c \in Call, s3'[c] = Con(R)!idle PROVE Con(R)!CallAgrees(c)'
  BY <1>3 DEF Con!CallAgrees, Con!idle, Con!waiter
<1>4. ASSUME c \in Call, s3'[c] = s3[c] PROVE Con(R)!CallAgrees(c)'
  <2>1. Con(R)!CallAgrees(c)
    BY <1>4 DEF Con!Inv
  <2>2. s3[c].at \in {"refreshing", "testing", "using"} /\ s3[c].of \notin s4'
            => s1'[s3[c].of].access # None
    <3>1. CASE s3[c].of = p
      BY <1>4, <3>1
    <3>2. CASE s3[c].of # p
      BY <1>2, <2>1, <3>2 DEF Con!CallAgrees
    <3> QED
      BY <3>1, <3>2
  <2> QED
    BY <1>4, <2>1, <2>2 DEF Con!CallAgrees
<1>5. c \in Call /\ s3'[c].state # None => \A d \in Call \ {c} : s3[d].state # s3'[c].state
  BY DEF Con!Inv, Con!idle, Con!waiter
<1>6. p \notin s4' => \A d \in Call \ {c} :
          s3[d].at \in {"refreshing", "testing", "using"} /\ s3[d].of = p => s1'[p].access # None
  OBVIOUS
<1>7. \A q \in Provider \ {p} : s1'[q] = s1[q] /\ (q \in s4' <=> q \in s4)
  BY <1>2
<1>8. \A s \in State : s2[s].at = "used" => s2'[s].at = "used"
  OBVIOUS
<1> QED
  BY <1>1, <1>3, <1>4, <1>5, <1>6, <1>7, <1>8, ConnectionsAgree

\* A call alone is written, and perhaps the state it uses.
LEMMA CallWritten ==
    ASSUME NEW R, Con(R)!Inv, NEW c,
           s3' = [s3 EXCEPT ![c] = s3'[c]], c \in Call => s3'[c] \in Con(R)!Waiter,
           UNCHANGED <<s1, s4>>,
           s2' \in [State -> [at : {"free", "issued", "used"}, of : Provider \cup {None}]],
           \A s \in State : s2[s].at = "used" => s2'[s].at = "used",
           c \in Call => Con(R)!CallAgrees(c)',
           c \in Call /\ s3'[c].state # None =>
               \A d \in Call \ {c} : s3[d].state # s3'[c].state
    PROVE  Con(R)!Inv'
<1>1. Con(R)!TypeOK'
  BY DEF Con!Inv, Con!TypeOK
<1>2. \A d \in Call \ {c} : s3'[d] = s3[d]
  BY DEF Con!Inv, Con!TypeOK
<1>3. \A d \in Call : ~(s3[d].at \in {"refreshing", "testing", "using"} /\ s3[d].of = None)
  BY NoneIsNoToken DEF Con!Inv, Con!CallAgrees
<1>4. \A q \in Provider \ {None} : s1'[q] = s1[q] /\ (q \in s4' <=> q \in s4)
  OBVIOUS
<1>5. None \in Provider \ s4' => Con(R)!Whole(None)'
  BY NoneIsNoToken
<1>6. None \notin s4' => \A d \in Call \ {c} :
          s3[d].at \in {"refreshing", "testing", "using"} /\ s3[d].of = None => s1'[None].access # None
  BY <1>3
<1> QED
  BY <1>1, <1>2, <1>4, <1>5, <1>6, ConnectionsAgree

LEMMA ConnectionRow ==
    ASSUME NEW R, Con(R)!Inv, NEW p \in Provider
    PROVE  /\ s1[p] = [status |-> s1[p].status, access |-> s1[p].access,
                       refresh |-> s1[p].refresh, late |-> s1[p].late]
           /\ s1[p] \in Con(R)!Row
           /\ p \notin s4 => Con(R)!Whole(p)
BY DEF Con!Inv, Con!TypeOK, Con!Row

LEMMA CallRow ==
    ASSUME NEW R, Con(R)!Inv, NEW c \in Call
    PROVE  /\ Con(R)!CallAgrees(c)
           /\ s3[c].refresh \in Grant \cup {None} /\ s3[c].state \in State \cup {None}
BY DEF Con!Inv, Con!TypeOK, Con!Waiter

LEMMA CallEnds ==
    ASSUME NEW R, Con(R)!Inv, NEW c, Con(R)!ends(c)
    PROVE  /\ s3' \in [Call -> Con(R)!Waiter] /\ s3' = [s3 EXCEPT ![c] = s3'[c]]
           /\ \A d \in Call \ {c} : s3'[d] = s3[d]
           /\ c \in Call => s3'[c] = Con(R)!idle /\ s3'[c] \in Con(R)!Waiter
<1>1. Con(R)!idle \in Con(R)!Waiter
  BY DEF Con!idle, Con!waiter, Con!Waiter
<1> QED
  BY <1>1 DEF Con!ends, Con!Inv, Con!TypeOK

\* A connection keeps its tokens, and gets another status.
LEMMA StatusMarked ==
    ASSUME NEW R, Con(R)!Inv, NEW p \in Provider,
           NEW s \in {"inactive", "active", "expired", "error"}, Con(R)!markStatus(p, s)
    PROVE  /\ s1' = [s1 EXCEPT ![p] = s1'[p]] /\ s1'[p] \in Con(R)!Row
           /\ s1'[p].status = s
           /\ s1'[p].access = s1[p].access /\ s1'[p].refresh = s1[p].refresh
<1> DEFINE r == s1[p]
<1>1. r = [status |-> r.status, access |-> r.access, refresh |-> r.refresh, late |-> r.late]
  BY ConnectionRow
<1>2. r \in Con(R)!Row
  BY ConnectionRow
<1>3. s1' = [s1 EXCEPT ![p] = [r EXCEPT !.status = s]]
  BY DEF Con!markStatus, Con!upsertIntegration
<1> HIDE DEF r
<1>4. [r EXCEPT !.status = s] =
          [status |-> s, access |-> r.access, refresh |-> r.refresh, late |-> r.late]
  BY <1>1
<1> DEFINE q == [status |-> s, access |-> r.access, refresh |-> r.refresh, late |-> r.late]
<1>5. s1' = [s1 EXCEPT ![p] = q]
  BY <1>3, <1>4
<1>6. q \in Con(R)!Row
  BY <1>2 DEF Con!Row
<1>7. q.status = s /\ q.access = r.access /\ q.refresh = r.refresh
  OBVIOUS
<1> HIDE DEF q
<1>8. s1'[p] = q /\ s1' = [s1 EXCEPT ![p] = s1'[p]]
  BY <1>5 DEF Con!Inv, Con!TypeOK
<1> QED
  BY <1>6, <1>7, <1>8 DEF r

\* A call that was answered marks its connection.
LEMMA AnswerMarked ==
    ASSUME NEW R, Con(R)!Inv, NEW c \in Call, s3[c].at \in {"refreshing", "testing", "using"},
           NEW s \in {"active", "expired", "error"},
           Con(R)!markStatus(s3[c].of, s), Con(R)!ends(c), UNCHANGED <<s2, s4>>
    PROVE  Con(R)!Inv'
<1>0. PICK p \in Provider : p = s3[c].of
  BY CallRow DEF Con!CallAgrees
<1>1. p \in Provider /\ (p \notin s4 => s1[p].access # None) /\ Con(R)!markStatus(p, s)
  BY <1>0, CallRow DEF Con!CallAgrees
<1>2. /\ s1' = [s1 EXCEPT ![p] = s1'[p]] /\ s1'[p] \in Con(R)!Row /\ s1'[p].status = s
      /\ s1'[p].access = s1[p].access /\ s1'[p].refresh = s1[p].refresh
  BY <1>1, StatusMarked
<1>3. /\ s3' \in [Call -> Con(R)!Waiter] /\ \A d \in Call \ {c} : s3'[d] = s3[d]
      /\ s3'[c] = Con(R)!idle
  BY CallEnds
<1>4. p \notin s4 => Con(R)!Whole(p)
  BY <1>1, ConnectionRow
<1>5. p \notin s4' => Con(R)!Whole(p)'
  BY <1>1, <1>2, <1>4 DEF Con!Whole
<1>6. p \notin s4' => \A d \in Call :
          s3'[d].at \in {"refreshing", "testing", "using"} /\ s3'[d].of = p => s1'[p].access # None
  BY <1>1, <1>2
<1>7. s4 \subseteq s4' /\ \A q \in Provider \ {p} : q \in s4' => q \in s4
  OBVIOUS
<1> QED
  BY <1>1, <1>2, <1>3, <1>5, <1>6, <1>7, ConnectionWritten

LEMMA StateCreated ==
    ASSUME NEW R, Con(R)!Inv, NEW p \in Provider, NEW s \in State, Con(R)!createOAuthState(p, s)
    PROVE  Con(R)!Inv'
<1>1. /\ s2[s].at = "free" /\ s2' = [s2 EXCEPT ![s] = [at |-> "issued", of |-> p]]
      /\ UNCHANGED <<s1, s3, s4>>
  BY DEF Con!createOAuthState
<1>2. s2' \in [State -> [at : {"free", "issued", "used"}, of : Provider \cup {None}]]
  BY <1>1 DEF Con!Inv, Con!TypeOK
<1>3. \A x \in State : s2[x].at = "used" => s2'[x].at = "used"
  BY <1>1 DEF Con!Inv, Con!TypeOK
<1>4. ASSUME NEW c \in Call PROVE Con(R)!CallAgrees(c)' /\ s3[c] \in Con(R)!Waiter
  BY <1>1, <1>3, CallRow DEF Con!CallAgrees, Con!Inv, Con!TypeOK
<1> QED
  BY <1>1, <1>2, <1>3, <1>4 DEF Con!Inv, Con!TypeOK, Con!Whole

\* A connection is made or taken away as a whole, and nobody waits for it unless it is
\* overtaken.
LEMMA ConnectionChangesHands ==
    ASSUME NEW R, Con(R)!Inv, NEW p \in Provider, NEW r \in Con(R)!Row,
           s1' = [s1 EXCEPT ![p] = r],
           r.status = "active" => r.access # None,
           r.refresh \in {None, r.access},
           r.status = "inactive" => r.access = None,
           p \in s4' \/ ~Con(R)!awaited(p),
           \A q \in Provider \ {p} : q \in s4' <=> q \in s4, UNCHANGED <<s2, s3>>
    PROVE  Con(R)!Inv'
<1>1. s1'[p] = r /\ s1' = [s1 EXCEPT ![p] = s1'[p]]
  BY DEF Con!Inv, Con!TypeOK
<1>2. Con(R)!Whole(p)'
  BY <1>1 DEF Con!Whole
<1>3. s3' \in [Call -> Con(R)!Waiter] /\ \A d \in Call : s3'[d] = s3[d]
  BY DEF Con!Inv, Con!TypeOK
<1>4. p \notin s4' => \A d \in Call : s3'[d].of # p
  BY <1>3 DEF Con!awaited
<1> QED
  BY <1>1, <1>2, <1>3, <1>4, ConnectionWritten

LEMMA ConnectionMade ==
    ASSUME NEW R, Con(R)!Inv, NEW p \in Provider, NEW g \in Grant, NEW r, NEW l \in BOOLEAN,
           Con(R)!connectIntegration(p, g, r, l)
    PROVE  Con(R)!Inv'
<1> DEFINE row == [status |-> "active", access |-> g, refresh |-> r, late |-> l]
<1>1. r \in {g, None} /\ s1' = [s1 EXCEPT ![p] = row] /\ UNCHANGED <<s2, s3>>
  BY DEF Con!connectIntegration, Con!upsertIntegration
<1>2. /\ p \in s4' \/ ~Con(R)!awaited(p)
      /\ \A q \in Provider \ {p} : q \in s4' <=> q \in s4
  BY DEF Con!connectIntegration, Con!changesHands
<1>3. row \in Con(R)!Row /\ row.access # None /\ row.refresh \in {None, row.access}
      /\ row.status = "active"
  BY <1>1, NoneIsNoToken DEF Con!Row
<1> HIDE DEF row
<1> QED
  BY <1>1, <1>2, <1>3, ConnectionChangesHands

LEMMA ConnectionTakenAway ==
    ASSUME NEW R, Con(R)!Inv, NEW p \in Provider,
           Con(R)!disconnectIntegration(p) \/ Con(R)!deleteIntegration(p)
    PROVE  Con(R)!Inv'
<1>1. s1[p].late \in BOOLEAN
  BY DEF Con!Inv, Con!TypeOK, Con!Row
<1>2. PICK l \in BOOLEAN :
          s1' = [s1 EXCEPT ![p] = [status |-> "inactive", access |-> None, refresh |-> None, late |-> l]]
  BY <1>1 DEF Con!disconnectIntegration, Con!deleteIntegration, Con!upsertIntegration,
              Con!noConnection
<1> DEFINE row == [status |-> "inactive", access |-> None, refresh |-> None, late |-> l]
<1>3. /\ p \in s4' \/ ~Con(R)!awaited(p)
      /\ \A q \in Provider \ {p} : q \in s4' <=> q \in s4
      /\ UNCHANGED <<s2, s3>>
  BY DEF Con!disconnectIntegration, Con!deleteIntegration, Con!changesHands
<1>4. /\ row \in Con(R)!Row /\ s1' = [s1 EXCEPT ![p] = row]
      /\ row.access = None /\ row.refresh = None /\ row.status = "inactive"
  BY <1>2 DEF Con!Row
<1> HIDE DEF row
<1> QED
  BY <1>3, <1>4, ConnectionChangesHands

\* Tokens stay as they are, and the status, or that they are about to expire, changes:
\* nobody is told that the connection is whole who could not be.
LEMMA ConnectionKeepsTokens ==
    ASSUME NEW R, Con(R)!Inv, NEW p \in Provider,
           s1' = [s1 EXCEPT ![p] = s1'[p]], s1'[p] \in Con(R)!Row,
           s1'[p].access = s1[p].access, s1'[p].refresh = s1[p].refresh,
           \/ p \in s4' \/ s1'[p].status = s1[p].status \/ s1'[p].status = "expired"
           \/ s1'[p].status = "active" /\ s1[p].access # None
           \/ s1'[p].status = "inactive" /\ s1[p].access = None,
           s4 \subseteq s4', \A q \in Provider \ {p} : q \in s4' => q \in s4, UNCHANGED <<s2, s3>>
    PROVE  Con(R)!Inv'
<1>1. p \notin s4' => p \notin s4 /\ Con(R)!Whole(p)
  BY DEF Con!Inv
<1>2. p \notin s4' => Con(R)!Whole(p)'
  BY <1>1 DEF Con!Whole
<1>3. s3' \in [Call -> Con(R)!Waiter] /\ \A d \in Call : s3'[d] = s3[d]
  BY DEF Con!Inv, Con!TypeOK
<1>4. \A d \in Call : Con(R)!CallAgrees(d)
  BY DEF Con!Inv
<1>5. p \notin s4' => \A d \in Call :
          s3'[d].at \in {"refreshing", "testing", "using"} /\ s3'[d].of = p => s1'[p].access # None
  BY <1>1, <1>3, <1>4 DEF Con!CallAgrees
<1> QED
  BY <1>2, <1>3, <1>5, ConnectionWritten

LEMMA ConnectionLate ==
    ASSUME NEW R, Con(R)!Inv, NEW p \in Provider, Con(R)!late(p) PROVE Con(R)!Inv'
<1>0. PICK b \in BOOLEAN : b = TRUE
  OBVIOUS
<1> DEFINE r == s1[p]
           q == [status |-> r.status, access |-> r.access, refresh |-> r.refresh, late |-> b]
<1>1. s1' = [s1 EXCEPT ![p] = [r EXCEPT !.late = b]] /\ UNCHANGED <<s2, s3, s4>>
  BY <1>0 DEF Con!late, Con!upsertIntegration
<1>2. r = [status |-> r.status, access |-> r.access, refresh |-> r.refresh, late |-> r.late]
  BY ConnectionRow
<1>3. r \in Con(R)!Row
  BY ConnectionRow
<1> HIDE DEF r
<1>4. [r EXCEPT !.late = b] = q
  BY <1>2
<1>5. q \in Con(R)!Row /\ q.status = r.status /\ q.access = r.access /\ q.refresh = r.refresh
  BY <1>0, <1>3 DEF Con!Row
<1> HIDE DEF q
<1>6. s1' = [s1 EXCEPT ![p] = q]
  BY <1>1, <1>4
<1>7. s1'[p] = q /\ s1' = [s1 EXCEPT ![p] = s1'[p]]
  BY <1>6 DEF Con!Inv, Con!TypeOK
<1>8. /\ s1'[p] \in Con(R)!Row /\ s1'[p].status = s1[p].status
      /\ s1'[p].access = s1[p].access /\ s1'[p].refresh = s1[p].refresh
  BY <1>5, <1>7 DEF r
<1> QED
  BY <1>1, <1>7, <1>8, ConnectionKeepsTokens

LEMMA SystemUpserts ==
    ASSUME NEW R, Con(R)!Inv, NEW p \in Provider, NEW s \in {"active", "inactive"},
           Con(R)!systemUpserts(p, s)
    PROVE  Con(R)!Inv'
BY StatusMarked, ConnectionKeepsTokens DEF Con!systemUpserts

LEMMA CallbackHandled ==
    ASSUME NEW R, Con(R)!Inv, NEW p \in Provider, NEW c \in Call, NEW s \in State,
           Con(R)!handleOAuthCallback(c, p, s)
    PROVE  Con(R)!Inv'
<1> DEFINE w == [at |-> "exchanging", next |-> "idle", of |-> p, state |-> s, refresh |-> None]
<1>1. /\ s2[s].at = "issued" /\ s2' = [s2 EXCEPT ![s].at = "used"]
      /\ s3' = [s3 EXCEPT ![c] = w] /\ UNCHANGED <<s1, s4>>
  BY DEF Con!handleOAuthCallback, Con!consumeOAuthState, Con!waiter
<1>2. w \in Con(R)!Waiter /\ w.state = s /\ w.at = "exchanging" /\ w.of = p
  BY DEF Con!Waiter
<1> HIDE DEF w
<1>3. s3'[c] = w /\ s3' = [s3 EXCEPT ![c] = s3'[c]]
  BY <1>1 DEF Con!Inv, Con!TypeOK
<1>4. /\ s2' \in [State -> [at : {"free", "issued", "used"}, of : Provider \cup {None}]]
      /\ s2'[s].at = "used" /\ \A x \in State : s2[x].at = "used" => s2'[x].at = "used"
  BY <1>1 DEF Con!Inv, Con!TypeOK
<1>5. ASSUME NEW d \in Call PROVE s3[d].state # s
  <2>1. s # None
    BY NoneIsNoToken
  <2>2. Con(R)!CallAgrees(d)
    BY CallRow
  <2> QED
    BY <1>1, <2>1, <2>2 DEF Con!CallAgrees
<1>6. Con(R)!CallAgrees(c)'
  BY <1>2, <1>3, <1>4 DEF Con!CallAgrees
<1>7. s3'[c] \in Con(R)!Waiter /\ \A d \in Call \ {c} : s3[d].state # s3'[c].state
  BY <1>2, <1>3, <1>5
<1>8. UNCHANGED <<s1, s4>> /\ s3' = [s3 EXCEPT ![c] = s3'[c]]
  BY <1>1, <1>3
<1> QED
  BY <1>4, <1>6, <1>7, <1>8, CallWritten

\* The connection is of the new authorisation: with a refresh token of another, or while
\* others wait for it, it counts as overtaken.
LEMMA CodeExchanged ==
    ASSUME NEW R, Con(R)!Inv, NEW c \in Call, NEW g \in Grant, NEW r, NEW l \in BOOLEAN,
           Con(R)!exchangesCode(c, g, r, l)
    PROVE  Con(R)!Inv'
<1>1. PICK p \in Provider : p = s3[c].of
  BY CallRow DEF Con!exchangesCode, Con!waits, Con!CallAgrees
<1>2. PICK t : t = IF r = None THEN s1[p].refresh ELSE r
  OBVIOUS
<1> DEFINE row == [status |-> "active", access |-> g, refresh |-> t, late |-> l]
<1>3. /\ r \in {g, None} /\ s1' = [s1 EXCEPT ![p] = row] /\ Con(R)!ends(c) /\ UNCHANGED s2
  BY <1>1, <1>2 DEF Con!exchangesCode, Con!upsertIntegration
<1>4. s4' = IF \/ \E d \in Call \ {c} : s3[d].of = p
               \/ r = None /\ s1[p].refresh # None
            THEN s4 \cup {p} ELSE s4 \ {p}
  BY <1>1 DEF Con!exchangesCode
<1>5. t \in Grant \cup {None}
  BY <1>2, <1>3 DEF Con!Inv, Con!TypeOK, Con!Row
<1>6. /\ row \in Con(R)!Row
      /\ row.status = "active" /\ row.access = g /\ row.refresh = t /\ g # None
  BY <1>5, NoneIsNoToken DEF Con!Row
<1> HIDE DEF row
<1>7. s1'[p] = row /\ s1' = [s1 EXCEPT ![p] = s1'[p]]
  BY <1>3 DEF Con!Inv, Con!TypeOK
<1>8. p \notin s4' => Con(R)!Whole(p)'
  BY <1>2, <1>3, <1>4, <1>6, <1>7 DEF Con!Whole
<1>9. /\ s3' \in [Call -> Con(R)!Waiter] /\ \A d \in Call \ {c} : s3'[d] = s3[d]
      /\ s3'[c] = Con(R)!idle
  BY <1>3, CallEnds
<1>10. \A q \in Provider \ {p} : q \in s4' <=> q \in s4
  BY <1>4
<1>11. p \notin s4' => \A d \in Call :
           s3'[d].at \in {"refreshing", "testing", "using"} /\ s3'[d].of = p => s1'[p].access # None
  BY <1>6, <1>7
<1> QED
  BY <1>3, <1>6, <1>7, <1>8, <1>9, <1>10, <1>11, ConnectionWritten

LEMMA CallEnded ==
    ASSUME NEW R, Con(R)!Inv, NEW c \in Call, Con(R)!ends(c), UNCHANGED <<s1, s2, s4>>
    PROVE  Con(R)!Inv'
<1>1. /\ s3' = [s3 EXCEPT ![c] = s3'[c]] /\ s3'[c] = Con(R)!idle /\ s3'[c] \in Con(R)!Waiter
  BY CallEnds
<1>2. s3'[c].at = "idle" /\ s3'[c].state = None /\ s3'[c].of = None
  BY <1>1 DEF Con!idle, Con!waiter
<1>3. Con(R)!CallAgrees(c)'
  BY <1>2 DEF Con!CallAgrees
<1>4. s2' \in [State -> [at : {"free", "issued", "used"}, of : Provider \cup {None}]]
  BY DEF Con!Inv, Con!TypeOK
<1>5. \A x \in State : s2[x].at = "used" => s2'[x].at = "used"
  OBVIOUS
<1> QED
  BY <1>1, <1>2, <1>3, <1>4, <1>5, CallWritten

LEMMA IntegrationActive ==
    ASSUME NEW R, Con(R)!Inv, NEW p \in Provider, NEW c \in Call,
           NEW next \in {"testing", "using"}, Con(R)!getActiveIntegration(c, p, next)
    PROVE  Con(R)!Inv'
<1>0. /\ s1[p].status = "active" /\ UNCHANGED <<s2, s4>>
      /\ s1[p].refresh \in Grant \cup {None}
      /\ p \notin s4 => s1[p].access # None
  BY ConnectionRow DEF Con!getActiveIntegration, Con!Whole, Con!Row
<1>1. ASSUME NEW w \in Con(R)!Waiter, w.state = None, w.at # "idle", w.of = p,
             w.at = "refreshing" => w.refresh # None /\ w.next \in {"testing", "using"},
             s3' = [s3 EXCEPT ![c] = w], UNCHANGED s1
      PROVE  Con(R)!Inv'
  <2>1. s3'[c] = w /\ s3' = [s3 EXCEPT ![c] = s3'[c]]
    BY <1>1 DEF Con!Inv, Con!TypeOK
  <2>2. Con(R)!CallAgrees(c)'
    BY <1>0, <1>1, <2>1 DEF Con!CallAgrees
  <2>3. s2' \in [State -> [at : {"free", "issued", "used"}, of : Provider \cup {None}]]
    BY <1>0 DEF Con!Inv, Con!TypeOK
  <2>4. \A x \in State : s2[x].at = "used" => s2'[x].at = "used"
    BY <1>0
  <2>5. UNCHANGED <<s1, s4>> /\ s3'[c].state = None /\ s3'[c] \in Con(R)!Waiter
    BY <1>0, <1>1, <2>1
  <2> QED
    BY <2>1, <2>2, <2>3, <2>4, <2>5, CallWritten
<1>2. CASE ~Con(R)!refreshIfNeeded(p)
  <2> DEFINE w == [at |-> next, next |-> "idle", of |-> p, state |-> None, refresh |-> None]
  <2>1. s3' = [s3 EXCEPT ![c] = w] /\ UNCHANGED s1
    BY <1>2 DEF Con!getActiveIntegration, Con!awaits, Con!waiter
  <2>2. /\ w \in Con(R)!Waiter /\ w.state = None /\ w.at # "idle" /\ w.of = p
        /\ w.at # "refreshing"
    BY DEF Con!Waiter
  <2> HIDE DEF w
  <2> QED
    BY <1>1, <2>1, <2>2
<1>3. CASE Con(R)!refreshIfNeeded(p) /\ s1[p].refresh = None
  <2>1. Con(R)!markStatus(p, "expired") /\ UNCHANGED s3
    BY <1>3 DEF Con!getActiveIntegration
  <2>2. /\ s1' = [s1 EXCEPT ![p] = s1'[p]] /\ s1'[p] \in Con(R)!Row
        /\ s1'[p].status = "expired"
        /\ s1'[p].access = s1[p].access /\ s1'[p].refresh = s1[p].refresh
    BY <2>1, StatusMarked
  <2> QED
    BY <1>0, <2>1, <2>2, ConnectionKeepsTokens
<1>4. CASE Con(R)!refreshIfNeeded(p) /\ s1[p].refresh # None
  <2>0. PICK t \in Grant : t = s1[p].refresh
    BY <1>0, <1>4
  <2> DEFINE w == [at |-> "refreshing", next |-> next, of |-> p, state |-> None, refresh |-> t]
  <2>1. s3' = [s3 EXCEPT ![c] = w] /\ UNCHANGED s1
    BY <1>4, <2>0 DEF Con!getActiveIntegration, Con!waiter
  <2>2. /\ w \in Con(R)!Waiter /\ w.state = None /\ w.at # "idle" /\ w.of = p
        /\ w.next \in {"testing", "using"} /\ w.refresh # None
    BY <2>0, NoneIsNoToken DEF Con!Waiter
  <2> HIDE DEF w
  <2> QED
    BY <1>1, <2>1, <2>2
<1> QED
  BY <1>2, <1>3, <1>4

\* The tokens are those of the one that was sent, and the call goes on.
LEMMA TokensRefreshed ==
    ASSUME NEW R, Con(R)!Inv, NEW c \in Call, Con(R)!refreshes(c)
    PROVE  Con(R)!Inv'
<1>1. Con(R)!CallAgrees(c) /\ s3[c].at = "refreshing" /\ UNCHANGED <<s2, s4>>
  BY CallRow DEF Con!refreshes, Con!waits
<1>2. PICK p \in Provider, t \in Grant, next \in {"testing", "using"} :
          p = s3[c].of /\ t = s3[c].refresh /\ next = s3[c].next
  BY <1>1, CallRow DEF Con!CallAgrees
<1> DEFINE row == [status |-> "active", access |-> t, refresh |-> t, late |-> FALSE]
           w == [at |-> next, next |-> "idle", of |-> p, state |-> None, refresh |-> None]
<1>3. s1' = [s1 EXCEPT ![p] = row] /\ s3' = [s3 EXCEPT ![c] = w]
  BY <1>2 DEF Con!refreshes, Con!upsertIntegration, Con!awaits, Con!waiter
<1>4. /\ row \in Con(R)!Row /\ row.status = "active" /\ row.access = t /\ row.refresh = t
      /\ t # None
  BY NoneIsNoToken DEF Con!Row
<1>5. /\ w \in Con(R)!Waiter /\ w.state = None /\ w.at \in {"testing", "using"} /\ w.of = p
  BY DEF Con!Waiter
<1> HIDE DEF row, w
<1>6. s1'[p] = row /\ \A q \in Provider \ {p} : s1'[q] = s1[q]
  BY <1>3 DEF Con!Inv, Con!TypeOK
<1>7. s3'[c] = w /\ \A d \in Call \ {c} : s3'[d] = s3[d]
  BY <1>3 DEF Con!Inv, Con!TypeOK
<1>8. Con(R)!TypeOK'
  BY <1>1, <1>3, <1>4, <1>5 DEF Con!Inv, Con!TypeOK
<1>9. Con(R)!Whole(p)'
  BY <1>4, <1>6 DEF Con!Whole
<1>10. Con(R)!CallAgrees(c)'
  BY <1>4, <1>5, <1>6, <1>7 DEF Con!CallAgrees
<1>11. /\ \A q \in Provider \ {p} : s1'[q] = s1[q] /\ (q \in s4' <=> q \in s4)
       /\ \A x \in State : s2[x].at = "used" => s2'[x].at = "used"
       /\ s1'[p].access # None /\ s3'[c].state = None
  BY <1>1, <1>4, <1>5, <1>6, <1>7
<1> QED
  BY <1>7, <1>8, <1>9, <1>10, <1>11, ConnectionsAgree

LEMMA ConnectionsRestarted ==
    ASSUME NEW R, Con(R)!Inv, Con(R)!restart PROVE Con(R)!Inv'
<1>1. Con(R)!idle \in Con(R)!Waiter
  BY DEF Con!idle, Con!waiter, Con!Waiter
<1>2. s3' = [c \in Call |-> Con(R)!idle] /\ UNCHANGED <<s1, s2, s4>>
  BY DEF Con!restart
<1>3. Con(R)!TypeOK'
  BY <1>1, <1>2 DEF Con!Inv, Con!TypeOK
<1>4. \A c \in Call : Con(R)!CallAgrees(c)' /\ s3'[c].state = None
  BY <1>2 DEF Con!CallAgrees, Con!idle, Con!waiter
<1> QED
  BY <1>2, <1>3, <1>4 DEF Con!Inv, Con!Whole

LEMMA ConnectionsStep == ASSUME NEW R, Con(R)!Inv, Con(R)!Next PROVE Con(R)!Inv'
<1>1. ASSUME NEW p \in Provider, Con(R)!Connecting(p) PROVE Con(R)!Inv'
  BY <1>1, StateCreated, ConnectionMade, CallbackHandled, ConnectionTakenAway DEF Con!Connecting
<1>2. ASSUME NEW p \in Provider, Con(R)!late(p) \/ Con(R)!deleteIntegration(p) PROVE Con(R)!Inv'
  BY <1>2, ConnectionLate, ConnectionTakenAway
<1>3. ASSUME NEW c \in Call, Con(R)!Waiting(c) PROVE Con(R)!Inv'
  <2>1. CASE \E g \in Grant, r \in Grant \cup {None}, l \in BOOLEAN : Con(R)!exchangesCode(c, g, r, l)
    BY <2>1, CodeExchanged
  <2>2. CASE Con(R)!refusesCode(c) \/ Con(R)!uses(c)
    BY <2>2, CallEnded DEF Con!refusesCode, Con!uses
  <2>3. CASE Con(R)!refreshes(c)
    BY <2>3, TokensRefreshed
  <2>4. CASE Con(R)!refusesRefresh(c)
    BY <2>4, AnswerMarked DEF Con!refusesRefresh, Con!waits
  <2>5. CASE \E s \in {"active", "error"} : Con(R)!testIntegration(c, s)
    BY <2>5, AnswerMarked DEF Con!testIntegration, Con!waits
  <2>6. CASE \E s \in {"expired", "error"} : Con(R)!sendSlackMessage(c, s)
    BY <2>6, AnswerMarked DEF Con!sendSlackMessage, Con!waits
  <2> QED
    BY <1>3, <2>1, <2>2, <2>3, <2>4, <2>5, <2>6 DEF Con!Waiting
<1> QED
  BY <1>1, <1>2, <1>3, SystemUpserts, IntegrationActive, ConnectionsRestarted DEF Con!Next

---------------------------------------------------------------------------
(* Own record. *)

LEMMA OwnRecordStart == Own!Init => Own!Inv
BY DEF Own!Init, Own!Inv, Own!OwnRecordTypeOK, Own!Holds, Own!PlacesAgree, Own!CallAgrees,
       Own!idle, Own!Number, Own!Place

LEMMA OwnRecordKept == ASSUME Own!Inv, UNCHANGED <<s1, s2, s3, s4, s5, s6, s7>> PROVE Own!Inv'
BY DEF Own!Inv, Own!OwnRecordTypeOK, Own!PlacesAgree, Own!CallAgrees

\* A number is asked for: it is in the places it was put, and whatever another request
\* holds is late.
LEMMA NumberAsked ==
    ASSUME Own!Inv, NEW p \in Own!Number, NEW places \in SUBSET Own!Place, NEW calls,
           Own!asks(p, places, calls),
           \A c \in DOMAIN calls : calls[c] \in Own!Holds /\ calls[c].seen = p /\ calls[c].given,
           UNCHANGED s1, s2' \in Own!Number, s3' \in Own!Number, s4' \in Own!Number,
           "file" \in places => s2' = p,
           "db" \in places => s3' = p,
           "row" \in places => s4' = p
    PROVE  Own!Inv'
<1>1. /\ s6' = [phone |-> p, in |-> places]
      /\ s5' = [c \in Call |-> IF c \in DOMAIN calls THEN calls[c]
                               ELSE [s5[c] EXCEPT !.late = s5[c].at # "idle"]]
  BY DEF Own!asks
<1>2. ASSUME NEW c \in Call, c \notin DOMAIN calls
      PROVE  s5'[c] \in Own!Holds /\ (s5'[c].at # "idle" => s5'[c].late)
  <2>1. PICK late \in BOOLEAN : late <=> s5[c].at # "idle"
    OBVIOUS
  <2>2. s5[c] \in Own!Holds
    BY DEF Own!Inv, Own!OwnRecordTypeOK
  <2>3. s5'[c] = [s5[c] EXCEPT !.late = late]
    BY <1>1, <1>2, <2>1
  <2>4. s5'[c].at = s5[c].at /\ s5'[c].late = late /\ s5'[c] \in Own!Holds
    BY <2>2, <2>3 DEF Own!Holds
  <2> QED
    BY <2>1, <2>4
<1>3. ASSUME NEW c \in Call, c \in DOMAIN calls
      PROVE  s5'[c] \in Own!Holds /\ s5'[c].seen = p /\ s5'[c].given
  BY <1>1, <1>3
<1>4. s6'.phone = p /\ s6'.in = places /\ s6' \in [phone : Own!Number, in : SUBSET Own!Place]
  BY <1>1
<1>5. Own!OwnRecordTypeOK'
  BY <1>1, <1>2, <1>3, <1>4 DEF Own!Inv, Own!OwnRecordTypeOK
<1>6. Own!PlacesAgree'
  BY <1>4 DEF Own!PlacesAgree
<1>7. \A c \in Call : Own!CallAgrees(c)'
  BY <1>2, <1>3, <1>4 DEF Own!CallAgrees
<1> QED
  BY <1>5, <1>6, <1>7 DEF Own!Inv

LEMMA PortalsWrite == ASSUME Own!Inv, Own!Portals PROVE Own!Inv'
<1>1. DOMAIN Own!none = {}
  BY DEF Own!none
<1>2. s2 \in Own!Number /\ s3 \in Own!Number /\ s4 \in Own!Number
  BY DEF Own!Inv, Own!OwnRecordTypeOK
<1>3. PICK p \in Own!Number :
          \/ Own!managerUpdates(p)
          \/ Own!secretaryUpdates(p)
          \/ Own!updateHrProfile(p)
          \/ Own!accountantUpdates(p)
          \/ \E alone \in BOOLEAN : Own!employeeUpdates(p, alone) \/ Own!internUpdates(p, alone)
  BY DEF Own!Portals
<1>4. CASE Own!portalWrites(p)
  BY <1>1, <1>2, <1>4, NumberAsked DEF Own!portalWrites, Own!Place
<1>5. CASE Own!accountantUpdates(p)
  BY <1>1, <1>2, <1>5, NumberAsked DEF Own!accountantUpdates, Own!Place
<1>6. ASSUME NEW alone \in BOOLEAN, Own!rowWrites(p, alone) PROVE Own!Inv'
  <2>1. CASE alone
    BY <1>1, <1>2, <1>6, <2>1, NumberAsked DEF Own!rowWrites, Own!Place
  <2>2. CASE ~alone
    BY <1>1, <1>2, <1>6, <2>2, NumberAsked DEF Own!rowWrites, Own!Place
  <2> QED
    BY <2>1, <2>2
<1> QED
  BY <1>3, <1>4, <1>5, <1>6
     DEF Own!managerUpdates, Own!secretaryUpdates, Own!updateHrProfile, Own!employeeUpdates,
         Own!internUpdates

LEMMA AccountAsked ==
    ASSUME Own!Inv, NEW c \in Call, NEW p \in Own!Number,
           Own!updateProfile(c, p) \/ Own!updateUserAccount(c, p)
    PROVE  Own!Inv'
<1>1. PICK at \in {"saved", "mirroring"} :
          s3' = p /\ UNCHANGED <<s1, s2, s4>> /\ Own!asks(p, {"db"}, Own!only(c, at, p))
  BY DEF Own!updateProfile, Own!updateUserAccount
<1>2. \A d \in DOMAIN Own!only(c, at, p) :
          /\ Own!only(c, at, p)[d] \in Own!Holds
          /\ Own!only(c, at, p)[d].seen = p
          /\ Own!only(c, at, p)[d].given
  BY DEF Own!only, Own!Holds
<1>3. s2 \in Own!Number /\ s3 \in Own!Number /\ s4 \in Own!Number
  BY DEF Own!Inv, Own!OwnRecordTypeOK
<1> QED
  BY <1>1, <1>2, <1>3, NumberAsked DEF Own!Place

\* One request moves on: what was asked stays, and where it should be may change.
LEMMA RequestMovesOn ==
    ASSUME Own!Inv, NEW c \in Call, NEW w \in Own!Holds, s5' = [s5 EXCEPT ![c] = w],
           NEW places \in SUBSET Own!Place, s6' = [s6 EXCEPT !.in = places],
           UNCHANGED s1, s2' \in Own!Number, s3' \in Own!Number, s4' \in Own!Number,
           "db" \in places => "db" \in s6.in,
           "file" \in places => s2' = s6.phone,
           "db" \in places => s3' = s6.phone,
           "row" \in places => s4' = s6.phone,
           w.at # "idle" /\ ~w.late =>
               /\ w.given \/ "db" \in places => w.seen = s6.phone
               /\ w.at = "stored" => w.given
    PROVE  Own!Inv'
<1>1. s6' = [phone |-> s6.phone, in |-> places] /\ s6.phone \in Own!Number
  BY DEF Own!Inv, Own!OwnRecordTypeOK
<1>2. s6'.phone = s6.phone /\ s6'.in = places /\ s6' \in [phone : Own!Number, in : SUBSET Own!Place]
  BY <1>1
<1>3. s5' \in [Call -> Own!Holds] /\ s5'[c] = w /\ \A d \in Call \ {c} : s5'[d] = s5[d]
  BY DEF Own!Inv, Own!OwnRecordTypeOK
<1>4. Own!OwnRecordTypeOK'
  BY <1>2, <1>3 DEF Own!Inv, Own!OwnRecordTypeOK
<1>5. Own!PlacesAgree'
  BY <1>2 DEF Own!PlacesAgree
<1>6. ASSUME NEW d \in Call PROVE Own!CallAgrees(d)'
  <2>1. Own!CallAgrees(d)
    BY DEF Own!Inv
  <2>2. CASE d = c
    BY <1>2, <1>3, <2>2 DEF Own!CallAgrees
  <2>3. CASE d # c
    BY <1>2, <1>3, <2>1, <2>3 DEF Own!CallAgrees
  <2> QED
    BY <2>2, <2>3
<1> QED
  BY <1>4, <1>5, <1>6 DEF Own!Inv

LEMMA OwnFacts ==
    ASSUME Own!Inv
    PROVE  /\ s2 \in Own!Number /\ s3 \in Own!Number /\ s4 \in Own!Number
           /\ s6.phone \in Own!Number /\ s6.in \in SUBSET Own!Place
           /\ s6 = [s6 EXCEPT !.in = s6.in]
           /\ Own!PlacesAgree
BY DEF Own!Inv, Own!OwnRecordTypeOK

LEMMA RequestFacts ==
    ASSUME Own!Inv, NEW c \in Call
    PROVE  /\ s5[c] \in Own!Holds
           /\ s5[c].seen \in Own!Number /\ s5[c].given \in BOOLEAN /\ s5[c].late \in BOOLEAN
           /\ Own!CallAgrees(c)
BY DEF Own!Inv, Own!OwnRecordTypeOK, Own!Holds

LEMMA NumberLoaded ==
    ASSUME Own!Inv, NEW c \in Call, Own!getProfile(c) \/ Own!updateUser(c)
    PROVE  Own!Inv'
<1>0. PICK given \in BOOLEAN : given = FALSE
  OBVIOUS
<1>1. PICK at \in {"saved", "mirroring"} :
          /\ s5' = [s5 EXCEPT ![c] = [at |-> at, seen |-> s3, given |-> given, late |-> given]]
          /\ UNCHANGED <<s1, s2, s3, s4, s6>>
  BY <1>0 DEF Own!getProfile, Own!updateUser, Own!goes
<1> DEFINE w == [at |-> at, seen |-> s3, given |-> given, late |-> given]
           places == s6.in
<1>2. s5' = [s5 EXCEPT ![c] = w] /\ s6' = [s6 EXCEPT !.in = places]
  BY <1>1, OwnFacts
<1>3. /\ w \in Own!Holds /\ w.seen = s3 /\ w.at # "stored"
      /\ w.given = given
  BY OwnFacts DEF Own!Holds
<1>4. /\ s2' = s2 /\ s3' = s3 /\ s4' = s4 /\ s1' = s1
      /\ s2 \in Own!Number /\ s3 \in Own!Number /\ s4 \in Own!Number
      /\ places \in SUBSET Own!Place
      /\ "file" \in places => s2 = s6.phone
      /\ "db" \in places => s3 = s6.phone
      /\ "row" \in places => s4 = s6.phone
  BY <1>1, OwnFacts DEF Own!PlacesAgree
<1>5. "db" \in places => "db" \in s6.in
  OBVIOUS
<1> HIDE DEF w, places
<1> QED
  BY <1>0, <1>2, <1>3, <1>4, <1>5, RequestMovesOn

\* What the profile pages write again is what was asked, unless they are late.
LEMMA ProfileWritten ==
    ASSUME Own!Inv, NEW c \in Call, Own!upsertUserProfile(c)
    PROVE  Own!Inv'
<1>1. /\ s5[c].at = "saved" /\ s3' = s5[c].seen /\ UNCHANGED <<s1, s2, s4>>
      /\ s5' = [s5 EXCEPT ![c] = IF s5[c].given THEN [s5[c] EXCEPT !.at = "stored"] ELSE Own!idle]
      /\ s6' = [s6 EXCEPT !.in = IF s5[c].late THEN s6.in \ {"db"} ELSE s6.in]
  BY DEF Own!upsertUserProfile, Own!waits, Own!keeps
<1>2. PICK w : w = IF s5[c].given THEN [s5[c] EXCEPT !.at = "stored"] ELSE Own!idle
  OBVIOUS
<1>3. PICK places : places = IF s5[c].late THEN s6.in \ {"db"} ELSE s6.in
  OBVIOUS
<1>4. s5' = [s5 EXCEPT ![c] = w] /\ s6' = [s6 EXCEPT !.in = places]
  BY <1>1, <1>2, <1>3
<1>5. Own!idle \in Own!Holds /\ Own!idle.at = "idle"
  BY DEF Own!idle, Own!Holds, Own!Number
<1>6. /\ w \in Own!Holds
      /\ w.at # "idle" => w.seen = s5[c].seen /\ w.late = s5[c].late /\ w.given = s5[c].given /\ s5[c].given
  <2>1. CASE s5[c].given
    <3>1. w = [s5[c] EXCEPT !.at = "stored"] /\ s5[c] \in Own!Holds
      BY <1>2, <2>1, RequestFacts
    <3> QED
      BY <2>1, <3>1 DEF Own!Holds
  <2>2. CASE ~s5[c].given
    BY <1>2, <1>5, <2>2
  <2> QED
    BY <2>1, <2>2
<1>7. places \in SUBSET Own!Place /\ places \subseteq s6.in /\ (s5[c].late => "db" \notin places)
  BY <1>3, OwnFacts
<1>8. Own!CallAgrees(c) /\ s5[c].seen \in Own!Number
  BY RequestFacts
<1>9. /\ s2' \in Own!Number /\ s3' \in Own!Number /\ s4' \in Own!Number /\ UNCHANGED s1
      /\ "file" \in places => s2' = s6.phone
      /\ "row" \in places => s4' = s6.phone
  BY <1>1, <1>7, <1>8, OwnFacts DEF Own!PlacesAgree
<1>10. "db" \in places => "db" \in s6.in /\ s3' = s6.phone
  BY <1>1, <1>7, <1>8 DEF Own!CallAgrees
<1>11. w.at # "idle" /\ ~w.late => w.given /\ w.seen = s6.phone
  BY <1>1, <1>6, <1>8 DEF Own!CallAgrees
<1> QED
  BY <1>4, <1>6, <1>7, <1>9, <1>10, <1>11, RequestMovesOn

LEMMA RequestEnds ==
    ASSUME Own!Inv, NEW c \in Call, s5' = [s5 EXCEPT ![c] = Own!idle],
           NEW places \in SUBSET Own!Place, s6' = [s6 EXCEPT !.in = places],
           UNCHANGED <<s1, s3>>, s2' \in Own!Number, s4' \in Own!Number,
           "db" \in places => "db" \in s6.in,
           "file" \in places => s2' = s6.phone,
           "row" \in places => s4' = s6.phone
    PROVE  Own!Inv'
<1>1. Own!idle \in Own!Holds /\ Own!idle.at = "idle"
  BY DEF Own!idle, Own!Holds, Own!Number
<1>2. s3' \in Own!Number /\ ("db" \in places => s3' = s6.phone)
  BY OwnFacts DEF Own!PlacesAgree
<1> QED
  BY <1>1, <1>2, RequestMovesOn

\* The row gets the number, and has what was asked unless the page is late.
LEMMA StaffWritten ==
    ASSUME Own!Inv, NEW c \in Call, Own!updateStaff(c)
    PROVE  Own!Inv'
<1>1. /\ s5[c].at = "stored" /\ s5' = [s5 EXCEPT ![c] = Own!idle] /\ UNCHANGED <<s1, s2, s3>>
  BY DEF Own!updateStaff, Own!waits
<1>2. CASE UNCHANGED <<s4, s6>>
  <2> DEFINE places == s6.in
  <2>1. s6' = [s6 EXCEPT !.in = places]
    BY <1>2, OwnFacts
  <2>2. /\ places \in SUBSET Own!Place /\ s2' \in Own!Number /\ s4' \in Own!Number
        /\ "db" \in places => "db" \in s6.in
        /\ "file" \in places => s2' = s6.phone
        /\ "row" \in places => s4' = s6.phone
    BY <1>1, <1>2, OwnFacts DEF Own!PlacesAgree
  <2> HIDE DEF places
  <2> QED
    BY <1>1, <2>1, <2>2, RequestEnds
<1>3. CASE /\ s4' = s5[c].seen
           /\ s6' = [s6 EXCEPT !.in = IF s5[c].late THEN s6.in \ {"row"} ELSE s6.in \cup {"row"}]
  <2>1. PICK places : places = IF s5[c].late THEN s6.in \ {"row"} ELSE s6.in \cup {"row"}
    OBVIOUS
  <2>2. Own!CallAgrees(c) /\ s5[c].seen \in Own!Number
    BY RequestFacts
  <2>3. s6' = [s6 EXCEPT !.in = places]
    BY <1>3, <2>1
  <2>4. /\ places \in SUBSET Own!Place /\ s2' \in Own!Number /\ s4' \in Own!Number
        /\ "db" \in places => "db" \in s6.in
        /\ "file" \in places => s2' = s6.phone
    BY <1>1, <1>3, <2>1, <2>2, OwnFacts DEF Own!PlacesAgree, Own!Place
  <2>5. "row" \in places => s4' = s6.phone
    BY <1>1, <1>3, <2>1, <2>2 DEF Own!CallAgrees
  <2> QED
    BY <1>1, <2>3, <2>4, <2>5, RequestEnds
<1> QED
  BY <1>2, <1>3 DEF Own!updateStaff, Own!keeps

\* The mirror is as Postgres, when that is as it was asked and the administrator not late.
LEMMA LocalMirrored ==
    ASSUME Own!Inv, NEW c \in Call, Own!mirrorLocal(c)
    PROVE  Own!Inv'
<1>1. PICK places : places = IF "db" \in s6.in /\ ~s5[c].late THEN s6.in \cup {"file"}
                             ELSE s6.in \ {"file"}
  OBVIOUS
<1>2. /\ s5[c].at = "mirroring" /\ s5' = [s5 EXCEPT ![c] = Own!idle]
      /\ s2' = s5[c].seen /\ s6' = [s6 EXCEPT !.in = places] /\ UNCHANGED <<s1, s3, s4>>
  BY <1>1 DEF Own!mirrorLocal, Own!waits, Own!keeps
<1>3. Own!CallAgrees(c) /\ s5[c].seen \in Own!Number
  BY RequestFacts
<1>4. /\ places \in SUBSET Own!Place /\ s2' \in Own!Number /\ s4' \in Own!Number
      /\ "db" \in places => "db" \in s6.in
      /\ "row" \in places => s4' = s6.phone
  BY <1>1, <1>2, <1>3, OwnFacts DEF Own!PlacesAgree, Own!Place
<1>5. "file" \in places => s2' = s6.phone
  BY <1>1, <1>2, <1>3 DEF Own!CallAgrees
<1> QED
  BY <1>2, <1>4, <1>5, RequestEnds

\* A start copies users.json, and forgets what was asked for in Postgres alone.
LEMMA OwnRecordRestarted == ASSUME Own!Inv, Own!restart PROVE Own!Inv'
<1>1. PICK places : places = IF "file" \in s6.in THEN s6.in \cup {"db"}
                             ELSE {"row"} \cap IF s6.phone = None THEN {} ELSE s6.in
  OBVIOUS
<1>2. /\ s3' = s2 /\ s4' = (IF s4 = None /\ s1 # "intern" THEN s2 ELSE s4)
      /\ s5' = [c \in Call |-> Own!idle] /\ s6' = [s6 EXCEPT !.in = places]
      /\ UNCHANGED <<s1, s2>>
  BY <1>1 DEF Own!restart, Own!upsertUser, Own!ensureEmployeeProfile, Own!keeps
<1>3. Own!idle \in Own!Holds /\ Own!idle.at = "idle"
  BY DEF Own!idle, Own!Holds, Own!Number
<1>4. places \in SUBSET Own!Place
  BY <1>1, OwnFacts DEF Own!Place
<1>5. s6'.phone = s6.phone /\ s6'.in = places /\ s6' \in [phone : Own!Number, in : SUBSET Own!Place]
  BY <1>2, <1>4 DEF Own!Inv, Own!OwnRecordTypeOK
<1>6. Own!OwnRecordTypeOK'
  BY <1>2, <1>3, <1>5 DEF Own!Inv, Own!OwnRecordTypeOK
<1>7. Own!PlacesAgree'
  BY <1>1, <1>2, <1>5, OwnFacts DEF Own!PlacesAgree
<1>8. \A c \in Call : Own!CallAgrees(c)'
  BY <1>2, <1>3 DEF Own!CallAgrees
<1> QED
  BY <1>6, <1>7, <1>8 DEF Own!Inv

LEMMA OwnRecordStep == ASSUME Own!Inv, Own!Next PROVE Own!Inv'
BY PortalsWrite, AccountAsked, NumberLoaded, ProfileWritten, StaffWritten, LocalMirrored,
   OwnRecordRestarted DEF Own!Next, Own!Pages, Own!Administration

\* A connection that nobody touched while a call of it was waited for is whole; and the
\* number of a person is where its last writer put it: for any providers, authorisations,
\* numbers and requests, and with a restart at any time.
THEOREM LastWrittenIsKept == WorkflowsSpec => []WrittenLastIsKept
<1> DEFINE I == /\ part = "connections" => Con(Refreshable)!Inv
                /\ part = "slack" => Con({})!Inv
                /\ part = "ownRecord" => Own!Inv
<1>1. WorkflowsInit => I
  BY ConnectionsStart, OwnRecordStart DEF WorkflowsInit
<1>2. I /\ [WorkflowsNext]_<<part, s1, s2, s3, s4, s5, s6, s7, vars>> => I'
  <2>1. ASSUME WorkflowsNext
        PROVE  /\ part' = part
               /\ part = "connections" => Con(Refreshable)!Next
               /\ part = "slack" => Con({})!Next
               /\ part = "ownRecord" => Own!Next
    BY <2>1 DEF WorkflowsNext, paymentsRest
  <2> QED
    BY <2>1, ConnectionsStep, ConnectionsUntouched, OwnRecordStep, OwnRecordKept
<1>3. I => WrittenLastIsKept
  <2>1. ASSUME NEW R, Con(R)!Inv PROVE Con(R)!ConnectionIsWhole
    BY <2>1 DEF Con!ConnectionIsWhole, Con!Inv, Con!Whole
  <2>2. ASSUME Own!Inv PROVE Own!NumberIsWhereItWasPut
    BY <2>2 DEF Own!NumberIsWhereItWasPut, Own!Inv, Own!PlacesAgree, Own!shown
  <2> QED
    BY <2>1, <2>2 DEF WrittenLastIsKept
<1> QED
  BY <1>1, <1>2, <1>3, PTL DEF WorkflowsSpec

---------------------------------------------------------------------------
(* Company e-mail. *)

LEMMA CompanyEmailStart == Mail!Init => Mail!Inv
BY DEF Mail!Init, Mail!Inv, Mail!TypeOK, Mail!AddressIsOfOneMailbox

LEMMA CompanyEmailKept == ASSUME Mail!Inv, UNCHANGED <<s1, s2, s3>> PROVE Mail!Inv'
BY DEF Mail!Inv, Mail!TypeOK, Mail!AddressIsOfOneMailbox

\* A request without a mailbox moves on: nobody's address is concerned.
LEMMA RequestStands ==
    ASSUME Mail!Inv, NEW r \in EmailRequest, NEW row \in Mail!Row, s1' = [s1 EXCEPT ![r] = row],
           s2[r] # Mail!noMailbox => row.status = "CREATED" /\ row.assigned = s1[r].assigned,
           UNCHANGED <<s2, s3>>
    PROVE  Mail!Inv'
<1>1. Mail!TypeOK'
  BY DEF Mail!Inv, Mail!TypeOK
<1>2. \A q \in EmailRequest : s2[q] # Mail!noMailbox =>
          s1'[q].status = "CREATED" /\ s1'[q].assigned = s1[q].assigned
  BY DEF Mail!Inv, Mail!TypeOK
<1>3. Mail!AddressIsOfOneMailbox'
  BY <1>2 DEF Mail!Inv, Mail!AddressIsOfOneMailbox
<1> QED
  BY <1>1, <1>2, <1>3 DEF Mail!Inv

LEMMA RequestRow ==
    ASSUME Mail!Inv, NEW r \in EmailRequest, s1[r].status # "absent"
    PROVE  /\ s1[r] \in Mail!Row
           /\ s1[r] = [status |-> s1[r].status, employee |-> s1[r].employee,
                       wanted |-> s1[r].wanted, assigned |-> s1[r].assigned]
<1>1. s1[r] \in Mail!Row
  BY DEF Mail!Inv, Mail!TypeOK, Mail!noRequest
<1> QED
  BY <1>1 DEF Mail!Row

LEMMA MailRequested ==
    ASSUME Mail!Inv, NEW r \in EmailRequest, NEW e \in Colleague, NEW a \in Address,
           NEW s \in Mail!EmailStatus, Mail!createEmailRequest(r, e, a, s)
    PROVE  Mail!Inv'
<1> DEFINE row == [status |-> s, employee |-> e, wanted |-> a, assigned |-> None]
<1>1. s1' = [s1 EXCEPT ![r] = row] /\ UNCHANGED <<s2, s3>>
  BY DEF Mail!createEmailRequest
<1>2. row \in Mail!Row
  BY DEF Mail!Row
<1> HIDE DEF row
<1>3. s2[r] = Mail!noMailbox
  BY DEF Mail!Inv, Mail!createEmailRequest, Mail!noRequest
<1> QED
  BY <1>1, <1>2, <1>3, RequestStands

\* Whatever status a request without a mailbox gets.
LEMMA RequestBecomes ==
    ASSUME Mail!Inv, NEW r \in EmailRequest, s1[r].status # "absent", NEW s \in Mail!EmailStatus,
           s2[r] # Mail!noMailbox => s = "CREATED",
           s1' = [s1 EXCEPT ![r].status = s], UNCHANGED <<s2, s3>>
    PROVE  Mail!Inv'
<1>1. PICK q : q = s1[r]
  OBVIOUS
<1>2. /\ q \in Mail!Row
      /\ q = [status |-> q.status, employee |-> q.employee, wanted |-> q.wanted, assigned |-> q.assigned]
  BY <1>1, RequestRow
<1> DEFINE row == [status |-> s, employee |-> q.employee, wanted |-> q.wanted, assigned |-> q.assigned]
<1>3. [q EXCEPT !.status = s] = row
  BY <1>2
<1>4. row \in Mail!Row /\ row.status = s /\ row.assigned = q.assigned
  BY <1>2 DEF Mail!Row
<1> HIDE DEF row
<1>5. s1' = [s1 EXCEPT ![r] = row]
  BY <1>1, <1>3
<1>6. s2[r] # Mail!noMailbox => row.status = "CREATED" /\ row.assigned = s1[r].assigned
  BY <1>1, <1>4
<1>7. UNCHANGED <<s2, s3>>
  OBVIOUS
<1> QED
  BY <1>4, <1>5, <1>6, <1>7, RequestStands

LEMMA RequestUpdated ==
    ASSUME Mail!Inv, NEW r \in EmailRequest, NEW s \in Mail!EmailStatus,
           Mail!updateEmailRequestStatus(r, s)
    PROVE  Mail!Inv'
<1>1. /\ s1[r] # Mail!noRequest /\ s1' = [s1 EXCEPT ![r].status = s] /\ UNCHANGED <<s2, s3>>
      /\ s = s1[r].status \/ s \in Mail!EmailTransitions[s1[r].status]
  BY DEF Mail!updateEmailRequestStatus
<1>2. s1[r].status \in Mail!EmailStatus
  BY <1>1 DEF Mail!Inv, Mail!TypeOK, Mail!Row
<1>3. s2[r] # Mail!noMailbox => s = "CREATED"
  BY <1>1 DEF Mail!Inv, Mail!EmailTransitions
<1>4. s1[r].status # "absent"
  BY <1>2 DEF Mail!EmailStatus
<1> QED
  BY <1>1, <1>3, <1>4, RequestBecomes

LEMMA CreationRetried ==
    ASSUME Mail!Inv, NEW r \in EmailRequest, NEW a, Mail!retryEmailCreation(r, a)
    PROVE  Mail!Inv'
<1>1. /\ s1[r].status = "FAILED" /\ s1' = [s1 EXCEPT ![r].status = "CREATING"]
      /\ UNCHANGED <<s2, s3>>
  BY DEF Mail!retryEmailCreation
<1>2. s2[r] = Mail!noMailbox
  BY <1>1 DEF Mail!Inv
<1>3. "CREATING" \in Mail!EmailStatus
  BY DEF Mail!EmailStatus
<1> QED
  BY <1>1, <1>2, <1>3, RequestBecomes

\* Nobody has an address that does not conflict: no mailbox of another, and no request that
\* has been carried out.
LEMMA NoConflict ==
    ASSUME Mail!Inv, NEW a, NEW mine, NEW employees, NEW requests,
           ~Mail!findEmailConflict(a, mine, employees, requests)
    PROVE  /\ \A q \in EmailRequest \ mine : s2[q] # Mail!noMailbox => s2[q].address # a
           /\ \A q \in EmailRequest \ requests : s2[q] # Mail!noMailbox => s1[q].assigned # a
<1>1. \A q \in EmailRequest : s2[q] # Mail!noMailbox =>
          s2[q].status \notin {"absent", "DEACTIVATED"} /\ s1[q].status \in Mail!Claims
  BY DEF Mail!Inv, Mail!TypeOK, Mail!Made, Mail!Claims
<1> QED
  BY <1>1 DEF Mail!findEmailConflict, Mail!heldByMailbox, Mail!claimed

LEMMA MailboxMade ==
    ASSUME Mail!Inv, NEW r \in EmailRequest, NEW a \in Address,
           Mail!createAndAssignCompanyEmail(r, a, TRUE)
    PROVE  Mail!Inv'
<1>1. PICK q : q = s1[r]
  OBVIOUS
<1>2. /\ q.status \in {"APPROVED", "CREATING"}
      /\ ~Mail!findEmailConflict(a, {}, {q.employee}, {r})
      /\ s1' = [s1 EXCEPT ![r] = [q EXCEPT !.status = "CREATED", !.assigned = a]]
      /\ s2' = [s2 EXCEPT ![r] = [status |-> "ACTIVE", employee |-> q.employee, address |-> a]]
      /\ s3' = [s3 EXCEPT ![q.employee] = a]
  BY <1>1 DEF Mail!createAndAssignCompanyEmail
<1>3. q \in Mail!Row
  BY <1>1, <1>2, RequestRow
<1> DEFINE row == [q EXCEPT !.status = "CREATED", !.assigned = a]
           made == [status |-> "ACTIVE", employee |-> q.employee, address |-> a]
<1>4. row \in Mail!Row /\ row.status = "CREATED" /\ row.assigned = a
  BY <1>3 DEF Mail!Row, Mail!EmailStatus
<1>5. made \in Mail!Made /\ made.address = a /\ made.employee = q.employee /\ q.employee \in Colleague
  BY <1>3 DEF Mail!Row, Mail!Made
<1> HIDE DEF row, made
<1>6. s1' = [s1 EXCEPT ![r] = row] /\ s2' = [s2 EXCEPT ![r] = made]
  BY <1>2 DEF row, made
<1>7. Mail!TypeOK'
  BY <1>2, <1>4, <1>5, <1>6 DEF Mail!Inv, Mail!TypeOK
<1>8. /\ s1'[r] = row /\ \A x \in EmailRequest \ {r} : s1'[x] = s1[x]
      /\ s2'[r] = made /\ \A x \in EmailRequest \ {r} : s2'[x] = s2[x]
      /\ s3'[q.employee] = a /\ \A e \in Colleague \ {q.employee} : s3'[e] = s3[e]
  BY <1>2, <1>5, <1>6 DEF Mail!Inv, Mail!TypeOK
<1>9. /\ s2[r] = Mail!noMailbox
      /\ \A x \in EmailRequest : s2[x] # Mail!noMailbox => s2[x].address # a
      /\ \A x \in EmailRequest \ {r} : s2[x] # Mail!noMailbox => s1[x].assigned # a
  BY <1>1, <1>2, NoConflict DEF Mail!Inv
<1>10. \A x \in EmailRequest : s2'[x] # Mail!noMailbox => s1'[x].status = "CREATED"
  BY <1>4, <1>8 DEF Mail!Inv
<1>11. \A x, y \in EmailRequest : x # y /\ s2'[x] # Mail!noMailbox /\ s2'[y] # Mail!noMailbox =>
           s2'[y].address \notin {s2'[x].address, s1'[x].assigned}
  BY <1>4, <1>5, <1>8, <1>9 DEF Mail!Inv, Mail!AddressIsOfOneMailbox
<1>12. ASSUME NEW e \in Colleague, s3'[e] # None
       PROVE  \E x \in EmailRequest : s2'[x].employee = e /\ s2'[x].address = s3'[e]
  <2>1. CASE e = q.employee
    BY <1>5, <1>8, <2>1
  <2>2. CASE e # q.employee
    <3>1. PICK x \in EmailRequest : s2[x].employee = e /\ s2[x].address = s3[e]
      BY <1>8, <1>12, <2>2 DEF Mail!Inv, Mail!AddressIsOfOneMailbox
    <3>2. x # r
      BY <1>8, <1>9, <1>12, <2>2, <3>1 DEF Mail!noMailbox
    <3> QED
      BY <1>8, <2>2, <3>1, <3>2
  <2> QED
    BY <2>1, <2>2
<1> QED
  BY <1>7, <1>10, <1>11, <1>12 DEF Mail!Inv, Mail!AddressIsOfOneMailbox

LEMMA MailboxFailed ==
    ASSUME Mail!Inv, NEW r \in EmailRequest, NEW a \in Address,
           Mail!createAndAssignCompanyEmail(r, a, FALSE)
    PROVE  Mail!Inv'
<1>1. PICK q : q = s1[r]
  OBVIOUS
<1>2. /\ q.status \in {"APPROVED", "CREATING"}
      /\ s1' = [s1 EXCEPT ![r] = [q EXCEPT !.status = "FAILED", !.assigned = a]]
      /\ UNCHANGED <<s2, s3>>
  BY <1>1 DEF Mail!createAndAssignCompanyEmail
<1>3. q \in Mail!Row /\ s2[r] = Mail!noMailbox
  BY <1>1, <1>2, RequestRow DEF Mail!Inv
<1> DEFINE row == [q EXCEPT !.status = "FAILED", !.assigned = a]
<1>4. row \in Mail!Row
  BY <1>3 DEF Mail!Row, Mail!EmailStatus
<1> HIDE DEF row
<1>5. s1' = [s1 EXCEPT ![r] = row]
  BY <1>2 DEF row
<1>6. UNCHANGED <<s2, s3>>
  BY <1>2
<1> QED
  BY <1>3, <1>4, <1>5, <1>6, RequestStands

LEMMA MailboxRow ==
    ASSUME Mail!Inv, NEW r \in EmailRequest, s2[r].status # "absent"
    PROVE  /\ s2[r] # Mail!noMailbox /\ s2[r] \in Mail!Made
           /\ s2[r] = [status |-> s2[r].status, employee |-> s2[r].employee, address |-> s2[r].address]
<1>1. s2[r] # Mail!noMailbox /\ s2[r] \in Mail!Made
  BY DEF Mail!Inv, Mail!TypeOK, Mail!noMailbox
<1> QED
  BY <1>1 DEF Mail!Made

LEMMA AddressChanged ==
    ASSUME Mail!Inv, NEW r \in EmailRequest, NEW a \in Address, Mail!changeCompanyEmailAddress(r, a)
    PROVE  Mail!Inv'
<1>1. PICK m : m = s2[r]
  OBVIOUS
<1>2. /\ m.status \in {"ACTIVE", "SUSPENDED"}
      /\ ~Mail!findEmailConflict(a, {r}, {m.employee}, {})
      /\ s2' = [s2 EXCEPT ![r] = [m EXCEPT !.address = a]]
      /\ s3' = [s3 EXCEPT ![m.employee] = a] /\ UNCHANGED s1
  BY <1>1 DEF Mail!changeCompanyEmailAddress
<1>3. /\ m # Mail!noMailbox /\ m \in Mail!Made
  BY <1>1, <1>2, MailboxRow
<1> DEFINE made == [m EXCEPT !.address = a]
<1>4. /\ made \in Mail!Made /\ made.address = a /\ made.employee = m.employee
      /\ m.employee \in Colleague
  BY <1>3 DEF Mail!Made
<1> HIDE DEF made
<1>5. s2' = [s2 EXCEPT ![r] = made]
  BY <1>2 DEF made
<1>6. Mail!TypeOK'
  BY <1>2, <1>4, <1>5 DEF Mail!Inv, Mail!TypeOK
<1>7. /\ s2'[r] = made /\ \A x \in EmailRequest \ {r} : s2'[x] = s2[x]
      /\ s3'[m.employee] = a /\ \A e \in Colleague \ {m.employee} : s3'[e] = s3[e]
  BY <1>2, <1>4, <1>5 DEF Mail!Inv, Mail!TypeOK
<1>8. \A x \in EmailRequest : s2'[x] # Mail!noMailbox => s2[x] # Mail!noMailbox
  BY <1>1, <1>3, <1>7
<1>9. /\ \A x \in EmailRequest \ {r} : s2[x] # Mail!noMailbox => s2[x].address # a
      /\ \A x \in EmailRequest : s2[x] # Mail!noMailbox => s1[x].assigned # a
  BY <1>2, NoConflict
<1>10. \A x \in EmailRequest : s2'[x] # Mail!noMailbox => s1'[x].status = "CREATED"
  BY <1>2, <1>8 DEF Mail!Inv
<1>11. \A x, y \in EmailRequest : x # y /\ s2'[x] # Mail!noMailbox /\ s2'[y] # Mail!noMailbox =>
           s2'[y].address \notin {s2'[x].address, s1'[x].assigned}
  BY <1>2, <1>4, <1>7, <1>8, <1>9 DEF Mail!Inv, Mail!AddressIsOfOneMailbox
<1>12. ASSUME NEW e \in Colleague, s3'[e] # None
       PROVE  \E x \in EmailRequest : s2'[x].employee = e /\ s2'[x].address = s3'[e]
  <2>1. CASE e = m.employee
    BY <1>4, <1>7, <2>1
  <2>2. CASE e # m.employee
    <3>1. PICK x \in EmailRequest : s2[x].employee = e /\ s2[x].address = s3[e]
      BY <1>7, <1>12, <2>2 DEF Mail!Inv, Mail!AddressIsOfOneMailbox
    <3>2. x # r
      BY <1>1, <2>2, <3>1
    <3> QED
      BY <1>7, <2>2, <3>1, <3>2
  <2> QED
    BY <2>1, <2>2
<1> QED
  BY <1>6, <1>10, <1>11, <1>12 DEF Mail!Inv, Mail!AddressIsOfOneMailbox

LEMMA MailboxSet ==
    ASSUME Mail!Inv, NEW r \in EmailRequest, NEW from, NEW to,
           "absent" \notin from, to \in {"ACTIVE", "SUSPENDED", "DEACTIVATION_PENDING"},
           Mail!setMailbox(r, from, to)
    PROVE  Mail!Inv'
<1>1. PICK m : m = s2[r]
  OBVIOUS
<1>2. m.status \in from /\ s2' = [s2 EXCEPT ![r] = [m EXCEPT !.status = to]] /\ UNCHANGED <<s1, s3>>
  BY <1>1 DEF Mail!setMailbox
<1>3. /\ m # Mail!noMailbox /\ m \in Mail!Made
  BY <1>1, <1>2, MailboxRow
<1> DEFINE made == [m EXCEPT !.status = to]
<1>4. made \in Mail!Made /\ made.address = m.address /\ made.employee = m.employee
  BY <1>3 DEF Mail!Made
<1> HIDE DEF made
<1>5. s2' = [s2 EXCEPT ![r] = made]
  BY <1>2 DEF made
<1>6. Mail!TypeOK'
  BY <1>2, <1>4, <1>5 DEF Mail!Inv, Mail!TypeOK
<1>7. \A x \in EmailRequest : /\ s2'[x].address = s2[x].address /\ s2'[x].employee = s2[x].employee
                              /\ s2'[x] # Mail!noMailbox => s2[x] # Mail!noMailbox
  BY <1>1, <1>3, <1>4, <1>5 DEF Mail!Inv, Mail!TypeOK
<1> QED
  BY <1>2, <1>6, <1>7 DEF Mail!Inv, Mail!AddressIsOfOneMailbox

LEMMA CompanyEmailStep == ASSUME Mail!Inv, Mail!Next PROVE Mail!Inv'
<1>1. PICK r \in EmailRequest : Mail!Requests(r) \/ Mail!Mailboxes(r)
  BY DEF Mail!Next
<1>2. CASE \E e \in Colleague, a \in Address, s \in Mail!EmailStatus : Mail!createEmailRequest(r, e, a, s)
  BY <1>2, MailRequested
<1>3. CASE (\E s \in Mail!EmailStatus : Mail!updateEmailRequestStatus(r, s)) \/ Mail!cancelEmailRequest(r)
  BY <1>3, RequestUpdated DEF Mail!cancelEmailRequest, Mail!EmailStatus
<1>4. CASE \E a \in Address : Mail!retryEmailCreation(r, a)
  BY <1>4, CreationRetried
<1>5. CASE \E a \in Address, works \in BOOLEAN : Mail!createAndAssignCompanyEmail(r, a, works)
  BY <1>5, MailboxMade, MailboxFailed
<1>6. CASE \E a \in Address : Mail!changeCompanyEmailAddress(r, a)
  BY <1>6, AddressChanged
<1>7. CASE \/ Mail!suspendCompanyEmail(r) \/ Mail!reactivateCompanyEmail(r)
           \/ Mail!requestCompanyEmailDeactivation(r)
  BY <1>7, MailboxSet DEF Mail!suspendCompanyEmail, Mail!reactivateCompanyEmail,
                          Mail!requestCompanyEmailDeactivation
<1> QED
  BY <1>1, <1>2, <1>3, <1>4, <1>5, <1>6, <1>7 DEF Mail!Requests, Mail!Mailboxes

---------------------------------------------------------------------------
(* Departments. *)

LEMMA DepartmentsStart == Dep!Init => Dep!Inv
BY DEF Dep!Init, Dep!Inv, Dep!Row, Dep!noDepartment, Dep!rows, Dep!CodeIsOfOneDepartment

LEMMA DepartmentsKept == ASSUME Dep!Inv, UNCHANGED s1 PROVE Dep!Inv'
BY DEF Dep!Inv, Dep!rows, Dep!CodeIsOfOneDepartment

\* A row is written whose code no other department has, and whose head has a name.
LEMMA DepartmentWritten ==
    ASSUME Dep!Inv, NEW d \in Department, NEW row \in Dep!Row, s1' = [s1 EXCEPT ![d] = row],
           row.status # "deleted" => /\ row.code # None /\ row.hodId \in {None, row.hodName}
                                     /\ Dep!ensureUniqueCode(row.code, d)
    PROVE  Dep!Inv'
<1>1. s1' \in [Department -> Dep!Row]
  BY DEF Dep!Inv
<1>2. s1'[d] = row /\ \A x \in Department \ {d} : s1'[x] = s1[x]
  BY DEF Dep!Inv
<1>3. /\ \A x \in Dep!rows' : x \in Dep!rows \/ (x = d /\ row.status # "deleted")
      /\ d \in Dep!rows' => row.status # "deleted"
  BY <1>2 DEF Dep!rows
<1>4. Dep!CodeIsOfOneDepartment'
  <2>1. ASSUME NEW x \in Dep!rows', NEW y \in Dep!rows', x # y PROVE s1'[x].code # s1'[y].code
    BY <1>2, <1>3, <2>1 DEF Dep!Inv, Dep!CodeIsOfOneDepartment, Dep!ensureUniqueCode
  <2>2. ASSUME NEW x \in Dep!rows' PROVE s1'[x].code # None /\ s1'[x].hodId \in {None, s1'[x].hodName}
    BY <1>2, <1>3, <2>2 DEF Dep!Inv, Dep!CodeIsOfOneDepartment, Dep!rows
  <2> QED
    BY <2>1, <2>2 DEF Dep!CodeIsOfOneDepartment
<1> QED
  BY <1>1, <1>4 DEF Dep!Inv

LEMMA DepartmentSeeded ==
    ASSUME Dep!Inv, NEW d \in Department, NEW c \in Code, Dep!ensureDefaultDepartments(d, c)
    PROVE  Dep!Inv'
<1> DEFINE none == Dep!noDepartment
           row == [none EXCEPT !.status = "active", !.code = c]
<1>1. s1' = [x \in Department |-> IF x = d THEN row ELSE none]
  BY DEF Dep!ensureDefaultDepartments
<1>2. c # None
  BY WorkflowsAssumption DEF Dep!DepartmentsConstants
<1>3. none \in Dep!Row /\ none.status = "absent" /\ none.hodId = None
  BY DEF Dep!noDepartment, Dep!Row
<1> HIDE DEF none
<1>4. row \in Dep!Row /\ row.code = c /\ row.hodId = None
  BY <1>3 DEF Dep!Row
<1> HIDE DEF row
<1>5. s1' \in [Department -> Dep!Row]
  BY <1>1, <1>3, <1>4
<1>6. \A x \in Dep!rows' : x = d
  BY <1>1, <1>3 DEF Dep!rows
<1> QED
  BY <1>1, <1>2, <1>4, <1>5, <1>6 DEF Dep!Inv, Dep!CodeIsOfOneDepartment

LEMMA DepartmentCreated ==
    ASSUME Dep!Inv, NEW d \in Department, NEW c \in Code \cup {None},
           NEW s \in {"active", "inactive"}, NEW h \in Employee \cup {None},
           Dep!createDepartment(d, c, s, h)
    PROVE  Dep!Inv'
<1>1. PICK k \in Dep!normalizedCode(c) :
          /\ Dep!ensureUniqueCode(k, d)
          /\ s1' = [s1 EXCEPT ![d] = [status |-> s, code |-> k, hodId |-> h, hodName |-> h]]
  BY DEF Dep!createDepartment
<1>2. k \in Code /\ k # None
  BY WorkflowsAssumption DEF Dep!normalizedCode, Dep!DepartmentsConstants
<1> DEFINE row == [status |-> s, code |-> k, hodId |-> h, hodName |-> h]
<1>3. row \in Dep!Row /\ row.code = k /\ row.hodId = row.hodName
  BY <1>2 DEF Dep!Row
<1> HIDE DEF row
<1>4. s1' = [s1 EXCEPT ![d] = row]
  BY <1>1 DEF row
<1> QED
  BY <1>1, <1>2, <1>3, <1>4, DepartmentWritten

LEMMA DepartmentRow ==
    ASSUME Dep!Inv, NEW d \in Dep!rows
    PROVE  /\ d \in Department /\ s1[d] \in Dep!Row
           /\ s1[d].code # None /\ s1[d].hodId \in {None, s1[d].hodName}
           /\ Dep!ensureUniqueCode(s1[d].code, d)
BY DEF Dep!Inv, Dep!CodeIsOfOneDepartment, Dep!rows, Dep!ensureUniqueCode

\* What an update writes, whatever of it was given.
LEMMA DepartmentUpdates ==
    ASSUME Dep!Inv, NEW d \in Dep!rows, NEW c \in Code \cup {None},
           NEW s \in {"active", "inactive", None}, NEW h \in Employee \cup {None},
           c # None => Dep!ensureUniqueCode(c, d)
    PROVE  /\ Dep!updated(d, c, s, h) \in Dep!Row
           /\ Dep!updated(d, c, s, h).code # None
           /\ Dep!updated(d, c, s, h).hodId \in {None, Dep!updated(d, c, s, h).hodName}
           /\ Dep!ensureUniqueCode(Dep!updated(d, c, s, h).code, d)
<1> DEFINE q == s1[d]
           status == IF s = None THEN "active" ELSE s
           code == IF c = None THEN q.code ELSE c
           hodId == IF h = None THEN q.hodId ELSE h
           hodName == IF h = None THEN q.hodName ELSE h
           row == [status |-> status, code |-> code, hodId |-> hodId, hodName |-> hodName]
<1>1. q = [status |-> q.status, code |-> q.code, hodId |-> q.hodId, hodName |-> q.hodName]
  BY DepartmentRow DEF Dep!Row
<1>2. Dep!updated(d, c, s, h) = row
  <2>1. Dep!updated(d, c, s, h) = [q EXCEPT !.status = status, !.code = code, !.hodId = hodId,
                                            !.hodName = hodName]
    BY <1>1 DEF Dep!updated
  <2> HIDE DEF q, status, code, hodId, hodName
  <2> QED
    BY <1>1, <2>1
<1>3. /\ q.code \in Code /\ q.code # None /\ q.hodId \in {None, q.hodName}
      /\ q.hodId \in Employee \cup {None} /\ q.hodName \in Employee \cup {None}
      /\ Dep!ensureUniqueCode(q.code, d)
  BY DepartmentRow DEF Dep!Row
<1>4. /\ status \in {"active", "inactive"} /\ code \in Code /\ code # None
      /\ hodId \in Employee \cup {None} /\ hodName \in Employee \cup {None}
      /\ hodId \in {None, hodName} /\ Dep!ensureUniqueCode(code, d)
  BY <1>3
<1> HIDE DEF status, code, hodId, hodName
<1>5. /\ row \in Dep!Row
      /\ row.code = code /\ row.hodId = hodId /\ row.hodName = hodName
  BY <1>4 DEF Dep!Row
<1> QED
  BY <1>2, <1>4, <1>5

LEMMA DepartmentUpdated ==
    ASSUME Dep!Inv, NEW d \in Department, NEW c \in Code \cup {None},
           NEW s \in {"active", "inactive", None}, NEW h \in Employee \cup {None},
           Dep!updateDepartment(d, c, s, h)
    PROVE  Dep!Inv'
<1>1. d \in Dep!rows /\ s1' = [s1 EXCEPT ![d] = Dep!updated(d, c, s, h)]
      /\ (c # None => Dep!ensureUniqueCode(c, d))
  BY DEF Dep!updateDepartment
<1> QED
  BY <1>1, DepartmentUpdates, DepartmentWritten

LEMMA DepartmentDeleted ==
    ASSUME Dep!Inv, NEW d \in Department, Dep!softDeleteDepartment(d)
    PROVE  Dep!Inv'
<1> DEFINE q == s1[d]
           row == [q EXCEPT !.status = "deleted"]
<1>1. s1' = [s1 EXCEPT ![d] = row]
  BY DEF Dep!softDeleteDepartment
<1>2. q \in Dep!Row
  BY DEF Dep!Inv
<1>3. row \in Dep!Row /\ row.status = "deleted"
  BY <1>2 DEF Dep!Row
<1> HIDE DEF row
<1> QED
  BY <1>1, <1>3, DepartmentWritten

LEMMA HodRemoved ==
    ASSUME Dep!Inv, NEW d \in Department, Dep!removeHod(d)
    PROVE  Dep!Inv'
<1> DEFINE q == Dep!updated(d, None, None, None)
           row == [q EXCEPT !.hodId = None]
<1>1. d \in Dep!rows /\ s1' = [s1 EXCEPT ![d] = row]
  BY DEF Dep!removeHod
<1>2. q \in Dep!Row /\ q.code # None /\ Dep!ensureUniqueCode(q.code, d)
  BY <1>1, DepartmentUpdates
<1> HIDE DEF q
<1>3. row \in Dep!Row /\ row.code = q.code /\ row.hodId = None
  BY <1>2 DEF Dep!Row
<1> HIDE DEF row
<1> QED
  BY <1>1, <1>2, <1>3, DepartmentWritten

LEMMA DepartmentsStep == ASSUME Dep!Inv, Dep!Next PROVE Dep!Inv'
<1>1. ASSUME NEW d \in Department, Dep!Administrator(d) PROVE Dep!Inv'
  <2>1. CASE \/ \E c \in Code \cup {None}, s \in {"active", "inactive", None}, h \in Employee \cup {None} :
                    Dep!editDepartment(d, c, s, h)
             \/ \E s \in {"active", "inactive"}, confirmed \in BOOLEAN, to \in Department \cup {None} :
                    Dep!setDepartmentStatus(d, s, confirmed, to)
             \/ \E e \in Employee : Dep!setHod(d, e)
    BY <2>1, DepartmentUpdated DEF Dep!editDepartment, Dep!setDepartmentStatus, Dep!setHod
  <2> QED
    BY <1>1, <2>1, DepartmentSeeded, DepartmentCreated, DepartmentDeleted, HodRemoved
       DEF Dep!Administrator
<1> QED
  BY <1>1, DepartmentsKept DEF Dep!Next, Dep!joins, Dep!performStaffAction

---------------------------------------------------------------------------
(* Roles and accounts: Rol(U, n) is of users U and at most n rows.         *)

LEMMA LeastNatural ==
    ASSUME NEW T, T \subseteq Nat, T # {}
    PROVE  \E x \in T : \A y \in T : x =< y
<1> DEFINE less == {ss \in Nat \X Nat : ss[1] < ss[2]}
<1>1. IsWellFoundedOn(less, Nat)
  BY NatLessThanWellFounded DEF OpToRel
<1>2. PICK x \in T : \A y \in T : ~ (<<y, x>> \in less)
  BY <1>1, WFMin
<1>3. ASSUME NEW y \in T PROVE x =< y
  <2>1. x \in Nat /\ y \in Nat /\ ~(y < x)
    BY <1>2
  <2> QED
    BY <2>1
<1> QED
  BY <1>3

LEMMA GreatestNatural ==
    ASSUME NEW n \in Nat, NEW T, T \subseteq 1 .. n, T # {}
    PROVE  \E x \in T : \A y \in T : x >= y
<1> DEFINE back == {n - i : i \in T}
<1>1. back \subseteq Nat /\ back # {}
  <2>1. \A i \in T : n - i \in Nat
    OBVIOUS
  <2> QED
    BY <2>1
<1>2. PICK b \in back : \A c \in back : b =< c
  BY <1>1, LeastNatural
<1>3. PICK x \in T : b = n - x
  OBVIOUS
<1>4. ASSUME NEW y \in T PROVE x >= y
  <2>1. n - x =< n - y
    BY <1>2, <1>3
  <2> QED
    BY <2>1
<1> QED
  BY <1>4

LEMMA FirstRow ==
    ASSUME NEW U, NEW m, NEW T, T \subseteq Nat, T # {}
    PROVE  Rol(U, m)!Min(T) \in T
BY LeastNatural DEF Rol!Min

LEMMA LastRow ==
    ASSUME NEW U, NEW m, NEW n \in Nat, NEW T, T \subseteq 1 .. n, T # {}
    PROVE  Rol(U, m)!Max(T) \in T
BY GreatestNatural DEF Rol!Max

LEMMA OneRow ==
    ASSUME NEW U, NEW m, NEW S, \A i, j \in S : i = j
    PROVE  Rol(U, m)!Cardinality(S) <= 1
<1>1. Rol(U, m)!Cardinality(S) = Cardinality(S)
  BY DEF Rol!Cardinality, Cardinality
<1>2. CASE S = {}
  BY <1>1, <1>2, FS_EmptySet
<1>3. CASE S # {}
  <2>1. PICK x : S = {x}
    BY <1>3
  <2> QED
    BY <1>1, <2>1, FS_Singleton
<1> QED
  BY <1>2, <1>3

LEMMA RolesStart == ASSUME NEW U, NEW n, Rol(U, n)!Init PROVE Rol(U, n)!Inv
<1>1. /\ s1 = <<>> /\ s2 = [u \in U |-> None] /\ s3 = [u \in U |-> None]
      /\ s4 = [k \in RoleKey |-> Rol(U, n)!byDefault(k)] /\ s5 = {} /\ s6 = {}
  BY DEF Rol!Init
<1>2. \A k \in RoleKey : Rol(U, n)!byDefault(k) \in SUBSET Permission
  BY WorkflowsAssumption DEF Rol!byDefault, Rol!RolesConstants
<1>3. Rol(U, n)!TypeOK
  BY <1>1, <1>2 DEF Rol!TypeOK
<1>4. DOMAIN s1 = {}
  BY <1>1
<1>5. \A k \in RoleKey : Rol(U, n)!ofKey(k) = {}
  BY <1>4 DEF Rol!ofKey, Rol!live
<1>6. \A k \in RoleKey : Rol(U, n)!Kept(k)
  BY <1>1, <1>5 DEF Rol!Kept
<1> QED
  BY <1>1, <1>3, <1>4, <1>6 DEF Rol!Inv, Rol!OneAccount

LEMMA RolesKept ==
    ASSUME NEW U, NEW n, Rol(U, n)!Inv, UNCHANGED <<s1, s2, s3, s4, s5, s6>>
    PROVE  Rol(U, n)!Inv'
BY DEF Rol!Inv, Rol!TypeOK, Rol!OneAccount, Rol!Named, Rol!Kept, Rol!ofKey, Rol!live, Rol!byDefault

LEMMA RoleRows ==
    ASSUME NEW U, NEW n, Rol(U, n)!Inv
    PROVE  /\ Rol(U, n)!live \subseteq 1 .. Len(s1) /\ Len(s1) \in Nat /\ DOMAIN s1 = 1 .. Len(s1)
           /\ \A i \in DOMAIN s1 : s1[i] \in Rol(U, n)!Row /\ Rol(U, n)!Named(i)
           /\ \A k \in RoleKey : Rol(U, n)!byDefault(k) \in SUBSET Permission
<1>1. s1 \in Seq(Rol(U, n)!Row)
  BY DEF Rol!Inv, Rol!TypeOK
<1>2. \A k \in RoleKey : Rol(U, n)!byDefault(k) \in SUBSET Permission
  BY WorkflowsAssumption DEF Rol!byDefault, Rol!RolesConstants
<1> QED
  BY <1>1, <1>2 DEF Rol!Inv, Rol!live

\* What is shown of a key is a row of it, or the default role.
LEMMA RoleShown ==
    ASSUME NEW U, NEW n, Rol(U, n)!Inv, NEW r \in Rol(U, n)!listAllRoles
    PROVE  /\ r \in Rol(U, n)!Row
           /\ \/ \E i \in Rol(U, n)!live : r = s1[i]
              \/ /\ r = Rol(U, n)!defaultRole(r.key) /\ r.id = r.key
                 /\ Rol(U, n)!ofKey(r.key) = {} /\ r.key \in Default
<1>1. PICK k \in RoleKey : (k \in Default \/ Rol(U, n)!ofKey(k) # {}) /\ r = Rol(U, n)!role(k)
  BY DEF Rol!listAllRoles
<1>2. CASE Rol(U, n)!ofKey(k) = {}
  <2>1. r = Rol(U, n)!defaultRole(k)
    BY <1>1, <1>2 DEF Rol!role
  <2>2. r \in Rol(U, n)!Row /\ r.key = k /\ r.id = k
    BY <2>1, RoleRows DEF Rol!defaultRole, Rol!Row
  <2> QED
    BY <1>1, <1>2, <2>1, <2>2
<1>3. CASE Rol(U, n)!ofKey(k) # {}
  <2>1. Rol(U, n)!ofKey(k) \subseteq Rol(U, n)!live
    BY DEF Rol!ofKey
  <2>2. PICK i \in Rol(U, n)!ofKey(k) : r = s1[i]
    <3>1. Rol(U, n)!ofKey(k) \subseteq 1 .. Len(s1) /\ Len(s1) \in Nat
      BY <2>1, RoleRows
    <3>2. Rol(U, n)!Max(Rol(U, n)!ofKey(k)) \in Rol(U, n)!ofKey(k)
      BY <1>3, <3>1, LastRow
    <3> QED
      BY <1>1, <1>3, <3>2 DEF Rol!role
  <2>3. r \in Rol(U, n)!Row
    BY <2>1, <2>2, RoleRows
  <2> QED
    BY <2>1, <2>2, <2>3
<1> QED
  BY <1>2, <1>3

LEMMA RowStored ==
    ASSUME NEW U, NEW n, Rol(U, n)!Inv, NEW x
    PROVE  \/ /\ Rol(U, n)!stored(x) \in Rol(U, n)!live
              /\ x \in {s1[Rol(U, n)!stored(x)].id, s1[Rol(U, n)!stored(x)].key}
           \/ /\ Rol(U, n)!stored(x) = 0
              /\ \A i \in Rol(U, n)!live : s1[i].id # x /\ s1[i].key # x
<1> DEFINE found == {i \in Rol(U, n)!live : s1[i].id = x \/ s1[i].key = x}
<1>1. CASE found = {}
  BY <1>1 DEF Rol!stored
<1>2. CASE found # {}
  <2>1. found \subseteq Nat
    BY RoleRows
  <2>2. Rol(U, n)!Min(found) \in found
    BY <1>2, <2>1, FirstRow
  <2>3. Rol(U, n)!stored(x) = Rol(U, n)!Min(found)
    BY <1>2 DEF Rol!stored
  <2> QED
    BY <2>2, <2>3
<1> QED
  BY <1>1, <1>2

\* What findRole() returns and updateRoleRecord() writes are of one key, or of keys that
\* somebody renamed; where there is no row, a default role is found.
LEMMA RoleFound ==
    ASSUME NEW U, NEW n, Rol(U, n)!Inv, NEW x, NEW i, i = Rol(U, n)!stored(x),
           NEW r \in Rol(U, n)!listAllRoles, r \in Rol(U, n)!findRole(x)
    PROVE  /\ r \in Rol(U, n)!Row
           /\ i # 0 => /\ i \in Rol(U, n)!live
                       /\ r.key = s1[i].key \/ {r.key, s1[i].key} \subseteq s5
           /\ i = 0 => /\ r = Rol(U, n)!defaultRole(r.key) /\ r.id = r.key
                       /\ Rol(U, n)!ofKey(r.key) = {}
<1>0. RoleKey \cap Nat = {}
  BY WorkflowsAssumption DEF Rol!RolesConstants
<1>1. /\ r \in Rol(U, n)!Row
      /\ r.id = x \/ r.key = x
      /\ \/ \E j \in Rol(U, n)!live : r = s1[j]
         \/ /\ r = Rol(U, n)!defaultRole(r.key) /\ r.id = r.key
            /\ Rol(U, n)!ofKey(r.key) = {}
  BY RoleShown DEF Rol!findRole
<1>2. r.key \in RoleKey
  BY <1>1 DEF Rol!Row
<1>3. ASSUME NEW j \in Rol(U, n)!live
      PROVE  /\ j \in Nat /\ s1[j].key \in RoleKey
             /\ \/ s1[j].id = j
                \/ /\ s1[j].id \in RoleKey
                   /\ s1[j].id = s1[j].key \/ {s1[j].id, s1[j].key} \subseteq s5
  <2>1. j \in DOMAIN s1 /\ j \in Nat
    BY RoleRows
  <2>2. s1[j] \in Rol(U, n)!Row /\ Rol(U, n)!Named(j)
    BY <2>1, RoleRows
  <2> QED
    BY <2>1, <2>2 DEF Rol!Row, Rol!Named
<1>4. CASE i = 0
  <2>1. \A j \in Rol(U, n)!live : s1[j].id # x /\ s1[j].key # x
    <3>1. 0 \notin Rol(U, n)!live
      BY RoleRows
    <3> QED
      BY <1>4, <3>1, RowStored
  <2> QED
    BY <1>1, <1>4, <2>1
<1>5. CASE i # 0
  <2>1. i \in Rol(U, n)!live /\ x \in {s1[i].id, s1[i].key}
    BY <1>5, RowStored
  <2>2. CASE x \notin RoleKey
    <3>1. s1[i].id = x /\ x = i
      BY <1>3, <2>1, <2>2
    <3>2. \E j \in Rol(U, n)!live : r = s1[j] /\ r.id = x
      BY <1>1, <1>2, <2>2
    <3>3. r = s1[i]
      BY <1>3, <2>2, <3>1, <3>2
    <3> QED
      BY <1>1, <1>5, <2>1, <3>3
  <2>3. CASE x \in RoleKey
    <3>1. s1[i].key = x \/ {x, s1[i].key} \subseteq s5
      BY <1>0, <1>3, <2>1, <2>3
    <3>2. r.key = x \/ {x, r.key} \subseteq s5
      BY <1>0, <1>1, <1>3, <2>3
    <3> QED
      BY <1>1, <1>5, <2>1, <3>1, <3>2
  <2> QED
    BY <2>2, <2>3
<1> QED
  BY <1>4, <1>5

\* A row is added: of a key that is renamed, or that had none.
LEMMA RowAppended ==
    ASSUME NEW U, NEW n, Rol(U, n)!Inv, NEW row \in Rol(U, n)!Row, s1' = Append(s1, row),
           \/ row.id = Len(s1) + 1
           \/ row.id \in RoleKey /\ (row.id = row.key \/ {row.id, row.key} \subseteq s5'),
           s4' \in [RoleKey -> SUBSET Permission], s5 \subseteq s5',
           row.key \notin s5' => /\ row.live /\ row.permissions = s4'[row.key]
                                 /\ Rol(U, n)!ofKey(row.key) = {},
           \A k \in RoleKey \ s5' : k # row.key => s4'[k] = s4[k],
           UNCHANGED <<s2, s3, s6>>
    PROVE  Rol(U, n)!Inv'
<1>1. s1 \in Seq(Rol(U, n)!Row) /\ Len(s1) \in Nat /\ DOMAIN s1 = 1 .. Len(s1)
  BY DEF Rol!Inv, Rol!TypeOK
<1>2. /\ s1' \in Seq(Rol(U, n)!Row) /\ DOMAIN s1' = 1 .. (Len(s1) + 1)
      /\ s1'[Len(s1) + 1] = row /\ \A i \in DOMAIN s1 : s1'[i] = s1[i]
  BY <1>1
<1>3. /\ Len(s1) + 1 \notin DOMAIN s1
      /\ \A i \in DOMAIN s1' : i \in DOMAIN s1 \/ i = Len(s1) + 1
      /\ Len(s1) + 1 \in DOMAIN s1' /\ \A i \in DOMAIN s1 : i \in DOMAIN s1'
  BY <1>1, <1>2
<1>4. \A i \in DOMAIN s1' : Rol(U, n)!Named(i)'
  BY <1>2, <1>3 DEF Rol!Inv, Rol!Named
<1>5. ASSUME NEW k \in RoleKey \ s5' PROVE Rol(U, n)!Kept(k)'
  <2>1. Rol(U, n)!Kept(k)
    BY DEF Rol!Inv
  <2>2. CASE k # row.key
    <3>1. Rol(U, n)!ofKey(k)' = Rol(U, n)!ofKey(k)
      BY <1>2, <1>3, <2>2 DEF Rol!ofKey, Rol!live
    <3>2. \A i \in Rol(U, n)!ofKey(k) : s1'[i] = s1[i]
      BY <1>2 DEF Rol!ofKey, Rol!live
    <3> QED
      BY <2>1, <2>2, <3>1, <3>2 DEF Rol!Kept, Rol!byDefault
  <2>3. CASE k = row.key
    <3>1. Rol(U, n)!ofKey(k)' = {Len(s1) + 1}
      <4>1. ASSUME NEW i \in Rol(U, n)!ofKey(k)' PROVE i = Len(s1) + 1
        BY <1>2, <1>3, <2>3 DEF Rol!ofKey, Rol!live
      <4>2. Len(s1) + 1 \in Rol(U, n)!ofKey(k)'
        BY <1>2, <1>3, <2>3 DEF Rol!ofKey, Rol!live
      <4> QED
        BY <4>1, <4>2
    <3> QED
      BY <1>2, <2>3, <3>1 DEF Rol!Kept
  <2> QED
    BY <2>2, <2>3
<1>6. Rol(U, n)!TypeOK' /\ Rol(U, n)!OneAccount'
  BY <1>2 DEF Rol!Inv, Rol!TypeOK, Rol!OneAccount
<1> QED
  BY <1>4, <1>5, <1>6 DEF Rol!Inv

\* A live row is written: it keeps its key, or both keys are renamed ones; and what it allows
\* is what was assigned, or it is gone and the default is.
LEMMA RowChanged ==
    ASSUME NEW U, NEW n, Rol(U, n)!Inv, NEW i \in Rol(U, n)!live, NEW row \in Rol(U, n)!Row,
           s1' = [s1 EXCEPT ![i] = row], row.id = s1[i].id,
           row.key = s1[i].key \/ {s1[i].key, row.key} \subseteq s5',
           s4' \in [RoleKey -> SUBSET Permission], s5 \subseteq s5',
           row.key \notin s5' => \/ row.live /\ row.permissions = s4'[row.key]
                                 \/ ~row.live /\ s4'[row.key] = Rol(U, n)!byDefault(row.key),
           \A k \in RoleKey \ s5' : k # row.key => s4'[k] = s4[k],
           UNCHANGED <<s2, s3, s6>>
    PROVE  Rol(U, n)!Inv'
<1>1. s1 \in Seq(Rol(U, n)!Row) /\ i \in DOMAIN s1 /\ DOMAIN s1 = 1 .. Len(s1) /\ Len(s1) \in Nat
  BY DEF Rol!Inv, Rol!TypeOK, Rol!live
<1>2. /\ s1' \in Seq(Rol(U, n)!Row) /\ DOMAIN s1' = DOMAIN s1
      /\ s1'[i] = row /\ \A j \in DOMAIN s1 \ {i} : s1'[j] = s1[j]
  BY <1>1
<1>3. Rol(U, n)!Named(i)'
  <2>1. Rol(U, n)!Named(i)
    BY <1>1 DEF Rol!Inv
  <2> QED
    BY <1>2, <2>1 DEF Rol!Named
<1>4. \A j \in DOMAIN s1' : Rol(U, n)!Named(j)'
  BY <1>2, <1>3 DEF Rol!Inv, Rol!Named
<1>5. ASSUME NEW k \in RoleKey \ s5' PROVE Rol(U, n)!Kept(k)'
  <2>1. Rol(U, n)!Kept(k)
    BY DEF Rol!Inv
  <2>2. CASE k # row.key
    <3>0. k # s1[i].key
      BY <2>2
    <3>1. Rol(U, n)!ofKey(k)' = Rol(U, n)!ofKey(k)
      BY <1>2, <2>2, <3>0 DEF Rol!ofKey, Rol!live
    <3>2. \A j \in Rol(U, n)!ofKey(k) : s1'[j] = s1[j]
      BY <1>2, <3>0 DEF Rol!ofKey, Rol!live
    <3> QED
      BY <2>1, <2>2, <3>1, <3>2 DEF Rol!Kept, Rol!byDefault
  <2>3. CASE k = row.key
    <3>1. s1[i].key = k /\ i \in Rol(U, n)!ofKey(k)
      BY <2>3 DEF Rol!ofKey
    <3>2. Rol(U, n)!ofKey(k) = {i}
      BY <2>1, <3>1 DEF Rol!Kept
    <3>3. \A j \in Rol(U, n)!ofKey(k)' : j = i /\ row.live
      BY <1>2, <3>2 DEF Rol!ofKey, Rol!live
    <3>4. row.live => i \in Rol(U, n)!ofKey(k)'
      BY <1>1, <1>2, <2>3 DEF Rol!ofKey, Rol!live
    <3> QED
      BY <1>2, <2>3, <3>3, <3>4 DEF Rol!Kept, Rol!byDefault
  <2> QED
    BY <2>2, <2>3
<1>6. Rol(U, n)!TypeOK' /\ Rol(U, n)!OneAccount'
  BY <1>2 DEF Rol!Inv, Rol!TypeOK, Rol!OneAccount
<1> QED
  BY <1>4, <1>5, <1>6 DEF Rol!Inv

LEMMA RowMade ==
    ASSUME NEW U, NEW n, Rol(U, n)!Inv, NEW k \in RoleKey, NEW p \in SUBSET Permission,
           s1' = Append(s1, Rol(U, n)!newRow(k, p)),
           s4' \in [RoleKey -> SUBSET Permission], s5 \subseteq s5',
           k \notin s5' => s4'[k] = p /\ Rol(U, n)!ofKey(k) = {},
           \A l \in RoleKey \ s5' : l # k => s4'[l] = s4[l],
           UNCHANGED <<s2, s3, s6>>
    PROVE  Rol(U, n)!Inv'
<1> DEFINE row == Rol(U, n)!newRow(k, p)
<1>1. Len(s1) + 1 \in Nat
  BY RoleRows
<1>2. /\ row \in Rol(U, n)!Row /\ row.id = Len(s1) + 1 /\ row.key = k
      /\ row.live /\ row.permissions = p
  BY <1>1 DEF Rol!newRow, Rol!Row
<1>3. /\ s1' = Append(s1, row)
      /\ row.key \notin s5' => /\ row.live /\ row.permissions = s4'[row.key]
                               /\ Rol(U, n)!ofKey(row.key) = {}
      /\ \A l \in RoleKey \ s5' : l # row.key => s4'[l] = s4[l]
  BY <1>2
<1>4. /\ s4' \in [RoleKey -> SUBSET Permission] /\ s5 \subseteq s5' /\ UNCHANGED <<s2, s3, s6>>
      /\ row.id = Len(s1) + 1
  BY <1>2
<1> HIDE DEF row
<1> QED
  BY <1>2, <1>3, <1>4, RowAppended

LEMMA RoleAssigns ==
    ASSUME NEW U, NEW n, Rol(U, n)!Inv, NEW k \in RoleKey, NEW p \in SUBSET Permission,
           Rol(U, n)!assigns(k, p)
    PROVE  /\ s4' \in [RoleKey -> SUBSET Permission] /\ s4'[k] = p
           /\ \A l \in RoleKey : l # k => s4'[l] = s4[l]
BY DEF Rol!assigns, Rol!Inv, Rol!TypeOK

LEMMA RoleCreated ==
    ASSUME NEW U, NEW n, Rol(U, n)!Inv, NEW k \in RoleKey, NEW p \in SUBSET Permission,
           Rol(U, n)!createRole(k, p)
    PROVE  Rol(U, n)!Inv'
<1>1. /\ Rol(U, n)!findRole(k) = {} /\ Rol(U, n)!assigns(k, p)
      /\ s1' = Append(s1, Rol(U, n)!newRow(k, p)) /\ s5' = s5 /\ UNCHANGED <<s2, s3, s6>>
  BY DEF Rol!createRole, Rol!writeRoleRecord
<1>2. Rol(U, n)!ofKey(k) = {}
  <2>1. SUFFICES ASSUME Rol(U, n)!ofKey(k) # {} PROVE FALSE
    OBVIOUS
  <2>2. Rol(U, n)!role(k) \in Rol(U, n)!listAllRoles
    BY <2>1 DEF Rol!listAllRoles
  <2>3. Rol(U, n)!role(k).key = k
    <3>1. Rol(U, n)!ofKey(k) \subseteq 1 .. Len(s1) /\ Len(s1) \in Nat
      BY RoleRows DEF Rol!ofKey
    <3>2. Rol(U, n)!Max(Rol(U, n)!ofKey(k)) \in Rol(U, n)!ofKey(k)
      BY <2>1, <3>1, LastRow
    <3> QED
      BY <2>1, <3>2 DEF Rol!role, Rol!ofKey
  <2> QED
    BY <1>1, <2>2, <2>3 DEF Rol!findRole
<1>3. /\ s4' \in [RoleKey -> SUBSET Permission] /\ s5 \subseteq s5'
      /\ k \notin s5' => s4'[k] = p /\ Rol(U, n)!ofKey(k) = {}
      /\ \A l \in RoleKey \ s5' : l # k => s4'[l] = s4[l]
  BY <1>1, <1>2, RoleAssigns
<1> QED
  BY <1>1, <1>3, RowMade

LEMMA SystemCreates ==
    ASSUME NEW U, NEW n, Rol(U, n)!Inv, NEW k \in RoleKey, NEW p \in SUBSET Permission,
           Rol(U, n)!systemCreates(k, p)
    PROVE  Rol(U, n)!Inv'
<1>1. /\ s1' = Append(s1, Rol(U, n)!newRow(k, p)) /\ s5' = s5 \cup {k}
      /\ UNCHANGED <<s2, s3, s4, s6>>
  BY DEF Rol!systemCreates, Rol!writeRoleRecord, Rol!edits
<1>2. /\ s4' \in [RoleKey -> SUBSET Permission] /\ s5 \subseteq s5'
      /\ k \notin s5' => s4'[k] = p /\ Rol(U, n)!ofKey(k) = {}
      /\ \A l \in RoleKey \ s5' : l # k => s4'[l] = s4[l]
  BY <1>1 DEF Rol!Inv, Rol!TypeOK
<1> QED
  BY <1>1, <1>2, RowMade

LEMMA LiveRow ==
    ASSUME NEW U, NEW n, Rol(U, n)!Inv, NEW i \in Rol(U, n)!live
    PROVE  /\ s1[i] \in Rol(U, n)!Row /\ s1[i].key \in RoleKey /\ s1[i].live
           /\ s1[i].key \notin s5 => s1[i].permissions = s4[s1[i].key]
<1>1. i \in DOMAIN s1 /\ s1[i].live
  BY DEF Rol!live
<1>2. s1[i] \in Rol(U, n)!Row
  BY <1>1, RoleRows
<1>3. s1[i].key \in RoleKey
  BY <1>2 DEF Rol!Row
<1>4. ASSUME s1[i].key \notin s5 PROVE s1[i].permissions = s4[s1[i].key]
  BY <1>3, <1>4 DEF Rol!Inv, Rol!Kept, Rol!ofKey
<1> QED
  BY <1>1, <1>2, <1>3, <1>4

\* The key of a row is changed.
LEMMA RowRenamed ==
    ASSUME NEW U, NEW n, Rol(U, n)!Inv, NEW i \in Rol(U, n)!live, NEW k \in RoleKey,
           s1' = [s1 EXCEPT ![i].key = k], s5 \subseteq s5',
           s1[i].key = k \/ {s1[i].key, k} \subseteq s5', UNCHANGED <<s2, s3, s4, s6>>
    PROVE  Rol(U, n)!Inv'
<1> DEFINE q == s1[i]
           row == [q EXCEPT !.key = k]
<1>1. /\ q \in Rol(U, n)!Row /\ q.live
      /\ q.key \notin s5 => q.permissions = s4[q.key]
  BY LiveRow
<1>2. s1' = [s1 EXCEPT ![i] = row] /\ (q.key = k \/ {q.key, k} \subseteq s5')
  OBVIOUS
<1> HIDE DEF q
<1>3. /\ row \in Rol(U, n)!Row /\ row.key = k /\ row.id = q.id
      /\ row.live /\ row.permissions = q.permissions
  BY <1>1 DEF Rol!Row
<1> HIDE DEF row
<1>4. /\ row.key = s1[i].key \/ {s1[i].key, row.key} \subseteq s5'
      /\ row.id = s1[i].id
  BY <1>2, <1>3 DEF q
<1>5. row.key \notin s5' => row.live /\ row.permissions = s4'[row.key]
  BY <1>1, <1>2, <1>3
<1>6. /\ s4' \in [RoleKey -> SUBSET Permission] /\ s5 \subseteq s5' /\ UNCHANGED <<s2, s3, s6>>
      /\ \A l \in RoleKey \ s5' : l # row.key => s4'[l] = s4[l]
  BY DEF Rol!Inv, Rol!TypeOK
<1> QED
  BY <1>2, <1>3, <1>4, <1>5, <1>6, RowChanged

\* A row is deleted, and what a key allows is the default's again; or it allows p, and so
\* does what is assigned to a key.
LEMMA RowDeleted ==
    ASSUME NEW U, NEW n, Rol(U, n)!Inv, NEW i \in Rol(U, n)!live, NEW k \in RoleKey,
           k = s1[i].key \/ {k, s1[i].key} \subseteq s5,
           s1' = [s1 EXCEPT ![i].live = FALSE],
           Rol(U, n)!assigns(k, Rol(U, n)!byDefault(k)), UNCHANGED <<s2, s3, s5, s6>>
    PROVE  Rol(U, n)!Inv'
<1>0. PICK b \in BOOLEAN : b = FALSE
  OBVIOUS
<1> DEFINE q == s1[i]
           row == [q EXCEPT !.live = b]
<1>1. q \in Rol(U, n)!Row /\ (k = q.key \/ {k, q.key} \subseteq s5)
  BY LiveRow
<1>2. s1' = [s1 EXCEPT ![i] = row]
  BY <1>0
<1> HIDE DEF q
<1>3. row \in Rol(U, n)!Row /\ row.key = q.key /\ row.id = q.id /\ ~row.live
  BY <1>0, <1>1 DEF Rol!Row
<1> HIDE DEF row
<1>4. row.key = s1[i].key /\ row.id = s1[i].id
  BY <1>3 DEF q
<1>5. /\ s4' \in [RoleKey -> SUBSET Permission] /\ s4'[k] = Rol(U, n)!byDefault(k)
      /\ \A l \in RoleKey : l # k => s4'[l] = s4[l]
  BY RoleRows, RoleAssigns
<1>6. /\ row.key \notin s5' => ~row.live /\ s4'[row.key] = Rol(U, n)!byDefault(row.key)
      /\ \A l \in RoleKey \ s5' : l # row.key => s4'[l] = s4[l]
  BY <1>1, <1>3, <1>5
<1>7. s5 \subseteq s5' /\ UNCHANGED <<s2, s3, s6>>
  OBVIOUS
<1> QED
  BY <1>2, <1>3, <1>4, <1>5, <1>6, <1>7, RowChanged

LEMMA RowPermits ==
    ASSUME NEW U, NEW n, Rol(U, n)!Inv, NEW i \in Rol(U, n)!live, NEW k \in RoleKey,
           k = s1[i].key \/ {k, s1[i].key} \subseteq s5,
           NEW p \in SUBSET Permission, s1' = [s1 EXCEPT ![i].permissions = p],
           Rol(U, n)!assigns(k, p), UNCHANGED <<s2, s3, s5, s6>>
    PROVE  Rol(U, n)!Inv'
<1> DEFINE q == s1[i]
           row == [q EXCEPT !.permissions = p]
<1>1. q \in Rol(U, n)!Row /\ q.live /\ (k = q.key \/ {k, q.key} \subseteq s5)
  BY LiveRow
<1>2. s1' = [s1 EXCEPT ![i] = row]
  OBVIOUS
<1> HIDE DEF q
<1>3. /\ row \in Rol(U, n)!Row /\ row.key = q.key /\ row.id = q.id
      /\ row.live /\ row.permissions = p
  BY <1>1 DEF Rol!Row
<1> HIDE DEF row
<1>4. row.key = s1[i].key /\ row.id = s1[i].id
  BY <1>3 DEF q
<1>5. /\ s4' \in [RoleKey -> SUBSET Permission] /\ s4'[k] = p
      /\ \A l \in RoleKey : l # k => s4'[l] = s4[l]
  BY RoleAssigns
<1>6. /\ row.key \notin s5' => row.live /\ row.permissions = s4'[row.key]
      /\ \A l \in RoleKey \ s5' : l # row.key => s4'[l] = s4[l]
  BY <1>1, <1>3, <1>5
<1>7. s5 \subseteq s5' /\ UNCHANGED <<s2, s3, s6>>
  OBVIOUS
<1> QED
  BY <1>2, <1>3, <1>4, <1>5, <1>6, <1>7, RowChanged

LEMMA RoleUpdated ==
    ASSUME NEW U, NEW n, Rol(U, n)!Inv, NEW x, NEW r \in Rol(U, n)!listAllRoles, NEW k \in RoleKey,
           Rol(U, n)!updateRole(x, r, k)
    PROVE  Rol(U, n)!Inv'
<1>0. r \in Rol(U, n)!findRole(x)
  BY DEF Rol!updateRole
<1>1. PICK i : i = Rol(U, n)!stored(x)
  OBVIOUS
<1>2. /\ UNCHANGED <<s2, s3, s4, s6>>
      /\ IF i = 0 THEN s1' = Append(s1, [r EXCEPT !.key = k, !.system = FALSE])
         ELSE s1' = [s1 EXCEPT ![i].key = k]
      /\ IF r.key = k THEN s5' = s5 ELSE s5' = s5 \cup {r.key, k}
  BY <1>1 DEF Rol!updateRole, Rol!writeRoleRecord, Rol!edits
<1>3. /\ r \in Rol(U, n)!Row
      /\ i # 0 => /\ i \in Rol(U, n)!live
                  /\ r.key = s1[i].key \/ {r.key, s1[i].key} \subseteq s5
      /\ i = 0 => /\ r = Rol(U, n)!defaultRole(r.key) /\ r.id = r.key
                  /\ Rol(U, n)!ofKey(r.key) = {}
  BY <1>0, <1>1, RoleFound
<1>4. s5 \subseteq s5' /\ (r.key = k \/ {r.key, k} \subseteq s5')
  BY <1>2
<1>5. CASE i # 0
  <2>1. s1[i].key = k \/ {s1[i].key, k} \subseteq s5'
    BY <1>3, <1>4, <1>5
  <2>2. i \in Rol(U, n)!live /\ s1' = [s1 EXCEPT ![i].key = k] /\ UNCHANGED <<s2, s3, s4, s6>>
    BY <1>2, <1>3, <1>5
  <2> QED
    BY <1>4, <2>1, <2>2, RowRenamed
<1>6. CASE i = 0
  <2>0. PICK b \in BOOLEAN : b = FALSE
    OBVIOUS
  <2> DEFINE row == [r EXCEPT !.key = k, !.system = b]
  <2>1. s1' = Append(s1, row)
    BY <1>2, <1>6, <2>0
  <2>2. r.live /\ r.permissions = Rol(U, n)!byDefault(r.key) /\ r.key \in RoleKey
    BY <1>3, <1>6 DEF Rol!defaultRole, Rol!Row
  <2>3. /\ row \in Rol(U, n)!Row /\ row.id = r.key /\ row.key = k
        /\ row.live = r.live /\ row.permissions = r.permissions
    BY <1>3, <1>6, <2>0 DEF Rol!Row
  <2> HIDE DEF row
  <2>4. row.id \in RoleKey /\ (row.id = row.key \/ {row.id, row.key} \subseteq s5')
    BY <1>4, <2>2, <2>3
  <2>5. ASSUME row.key \notin s5'
        PROVE  /\ row.live /\ row.permissions = s4'[row.key]
               /\ Rol(U, n)!ofKey(row.key) = {}
    <3>1. r.key = k /\ k \notin s5 /\ Rol(U, n)!ofKey(k) = {}
      BY <1>3, <1>4, <1>6, <2>3, <2>5
    <3>2. s4[k] = Rol(U, n)!byDefault(k)
      BY <3>1 DEF Rol!Inv, Rol!Kept
    <3> QED
      BY <1>2, <2>2, <2>3, <3>1, <3>2
  <2>6. /\ s4' \in [RoleKey -> SUBSET Permission] /\ s5 \subseteq s5' /\ UNCHANGED <<s2, s3, s6>>
        /\ \A l \in RoleKey \ s5' : l # row.key => s4'[l] = s4[l]
    BY <1>2, <1>4 DEF Rol!Inv, Rol!TypeOK
  <2> QED
    BY <2>1, <2>3, <2>4, <2>5, <2>6, RowAppended
<1> QED
  BY <1>5, <1>6

LEMMA RoleDeleted ==
    ASSUME NEW U, NEW n, Rol(U, n)!Inv, NEW x, NEW r \in Rol(U, n)!listAllRoles,
           Rol(U, n)!deleteRole(x, r)
    PROVE  Rol(U, n)!Inv'
<1>1. PICK i : i = Rol(U, n)!stored(x)
  OBVIOUS
<1>2. /\ r \in Rol(U, n)!findRole(x) /\ i # 0
      /\ s1' = [s1 EXCEPT ![i].live = FALSE]
      /\ Rol(U, n)!assigns(r.key, Rol(U, n)!byDefault(r.key)) /\ UNCHANGED <<s2, s3, s5, s6>>
  BY <1>1 DEF Rol!deleteRole
<1>3. /\ r \in Rol(U, n)!Row /\ i \in Rol(U, n)!live
      /\ r.key = s1[i].key \/ {r.key, s1[i].key} \subseteq s5
  BY <1>1, <1>2, RoleFound
<1>4. r.key \in RoleKey
  BY <1>3 DEF Rol!Row
<1> QED
  BY <1>2, <1>3, <1>4, RowDeleted

LEMMA PermissionsPut ==
    ASSUME NEW U, NEW n, Rol(U, n)!Inv, NEW x, NEW r \in Rol(U, n)!listAllRoles,
           NEW p \in SUBSET Permission, Rol(U, n)!putRolePermissions(x, r, p)
    PROVE  Rol(U, n)!Inv'
<1>1. PICK i : i = Rol(U, n)!stored(x)
  OBVIOUS
<1>2. /\ r \in Rol(U, n)!findRole(x) /\ Rol(U, n)!assigns(r.key, p) /\ UNCHANGED <<s2, s3, s5, s6>>
      /\ IF i = 0 THEN s1' = Append(s1, Rol(U, n)!newRow(r.key, p))
         ELSE s1' = [s1 EXCEPT ![i].permissions = p]
  BY <1>1 DEF Rol!putRolePermissions, Rol!writeRoleRecord
<1>3. /\ r \in Rol(U, n)!Row
      /\ i # 0 => /\ i \in Rol(U, n)!live
                  /\ r.key = s1[i].key \/ {r.key, s1[i].key} \subseteq s5
      /\ i = 0 => Rol(U, n)!ofKey(r.key) = {}
  BY <1>1, <1>2, RoleFound
<1>4. PICK k \in RoleKey : k = r.key
  BY <1>3 DEF Rol!Row
<1>5. CASE i # 0
  <2>1. /\ i \in Rol(U, n)!live
        /\ k = s1[i].key \/ {k, s1[i].key} \subseteq s5
        /\ s1' = [s1 EXCEPT ![i].permissions = p]
        /\ Rol(U, n)!assigns(k, p) /\ UNCHANGED <<s2, s3, s5, s6>>
    BY <1>2, <1>3, <1>4, <1>5
  <2> QED
    BY <2>1, RowPermits
<1>6. CASE i = 0
  <2>1. s1' = Append(s1, Rol(U, n)!newRow(k, p)) /\ UNCHANGED <<s2, s3, s6>>
    BY <1>2, <1>4, <1>6
  <2>2. /\ s4' \in [RoleKey -> SUBSET Permission] /\ s5 \subseteq s5'
        /\ k \notin s5' => s4'[k] = p /\ Rol(U, n)!ofKey(k) = {}
        /\ \A l \in RoleKey \ s5' : l # k => s4'[l] = s4[l]
    BY <1>2, <1>3, <1>4, <1>6, RoleAssigns
  <2> QED
    BY <2>1, <2>2, RowMade
<1> QED
  BY <1>5, <1>6

LEMMA SystemWrites ==
    ASSUME NEW U, NEW n, Rol(U, n)!Inv, NEW i, Rol(U, n)!SystemManagement(i)
    PROVE  Rol(U, n)!Inv'
<1>1. ASSUME NEW k \in RoleKey, Rol(U, n)!systemUpdates(i, k) PROVE Rol(U, n)!Inv'
  <2>1. /\ i \in Rol(U, n)!live /\ s1' = [s1 EXCEPT ![i].key = k] /\ UNCHANGED <<s2, s3, s4, s6>>
        /\ s5 \subseteq s5'
        /\ s1[i].key = k \/ {s1[i].key, k} \subseteq s5'
    BY <1>1 DEF Rol!systemUpdates, Rol!edits
  <2> QED
    BY <2>1, RowRenamed
<1>2. ASSUME Rol(U, n)!systemDeletes(i) PROVE Rol(U, n)!Inv'
  <2>1. PICK k \in RoleKey : k = s1[i].key
    BY <1>2, LiveRow DEF Rol!systemDeletes
  <2>2. /\ i \in Rol(U, n)!live /\ s1' = [s1 EXCEPT ![i].live = FALSE]
        /\ Rol(U, n)!assigns(k, Rol(U, n)!byDefault(k)) /\ UNCHANGED <<s2, s3, s5, s6>>
    BY <1>2, <2>1 DEF Rol!systemDeletes
  <2> QED
    BY <2>1, <2>2, RowDeleted
<1>3. ASSUME NEW p \in SUBSET Permission, Rol(U, n)!assignRolePermissions(i, p) PROVE Rol(U, n)!Inv'
  <2>1. PICK k \in RoleKey : k = s1[i].key
    BY <1>3, LiveRow DEF Rol!assignRolePermissions
  <2>2. /\ i \in Rol(U, n)!live /\ s1' = [s1 EXCEPT ![i].permissions = p]
        /\ Rol(U, n)!assigns(k, p) /\ UNCHANGED <<s2, s3, s5, s6>>
    BY <1>3, <2>1 DEF Rol!assignRolePermissions
  <2> QED
    BY <2>1, <2>2, RowPermits
<1> QED
  BY <1>1, <1>2, <1>3 DEF Rol!SystemManagement

LEMMA AccountsCreated ==
    ASSUME NEW U, NEW n, Rol(U, n)!Inv, NEW u \in U, Rol(U, n)!Accounts(u)
    PROVE  Rol(U, n)!Inv'
<1>1. UNCHANGED <<s1, s4, s5>>
  BY DEF Rol!Accounts, Rol!createUserAccount, Rol!attachEmployeeProfile
<1>2. /\ s2 \in [U -> Employee \cup {None}] /\ s3 \in [U -> Employee \cup {None}]
      /\ Rol(U, n)!OneAccount
  BY DEF Rol!Inv, Rol!TypeOK
<1>3. ASSUME NEW k, NEW e \in Employee, Rol(U, n)!createUserAccount(u, k, e)
      PROVE  /\ s2' \in [U -> Employee \cup {None}] /\ s3' \in [U -> Employee \cup {None}]
             /\ Rol(U, n)!OneAccount'
  <2>1. /\ s2' = s2 /\ s3' = [s3 EXCEPT ![u] = e] /\ \A v \in U : s2[v] # e
        /\ s6' = IF e \in {s3[v] : v \in U} THEN s6 \cup {e} ELSE s6
    BY <1>3 DEF Rol!createUserAccount, Rol!hasAccount
  <2> QED
    BY <1>2, <2>1 DEF Rol!OneAccount
<1>4. ASSUME Rol(U, n)!attachEmployeeProfile(u)
      PROVE  /\ s2' \in [U -> Employee \cup {None}] /\ s3' \in [U -> Employee \cup {None}]
             /\ Rol(U, n)!OneAccount'
  <2>1. s2' = [s2 EXCEPT ![u] = s3[u]] /\ s3' = [s3 EXCEPT ![u] = None] /\ s6' = s6
    BY <1>4 DEF Rol!attachEmployeeProfile
  <2> QED
    BY <1>2, <2>1 DEF Rol!OneAccount
<1>5. /\ s2' \in [U -> Employee \cup {None}] /\ s3' \in [U -> Employee \cup {None}]
      /\ Rol(U, n)!OneAccount'
  BY <1>3, <1>4 DEF Rol!Accounts
<1>6. /\ \A i \in DOMAIN s1' : Rol(U, n)!Named(i)'
      /\ \A k \in RoleKey \ s5' : Rol(U, n)!Kept(k)'
  BY <1>1 DEF Rol!Inv, Rol!Named, Rol!Kept, Rol!ofKey, Rol!live, Rol!byDefault
<1> QED
  BY <1>1, <1>5, <1>6 DEF Rol!Inv, Rol!TypeOK

LEMMA RolesStep == ASSUME NEW U, NEW n, Rol(U, n)!Inv, Rol(U, n)!Next PROVE Rol(U, n)!Inv'
<1>1. ASSUME NEW x, NEW r \in Rol(U, n)!listAllRoles, Rol(U, n)!Roles(x, r) PROVE Rol(U, n)!Inv'
  BY <1>1, RoleUpdated, RoleDeleted, PermissionsPut DEF Rol!Roles, Rol!validatePermissions
<1> QED
  BY <1>1, RoleCreated, SystemCreates, SystemWrites, AccountsCreated
     DEF Rol!Next, Rol!validatePermissions

LEMMA RolesAreOne == ASSUME NEW U, NEW n, Rol(U, n)!Inv PROVE Rol(U, n)!RolesAreKept
<1>1. ASSUME NEW k \in RoleKey \ s5
      PROVE  /\ Rol(U, n)!Cardinality(Rol(U, n)!ofKey(k)) <= 1
             /\ Rol(U, n)!role(k).permissions = s4[k]
  <2>1. Rol(U, n)!Kept(k)
    BY DEF Rol!Inv
  <2>2. Rol(U, n)!Cardinality(Rol(U, n)!ofKey(k)) <= 1
    BY <2>1, OneRow DEF Rol!Kept
  <2>3. CASE Rol(U, n)!ofKey(k) = {}
    BY <2>1, <2>2, <2>3 DEF Rol!Kept, Rol!role, Rol!defaultRole
  <2>4. CASE Rol(U, n)!ofKey(k) # {}
    <3>1. Rol(U, n)!ofKey(k) \subseteq 1 .. Len(s1) /\ Len(s1) \in Nat
      BY RoleRows DEF Rol!ofKey
    <3>2. Rol(U, n)!Max(Rol(U, n)!ofKey(k)) \in Rol(U, n)!ofKey(k)
      BY <2>4, <3>1, LastRow
    <3> QED
      BY <2>1, <2>2, <2>4, <3>2 DEF Rol!Kept, Rol!role
  <2> QED
    BY <2>3, <2>4
<1>2. \A u, v \in U : u # v /\ s2[u] = s2[v] => s2[u] \in s6 \cup {None}
  BY DEF Rol!Inv, Rol!OneAccount
<1>3. \A k \in RoleKey \ s5 : /\ Rol(U, n)!Cardinality(Rol(U, n)!ofKey(k)) <= 1
                              /\ Rol(U, n)!role(k).permissions = s4[k]
  BY <1>1
<1> QED
  BY <1>2, <1>3, Zenon DEF Rol!RolesAreKept

---------------------------------------------------------------------------
\* An address of one mailbox, a code of one department, a key nobody renamed of one role and
\* an employee of one account, unless two were created at one time: for any requests,
\* departments, keys, rows and accounts.
THEOREM NamesOfOne == WorkflowsSpec => []NamesAreOfOne
<1> DEFINE I == /\ part = "companyEmail" => Mail!Inv
                /\ part = "departments" => Dep!Inv
                /\ part = "roles" => Rol({}, MaxRoles)!Inv
                /\ part = "users" => Rol(Person, 0)!Inv
<1>1. WorkflowsInit => I
  BY CompanyEmailStart, DepartmentsStart, RolesStart DEF WorkflowsInit
<1>2. I /\ [WorkflowsNext]_<<part, s1, s2, s3, s4, s5, s6, s7, vars>> => I'
  <2>1. ASSUME WorkflowsNext
        PROVE  /\ part' = part
               /\ part = "companyEmail" => Mail!Next
               /\ part = "departments" => Dep!Next
               /\ part = "roles" => Rol({}, MaxRoles)!Next
               /\ part = "users" => Rol(Person, 0)!Next
    BY <2>1 DEF WorkflowsNext, paymentsRest
  <2> QED
    BY <2>1, CompanyEmailStep, CompanyEmailKept, DepartmentsStep, DepartmentsKept, RolesStep, RolesKept
<1>3. I => NamesAreOfOne
  BY RolesAreOne DEF NamesAreOfOne, Mail!Inv, Dep!Inv
<1> QED
  BY <1>1, <1>2, <1>3, PTL DEF WorkflowsSpec

---------------------------------------------------------------------------
(* Attendance: Att(S, L) is of staff S, who check in by schedule, and of   *)
(* leads L, who clock in by day.                                           *)

LEMMA DivisionHolds ==
    ASSUME NEW n \in Nat \ {0}, NEW a \in Int
    PROVE  a \div n \in Int /\ a % n \in 0 .. (n - 1) /\ a = n * (a \div n) + (a % n)
OBVIOUS

LEMMA DivisionIsUnique ==
    ASSUME NEW n \in Nat \ {0}, NEW q \in Int, NEW r \in 0 .. (n - 1), NEW a \in Int, a = n * q + r
    PROVE  a \div n = q /\ a % n = r
<1>1. a \div n \in Int /\ a % n \in 0 .. (n - 1) /\ a = n * (a \div n) + (a % n)
  BY DivisionHolds
<1> DEFINE d == a \div n  m == a % n
<1>2. d \in Int /\ m \in 0 .. (n - 1) /\ n * d + m = n * q + r
  BY <1>1
<1> HIDE DEF d, m
<1>3. n * (d - q) = r - m /\ r - m < n /\ m - r < n
  BY <1>2
<1>4. d - q < 1
  <2>1. SUFFICES ASSUME d - q >= 1 PROVE FALSE
    BY <1>2
  <2>2. n * (d - q) >= n
    BY <1>2, <2>1
  <2> QED
    BY <1>2, <1>3, <2>2
<1>5. d - q > -1
  <2>1. SUFFICES ASSUME q - d >= 1 PROVE FALSE
    BY <1>2
  <2>2. n * (q - d) >= n
    BY <1>2, <2>1
  <2>3. n * (q - d) = m - r
    BY <1>2
  <2> QED
    BY <1>2, <1>3, <2>2, <2>3
<1>6. d = q
  BY <1>2, <1>4, <1>5
<1>7. m = r
  BY <1>2, <1>6
<1> QED
  BY <1>6, <1>7 DEF d, m

LEMMA ZoneIsNumber ==
    ASSUME NEW S, NEW L, Att(S, L)!Inv, NEW s \in Schedule, Att(S, L)!locationsOf # {}
    PROVE  Att(S, L)!zoneOf(s) \in Int
<1>1. Zone \subseteq Int /\ Site \subseteq Nat
  BY WorkflowsAssumption DEF Att!AttendanceConstants
<1>2. CASE s3[s].zone # None
  <2>1. s3[s].zone \in Zone
    BY <1>2 DEF Att!Inv, Att!Schedules
  <2> QED
    BY <1>1, <1>2, <2>1 DEF Att!zoneOf
<1>3. CASE s3[s].zone = None
  <2> DEFINE first == CHOOSE p \in Att(S, L)!locationsOf : \A q \in Att(S, L)!locationsOf : p <= q
  <2>1. Att(S, L)!locationsOf \subseteq Nat
    BY <1>1 DEF Att!locationsOf
  <2>2. \E p \in Att(S, L)!locationsOf : \A q \in Att(S, L)!locationsOf : p <= q
    BY <2>1, LeastNatural
  <2>3. first \in Att(S, L)!locationsOf
    BY <2>2
  <2>4. Att(S, L)!zoneOf(s) = s2[first].zone
    BY <1>3 DEF Att!zoneOf
  <2> HIDE DEF first
  <2>5. s2[first].zone \in Zone
    BY <2>3 DEF Att!Inv, Att!locationsOf
  <2> QED
    BY <1>1, <2>4, <2>5
<1> QED
  BY <1>2, <1>3

\* The day a check-in is dated with is the one its shift opened on, on whichever side of
\* midnight and in whichever zone it is made.
LEMMA ShiftOpened ==
    ASSUME NEW S, NEW L, Att(S, L)!Inv, NEW s \in Schedule, Att(S, L)!locationsOf # {},
           Att(S, L)!isOpen(s)
    PROVE  /\ Att(S, L)!workDate(s) \in Int
           /\ Att(S, L)!workDate(s) = Att(S, L)!openedOn(s)
           /\ Att(S, L)!workDate(s) % 2 \in WorkingDays
           /\ Att(S, L)!elapsed(s) <= Att(S, L)!length(s)
           /\ ~Att(S, L)!spansMidnight(s) /\ s3[s].late >= s3[s].open =>
                 (Att(S, L)!isLate(s) <=> Att(S, L)!elapsed(s) > s3[s].late - s3[s].open)
<1>1. Slots \in Nat \ {0}
  BY WorkflowsAssumption DEF Att!AttendanceConstants
<1>2. PICK t \in Int : t = s1 + Att(S, L)!zoneOf(s)
  BY ZoneIsNumber DEF Att!Inv
<1>3. PICK day \in Int, h \in 0 .. (Slots - 1) : day = t \div Slots /\ h = t % Slots /\ t = Slots * day + h
  <2>1. PICK d, m : d = t \div Slots /\ m = t % Slots
    OBVIOUS
  <2>2. d \in Int /\ m \in 0 .. (Slots - 1) /\ t = Slots * d + m
    BY <1>1, <2>1, DivisionHolds
  <2> QED
    BY <2>1, <2>2
<1>4. PICK o \in 0 .. (Slots - 1), l \in 0 .. (Slots - 1), c \in 0 .. (Slots - 1) :
          o = s3[s].open /\ l = s3[s].late /\ c = s3[s].close
  <2>1. s3[s] \in Att(S, L)!Schedules
    BY DEF Att!Inv
  <2> QED
    BY <2>1 DEF Att!Schedules, Att!Hour
<1>5. /\ Att(S, L)!localHour(s) = h /\ Att(S, L)!localDate(s) = day
      /\ Att(S, L)!spansMidnight(s) <=> c < o
      /\ Att(S, L)!workDate(s) = IF c < o /\ h <= c THEN day - 1 ELSE day
      /\ Att(S, L)!workDate(s) % 2 \in WorkingDays
      /\ IF c < o THEN h >= o \/ h <= c ELSE o <= h /\ h <= c
  BY <1>2, <1>3, <1>4 DEF Att!localHour, Att!localDate, Att!spansMidnight, Att!workDate, Att!isOpen
<1>6. /\ Att(S, L)!elapsed(s) = (h - o) % Slots /\ Att(S, L)!length(s) = (c - o) % Slots
      /\ Att(S, L)!openedOn(s) = (t - Att(S, L)!elapsed(s)) \div Slots
  <2>1. Att(S, L)!localHour(s) = h
    BY <1>5
  <2>2. Att(S, L)!elapsed(s) = (h - o) % Slots
    BY <1>4, <2>1 DEF Att!elapsed
  <2>3. Att(S, L)!length(s) = (c - o) % Slots
    BY <1>4 DEF Att!length
  <2>4. PICK z, e : z = Att(S, L)!zoneOf(s) /\ e = Att(S, L)!elapsed(s)
    OBVIOUS
  <2>5. Att(S, L)!openedOn(s) = (s1 + z - e) \div Slots
    BY <2>4, Zenon DEF Att!openedOn
  <2>6. s1 + z = t
    BY <1>2, <2>4, Zenon
  <2>7. Att(S, L)!openedOn(s) = (t - Att(S, L)!elapsed(s)) \div Slots
    <3>1. z \in Int /\ s1 \in Int
      BY <2>4, ZoneIsNumber DEF Att!Inv
    <3>2. e \in Int
      BY <1>1, <2>2, <2>4
    <3>3. s1 + z - e = t - e
      BY <2>6, <3>1, <3>2
    <3> QED
      BY <3>3, <2>4, <2>5, Zenon
  <2> QED
    BY <2>2, <2>3, <2>7
<1>7. CASE ~(c < o)
  <2>1. h - o \in 0 .. (Slots - 1) /\ c - o \in 0 .. (Slots - 1) /\ h - o <= c - o
    BY <1>1, <1>5, <1>7
  <2>2. (h - o) % Slots = h - o /\ (c - o) % Slots = c - o
    <3>1. 0 \in Int /\ h - o = Slots * 0 + (h - o) /\ c - o = Slots * 0 + (c - o)
      BY <1>1
    <3> QED
      BY <1>1, <2>1, <3>1, DivisionIsUnique
  <2>3. (t - (h - o)) \div Slots = day
    <3>1. t - (h - o) \in Int /\ t - (h - o) = Slots * day + o
      BY <1>1, <1>3
    <3> QED
      BY <1>1, <3>1, DivisionIsUnique
  <2>4. Att(S, L)!isLate(s) <=> h > l
    BY <1>4, <1>5, <1>7 DEF Att!isLate
  <2> QED
    BY <1>4, <1>5, <1>6, <1>7, <2>1, <2>2, <2>3, <2>4
<1>8. CASE c < o
  <2>1. c - o + Slots \in 0 .. (Slots - 1) /\ (c - o) % Slots = c - o + Slots
    <3>1. -1 \in Int /\ c - o \in Int /\ c - o = Slots * (-1) + (c - o + Slots)
          /\ c - o + Slots \in 0 .. (Slots - 1)
      BY <1>1, <1>8
    <3> QED
      BY <1>1, <3>1, DivisionIsUnique
  <2>2. CASE h >= o
    <3>1. h - o \in 0 .. (Slots - 1) /\ h - o <= c - o + Slots /\ ~(h <= c)
      BY <1>1, <1>8, <2>2
    <3>2. (h - o) % Slots = h - o
      <4>1. 0 \in Int /\ h - o = Slots * 0 + (h - o)
        BY <1>1
      <4> QED
        BY <1>1, <3>1, <4>1, DivisionIsUnique
    <3>3. (t - (h - o)) \div Slots = day
      <4>1. t - (h - o) \in Int /\ t - (h - o) = Slots * day + o
        BY <1>1, <1>3
      <4> QED
        BY <1>1, <4>1, DivisionIsUnique
    <3> QED
      BY <1>5, <1>6, <1>8, <2>1, <3>1, <3>2, <3>3
  <2>3. CASE h <= c
    <3>1. h - o + Slots \in 0 .. (Slots - 1) /\ h - o + Slots <= c - o + Slots
      BY <1>1, <1>8, <2>3
    <3>2. (h - o) % Slots = h - o + Slots
      <4>1. -1 \in Int /\ h - o \in Int /\ h - o = Slots * (-1) + (h - o + Slots)
        BY <1>1
      <4> QED
        BY <1>1, <3>1, <4>1, DivisionIsUnique
    <3>3. (t - (h - o + Slots)) \div Slots = day - 1
      <4>1. /\ day - 1 \in Int /\ t - (h - o + Slots) \in Int
            /\ t - (h - o + Slots) = Slots * (day - 1) + o
        BY <1>1, <1>3
      <4> QED
        BY <1>1, <4>1, DivisionIsUnique
    <3> QED
      BY <1>5, <1>6, <1>8, <2>1, <2>3, <3>1, <3>2, <3>3
  <2> QED
    BY <1>5, <1>8, <2>2, <2>3
<1> QED
  BY <1>7, <1>8

LEMMA AttendanceStart == ASSUME NEW S, NEW L, Att(S, L)!Init PROVE Att(S, L)!Inv
<1>1. Slots \in Int
  BY WorkflowsAssumption DEF Att!AttendanceConstants
<1>2. s2 \in [Site -> [active : BOOLEAN, zone : Zone]]
  BY DEF Att!Init
<1> QED
  BY <1>1, <1>2 DEF Att!Init, Att!Inv

\* What a step that leaves the rows alone, and one that writes one row, keep.
LEMMA SettingsKept ==
    ASSUME NEW S, NEW L, Att(S, L)!Inv,
           s1' \in Int, s2' \in [Site -> [active : BOOLEAN, zone : Zone]],
           s3' \in [Schedule -> Att(S, L)!Schedules], s5' = s5
    PROVE  Att(S, L)!Inv' /\ Att(S, L)!CheckInIsOfItsShift
<1>1. Att(S, L)!Inv'
  BY DEF Att!Inv, Att!Row, Att!Schedules, Att!Hour
<1>2. Att(S, L)!new = {}
  BY DEF Att!new
<1> QED
  BY <1>1, <1>2 DEF Att!CheckInIsOfItsShift

LEMMA RowsKept ==
    ASSUME NEW S, NEW L, Att(S, L)!Inv, NEW row \in Att(S, L)!Row,
           row.schedule # None => row.who \in S,
           s5' \subseteq s5 \cup {row}, UNCHANGED <<s1, s2, s3>>
    PROVE  Att(S, L)!Inv'
BY DEF Att!Inv, Att!Row, Att!Schedules, Att!Hour

LEMMA CheckedIn ==
    ASSUME NEW S, NEW L, Att(S, L)!Inv,
           NEW e \in S, NEW s \in Schedule, NEW k \in Key \cup {None},
           Att(S, L)!createCheckIn(e, s, k)
    PROVE  Att(S, L)!Inv' /\ Att(S, L)!CheckInIsOfItsShift
<1> DEFINE row == [who |-> e, schedule |-> s, date |-> Att(S, L)!workDate(s), key |-> k,
                   in |-> TRUE, out |-> FALSE,
                   status |-> IF Att(S, L)!isLate(s) THEN "late" ELSE "on_time"]
<1>1. /\ Att(S, L)!locationsOf # {} /\ Att(S, L)!isOpen(s)
      /\ Att(S, L)!findExistingCheckIn(e, s, Att(S, L)!workDate(s)) = {}
      /\ k # None => ~ \E r \in s5 : r.who = e /\ r.key = k
      /\ s5' = s5 \cup {row} /\ UNCHANGED <<s1, s2, s3>>
  BY DEF Att!createCheckIn, Att!selectCheckInCandidate, Att!config
<1>2. /\ Att(S, L)!workDate(s) \in Int
      /\ Att(S, L)!workDate(s) = Att(S, L)!openedOn(s)
      /\ Att(S, L)!workDate(s) % 2 \in WorkingDays
      /\ Att(S, L)!elapsed(s) <= Att(S, L)!length(s)
      /\ ~Att(S, L)!spansMidnight(s) /\ s3[s].late >= s3[s].open =>
            (Att(S, L)!isLate(s) <=> Att(S, L)!elapsed(s) > s3[s].late - s3[s].open)
  BY <1>1, ShiftOpened
<1>3. row \in Att(S, L)!Row /\ row.who = e /\ row.schedule = s
  BY <1>2 DEF Att!Row
<1>4. row.date = Att(S, L)!workDate(s) /\ row.key = k
      /\ (row.status = "late" <=> Att(S, L)!isLate(s))
  OBVIOUS
<1> HIDE DEF row
<1>5. Att(S, L)!Inv'
  <2>1. s5' \subseteq s5 \cup {row} /\ (row.schedule # None => row.who \in S)
    BY <1>1, <1>3
  <2> QED
    BY <1>1, <1>3, <2>1, RowsKept
<1>6. ASSUME NEW q \in s5, q.who = e
      PROVE  /\ <<q.schedule, q.date>> # <<s, row.date>> \/ q.status \in Att(S, L)!Void
             /\ q.key # k \/ k = None
  BY <1>1, <1>4, <1>6 DEF Att!findExistingCheckIn
<1>7. ASSUME NEW r \in Att(S, L)!new PROVE r = row
  BY <1>1 DEF Att!new
<1> QED
  BY <1>2, <1>3, <1>4, <1>5, <1>6, <1>7 DEF Att!CheckInIsOfItsShift

LEMMA ClockedIn ==
    ASSUME NEW S, NEW L, S \cap L = {}, Att(S, L)!Inv, NEW m \in L, NEW d \in Int,
           Att(S, L)!clockInSelf(m, d) \/ Att(S, L)!clockOutSelf(m, d)
    PROVE  Att(S, L)!Inv' /\ Att(S, L)!CheckInIsOfItsShift
<1>1. \E row \in Att(S, L)!Row : row.schedule = None /\ s5' \subseteq s5 \cup {row}
  <2> DEFINE old == Att(S, L)!findSelfAttendance(m, d)
  <2>1. \A r \in old : r \in s5 /\ r \in Att(S, L)!Row /\ r.who = m
    BY DEF Att!findSelfAttendance, Att!Inv
  <2>2. \A r \in old : r.in /\ r.schedule = None
    BY <2>1 DEF Att!Inv, Att!Row
  <2>3. \A b \in BOOLEAN : /\ Att(S, L)!ownRow(m, d, b) \in Att(S, L)!Row
                           /\ Att(S, L)!ownRow(m, d, b).schedule = None
    BY DEF Att!ownRow, Att!Row
  <2>4. CASE Att(S, L)!clockInSelf(m, d)
    <3>1. old = {}
      BY <2>2, <2>4 DEF Att!clockInSelf
    <3>2. s5' = s5 \cup {Att(S, L)!ownRow(m, d, FALSE)}
      BY <3>1, <2>4 DEF Att!clockInSelf
    <3> QED
      BY <2>3, <3>2
  <2>5. CASE Att(S, L)!clockOutSelf(m, d)
    <3>1. CASE old = {}
      <4>1. s5' = s5 \cup {Att(S, L)!ownRow(m, d, TRUE)}
        BY <2>5, <3>1 DEF Att!clockOutSelf
      <4> QED
        BY <2>3, <4>1
    <3>2. CASE old # {}
      <4>1. PICK r \in old : s5' = (s5 \ {r}) \cup {[r EXCEPT !.out = TRUE]}
        BY <2>5, <3>2 DEF Att!clockOutSelf
      <4>2. /\ [r EXCEPT !.out = TRUE] \in Att(S, L)!Row
            /\ [r EXCEPT !.out = TRUE].schedule = None
        BY <2>1, <2>2 DEF Att!Row
      <4> QED
        BY <4>1, <4>2
    <3> QED
      BY <3>1, <3>2
  <2> QED
    BY <2>4, <2>5
<1>2. PICK row \in Att(S, L)!Row : row.schedule = None /\ s5' \subseteq s5 \cup {row}
  BY <1>1
<1>3. UNCHANGED <<s1, s2, s3>>
  BY DEF Att!clockInSelf, Att!clockOutSelf, Att!config
<1>4. Att(S, L)!Inv'
  BY <1>2, <1>3, RowsKept
<1>5. ASSUME NEW r \in Att(S, L)!new PROVE r.schedule = None
  BY <1>2 DEF Att!new
<1> QED
  BY <1>4, <1>5 DEF Att!CheckInIsOfItsShift

LEMMA Corrected ==
    ASSUME NEW S, NEW L, Att(S, L)!Inv, NEW r \in s5, NEW status \in {"late", "void"},
           Att(S, L)!correctAttendance(r, status)
    PROVE  Att(S, L)!Inv' /\ Att(S, L)!CheckInIsOfItsShift
<1> DEFINE row == [r EXCEPT !.status = status]
<1>1. s5' = (s5 \ {r}) \cup {row} /\ UNCHANGED <<s1, s2, s3>>
  BY DEF Att!correctAttendance
<1>2. r \in Att(S, L)!Row /\ (r.schedule # None => r.who \in S)
  BY DEF Att!Inv
<1>3. /\ row \in Att(S, L)!Row /\ row.schedule = r.schedule /\ row.who = r.who
      /\ r = [row EXCEPT !.status = r.status]
  BY <1>2 DEF Att!Row
<1> HIDE DEF row
<1>4. Att(S, L)!Inv'
  <2>1. s5' \subseteq s5 \cup {row} /\ (row.schedule # None => row.who \in S)
    BY <1>1, <1>2, <1>3
  <2> QED
    BY <1>1, <1>3, <2>1, RowsKept
<1>5. ASSUME NEW n \in Att(S, L)!new PROVE n = row
  BY <1>1 DEF Att!new
<1> QED
  BY <1>3, <1>4, <1>5 DEF Att!CheckInIsOfItsShift

LEMMA AttendanceStep ==
    ASSUME NEW S, NEW L, S \cap L = {}, Att(S, L)!Inv, Att(S, L)!Next
    PROVE  Att(S, L)!Inv' /\ Att(S, L)!CheckInIsOfItsShift
<1>1. CASE Att(S, L)!Tick
  BY <1>1, SettingsKept DEF Att!Tick, Att!config, Att!Inv
<1>2. CASE Att(S, L)!Service
  <2>1. ASSUME NEW e \in S, NEW s \in Schedule, NEW k \in Key \cup {None},
               Att(S, L)!createCheckIn(e, s, k)
        PROVE  Att(S, L)!Inv' /\ Att(S, L)!CheckInIsOfItsShift
    BY <2>1, CheckedIn
  <2>2. ASSUME NEW s \in Schedule, NEW w \in Att(S, L)!Schedules, Att(S, L)!writeSchedule(s, w)
        PROVE  Att(S, L)!Inv' /\ Att(S, L)!CheckInIsOfItsShift
    <3>1. s3' \in [Schedule -> Att(S, L)!Schedules]
      BY <2>2, Zenon DEF Att!writeSchedule, Att!Inv
    <3> QED
      BY <2>2, <3>1, SettingsKept DEF Att!writeSchedule, Att!Inv
  <2>3. ASSUME NEW s \in Schedule, NEW active \in BOOLEAN, Att(S, L)!setScheduleActive(s, active)
        PROVE  Att(S, L)!Inv' /\ Att(S, L)!CheckInIsOfItsShift
    <3>1. s3' \in [Schedule -> Att(S, L)!Schedules]
      BY <2>3 DEF Att!setScheduleActive, Att!Inv, Att!Schedules
    <3> QED
      BY <2>3, <3>1, SettingsKept DEF Att!setScheduleActive, Att!Inv
  <2>4. ASSUME NEW p \in Site, NEW l \in [active : BOOLEAN, zone : Zone], Att(S, L)!writeLocation(p, l)
        PROVE  Att(S, L)!Inv' /\ Att(S, L)!CheckInIsOfItsShift
    <3>1. s2' \in [Site -> [active : BOOLEAN, zone : Zone]]
      BY <2>4 DEF Att!writeLocation, Att!Inv
    <3> QED
      BY <2>4, <3>1, SettingsKept DEF Att!writeLocation, Att!Inv
  <2>5. ASSUME NEW p \in Site, NEW active \in BOOLEAN, Att(S, L)!setLocationActive(p, active)
        PROVE  Att(S, L)!Inv' /\ Att(S, L)!CheckInIsOfItsShift
    <3>1. s2' \in [Site -> [active : BOOLEAN, zone : Zone]]
      BY <2>5 DEF Att!setLocationActive, Att!Inv
    <3> QED
      BY <2>5, <3>1, SettingsKept DEF Att!setLocationActive, Att!Inv
  <2> QED
    BY <1>2, <2>1, <2>2, <2>3, <2>4, <2>5 DEF Att!Service
<1>3. CASE Att(S, L)!Portals
  <2>1. Att(S, L)!today \in Int
    BY WorkflowsAssumption, DivisionHolds DEF Att!AttendanceConstants, Att!Inv, Att!today
  <2>2. ASSUME NEW m \in L, Att(S, L)!clockInSelf(m, Att(S, L)!today)
                            \/ Att(S, L)!clockOutSelf(m, Att(S, L)!today)
        PROVE  Att(S, L)!Inv' /\ Att(S, L)!CheckInIsOfItsShift
    BY <2>1, <2>2, ClockedIn
  <2>3. ASSUME NEW r \in s5, NEW status \in {"late", "void"}, Att(S, L)!correctAttendance(r, status)
        PROVE  Att(S, L)!Inv' /\ Att(S, L)!CheckInIsOfItsShift
    BY <2>3, Corrected
  <2> QED
    BY <1>3, <2>2, <2>3 DEF Att!Portals
<1> QED
  BY <1>1, <1>2, <1>3 DEF Att!Next

LEMMA AttendanceStill ==
    ASSUME NEW S, NEW L, Att(S, L)!Inv, UNCHANGED <<s1, s2, s3, s4, s5>> PROVE Att(S, L)!Inv'
BY SettingsKept DEF Att!Inv

---------------------------------------------------------------------------
\* A check-in is of the shift that is open, on whichever side of midnight and in whichever
\* zone, late exactly past the hour of lateness, and the only one of its employee for that
\* shift and of its key: for any staff, schedules, locations, zones, keys and length of a day.
THEOREM CheckInsOfShift == WorkflowsSpec => CheckInIsOfItsShift
<1> DEFINE I == /\ part = "attendance" => Att(Employee, {})!Inv
                /\ part = "leads" => Att({}, Supervisor)!Inv
           Kept == /\ part = "attendance" => Att(Employee, {})!CheckInIsOfItsShift
                   /\ part = "leads" => Att({}, Supervisor)!CheckInIsOfItsShift
<1>1. WorkflowsInit => I
  BY AttendanceStart DEF WorkflowsInit
<1>2. ASSUME WorkflowsNext
      PROVE  /\ part' = part
             /\ part = "attendance" => Att(Employee, {})!Next
             /\ part = "leads" => Att({}, Supervisor)!Next
  BY <1>2 DEF WorkflowsNext, paymentsRest
<1>3. I /\ WorkflowsNext => I' /\ Kept
  BY <1>2, AttendanceStep
<1>4. I /\ [WorkflowsNext]_<<part, s1, s2, s3, s4, s5, s6, s7, vars>> => I'
  BY <1>3, AttendanceStill
<1>5. I /\ [WorkflowsNext]_<<part, s1, s2, s3, s4, s5, s6, s7, vars>>
        => [Kept]_<<s1, s2, s3, s4, s5>>
  BY <1>3
<1> QED
  BY <1>1, <1>4, <1>5, PTL DEF WorkflowsSpec, CheckInIsOfItsShift

---------------------------------------------------------------------------
(* Placements.                                                             *)

Ended(p) == s1[p].status \in Pla!Final => ~Pla!open(p)'

LEMMA PlacementsStart == Pla!Init => Pla!Inv
<1> SUFFICES ASSUME Pla!Init PROVE Pla!Inv
  OBVIOUS
<1>1. Pla!noPlacement \in Pla!Row /\ Pla!noPlacement.status = "absent" /\ ~Pla!noPlacement.deleted
  BY DEF Pla!noPlacement, Pla!Row
<1>2. Pla!idle.at = "idle" /\ Pla!idle \in [at : {"idle", "looking", "making", "linking"},
                                            email : Applicant \cup {None}]
  BY DEF Pla!idle
<1>3. Pla!TypeOK
  BY <1>1, <1>2 DEF Pla!Init, Pla!TypeOK
<1>4. \A p \in Intern : Pla!Whole(p) /\ ~Pla!open(p)
  BY <1>1, <1>2 DEF Pla!Init, Pla!Whole, Pla!open, Pla!at, Pla!Final, Pla!Stages
<1> QED
  BY <1>3, <1>4 DEF Pla!Inv, Pla!Apart

\* A step that writes the row, the supervisors, the records or the call of one placement
\* keeps the invariant when it keeps it for that one, alone and with each of the others.
LEMMA PlacementWritten ==
    ASSUME Pla!Inv, Pla!TypeOK', NEW p \in Intern, s6 \subseteq s6', s6' \subseteq s6 \cup {p},
           \A q \in Intern \ {p} : /\ s1'[q] = s1[q] /\ s2'[q] = s2[q]
                                   /\ s3'[q] = s3[q] /\ s4'[q] = s4[q],
           Pla!Whole(p)', Ended(p),
           \A q \in Intern \ {p} : Pla!open(p)' /\ Pla!open(q) /\ s1'[p].email = s1[q].email
               => p \in s6' \/ q \in s6' \/ s1'[p].email = "generated"
    PROVE  Pla!Inv' /\ \A q \in Intern : Ended(q)
<1>1. ASSUME NEW q \in Intern \ {p} PROVE Pla!Whole(q)'
  BY <1>1 DEF Pla!Inv, Pla!Whole, Pla!at
<1>2. ASSUME NEW q \in Intern \ {p} PROVE Ended(q) /\ (Pla!open(q)' <=> Pla!open(q))
  BY <1>2 DEF Ended, Pla!open, Pla!Final, Pla!Stages
<1>3. ASSUME NEW q \in Intern, NEW r \in Intern, q # r PROVE Pla!Apart(q, r)'
  <2>1. CASE q = p
    BY <1>2, <1>3, <2>1 DEF Pla!Apart
  <2>2. CASE r = p
    BY <1>2, <1>3, <2>2 DEF Pla!Apart
  <2>3. CASE q # p /\ r # p
    BY <1>2, <1>3, <2>3 DEF Pla!Apart, Pla!Inv
  <2> QED
    BY <2>1, <2>2, <2>3
<1> QED
  BY <1>1, <1>2, <1>3 DEF Pla!Inv

\* One that leaves status and email alone.
LEMMA PlacementTouched ==
    ASSUME Pla!Inv, Pla!TypeOK', NEW p \in Intern, s6' = s6,
           \A q \in Intern \ {p} : /\ s1'[q] = s1[q] /\ s2'[q] = s2[q]
                                   /\ s3'[q] = s3[q] /\ s4'[q] = s4[q],
           Pla!Whole(p)',
           s1'[p].email = s1[p].email, Pla!open(p)' => Pla!open(p)
    PROVE  Pla!Inv' /\ \A q \in Intern : Ended(q)
<1>1. Ended(p)
  BY DEF Ended, Pla!open, Pla!Final, Pla!Stages
<1>2. \A q \in Intern \ {p} : Pla!open(p)' /\ Pla!open(q) /\ s1'[p].email = s1[q].email
               => p \in s6' \/ q \in s6' \/ s1'[p].email = "generated"
  BY DEF Pla!Inv, Pla!Apart
<1> QED
  BY <1>1, <1>2, PlacementWritten

LEMMA ProfileCreated ==
    ASSUME Pla!Inv, NEW p \in Intern, NEW m \in Applicant \cup {None}, NEW s \in Pla!Stages,
           NEW e \in Employee \cup {"none"}, Pla!createProfile(p, m, s, e)
    PROVE  Pla!Inv' /\ \A q \in Intern : Ended(q)
<1> DEFINE row == [s1[p] EXCEPT !.email = m, !.status = s, !.supervisor = e]
<1>1. /\ s1' = [s1 EXCEPT ![p] = row] /\ s2' = [s2 EXCEPT ![p] = {e} \cap Employee]
      /\ s4' = [s4 EXCEPT ![p] = [at |-> "looking", email |-> m]] /\ s3' = s3 /\ s6' = s6
      /\ s1[p] = Pla!noPlacement /\ Pla!ensureNoActiveDuplicate(m)
  BY DEF Pla!createProfile, Pla!Inv, Pla!TypeOK
<1>2. /\ row \in Pla!Row /\ row.email = m /\ row.status = s /\ row.supervisor = e /\ ~row.deleted
      /\ s1[p].status = "absent"
  <2>1. s1[p] = [status |-> "absent", email |-> None, supervisor |-> "none", deleted |-> FALSE]
    BY <1>1 DEF Pla!noPlacement
  <2>2. PICK b \in BOOLEAN : b = FALSE
    OBVIOUS
  <2>3. s1[p] = [status |-> "absent", email |-> None, supervisor |-> "none", deleted |-> b]
    BY <2>1, <2>2
  <2>4. row = [status |-> s, email |-> m, supervisor |-> e, deleted |-> b]
    <3>1. PICK x : x = [s1[p] EXCEPT !.email = m]
      OBVIOUS
    <3>2. x = [status |-> "absent", email |-> m, supervisor |-> "none", deleted |-> b]
      BY <2>3, <3>1
    <3>3. PICK y : y = [x EXCEPT !.status = s]
      OBVIOUS
    <3>4. y = [status |-> s, email |-> m, supervisor |-> "none", deleted |-> b]
      BY <3>2, <3>3
    <3>5. row = [y EXCEPT !.supervisor = e]
      BY <3>1, <3>3
    <3> HIDE DEF row
    <3> QED
      BY <3>4, <3>5
  <2> HIDE DEF row
  <2> QED
    BY <2>1, <2>2, <2>4 DEF Pla!Row
<1> HIDE DEF row
<1>3. Pla!TypeOK'
  BY <1>1, <1>2 DEF Pla!Inv, Pla!TypeOK, Pla!Row, Pla!Stages, Pla!Final
<1>4. /\ s1'[p] = row /\ s2'[p] = {e} \cap Employee
      /\ s4'[p].at = "looking" /\ s4'[p].email = m
  BY <1>1 DEF Pla!Inv, Pla!TypeOK
<1>5. Pla!Whole(p)'
  BY <1>2, <1>4 DEF Pla!Whole, Pla!Stages, Pla!Final
<1>6. Ended(p)
  BY <1>2 DEF Ended, Pla!Final
<1>7. ASSUME NEW q \in Intern \ {p}, Pla!open(q), m = s1[q].email PROVE FALSE
  <2>1. s1[q].status \in Pla!Final
    BY <1>1, <1>7 DEF Pla!ensureNoActiveDuplicate, Pla!found, Pla!open, Pla!Inv, Pla!Whole,
                      Pla!Stages, Pla!Final
  <2> QED
    BY <1>7, <2>1 DEF Pla!open, Pla!Stages, Pla!Final
<1>8. \A q \in Intern \ {p} : Pla!open(p)' /\ Pla!open(q) /\ s1'[p].email = s1[q].email
               => p \in s6' \/ q \in s6' \/ s1'[p].email = "generated"
  BY <1>2, <1>4, <1>7
<1>9. \A q \in Intern \ {p} : /\ s1'[q] = s1[q] /\ s2'[q] = s2[q]
                              /\ s3'[q] = s3[q] /\ s4'[q] = s4[q]
  BY <1>1 DEF Pla!Inv, Pla!TypeOK
<1> QED
  BY <1>1, <1>3, <1>5, <1>6, <1>8, <1>9, PlacementWritten

LEMMA SupervisorAssigned ==
    ASSUME Pla!Inv, NEW p \in Intern, NEW e \in Employee, Pla!assignSupervisor(p, e)
    PROVE  Pla!Inv' /\ \A q \in Intern : Ended(q)
<1> DEFINE row == [s1[p] EXCEPT !.supervisor = e]
<1>1. s1' = [s1 EXCEPT ![p] = row] /\ s2' = [s2 EXCEPT ![p] = {e}] /\ UNCHANGED <<s3, s4, s6>>
  BY DEF Pla!assignSupervisor, Pla!supervises, Pla!Inv, Pla!TypeOK
<1>2. s1[p] \in Pla!Row
  BY DEF Pla!Inv, Pla!TypeOK
<1>3. /\ row \in Pla!Row /\ row.supervisor = e /\ row.email = s1[p].email
      /\ row.status = s1[p].status /\ row.deleted = s1[p].deleted
  BY <1>2 DEF Pla!Row
<1> HIDE DEF row
<1>4. Pla!TypeOK'
  BY <1>1, <1>3 DEF Pla!Inv, Pla!TypeOK, Pla!Row
<1>5. s1'[p] = row /\ s2'[p] = {e}
  BY <1>1 DEF Pla!Inv, Pla!TypeOK
<1>6. Pla!Whole(p)'
  BY <1>1, <1>3, <1>5 DEF Pla!Inv, Pla!Whole, Pla!at
<1>7. Pla!open(p)' => Pla!open(p)
  BY <1>3, <1>5 DEF Pla!open
<1>8. \A q \in Intern \ {p} : s1'[q] = s1[q] /\ s2'[q] = s2[q] /\ s3'[q] = s3[q] /\ s4'[q] = s4[q]
  BY <1>1 DEF Pla!Inv, Pla!TypeOK
<1> QED
  BY <1>1, <1>3, <1>4, <1>5, <1>6, <1>7, <1>8, PlacementTouched

LEMMA ProfileUpdated ==
    ASSUME Pla!Inv, NEW p \in Intern, NEW m \in Applicant, Pla!updateProfile(p, m)
    PROVE  Pla!Inv' /\ \A q \in Intern : Ended(q)
<1> DEFINE row == [s1[p] EXCEPT !.email = m]
<1>1. s1' = [s1 EXCEPT ![p] = row] /\ s6' = s6 \cup {p} /\ UNCHANGED <<s2, s3, s4>>
  BY DEF Pla!updateProfile, Pla!Inv, Pla!TypeOK
<1>2. s1[p] \in Pla!Row
  BY DEF Pla!Inv, Pla!TypeOK
<1>3. /\ row \in Pla!Row /\ row.supervisor = s1[p].supervisor
      /\ row.status = s1[p].status /\ row.deleted = s1[p].deleted
  BY <1>2 DEF Pla!Row
<1> HIDE DEF row
<1>4. Pla!TypeOK'
  BY <1>1, <1>3 DEF Pla!Inv, Pla!TypeOK, Pla!Row
<1>5. s1'[p] = row
  BY <1>1 DEF Pla!Inv, Pla!TypeOK
<1>6. Pla!Whole(p)'
  BY <1>1, <1>3, <1>5 DEF Pla!Inv, Pla!Whole, Pla!at
<1>7. Ended(p)
  BY <1>3, <1>5 DEF Ended, Pla!open, Pla!Final, Pla!Stages
<1>8. \A q \in Intern \ {p} : s1'[q] = s1[q] /\ s2'[q] = s2[q] /\ s3'[q] = s3[q] /\ s4'[q] = s4[q]
  BY <1>1 DEF Pla!Inv, Pla!TypeOK
<1>9. p \in s6' /\ s6 \subseteq s6' /\ s6' \subseteq s6 \cup {p}
  BY <1>1
<1> QED
  BY <1>4, <1>6, <1>7, <1>8, <1>9, PlacementWritten

LEMMA PlacementExtended ==
    ASSUME Pla!Inv, NEW p \in Intern, NEW s \in Pla!Stages \cup Pla!Final, Pla!extendPlacement(p, s)
    PROVE  Pla!Inv' /\ \A q \in Intern : Ended(q)
<1> DEFINE row == [s1[p] EXCEPT !.status = s]
<1>1. s1' = [s1 EXCEPT ![p] = row] /\ UNCHANGED <<s2, s3, s4, s6>>
  BY DEF Pla!extendPlacement, Pla!Inv, Pla!TypeOK
<1>2. /\ s1[p].status \in Pla!Final => s = s1[p].status
      /\ s1[p].status \notin Pla!Final => s \in Pla!Stages /\ Pla!open(p)
      /\ ~s1[p].deleted /\ s1[p] \in Pla!Row
  BY DEF Pla!extendPlacement, Pla!found, Pla!derivePlacementStatus, Pla!open, Pla!Inv, Pla!TypeOK,
         Pla!Row
<1>3. /\ row \in Pla!Row /\ row.supervisor = s1[p].supervisor /\ row.email = s1[p].email
      /\ row.status = s /\ row.deleted = s1[p].deleted
  BY <1>2 DEF Pla!Row
<1> HIDE DEF row
<1>4. Pla!TypeOK'
  BY <1>1, <1>3 DEF Pla!Inv, Pla!TypeOK, Pla!Row
<1>5. s1'[p] = row
  BY <1>1 DEF Pla!Inv, Pla!TypeOK
<1>6. Pla!Whole(p)'
  BY <1>1, <1>2, <1>3, <1>5 DEF Pla!Inv, Pla!Whole, Pla!at, Pla!Stages, Pla!Final
<1>7. Pla!open(p)' => Pla!open(p)
  BY <1>2, <1>3, <1>5 DEF Pla!open, Pla!Stages, Pla!Final
<1>8. \A q \in Intern \ {p} : s1'[q] = s1[q] /\ s2'[q] = s2[q] /\ s3'[q] = s3[q] /\ s4'[q] = s4[q]
  BY <1>1 DEF Pla!Inv, Pla!TypeOK
<1> QED
  BY <1>1, <1>3, <1>4, <1>5, <1>6, <1>7, <1>8, PlacementTouched

LEMMA PlacementEnds ==
    ASSUME Pla!Inv, NEW p \in Intern, NEW s \in {"COMPLETED", "TERMINATED", "EXITED"},
           NEW what \in {"exit", "employee"}, Pla!ends(p, s, what)
    PROVE  Pla!Inv' /\ \A q \in Intern : Ended(q)
<1> DEFINE row == [s1[p] EXCEPT !.status = s]
<1>1. /\ s1' = [s1 EXCEPT ![p] = row] /\ s3' = [s3 EXCEPT ![p] = s3[p] \cup {what}]
      /\ UNCHANGED <<s2, s4, s6>>
  BY DEF Pla!ends, Pla!Inv, Pla!TypeOK
<1>2. s1[p] \in Pla!Row /\ ~s1[p].deleted /\ s \in Pla!Final /\ s \notin Pla!Stages
  BY DEF Pla!ends, Pla!found, Pla!Inv, Pla!TypeOK, Pla!Final, Pla!Stages
<1>3. /\ row \in Pla!Row /\ row.supervisor = s1[p].supervisor /\ row.email = s1[p].email
      /\ row.status = s /\ row.deleted = s1[p].deleted
  BY <1>2 DEF Pla!Row
<1> HIDE DEF row
<1>4. Pla!TypeOK'
  BY <1>1, <1>3 DEF Pla!Inv, Pla!TypeOK, Pla!Row
<1>5. s1'[p] = row /\ s3'[p] = s3[p] \cup {what}
  BY <1>1 DEF Pla!Inv, Pla!TypeOK
<1>6. Pla!Whole(p)'
  BY <1>1, <1>2, <1>3, <1>5 DEF Pla!Inv, Pla!Whole, Pla!at
<1>7. ~Pla!open(p)'
  BY <1>2, <1>3, <1>5 DEF Pla!open, Pla!Stages
<1>8. \A q \in Intern \ {p} : s1'[q] = s1[q] /\ s2'[q] = s2[q] /\ s3'[q] = s3[q] /\ s4'[q] = s4[q]
  BY <1>1 DEF Pla!Inv, Pla!TypeOK
<1> QED
  BY <1>1, <1>3, <1>4, <1>5, <1>6, <1>7, <1>8, PlacementTouched

LEMMA ProfileRemoved ==
    ASSUME Pla!Inv, NEW p \in Intern, Pla!removeProfile(p)
    PROVE  Pla!Inv' /\ \A q \in Intern : Ended(q)
<1> DEFINE row == [s1[p] EXCEPT !.status = "CANCELLED", !.deleted = TRUE]
<1>1. s1' = [s1 EXCEPT ![p] = row] /\ UNCHANGED <<s2, s3, s4, s6>>
  BY DEF Pla!removeProfile, Pla!Inv, Pla!TypeOK
<1>2. s1[p] \in Pla!Row
  BY DEF Pla!Inv, Pla!TypeOK
<1>3. /\ row \in Pla!Row /\ row.supervisor = s1[p].supervisor /\ row.email = s1[p].email
      /\ row.status = "CANCELLED"
  BY <1>2 DEF Pla!Row, Pla!Final
<1> HIDE DEF row
<1>4. Pla!TypeOK'
  BY <1>1, <1>3 DEF Pla!Inv, Pla!TypeOK, Pla!Row
<1>5. s1'[p] = row
  BY <1>1 DEF Pla!Inv, Pla!TypeOK
<1>6. Pla!Whole(p)'
  BY <1>1, <1>3, <1>5 DEF Pla!Inv, Pla!Whole, Pla!at, Pla!Final
<1>7. ~Pla!open(p)'
  BY <1>3, <1>5 DEF Pla!open, Pla!Stages
<1>8. \A q \in Intern \ {p} : s1'[q] = s1[q] /\ s2'[q] = s2[q] /\ s3'[q] = s3[q] /\ s4'[q] = s4[q]
  BY <1>1 DEF Pla!Inv, Pla!TypeOK
<1> QED
  BY <1>1, <1>3, <1>4, <1>5, <1>6, <1>7, <1>8, PlacementTouched

\* The call that makes a sign-in keeps the email it read, until it is done.
LEMMA SignInGoesOn ==
    ASSUME Pla!Inv, NEW p \in Intern, Pla!looksForLogin(p) \/ Pla!createUser(p)
    PROVE  Pla!Inv' /\ \A q \in Intern : Ended(q)
<1>1. UNCHANGED <<s1, s2, s3, s6>>
  BY DEF Pla!looksForLogin, Pla!createUser
<1>2. PICK to \in {"linking", "making", "idle"} :
          \/ s4' = [s4 EXCEPT ![p].at = to] /\ s4[p].at # "idle"
          \/ s4' = [s4 EXCEPT ![p] = Pla!idle]
  <2>1. CASE Pla!looksForLogin(p)
    BY <2>1 DEF Pla!looksForLogin, Pla!goes, Pla!at
  <2>2. CASE Pla!createUser(p)
    BY <2>2 DEF Pla!createUser, Pla!goes, Pla!at
  <2> QED
    BY <2>1, <2>2
<1>3. PICK c \in [at : {"idle", "looking", "making", "linking"}, email : Applicant \cup {None}] :
          /\ s4' = [s4 EXCEPT ![p] = c]
          /\ c.at # "idle" => s4[p].at # "idle" /\ c.email = s4[p].email
  <2>1. s4[p] \in [at : {"idle", "looking", "making", "linking"}, email : Applicant \cup {None}]
    BY DEF Pla!Inv, Pla!TypeOK
  <2>2. CASE s4' = [s4 EXCEPT ![p].at = to] /\ s4[p].at # "idle"
    <3> DEFINE c == [s4[p] EXCEPT !.at = to]
    <3>1. s4' = [s4 EXCEPT ![p] = c]
      BY <2>2 DEF Pla!Inv, Pla!TypeOK
    <3>2. c \in [at : {"idle", "looking", "making", "linking"}, email : Applicant \cup {None}]
          /\ c.email = s4[p].email
      BY <2>1
    <3> HIDE DEF c
    <3> QED
      BY <2>2, <3>1, <3>2
  <2>3. CASE s4' = [s4 EXCEPT ![p] = Pla!idle]
    <3>1. Pla!idle.at = "idle" /\ Pla!idle \in [at : {"idle", "looking", "making", "linking"},
                                                email : Applicant \cup {None}]
      BY DEF Pla!idle
    <3> QED
      BY <2>3, <3>1
  <2> QED
    BY <1>2, <2>2, <2>3
<1>4. Pla!TypeOK'
  BY <1>1, <1>3 DEF Pla!Inv, Pla!TypeOK, Pla!Row
<1>5. s4'[p] = c
  BY <1>3 DEF Pla!Inv, Pla!TypeOK
<1>6. Pla!Whole(p)'
  BY <1>1, <1>3, <1>5 DEF Pla!Inv, Pla!Whole, Pla!at
<1>7. \A q \in Intern \ {p} : s1'[q] = s1[q] /\ s2'[q] = s2[q] /\ s3'[q] = s3[q] /\ s4'[q] = s4[q]
  BY <1>1, <1>3 DEF Pla!Inv, Pla!TypeOK
<1>8. s1'[p].email = s1[p].email /\ (Pla!open(p)' => Pla!open(p)) /\ s6' = s6
  BY <1>1 DEF Pla!open
<1> QED
  BY <1>4, <1>6, <1>7, <1>8, PlacementTouched

LEMMA SignInLinked ==
    ASSUME Pla!Inv, NEW p \in Intern, Pla!linksLogin(p)
    PROVE  Pla!Inv' /\ \A q \in Intern : Ended(q)
<1>1. PICK m : m = IF ~Pla!found(p) THEN s1[p].email
                   ELSE IF s4[p].email = None THEN "generated" ELSE s4[p].email
  OBVIOUS
<1>2. /\ m \in Applicant \cup {None, "generated"}
      /\ p \in s6 \/ m = "generated" \/ m = s1[p].email
  BY <1>1 DEF Pla!linksLogin, Pla!at, Pla!Inv, Pla!TypeOK, Pla!Whole, Pla!Row
<1> DEFINE row == [s1[p] EXCEPT !.email = m]
<1>3. s1' = [s1 EXCEPT ![p] = row] /\ s4' = [s4 EXCEPT ![p] = Pla!idle] /\ UNCHANGED <<s2, s3, s6>>
  BY <1>1 DEF Pla!linksLogin, Pla!Inv, Pla!TypeOK
<1>4. s1[p] \in Pla!Row
  BY DEF Pla!Inv, Pla!TypeOK
<1>5. /\ row \in Pla!Row /\ row.supervisor = s1[p].supervisor /\ row.email = m
      /\ row.status = s1[p].status /\ row.deleted = s1[p].deleted
  BY <1>2, <1>4 DEF Pla!Row
<1> HIDE DEF row
<1>6. Pla!TypeOK'
  BY <1>3, <1>5 DEF Pla!Inv, Pla!TypeOK, Pla!Row, Pla!idle
<1>7. s1'[p] = row /\ s4'[p].at = "idle"
  BY <1>3 DEF Pla!Inv, Pla!TypeOK, Pla!idle
<1>8. Pla!Whole(p)'
  BY <1>3, <1>5, <1>7 DEF Pla!Inv, Pla!Whole, Pla!at
<1>9. Ended(p) /\ (Pla!open(p)' => Pla!open(p))
  BY <1>5, <1>7 DEF Ended, Pla!open, Pla!Final, Pla!Stages
<1>10. \A q \in Intern \ {p} : s1'[q] = s1[q] /\ s2'[q] = s2[q] /\ s3'[q] = s3[q] /\ s4'[q] = s4[q]
  BY <1>3 DEF Pla!Inv, Pla!TypeOK
<1>11. \A q \in Intern \ {p} : Pla!open(p)' /\ Pla!open(q) /\ s1'[p].email = s1[q].email
               => p \in s6' \/ q \in s6' \/ s1'[p].email = "generated"
  BY <1>2, <1>3, <1>5, <1>7, <1>9 DEF Pla!Inv, Pla!Apart
<1> QED
  BY <1>3, <1>6, <1>8, <1>9, <1>10, <1>11, PlacementWritten

LEMMA PlacementsKept ==
    ASSUME Pla!Inv, UNCHANGED <<s1, s2, s3, s6>>, s4' = s4 \/ Pla!restart
    PROVE  Pla!Inv' /\ \A q \in Intern : Ended(q)
<1>1. /\ Pla!TypeOK' /\ \A q \in Intern : Pla!Whole(q)'
  BY DEF Pla!Inv, Pla!TypeOK, Pla!Whole, Pla!at, Pla!restart, Pla!idle, Pla!Row
<1>2. \A q \in Intern : Ended(q) /\ (Pla!open(q)' <=> Pla!open(q))
  BY DEF Ended, Pla!open, Pla!Final, Pla!Stages
<1>3. \A q, r \in Intern : Pla!Apart(q, r) => Pla!Apart(q, r)'
  BY <1>2 DEF Pla!Apart
<1> QED
  BY <1>1, <1>2, <1>3 DEF Pla!Inv

LEMMA PlacementsStep == ASSUME Pla!Inv, Pla!Next PROVE Pla!Inv' /\ \A q \in Intern : Ended(q)
<1>1. ASSUME NEW p \in Intern, Pla!Office(p) PROVE Pla!Inv' /\ \A q \in Intern : Ended(q)
  <2>1. CASE \E m \in Applicant \cup {None}, s \in Pla!Stages, e \in Employee \cup {"none"} :
                 Pla!createProfile(p, m, s, e)
    BY <2>1, ProfileCreated
  <2>2. CASE \E e \in Employee : Pla!assignSupervisor(p, e)
    BY <2>2, SupervisorAssigned
  <2>3. CASE \E m \in Applicant : Pla!updateProfile(p, m)
    BY <2>3, ProfileUpdated
  <2>4. CASE \E s \in Pla!Stages \cup Pla!Final : Pla!extendPlacement(p, s)
    BY <2>4, PlacementExtended
  <2>5. CASE \E s \in Pla!Final : Pla!processExit(p, s)
    BY <2>5, PlacementEnds DEF Pla!processExit
  <2>6. CASE Pla!convertToEmployee(p)
    BY <2>6, PlacementEnds DEF Pla!convertToEmployee
  <2>7. CASE Pla!removeProfile(p)
    BY <2>7, ProfileRemoved
  <2> QED
    BY <1>1, <2>1, <2>2, <2>3, <2>4, <2>5, <2>6, <2>7 DEF Pla!Office
<1>2. ASSUME Pla!restart PROVE Pla!Inv' /\ \A q \in Intern : Ended(q)
  BY <1>2, PlacementsKept DEF Pla!restart
<1> QED
  BY <1>1, <1>2, SignInGoesOn, SignInLinked DEF Pla!Next

\* A person has one open placement unless an email was changed by hand, though sign-ins are
\* made while others are taken on; one that ended has what it ended with and stays ended; and
\* its one active supervisor is its own: for any interns, people and supervisors.
THEOREM OneOpen == WorkflowsSpec => OneOpenPlacement
<1> DEFINE I == part = "placements" => Pla!Inv
<1>1. WorkflowsInit => I
  BY PlacementsStart DEF WorkflowsInit
<1>2. ASSUME WorkflowsNext PROVE part' = part /\ (part = "placements" => Pla!Next)
  BY <1>2 DEF WorkflowsNext, paymentsRest
<1>3. I /\ WorkflowsNext => I' /\ (part = "placements" => \A q \in Intern : Ended(q))
  BY <1>2, PlacementsStep
<1>4. I /\ [WorkflowsNext]_<<part, s1, s2, s3, s4, s5, s6, s7, vars>> => I'
  BY <1>3, PlacementsKept
<1>5. I /\ [WorkflowsNext]_<<part, s1, s2, s3, s4, s5, s6, s7, vars>>
        => [part = "placements" => Pla!OneOpenPlacement]_<<s1, s2, s3, s4, s5, s6>>
  <2> SUFFICES ASSUME I, WorkflowsNext, part = "placements" PROVE Pla!OneOpenPlacement
    OBVIOUS
  <2>1. Pla!Inv' /\ \A q \in Intern : Ended(q)
    BY <1>2, <1>3
  <2> QED
    BY <2>1 DEF Pla!OneOpenPlacement, Pla!Inv, Pla!Whole, Pla!Apart, Ended
<1> QED
  BY <1>1, <1>4, <1>5, PTL DEF WorkflowsSpec, OneOpenPlacement

---------------------------------------------------------------------------
(* Events and announcements.                                               *)

Guest == [rows : 0..1, checkedIn : BOOLEAN,
          status : {"none", "INVITED", "GOING", "MAYBE", "DECLINED", "ATTENDED"}]

LEMMA EventsStart == Ev!Init => Ev!Inv
<1> SUFFICES ASSUME Ev!Init PROVE Ev!Inv
  OBVIOUS
<1>1. Ev!noEvent \in [status : Ev!EVENT_STATUS \cup {"absent"}, when : Ev!When]
      /\ Ev!noEvent.status \notin Ev!Active
  BY DEF Ev!noEvent, Ev!When, Ev!Active
<1>2. Ev!noAttendee \in Guest /\ ~Ev!noAttendee.checkedIn
  BY DEF Ev!noAttendee, Guest
<1> QED
  BY <1>1, <1>2 DEF Ev!Init, Ev!Inv, Guest

LEMMA EventBecomes ==
    ASSUME Ev!Inv, NEW e \in Event, NEW s \in Ev!EVENT_STATUS \cup {"absent"}, NEW w \in Ev!When,
           Ev!becomes(e, s, w)
    PROVE  /\ s1' \in [Event -> [status : Ev!EVENT_STATUS \cup {"absent"}, when : Ev!When]]
           /\ \A x \in Event : s1'[x].status \in Ev!Active /\ s1'[x].when = "during" => x \in s6'
           /\ s6 \subseteq s6'
<1> DEFINE row == [status |-> s, when |-> w]
<1>1. s1' = [s1 EXCEPT ![e] = row] /\ s6' = IF s \in Ev!Active /\ w = "during" THEN s6 \cup {e} ELSE s6
  BY DEF Ev!becomes
<1>2. row.status = s /\ row.when = w /\ row \in [status : Ev!EVENT_STATUS \cup {"absent"}, when : Ev!When]
  OBVIOUS
<1> HIDE DEF row
<1> QED
  BY <1>1, <1>2 DEF Ev!Inv

\* A step keeps the invariant when it keeps the row of each event, and no guest comes to one
\* that did not take place.
LEMMA EventsKept ==
    ASSUME Ev!Inv,
           s1' \in [Event -> [status : Ev!EVENT_STATUS \cup {"absent"}, when : Ev!When]],
           \A x \in Event : s1'[x].status \in Ev!Active /\ s1'[x].when = "during" => x \in s6',
           s6 \subseteq s6', s4' \in [Event -> [Colleague -> Guest]],
           \A x \in Event, u \in Colleague : s4'[x][u].checkedIn => s4[x][u].checkedIn \/ x \in s6'
    PROVE  Ev!Inv'
BY DEF Ev!Inv, Guest, Ev!EVENT_STATUS, Ev!When, Ev!Active

LEMMA EventsStill == ASSUME Ev!Inv, UNCHANGED <<s1, s4, s6>> PROVE Ev!Inv'
BY DEF Ev!Inv, Ev!EVENT_STATUS, Ev!When, Ev!Active

LEMMA GuestInvited ==
    ASSUME NEW a \in Guest
    PROVE  /\ Ev!invited(a) \in Guest
           /\ Ev!invited(a).checkedIn => a.checkedIn
BY DEF Ev!invited, Guest

LEMMA EventPublished ==
    ASSUME Ev!Inv, NEW e \in Event, NEW notify \in BOOLEAN, Ev!publishEvent(e, notify) PROVE Ev!Inv'
<1> DEFINE rows == [u \in Colleague |-> IF u \in Ev!resolveAudienceUsers(e)
                                        THEN Ev!invited(s4[e][u]) ELSE s4[e][u]]
<1>1. Ev!becomes(e, "PUBLISHED", s1[e].when) /\ s4' = [s4 EXCEPT ![e] = rows]
  BY DEF Ev!publishEvent, Ev!Inv
<1>2. s1[e].when \in Ev!When /\ "PUBLISHED" \in Ev!EVENT_STATUS
  BY DEF Ev!Inv, Ev!EVENT_STATUS
<1>3. \A u \in Colleague : s4[e][u] \in Guest
  BY DEF Ev!Inv, Guest
<1>4. rows \in [Colleague -> Guest] /\ \A u \in Colleague : rows[u].checkedIn => s4[e][u].checkedIn
  BY <1>3, GuestInvited
<1> HIDE DEF rows
<1>5. s4' \in [Event -> [Colleague -> Guest]]
  BY <1>1, <1>4 DEF Ev!Inv, Guest
<1>6. \A x \in Event, u \in Colleague : s4'[x][u].checkedIn => s4[x][u].checkedIn \/ x \in s6'
  BY <1>1, <1>4 DEF Ev!Inv
<1> QED
  BY <1>1, <1>2, <1>5, <1>6, EventBecomes, EventsKept

LEMMA EventWritten ==
    ASSUME Ev!Inv, NEW e \in Event, NEW s \in Ev!EVENT_STATUS \cup {"absent"}, NEW w \in Ev!When,
           Ev!becomes(e, s, w), s4' = s4
    PROVE  Ev!Inv'
<1>1. s4' \in [Event -> [Colleague -> Guest]]
  BY DEF Ev!Inv, Guest
<1> QED
  BY <1>1, EventBecomes, EventsKept

LEMMA EventServed == ASSUME Ev!Inv, NEW e \in Event, Ev!Service(e) PROVE Ev!Inv'
<1>1. s1[e].when \in Ev!When /\ s1[e].status \in Ev!EVENT_STATUS \cup {"absent"}
      /\ {"PUBLISHED", "DRAFT", "CANCELLED", "ARCHIVED"} \subseteq Ev!EVENT_STATUS
  BY DEF Ev!Inv, Ev!EVENT_STATUS
<1>2. ASSUME NEW gs \in SUBSET Group, NEW w \in Ev!When, NEW publish \in BOOLEAN,
             Ev!createEvent(e, gs, w, publish)
      PROVE  Ev!Inv'
  BY <1>1, <1>2, EventWritten DEF Ev!createEvent
<1>3. ASSUME NEW w \in Ev!When, NEW sensitive \in BOOLEAN, Ev!updateEvent(e, w, sensitive)
      PROVE  Ev!Inv'
  BY <1>1, <1>3, EventWritten DEF Ev!updateEvent
<1>4. CASE Ev!cancelEvent(e)
  BY <1>1, <1>4, EventWritten DEF Ev!cancelEvent
<1>5. CASE Ev!archiveEvent(e)
  BY <1>1, <1>5, EventWritten DEF Ev!archiveEvent
<1>6. ASSUME NEW gs \in SUBSET Group, Ev!updateAudience(e, gs) PROVE Ev!Inv'
  BY <1>6, EventsStill DEF Ev!updateAudience
<1> QED
  BY <1>2, <1>3, <1>4, <1>5, <1>6, EventPublished DEF Ev!Service

LEMMA GuestAnswers ==
    ASSUME Ev!Inv, NEW e \in Event, NEW u \in Colleague, NEW a \in Guest, Ev!answers(e, u, a),
           a.checkedIn => s4[e][u].checkedIn \/ e \in s6
    PROVE  Ev!Inv'
<1>1. UNCHANGED <<s1, s6>> /\ s4' = [s4 EXCEPT ![e] = [s4[e] EXCEPT ![u] = a]]
  BY DEF Ev!answers, Ev!Inv
<1>2. s4' \in [Event -> [Colleague -> Guest]]
  BY <1>1 DEF Ev!Inv, Guest
<1>3. \A x \in Event, v \in Colleague : s4'[x][v].checkedIn => s4[x][v].checkedIn \/ x \in s6'
  BY <1>1 DEF Ev!Inv
<1>4. /\ s1' \in [Event -> [status : Ev!EVENT_STATUS \cup {"absent"}, when : Ev!When]]
      /\ \A x \in Event : s1'[x].status \in Ev!Active /\ s1'[x].when = "during" => x \in s6'
  BY <1>1 DEF Ev!Inv
<1> QED
  BY <1>1, <1>2, <1>3, <1>4, EventsKept

LEMMA GuestsStep == ASSUME Ev!Inv, NEW e \in Event, NEW u \in Colleague, Ev!Guests(e, u) PROVE Ev!Inv'
<1>1. s4[e][u] \in Guest
  BY DEF Ev!Inv, Guest
<1>2. PICK a : a = Ev!invited(s4[e][u])
  OBVIOUS
<1>3. a \in Guest /\ (a.checkedIn => s4[e][u].checkedIn)
  BY <1>1, <1>2, GuestInvited
<1>4. ASSUME NEW s \in {"GOING", "MAYBE", "DECLINED"}, Ev!rsvpEvent(e, u, s) PROVE Ev!Inv'
  <2> DEFINE b == [a EXCEPT !.status = s]
  <2>1. b \in Guest /\ b.checkedIn = a.checkedIn
    BY <1>3 DEF Guest
  <2>2. Ev!answers(e, u, b)
    BY <1>2, <1>4 DEF Ev!rsvpEvent
  <2> HIDE DEF b
  <2>3. b.checkedIn => s4[e][u].checkedIn \/ e \in s6
    BY <1>3, <2>1
  <2> QED
    BY <2>1, <2>2, <2>3, GuestAnswers
<1>5. CASE Ev!checkInEvent(e, u)
  <2> DEFINE b == [a EXCEPT !.status = "ATTENDED", !.checkedIn = TRUE]
  <2>1. b \in Guest
    BY <1>3 DEF Guest
  <2> HIDE DEF b
  <2>2. CASE s1[e].status \in Ev!Active /\ s1[e].when = "during"
    <3>1. Ev!answers(e, u, b)
      BY <1>2, <1>5, <2>2 DEF Ev!checkInEvent, b
    <3>2. e \in s6
      BY <2>2 DEF Ev!Inv
    <3> QED
      BY <2>1, <3>1, <3>2, GuestAnswers
  <2>3. CASE ~(s1[e].status \in Ev!Active /\ s1[e].when = "during")
    <3>1. Ev!answers(e, u, a)
      BY <1>2, <1>5, <2>3 DEF Ev!checkInEvent
    <3> QED
      BY <1>3, <3>1, GuestAnswers
  <2> QED
    BY <2>2, <2>3
<1>6. CASE Ev!checkOutEvent(e, u)
  <2>1. Ev!answers(e, u, a)
    BY <1>2, <1>6 DEF Ev!checkOutEvent
  <2> QED
    BY <1>3, <2>1, GuestAnswers
<1> QED
  BY <1>4, <1>5, <1>6 DEF Ev!Guests

LEMMA EventsStep == ASSUME Ev!Inv, Ev!Next PROVE Ev!Inv'
<1>1. ASSUME NEW e \in Event, Ev!Portal(e) PROVE Ev!Inv'
  <2>1. ASSUME NEW s \in Ev!EVENT_STATUS \ {"ARCHIVED"}, NEW w \in Ev!When,
               Ev!portalCreates(e, s, w) \/ Ev!portalWrites(e, s, w)
        PROVE  Ev!Inv'
    BY <2>1, EventWritten DEF Ev!portalCreates, Ev!portalWrites
  <2>2. CASE Ev!portalSends(e)
    <3>1. s1[e].when \in Ev!When /\ "SENT" \in Ev!EVENT_STATUS
      BY DEF Ev!Inv, Ev!EVENT_STATUS
    <3> QED
      BY <2>2, <3>1, EventWritten DEF Ev!portalSends, Ev!portalWrites
  <2> QED
    BY <1>1, <2>1, <2>2 DEF Ev!Portal
<1>2. ASSUME NEW e \in Event, Ev!timePasses(e) PROVE Ev!Inv'
  <2>1. s1[e].status \in Ev!EVENT_STATUS \cup {"absent"} /\ {"during", "over"} \subseteq Ev!When
    BY DEF Ev!Inv, Ev!When
  <2> QED
    BY <1>2, <2>1, EventWritten DEF Ev!timePasses
<1>3. ASSUME NEW u \in Colleague, NEW g \in Group, Ev!transfer(u, g) PROVE Ev!Inv'
  BY <1>3, EventsStill DEF Ev!transfer
<1> QED
  BY <1>1, <1>2, <1>3, EventServed, GuestsStep DEF Ev!Next

LEMMA AnnouncementsStart == Ann!Init => Ann!Inv
<1> SUFFICES ASSUME Ann!Init PROVE Ann!Inv
  OBVIOUS
<1>1. Ann!noAnnouncement \in [status : Ann!ANNOUNCEMENT_STATUS \cup {"absent", "gone"}, expires : Ann!Expiry]
  BY DEF Ann!noAnnouncement, Ann!Expiry
<1> QED
  BY <1>1 DEF Ann!Init, Ann!Inv

\* What is still to publish, or was never there, stays so or becomes what it is not again.
AnnouncementRows == [status : Ann!ANNOUNCEMENT_STATUS \cup {"absent", "gone"}, expires : Ann!Expiry]
ToPublish == {"absent", "draft", "scheduled"}

LEMMA AnnouncementsKept ==
    ASSUME Ann!Inv, s1' \in [Announcement -> AnnouncementRows],
           \A a \in Announcement : s1'[a].status \in ToPublish => s1[a].status \in ToPublish,
           s5' = s5, s6' = s6
    PROVE  Ann!Inv' /\ Ann!ToldOnce
<1>1. Ann!Inv'
  BY DEF Ann!Inv, AnnouncementRows, ToPublish, Ann!status, Ann!ANNOUNCEMENT_STATUS, Ann!Expiry
<1>2. \A a \in Announcement, e \in Colleague : s6[a][e] <= 1
  BY DEF Ann!Inv
<1> QED
  BY <1>1, <1>2 DEF Ann!ToldOnce, Ann!Inv

LEMMA AnnouncementPublished ==
    ASSUME Ann!Inv, NEW a \in Announcement, s1[a].status \in ToPublish, NEW es,
           NEW x \in Ann!Expiry, NEW notify \in BOOLEAN, Ann!publishTo(a, es, x, notify)
    PROVE  Ann!Inv' /\ Ann!ToldOnce
<1> DEFINE row == [status |-> "published", expires |-> x]
           rows == Ann!createRecipientRecords(a, es)
           sent == IF notify THEN Ann!createNotifications(a, es) ELSE s6[a]
<1>1. /\ s1' = [s1 EXCEPT ![a] = row] /\ s5' = [s5 EXCEPT ![a] = rows]
      /\ s6' = [s6 EXCEPT ![a] = sent]
  BY DEF Ann!publishTo, Ann!Inv
<1>2. row \in AnnouncementRows /\ row.status \notin ToPublish
  BY DEF AnnouncementRows, ToPublish, Ann!ANNOUNCEMENT_STATUS
<1>3. /\ rows \in [Colleague -> {"none", "unread", "read"}]
      /\ \A e \in Colleague : /\ s5[a][e] # "none" => rows[e] = s5[a][e]
                              /\ e \in es => rows[e] # "none"
  BY DEF Ann!createRecipientRecords, Ann!Inv
<1>4. \A e \in Colleague : s6[a][e] = 0
  BY DEF Ann!Inv, Ann!status, ToPublish
<1>5. /\ sent \in [Colleague -> 0..1]
      /\ \A e \in Colleague : sent[e] = 1 => e \in es
  <2>1. CASE notify
    BY <1>4, <2>1 DEF Ann!createNotifications
  <2>2. CASE ~notify
    BY <1>4, <2>2 DEF Ann!Inv
  <2> QED
    BY <2>1, <2>2
<1> HIDE DEF row, rows, sent
<1>6. /\ s1' \in [Announcement -> AnnouncementRows]
      /\ s5' \in [Announcement -> [Colleague -> {"none", "unread", "read"}]]
      /\ s6' \in [Announcement -> [Colleague -> 0..1]]
  BY <1>1, <1>2, <1>3, <1>5 DEF Ann!Inv, AnnouncementRows
<1>7. ASSUME NEW b \in Announcement, NEW e \in Colleague
      PROVE  /\ s1'[b].status \in ToPublish => s6'[b][e] = 0
             /\ s6'[b][e] = 1 => s5'[b][e] # "none"
             /\ s5[b][e] = "read" => s5'[b][e] = "read"
  <2>1. CASE b = a
    BY <1>1, <1>2, <1>3, <1>5, <2>1 DEF Ann!Inv
  <2>2. CASE b # a
    BY <1>1, <2>2 DEF Ann!Inv, Ann!status, ToPublish
  <2> QED
    BY <2>1, <2>2
<1>8. Ann!Inv'
  BY <1>6, <1>7 DEF Ann!Inv, AnnouncementRows, ToPublish, Ann!status, Ann!ANNOUNCEMENT_STATUS, Ann!Expiry
<1>9. \A b \in Announcement, e \in Colleague : s6'[b][e] <= 1
  BY <1>6
<1> QED
  BY <1>7, <1>8, <1>9 DEF Ann!ToldOnce

LEMMA AnnouncementWritten ==
    ASSUME Ann!Inv, NEW a \in Announcement, NEW row \in AnnouncementRows,
           row.status \in ToPublish => s1[a].status \in ToPublish,
           s1' = [s1 EXCEPT ![a] = row], s5' = s5, s6' = s6
    PROVE  Ann!Inv' /\ Ann!ToldOnce
<1>1. s1' \in [Announcement -> AnnouncementRows]
  BY DEF Ann!Inv, AnnouncementRows
<1>2. \A b \in Announcement : s1'[b].status \in ToPublish => s1[b].status \in ToPublish
  BY DEF Ann!Inv
<1> QED
  BY <1>1, <1>2, AnnouncementsKept

LEMMA AnnouncementBecomes ==
    ASSUME Ann!Inv, NEW a \in Announcement, NEW s \in Ann!ANNOUNCEMENT_STATUS \cup {"absent", "gone"},
           s \in ToPublish => s1[a].status \in ToPublish, Ann!becomes(a, s), s5' = s5, s6' = s6
    PROVE  Ann!Inv' /\ Ann!ToldOnce
<1> DEFINE row == [s1[a] EXCEPT !.status = s]
<1>1. s1' = [s1 EXCEPT ![a] = row] /\ s1[a] \in AnnouncementRows
  BY DEF Ann!becomes, Ann!Inv, AnnouncementRows
<1>2. row \in AnnouncementRows /\ row.status = s
  BY <1>1 DEF AnnouncementRows
<1> HIDE DEF row
<1> QED
  BY <1>1, <1>2, AnnouncementWritten

LEMMA AnnouncementExpires ==
    ASSUME Ann!Inv, NEW a \in Announcement, NEW x \in Ann!Expiry,
           s1' = [s1 EXCEPT ![a].expires = x], s5' = s5, s6' = s6
    PROVE  Ann!Inv' /\ Ann!ToldOnce
<1> DEFINE row == [s1[a] EXCEPT !.expires = x]
<1>1. s1' = [s1 EXCEPT ![a] = row] /\ s1[a] \in AnnouncementRows
  BY DEF Ann!Inv, AnnouncementRows
<1>2. row \in AnnouncementRows /\ row.status = s1[a].status
  BY <1>1 DEF AnnouncementRows
<1> HIDE DEF row
<1> QED
  BY <1>1, <1>2, AnnouncementWritten

LEMMA AnnouncementCreated ==
    ASSUME Ann!Inv, NEW a \in Announcement, NEW s \in Ann!ANNOUNCEMENT_STATUS, NEW gs \in SUBSET Group,
           NEW x \in Ann!Expiry, NEW notify \in BOOLEAN, Ann!createAnnouncement(a, s, gs, x, notify)
    PROVE  Ann!Inv' /\ Ann!ToldOnce
<1>1. s1[a].status \in ToPublish
  BY DEF Ann!createAnnouncement, Ann!noAnnouncement, ToPublish
<1>2. CASE s = "published"
  BY <1>1, <1>2, AnnouncementPublished DEF Ann!createAnnouncement
<1>3. CASE s # "published"
  <2> DEFINE row == [status |-> s, expires |-> x]
  <2>1. s1' = [s1 EXCEPT ![a] = row] /\ s5' = s5 /\ s6' = s6 /\ row \in AnnouncementRows
    BY <1>3 DEF Ann!createAnnouncement, AnnouncementRows
  <2> HIDE DEF row
  <2> QED
    BY <1>1, <2>1, AnnouncementWritten
<1> QED
  BY <1>2, <1>3

LEMMA AnnouncementsExpire ==
    ASSUME Ann!Inv, Ann!expireDueAnnouncements PROVE Ann!Inv' /\ Ann!ToldOnce
<1>1. ASSUME NEW a \in Announcement
      PROVE  /\ s1'[a] \in AnnouncementRows
             /\ s1'[a].status \in ToPublish => s1[a].status \in ToPublish
  <2>1. s1[a] \in AnnouncementRows
    BY DEF Ann!Inv, AnnouncementRows
  <2> DEFINE row == [s1[a] EXCEPT !.status = "expired"]
  <2>2. row \in AnnouncementRows /\ row.status \notin ToPublish
    BY <2>1 DEF AnnouncementRows, ToPublish, Ann!ANNOUNCEMENT_STATUS
  <2>3. s1'[a] = row \/ s1'[a] = s1[a]
    BY DEF Ann!expireDueAnnouncements
  <2> QED
    BY <2>1, <2>2, <2>3
<1>2. s1' = [a \in Announcement |-> s1'[a]] /\ s5' = s5 /\ s6' = s6
  BY DEF Ann!expireDueAnnouncements
<1>3. s1' \in [Announcement -> AnnouncementRows]
  BY <1>1, <1>2
<1> QED
  BY <1>1, <1>2, <1>3, AnnouncementsKept

LEMMA AnnouncementRead ==
    ASSUME Ann!Inv, NEW a \in Announcement, NEW e \in Colleague, Ann!markRead(a, e)
    PROVE  Ann!Inv' /\ Ann!ToldOnce
<1>1. UNCHANGED <<s1, s6>> /\ s5' = [s5 EXCEPT ![a] = [s5[a] EXCEPT ![e] = "read"]]
  BY DEF Ann!markRead, Ann!Inv
<1>2. s5' \in [Announcement -> [Colleague -> {"none", "unread", "read"}]]
  BY <1>1 DEF Ann!Inv
<1>3. \A b \in Announcement, f \in Colleague : s5'[b][f] = s5[b][f] \/ s5'[b][f] = "read"
  BY <1>1 DEF Ann!Inv
<1>4. \A b \in Announcement, f \in Colleague : s6'[b][f] <= 1
  BY <1>1 DEF Ann!Inv
<1>5. Ann!Inv'
  BY <1>1, <1>2, <1>3 DEF Ann!Inv, Ann!status, Ann!ANNOUNCEMENT_STATUS, Ann!Expiry
<1> QED
  BY <1>1, <1>3, <1>4, <1>5 DEF Ann!ToldOnce, Ann!Inv

LEMMA AnnouncementsStep == ASSUME Ann!Inv, Ann!Next PROVE Ann!Inv' /\ Ann!ToldOnce
<1>1. ASSUME NEW a \in Announcement, Ann!Administrators(a) PROVE Ann!Inv' /\ Ann!ToldOnce
  <2>1. ASSUME NEW notify \in BOOLEAN, Ann!publishAnnouncement(a, notify) PROVE Ann!Inv' /\ Ann!ToldOnce
    <3>1. s1[a].status \in ToPublish /\ s1[a].expires \in Ann!Expiry
      BY <2>1 DEF Ann!publishAnnouncement, Ann!status, ToPublish, Ann!Inv
    <3> QED
      BY <2>1, <3>1, AnnouncementPublished DEF Ann!publishAnnouncement
  <2>2. CASE Ann!scheduleAnnouncement(a)
    <3>1. "scheduled" \in Ann!ANNOUNCEMENT_STATUS /\ s1[a].status \in ToPublish
      BY <2>2 DEF Ann!scheduleAnnouncement, Ann!status, ToPublish, Ann!ANNOUNCEMENT_STATUS
    <3> QED
      BY <2>2, <3>1, AnnouncementBecomes DEF Ann!scheduleAnnouncement
  <2>3. ASSUME NEW gs \in SUBSET Group, NEW x \in Ann!Expiry, Ann!updateAnnouncement(a, gs, x)
        PROVE  Ann!Inv' /\ Ann!ToldOnce
    BY <2>3, AnnouncementExpires DEF Ann!updateAnnouncement
  <2>4. CASE Ann!archiveAnnouncement(a) \/ Ann!deleteAnnouncement(a)
    <3>1. {"archived", "gone"} \subseteq Ann!ANNOUNCEMENT_STATUS \cup {"gone"}
          /\ {"archived", "gone"} \cap ToPublish = {}
      BY DEF Ann!ANNOUNCEMENT_STATUS, ToPublish
    <3> QED
      BY <2>4, <3>1, AnnouncementBecomes DEF Ann!archiveAnnouncement, Ann!deleteAnnouncement, Ann!takeDown
  <2> QED
    BY <1>1, <2>1, <2>2, <2>3, <2>4, AnnouncementCreated DEF Ann!Administrators
<1>2. ASSUME NEW a \in Announcement, Ann!timePasses(a) PROVE Ann!Inv' /\ Ann!ToldOnce
  <2>1. "past" \in Ann!Expiry
    BY DEF Ann!Expiry
  <2> QED
    BY <1>2, <2>1, AnnouncementExpires DEF Ann!timePasses
<1>3. ASSUME NEW e \in Colleague, NEW g \in Group, NEW w \in BOOLEAN, Ann!moves(e, g, w)
      PROVE  Ann!Inv' /\ Ann!ToldOnce
  <2>1. s1' = s1 /\ s5' = s5 /\ s6' = s6 /\ s1 \in [Announcement -> AnnouncementRows]
    BY <1>3 DEF Ann!moves, Ann!Inv, AnnouncementRows
  <2> QED
    BY <2>1, AnnouncementsKept
<1> QED
  BY <1>1, <1>2, <1>3, AnnouncementsExpire, AnnouncementRead DEF Ann!Next

LEMMA AnnouncementsStill == ASSUME Ann!Inv, UNCHANGED <<s1, s5, s6>> PROVE Ann!Inv'
BY DEF Ann!Inv, Ann!status, Ann!ANNOUNCEMENT_STATUS, Ann!Expiry

---------------------------------------------------------------------------
\* Who is invited to an event has one row of it, and who checked in came to one that took
\* place; and nobody is notified of an announcement twice, or finds a read one unread: for
\* any events, announcements, employees and departments.
THEOREM CountedAndTold == WorkflowsSpec => CountedAndToldOnce
<1> DEFINE I == /\ part = "events" => Ev!Inv
                /\ part = "announcements" => Ann!Inv
<1>1. WorkflowsInit => I
  BY EventsStart, AnnouncementsStart DEF WorkflowsInit
<1>2. ASSUME WorkflowsNext
      PROVE  /\ part' = part
             /\ part = "events" => Ev!Next
             /\ part = "announcements" => Ann!Next
  BY <1>2 DEF WorkflowsNext, paymentsRest
<1>3. I /\ WorkflowsNext => I' /\ (part = "announcements" => Ann!ToldOnce)
  BY <1>2, EventsStep, AnnouncementsStep
<1>4. I /\ [WorkflowsNext]_<<part, s1, s2, s3, s4, s5, s6, s7, vars>> => I'
  BY <1>3, EventsStill, AnnouncementsStill
<1>5. I /\ [WorkflowsNext]_<<part, s1, s2, s3, s4, s5, s6, s7, vars>>
        => [part = "announcements" => Ann!ToldOnce]_<<s1, s2, s3, s4, s5, s6>>
  BY <1>3
<1>6. I => (part = "events" => Ev!CountedOnce)
  BY DEF Ev!Inv, Ev!CountedOnce
<1> QED
  BY <1>1, <1>4, <1>5, <1>6, PTL DEF WorkflowsSpec, CountedAndToldOnce

---------------------------------------------------------------------------
(* Pay: promotions and raises.                                             *)

LEMMA CareersStart == Car!Init => Car!Inv
<1> SUFFICES ASSUME Car!Init PROVE Car!Inv
  OBVIOUS
<1>1. Car!noRequest \in Car!Row /\ Car!noRequest.status = "absent"
  BY DEF Car!noRequest, Car!Row
<1> QED
  BY <1>1 DEF Car!Init, Car!Inv, Car!Request, Car!Paid

\* What a step that writes the row of one promotion keeps, and one of an adjustment.
LEMMA PromotionWritten ==
    ASSUME Car!Inv, s1' \in [Employee -> Car!Paid], NEW p \in Promotion, NEW row \in Car!Row, NEW n \in Nat,
           s2' = [s2 EXCEPT ![p] = row], s5' = [s5 EXCEPT ![p] = n], UNCHANGED <<s3, s4>>,
           s6' \in {s6, s6 \cup {p}},
           p \notin s6' => n <= 1 /\ (row.status \in Car!ToApprove => n = 0)
    PROVE  Car!Inv'
<1>1. \A a \in Adjustment : a # p
  BY WorkflowsAssumption DEF Car!CareersConstants
<1>2. s2' \in [Promotion -> Car!Row] /\ s5' \in [Car!Request -> Nat] /\ s6' \subseteq Promotion
  BY DEF Car!Inv
<1>3. \A q \in Promotion \ s6' : s5'[q] <= 1 /\ (s2'[q].status \in Car!ToApprove => s5'[q] = 0)
  BY DEF Car!Inv, Car!Request
<1>4. \A a \in Adjustment : s5'[a] = s5[a]
  BY <1>1 DEF Car!Inv, Car!Request
<1> QED
  BY <1>2, <1>3, <1>4 DEF Car!Inv, Car!Row, Car!Paid, Car!Status, Car!Request, Car!ToApprove

LEMMA AdjustmentWritten ==
    ASSUME Car!Inv, s1' \in [Employee -> Car!Paid], NEW a \in Adjustment, NEW row \in Car!Row, NEW n \in Nat,
           NEW i \in Car!Status \cup {"absent"},
           s3' = [s3 EXCEPT ![a] = row], s4' = [s4 EXCEPT ![a] = i], s5' = [s5 EXCEPT ![a] = n],
           UNCHANGED <<s2, s6>>,
           n <= 1, row.status \in Car!ToApprove => n = 0, row.status # "absent",
           i # "absent" => (i = "APPROVED" <=> n = 1)
    PROVE  Car!Inv'
<1>1. \A p \in Promotion : a # p
  BY WorkflowsAssumption DEF Car!CareersConstants
<1>2. /\ s3' \in [Adjustment -> Car!Row] /\ s4' \in [Adjustment -> Car!Status \cup {"absent"}]
      /\ s5' \in [Car!Request -> Nat]
  BY DEF Car!Inv
<1>3. \A p \in Promotion : s5'[p] = s5[p]
  BY <1>1 DEF Car!Inv, Car!Request
<1>4. ASSUME NEW b \in Adjustment
      PROVE  /\ s5'[b] <= 1 /\ (s3'[b].status \in Car!ToApprove => s5'[b] = 0)
             /\ s3'[b].status = "absent" => s4'[b] = "absent"
             /\ s4'[b] # "absent" => (s4'[b] = "APPROVED" <=> s5'[b] = 1)
  <2>1. CASE b = a
    BY <2>1 DEF Car!Inv, Car!Request
  <2>2. CASE b # a
    BY <2>2 DEF Car!Inv, Car!Request
  <2> QED
    BY <2>1, <2>2
<1> QED
  BY <1>2, <1>3, <1>4 DEF Car!Inv, Car!Row, Car!Paid, Car!Status, Car!Request, Car!ToApprove

LEMMA CareersStill == ASSUME Car!Inv, UNCHANGED <<s1, s2, s3, s4, s5, s6>> PROVE Car!Inv'
BY DEF Car!Inv, Car!Row, Car!Paid, Car!Status, Car!Request, Car!ToApprove

\* The row of a request that is written anew, and one whose status is.
LEMMA CareerRow ==
    ASSUME NEW s \in Car!Status, NEW e \in Employee \cup {None}, NEW n \in Pay \cup {None}
    PROVE  Car!row(s, e, n) \in Car!Row /\ Car!row(s, e, n).status = s
BY DEF Car!row, Car!Row

LEMMA CareerStatus ==
    ASSUME NEW q \in Car!Row, NEW s \in Car!Status
    PROVE  [q EXCEPT !.status = s] \in Car!Row /\ [q EXCEPT !.status = s].status = s
BY DEF Car!Row

LEMMA CareerStatuses ==
    /\ {"PENDING", "APPROVED", "REJECTED", "RETURNED", "IMPLEMENTED"} \subseteq Car!Status
    /\ "PENDING" \in Car!ToApprove /\ "absent" \notin Car!Status
    /\ {"APPROVED", "REJECTED", "RETURNED", "IMPLEMENTED"} \cap Car!ToApprove = {}
    /\ Car!noRequest.status = "absent" /\ "absent" \in Car!ToApprove
BY DEF Car!Status, Car!ToApprove, Car!noRequest

LEMMA SalarySet ==
    ASSUME Car!Inv, NEW e \in Employee, NEW n \in Pay, s1' = [s1 EXCEPT ![e].current = n]
    PROVE  s1' \in [Employee -> Car!Paid]
<1> DEFINE row == [s1[e] EXCEPT !.current = n]
<1>1. s1' = [s1 EXCEPT ![e] = row] /\ s1[e] \in Car!Paid
  BY DEF Car!Inv
<1>2. row \in Car!Paid
  BY <1>1 DEF Car!Paid
<1> HIDE DEF row
<1> QED
  BY <1>1, <1>2 DEF Car!Inv

LEMMA PromotionMade ==
    ASSUME Car!Inv, s1' \in [Employee -> Car!Paid], NEW p \in Promotion, NEW e \in Employee \cup {None}, NEW n \in Pay \cup {None},
           s2[p] = Car!noRequest, s2' = [s2 EXCEPT ![p] = Car!row("PENDING", e, n)],
           UNCHANGED <<s3, s4, s5, s6>>
    PROVE  Car!Inv'
<1>1. PICK row : row = Car!row("PENDING", e, n)
  OBVIOUS
<1>2. row \in Car!Row /\ s2' = [s2 EXCEPT ![p] = row]
  BY <1>1, CareerRow, CareerStatuses
<1>3. s5[p] \in Nat /\ s5' = [s5 EXCEPT ![p] = s5[p]] /\ s6' \in {s6, s6 \cup {p}}
  BY DEF Car!Inv, Car!Request
<1>4. p \notin s6' => s5[p] <= 1 /\ (row.status \in Car!ToApprove => s5[p] = 0)
  BY CareerStatuses DEF Car!Inv
<1> QED
  BY <1>2, <1>3, <1>4, PromotionWritten

LEMMA PromotionApproved ==
    ASSUME Car!Inv, NEW p \in Promotion, Car!approvePromotion(p) PROVE Car!Inv'
<1> DEFINE row == [s2[p] EXCEPT !.status = "APPROVED"]
<1>6. s1' \in [Employee -> Car!Paid]
  <2>1. ASSUME NEW e \in Employee, NEW n \in Pay, s1' = [s1 EXCEPT ![e].current = n]
        PROVE  s1' \in [Employee -> Car!Paid]
    BY <2>1, SalarySet
  <2>2. s2[p] \in Car!Row
    BY DEF Car!Inv
  <2> QED
    BY <2>1, <2>2 DEF Car!approvePromotion, Car!Inv, Car!Row
<1>1. /\ s2' = [s2 EXCEPT ![p] = row] /\ s5' = [s5 EXCEPT ![p] = s5[p] + 1]
      /\ UNCHANGED <<s3, s4, s6>> /\ s2[p].status = "PENDING"
  BY DEF Car!approvePromotion, Car!recorded, Car!Inv, Car!Request
<1>2. s2[p] \in Car!Row /\ "APPROVED" \in Car!Status
  BY CareerStatuses DEF Car!Inv
<1>3. row \in Car!Row /\ row.status = "APPROVED"
  BY <1>2, CareerStatus
<1> HIDE DEF row
<1>4. s5[p] + 1 \in Nat /\ s6' \in {s6, s6 \cup {p}}
  BY <1>1 DEF Car!Inv, Car!Request
<1>5. p \notin s6' => s5[p] + 1 <= 1 /\ (row.status \in Car!ToApprove => s5[p] + 1 = 0)
  BY <1>1, <1>3, CareerStatuses DEF Car!Inv
<1> QED
  BY <1>1, <1>3, <1>4, <1>5, <1>6, PromotionWritten

LEMMA PromotionSet ==
    ASSUME Car!Inv, s1' \in [Employee -> Car!Paid], NEW p \in Promotion, NEW s \in Car!Status, s2[p] # Car!noRequest,
           s2' = [s2 EXCEPT ![p].status = s], UNCHANGED <<s3, s4, s5>>,
           \/ s6' = s6 \cup {p}
           \/ s6' = s6 /\ s \notin Car!ToApprove
    PROVE  Car!Inv'
<1> DEFINE row == [s2[p] EXCEPT !.status = s]
<1>1. s2' = [s2 EXCEPT ![p] = row] /\ s2[p] \in Car!Row
  BY DEF Car!Inv
<1>2. row \in Car!Row /\ row.status = s
  BY <1>1, CareerStatus
<1> HIDE DEF row
<1>3. s5[p] \in Nat /\ s5' = [s5 EXCEPT ![p] = s5[p]] /\ s6' \in {s6, s6 \cup {p}}
  BY DEF Car!Inv, Car!Request
<1>4. p \notin s6' => s5[p] <= 1 /\ (row.status \in Car!ToApprove => s5[p] = 0)
  BY <1>2 DEF Car!Inv
<1> QED
  BY <1>1, <1>2, <1>3, <1>4, PromotionWritten

LEMMA PromotionsStep == ASSUME Car!Inv, NEW p \in Promotion, Car!Promotions(p) PROVE Car!Inv'
<1>1. ASSUME NEW e \in Employee, NEW s \in Pay \cup {None}, Car!createPromotion(p, e, s) PROVE Car!Inv'
  <2>1. PICK n : n = IF s = None THEN s1[e].current ELSE s
    OBVIOUS
  <2>2. n \in Pay \cup {None}
    BY <2>1 DEF Car!Inv, Car!Paid
  <2>3. s1' \in [Employee -> Car!Paid]
    BY <1>1 DEF Car!createPromotion, Car!Inv
  <2> QED
    BY <1>1, <2>1, <2>2, <2>3, PromotionMade DEF Car!createPromotion
<1>2. ASSUME NEW e \in Employee \cup {None}, NEW s \in Pay \cup {None}, Car!recommendPromotion(p, e, s)
      PROVE  Car!Inv'
  <2>1. s1' \in [Employee -> Car!Paid]
    BY <1>2 DEF Car!recommendPromotion, Car!Inv
  <2> QED
    BY <1>2, <2>1, PromotionMade DEF Car!recommendPromotion
<1>3. CASE Car!rejectPromotion(p) \/ Car!returnPromotion(p)
  <2>1. s1' \in [Employee -> Car!Paid]
    BY <1>3 DEF Car!rejectPromotion, Car!returnPromotion, Car!setPromotion, Car!Inv
  <2> QED
    BY <1>3, <2>1, PromotionSet, CareerStatuses DEF Car!rejectPromotion, Car!returnPromotion, Car!setPromotion
<1>4. ASSUME NEW s \in Car!Status, Car!editPromotion(p, s) PROVE Car!Inv'
  <2>1. s1' \in [Employee -> Car!Paid]
    BY <1>4 DEF Car!editPromotion, Car!Inv
  <2> QED
    BY <1>4, <2>1, PromotionSet DEF Car!editPromotion
<1> QED
  BY <1>1, <1>2, <1>3, <1>4, PromotionApproved DEF Car!Promotions

LEMMA AdjustmentMade ==
    ASSUME Car!Inv, NEW a \in Adjustment, NEW e \in Employee \cup {None}, NEW n \in Pay \cup {None},
           NEW s \in Car!Status, s3[a] = Car!noRequest, s3' = [s3 EXCEPT ![a] = Car!row(s, e, n)],
           \/ s4' = s4
           \/ s4' = [s4 EXCEPT ![a] = "PENDING"] /\ s = "PENDING",
           UNCHANGED <<s1, s2, s5, s6>>
    PROVE  Car!Inv'
<1>1. PICK row : row = Car!row(s, e, n)
  OBVIOUS
<1>2. row \in Car!Row /\ s3' = [s3 EXCEPT ![a] = row] /\ row.status # "absent"
  BY <1>1, CareerRow, CareerStatuses
<1>3. s5[a] = 0 /\ s4[a] = "absent"
  BY CareerStatuses DEF Car!Inv
<1>4. PICK i \in {"absent", "PENDING"} : s4' = [s4 EXCEPT ![a] = i]
  BY <1>3 DEF Car!Inv
<1>5. s5' = [s5 EXCEPT ![a] = s5[a]] /\ s1' \in [Employee -> Car!Paid] /\ i \in Car!Status \cup {"absent"}
  BY CareerStatuses DEF Car!Inv, Car!Request
<1>6. /\ s5[a] \in Nat /\ s5[a] <= 1 /\ (row.status \in Car!ToApprove => s5[a] = 0)
      /\ i # "absent" => (i = "APPROVED" <=> s5[a] = 1)
  BY <1>3, <1>4
<1> QED
  BY <1>2, <1>4, <1>5, <1>6, AdjustmentWritten

LEMMA AdjustmentApproved ==
    ASSUME Car!Inv, NEW a \in Adjustment, Car!approveSalaryAdjustment(a) PROVE Car!Inv'
<1> DEFINE row == [s3[a] EXCEPT !.status = "APPROVED"]
           i == IF s4[a] = "absent" THEN "absent" ELSE "APPROVED"
<1>1. /\ s3' = [s3 EXCEPT ![a] = row] /\ s4' = [s4 EXCEPT ![a] = i]
      /\ s5' = [s5 EXCEPT ![a] = s5[a] + 1] /\ UNCHANGED <<s2, s6>> /\ s3[a].status = "PENDING"
  BY DEF Car!approveSalaryAdjustment, Car!syncSalaryIncrementStatus, Car!recorded, Car!Inv, Car!Request
<1>2. s3[a] \in Car!Row /\ "APPROVED" \in Car!Status
  BY CareerStatuses DEF Car!Inv
<1>3. row \in Car!Row /\ row.status = "APPROVED"
  BY <1>2, CareerStatus
<1>4. i \in Car!Status \cup {"absent"} /\ (i # "absent" => i = "APPROVED")
  BY CareerStatuses
<1> HIDE DEF row, i
<1>5. s5[a] + 1 = 1 /\ 1 \in Nat
  BY <1>1, CareerStatuses DEF Car!Inv, Car!Request
<1>6. s1' \in [Employee -> Car!Paid]
  <2>1. ASSUME NEW e \in Employee, NEW n \in Pay \cup {None},
               s1' = [s1 EXCEPT ![e] = [current |-> n, basic |-> n]]
        PROVE  s1' \in [Employee -> Car!Paid]
    <3> DEFINE paid == [current |-> n, basic |-> n]
    <3>1. paid \in Car!Paid
      BY DEF Car!Paid
    <3>2. s1' = [s1 EXCEPT ![e] = paid]
      BY <2>1
    <3> HIDE DEF paid
    <3> QED
      BY <3>1, <3>2 DEF Car!Inv
  <2> QED
    BY <1>2, <2>1 DEF Car!approveSalaryAdjustment, Car!Inv, Car!Row
<1>7. "APPROVED" \notin Car!ToApprove /\ row.status # "absent"
  BY <1>3, CareerStatuses
<1>8. /\ s5[a] + 1 \in Nat /\ s5[a] + 1 <= 1 /\ (row.status \in Car!ToApprove => s5[a] + 1 = 0)
      /\ i # "absent" => (i = "APPROVED" <=> s5[a] + 1 = 1)
  BY <1>3, <1>4, <1>5, <1>7
<1> QED
  BY <1>1, <1>3, <1>4, <1>6, <1>7, <1>8, AdjustmentWritten

\* Rejected in both copies, or set in the first alone.
LEMMA AdjustmentSet ==
    ASSUME Car!Inv, NEW a \in Adjustment, NEW s \in {"REJECTED", "RETURNED", "IMPLEMENTED"},
           s3' = [s3 EXCEPT ![a].status = s],
           \/ s4' = s4 /\ s3[a] # Car!noRequest
           \/ /\ s4' = [s4 EXCEPT ![a] = IF s4[a] = "absent" THEN "absent" ELSE s]
              /\ s3[a].status = "PENDING",
           UNCHANGED <<s1, s2, s5, s6>>
    PROVE  Car!Inv'
<1> DEFINE row == [s3[a] EXCEPT !.status = s]
<1>1. s3' = [s3 EXCEPT ![a] = row] /\ s3[a] \in Car!Row
  BY DEF Car!Inv
<1>2. row \in Car!Row /\ row.status = s
  BY <1>1, CareerStatus, CareerStatuses
<1> HIDE DEF row
<1>3. PICK i \in Car!Status \cup {"absent"} :
          s4' = [s4 EXCEPT ![a] = i] /\ (i # "absent" => (i = "APPROVED" <=> s5[a] = 1))
  <2>1. CASE s4' = s4
    <3>1. s4[a] \in Car!Status \cup {"absent"} /\ s4' = [s4 EXCEPT ![a] = s4[a]]
      BY <2>1 DEF Car!Inv
    <3> QED
      BY <3>1 DEF Car!Inv
  <2>2. CASE /\ s4' = [s4 EXCEPT ![a] = IF s4[a] = "absent" THEN "absent" ELSE s]
             /\ s3[a].status = "PENDING"
    <3>1. s5[a] = 0 /\ s \in Car!Status /\ s # "APPROVED"
      BY <2>2, CareerStatuses DEF Car!Inv
    <3>2. PICK i : i = IF s4[a] = "absent" THEN "absent" ELSE s
      OBVIOUS
    <3>3. i \in Car!Status \cup {"absent"} /\ i # "APPROVED"
      BY <3>1, <3>2
    <3>4. s4' = [s4 EXCEPT ![a] = i]
      BY <2>2, <3>2, Zenon
    <3>5. i = "APPROVED" <=> s5[a] = 1
      BY <3>1, <3>3
    <3> QED
      BY <3>3, <3>4, <3>5
  <2> QED
    BY <2>1, <2>2
<1>4. /\ s5[a] \in Nat /\ s5[a] <= 1 /\ s5' = [s5 EXCEPT ![a] = s5[a]]
      /\ s1' \in [Employee -> Car!Paid] /\ row.status \notin Car!ToApprove /\ row.status # "absent"
  BY <1>2, CareerStatuses DEF Car!Inv, Car!Request
<1> QED
  BY <1>1, <1>2, <1>3, <1>4, AdjustmentWritten

LEMMA AdjustmentsStep == ASSUME Car!Inv, NEW a \in Adjustment, Car!Adjustments(a) PROVE Car!Inv'
<1>1. ASSUME NEW e \in Employee \cup {None}, NEW s \in Pay, Car!createSalaryAdjustment(a, e, s)
      PROVE  Car!Inv'
  BY <1>1, AdjustmentMade, CareerStatuses DEF Car!createSalaryAdjustment
<1>2. ASSUME NEW e \in Employee \cup {None}, NEW n \in Pay \cup {None}, NEW s \in Car!Status,
             Car!addAdjustment(a, e, n, s)
      PROVE  Car!Inv'
  BY <1>2, AdjustmentMade DEF Car!addAdjustment
<1>3. CASE Car!rejectSalaryAdjustment(a)
  BY <1>3, AdjustmentSet DEF Car!rejectSalaryAdjustment, Car!syncSalaryIncrementStatus
<1>4. CASE Car!returnAdjustment(a) \/ Car!implementSalary(a)
  BY <1>4, AdjustmentSet DEF Car!returnAdjustment, Car!implementSalary, Car!setAdjustment
<1> QED
  BY <1>1, <1>2, <1>3, <1>4, AdjustmentApproved, CareerStatuses DEF Car!Adjustments, Car!createSalaryRecommendation

LEMMA CareersStep == ASSUME Car!Inv, Car!Next PROVE Car!Inv'
<1>1. ASSUME NEW e \in Employee, NEW n \in Pay, Car!performStaffAction(e, n) PROVE Car!Inv'
  <2>1. s1' \in [Employee -> Car!Paid]
    BY <1>1, SalarySet DEF Car!performStaffAction
  <2> QED
    BY <1>1, <2>1 DEF Car!performStaffAction, Car!Inv, Car!Row, Car!Paid, Car!Status, Car!Request, Car!ToApprove
<1> QED
  BY <1>1, PromotionsStep, AdjustmentsStep DEF Car!Next

\* A promotion or a raise is applied once, unless the superadmin reopened it, and the copy
\* the reports read says so: for any employees, requests and salaries.
LEMMA CareersApplied == ASSUME Car!Inv PROVE Car!AppliedOnceAndReported
BY DEF Car!Inv, Car!AppliedOnceAndReported, Car!Request

---------------------------------------------------------------------------
(* Pay: salaries.                                                          *)

Sum(a, S) ==
    (CHOOSE g : g = [s \in SUBSET S |-> IF s = {} THEN 0
         ELSE a[CHOOSE x \in s : TRUE].amount + g[s \ {CHOOSE x \in s : TRUE}]])[S]

LEMMA DeductedIs ==
    ASSUME NEW e, NEW d, NEW S, S = Sal!listEmployeeDeductions(e, d)
    PROVE  Sal!deducted(e, d) = Sum(s3[e], S)
BY Zenon DEF Sum, Sal!deducted, Sal!MapThenSumSet, Sal!MapThenFoldSet

LEMMA SmallestSubset ==
    ASSUME NEW S, IsFiniteSet(S), NEW U, U \subseteq SUBSET S, U # {}
    PROVE  \E t \in U : \A x \in t : t \ {x} \notin U
<1> DEFINE N == {Cardinality(t) : t \in U}
<1>1. \A t \in U : IsFiniteSet(t) /\ Cardinality(t) \in Nat
  BY FS_Subset, FS_CardinalityType
<1>2. N \subseteq Nat /\ N # {}
  BY <1>1
<1>3. PICK n \in N : \A m \in N : n <= m
  <2> HIDE DEF N
  <2> QED
    BY <1>2, LeastNatural
<1>4. PICK t \in U : Cardinality(t) = n
  OBVIOUS
<1>5. ASSUME NEW x \in t, t \ {x} \in U PROVE FALSE
  <2>1. Cardinality(t \ {x}) = Cardinality(t) - 1
    BY <1>1, FS_RemoveElement
  <2>2. Cardinality(t) <= Cardinality(t \ {x})
    BY <1>3, <1>4, <1>5
  <2> QED
    BY <1>1, <2>1, <2>2
<1> QED
  BY <1>5

\* What the deductions of an employee add up to is a number: the sum that the fold defines
\* is that of a set of pairs, one for each cent of each deduction.
LEMMA SumIsNatural ==
    ASSUME NEW S, IsFiniteSet(S), NEW a, \A i \in S : a[i].amount \in Nat
    PROVE  Sum(a, S) \in Nat
<1> DEFINE cents(s) == {p \in s \X Nat : p[2] < a[p[1]].amount}
           total == [s \in SUBSET S |-> Cardinality(cents(s))]
           sum == CHOOSE g : g = [s \in SUBSET S |-> IF s = {} THEN 0
                      ELSE a[CHOOSE x \in s : TRUE].amount + g[s \ {CHOOSE x \in s : TRUE}]]
<1>1. cents({}) = {}
  OBVIOUS
<1>2. ASSUME NEW s \in SUBSET S, NEW x \in s, IsFiniteSet(cents(s \ {x}))
      PROVE  /\ IsFiniteSet(cents(s))
             /\ Cardinality(cents(s)) = a[x].amount + Cardinality(cents(s \ {x}))
  <2> DEFINE own == {x} \X (0 .. (a[x].amount - 1))
  <2>1. a[x].amount \in Nat
    <3>1. x \in S
      BY <1>2
    <3> QED
      BY <3>1
  <2>2. IsFiniteSet(0 .. (a[x].amount - 1)) /\ Cardinality(0 .. (a[x].amount - 1)) = a[x].amount
    <3>1. PICK n \in Nat : n = a[x].amount
      BY <2>1
    <3>2. 0 \in Int /\ n - 1 \in Int
      OBVIOUS
    <3>3. IsFiniteSet(0 .. (n - 1)) /\ Cardinality(0 .. (n - 1)) = IF 0 > n - 1 THEN 0 ELSE n - 1 - 0 + 1
      BY <3>2, FS_Interval
    <3>4. Cardinality(0 .. (n - 1)) = n
      BY <3>3
    <3> QED
      BY <3>1, <3>3, <3>4
  <2>3. IsFiniteSet({x}) /\ Cardinality({x}) = 1
    BY FS_Singleton
  <2>4. IsFiniteSet(own) /\ Cardinality(own) = a[x].amount
    <3>1. IsFiniteSet(own) /\ Cardinality(own) = 1 * a[x].amount
      BY <2>2, <2>3, FS_Product
    <3> QED
      BY <2>1, <3>1
  <2>5. cents(s) = cents(s \ {x}) \cup own
    BY <2>1
  <2>6. cents(s \ {x}) \cap own = {}
    OBVIOUS
  <2> HIDE DEF cents, own
  <2>7. /\ IsFiniteSet(cents(s \ {x}) \cup own)
        /\ Cardinality(cents(s \ {x}) \cup own) = Cardinality(cents(s \ {x})) + Cardinality(own)
                                                  - Cardinality(cents(s \ {x}) \cap own)
    BY <1>2, <2>4, FS_Union
  <2>8. Cardinality(cents(s \ {x}) \cap own) = 0 /\ Cardinality(cents(s \ {x})) \in Nat
    BY <1>2, <2>6, FS_EmptySet, FS_CardinalityType
  <2> QED
    BY <2>1, <2>4, <2>5, <2>7, <2>8
<1> HIDE DEF cents
<1>3. ASSUME NEW s \in SUBSET S PROVE IsFiniteSet(cents(s))
  <2> DEFINE U == {t \in SUBSET S : ~IsFiniteSet(cents(t))}
  <2>1. SUFFICES ASSUME U # {} PROVE FALSE
    OBVIOUS
  <2>2. PICK t \in U : \A x \in t : t \ {x} \notin U
    <3> U \subseteq SUBSET S
      OBVIOUS
    <3> HIDE DEF U
    <3> QED
      BY <2>1, SmallestSubset
  <2>3. t # {}
    BY <1>1, FS_EmptySet
  <2>4. PICK x \in t : TRUE
    BY <2>3
  <2>5. IsFiniteSet(cents(t \ {x}))
    BY <2>2
  <2> QED
    BY <1>2, <2>5
<1>4. total = [s \in SUBSET S |-> IF s = {} THEN 0
                   ELSE a[CHOOSE x \in s : TRUE].amount + total[s \ {CHOOSE x \in s : TRUE}]]
  <2>1. ASSUME NEW s \in SUBSET S
        PROVE  Cardinality(cents(s)) = IF s = {} THEN 0
                   ELSE a[CHOOSE x \in s : TRUE].amount + total[s \ {CHOOSE x \in s : TRUE}]
    <3>1. CASE s = {}
      BY <1>1, <3>1, FS_EmptySet
    <3>2. CASE s # {}
      <4>1. PICK c : c = CHOOSE x \in s : TRUE
        OBVIOUS
      <4>2. c \in s
        BY <3>2, <4>1
      <4>3. Cardinality(cents(s)) = a[c].amount + Cardinality(cents(s \ {c}))
        BY <1>2, <1>3, <4>2
      <4>4. total[s \ {c}] = Cardinality(cents(s \ {c}))
        OBVIOUS
      <4> QED
        BY <3>2, <4>1, <4>3, <4>4
    <3> QED
      BY <3>1, <3>2
  <2> QED
    BY <2>1
<1> HIDE DEF total
<1>5. sum = [s \in SUBSET S |-> IF s = {} THEN 0
                 ELSE a[CHOOSE x \in s : TRUE].amount + sum[s \ {CHOOSE x \in s : TRUE}]]
  BY <1>4
<1> HIDE DEF sum
<1>6. \A s \in SUBSET S : sum[s] \in Nat
  <2> DEFINE U == {t \in SUBSET S : sum[t] \notin Nat}
  <2>1. SUFFICES ASSUME U # {} PROVE FALSE
    OBVIOUS
  <2>2. PICK t \in U : \A x \in t : t \ {x} \notin U
    <3> U \subseteq SUBSET S
      OBVIOUS
    <3> HIDE DEF U
    <3> QED
      BY <2>1, SmallestSubset
  <2>3. CASE t = {}
    BY <1>5, <2>3
  <2>4. CASE t # {}
    <3>1. PICK c : c = CHOOSE x \in t : TRUE
      OBVIOUS
    <3>2. c \in t
      BY <2>4, <3>1
    <3>3. sum[t] = a[c].amount + sum[t \ {c}]
      BY <1>5, <2>4, <3>1
    <3>4. a[c].amount \in Nat /\ sum[t \ {c}] \in Nat
      BY <2>2, <3>2
    <3> QED
      BY <3>3, <3>4
  <2> QED
    BY <2>3, <2>4
<1> QED
  BY <1>6 DEF sum, Sum

LEMMA DeductedIsNatural ==
    ASSUME Sal!Inv, NEW e \in Employee, NEW d PROVE Sal!deducted(e, d) \in Nat
<1>1. PICK S : S = Sal!listEmployeeDeductions(e, d)
  OBVIOUS
<1>2. S \subseteq 1 .. Len(s3[e]) /\ s3[e] \in Seq(Sal!Deduction)
  BY <1>1 DEF Sal!listEmployeeDeductions, Sal!Inv
<1>3. IsFiniteSet(S)
  <2>1. IsFiniteSet(1 .. Len(s3[e]))
    BY <1>2, FS_Interval
  <2> QED
    BY <1>2, <2>1, FS_Subset
<1>4. \A i \in S : s3[e][i].amount \in Nat
  <2>1. \A i \in S : s3[e][i] \in Sal!Deduction
    BY <1>2
  <2>2. Value \subseteq Nat
    BY WorkflowsAssumption DEF Sal!SalariesConstants
  <2> QED
    BY <2>1, <2>2 DEF Sal!Deduction
<1> QED
  BY <1>1, <1>3, <1>4, SumIsNatural, DeductedIs

LEMMA SalaryNumbers ==
    /\ Base \subseteq Nat \ {0} /\ Value \subseteq Nat /\ Rate \subseteq 0 .. 100
    /\ Repayment \subseteq Nat /\ Threshold \in Nat /\ Days \in Nat
BY WorkflowsAssumption DEF Sal!SalariesConstants

LEMMA Rounded ==
    ASSUME NEW n \in Int, NEW up \in BOOLEAN
    PROVE  /\ Sal!roundMoney(n, up) \in Int
           /\ 100 * Sal!roundMoney(n, up) - n \in -50 .. 50
<1>1. PICK h \in {49, 50} : Sal!roundMoney(n, up) = (n + h) \div 100
  BY DEF Sal!roundMoney
<1>2. PICK q : q = (n + h) \div 100
  OBVIOUS
<1>3. PICK r : r = (n + h) % 100
  OBVIOUS
<1>4. 100 \in Nat \ {0} /\ n + h \in Int
  OBVIOUS
<1>5. q \in Int /\ r \in 0 .. 99 /\ n + h = 100 * q + r
  BY <1>2, <1>3, <1>4, DivisionHolds
<1> QED
  BY <1>1, <1>2, <1>5

LEMMA AtLeastNothing == ASSUME NEW n \in Int PROVE Sal!Max({0, n}) = IF n > 0 THEN n ELSE 0
<1> DEFINE m == IF n > 0 THEN n ELSE 0
<1>1. m \in {0, n} /\ \A y \in {0, n} : m >= y
  OBVIOUS
<1>2. \A x \in {0, n} : (\A y \in {0, n} : x >= y) => x = m
  OBVIOUS
<1> QED
  BY <1>1, <1>2 DEF Sal!Max

LEMMA Share ==
    ASSUME NEW z \in Int, NEW t \in 0 .. 100
    PROVE  /\ z * t \in Int
           /\ 0 <= z => 0 <= z * t /\ z * t <= 100 * z
           /\ z <= 0 => z * t <= 0 /\ 100 * z <= z * t
OBVIOUS

LEMMA ShareOfError ==
    ASSUME NEW n \in Int, NEW ne \in Int, NEW t \in Int
    PROVE  100 * (n * t) = ne * t + (100 * n - ne) * t
<1>1. PICK z : z = 100 * n - ne
  OBVIOUS
<1>2. z \in Int /\ 100 * n = ne + z
  BY <1>1
<1>3. 100 * (n * t) = (100 * n) * t
  OBVIOUS
<1>4. (ne + z) * t = ne * t + z * t
  BY <1>2
<1> QED
  BY <1>1, <1>2, <1>3, <1>4, Zenon

\* The error that rounding one component leaves in the net salary, through the tax and the
\* pension, which take at most all of the gross each, is at most as large as it was.
LEMMA ErrorShrinks ==
    ASSUME NEW y \in Int, NEW z \in Int, NEW B \in Int, NEW D \in Int, -50 <= y, y <= 50,
           (0 <= z /\ z <= y) \/ (y <= z /\ z <= 0),
           0 <= z => 0 <= B /\ B <= 100 * z, z <= 0 => B <= 0 /\ 100 * z <= B,
           0 <= y => 0 <= D /\ D <= 100 * y, y <= 0 => D <= 0 /\ 100 * y <= D
    PROVE  -5000 <= 100 * y - B - D /\ 100 * y - B - D <= 5000
OBVIOUS

LEMMA OffIs ==
    ASSUME NEW E \in Int, NEW A \in Int, NEW B \in Int, NEW C \in Int, NEW D \in Int, NEW R \in Int,
           NEW u \in Int, NEW v \in Int, NEW w \in Int, NEW N, NEW T, NEW P,
           N = E + B + D + w, T = A + B + u, P = C + D + v
    PROVE  N - T - P - R - (E - A - C - R) = w - u - v
OBVIOUS

\* Taxed is what is above the threshold: the error of the gross, or a part of it.
LEMMA ErrorOfTaxed ==
    ASSUME NEW g \in Int, NEW ge \in Int, NEW h \in Int,
           NEW m \in Int, m = IF g - h > 0 THEN g - h ELSE 0,
           NEW me \in Int, me = IF ge - 100 * h > 0 THEN ge - 100 * h ELSE 0
    PROVE  \/ 0 <= 100 * m - me /\ 100 * m - me <= 100 * g - ge
           \/ 100 * g - ge <= 100 * m - me /\ 100 * m - me <= 0
OBVIOUS

LEMMA NetIs ==
    ASSUME NEW g \in Int, NEW dc \in Int, NEW tax \in Int, NEW pension \in Int, NEW dd \in Int, NEW rr \in Int,
           NEW N, NEW T, NEW P, NEW R,
           N = 10000 * (g - dc), T = 10000 * tax, P = 10000 * pension, R = 10000 * (rr + dd)
    PROVE  10000 * (g - (dc + tax + pension + dd + rr)) = N - T - P - R
OBVIOUS

LEMMA GrossIs ==
    ASSUME NEW g \in Int, NEW ge \in Int, NEW dc \in Int, NEW dce \in Int,
           NEW y, NEW x, y = 100 * g - ge, x = 100 * dc - dce,
           NEW B \in Int, NEW D \in Int, NEW w \in Int, 100 * y - 100 * x = B + D + w,
           NEW N, NEW E, N = 10000 * (g - dc), E = 100 * (ge - dce)
    PROVE  N = E + B + D + w
<1>1. 100 * (100 * g - ge) - 100 * (100 * dc - dce) = B + D + w
  OBVIOUS
<1>2. 10000 * (g - dc) = 100 * (ge - dce) + (100 * (100 * g - ge) - 100 * (100 * dc - dce))
  OBVIOUS
<1>3. PICK S \in Int : S = 100 * (100 * g - ge) - 100 * (100 * dc - dce)
  OBVIOUS
<1>4. S = B + D + w
  BY <1>1, <1>3, Zenon
<1>5. N = E + S
  BY <1>2, <1>3
<1>6. E \in Int
  OBVIOUS
<1> QED
  BY <1>4, <1>5, <1>6

\* What is paid is off by half a cent for each of three lines at most: the component, the tax
\* and the pension.
LEMMA OffByRounding ==
    ASSUME Sal!Inv, NEW e \in Employee, NEW a \in Sal!Assignment, NEW d, NEW up \in BOOLEAN
    PROVE  \E error \in Int : /\ error = 10000 * Sal!calculatePayrollForEmployee(e, a, d, up).net - Sal!exactNet(e, a, d)
                           /\ -15000 <= error /\ error <= 15000
<1>1. PICK k : k = s1[a.structure]
  OBVIOUS
<1>2. k \in Sal!Component /\ k.value \in Nat
  <2>1. a.structure \in Structure
    BY DEF Sal!Assignment
  <2>2. k \in Sal!Component
    BY <1>1, <2>1 DEF Sal!Inv
  <2>3. k.value \in Value \cup {0}
    BY <2>2 DEF Sal!Component
  <2>4. k.value \in Nat
    <3>1. Value \cup {0} \subseteq Nat
      BY SalaryNumbers
    <3> QED
      BY <2>3, <3>1
  <2> QED
    BY <2>2, <2>4
<1>3. PICK b : b = a.base
  OBVIOUS
<1>4. b \in Int
  BY <1>3, SalaryNumbers DEF Sal!Assignment
<1>5. PICK t, p : t = s5.tax /\ p = s5.pension
  OBVIOUS
<1>6. t \in 0 .. 100 /\ p \in 0 .. 100
  BY <1>5, SalaryNumbers DEF Sal!Inv
<1>7. PICK dd, rr : dd = Sal!deducted(e, d) /\ rr = s4[e]
  OBVIOUS
<1>8. dd \in Int /\ rr \in Int
  BY <1>7, DeductedIsNatural, SalaryNumbers DEF Sal!Inv
<1>9. PICK c : c = Sal!calculateComponentAmount(k, b, up)
  OBVIOUS
<1>10. PICK ce : ce = IF k.type = "PERCENTAGE" THEN b * k.value ELSE IF k.type = "FIXED" THEN 100 * k.value ELSE 0
  OBVIOUS
<1>11. c \in Int /\ ce \in Int /\ 100 * c - ce \in -50 .. 50
  <2>1. PICK n : n = b * k.value
    OBVIOUS
  <2>2. n \in Int
    BY <1>2, <1>4, <2>1
  <2>3. PICK r : r = Sal!roundMoney(n, up)
    OBVIOUS
  <2>4. r \in Int /\ 100 * r - n \in -50 .. 50
    BY <2>2, <2>3, Rounded
  <2>5. CASE k.type = "PERCENTAGE"
    <3>1. c = r /\ ce = n
      BY <1>9, <1>10, <2>1, <2>3, <2>5, Zenon DEF Sal!calculateComponentAmount
    <3> QED
      BY <2>2, <2>4, <3>1
  <2>6. CASE k.type = "FIXED"
    <3>1. c = k.value /\ ce = 100 * k.value
      BY <1>9, <1>10, <2>6 DEF Sal!calculateComponentAmount
    <3> QED
      BY <1>2, <3>1
  <2>7. CASE k.type = "FORMULA"
    <3>1. c = 0 /\ ce = 0
      BY <1>9, <1>10, <2>7 DEF Sal!calculateComponentAmount
    <3> QED
      BY <3>1
  <2> QED
    BY <1>2, <2>5, <2>6, <2>7 DEF Sal!Component, Sal!Types
<1>12. PICK g, ge : /\ g = b + IF k.kind = "EARNING" THEN c ELSE 0
                    /\ ge = 100 * b + IF k.kind = "EARNING" THEN ce ELSE 0
  OBVIOUS
<1>13. PICK dc, dce : /\ dc = IF k.kind = "DEDUCTION" THEN c ELSE 0
                      /\ dce = IF k.kind = "DEDUCTION" THEN ce ELSE 0
  OBVIOUS
<1>14. PICK x, y : x = 100 * dc - dce /\ y = 100 * g - ge
  OBVIOUS
<1>15. /\ g \in Int /\ ge \in Int /\ dc \in Int /\ dce \in Int
       /\ x \in -50 .. 50 /\ y \in -50 .. 50 /\ (x = 0 \/ y = 0)
  <2>1. CASE k.kind = "EARNING"
    <3>1. g = b + c /\ ge = 100 * b + ce /\ dc = 0 /\ dce = 0
      BY <1>12, <1>13, <2>1
    <3> QED
      BY <1>4, <1>11, <1>14, <3>1
  <2>2. CASE k.kind = "DEDUCTION"
    <3>1. g = b + 0 /\ ge = 100 * b + 0 /\ dc = c /\ dce = ce
      BY <1>12, <1>13, <2>2
    <3> QED
      BY <1>4, <1>11, <1>14, <3>1
  <2>3. CASE k.kind = "BENEFIT"
    <3>1. g = b + 0 /\ ge = 100 * b + 0 /\ dc = 0 /\ dce = 0
      BY <1>12, <1>13, <2>3
    <3> QED
      BY <1>4, <1>14, <3>1
  <2> QED
    BY <1>2, <2>1, <2>2, <2>3 DEF Sal!Component
<1>16. PICK m, me : m = Sal!Max({0, g - Threshold}) /\ me = Sal!Max({0, ge - 100 * Threshold})
  OBVIOUS
<1>17. PICK z : z = 100 * m - me
  OBVIOUS
<1>18. m \in Int /\ me \in Int /\ z \in Int /\ ((0 <= z /\ z <= y) \/ (y <= z /\ z <= 0))
  <2>1. Threshold \in Int /\ g - Threshold \in Int /\ ge - 100 * Threshold \in Int
    BY <1>15, SalaryNumbers
  <2>2. m = IF g - Threshold > 0 THEN g - Threshold ELSE 0
    BY <1>16, <2>1, AtLeastNothing, Zenon
  <2>3. me = IF ge - 100 * Threshold > 0 THEN ge - 100 * Threshold ELSE 0
    BY <1>16, <2>1, AtLeastNothing, Zenon
  <2>4. m \in Int /\ me \in Int /\ g \in Int /\ ge \in Int
    BY <1>15, <2>1, <2>2, <2>3
  <2>5. \/ 0 <= 100 * m - me /\ 100 * m - me <= 100 * g - ge
        \/ 100 * g - ge <= 100 * m - me /\ 100 * m - me <= 0
    BY <2>1, <2>2, <2>3, <2>4, ErrorOfTaxed
  <2> QED
    BY <1>14, <1>17, <2>4, <2>5
<1>19. PICK A, B, F : A = me * t /\ B = z * t /\ F = m * t
  OBVIOUS
<1>20. PICK C, D, G : C = ge * p /\ D = y * p /\ G = g * p
  OBVIOUS
<1>21. A \in Int /\ B \in Int /\ F \in Int /\ 100 * F = A + B
  <2>1. 100 * (m * t) = me * t + (100 * m - me) * t
    BY <1>6, <1>18, ShareOfError
  <2>2. A \in Int /\ B \in Int /\ F \in Int
    BY <1>6, <1>18, <1>19
  <2> QED
    BY <1>17, <1>19, <2>1, <2>2, Zenon
<1>22. C \in Int /\ D \in Int /\ G \in Int /\ 100 * G = C + D
  <2>1. 100 * (g * p) = ge * p + (100 * g - ge) * p
    BY <1>6, <1>15, ShareOfError
  <2>2. C \in Int /\ D \in Int /\ G \in Int
    BY <1>6, <1>15, <1>20
  <2> QED
    BY <1>14, <1>20, <2>1, <2>2, Zenon
<1>23. 100 * y - B - D \in Int /\ -5000 <= 100 * y - B - D /\ 100 * y - B - D <= 5000
  <2>1. (0 <= z => 0 <= B /\ B <= 100 * z) /\ (z <= 0 => B <= 0 /\ 100 * z <= B)
    BY <1>6, <1>18, <1>19, Share, Zenon
  <2>2. y \in Int /\ -50 <= y /\ y <= 50
    BY <1>15
  <2>3. (0 <= y => 0 <= D /\ D <= 100 * y) /\ (y <= 0 => D <= 0 /\ 100 * y <= D)
    BY <1>6, <1>20, <2>2, Share, Zenon
  <2>4. -5000 <= 100 * y - B - D /\ 100 * y - B - D <= 5000
    BY <1>18, <1>21, <1>22, <2>1, <2>2, <2>3, ErrorShrinks
  <2> QED
    BY <1>21, <1>22, <2>2, <2>4
<1>24. PICK w : w \in Int /\ -5000 <= w /\ w <= 5000 /\ 100 * y - 100 * x = B + D + w
  <2>1. x \in Int /\ y \in Int /\ -50 <= x /\ x <= 50 /\ -50 <= y /\ y <= 50 /\ (x = 0 \/ y = 0)
    BY <1>15
  <2>2. y = 0 => B = 0 /\ D = 0
    <3>1. CASE y = 0
      <4>1. z = 0
        BY <1>18, <3>1
      <4>2. 0 * t = 0 /\ 0 * p = 0
        BY <1>6
      <4> QED
        BY <1>19, <1>20, <3>1, <4>1, <4>2, Zenon
    <3> QED
      BY <3>1
  <2> QED
    <3>1. PICK w : w = 100 * y - 100 * x - B - D
      OBVIOUS
    <3>2. w \in Int /\ 100 * y - 100 * x = B + D + w
      BY <1>21, <1>22, <2>1, <3>1
    <3>3. CASE x = 0
      <4>1. w = 100 * y - B - D
        BY <1>21, <1>22, <2>1, <3>1, <3>3
      <4> QED
        BY <1>23, <3>2, <4>1
    <3>4. CASE y = 0
      <4>1. w = -100 * x
        BY <2>1, <2>2, <3>1, <3>4
      <4>2. -5000 <= w /\ w <= 5000
        BY <2>1, <4>1
      <4> QED
        BY <3>2, <4>2
    <3> QED
      BY <2>1, <3>3, <3>4
<1>25. PICK tax, pension : tax = Sal!calculateTax(g, up) /\ pension = Sal!calculateStatutoryDeductions(g, up)
  OBVIOUS
<1>26. tax \in Int /\ 100 * tax - F \in -50 .. 50
  <2>1. tax = Sal!roundMoney(F, up)
    BY <1>5, <1>16, <1>19, <1>25, Zenon DEF Sal!calculateTax
  <2> QED
    BY <1>21, <2>1, Rounded
<1>27. pension \in Int /\ 100 * pension - G \in -50 .. 50
  <2>1. pension = Sal!roundMoney(G, up)
    BY <1>5, <1>20, <1>25, Zenon DEF Sal!calculateStatutoryDeductions
  <2> QED
    BY <1>22, <2>1, Rounded
<1>28. PICK u : u \in Int /\ -5000 <= u /\ u <= 5000 /\ 10000 * tax = A + B + u
  <2>1. PICK l \in Int, f \in Int, a1 \in Int, a2 \in Int : l = tax /\ f = F /\ a1 = A /\ a2 = B
    BY <1>21, <1>26
  <2>2. 100 * f = a1 + a2 /\ 100 * l - f \in -50 .. 50
    BY <1>21, <1>26, <2>1
  <2>3. PICK q \in -50 .. 50 : 100 * l = f + q
    BY <2>2
  <2>4. 10000 * l = a1 + a2 + 100 * q
    BY <2>2, <2>3
  <2>5. PICK u \in Int : u = 100 * q
    OBVIOUS
  <2>6. -5000 <= u /\ u <= 5000
    BY <2>5
  <2>7. 10000 * tax = 10000 * l /\ A + B + u = a1 + a2 + u
    BY <2>1
  <2>8. 10000 * l = a1 + a2 + u
    BY <2>4, <2>5
  <2>9. 10000 * tax = A + B + u
    BY <2>7, <2>8
  <2> QED
    BY <2>5, <2>6, <2>9
<1>29. PICK v : v \in Int /\ -5000 <= v /\ v <= 5000 /\ 10000 * pension = C + D + v
  <2>1. PICK l \in Int, f \in Int, a1 \in Int, a2 \in Int : l = pension /\ f = G /\ a1 = C /\ a2 = D
    BY <1>22, <1>27
  <2>2. 100 * f = a1 + a2 /\ 100 * l - f \in -50 .. 50
    BY <1>22, <1>27, <2>1
  <2>3. PICK q \in -50 .. 50 : 100 * l = f + q
    BY <2>2
  <2>4. 10000 * l = a1 + a2 + 100 * q
    BY <2>2, <2>3
  <2>5. PICK v \in Int : v = 100 * q
    OBVIOUS
  <2>6. -5000 <= v /\ v <= 5000
    BY <2>5
  <2>7. 10000 * pension = 10000 * l /\ C + D + v = a1 + a2 + v
    BY <2>1
  <2>8. 10000 * l = a1 + a2 + v
    BY <2>4, <2>5
  <2>9. 10000 * pension = C + D + v
    BY <2>7, <2>8
  <2> QED
    BY <2>5, <2>6, <2>9
<1>30. PICK E, R : E = 100 * (ge - dce) /\ R = 10000 * (rr + dd)
  OBVIOUS
<1>31. E \in Int /\ R \in Int
  BY <1>8, <1>15, <1>30
<1>32. PICK N, T, P : N = 10000 * (g - dc) /\ T = 10000 * tax /\ P = 10000 * pension
  OBVIOUS
<1>33. N = E + B + D + w
  BY <1>14, <1>15, <1>21, <1>22, <1>24, <1>30, <1>32, GrossIs
<1>34. PICK net, exact : net = Sal!calculatePayrollForEmployee(e, a, d, up).net /\ exact = Sal!exactNet(e, a, d)
  OBVIOUS
<1>35. net = g - (dc + tax + pension + dd + rr)
  BY <1>1, <1>3, <1>7, <1>9, <1>12, <1>13, <1>25, <1>34 DEF Sal!calculatePayrollForEmployee
<1>36. exact = E - A - C - R
  BY <1>1, <1>3, <1>5, <1>7, <1>10, <1>12, <1>13, <1>16, <1>19, <1>20, <1>30, <1>34 DEF Sal!exactNet
<1>37. 10000 * net = N - T - P - R
  <2>1. 10000 * (g - (dc + tax + pension + dd + rr)) = N - T - P - R
    BY <1>8, <1>15, <1>26, <1>27, <1>30, <1>32, NetIs
  <2> QED
    BY <1>35, <2>1
<1>38. N - T - P - R - (E - A - C - R) = w - u - v
  <2>1. T = A + B + u /\ P = C + D + v
    BY <1>28, <1>29, <1>32
  <2> QED
    BY <1>21, <1>22, <1>24, <1>28, <1>29, <1>31, <1>33, <2>1, OffIs
<1>39. PICK error : error = w - u - v
  OBVIOUS
<1>40. error \in Int /\ -15000 <= error /\ error <= 15000
  BY <1>24, <1>28, <1>29, <1>39
<1>41. error = 10000 * net - exact
  BY <1>36, <1>37, <1>38, <1>39
<1> QED
  BY <1>34, <1>40, <1>41

LEMMA SalariesStart == ASSUME Sal!Init PROVE Sal!Inv
<1>1. Sal!noComponent \in Sal!Component
  BY DEF Sal!noComponent, Sal!Component, Sal!Types
<1>2. s2 \in [Employee -> Seq(Sal!Assignment)] /\ s3 \in [Employee -> Seq(Sal!Deduction)]
  BY DEF Sal!Init
<1>3. \A e \in Employee : DOMAIN s2[e] = {}
  BY DEF Sal!Init
<1> QED
  BY <1>1, <1>2, <1>3 DEF Sal!Init, Sal!Inv

LEMMA SalariesStill == ASSUME Sal!Inv, UNCHANGED <<s1, s2, s3, s4, s5>> PROVE Sal!Inv'
BY DEF Sal!Inv, Sal!canBegin, Sal!Component, Sal!Assignment, Sal!Deduction, Sal!Types, Sal!Day, Sal!Unset, Sal!Forever

LEMMA StructureChanged ==
    ASSUME Sal!Inv, s1' \in [Structure -> Sal!Component], UNCHANGED <<s2, s3, s4, s5>>
    PROVE  Sal!Inv'
BY DEF Sal!Inv, Sal!canBegin, Sal!Component, Sal!Assignment, Sal!Deduction, Sal!Types, Sal!Day, Sal!Unset, Sal!Forever

LEMMA DeductionsChanged ==
    ASSUME Sal!Inv, s3' \in [Employee -> Seq(Sal!Deduction)], UNCHANGED <<s1, s2, s4, s5>>
    PROVE  Sal!Inv'
BY DEF Sal!Inv, Sal!canBegin, Sal!Component, Sal!Assignment, Sal!Deduction, Sal!Types, Sal!Day, Sal!Unset, Sal!Forever

LEMMA StructuresStep ==
    ASSUME Sal!Inv,
           \/ \E s \in Structure, k \in Sal!Components : Sal!createSalaryStructure(s, k)
           \/ \E s \in Structure, type \in Sal!Types, v \in Value \cup {0} : Sal!updateDeduction(s, type, v)
    PROVE  Sal!Inv'
<1>1. s1 \in [Structure -> Sal!Component]
  BY DEF Sal!Inv
<1>2. ASSUME NEW s \in Structure, NEW k \in Sal!Components, Sal!createSalaryStructure(s, k) PROVE Sal!Inv'
  <2>1. k \in Sal!Component
    BY DEF Sal!Components, Sal!Component
  <2>2. s1' \in [Structure -> Sal!Component] /\ UNCHANGED <<s2, s3, s4, s5>>
    BY <1>1, <1>2, <2>1 DEF Sal!createSalaryStructure
  <2> QED
    BY <2>2, StructureChanged
<1>3. ASSUME NEW s \in Structure, NEW type \in Sal!Types, NEW v \in Value \cup {0},
             Sal!updateDeduction(s, type, v)
      PROVE  Sal!Inv'
  <2>1. s1[s] \in Sal!Component
    BY <1>1
  <2>2. PICK k : k = [s1[s] EXCEPT !.type = type]
    OBVIOUS
  <2>3. k \in Sal!Component
    BY <2>1, <2>2 DEF Sal!Component
  <2>4. PICK l : l = [k EXCEPT !.value = v]
    OBVIOUS
  <2>5. l \in Sal!Component
    BY <2>3, <2>4 DEF Sal!Component
  <2>6. s1' = [s1 EXCEPT ![s] = l]
    BY <1>1, <1>3, <2>2, <2>4 DEF Sal!updateDeduction
  <2>7. s1' \in [Structure -> Sal!Component] /\ UNCHANGED <<s2, s3, s4, s5>>
    BY <1>1, <1>3, <2>5, <2>6 DEF Sal!updateDeduction
  <2> QED
    BY <2>7, StructureChanged
<1> QED
  BY <1>2, <1>3

LEMMA DeductionsStep ==
    ASSUME Sal!Inv,
           \/ \E e \in Employee, amount \in Value, from \in Sal!Day, to \in Sal!Day \cup {Sal!Forever} :
                  Sal!addEmployeeDeduction(e, amount, from, to)
           \/ \E e \in Employee, i \in 1 .. MaxTaken : Sal!removeEmployeeDeduction(e, i)
           \/ \E e \in Employee, row \in Sal!Deduction :
                  \/ Sal!portalCreates(e, row)
                  \/ \E i \in 1 .. MaxTaken : Sal!portalUpdates(e, i, row)
    PROVE  Sal!Inv'
<1>1. s3 \in [Employee -> Seq(Sal!Deduction)]
  BY DEF Sal!Inv
<1>2. ASSUME NEW e \in Employee, NEW amount \in Value, NEW from \in Sal!Day,
             NEW to \in Sal!Day \cup {Sal!Forever}, Sal!addEmployeeDeduction(e, amount, from, to)
      PROVE  Sal!Inv'
  <2>1. PICK b \in BOOLEAN : b = TRUE
    OBVIOUS
  <2>2. PICK row : row = [amount |-> amount, from |-> from, to |-> to, active |-> b]
    OBVIOUS
  <2>3. row \in Sal!Deduction
    BY <2>2 DEF Sal!Deduction
  <2>4. s3' = [s3 EXCEPT ![e] = Append(s3[e], row)] /\ UNCHANGED <<s1, s2, s4, s5>>
    BY <1>1, <1>2, <2>1, <2>2 DEF Sal!addEmployeeDeduction
  <2>5. Append(s3[e], row) \in Seq(Sal!Deduction)
    BY <1>1, <2>3
  <2> QED
    BY <1>1, <2>4, <2>5, DeductionsChanged
<1>3. ASSUME NEW e \in Employee, NEW i \in 1 .. MaxTaken, Sal!removeEmployeeDeduction(e, i) PROVE Sal!Inv'
  <2>1. s3[e] \in Seq(Sal!Deduction) /\ i \in DOMAIN s3[e]
    BY <1>1, <1>3 DEF Sal!removeEmployeeDeduction
  <2>2. PICK b \in BOOLEAN : b = FALSE
    OBVIOUS
  <2>3. PICK row : row = [s3[e][i] EXCEPT !.active = b]
    OBVIOUS
  <2>4. row \in Sal!Deduction
    <3>1. s3[e][i] \in Sal!Deduction
      BY <2>1
    <3> QED
      BY <2>3, <3>1 DEF Sal!Deduction
  <2>5. s3' = [s3 EXCEPT ![e] = [s3[e] EXCEPT ![i] = row]] /\ UNCHANGED <<s1, s2, s4, s5>>
    BY <1>1, <1>3, <2>2, <2>3 DEF Sal!removeEmployeeDeduction
  <2>6. [s3[e] EXCEPT ![i] = row] \in Seq(Sal!Deduction)
    BY <2>1, <2>4
  <2> QED
    BY <1>1, <2>5, <2>6, DeductionsChanged
<1>4. ASSUME NEW e \in Employee, NEW row \in Sal!Deduction, Sal!portalCreates(e, row) PROVE Sal!Inv'
  <2>1. s3' = [s3 EXCEPT ![e] = Append(s3[e], row)] /\ UNCHANGED <<s1, s2, s4, s5>>
    BY <1>1, <1>4 DEF Sal!portalCreates
  <2>2. Append(s3[e], row) \in Seq(Sal!Deduction)
    BY <1>1
  <2> QED
    BY <1>1, <2>1, <2>2, DeductionsChanged
<1>5. ASSUME NEW e \in Employee, NEW row \in Sal!Deduction, NEW i \in 1 .. MaxTaken,
             Sal!portalUpdates(e, i, row)
      PROVE  Sal!Inv'
  <2>1. s3[e] \in Seq(Sal!Deduction) /\ i \in DOMAIN s3[e]
    BY <1>1, <1>5 DEF Sal!portalUpdates
  <2>2. s3' = [s3 EXCEPT ![e] = [s3[e] EXCEPT ![i] = row]] /\ UNCHANGED <<s1, s2, s4, s5>>
    BY <1>1, <1>5 DEF Sal!portalUpdates
  <2>3. [s3[e] EXCEPT ![i] = row] \in Seq(Sal!Deduction)
    BY <2>1
  <2> QED
    BY <1>1, <2>2, <2>3, DeductionsChanged
<1> QED
  BY <1>2, <1>3, <1>4, <1>5

\* The salary in force on the first day of a new one is the only one that began on it.
LEMMA OneBegan ==
    ASSUME Sal!Inv, NEW e \in Employee, NEW f \in Sal!Day, NEW j \in DOMAIN s2[e], Sal!canBegin(s2[e][j], f)
    PROVE  Sal!findActiveSalaryAssignment(e, f) = j
<1>1. /\ s2[e] \in Seq(Sal!Assignment) /\ DOMAIN s2[e] \subseteq Nat /\ f \in Nat /\ f > 0
      /\ \A i \in DOMAIN s2[e] : s2[e][i].from \in Nat
  <2>1. s2[e] \in Seq(Sal!Assignment) /\ f \in Nat /\ f > 0
    <3>1. s2[e] \in Seq(Sal!Assignment)
      BY DEF Sal!Inv
    <3>2. f \in Nat /\ f > 0
      BY SalaryNumbers DEF Sal!Day
    <3> QED
      BY <3>1, <3>2
  <2>2. \A i \in DOMAIN s2[e] : s2[e][i] \in Sal!Assignment
    BY <2>1
  <2>3. \A i \in DOMAIN s2[e] : s2[e][i].from \in Nat
    BY <2>2, SalaryNumbers DEF Sal!Assignment, Sal!Day, Sal!Unset
  <2> QED
    BY <2>1, <2>3
<1>2. PICK began : began = {i \in Sal!activeSalaries(e, f) :
                      \A k \in Sal!activeSalaries(e, f) : s2[e][k].from <= s2[e][i].from}
  OBVIOUS
<1>3. \A i \in Sal!activeSalaries(e, f) : i \in DOMAIN s2[e] /\ s2[e][i].from <= f
  BY DEF Sal!activeSalaries, Sal!inForce
<1>4. j \in Sal!activeSalaries(e, f)
  BY <1>1 DEF Sal!activeSalaries, Sal!inForce, Sal!canBegin
<1>5. j \in began
  BY <1>2, <1>3, <1>4 DEF Sal!canBegin
<1>6. ASSUME NEW i \in began PROVE i = j
  <2>1. i \in Sal!activeSalaries(e, f) /\ s2[e][j].from <= s2[e][i].from
    BY <1>2, <1>4
  <2>2. i \in DOMAIN s2[e] /\ s2[e][i].from = f
    BY <1>1, <1>3, <2>1 DEF Sal!canBegin
  <2>3. Sal!canBegin(s2[e][i], f)
    BY <2>1, <2>2 DEF Sal!canBegin, Sal!activeSalaries, Sal!inForce
  <2> QED
    BY <2>2, <2>3 DEF Sal!Inv
<1>7. Sal!Min(began) = j
  <2>1. \A y \in began : j <= y
    BY <1>1, <1>6
  <2> QED
    BY <1>5, <1>6, <2>1 DEF Sal!Min
<1> QED
  BY <1>2, <1>5, <1>7 DEF Sal!findActiveSalaryAssignment

LEMMA SalaryAssigned ==
    ASSUME Sal!Inv, NEW e \in Employee, NEW s \in Structure, NEW base \in Base,
           NEW from \in Sal!Day \cup {Sal!Unset}, NEW to \in Sal!Day \cup {Sal!Forever},
           Sal!assignEmployeeSalary(e, s, base, from, to)
    PROVE  Sal!Inv'
<1>1. /\ s2 \in [Employee -> Seq(Sal!Assignment)] /\ s2[e] \in Seq(Sal!Assignment)
      /\ \A j \in DOMAIN s2[e] : s2[e][j] \in Sal!Assignment
  <2>1. s2 \in [Employee -> Seq(Sal!Assignment)]
    BY DEF Sal!Inv
  <2> QED
    BY <2>1
<1>2. PICK end : end = IF from = Sal!Unset THEN Sal!Forever ELSE from
  OBVIOUS
<1>3. end \in Sal!Day \cup {Sal!Forever}
  BY <1>2
<1>4. PICK i : i = Sal!findActiveSalaryAssignment(e, end)
  OBVIOUS
<1>5. PICK yes \in BOOLEAN, no \in BOOLEAN : yes = TRUE /\ no = FALSE
  OBVIOUS
<1>6. PICK row : row = [structure |-> s, base |-> base, from |-> from, to |-> to, active |-> yes]
  OBVIOUS
<1>7. row \in Sal!Assignment /\ row.from = from
  BY <1>6 DEF Sal!Assignment
<1>8. PICK kept : kept = IF i = 0 THEN s2[e]
                         ELSE [s2[e] EXCEPT ![i].active = no, ![i].to = end]
  OBVIOUS
<1>9. s2' = [s2 EXCEPT ![e] = Append(kept, row)] /\ UNCHANGED <<s1, s3, s4, s5>>
  BY <1>1, <1>2, <1>4, <1>5, <1>6, <1>8 DEF Sal!assignEmployeeSalary
<1>10. /\ kept \in Seq(Sal!Assignment) /\ DOMAIN kept = DOMAIN s2[e] /\ Len(kept) = Len(s2[e])
       /\ \A j \in DOMAIN kept : j # i => kept[j] = s2[e][j]
       /\ i \in DOMAIN kept => i = 0 \/ kept[i].active = FALSE
  <2>1. CASE i = 0 \/ i \notin DOMAIN s2[e]
    <3>1. kept = s2[e]
      BY <1>1, <1>8, <2>1
    <3> QED
      BY <1>1, <2>1, <3>1
  <2>2. CASE i # 0 /\ i \in DOMAIN s2[e]
    <3>1. PICK half : half = [s2[e][i] EXCEPT !.active = no]
      OBVIOUS
    <3>2. half \in Sal!Assignment /\ half.active = no
      BY <1>1, <2>2, <3>1 DEF Sal!Assignment
    <3>3. PICK ended : ended = [half EXCEPT !.to = end]
      OBVIOUS
    <3>4. ended \in Sal!Assignment /\ ended.active = no
      BY <1>3, <3>2, <3>3 DEF Sal!Assignment
    <3>5. kept = [s2[e] EXCEPT ![i] = ended]
      BY <1>1, <1>8, <2>2, <3>1, <3>3
    <3> QED
      BY <1>1, <1>5, <2>2, <3>4, <3>5
  <2> QED
    BY <2>1, <2>2
<1>11. ASSUME NEW f \in Sal!Day, NEW j \in DOMAIN kept, Sal!canBegin(kept[j], f)
       PROVE  Sal!canBegin(s2[e][j], f) /\ f # from
  <2>1. j \in DOMAIN s2[e] /\ DOMAIN s2[e] \subseteq Nat \ {0}
    BY <1>1, <1>10
  <2>2. j # i
    BY <1>10, <1>11, <2>1 DEF Sal!canBegin
  <2>3. Sal!canBegin(s2[e][j], f)
    BY <1>10, <1>11, <2>2
  <2>4. f # Sal!Unset
    BY SalaryNumbers DEF Sal!Day, Sal!Unset
  <2>5. Sal!findActiveSalaryAssignment(e, f) = j
    BY <2>1, <2>3, OneBegan
  <2> QED
    BY <1>2, <1>4, <2>2, <2>3, <2>4, <2>5
<1>12. PICK n \in Nat : n = Len(kept) /\ DOMAIN kept = 1 .. n
  BY <1>10
<1>13. PICK all : all = Append(kept, row)
  OBVIOUS
<1>14. /\ all \in Seq(Sal!Assignment) /\ DOMAIN all = 1 .. (n + 1)
       /\ all[n + 1] = row /\ \A j \in DOMAIN kept : all[j] = kept[j]
  BY <1>7, <1>10, <1>12, <1>13
<1>15. ASSUME NEW f \in Sal!Day, NEW j \in DOMAIN all, NEW k \in DOMAIN all,
              Sal!canBegin(all[j], f), Sal!canBegin(all[k], f)
       PROVE  j = k
  <2>1. \A x \in DOMAIN all : x = n + 1 \/ x \in DOMAIN kept
    BY <1>12, <1>14
  <2>2. \A x \in DOMAIN kept : Sal!canBegin(all[x], f) => Sal!canBegin(s2[e][x], f) /\ f # from
    BY <1>11, <1>14
  <2>3. Sal!canBegin(all[n + 1], f) => f = from
    BY <1>7, <1>14 DEF Sal!canBegin
  <2>4. CASE j \in DOMAIN kept /\ k \in DOMAIN kept
    BY <1>10, <1>15, <2>2, <2>4 DEF Sal!Inv
  <2> QED
    BY <1>15, <2>1, <2>2, <2>3, <2>4
<1>16. s2' = [s2 EXCEPT ![e] = all]
  BY <1>9, <1>13
<1>17. s2' \in [Employee -> Seq(Sal!Assignment)]
  BY <1>1, <1>14, <1>16
<1>18. \A o \in Employee, f \in Sal!Day : \A j, k \in DOMAIN s2'[o] :
          Sal!canBegin(s2'[o][j], f) /\ Sal!canBegin(s2'[o][k], f) => j = k
  <2>1. TAKE o \in Employee, f \in Sal!Day
  <2>2. CASE o = e
    BY <1>1, <1>15, <1>16, <2>2
  <2>3. CASE o # e
    <3>1. s2'[o] = s2[o]
      BY <1>1, <1>16, <2>3
    <3> QED
      BY <3>1 DEF Sal!Inv
  <2> QED
    BY <2>2, <2>3
<1> QED
  BY <1>9, <1>17, <1>18 DEF Sal!Inv, Sal!canBegin, Sal!Component, Sal!Assignment, Sal!Deduction, Sal!Types,
     Sal!Day, Sal!Unset, Sal!Forever

LEMMA SalariesStep == ASSUME Sal!Inv, Sal!Next PROVE Sal!Inv'
<1>1. ASSUME NEW d \in Sal!Day, NEW up \in BOOLEAN, Sal!createPayrollRun(d, up) PROVE Sal!Inv'
  BY <1>1, SalariesStill DEF Sal!createPayrollRun
<1> QED
  BY <1>1, StructuresStep, DeductionsStep, SalaryAssigned DEF Sal!Next

\* An employee is paid from one salary, to half a cent a line: for any structures, salaries,
\* deductions and rates.
LEMMA SalariesPaid == ASSUME Sal!Inv PROVE Sal!PaidFromOneSalary
<1>1. ASSUME NEW e \in Employee, NEW d \in Sal!Day,
             NEW i \in Sal!activeSalaries(e, d), NEW j \in Sal!activeSalaries(e, d),
             i # j, s2[e][i].from = s2[e][j].from
      PROVE  s2[e][i].from = Sal!Unset
  <2>1. SUFFICES ASSUME s2[e][i].from # Sal!Unset PROVE FALSE
    OBVIOUS
  <2>2. i \in DOMAIN s2[e] /\ j \in DOMAIN s2[e]
    BY DEF Sal!activeSalaries
  <2>3. s2[e][i] \in Sal!Assignment /\ s2[e][j] \in Sal!Assignment
    BY <2>2 DEF Sal!Inv
  <2>4. PICK f \in Sal!Day : s2[e][i].from = f /\ s2[e][j].from = f
    BY <1>1, <2>1, <2>3 DEF Sal!Assignment
  <2>5. Sal!canBegin(s2[e][i], f) /\ Sal!canBegin(s2[e][j], f)
    <3>1. \A r \in Sal!Assignment : r.from = f /\ Sal!inForce(r, d) => Sal!canBegin(r, f)
      BY SalaryNumbers DEF Sal!Assignment, Sal!inForce, Sal!canBegin, Sal!Day, Sal!Forever
    <3> QED
      BY <2>3, <2>4, <3>1 DEF Sal!activeSalaries
  <2> QED
    BY <1>1, <2>2, <2>5 DEF Sal!Inv
<1>2. ASSUME NEW e \in Employee, NEW d \in Sal!Day, NEW i \in Sal!activeSalaries(e, d), NEW up \in BOOLEAN
      PROVE  \E error \in Int :
                 /\ error = 10000 * Sal!calculatePayrollForEmployee(e, s2[e][i], d, up).net
                            - Sal!exactNet(e, s2[e][i], d)
                 /\ -15000 <= error /\ error <= 15000
  <2>1. i \in DOMAIN s2[e] /\ s2[e] \in Seq(Sal!Assignment)
    BY DEF Sal!activeSalaries, Sal!Inv
  <2>2. s2[e][i] \in Sal!Assignment
    BY <2>1
  <2> QED
    BY <2>2, OffByRounding
<1> QED
  BY <1>1, <1>2 DEF Sal!PaidFromOneSalary

---------------------------------------------------------------------------
\* Pay is what was decided: an employee is paid from one salary in force, off by rounding
\* alone, and a promotion or a raise is applied once and reported as what became of it: for
\* any salaries, deductions, rates, days, requests and employees.
THEOREM PaidAsDecided == WorkflowsSpec => []PayIsAsDecided
<1> DEFINE I == /\ part = "salaries" => Sal!Inv
                /\ part = "careers" => Car!Inv
<1>1. WorkflowsInit => I
  BY SalariesStart, CareersStart DEF WorkflowsInit
<1>2. ASSUME WorkflowsNext
      PROVE  /\ part' = part
             /\ part = "salaries" => Sal!Next
             /\ part = "careers" => Car!Next
  BY <1>2 DEF WorkflowsNext, paymentsRest
<1>3. I /\ WorkflowsNext => I'
  BY <1>2, SalariesStep, CareersStep
<1>4. I /\ [WorkflowsNext]_<<part, s1, s2, s3, s4, s5, s6, s7, vars>> => I'
  BY <1>3, SalariesStill, CareersStill
<1>5. I => PayIsAsDecided
  BY SalariesPaid, CareersApplied DEF PayIsAsDecided
<1> QED
  BY <1>1, <1>4, <1>5, PTL DEF WorkflowsSpec

---------------------------------------------------------------------------
(* Sign-ins: sessions.                                                     *)

LEMMA SessionsStart == ASSUME Acc!Init PROVE Acc!Inv
BY DEF Acc!Init, Acc!Inv

LEMMA SessionsStill == ASSUME Acc!Inv, UNCHANGED <<s3, s4, s5>> PROVE Acc!Inv'
BY DEF Acc!Inv

LEMMA SessionsFewer == ASSUME Acc!Inv, s4' \subseteq s4, UNCHANGED <<s3, s5>> PROVE Acc!Inv'
BY DEF Acc!Inv

\* The sessions that are kept are the newest, as many as the limit says, and with them the
\* one that was opened last.
LEMMA NewestKept ==
    ASSUME NEW S, NEW n \in Nat, S \subseteq 1 .. n, s3 \in Nat \ {0}
    PROVE  /\ Acc!enforceSessionPolicy(S) \subseteq S
           /\ Acc!Cardinality(Acc!enforceSessionPolicy(S)) <= s3
           /\ n \in S => n \in Acc!enforceSessionPolicy(S)
<1>1. \A T : Acc!Cardinality(T) = Cardinality(T)
  BY DEF Acc!Cardinality, Cardinality
<1>2. IsFiniteSet(S)
  <2>1. IsFiniteSet(1 .. n)
    BY FS_Interval
  <2> QED
    BY <2>1, FS_Subset
<1>3. PICK K : K = Acc!enforceSessionPolicy(S)
  OBVIOUS
<1>4. K = {k \in S : Cardinality(Acc!newer(S, k)) < s3}
  BY <1>1, <1>3 DEF Acc!enforceSessionPolicy
<1>5. K \subseteq Nat
  <2>1. K \subseteq S /\ S \subseteq Nat
    BY <1>4
  <2> QED
    BY <2>1
<1>6. Cardinality(K) <= s3
  <2>1. CASE K = {}
    BY <2>1, FS_EmptySet
  <2>2. CASE K # {}
    <3>1. PICK m \in K : \A k \in K : m <= k
      BY <1>5, <2>2, LeastNatural
    <3>2. K \ {m} \subseteq Acc!newer(S, m)
      <4>1. \A k \in K \ {m} : k \in S /\ k > m
        BY <1>5, <1>4, <3>1
      <4> QED
        BY <4>1 DEF Acc!newer
    <3>3. IsFiniteSet(Acc!newer(S, m)) /\ IsFiniteSet(K)
      <4>1. Acc!newer(S, m) \subseteq S /\ K \subseteq S
        BY <1>4 DEF Acc!newer
      <4> QED
        BY <1>2, <4>1, FS_Subset
    <3>4. Cardinality(K \ {m}) <= Cardinality(Acc!newer(S, m)) /\ Cardinality(Acc!newer(S, m)) \in Nat
      BY <3>2, <3>3, FS_Subset, FS_CardinalityType
    <3>5. Cardinality(K \ {m}) = Cardinality(K) - 1 /\ Cardinality(K) \in Nat
      BY <3>1, <3>3, FS_RemoveElement, FS_CardinalityType
    <3>6. Cardinality(Acc!newer(S, m)) < s3
      BY <1>4, <3>1
    <3> QED
      BY <3>4, <3>5, <3>6
  <2> QED
    BY <2>1, <2>2
<1>7. ASSUME n \in S PROVE n \in K
  <2>1. Acc!newer(S, n) = {}
    <3>1. \A k \in S : ~(k > n)
      OBVIOUS
    <3> QED
      BY <3>1 DEF Acc!newer
  <2>2. Cardinality(Acc!newer(S, n)) = 0
    BY <2>1, FS_EmptySet
  <2> QED
    BY <1>4, <1>7, <2>2
<1> QED
  BY <1>1, <1>3, <1>4, <1>6, <1>7

LEMMA SessionOpened ==
    ASSUME Acc!Inv, NEW h, NEW left \in SUBSET s4, Acc!issueAuthResponse(h, left)
    PROVE  Acc!Inv' /\ Acc!SessionLimitKept
<1>1. s5 \in Nat /\ left \subseteq 1 .. s5 /\ s3 \in Nat \ {0} /\ s3 \in Limits
  BY WorkflowsAssumption DEF Acc!AccountsConstants, Acc!Inv
<1>2. s5' = s5 + 1 /\ s3' = s3 /\ s4' = Acc!enforceSessionPolicy(left \cup {s5 + 1})
  BY DEF Acc!issueAuthResponse, Acc!createSession
<1>3. PICK S : S = left \cup {s5 + 1}
  OBVIOUS
<1>4. s5 + 1 \in Nat /\ S \subseteq 1 .. (s5 + 1) /\ s5 + 1 \in S
  BY <1>1, <1>3
<1>5. /\ Acc!enforceSessionPolicy(S) \subseteq S
      /\ Acc!Cardinality(Acc!enforceSessionPolicy(S)) <= s3
      /\ s5 + 1 \in Acc!enforceSessionPolicy(S)
  BY <1>1, <1>4, NewestKept
<1>6. s4' = Acc!enforceSessionPolicy(S)
  BY <1>2, <1>3
<1>7. Acc!Inv'
  BY <1>1, <1>2, <1>4, <1>5, <1>6 DEF Acc!Inv
<1>8. s5' \in s4' /\ Acc!Cardinality(s4') <= s3
  BY <1>2, <1>5, <1>6
<1> QED
  BY <1>7, <1>8 DEF Acc!SessionLimitKept

LEMMA SessionsStep == ASSUME Acc!Inv, Acc!Next PROVE Acc!Inv' /\ Acc!SessionLimitKept
<1>1. ASSUME UNCHANGED s5, Acc!Inv' PROVE Acc!Inv' /\ Acc!SessionLimitKept
  BY <1>1 DEF Acc!SessionLimitKept
<1>2. ASSUME NEW h \in Call, Acc!SessionRequest(h) PROVE Acc!Inv' /\ Acc!SessionLimitKept
  <2>1. CASE Acc!signIn(h)
    BY <2>1, SessionOpened DEF Acc!signIn
  <2>2. CASE Acc!refresh(h)
    <3>1. Acc!revokeSession(s6[h].session) \in SUBSET s4
      BY DEF Acc!revokeSession
    <3>2. CASE s6[h].seen.status = "active"
      BY <2>2, <3>1, <3>2, SessionOpened DEF Acc!refresh
    <3>3. CASE s6[h].seen.status # "active"
      BY <1>1, <2>2, <3>3, SessionsStill DEF Acc!refresh
    <3> QED
      BY <3>2, <3>3
  <2>3. CASE ~Acc!signIn(h) /\ ~Acc!refresh(h)
    <3>1. UNCHANGED <<s3, s4, s5>>
      BY <1>2, <2>3 DEF Acc!SessionRequest, Acc!begin, Acc!unlockExpired, Acc!readAgain, Acc!refuse,
         Acc!wrongPassword, Acc!rightPassword
    <3> QED
      BY <1>1, <3>1, SessionsStill
  <2> QED
    BY <2>1, <2>2, <2>3
<1>3. ASSUME NEW h \in Call, Acc!AccountRequest(h) PROVE Acc!Inv' /\ Acc!SessionLimitKept
  <2>1. s4' \subseteq s4 /\ UNCHANGED <<s3, s5>>
    BY <1>3 DEF Acc!AccountRequest, Acc!write, Acc!finish
  <2> QED
    BY <1>1, <2>1, SessionsFewer
<1>4. ASSUME (\E n \in 1 .. s5 : Acc!closeSession(n)) \/ Acc!revokeUserSessions
      PROVE  Acc!Inv' /\ Acc!SessionLimitKept
  <2>1. s4' \subseteq s4 /\ UNCHANGED <<s3, s5>>
    BY <1>4 DEF Acc!closeSession, Acc!revokeSession, Acc!revokeUserSessions
  <2> QED
    BY <1>1, <2>1, SessionsFewer
<1>5. ASSUME NEW n \in Limits, Acc!updateSessionPolicy(n) PROVE Acc!Inv' /\ Acc!SessionLimitKept
  BY <1>1, <1>5 DEF Acc!updateSessionPolicy, Acc!Inv
<1>6. ASSUME Acc!unlockAccount \/ Acc!lockoutPasses \/ Acc!restart PROVE Acc!Inv' /\ Acc!SessionLimitKept
  BY <1>1, <1>6, SessionsStill DEF Acc!unlockAccount, Acc!lockoutPasses, Acc!restart
<1> QED
  BY <1>2, <1>3, <1>4, <1>5, <1>6 DEF Acc!Next

---------------------------------------------------------------------------
(* Sign-ins: the second factor.                                            *)

LEMMA SecondFactorStart == ASSUME Sec!Init PROVE Sec!Inv
<1>1. PICK b \in BOOLEAN : b = FALSE
  OBVIOUS
<1>2. Sec!noSecurity \in Sec!Security /\ Sec!noSecurity.enabled = FALSE /\ Sec!noSecurity.otp = 0
  BY DEF Sec!noSecurity, Sec!Security
<1>3. Sec!idle \in Sec!Handling /\ Sec!idle.at = "idle"
  BY <1>2 DEF Sec!idle, Sec!Handling
<1>4. s1.db = Sec!noSecurity /\ s1 \in [db : Sec!Security, file : Sec!Security]
  BY <1>2 DEF Sec!Init
<1>5. s2 \in [Call -> Sec!Handling] /\ \A c \in Call : s2[c].at = "idle"
  BY <1>3 DEF Sec!Init
<1>6. Sec!Orderly
  BY <1>2, <1>4, <1>5 DEF Sec!Init, Sec!Orderly, Sec!onProfile, Sec!waits, Sec!newest
<1>7. /\ s3 \in Nat /\ s4 \in {"on", "off"} /\ s5 \in BOOLEAN
      /\ s6 \in [Challenge -> {"none", "pending", "verified", "expired"}]
      /\ s7 \in [Challenge -> {0, 1}] /\ \A h \in Challenge : s7[h] = 0
  BY DEF Sec!Init
<1> QED
  BY <1>4, <1>5, <1>6, <1>7 DEF Sec!Inv, Sec!waits

LEMMA SecondFactorStill == ASSUME Sec!Inv, UNCHANGED <<s1, s2, s3, s4, s5, s6, s7>> PROVE Sec!Inv'
BY DEF Sec!Inv, Sec!Orderly, Sec!toWrite, Sec!newest, Sec!waits, Sec!onProfile, Sec!Security, Sec!Handling

\* What a step of the profile keeps that changes what one handler does.
LEMMA HandlerMoved ==
    ASSUME Sec!Inv, NEW c \in Call, NEW k \in Sec!Handling,
           s2' = [s2 EXCEPT ![c] = k], k.at # "signing",
           k.at = "verifying" => k.asks = "on", k.at = "reading" => k.asks = "same",
           s1' \in [db : Sec!Security, file : Sec!Security], s3' \in Nat,
           s4' \in {"on", "off"}, s5' \in BOOLEAN, UNCHANGED <<s6, s7>>,
           ~s5' => Sec!Orderly'
    PROVE  Sec!Inv'
<1>1. s2' \in [Call -> Sec!Handling]
  BY DEF Sec!Inv
<1>2. s2'[c] = k /\ \A d \in Call \ {c} : s2'[d] = s2[d]
  BY DEF Sec!Inv
<1>3. ASSUME NEW d \in Call
      PROVE  /\ s2'[d].at = "verifying" => s2'[d].asks = "on"
             /\ s2'[d].at = "reading" => s2'[d].asks = "same"
             /\ s2'[d].at = "signing" => /\ s2'[d].of \in Challenge /\ s6[s2'[d].of] = "verified"
                                         /\ s7[s2'[d].of] = 0
  <2>1. CASE d = c
    BY <1>2, <2>1
  <2>2. CASE d # c
    BY <1>2, <2>2 DEF Sec!Inv, Sec!waits
  <2> QED
    BY <2>1, <2>2
<1>4. ASSUME NEW d \in Call, NEW e \in Call, s2'[d].at = "signing", s2'[e].at = "signing",
             s2'[d].of = s2'[e].of
      PROVE  d = e
  BY <1>2, <1>4 DEF Sec!Inv, Sec!waits
<1>5. /\ s6' \in [Challenge -> {"none", "pending", "verified", "expired"}] /\ s7' \in [Challenge -> {0, 1}]
      /\ \A h \in Challenge : s7'[h] = 1 => s6'[h] = "verified"
  BY DEF Sec!Inv
<1> QED
  BY <1>1, <1>3, <1>4, <1>5 DEF Sec!Inv, Sec!waits

\* A request of the profile begins: alone, or what follows is muddled.
LEMMA RequestBegins ==
    ASSUME Sec!Inv, NEW c \in Call, NEW at \in {"reading", "verifying", "writing"}, NEW r \in Sec!Security,
           NEW q \in {"on", "off", "same"}, Sec!begins(c, at, r, q), UNCHANGED <<s1, s4, s6, s7>>,
           at = "verifying" => q = "on", at = "reading" => q = "same",
           s3' \in Nat, s3' # s3 => at = "writing" /\ r.codes = s3',
           at = "writing" => q = "off" /\ ~r.enabled /\ (r.otp # 0 => r.codes = s3')
    PROVE  Sec!Inv'
<1>1. PICK k : k = [at |-> at, row |-> r, asks |-> q, of |-> "none"]
  OBVIOUS
<1>2. k \in Sec!Handling /\ k.at = at /\ k.row = r /\ k.asks = q
  BY <1>1 DEF Sec!Handling
<1>3. s2' = [s2 EXCEPT ![c] = k]
  BY <1>1 DEF Sec!begins
<1>4. s5' = (s5 \/ \E d \in Call \ {c} : Sec!onProfile(d))
  BY DEF Sec!begins
<1>5. s5 \in BOOLEAN
  BY DEF Sec!Inv
<1>6. s5' \in BOOLEAN
  BY <1>4, <1>5
<1>7. ASSUME ~s5' PROVE Sec!Orderly'
  <2>1. Sec!Orderly /\ \A d \in Call \ {c} : s2[d].at \notin {"reading", "verifying", "writing"}
    BY <1>4, <1>7 DEF Sec!Inv, Sec!onProfile
  <2>2. s2'[c] = k /\ \A d \in Call \ {c} : s2'[d] = s2[d]
    BY <1>3 DEF Sec!Inv
  <2>3. s2[c].at = "idle"
    BY DEF Sec!begins, Sec!waits
  <2>4. Sec!newest(s1.db)
    BY <2>1, <2>3 DEF Sec!Orderly, Sec!waits
  <2>5. \A d, e \in Call : Sec!onProfile(d)' /\ Sec!onProfile(e)' => d = e
    BY <2>1, <2>2 DEF Sec!onProfile
  <2>6. s1'.db.enabled = (s4' = "on") /\ (s1'.db.enabled => s1'.db.otp = 0)
    BY <2>1 DEF Sec!Orderly
  <2>7. Sec!newest(s1.db)' \/ \E d \in Call : s2'[d].at = "writing" /\ s2'[d].row.codes = s3'
    <3>1. CASE s3' = s3
      BY <2>4, <3>1 DEF Sec!newest
    <3>2. CASE s3' # s3
      BY <1>2, <2>2, <3>2
    <3> QED
      BY <3>1, <3>2
  <2>8. \A d \in Call : s2'[d].at = "writing" => Sec!toWrite(s2[d])'
    <3>1. ASSUME NEW d \in Call, s2'[d].at = "writing" PROVE d = c
      BY <2>1, <2>2, <3>1
    <3>2. CASE at = "writing"
      <4>1. Sec!toWrite(s2[c])'
        BY <1>2, <2>2, <3>2 DEF Sec!toWrite, Sec!newest
      <4> QED
        BY <3>1, <4>1
    <3>3. CASE at # "writing"
      BY <1>2, <2>2, <3>1, <3>3
    <3> QED
      BY <3>2, <3>3
  <2> QED
    BY <2>5, <2>6, <2>7, <2>8 DEF Sec!Orderly, Sec!waits
<1>8. s1' \in [db : Sec!Security, file : Sec!Security] /\ s4' \in {"on", "off"}
  BY DEF Sec!Inv
<1> QED
  BY <1>2, <1>3, <1>6, <1>7, <1>8, HandlerMoved

\* What a handler that read the row is to write.
LEMMA RowDecided ==
    ASSUME Sec!Inv, NEW c \in Call, Sec!onProfile(c), s2[c].at # "writing", NEW r \in Sec!Security, s3' \in Nat,
           s2' = [s2 EXCEPT ![c].at = "writing", ![c].row = r],
           s5' = s5 \/ s5' = TRUE, UNCHANGED <<s1, s4, s6, s7>>,
           s3' # s3 => r.codes = s3',
           ~s5' => /\ r.enabled \/ r.otp # 0 => r.codes = s3'
                   /\ s2[c].asks = "on" => r.enabled /\ r.otp = 0
                   /\ s2[c].asks = "same" => r.enabled = s1.db.enabled /\ r.otp = 0
                   /\ s2[c].asks # "off"
    PROVE  Sec!Inv'
<1>1. s2[c] \in Sec!Handling
  BY DEF Sec!Inv
<1>2. PICK j : j = [s2[c] EXCEPT !.at = "writing"]
  OBVIOUS
<1>3. j \in Sec!Handling /\ j.at = "writing" /\ j.asks = s2[c].asks
  BY <1>1, <1>2 DEF Sec!Handling
<1>4. PICK k : k = [j EXCEPT !.row = r]
  OBVIOUS
<1>5. k \in Sec!Handling /\ k.at = "writing" /\ k.row = r /\ k.asks = s2[c].asks
  BY <1>3, <1>4 DEF Sec!Handling
<1>6. s2' = [s2 EXCEPT ![c] = k]
  BY <1>2, <1>4 DEF Sec!Inv
<1>7. s5' \in BOOLEAN /\ (~s5' => ~s5)
  BY DEF Sec!Inv
<1>8. ASSUME ~s5' PROVE Sec!Orderly'
  <2>1. Sec!Orderly
    BY <1>7, <1>8 DEF Sec!Inv
  <2>2. \A d \in Call : Sec!onProfile(d) => d = c
    BY <2>1 DEF Sec!Orderly
  <2>3. s2'[c] = k /\ \A d \in Call \ {c} : s2'[d] = s2[d]
    BY <1>6 DEF Sec!Inv
  <2>4. Sec!newest(s1.db)
    BY <2>1, <2>2 DEF Sec!Orderly, Sec!waits, Sec!onProfile
  <2>5. \A d, e \in Call : Sec!onProfile(d)' /\ Sec!onProfile(e)' => d = e
    BY <2>2, <2>3 DEF Sec!onProfile
  <2>6. s1'.db.enabled = (s4' = "on") /\ (s1'.db.enabled => s1'.db.otp = 0)
    BY <2>1 DEF Sec!Orderly
  <2>7. Sec!newest(s1.db)' \/ \E d \in Call : s2'[d].at = "writing" /\ s2'[d].row.codes = s3'
    <3>1. CASE s3' = s3
      BY <2>4, <3>1 DEF Sec!newest
    <3>2. CASE s3' # s3
      BY <1>5, <2>3, <3>2
    <3> QED
      BY <3>1, <3>2
  <2>8. \A d \in Call : s2'[d].at = "writing" => Sec!toWrite(s2[d])'
    <3>1. ASSUME NEW d \in Call, s2'[d].at = "writing" PROVE d = c
      BY <2>2, <2>3, <3>1 DEF Sec!onProfile
    <3>2. Sec!toWrite(s2[c])'
      BY <1>5, <1>8, <2>3 DEF Sec!toWrite, Sec!newest
    <3> QED
      BY <3>1, <3>2
  <2> QED
    BY <2>5, <2>6, <2>7, <2>8 DEF Sec!Orderly, Sec!waits
<1>9. s1' \in [db : Sec!Security, file : Sec!Security] /\ s4' \in {"on", "off"}
  BY DEF Sec!Inv
<1> QED
  BY <1>5, <1>6, <1>7, <1>8, <1>9, HandlerMoved

\* A handler of the profile ends, and has written nothing.
LEMMA NothingWritten ==
    ASSUME Sec!Inv, NEW c \in Call, Sec!onProfile(c), s2[c].at # "writing", s2' = [s2 EXCEPT ![c] = Sec!idle],
           s5' = s5 \/ s5' = TRUE, UNCHANGED <<s1, s3, s4, s6, s7>>
    PROVE  Sec!Inv'
<1>1. Sec!idle \in Sec!Handling /\ Sec!idle.at = "idle"
  <2>1. PICK b \in BOOLEAN : b = FALSE
    OBVIOUS
  <2>2. Sec!noSecurity \in Sec!Security
    BY DEF Sec!noSecurity, Sec!Security
  <2> QED
    BY <2>2 DEF Sec!idle, Sec!Handling
<1>2. s5' \in BOOLEAN /\ (~s5' => ~s5)
  BY DEF Sec!Inv
<1>3. ASSUME ~s5' PROVE Sec!Orderly'
  <2>1. Sec!Orderly
    BY <1>2, <1>3 DEF Sec!Inv
  <2>2. s2'[c] = Sec!idle /\ \A d \in Call \ {c} : s2'[d] = s2[d]
    BY DEF Sec!Inv
  <2>3. \A d \in Call : s2'[d].at # "idle" => s2'[d] = s2[d]
    BY <1>1, <2>2
  <2>4. \A d, e \in Call : Sec!onProfile(d)' /\ Sec!onProfile(e)' => d = e
    BY <2>1, <2>3 DEF Sec!Orderly, Sec!onProfile
  <2>5. Sec!newest(s1.db)' \/ \E d \in Call : s2'[d].at = "writing" /\ s2'[d].row.codes = s3'
    <3>1. \A d \in Call : s2[d].at = "writing" => s2'[d] = s2[d]
      BY <2>2
    <3> QED
      BY <2>1, <3>1 DEF Sec!Orderly, Sec!newest, Sec!waits
  <2>6. \A d \in Call : s2'[d].at = "writing" => Sec!toWrite(s2[d])'
    BY <2>1, <2>3 DEF Sec!Orderly, Sec!toWrite, Sec!newest, Sec!waits
  <2>7. s1'.db.enabled = (s4' = "on") /\ (s1'.db.enabled => s1'.db.otp = 0)
    BY <2>1 DEF Sec!Orderly
  <2> QED
    BY <2>4, <2>5, <2>6, <2>7 DEF Sec!Orderly, Sec!waits
<1>4. /\ s1' \in [db : Sec!Security, file : Sec!Security] /\ s3' \in Nat /\ s4' \in {"on", "off"}
  BY DEF Sec!Inv
<1> QED
  BY <1>1, <1>2, <1>3, <1>4, HandlerMoved

\* What was decided is written, in the database or in the file.
LEMMA RowWritten ==
    ASSUME Sec!Inv, NEW c \in Call, NEW at \in {"db", "file"}, Sec!updateSecurity(c, at) PROVE Sec!Inv'
<1>1. PICK row : row = s2[c].row
  OBVIOUS
<1>2. row \in Sec!Security /\ s2[c].asks \in {"on", "off", "same"}
  <2>1. s2[c] \in Sec!Handling
    BY DEF Sec!Inv
  <2> QED
    BY <1>1, <2>1 DEF Sec!Handling
<1>3. Sec!idle \in Sec!Handling /\ Sec!idle.at = "idle"
  <2>1. Sec!noSecurity \in Sec!Security
    BY DEF Sec!noSecurity, Sec!Security
  <2> QED
    BY <2>1 DEF Sec!idle, Sec!Handling
<1>4. /\ s1' = [s1 EXCEPT ![at] = row] /\ s2' = [s2 EXCEPT ![c] = Sec!idle] /\ s3' = s3
      /\ s4' = (IF s2[c].asks = "same" THEN s4 ELSE s2[c].asks)
      /\ s5' = (s5 \/ at = "file") /\ UNCHANGED <<s6, s7>> /\ s2[c].at = "writing"
  BY <1>1 DEF Sec!updateSecurity, Sec!waits
<1>5. /\ s1' \in [db : Sec!Security, file : Sec!Security] /\ s3' \in Nat /\ s4' \in {"on", "off"}
      /\ s5' \in BOOLEAN
  <2>1. s1' \in [db : Sec!Security, file : Sec!Security]
    <3>1. s1 \in [db : Sec!Security, file : Sec!Security]
      BY DEF Sec!Inv
    <3> QED
      BY <1>2, <1>4, <3>1
  <2>2. s3 \in Nat /\ s4 \in {"on", "off"} /\ s5 \in BOOLEAN
    BY DEF Sec!Inv
  <2> QED
    BY <1>2, <1>4, <2>1, <2>2
<1>6. ASSUME ~s5' PROVE Sec!Orderly'
  <2>1. Sec!Orderly /\ at = "db"
    BY <1>4, <1>6 DEF Sec!Inv
  <2>2. s1'.db = row
    <3>1. s1 \in [db : Sec!Security, file : Sec!Security]
      BY DEF Sec!Inv
    <3> QED
      BY <1>4, <2>1, <3>1
  <2>3. Sec!toWrite(s2[c])
    BY <1>4, <2>1 DEF Sec!Orderly, Sec!waits
  <2>4. \A d \in Call : Sec!onProfile(d) => d = c
    BY <1>4, <2>1 DEF Sec!Orderly, Sec!onProfile
  <2>5. s2'[c] = Sec!idle /\ \A d \in Call \ {c} : s2'[d] = s2[d]
    BY <1>4 DEF Sec!Inv
  <2>6. \A d \in Call : s2'[d].at \notin {"reading", "verifying", "writing"}
    BY <1>3, <2>4, <2>5 DEF Sec!onProfile
  <2>7. Sec!newest(s1.db)'
    BY <1>1, <1>4, <2>2, <2>3 DEF Sec!toWrite, Sec!newest
  <2>8. s1'.db.enabled = (s4' = "on") /\ (s1'.db.enabled => s1'.db.otp = 0)
    <3>1. row.enabled \in BOOLEAN
      BY <1>2 DEF Sec!Security
    <3>2. CASE s2[c].asks = "on"
      BY <1>1, <1>4, <2>2, <2>3, <3>1, <3>2 DEF Sec!toWrite
    <3>3. CASE s2[c].asks = "off"
      BY <1>1, <1>4, <2>2, <2>3, <3>1, <3>3 DEF Sec!toWrite
    <3>4. CASE s2[c].asks = "same"
      BY <1>1, <1>4, <2>1, <2>2, <2>3, <3>1, <3>4 DEF Sec!toWrite, Sec!Orderly
    <3> QED
      BY <1>2, <3>2, <3>3, <3>4
  <2> QED
    BY <2>6, <2>7, <2>8 DEF Sec!Orderly, Sec!onProfile, Sec!waits
<1> QED
  BY <1>3, <1>4, <1>5, <1>6, HandlerMoved

LEMMA SecurityRequests ==
    ASSUME Sec!Inv, NEW c \in Call,
           Sec!enableMfa(c) \/ Sec!disableMfa(c) \/ Sec!beginVerifyMfa(c) \/ Sec!beginRegenerate(c)
    PROVE  Sec!Inv'
<1>1. s3 \in Nat
  BY DEF Sec!Inv
<1>2. Sec!noSecurity \in Sec!Security /\ ~Sec!noSecurity.enabled /\ Sec!noSecurity.otp = 0
  <2>1. PICK b \in BOOLEAN : b = FALSE
    OBVIOUS
  <2> QED
    BY <2>1 DEF Sec!noSecurity, Sec!Security
<1>3. CASE Sec!enableMfa(c)
  <2>1. s3' = s3 + 1 /\ s3' \in Nat
    BY <1>1, <1>3 DEF Sec!enableMfa, Sec!generates
  <2>2. PICK b \in BOOLEAN : b = FALSE
    OBVIOUS
  <2>3. PICK n \in Nat : n = s3'
    BY <2>1
  <2>4. PICK r : r = [enabled |-> b, codes |-> n, otp |-> n]
    OBVIOUS
  <2>5. r \in Sec!Security /\ ~r.enabled /\ r.codes = s3'
    BY <2>2, <2>3, <2>4 DEF Sec!Security
  <2>6. Sec!begins(c, "writing", r, "off") /\ UNCHANGED <<s1, s4, s6, s7>>
    BY <1>3, <2>2, <2>3, <2>4 DEF Sec!enableMfa
  <2> QED
    BY <2>1, <2>5, <2>6, RequestBegins
<1>4. CASE Sec!disableMfa(c)
  BY <1>1, <1>2, <1>4, RequestBegins DEF Sec!disableMfa
<1>5. CASE Sec!beginVerifyMfa(c)
  BY <1>1, <1>2, <1>5, RequestBegins DEF Sec!beginVerifyMfa
<1>6. CASE Sec!beginRegenerate(c)
  BY <1>1, <1>2, <1>6, RequestBegins DEF Sec!beginRegenerate
<1> QED
  BY <1>3, <1>4, <1>5, <1>6

LEMMA SecurityRead ==
    ASSUME Sec!Inv, NEW c \in Call, NEW r \in {s1.db, s1.file}, Sec!getSecurity(r)
    PROVE  r \in Sec!Security /\ (s5' = s5 \/ s5' = TRUE) /\ (~s5' => ~s5 /\ r = s1.db)
<1>1. s1 \in [db : Sec!Security, file : Sec!Security] /\ s5 \in BOOLEAN
  BY DEF Sec!Inv
<1> QED
  BY <1>1 DEF Sec!getSecurity

LEMMA VerifyMfa ==
    ASSUME Sec!Inv, NEW c \in Call, NEW r \in {s1.db, s1.file}, Sec!verifyMfa(c, r) PROVE Sec!Inv'
<1>1. r \in Sec!Security /\ (s5' = s5 \/ s5' = TRUE) /\ (~s5' => ~s5 /\ r = s1.db)
  BY SecurityRead DEF Sec!verifyMfa
<1>2. s2[c].at = "verifying" /\ s2[c].asks = "on" /\ Sec!onProfile(c) /\ UNCHANGED <<s1, s3, s4, s6, s7>>
  BY DEF Sec!verifyMfa, Sec!waits, Sec!Inv, Sec!onProfile
<1>3. CASE r.otp # 0 /\ s2' = [s2 EXCEPT ![c].at = "writing", ![c].row = Sec!confirmed(r)]
  <2>1. PICK b \in BOOLEAN : b = TRUE
    OBVIOUS
  <2>2. PICK on : on = [r EXCEPT !.enabled = b]
    OBVIOUS
  <2>3. on \in Sec!Security /\ on.enabled = b /\ on.codes = r.codes
    BY <1>1, <2>2 DEF Sec!Security
  <2>4. PICK row : row = [on EXCEPT !.otp = 0]
    OBVIOUS
  <2>5. row \in Sec!Security /\ row.enabled = b /\ row.codes = r.codes /\ row.otp = 0
    BY <2>3, <2>4 DEF Sec!Security
  <2>6. row = Sec!confirmed(r)
    BY <1>1, <2>1, <2>2, <2>4 DEF Sec!confirmed, Sec!Security
  <2>7. s2' = [s2 EXCEPT ![c].at = "writing", ![c].row = row]
    BY <1>3, <2>6
  <2>8. ~s5' => r.codes = s3
    <3>1. SUFFICES ASSUME ~s5' PROVE r.codes = s3
      OBVIOUS
    <3>2. Sec!Orderly /\ r = s1.db
      BY <1>1, <3>1 DEF Sec!Inv
    <3>3. ~ \E d \in Call : s2[d].at = "writing"
      BY <1>2, <3>2 DEF Sec!Orderly, Sec!onProfile
    <3> QED
      BY <1>3, <3>2, <3>3 DEF Sec!Orderly, Sec!newest, Sec!waits
  <2>9. s3' \in Nat /\ s3' = s3
    BY <1>2 DEF Sec!Inv
  <2> QED
    BY <1>1, <1>2, <2>1, <2>5, <2>7, <2>8, <2>9, RowDecided
<1>4. CASE s2' = [s2 EXCEPT ![c] = Sec!idle]
  BY <1>1, <1>2, <1>4, NothingWritten
<1> QED
  BY <1>3, <1>4 DEF Sec!verifyMfa

LEMMA RegenerateBackupCodes ==
    ASSUME Sec!Inv, NEW c \in Call, NEW r \in {s1.db, s1.file}, Sec!regenerateBackupCodes(c, r) PROVE Sec!Inv'
<1>1. r \in Sec!Security /\ (s5' = s5 \/ s5' = TRUE) /\ (~s5' => ~s5 /\ r = s1.db)
  BY SecurityRead DEF Sec!regenerateBackupCodes
<1>2. s2[c].at = "reading" /\ s2[c].asks = "same" /\ Sec!onProfile(c) /\ UNCHANGED <<s1, s4, s6, s7>>
  BY DEF Sec!regenerateBackupCodes, Sec!waits, Sec!Inv, Sec!onProfile
<1>3. s3' \in Nat
  <2>1. s3 \in Nat
    BY DEF Sec!Inv
  <2> QED
    BY <2>1 DEF Sec!regenerateBackupCodes, Sec!generates
<1>4. PICK n \in Nat : n = s3'
  BY <1>3
<1>5. PICK new : new = [r EXCEPT !.codes = n]
  OBVIOUS
<1>6. new \in Sec!Security /\ new.enabled = r.enabled /\ new.codes = n
  BY <1>1, <1>5 DEF Sec!Security
<1>7. PICK row : row = [new EXCEPT !.otp = 0]
  OBVIOUS
<1>8. row \in Sec!Security /\ row.enabled = r.enabled /\ row.codes = n /\ row.otp = 0
  BY <1>6, <1>7 DEF Sec!Security
<1>9. s2' = [s2 EXCEPT ![c].at = "writing", ![c].row = row]
  <2>1. row = [r EXCEPT !.codes = s3', !.otp = 0]
    BY <1>1, <1>4, <1>5, <1>7 DEF Sec!Security
  <2> QED
    BY <2>1 DEF Sec!regenerateBackupCodes
<1> QED
  BY <1>1, <1>2, <1>3, <1>4, <1>8, <1>9, RowDecided

\* Sign-ins leave the profile as orderly as it was.
LEMMA OrderlyKept ==
    ASSUME Sec!Inv, NEW c \in Call, NEW k \in Sec!Handling, s2' = [s2 EXCEPT ![c] = k],
           k.at \in {"idle", "signing"}, s2[c].at \in {"idle", "signing"}, UNCHANGED <<s1, s3, s4, s5>>
    PROVE  ~s5' => Sec!Orderly'
<1>1. SUFFICES ASSUME ~s5' PROVE Sec!Orderly'
  OBVIOUS
<1>2. Sec!Orderly
  BY <1>1 DEF Sec!Inv
<1>3. s2'[c] = k /\ \A d \in Call \ {c} : s2'[d] = s2[d]
  BY DEF Sec!Inv
<1>4. \A d \in Call : s2'[d].at \in {"reading", "verifying", "writing"} => s2'[d] = s2[d]
  BY <1>3
<1>5. \A d \in Call : s2[d].at = "writing" => s2'[d] = s2[d]
  BY <1>3
<1>6. \A d, e \in Call : Sec!onProfile(d)' /\ Sec!onProfile(e)' => d = e
  BY <1>2, <1>4 DEF Sec!Orderly, Sec!onProfile
<1>7. Sec!newest(s1.db)' \/ \E d \in Call : s2'[d].at = "writing" /\ s2'[d].row.codes = s3'
  BY <1>2, <1>5 DEF Sec!Orderly, Sec!newest, Sec!waits
<1>8. \A d \in Call : s2'[d].at = "writing" => Sec!toWrite(s2[d])'
  BY <1>2, <1>4 DEF Sec!Orderly, Sec!toWrite, Sec!newest, Sec!waits
<1>9. s1'.db.enabled = (s4' = "on") /\ (s1'.db.enabled => s1'.db.otp = 0)
  BY <1>2 DEF Sec!Orderly
<1> QED
  BY <1>6, <1>7, <1>8, <1>9 DEF Sec!Orderly, Sec!waits

LEMMA ChallengeVerified ==
    ASSUME Sec!Inv, NEW c \in Call, NEW h \in Challenge, Sec!verifyMfaChallenge(c, h) PROVE Sec!Inv'
<1>1. PICK k : k = [at |-> "signing", row |-> Sec!noSecurity, asks |-> "same", of |-> h]
  OBVIOUS
<1>2. k \in Sec!Handling /\ k.at = "signing" /\ k.of = h
  <2>1. Sec!noSecurity \in Sec!Security
    BY DEF Sec!noSecurity, Sec!Security
  <2> QED
    BY <1>1, <2>1 DEF Sec!Handling
<1>3. /\ s2' = [s2 EXCEPT ![c] = k] /\ s2[c].at = "idle" /\ s6[h] = "pending"
      /\ s6' = [s6 EXCEPT ![h] = "verified"] /\ UNCHANGED <<s1, s3, s4, s5, s7>>
  BY <1>1 DEF Sec!verifyMfaChallenge, Sec!waits
<1>4. ~s5' => Sec!Orderly'
  BY <1>2, <1>3, OrderlyKept
<1>5. s2'[c] = k /\ \A d \in Call \ {c} : s2'[d] = s2[d]
  BY <1>3 DEF Sec!Inv
<1>6. /\ s6 \in [Challenge -> {"none", "pending", "verified", "expired"}] /\ s7 \in [Challenge -> {0, 1}]
      /\ s6' \in [Challenge -> {"none", "pending", "verified", "expired"}]
      /\ s6'[h] = "verified" /\ \A g \in Challenge \ {h} : s6'[g] = s6[g]
  BY <1>3 DEF Sec!Inv
<1>7. s7[h] = 0
  BY <1>3, <1>6 DEF Sec!Inv
<1>8. ASSUME NEW d \in Call
      PROVE  /\ s2'[d].at = "verifying" => s2'[d].asks = "on"
             /\ s2'[d].at = "reading" => s2'[d].asks = "same"
             /\ s2'[d].at = "signing" => /\ s2'[d].of \in Challenge /\ s6'[s2'[d].of] = "verified"
                                         /\ s7'[s2'[d].of] = 0
  <2>1. CASE d = c
    BY <1>2, <1>3, <1>5, <1>6, <1>7, <2>1
  <2>2. CASE d # c
    BY <1>3, <1>5, <1>6, <2>2 DEF Sec!Inv, Sec!waits
  <2> QED
    BY <2>1, <2>2
<1>9. ASSUME NEW d \in Call, NEW e \in Call, s2'[d].at = "signing", s2'[e].at = "signing",
             s2'[d].of = s2'[e].of
      PROVE  d = e
  <2>1. \A g \in Call \ {c} : s2'[g].at = "signing" => s2'[g].of # h
    BY <1>3, <1>5 DEF Sec!Inv, Sec!waits
  <2>2. CASE d # c /\ e # c
    BY <1>5, <1>9, <2>2 DEF Sec!Inv, Sec!waits
  <2> QED
    BY <1>2, <1>5, <1>9, <2>1, <2>2
<1>10. s2' \in [Call -> Sec!Handling]
  BY <1>2, <1>3 DEF Sec!Inv
<1>11. \A g \in Challenge : s7'[g] = 1 => s6'[g] = "verified"
  BY <1>3, <1>6 DEF Sec!Inv
<1>12. /\ s1' \in [db : Sec!Security, file : Sec!Security] /\ s3' \in Nat /\ s4' \in {"on", "off"}
       /\ s5' \in BOOLEAN /\ s7' \in [Challenge -> {0, 1}]
  BY <1>3 DEF Sec!Inv
<1> QED
  BY <1>4, <1>6, <1>8, <1>9, <1>10, <1>11, <1>12 DEF Sec!Inv, Sec!waits

LEMMA ChallengeOpened == ASSUME Sec!Inv, NEW c \in Call, Sec!issueAuthResponse(c) PROVE Sec!Inv'
<1>1. Sec!idle \in Sec!Handling /\ Sec!idle.at = "idle"
  <2>1. Sec!noSecurity \in Sec!Security
    BY DEF Sec!noSecurity, Sec!Security
  <2> QED
    BY <2>1 DEF Sec!idle, Sec!Handling
<1>2. PICK h : h = s2[c].of
  OBVIOUS
<1>3. h \in Challenge /\ s6[h] = "verified" /\ s7[h] = 0 /\ s2[c].at = "signing"
  BY <1>2 DEF Sec!issueAuthResponse, Sec!waits, Sec!Inv
<1>4. s7 \in [Challenge -> {0, 1}]
  BY DEF Sec!Inv
<1>5. /\ s2' = [s2 EXCEPT ![c] = Sec!idle] /\ s7' = [s7 EXCEPT ![h] = 1]
      /\ UNCHANGED <<s1, s3, s4, s5, s6>>
  BY <1>2, <1>3, <1>4 DEF Sec!issueAuthResponse
<1>6. ~s5' => Sec!Orderly'
  BY <1>1, <1>3, <1>5, OrderlyKept
<1>7. s2'[c] = Sec!idle /\ \A d \in Call \ {c} : s2'[d] = s2[d]
  BY <1>5 DEF Sec!Inv
<1>8. s7' \in [Challenge -> {0, 1}] /\ s7'[h] = 1 /\ \A g \in Challenge \ {h} : s7'[g] = s7[g]
  BY <1>3, <1>4, <1>5
<1>9. ASSUME NEW d \in Call
      PROVE  /\ s2'[d].at = "verifying" => s2'[d].asks = "on"
             /\ s2'[d].at = "reading" => s2'[d].asks = "same"
             /\ s2'[d].at = "signing" => /\ s2'[d].of \in Challenge /\ s6'[s2'[d].of] = "verified"
                                         /\ s7'[s2'[d].of] = 0
  <2>1. CASE d = c
    BY <1>1, <1>7, <2>1
  <2>2. CASE d # c
    <3>1. s2'[d].at = "signing" => s2'[d].of # h
      BY <1>2, <1>3, <1>7, <2>2 DEF Sec!Inv, Sec!waits
    <3> QED
      BY <1>5, <1>7, <1>8, <2>2, <3>1 DEF Sec!Inv, Sec!waits
  <2> QED
    BY <2>1, <2>2
<1>10. ASSUME NEW d \in Call, NEW e \in Call, s2'[d].at = "signing", s2'[e].at = "signing",
              s2'[d].of = s2'[e].of
       PROVE  d = e
  BY <1>1, <1>7, <1>10 DEF Sec!Inv, Sec!waits
<1>11. s2' \in [Call -> Sec!Handling]
  BY <1>1, <1>5 DEF Sec!Inv
<1>12. \A g \in Challenge : s7'[g] = 1 => s6'[g] = "verified"
  BY <1>3, <1>5, <1>8 DEF Sec!Inv
<1>13. /\ s1' \in [db : Sec!Security, file : Sec!Security] /\ s3' \in Nat /\ s4' \in {"on", "off"}
       /\ s5' \in BOOLEAN /\ s6' \in [Challenge -> {"none", "pending", "verified", "expired"}]
  BY <1>5 DEF Sec!Inv
<1> QED
  BY <1>6, <1>8, <1>9, <1>10, <1>11, <1>12, <1>13 DEF Sec!Inv, Sec!waits

LEMMA ChallengePending ==
    ASSUME Sec!Inv, NEW h \in Challenge, Sec!createMfaChallenge(h) \/ Sec!expires(h) PROVE Sec!Inv'
<1>1. PICK st \in {"pending", "expired"} : s6' = [s6 EXCEPT ![h] = st]
  BY DEF Sec!createMfaChallenge, Sec!expires
<1>2. s6[h] # "verified" /\ UNCHANGED <<s1, s2, s3, s4, s5, s7>>
  BY DEF Sec!createMfaChallenge, Sec!expires
<1>3. s6' \in [Challenge -> {"none", "pending", "verified", "expired"}]
  BY <1>1 DEF Sec!Inv
<1>4. \A g \in Challenge : s6[g] = "verified" => s6'[g] = "verified"
  BY <1>1, <1>2 DEF Sec!Inv
<1>5. Sec!Orderly => Sec!Orderly'
  BY <1>2 DEF Sec!Orderly, Sec!toWrite, Sec!newest, Sec!waits, Sec!onProfile
<1> QED
  BY <1>2, <1>3, <1>4, <1>5 DEF Sec!Inv, Sec!waits

LEMMA SecondFactorStep == ASSUME Sec!Inv, Sec!Next PROVE Sec!Inv'
<1>1. ASSUME NEW c \in Call, Sec!Profile(c) PROVE Sec!Inv'
  BY <1>1, SecurityRequests, VerifyMfa, RegenerateBackupCodes, RowWritten DEF Sec!Profile
<1> QED
  BY <1>1, ChallengeOpened, ChallengeVerified, ChallengePending DEF Sec!Next

LEMMA SecondFactorHolds == ASSUME Sec!Inv PROVE Sec!SecondFactorIsAsAsked
<1>1. ASSUME ~s5
      PROVE  /\ s1.db.enabled = (s4 = "on")
             /\ s1.db.enabled => /\ s1.db.otp = 0
                                 /\ s1.db.codes = s3 \/ \E c \in Call : s2[c].row.codes = s3
  BY <1>1 DEF Sec!Inv, Sec!Orderly, Sec!newest, Sec!waits
<1>2. \A h \in Challenge : s7[h] <= 1 /\ (s7[h] = 1 => s6[h] = "verified")
  BY DEF Sec!Inv
<1> QED
  BY <1>1, <1>2 DEF Sec!SecondFactorIsAsAsked

---------------------------------------------------------------------------
\* Sign-ins are as allowed: the second factor of an account is on exactly when it was last
\* asked for, with the newest codes, and a challenge opens one session; and whoever signs in
\* has that session and no more sessions than the limit stay open: for any handlers,
\* challenges, limits and numbers of sessions.
THEOREM SignInsAllowed == WorkflowsSpec => SignInsAreAsAllowed
<1> DEFINE I == /\ part = "secondFactor" => Sec!Inv
                /\ part = "accounts" => Acc!Inv
<1>1. WorkflowsInit => I
  BY SecondFactorStart, SessionsStart DEF WorkflowsInit
<1>2. ASSUME WorkflowsNext
      PROVE  /\ part' = part
             /\ part = "secondFactor" => Sec!Next
             /\ part = "accounts" => Acc!Next
  BY <1>2 DEF WorkflowsNext, paymentsRest
<1>3. I /\ WorkflowsNext => I' /\ (part = "accounts" => Acc!SessionLimitKept)
  BY <1>2, SecondFactorStep, SessionsStep
<1>4. I /\ [WorkflowsNext]_<<part, s1, s2, s3, s4, s5, s6, s7, vars>> => I'
  BY <1>3, SecondFactorStill, SessionsStill
<1>5. I /\ [WorkflowsNext]_<<part, s1, s2, s3, s4, s5, s6, s7, vars>>
        => [part = "accounts" => Acc!SessionLimitKept]_<<s1, s2, s3, s4, s5, s6>>
  BY <1>3
<1>6. I => (part = "secondFactor" => Sec!SecondFactorIsAsAsked)
  BY SecondFactorHolds
<1> QED
  BY <1>1, <1>4, <1>5, <1>6, PTL DEF WorkflowsSpec, SignInsAreAsAllowed
=============================================================================
