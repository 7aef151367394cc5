----------------------------- MODULE Workflows -----------------------------
(***************************************************************************)
(* The workflows of the office, next to each other. The modules instantiated*)
(* here share no row with each other or with Payments, so a behaviour is of *)
(* one part, chosen at the start, whose variables are s1 .. s7. Payments    *)
(* moves in the part of its name and rests in the others.                   *)
(***************************************************************************)
EXTENDS Payments, Integers

CONSTANTS
    Person, Employee, Colleague,   \* accounts; rows of employees, and of those told or named
    Expense, Claimed, FinanceFrom, BoardFrom, MaxAside,
    Purchase, Vendor, Levels, Quantity, MaxReceived,
    Bill, Billed, Written, TwoFrom, ThreeFrom, MaxPortal, MaxPrices,
    Structure, Base, Value, Rate, Repayment, Threshold, MaxAssigned, MaxTaken, Days,
    Promotion, Adjustment, Pay, MaxHistory,
    Supervisor, Schedule, Site, Key, Slots, Horizon, Zone, WorkingDays, MaxEdits,
    Meeting, Room, Time,
    Event, Announcement, Group,
    Onboarding, Confirmation, Exit, MaxInFlight,
    Intern, Applicant,
    Department, Code,
    Case, Action, Appeal,
    Target, Task, MaxValue, MaxTargets,
    MaxAttempts, Limits, MaxSession,
    RoleKey, Default, Super, Permission, Preset, MaxRoles,
    Challenge, MaxCodes,
    EmailRequest, Address,
    Provider, Refreshable, State, Grant,
    Phone

VARIABLES
    part,                         \* the part that is explored
    s1, s2, s3, s4, s5, s6, s7    \* its variables

Exp == INSTANCE Expenses WITH
    Amount <- Claimed,
    policy <- s1, expense <- s2, expenseApproval <- s3, reimbursed <- s4, sent <- s5

Proc == INSTANCE Procurement WITH
    vendor <- s1, purchase <- s2, purchaseApproval <- s3, order <- s4

Bil == INSTANCE Bills WITH
    Amount <- Billed,
    bill <- s1, billApproval <- s2, paidRows <- s3, recorded <- s4

Sal == INSTANCE Salaries WITH
    Salary <- Base, MaxRows <- MaxAssigned, Horizon <- Days,
    structure <- s1, assignments <- s2, deductions <- s3, repayment <- s4,
    rules <- s5, item <- s6

Car == INSTANCE Careers WITH
    Salary <- Pay, MaxRows <- MaxHistory,
    salary <- s1, promotion <- s2, adjustment <- s3, increment <- s4, history <- s5,
    edited <- s6

\* Of those who check in by schedule, and of those who clock in by day.
Att(S, L) == INSTANCE Attendance WITH
    Staff <- S, Lead <- L, Place <- Site,
    clock <- s1, place <- s2, schedule <- s3, edits <- s4, attendance <- s5

Meet == INSTANCE Meetings WITH
    meeting <- s1, external <- s2, unchecked <- s3, raced <- s4

Ev == INSTANCE Events WITH
    User <- Colleague,
    event <- s1, audience <- s2, group <- s3, attendee <- s4, told <- s5, held <- s6

Ann == INSTANCE Announcements WITH
    Employee <- Colleague,
    announcement <- s1, audience <- s2, group <- s3, works <- s4, recipient <- s5,
    notices <- s6

Emp == INSTANCE Employment WITH
    employee <- s1, account <- s2, onboarding <- s3, confirmation <- s4, exit <- s5,
    inFlight <- s6, restored <- s7

Pla == INSTANCE Placements WITH
    Profile <- Intern, Person <- Applicant, NoEmail <- None,
    placement <- s1, supervisors <- s2, records <- s3, provisioning <- s4,
    account <- s5, edited <- s6

Dep == INSTANCE Departments WITH
    department <- s1, member <- s2

Dis == INSTANCE Discipline WITH
    case <- s1, action <- s2, appeal <- s3, trail <- s4, closing <- s5, edited <- s6

Tar == INSTANCE Targets WITH
    MaxRows <- MaxTargets,
    target <- s1, assignments <- s2, task <- s3, edited <- s4, resumed <- s5

Acc == INSTANCE Accounts WITH
    Handler <- Call,
    account <- s1, mirror <- s2, limit <- s3, active <- s4, opened <- s5,
    handler <- s6

\* The roles, and the accounts with the employee of each.
Rol(U, n) == INSTANCE Roles WITH
    Key <- RoleKey, MaxRows <- n, User <- U,
    rows <- s1, user <- s2, creating <- s3, assigned <- s4, edited <- s5,
    overlapped <- s6

Sec == INSTANCE SecondFactor WITH
    store <- s1, call <- s2, codes <- s3, asked <- s4, muddled <- s5,
    challenge <- s6, opened <- s7

Mail == INSTANCE CompanyEmail WITH
    Request <- EmailRequest, Employee <- Colleague, Unset <- None,
    emailRequest <- s1, mailbox <- s2, companyEmail <- s3

\* Of Google and Zoom, whose tokens are renewed, and of Slack, whose are not.
Con(R) == INSTANCE Connections WITH
    Refreshable <- R,
    connection <- s1, oauth <- s2, call <- s3, overtaken <- s4

Own == INSTANCE OwnRecord WITH
    role <- s1, file <- s2, db <- s3, row <- s4, call <- s5, asked <- s6

ASSUME WorkflowsAssumption ==
    /\ Exp!ExpensesConstants
    /\ Proc!ProcurementConstants
    /\ Bil!BillsConstants
    /\ Sal!SalariesConstants
    /\ Car!CareersConstants
    /\ Att(Employee, {})!AttendanceConstants
    /\ Meet!MeetingsConstants
    /\ Emp!EmploymentConstants
    /\ Pla!PlacementsConstants
    /\ Dep!DepartmentsConstants
    /\ Dis!DisciplineConstants
    /\ Tar!TargetsConstants
    /\ Acc!AccountsConstants
    /\ Rol({}, MaxRoles)!RolesConstants
    /\ Sec!SecondFactorConstants
    /\ Mail!CompanyEmailConstants
    /\ Con(Refreshable)!ConnectionsConstants

---------------------------------------------------------------------------
off == "off"
offFrom7 == s7 = off
offFrom6 == s6 = off /\ offFrom7
offFrom5 == s5 = off /\ offFrom6
offFrom4 == s4 = off /\ offFrom5
offFrom3 == s3 = off /\ offFrom4

WorkflowsInit ==
    /\ Init
    /\ \/ part = "payments" /\ s1 = off /\ s2 = off /\ offFrom3
       \/ part = "expenses" /\ Exp!Init /\ offFrom6
       \/ part = "procurement" /\ Proc!Init /\ offFrom5
       \/ part = "bills" /\ Bil!Init /\ offFrom5
       \/ part = "salaries" /\ Sal!Init /\ offFrom7
       \/ part = "careers" /\ Car!Init /\ offFrom7
       \/ part = "attendance" /\ Att(Employee, {})!Init /\ offFrom6
       \/ part = "leads" /\ Att({}, Supervisor)!Init /\ offFrom6
       \/ part = "meetings" /\ Meet!Init /\ offFrom5
       \/ part = "events" /\ Ev!Init /\ offFrom7
       \/ part = "announcements" /\ Ann!Init /\ offFrom7
       \/ part = "employment" /\ Emp!Init
       \/ part = "placements" /\ Pla!Init /\ offFrom7
       \/ part = "departments" /\ Dep!Init /\ offFrom3
       \/ part = "discipline" /\ Dis!Init /\ offFrom7
       \/ part = "targets" /\ Tar!Init /\ offFrom6
       \/ part = "accounts" /\ Acc!Init /\ offFrom7
       \/ part = "roles" /\ Rol({}, MaxRoles)!Init /\ offFrom7
       \/ part = "users" /\ Rol(Person, 0)!Init /\ offFrom7
       \/ part = "secondFactor" /\ Sec!Init
       \/ part = "companyEmail" /\ Mail!Init /\ offFrom4
       \/ part = "connections" /\ Con(Refreshable)!Init /\ offFrom5
       \/ part = "slack" /\ Con({})!Init /\ offFrom5
       \/ part = "ownRecord" /\ Own!Init /\ offFrom7

paymentsRest == UNCHANGED <<part, vars>>

WorkflowsNext ==
    \/ part = "payments" /\ Next /\ UNCHANGED <<part, s1, s2, s3, s4, s5, s6, s7>>
    \/ part = "expenses" /\ Exp!Next /\ UNCHANGED <<s6, s7>> /\ paymentsRest
    \/ part = "procurement" /\ Proc!Next /\ UNCHANGED <<s5, s6, s7>> /\ paymentsRest
    \/ part = "bills" /\ Bil!Next /\ UNCHANGED <<s5, s6, s7>> /\ paymentsRest
    \/ part = "salaries" /\ Sal!Next /\ UNCHANGED <<s7>> /\ paymentsRest
    \/ part = "careers" /\ Car!Next /\ UNCHANGED <<s7>> /\ paymentsRest
    \/ part = "attendance" /\ Att(Employee, {})!Next /\ UNCHANGED <<s6, s7>> /\ paymentsRest
    \/ part = "leads" /\ Att({}, Supervisor)!Next /\ UNCHANGED <<s6, s7>> /\ paymentsRest
    \/ part = "meetings" /\ Meet!Next /\ UNCHANGED <<s5, s6, s7>> /\ paymentsRest
    \/ part = "events" /\ Ev!Next /\ UNCHANGED <<s7>> /\ paymentsRest
    \/ part = "announcements" /\ Ann!Next /\ UNCHANGED <<s7>> /\ paymentsRest
    \/ part = "employment" /\ Emp!Next /\ paymentsRest
    \/ part = "placements" /\ Pla!Next /\ UNCHANGED <<s7>> /\ paymentsRest
    \/ part = "departments" /\ Dep!Next /\ UNCHANGED <<s3, s4, s5, s6, s7>> /\ paymentsRest
    \/ part = "discipline" /\ Dis!Next /\ UNCHANGED <<s7>> /\ paymentsRest
    \/ part = "targets" /\ Tar!Next /\ UNCHANGED <<s6, s7>> /\ paymentsRest
    \/ part = "accounts" /\ Acc!Next /\ UNCHANGED <<s7>> /\ paymentsRest
    \/ part = "roles" /\ Rol({}, MaxRoles)!Next /\ UNCHANGED <<s7>> /\ paymentsRest
    \/ part = "users" /\ Rol(Person, 0)!Next /\ UNCHANGED <<s7>> /\ paymentsRest
    \/ part = "secondFactor" /\ Sec!Next /\ paymentsRest
    \/ part = "companyEmail" /\ Mail!Next /\ UNCHANGED <<s4, s5, s6, s7>> /\ paymentsRest
    \/ part = "connections" /\ Con(Refreshable)!Next /\ UNCHANGED <<s5, s6, s7>> /\ paymentsRest
    \/ part = "slack" /\ Con({})!Next /\ UNCHANGED <<s5, s6, s7>> /\ paymentsRest
    \/ part = "ownRecord" /\ Own!Next /\ UNCHANGED <<s7>> /\ paymentsRest

WorkflowsSpec == WorkflowsInit /\ [][WorkflowsNext]_<<part, s1, s2, s3, s4, s5, s6, s7, vars>>

---------------------------------------------------------------------------
(* Properties: those of the parts, grouped by what they are about. *)

\* No money leaves that was not approved as the amount calls for: claims are reimbursed,
\* goods ordered and bills paid only after every level, and no more than was approved.
MoneyLeavesAsApproved ==
    /\ part = "expenses" => Exp!ReimbursedAsApproved
    /\ part = "procurement" => Proc!OrderedAsApproved
    /\ part = "bills" => Bil!PaidAsApproved

\* Pay is what was decided: it is made of one salary in force and off by rounding alone,
\* and a promotion or a raise is applied once and reported as what became of it.
PayIsAsDecided ==
    /\ part = "salaries" => Sal!PaidFromOneSalary
    /\ part = "careers" => Car!AppliedOnceAndReported

\* What should be of one is of one: an address of one mailbox, a code of one department,
\* a key of one role and an employee of one account, through edits, deletions and retries.
NamesAreOfOne ==
    /\ part = "companyEmail" => Mail!AddressIsOfOneMailbox
    /\ part = "departments" => Dep!CodeIsOfOneDepartment
    /\ part = "roles" => Rol({}, MaxRoles)!RolesAreKept
    /\ part = "users" => Rol(Person, 0)!RolesAreKept

\* Two meetings clash only if one was put there without a look at the others, or was
\* written after a provider was awaited while another was.
BookedOnceOrUnchecked == part = "meetings" => Meet!BookedOnceOrUnchecked

\* An employee put out of work has no access until the administrator gives it back, or
\* they reset their own password.
OutOfWorkHasNoAccess == part = "employment" => Emp!OutOfWorkHasNoAccess

\* A case is what its history ends with, and a target complete when its goal is reached.
StatusIsExplained ==
    /\ part = "discipline" => Dis!HistoryTellsStatus
    /\ part = "targets" => Tar!CompletedIsReached

\* What was written last is kept: an integration that nobody touched while a call of it
\* was waited for, or made anew since, has the tokens its status says, of one
\* authorisation; and the number of a person is, in each of the three places, the one its
\* last writer put there.
WrittenLastIsKept ==
    /\ part = "connections" => Con(Refreshable)!ConnectionIsWhole
    /\ part = "slack" => Con({})!ConnectionIsWhole
    /\ part = "ownRecord" => Own!NumberIsWhereItWasPut

\* No check-in is of another shift than the one that is open, or a second one.
CheckInIsOfItsShift ==
    [][/\ part = "attendance" => Att(Employee, {})!CheckInIsOfItsShift
       /\ part = "leads" => Att({}, Supervisor)!CheckInIsOfItsShift]_<<s1, s2, s3, s4, s5>>

\* The second factor is as it was last asked for, and a challenge opens one session; and
\* a sign-in or refresh leaves its own session, and no more than the limit in force.
SignInsAreAsAllowed ==
    /\ [](part = "secondFactor" => Sec!SecondFactorIsAsAsked)
    /\ [][part = "accounts" => Acc!SessionLimitKept]_<<s1, s2, s3, s4, s5, s6>>

\* Whoever is invited to an event is counted once, and checks in while it takes place;
\* and no step notifies an employee of an announcement twice, or makes a read one unread.
CountedAndToldOnce ==
    /\ [](part = "events" => Ev!CountedOnce)
    /\ [][part = "announcements" => Ann!ToldOnce]_<<s1, s2, s3, s4, s5, s6>>

\* No step leaves a person with two open placements, or opens an ended one again.
OneOpenPlacement == [][part = "placements" => Pla!OneOpenPlacement]_<<s1, s2, s3, s4, s5, s6>>
=============================================================================
