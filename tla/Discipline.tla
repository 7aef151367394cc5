----------------------------- MODULE Discipline -----------------------------
(***************************************************************************)
(* Disciplinary cases, their actions, acknowledgements, appeals and        *)
(* history (discipline.service.js, which hr.service.js calls), and the     *)
(* department leads' portal (manager/service.js), which writes rows of     *)
(* cases and nothing else. Who may see a case, severities, evidence files  *)
(* and the texts of notes and hearings are left out.                       *)
(***************************************************************************)
EXTENDS Naturals

CONSTANTS Case, Action, Appeal, None

DisciplineConstants == None \notin Case

VARIABLES
    case,      \* rows of disciplinary_cases: status, whether there is a resolution
    action,    \* rows of disciplinary_actions, with their acknowledgement
    appeal,    \* rows of disciplinary_appeals
    trail,     \* the new status in the last row of history of a case
    closing,   \* the old status in the last row that closed a case
    edited     \* cases a lead wrote past the service (auxiliary)

vars == <<case, action, appeal, trail, closing, edited>>

CASE_STATUS == {"OPEN", "UNDER_INVESTIGATION", "PENDING_REVIEW", "ACTION_ISSUED", "APPEAL_PENDING",
                "RESOLVED", "CLOSED", "CANCELLED", "ARCHIVED"}

noCase == [status |-> "absent", resolved |-> FALSE]
noAction == [status |-> "absent", case |-> None, acknowledgement |-> "none"]
noAppeal == [status |-> "absent", case |-> None]

Init ==
    /\ case = [c \in Case |-> noCase]
    /\ action = [a \in Action |-> noAction]
    /\ appeal = [p \in Appeal |-> noAppeal]
    /\ trail = [c \in Case |-> "none"]
    /\ closing = [c \in Case |-> "none"]
    /\ edited = {}

recordHistory(c, s) == trail' = [trail EXCEPT ![c] = s]

setStatus(c, s) ==
    /\ case[c] # noCase
    /\ case' = [case EXCEPT ![c] = [status |-> s, resolved |-> @.resolved \/ s = "RESOLVED"]]
    /\ recordHistory(c, s)
    /\ closing' = [closing EXCEPT ![c] = IF s = "CLOSED" THEN case[c].status ELSE @]
    /\ UNCHANGED edited

addAction(a, c, s) ==
    /\ action[a] = noAction
    /\ action' = [action EXCEPT ![a] = [status |-> s, case |-> c, acknowledgement |-> "PENDING"]]

---------------------------------------------------------------------------
(* Cases. *)

\* A case is opened with its first action.
createCase(c, a) ==
    /\ case[c] = noCase
    /\ case' = [case EXCEPT ![c].status = "OPEN"]
    /\ addAction(a, c, "ACTIVE")
    /\ recordHistory(c, "OPEN")
    /\ UNCHANGED <<appeal, closing, edited>>

\* A row of history and no status: assigning, evidence, notes, hearings, in any
\* status; the texts of a case only while it is not locked.
annotate(c) ==
    /\ case[c] # noCase
    /\ recordHistory(c, case[c].status)
    /\ UNCHANGED <<case, action, appeal, closing, edited>>

updateCase(c) == case[c].status \notin {"CLOSED", "ARCHIVED"} /\ annotate(c)

startInvestigation(c) == setStatus(c, "UNDER_INVESTIGATION") /\ UNCHANGED <<action, appeal>>
reopenCase(c) == setStatus(c, "UNDER_INVESTIGATION") /\ UNCHANGED <<action, appeal>>
resolveCase(c) == setStatus(c, "RESOLVED") /\ UNCHANGED <<action, appeal>>

closeCase(c) ==
    /\ case[c].status \in {"RESOLVED", "CANCELLED"}
    /\ setStatus(c, "CLOSED")
    /\ UNCHANGED <<action, appeal>>

---------------------------------------------------------------------------
(* Actions. PENDING asks for an approval that no handler gives. *)

issueAction(a, c, s) ==
    /\ case[c].status \notin {"CLOSED", "CANCELLED", "ARCHIVED"}
    /\ addAction(a, c, s)
    /\ setStatus(c, "ACTION_ISSUED")
    /\ UNCHANGED appeal

revokeAction(a) ==
    /\ action[a] # noAction
    /\ action' = [action EXCEPT ![a].status = "REVOKED"]
    /\ recordHistory(action[a].case, case[action[a].case].status)
    /\ UNCHANGED <<case, appeal, closing, edited>>

\* Again, and the other way round, as often as the employee likes.
acknowledgeAction(a, s) ==
    /\ action[a] # noAction
    /\ action' = [action EXCEPT ![a].acknowledgement = s]
    /\ recordHistory(action[a].case, case[action[a].case].status)
    /\ UNCHANGED <<case, appeal, closing, edited>>

---------------------------------------------------------------------------
(* Appeals: of a case in any status, several at a time. *)

submitAppeal(p, c) ==
    /\ appeal[p] = noAppeal
    /\ appeal' = [appeal EXCEPT ![p] = [status |-> "SUBMITTED", case |-> c]]
    /\ setStatus(c, "APPEAL_PENDING")
    /\ UNCHANGED action

nextStatus(d) == IF d = "APPROVED" THEN "UNDER_INVESTIGATION" ELSE "ACTION_ISSUED"

\* Mutant: the case is not moved on in the history.
reviewAppeal_quiet(p, d) ==
    /\ appeal[p] # noAppeal
    /\ appeal' = [appeal EXCEPT ![p].status = d]
    /\ case' = [case EXCEPT ![appeal[p].case].status = nextStatus(d)]
    /\ UNCHANGED <<action, trail, closing, edited>>

\* Whether or not it was reviewed before, and whatever became of the case.
reviewAppeal(p, d) ==
    /\ appeal[p] # noAppeal
    /\ appeal' = [appeal EXCEPT ![p].status = d]
    /\ setStatus(appeal[p].case, nextStatus(d))
    /\ UNCHANGED action

---------------------------------------------------------------------------
(* The leads' portal: no action, no history. *)

portalCreates(c, s) ==
    /\ case[c] = noCase
    /\ case' = [case EXCEPT ![c].status = s]
    /\ edited' = edited \cup {c}
    /\ UNCHANGED <<action, appeal, trail, closing>>

portalWrites(c, s) ==
    /\ case[c] # noCase
    /\ case' = [case EXCEPT ![c].status = s]
    /\ edited' = edited \cup {c}
    /\ UNCHANGED <<action, appeal, trail, closing>>

portalCloses(c) == portalWrites(c, "CLOSED")

Service(c) ==
    \/ \E a \in Action : createCase(c, a)
    \/ annotate(c)
    \/ updateCase(c)
    \/ startInvestigation(c)
    \/ reopenCase(c)
    \/ resolveCase(c)
    \/ closeCase(c)
    \/ \E a \in Action, s \in {"PENDING", "ACTIVE"} : issueAction(a, c, s)
    \/ \E p \in Appeal : submitAppeal(p, c)

Portal(c) ==
    \/ \E s \in CASE_STATUS : portalCreates(c, s)
    \/ \E s \in CASE_STATUS : portalWrites(c, s)
    \/ portalCloses(c)

Next ==
    \/ \E c \in Case : Service(c) \/ Portal(c)
    \/ \E a \in Action : revokeAction(a)
    \/ \E a \in Action, s \in {"ACKNOWLEDGED", "REFUSED"} : acknowledgeAction(a, s)
    \/ \E p \in Appeal, d \in {"APPROVED", "REJECTED"} : reviewAppeal(p, d)

Spec == Init /\ [][Next]_vars

---------------------------------------------------------------------------
(* Properties. *)

\* Whatever is appealed, reviewed twice, resolved over a pending appeal or
\* reopened, the history of a case that no lead wrote ends with the status the
\* case has, and a closed one was resolved at the time, with a resolution.
HistoryTellsStatus ==
    \A c \in Case \ edited : case[c] # noCase =>
        /\ trail[c] = case[c].status
        /\ case[c].status = "CLOSED" => case[c].resolved /\ closing[c] = "RESOLVED"
---------------------------------------------------------------------------
(* The invariant HistoryTellsStatus follows from. *)

TypeOK ==
    /\ case \in [Case -> [status : CASE_STATUS \cup {"absent"}, resolved : BOOLEAN]]
    /\ trail \in [Case -> CASE_STATUS \cup {"none", "absent"}]
    /\ closing \in [Case -> CASE_STATUS \cup {"none", "absent"}]

\* The service neither cancels nor archives a case: what it closes was resolved.
OfTheService(c) ==
    /\ case[c].status \notin {"CANCELLED", "ARCHIVED", "PENDING_REVIEW"}
    /\ case[c].status = "absent" => case[c] = noCase
    /\ case[c].status \in {"RESOLVED", "CLOSED"} => case[c].resolved

Inv == TypeOK /\ (\A c \in Case \ edited : OfTheService(c)) /\ HistoryTellsStatus
=============================================================================
