------------------------------- MODULE Events -------------------------------
(***************************************************************************)
(* Company events (event.service.js): drafting, publishing, moving and     *)
(* cancelling an event, who is told of it, answers and attendance; and the *)
(* leads' portal (manager/service.js), which writes the row of an event    *)
(* and tells nobody. Budgets, sponsors and documents are left out: they    *)
(* only add rows.                                                          *)
(***************************************************************************)
EXTENDS Naturals

CONSTANTS Event, User, Group

VARIABLES
    event,     \* rows of events: status, and where its dates stand
    audience,  \* event_audiences: the groups an event is for
    group,     \* the department of an employee
    attendee,  \* event_attendees: rows, status, whether checkedInAt is there
    told,      \* users with a notification of the event as it is
    held       \* events that were active while they took place (auxiliary)

vars == <<event, audience, group, attendee, told, held>>

EVENT_STATUS == {"DRAFT", "PUBLISHED", "ONGOING", "COMPLETED", "CANCELLED", "ARCHIVED", "SENT"}
Active == {"PUBLISHED", "ONGOING"}
When == {"before", "during", "over"}

noEvent == [status |-> "absent", when |-> "before"]
noAttendee == [rows |-> 0, status |-> "none", checkedIn |-> FALSE]

Init ==
    /\ event = [e \in Event |-> noEvent]
    /\ audience = [e \in Event |-> {}]
    /\ group \in [User -> Group]
    /\ attendee = [e \in Event |-> [u \in User |-> noAttendee]]
    /\ told = [e \in Event |-> {}]
    /\ held = {}

becomes(e, s, w) ==
    /\ event' = [event EXCEPT ![e] = [status |-> s, when |-> w]]
    /\ held' = IF s \in Active /\ w = "during" THEN held \cup {e} ELSE held

resolveAudienceUsers(e) == {u \in User : group[u] \in audience[e]}

\* Mutant: without looking for the row of somebody who answered before.
invited_again(a) == [a EXCEPT !.rows = @ + 1, !.status = "INVITED"]

\* ensureAttendees and ensureInvitedAttendee: the row that is there, or a new one.
invited(a) == IF a.rows > 0 THEN a ELSE [rows |-> 1, status |-> "INVITED", checkedIn |-> FALSE]

---------------------------------------------------------------------------
(* The event. *)

\* Created as published, it invites and tells nobody.
createEvent(e, gs, w, publish) ==
    /\ event[e] = noEvent
    /\ becomes(e, IF publish THEN "PUBLISHED" ELSE "DRAFT", w)
    /\ audience' = [audience EXCEPT ![e] = gs]
    /\ UNCHANGED <<group, attendee, told>>

\* As often as wanted, to the audience of the moment.
publishEvent(e, notify) ==
    /\ event[e].status \in {"DRAFT", "PUBLISHED"}
    /\ event[e].when # "over"
    /\ becomes(e, "PUBLISHED", event[e].when)
    /\ attendee' = [attendee EXCEPT ![e] =
           [u \in User |-> IF u \in resolveAudienceUsers(e) THEN invited(@[u]) ELSE @[u]]]
    /\ told' = [told EXCEPT ![e] = IF notify THEN @ \cup resolveAudienceUsers(e) ELSE @]
    /\ UNCHANGED <<audience, group>>

\* A new date or place; the hour alone is not among the sensitiveFields.
updateEvent(e, w, sensitive) ==
    /\ event[e].status \in {"DRAFT", "PUBLISHED"}
    /\ becomes(e, event[e].status, w)
    /\ told' = [told EXCEPT ![e] = IF ~sensitive THEN {}
                                   ELSE IF event[e].status = "PUBLISHED" THEN resolveAudienceUsers(e) ELSE {}]
    /\ UNCHANGED <<audience, group, attendee>>

\* The audience of now is told, not those who were invited.
cancelEvent(e) ==
    /\ event[e].status \notin {"absent", "CANCELLED", "ARCHIVED"}
    /\ becomes(e, "CANCELLED", event[e].when)
    /\ told' = [told EXCEPT ![e] = resolveAudienceUsers(e)]
    /\ UNCHANGED <<audience, group, attendee>>

\* Archived rows are deleted ones: no handler finds them again.
archiveEvent(e) ==
    /\ event[e].status \notin {"absent", "ARCHIVED"}
    /\ becomes(e, "ARCHIVED", event[e].when)
    /\ UNCHANGED <<audience, group, attendee, told>>

updateAudience(e, gs) ==
    /\ event[e].status \notin {"absent", "ARCHIVED"}
    /\ audience' = [audience EXCEPT ![e] = gs]
    /\ UNCHANGED <<event, group, attendee, told, held>>

---------------------------------------------------------------------------
(* Guests. *)

\* Anyone in the audience, and anyone with a row.
canAccess(e, u) ==
    /\ event[e].status \notin {"absent", "ARCHIVED"}
    /\ u \in resolveAudienceUsers(e) \/ attendee[e][u].rows > 0

answers(e, u, a) ==
    /\ canAccess(e, u)
    /\ attendee' = [attendee EXCEPT ![e][u] = a]
    /\ UNCHANGED <<event, audience, group, told, held>>

\* Of a draft, of an event that is over or cancelled, after checking in.
rsvpEvent(e, u, s) == answers(e, u, [invited(attendee[e][u]) EXCEPT !.status = s])

\* A refused check-in leaves the row it made.
checkInEvent(e, u) ==
    LET a == invited(attendee[e][u]) IN
    answers(e, u, IF event[e].status \in Active /\ event[e].when = "during"
                  THEN [a EXCEPT !.status = "ATTENDED", !.checkedIn = TRUE] ELSE a)

checkOutEvent(e, u) == answers(e, u, invited(attendee[e][u]))

---------------------------------------------------------------------------

portalCreates(e, s, w) ==
    /\ event[e] = noEvent
    /\ becomes(e, s, w)
    /\ UNCHANGED <<audience, group, attendee, told>>

portalWrites(e, s, w) ==
    /\ event[e].status \notin {"absent", "ARCHIVED"}
    /\ becomes(e, s, w)
    /\ UNCHANGED <<audience, group, attendee, told>>

portalSends(e) == portalWrites(e, "SENT", event[e].when)

\* An employee changes department.
transfer(u, g) ==
    /\ group' = [group EXCEPT ![u] = g]
    /\ UNCHANGED <<event, audience, attendee, told, held>>

timePasses(e) ==
    /\ \/ event[e].when = "before" /\ becomes(e, event[e].status, "during")
       \/ event[e].when = "during" /\ becomes(e, event[e].status, "over")
    /\ UNCHANGED <<audience, group, attendee, told>>

Service(e) ==
    \/ \E gs \in SUBSET Group, w \in When, publish \in BOOLEAN : createEvent(e, gs, w, publish)
    \/ \E notify \in BOOLEAN : publishEvent(e, notify)
    \/ \E w \in When, sensitive \in BOOLEAN : updateEvent(e, w, sensitive)
    \/ cancelEvent(e)
    \/ archiveEvent(e)
    \/ \E gs \in SUBSET Group : updateAudience(e, gs)

Guests(e, u) ==
    \/ \E s \in {"GOING", "MAYBE", "DECLINED"} : rsvpEvent(e, u, s)
    \/ checkInEvent(e, u)
    \/ checkOutEvent(e, u)

Portal(e) ==
    \/ \E s \in EVENT_STATUS \ {"ARCHIVED"}, w \in When : portalCreates(e, s, w) \/ portalWrites(e, s, w)
    \/ portalSends(e)

Next ==
    \/ \E e \in Event : Service(e) \/ Portal(e) \/ timePasses(e)
    \/ \E e \in Event, u \in User : Guests(e, u)
    \/ \E u \in User, g \in Group : transfer(u, g)

Spec == Init /\ [][Next]_vars

---------------------------------------------------------------------------
(* Properties. *)

\* However often an event is published, to whatever audience, and whoever answered
\* before being invited, a user has one row of it and is counted once; who checked
\* in came to an event that was published and taking place.
CountedOnce ==
    \A e \in Event, u \in User :
        /\ attendee[e][u].rows <= 1
        /\ attendee[e][u].checkedIn => e \in held
---------------------------------------------------------------------------
(* The invariant CountedOnce follows from. *)

Inv ==
    /\ event \in [Event -> [status : EVENT_STATUS \cup {"absent"}, when : When]]
    /\ attendee \in [Event -> [User -> [rows : 0..1, checkedIn : BOOLEAN,
                                        status : {"none", "INVITED", "GOING", "MAYBE", "DECLINED", "ATTENDED"}]]]
    /\ \A e \in Event :
           /\ event[e].status \in Active /\ event[e].when = "during" => e \in held
           /\ \A u \in User : attendee[e][u].checkedIn => e \in held
=============================================================================
