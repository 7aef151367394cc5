--------------------------- MODULE Announcements ---------------------------
(***************************************************************************)
(* Announcements (announcements/service.js): drafted, scheduled, published *)
(* to the active employees of the audience, read, expired and taken down.  *)
(* Nothing publishes a scheduled one when its time comes. Texts, pins and  *)
(* priorities are left out.                                                *)
(***************************************************************************)
EXTENDS Naturals

CONSTANTS Announcement, Employee, Group

VARIABLES
    announcement,  \* rows of announcements: status, expiresAt
    audience,      \* announcement_audiences: groups of employees
    group,         \* the department of an employee
    works,         \* employees that are active
    recipient,     \* announcement_recipients: none, unread or read
    notices        \* notifications of an announcement that an employee was sent

vars == <<announcement, audience, group, works, recipient, notices>>

ANNOUNCEMENT_STATUS == {"draft", "scheduled", "published", "archived", "expired", "deleted"}
Expiry == {"never", "ahead", "past"}

noAnnouncement == [status |-> "absent", expires |-> "never"]

Init ==
    /\ announcement = [a \in Announcement |-> noAnnouncement]
    /\ audience = [a \in Announcement |-> {}]
    /\ group \in [Employee -> Group]
    /\ works = Employee
    /\ recipient = [a \in Announcement |-> [e \in Employee |-> "none"]]
    /\ notices = [a \in Announcement |-> [e \in Employee |-> 0]]

status(a) == announcement[a].status
becomes(a, s) == announcement' = [announcement EXCEPT ![a].status = s]

\* Deleted by deleteAnnouncement, a row is not found again; created as deleted, it is.
found(a) == status(a) \notin {"absent", "gone"}

audienceIs(gs) == {e \in works : group[e] \in gs}
resolveAudienceEmployees(a) == audienceIs(audience[a])

createRecipientRecords(a, es) ==
    [e \in Employee |-> IF e \in es /\ recipient[a][e] = "none" THEN "unread" ELSE recipient[a][e]]

createNotifications(a, es) == [e \in Employee |-> notices[a][e] + (IF e \in es THEN 1 ELSE 0)]

publishTo(a, es, x, notify) ==
    /\ announcement' = [announcement EXCEPT ![a] = [status |-> "published", expires |-> x]]
    /\ recipient' = [recipient EXCEPT ![a] = createRecipientRecords(a, es)]
    /\ notices' = IF notify THEN [notices EXCEPT ![a] = createNotifications(a, es)] ELSE notices
    /\ UNCHANGED <<group, works>>

---------------------------------------------------------------------------
(* Administrators. *)

\* Any status of the list, or published at once.
createAnnouncement(a, s, gs, x, notify) ==
    /\ announcement[a] = noAnnouncement
    /\ audience' = [audience EXCEPT ![a] = gs]
    /\ IF s = "published" THEN publishTo(a, audienceIs(gs), x, notify)
       ELSE /\ announcement' = [announcement EXCEPT ![a] = [status |-> s, expires |-> x]]
            /\ UNCHANGED <<group, works, recipient, notices>>

publishAnnouncement(a, notify) ==
    /\ status(a) \in {"draft", "scheduled"}
    /\ publishTo(a, resolveAudienceEmployees(a), announcement[a].expires, notify)
    /\ UNCHANGED audience

\* Mutant: scheduled whatever became of it.
scheduleAnnouncement_any(a) ==
    /\ found(a)
    /\ becomes(a, "scheduled")
    /\ UNCHANGED <<audience, group, works, recipient, notices>>

scheduleAnnouncement(a) ==
    /\ status(a) \in {"draft", "scheduled"}
    /\ becomes(a, "scheduled")
    /\ UNCHANGED <<audience, group, works, recipient, notices>>

\* In any status: those whom a new audience adds get no row and no notification.
updateAnnouncement(a, gs, x) ==
    /\ found(a)
    /\ announcement' = [announcement EXCEPT ![a].expires = x]
    /\ audience' = [audience EXCEPT ![a] = gs]
    /\ UNCHANGED <<group, works, recipient, notices>>

takeDown(a, s) ==
    /\ found(a)
    /\ becomes(a, s)
    /\ UNCHANGED <<audience, group, works, recipient, notices>>

archiveAnnouncement(a) == takeDown(a, "archived")
deleteAnnouncement(a) == takeDown(a, "gone")

\* Done first by whoever asks for a list.
expireDueAnnouncements ==
    /\ announcement' = [a \in Announcement |->
           IF announcement[a] = [status |-> "published", expires |-> "past"]
           THEN [announcement[a] EXCEPT !.status = "expired"] ELSE announcement[a]]
    /\ UNCHANGED <<audience, group, works, recipient, notices>>

---------------------------------------------------------------------------
(* Employees. *)

\* Recipients of the time it was published, and the audience of now.
isVisibleToEmployee(a, e) ==
    /\ e \in works
    /\ status(a) = "published" /\ announcement[a].expires # "past"
    /\ recipient[a][e] # "none" \/ e \in resolveAudienceEmployees(a)

markRead(a, e) ==
    /\ isVisibleToEmployee(a, e)
    /\ recipient' = [recipient EXCEPT ![a][e] = "read"]
    /\ UNCHANGED <<announcement, audience, group, works, notices>>

\* An employee changes department, is put out of work or comes back.
moves(e, g, w) ==
    /\ group' = [group EXCEPT ![e] = g]
    /\ works' = IF w THEN works \cup {e} ELSE works \ {e}
    /\ UNCHANGED <<announcement, audience, recipient, notices>>

timePasses(a) ==
    /\ announcement[a].expires = "ahead"
    /\ announcement' = [announcement EXCEPT ![a].expires = "past"]
    /\ UNCHANGED <<audience, group, works, recipient, notices>>

Administrators(a) ==
    \/ \E s \in ANNOUNCEMENT_STATUS, gs \in SUBSET Group, x \in Expiry, notify \in BOOLEAN :
           createAnnouncement(a, s, gs, x, notify)
    \/ \E notify \in BOOLEAN : publishAnnouncement(a, notify)
    \/ scheduleAnnouncement(a)
    \/ \E gs \in SUBSET Group, x \in Expiry : updateAnnouncement(a, gs, x)
    \/ archiveAnnouncement(a)
    \/ deleteAnnouncement(a)

Next ==
    \/ \E a \in Announcement : Administrators(a) \/ timePasses(a)
    \/ expireDueAnnouncements
    \/ \E a \in Announcement, e \in Employee : markRead(a, e)
    \/ \E e \in Employee, g \in Group, w \in BOOLEAN : moves(e, g, w)

Spec == Init /\ [][Next]_vars

---------------------------------------------------------------------------
(* Properties. *)

\* Whatever is scheduled, edited, expired and taken down in between, an employee is
\* notified of an announcement once at most, has a row of it then, and what was read
\* stays read. (Of every step.)
ToldOnce ==
    \A a \in Announcement, e \in Employee :
        /\ notices'[a][e] <= 1
        /\ notices'[a][e] = 1 => recipient'[a][e] # "none"
        /\ recipient[a][e] = "read" => recipient'[a][e] = "read"
---------------------------------------------------------------------------
(* The invariant ToldOnce follows from: nobody was notified of what is still to publish. *)

Inv ==
    /\ announcement \in [Announcement -> [status : ANNOUNCEMENT_STATUS \cup {"absent", "gone"},
                                          expires : Expiry]]
    /\ recipient \in [Announcement -> [Employee -> {"none", "unread", "read"}]]
    /\ notices \in [Announcement -> [Employee -> 0..1]]
    /\ \A a \in Announcement, e \in Employee :
           /\ status(a) \in {"absent", "draft", "scheduled"} => notices[a][e] = 0
           /\ notices[a][e] = 1 => recipient[a][e] # "none"
=============================================================================
