------------------------------ MODULE Meetings ------------------------------
(***************************************************************************)
(* When and where meetings take place. One collection, `meetings`, written *)
(* by the meeting service, which looks for conflicts, and by the portals   *)
(* of secretaries, HR and department leads, which do not. Who is invited,  *)
(* what was said and the reminders are left out.                           *)
(***************************************************************************)
EXTENDS Naturals

CONSTANTS
    Meeting, Person, Room,
    Time,       \* points in time (bound): a meeting lasts from one to a later one
    None

MeetingsConstants == Time \subseteq Nat /\ None \notin Room

VARIABLES
    meeting,    \* rows of meetings: status, organizer, room, start, end
    external,   \* what a createMeeting that awaits Google or Zoom is about to write
    unchecked,  \* meetings whose time or room was set without a look at the others (auxiliary)
    raced       \* of those that await, the ones that looked before another was written (auxiliary)

vars == <<meeting, external, unchecked, raced>>

\* activeMeetingStatuses(). Nothing writes POSTPONED. ELSEWHERE stands for the statuses only
\* the portals write: CONFIRMED, IN_PROGRESS, RESCHEDULED.
Active == {"SCHEDULED", "ONGOING", "POSTPONED", "COMPLETED"}
PortalStatus == {"SCHEDULED", "COMPLETED", "CANCELLED", "ELSEWHERE"}

noMeeting == [status |-> "absent", organizer |-> None, room |-> None, start |-> 0, end |-> 0]

Slot == {t \in Time \X Time : t[1] < t[2]}

Init ==
    /\ meeting = [m \in Meeting |-> noMeeting]
    /\ external = [m \in Meeting |-> noMeeting]
    /\ unchecked = {} /\ raced = {}

---------------------------------------------------------------------------
(* meeting.service.js *)

\* Mutant: a meeting that starts earlier and lasts into the other is missed.
overlaps_startsWithin(r, q) == q.start <= r.start /\ r.start < q.end

overlaps(r, q) == r.start < q.end /\ r.end > q.start

clash(r, q) == overlaps(r, q) /\ (r.organizer = q.organizer \/ (r.room # None /\ r.room = q.room))

\* getConflictingMeetings: the meetings in the table that are active.
free(m, row) == \A n \in Meeting \ {m} : meeting[n].status \in Active => ~clash(row, meeting[n])

scheduled(o, r, t) == [status |-> "SCHEDULED", organizer |-> o, room |-> r, start |-> t[1], end |-> t[2]]

writes(m, row) ==
    /\ meeting' = [meeting EXCEPT ![m] = row]
    /\ raced' = raced \cup {n \in Meeting \ {m} : external[n] # noMeeting}

createMeeting(m, o, r, t) ==
    /\ meeting[m] = noMeeting /\ external[m] = noMeeting
    /\ free(m, scheduled(o, r, t))
    /\ writes(m, scheduled(o, r, t))
    /\ UNCHANGED <<external, unchecked>>

\* A virtual meeting looks, then awaits the provider: others are written meanwhile.
beginVirtual(m, o, r, t) ==
    /\ meeting[m] = noMeeting /\ external[m] = noMeeting
    /\ free(m, scheduled(o, r, t))
    /\ external' = [external EXCEPT ![m] = scheduled(o, r, t)]
    /\ raced' = raced \ {m}
    /\ UNCHANGED <<meeting, unchecked>>

endVirtual(m, works) ==
    /\ external[m] # noMeeting
    /\ external' = [external EXCEPT ![m] = noMeeting]
    /\ IF works
       THEN /\ writes(m, external[m])
            /\ unchecked' = IF m \in raced THEN unchecked \cup {m} ELSE unchecked
       ELSE UNCHANGED <<meeting, unchecked, raced>>

at(row, t) == [row EXCEPT !.start = t[1], !.end = t[2]]

\* With a new time, the time is looked at together with the room given, or else
\* the one there was, even when the body takes the room away.
updateSchedule(m, t, r, given) ==
    LET row == at(meeting[m], t)
        looked == IF given /\ r # None THEN [row EXCEPT !.room = r] ELSE row
    IN  /\ meeting[m] # noMeeting
        /\ free(m, looked)
        /\ writes(m, IF given THEN [row EXCEPT !.room = r] ELSE row)
        /\ unchecked' = unchecked \ {m}
        /\ UNCHANGED external

\* A room alone is not looked at, nor whether it exists.
updateRoom(m, r) ==
    /\ meeting[m] # noMeeting
    /\ writes(m, [meeting[m] EXCEPT !.room = r])
    /\ unchecked' = unchecked \cup {m}
    /\ UNCHANGED external

cancelMeeting(m) ==
    /\ meeting[m] # noMeeting
    /\ writes(m, [meeting[m] EXCEPT !.status = "CANCELLED"])
    /\ UNCHANGED <<external, unchecked>>

postponeMeeting(m, t) ==
    LET row == [at(meeting[m], t) EXCEPT !.status = "SCHEDULED"] IN
    /\ meeting[m] # noMeeting
    /\ free(m, row)
    /\ writes(m, row)
    /\ unchecked' = unchecked \ {m}
    /\ UNCHANGED external

\* Started or completed from any status: one that was cancelled takes its slot again.
setMeetingStatus(m, s) ==
    /\ meeting[m] # noMeeting
    /\ writes(m, [meeting[m] EXCEPT !.status = s])
    /\ unchecked' = IF meeting[m].status \in Active THEN unchecked ELSE unchecked \cup {m}
    /\ UNCHANGED external

---------------------------------------------------------------------------
(* The portals. They have no rooms of their own and look at nothing.       *)

portalCreates(m, o, t, s) ==
    /\ meeting[m] = noMeeting /\ external[m] = noMeeting
    /\ writes(m, [scheduled(o, None, t) EXCEPT !.status = s])
    /\ unchecked' = unchecked \cup {m}
    /\ UNCHANGED external

portalWrites(m, t, s) ==
    /\ meeting[m] # noMeeting
    /\ writes(m, [at(meeting[m], t) EXCEPT !.status = s])
    /\ unchecked' = unchecked \cup {m}
    /\ UNCHANGED external

portalCancels(m) == cancelMeeting(m)

Service(m) ==
    \/ \E o \in Person, r \in Room \cup {None}, t \in Slot : createMeeting(m, o, r, t) \/ beginVirtual(m, o, r, t)
    \/ \E works \in BOOLEAN : endVirtual(m, works)
    \/ \E t \in Slot, r \in Room \cup {None}, given \in BOOLEAN : updateSchedule(m, t, r, given)
    \/ \E r \in Room \cup {None} : updateRoom(m, r)
    \/ cancelMeeting(m)
    \/ \E t \in Slot : postponeMeeting(m, t)
    \/ \E s \in {"ONGOING", "COMPLETED"} : setMeetingStatus(m, s)

Portal(m) ==
    \/ \E o \in Person, t \in Slot, s \in PortalStatus : portalCreates(m, o, t, s)
    \/ \E t \in Slot, s \in PortalStatus : portalWrites(m, t, s)
    \/ portalCancels(m)

Next == \E m \in Meeting : Service(m) \/ Portal(m)

Spec == Init /\ [][Next]_vars

---------------------------------------------------------------------------
(* Properties. *)

\* Two meetings are at the same time in the same room, or with the same organizer, only when
\* one of them was put there without a look at the others: by a portal, by a new room or a
\* restart, or as a virtual meeting whose provider answered after another meeting was
\* written. One whose provider was awaited with nothing written meanwhile clashes with none,
\* and a change of its time by the service clears whatever the meeting was before.
BookedOnceOrUnchecked ==
    \A m, n \in Meeting :
        /\ m # n
        /\ {meeting[m].status, meeting[n].status} \subseteq Active
        /\ clash(meeting[m], meeting[n])
        => m \in unchecked \/ n \in unchecked
---------------------------------------------------------------------------
(* The invariant BookedOnceOrUnchecked follows from: what is about to be written is free    *)
(* unless it is raced.                                                                     *)

Row == [status : PortalStatus \cup {"ONGOING", "absent"}, organizer : Person \cup {None},
        room : Room \cup {None}, start : Nat, end : Nat]

TypeOK ==
    /\ meeting \in [Meeting -> Row]
    /\ external \in [Meeting -> Row]

Inv ==
    /\ TypeOK
    /\ BookedOnceOrUnchecked
    /\ \A m \in Meeting \ raced : external[m] # noMeeting => free(m, external[m])
=============================================================================
