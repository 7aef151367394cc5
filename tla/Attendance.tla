----------------------------- MODULE Attendance -----------------------------
(***************************************************************************)
(* Check-ins against schedules: the window a schedule opens in its time    *)
(* zone, shifts that span midnight, retries of a request, the clock-in and *)
(* clock-out of department leads, and corrections. Time is counted in      *)
(* slots, Slots of them to a day; every handler is one synchronous step.   *)
(***************************************************************************)
EXTENDS Integers, FiniteSets

CONSTANTS
    Staff, Lead,     \* those who check in by schedule, and those who clock in by day
    Schedule,
    Place,           \* a set of numbers: attendance locations in the order of their rows
    Key,             \* idempotency keys
    Slots, Horizon,  \* slots in a day, and how far the clock runs (bounds)
    Zone,            \* offsets of time zones in slots
    WorkingDays,     \* those of a week of two days (bound)
    MaxEdits,        \* edits of schedules, locations and rows (bound)
    None

AttendanceConstants ==
    /\ Slots \in Nat \ {0} /\ Place \subseteq Nat /\ Zone \subseteq Int
    /\ None \notin Schedule

VARIABLES
    clock,       \* now, in slots
    place,       \* attendance_locations
    schedule,    \* attendance_schedules
    edits,       \* edits so far, counted for the bound
    attendance   \* rows of attendance

vars == <<clock, place, schedule, edits, attendance>>

config == <<place, schedule, edits>>

Hour == 0..(Slots - 1)
Schedules == [open : Hour, late : Hour, close : Hour, zone : Zone \cup {None}, active : BOOLEAN]

Init ==
    /\ clock = Slots
    /\ place \in [Place -> [active : {TRUE}, zone : Zone]]
    /\ schedule \in [Schedule -> Schedules]
    /\ edits = 0
    /\ attendance = {}

---------------------------------------------------------------------------
(* The window of a schedule. *)

\* getAssignedSchedules: the locations of a schedule, and the zone its times are
\* in: its own, or that of the first of them.
locationsOf == {p \in Place : place[p].active}
zoneOf(s) ==
    IF schedule[s].zone # None THEN schedule[s].zone
    ELSE place[CHOOSE p \in locationsOf : \A q \in locationsOf : p <= q].zone

\* evaluateScheduleWindow
spansMidnight(s) == schedule[s].close < schedule[s].open
localHour(s) == (clock + zoneOf(s)) % Slots
localDate(s) == (clock + zoneOf(s)) \div Slots

workDate_local(s) == localDate(s)    \* mutant

workDate(s) ==
    IF spansMidnight(s) /\ localHour(s) <= schedule[s].close THEN localDate(s) - 1 ELSE localDate(s)

isOpen(s) ==
    LET h == localHour(s)
    IN  /\ workDate(s) % 2 \in WorkingDays
        /\ IF spansMidnight(s) THEN h >= schedule[s].open \/ h <= schedule[s].close
           ELSE schedule[s].open <= h /\ h <= schedule[s].close

isLate(s) ==
    LET h == localHour(s)
        late == schedule[s].late
    IN  IF spansMidnight(s)
        THEN h >= late \/ (h <= schedule[s].close /\ late < schedule[s].open)
        ELSE h > late

---------------------------------------------------------------------------
(* attendance/service.js. *)

Void == {"rejected", "void"}
findExistingCheckIn(e, s, d) ==
    {r \in attendance : r.who = e /\ r.schedule = s /\ r.date = d /\ r.status \notin Void}

\* Where the employee stands, and who is assigned where, are left out: both only
\* take candidates away.
selectCheckInCandidate(e, s) ==
    /\ schedule[s].active /\ locationsOf # {}
    /\ isOpen(s)
    /\ findExistingCheckIn(e, s, workDate(s)) = {}

\* A key already used by the user answers with the row it made, whatever its day.
createCheckIn(e, s, k) ==
    /\ k # None => ~ \E r \in attendance : r.who = e /\ r.key = k
    /\ selectCheckInCandidate(e, s)
    /\ attendance' = attendance \cup
          {[who |-> e, schedule |-> s, date |-> workDate(s), key |-> k, in |-> TRUE, out |-> FALSE,
            status |-> IF isLate(s) THEN "late" ELSE "on_time"]}
    /\ UNCHANGED <<clock, config>>

edit == edits < MaxEdits /\ edits' = edits + 1

\* createSchedule, updateSchedule: a schedule as the body describes it.
writeSchedule(s, w) ==
    /\ edit
    /\ schedule' = [schedule EXCEPT ![s] = w]
    /\ UNCHANGED <<clock, place, attendance>>

setScheduleActive(s, active) ==
    /\ edit
    /\ schedule' = [schedule EXCEPT ![s].active = active]
    /\ UNCHANGED <<clock, place, attendance>>

\* createLocation, updateLocation
writeLocation(p, l) ==
    /\ edit
    /\ place' = [place EXCEPT ![p] = l]
    /\ UNCHANGED <<clock, schedule, attendance>>

setLocationActive(p, active) ==
    /\ edit
    /\ place' = [place EXCEPT ![p].active = active]
    /\ UNCHANGED <<clock, schedule, attendance>>

---------------------------------------------------------------------------
(* The department lead's own clock, and corrections of HR and of leads. *)

today == clock \div Slots
findSelfAttendance(m, d) == {r \in attendance : r.who = m /\ r.date = d}

ownRow(m, d, out) ==
    [who |-> m, schedule |-> None, date |-> d, key |-> None, in |-> TRUE, out |-> out,
     status |-> "PRESENT"]

\* Of the day of the request, which may name another: one row per day.
clockInSelf(m, d) ==
    /\ \A r \in findSelfAttendance(m, d) : ~ r.in
    /\ LET old == findSelfAttendance(m, d)
       IN  attendance' = IF old = {} THEN attendance \cup {ownRow(m, d, FALSE)}
                         ELSE LET r == CHOOSE r \in old : TRUE
                              IN  (attendance \ {r}) \cup {[r EXCEPT !.in = TRUE]}
    /\ UNCHANGED <<clock, config>>

\* A lead who never clocked in is clocked in as well; a later clock-out replaces
\* an earlier one.
clockOutSelf(m, d) ==
    /\ LET old == findSelfAttendance(m, d)
       IN  attendance' = IF old = {} THEN attendance \cup {ownRow(m, d, TRUE)}
                         ELSE LET r == CHOOSE r \in old : TRUE
                              IN  (attendance \ {r}) \cup {[r EXCEPT !.out = TRUE]}
    /\ UNCHANGED <<clock, config>>

\* correctAttendance: any status of any row. That of a lead's row is never read.
correctAttendance(r, status) ==
    /\ edit
    /\ r.schedule # None
    /\ attendance' = (attendance \ {r}) \cup {[r EXCEPT !.status = status]}
    /\ UNCHANGED <<clock, place, schedule>>

Tick ==
    /\ clock < Horizon
    /\ clock' = clock + 1
    /\ UNCHANGED <<config, attendance>>

Service ==
    \/ \E e \in Staff, s \in Schedule, k \in Key \cup {None} : createCheckIn(e, s, k)
    \/ \E s \in Schedule, w \in Schedules : writeSchedule(s, w)
    \/ \E s \in Schedule, active \in BOOLEAN : setScheduleActive(s, active)
    \/ \E p \in Place, l \in [active : BOOLEAN, zone : Zone] : writeLocation(p, l)
    \/ \E p \in Place, active \in BOOLEAN : setLocationActive(p, active)

Portals ==
    \/ \E m \in Lead : clockInSelf(m, today) \/ clockOutSelf(m, today)
    \/ \E r \in attendance, status \in {"late", "void"} : correctAttendance(r, status)

Next == Tick \/ Service \/ Portals

Spec == Init /\ [][Next]_vars

---------------------------------------------------------------------------
(* Properties. *)

\* Slots since the opening the present shift began with, and what is left of the
\* shift, by counting from the opening.
elapsed(s) == (localHour(s) - schedule[s].open) % Slots
length(s) == (schedule[s].close - schedule[s].open) % Slots
openedOn(s) == (clock + zoneOf(s) - elapsed(s)) \div Slots

new == attendance' \ attendance

\* Every new check-in is of the shift that is open: dated with the day that shift
\* opened on, a working day, even after midnight and in another zone; late, by
\* day, exactly past the hour of lateness; and the only one of its employee for
\* that shift, and of its key, through retries, corrections and schedules,
\* zones and locations that change under it. (Of every step.)
CheckInIsOfItsShift ==
    \A r \in {r \in new : r.schedule # None
                            /\ ~ \E q \in attendance : q = [r EXCEPT !.status = q.status]} :
          /\ r.date = openedOn(r.schedule) /\ r.date % 2 \in WorkingDays
          /\ elapsed(r.schedule) <= length(r.schedule)
          /\ ~ spansMidnight(r.schedule) /\ schedule[r.schedule].late >= schedule[r.schedule].open =>
                (r.status = "late" <=>
                    elapsed(r.schedule) > (schedule[r.schedule].late - schedule[r.schedule].open))
          /\ \A q \in attendance :
                q.who = r.who => /\ <<q.schedule, q.date>> # <<r.schedule, r.date>> \/ q.status \in Void
                                 /\ q.key # r.key \/ r.key = None
---------------------------------------------------------------------------
(* The invariant CheckInIsOfItsShift follows from: the rows with a schedule are of staff. *)

Row == [who : Staff \cup Lead, schedule : Schedule \cup {None}, date : Int, key : Key \cup {None},
        in : {TRUE}, out : BOOLEAN, status : {"on_time", "late", "void", "PRESENT"}]

Inv ==
    /\ clock \in Int
    /\ place \in [Place -> [active : BOOLEAN, zone : Zone]]
    /\ schedule \in [Schedule -> Schedules]
    /\ attendance \subseteq Row
    /\ \A r \in attendance : r.schedule # None => r.who \in Staff
=============================================================================
