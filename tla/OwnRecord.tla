----------------------------- MODULE OwnRecord -----------------------------
(***************************************************************************)
(* The phone number of a person, which three places keep: the account in   *)
(* users.json, the account in Postgres, and the row of the employee (of an *)
(* intern, the profile of the placement). The portals write users.json and *)
(* the row, the profile pages write Postgres and then the row, the         *)
(* administrators write Postgres and then users.json, and a start copies   *)
(* users.json to Postgres.                                                 *)
(***************************************************************************)
CONSTANTS
    Phone, None,  \* numbers, and no number: "" and null
    Call          \* requests that await

Role == {"manager", "secretary", "hr", "accountant", "employee", "intern"}

VARIABLES
    role,
    file, db, row,  \* the number in users.json, in Postgres, in the row
    call,           \* what each request holds while it waits
    asked           \* history: the number last asked for, and where it should be

vars == <<role, file, db, row, call, asked>>

Number == Phone \cup {None}
Place == {"file", "db", "row"}
idle == [at |-> "idle", seen |-> None, given |-> FALSE, late |-> FALSE]

Holds == [at : {"idle", "saved", "stored", "mirroring"}, seen : Number,
          given : BOOLEAN, late : BOOLEAN]

OwnRecordTypeOK ==
    /\ role \in Role
    /\ {file, db, row} \subseteq Number
    /\ call \in [Call -> Holds]
    /\ asked \in [phone : Number, in : SUBSET Place]

Init ==
    /\ role \in Role
    /\ file = None /\ db = None /\ row = None
    /\ call = [c \in Call |-> idle]
    /\ asked = [phone |-> None, in |-> Place]

\* What asked is not told of a request that was under way when it was written.
asks(p, places, calls) ==
    /\ asked' = [phone |-> p, in |-> places]
    /\ call' = [c \in Call |-> IF c \in DOMAIN calls THEN calls[c]
                               ELSE [call[c] EXCEPT !.late = call[c].at # "idle"]]
keeps(places) == asked' = [asked EXCEPT !.in = places]
waits(c, at) == call[c].at = at
goes(c, at, seen, given) == [call EXCEPT ![c] = [at |-> at, seen |-> seen, given |-> given, late |-> FALSE]]
only(c, at, seen) == [d \in {c} |-> [at |-> at, seen |-> seen, given |-> TRUE, late |-> FALSE]]
none == [d \in {} |-> idle]

---------------------------------------------------------------------------
(* The portals: synchronous, the account of users.json and the row. *)

\* What a portal shows of a person; those of HR and of accountants show the account.
ofAccount == {"hr", "accountant"}
shown == IF row # None /\ role \notin ofAccount THEN row ELSE file

portalWrites(p) ==
    /\ file' = p /\ row' = p
    /\ asks(p, {"file", "row"}, none)
    /\ UNCHANGED <<role, db>>

managerUpdates(p) == role = "manager" /\ portalWrites(p)
secretaryUpdates(p) == role = "secretary" /\ portalWrites(p)
updateHrProfile(p) == role = "hr" /\ portalWrites(p)

\* Only the account.
accountantUpdates(p) ==
    /\ role = "accountant"
    /\ file' = p
    /\ asks(p, {"file"}, none)
    /\ UNCHANGED <<role, db, row>>

\* The account is written when the body has a name or preferences, or a number that is
\* not empty and not inside of personalInformation.
rowWrites(p, alone) ==
    /\ row' = p
    /\ file' = IF alone THEN file ELSE p
    /\ asks(p, IF alone THEN {"row"} ELSE {"file", "row"}, none)
    /\ UNCHANGED <<role, db>>

employeeUpdates(p, alone) == role = "employee" /\ rowWrites(p, alone)
internUpdates(p, alone) == role = "intern" /\ rowWrites(p, alone)

---------------------------------------------------------------------------
(* The profile pages: Postgres, which every step awaits. *)

\* A profile is loaded, to be shown or changed in other fields.
getProfile(c) ==
    /\ waits(c, "idle")
    /\ call' = goes(c, "saved", db, FALSE)
    /\ UNCHANGED <<role, file, db, row, asked>>

updateProfile(c, p) ==
    /\ waits(c, "idle")
    /\ db' = p
    /\ asks(p, {"db"}, only(c, "saved", p))
    /\ UNCHANGED <<role, file, row>>

\* Both write what they have loaded or saved once more, whatever the row has become.
upsertUserProfile(c) ==
    /\ waits(c, "saved")
    /\ db' = call[c].seen
    /\ call' = [call EXCEPT ![c] = IF @.given THEN [@ EXCEPT !.at = "stored"] ELSE idle]
    /\ keeps(IF call[c].late THEN asked.in \ {"db"} ELSE asked.in)
    /\ UNCHANGED <<role, file, row>>

\* An empty number is left out of what the row gets, and that of an intern is another row.
updateStaff(c) ==
    /\ waits(c, "stored")
    /\ call' = [call EXCEPT ![c] = idle]
    /\ IF call[c].seen = None \/ role = "intern" THEN UNCHANGED <<row, asked>>
       ELSE /\ row' = call[c].seen
            /\ keeps(IF call[c].late THEN asked.in \ {"row"} ELSE asked.in \cup {"row"})
    /\ UNCHANGED <<role, file, db>>

---------------------------------------------------------------------------
(* The administrators: accountStore.js. *)

updateUserAccount(c, p) ==
    /\ waits(c, "idle")
    /\ db' = p
    /\ asks(p, {"db"}, only(c, "mirroring", p))
    /\ UNCHANGED <<role, file, row>>

\* A change of something else, the status for instance, has the number read too.
updateUser(c) ==
    /\ waits(c, "idle")
    /\ call' = goes(c, "mirroring", db, FALSE)
    /\ UNCHANGED <<role, file, db, row, asked>>

\* Mutant: the number that users.json has is kept.
mirrorLocal_keeps(c) ==
    /\ waits(c, "mirroring")
    /\ call' = [call EXCEPT ![c] = idle]
    /\ keeps(IF "db" \in asked.in /\ ~call[c].late THEN asked.in \cup {"file"} ELSE asked.in \ {"file"})
    /\ UNCHANGED <<role, file, db, row>>

mirrorLocal(c) ==
    /\ waits(c, "mirroring")
    /\ file' = call[c].seen
    /\ call' = [call EXCEPT ![c] = idle]
    /\ keeps(IF "db" \in asked.in /\ ~call[c].late THEN asked.in \cup {"file"} ELSE asked.in \ {"file"})
    /\ UNCHANGED <<role, db, row>>

\* upsertUser of every account of users.json.
upsertUser == db' = file

\* A row without a number gets that of the account.
ensureEmployeeProfile == row' = IF row = None /\ role # "intern" THEN file ELSE row

\* syncAllUsersToSupabase, before requests are taken.
restart ==
    /\ upsertUser
    /\ ensureEmployeeProfile
    /\ call' = [c \in Call |-> idle]
    /\ keeps(IF "file" \in asked.in THEN asked.in \cup {"db"}
             ELSE {"row"} \cap IF asked.phone = None THEN {} ELSE asked.in)
    /\ UNCHANGED <<role, file>>

Portals ==
    \E p \in Number :
        \/ managerUpdates(p)
        \/ secretaryUpdates(p)
        \/ updateHrProfile(p)
        \/ accountantUpdates(p)
        \/ \E alone \in BOOLEAN : employeeUpdates(p, alone) \/ internUpdates(p, alone)

Pages(c) ==
    \/ getProfile(c)
    \/ \E p \in Number : updateProfile(c, p)
    \/ upsertUserProfile(c)
    \/ updateStaff(c)

Administration(c) ==
    \/ \E p \in Number : updateUserAccount(c, p)
    \/ updateUser(c)
    \/ mirrorLocal(c)

Next == Portals \/ (\E c \in Call : Pages(c) \/ Administration(c)) \/ restart

Spec == Init /\ [][Next]_vars

---------------------------------------------------------------------------

\* The number a person or an administrator asked for is where the last writer of each
\* place has put it: a start keeps what is in users.json, any change of the account by an
\* administrator keeps what is in Postgres, and a portal shows what was asked for in it.
NumberIsWhereItWasPut ==
    /\ "file" \in asked.in => file = asked.phone
    /\ "db" \in asked.in => db = asked.phone
    /\ "row" \in asked.in /\ (asked.phone # None \/ "file" \in asked.in) /\ role \notin ofAccount
          => shown = asked.phone
---------------------------------------------------------------------------
(* The invariant NumberIsWhereItWasPut follows from: the row that should have the number  *)
(* has it, and a request that was not overtaken holds the number it is about to write.    *)

PlacesAgree ==
    /\ "file" \in asked.in => file = asked.phone
    /\ "db" \in asked.in => db = asked.phone
    /\ "row" \in asked.in => row = asked.phone

CallAgrees(c) ==
    LET w == call[c] IN
    w.at # "idle" /\ ~w.late =>
        /\ w.given \/ "db" \in asked.in => w.seen = asked.phone
        /\ w.at = "stored" => w.given

Inv == OwnRecordTypeOK /\ PlacesAgree /\ \A c \in Call : CallAgrees(c)
=============================================================================
