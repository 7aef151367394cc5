------------------------------ MODULE Accounts ------------------------------
(***************************************************************************)
(* One account: its status and lock, and its sessions, with Postgres       *)
(* configured. Rows of users are read and written by queries a handler     *)
(* awaits; users.json keeps a second copy, which accountStore.js writes    *)
(* after Postgres and writes back to it at a start. Passwords are right or *)
(* wrong; MFA challenges and trusted devices are left out.                 *)
(***************************************************************************)
EXTENDS Integers, FiniteSets

CONSTANTS
    Handler,      \* requests being served (bound)
    MaxAttempts,  \* maxLoginAttempts
    Limits,       \* maxConcurrentSessions: the values an administrator sets
    MaxSession    \* sessions ever opened (bound)

AccountsConstants == MaxAttempts \in Nat \ {0} /\ Limits \subseteq Nat \ {0} /\ MaxSession \in Nat

VARIABLES
    account,   \* the row of users: status, lockedAt, lockedUntil, failedLoginAttempts
    mirror,    \* the status in users.json
    limit,     \* maxConcurrentSessions in force
    active,    \* the account's active sessions: each is numbered as it is opened
    opened,    \* the number of sessions opened so far
    handler    \* what each request is doing

vars == <<account, mirror, limit, active, opened, handler>>

\* INACTIVE stands for suspended and pending too.
Status == {"active", "locked", "inactive"}
Admin == {"users", "system", "patch", "staff", "reset", "token"}

idle == [op |-> "idle", step |-> "none", seen |-> [status |-> "active", lockedAt |-> FALSE, until |-> "none", fails |-> 0],
         session |-> 0]

Init ==
    /\ account = idle.seen
    /\ mirror = "active"
    /\ limit \in Limits
    /\ active = {}
    /\ opened = 0
    /\ handler = [h \in Handler |-> idle]

at(h, ops, step) == handler[h].op \in ops /\ handler[h].step = step
goes(h, step, row) == handler' = [handler EXCEPT ![h].step = step, ![h].seen = row]
ends(h) == handler' = [handler EXCEPT ![h] = idle]

\* Signing in and refreshing begin with a read of the row, which they await.
begin(h, op, seen, n) ==
    /\ handler[h] = idle
    /\ handler' = [handler EXCEPT ![h] = [op |-> op, step |-> "read", seen |-> seen, session |-> n]]
    /\ UNCHANGED <<account, mirror, limit, active, opened>>

---------------------------------------------------------------------------
(* Sessions: sessionStore.js *)

revokeSession(n) == active \ {n}

newer(s, k) == {n \in s : n > k}

\* Mutant: the session that is being opened is not counted.
enforceSessionPolicy_before(s) == {k \in s : Cardinality(newer(s, k)) <= limit}

\* The oldest go until no more than the limit are left.
enforceSessionPolicy(s) == {k \in s : Cardinality(newer(s, k)) < limit}

createSession(left) == left \cup {opened + 1}

issueAuthResponse(h, left) ==
    /\ opened < MaxSession
    /\ opened' = opened + 1
    /\ active' = enforceSessionPolicy(createSession(left))
    /\ ends(h)
    /\ UNCHANGED <<account, mirror, limit>>

\* Logged out, revoked by an administrator, or found expired by authenticate().
closeSession(n) ==
    /\ n \in active
    /\ active' = revokeSession(n)
    /\ UNCHANGED <<account, mirror, limit, opened, handler>>

revokeUserSessions ==
    /\ active' = {}
    /\ UNCHANGED <<account, mirror, limit, opened, handler>>

\* The session is looked for before the account is read, and closed after.
refresh(h) ==
    /\ at(h, {"refresh"}, "read")
    /\ IF handler[h].seen.status = "active"
       THEN issueAuthResponse(h, revokeSession(handler[h].session))
       ELSE ends(h) /\ UNCHANGED <<account, mirror, limit, active, opened>>

updateSessionPolicy(n) ==
    /\ limit' = n
    /\ UNCHANGED <<account, mirror, active, opened, handler>>

---------------------------------------------------------------------------
(* Signing in: POST /login *)

\* One statement: its fields are written, and the others are as they are by then.
updateUser(row) == account' = row

SignIn == {"login"}

expired(row) == row.status = "locked" /\ row.until = "over"
barred(row) == row.lockedAt \/ row.until = "running"

\* A lock whose time is over is taken off, and the row read again.
unlockExpired(h) ==
    /\ at(h, SignIn, "read") /\ expired(handler[h].seen)
    /\ updateUser(idle.seen)
    /\ goes(h, "unlocked", idle.seen)
    /\ UNCHANGED <<mirror, limit, active, opened>>

readAgain(h) ==
    /\ at(h, SignIn, "unlocked")
    /\ goes(h, "read again", [account EXCEPT !.status = "active"])
    /\ UNCHANGED <<account, mirror, limit, active, opened>>

admitted(h) ==
    /\ \/ at(h, SignIn, "read") /\ handler[h].seen.status = "active"
       \/ at(h, SignIn, "read again")
    /\ ~barred(handler[h].seen)

refuse(h) ==
    /\ at(h, SignIn, "read") \/ at(h, SignIn, "read again")
    /\ ~(at(h, SignIn, "read") /\ expired(handler[h].seen))
    /\ ~admitted(h)
    /\ ends(h)
    /\ UNCHANGED <<account, mirror, limit, active, opened>>

\* Attempts are counted from the row that was read; one below the
\* maximum stands for the maximum too: the next wrong password locks.
wrongPassword(h) ==
    LET fails == handler[h].seen.fails + 1 IN
    /\ admitted(h)
    /\ updateUser(IF fails >= MaxAttempts
                  THEN [status |-> "locked", lockedAt |-> TRUE, until |-> "running", fails |-> MaxAttempts - 1]
                  ELSE [account EXCEPT !.fails = fails])
    /\ ends(h)
    /\ UNCHANGED <<mirror, limit, active, opened>>

rightPassword(h) ==
    /\ admitted(h)
    /\ updateUser([account EXCEPT !.fails = 0])
    /\ goes(h, "signed in", idle.seen)
    /\ UNCHANGED <<mirror, limit, active, opened>>

\* The row as the update returned it is not looked at again.
signIn(h) == at(h, SignIn, "signed in") /\ issueAuthResponse(h, active)

---------------------------------------------------------------------------
(* Changes made to the account by others: userAccessService.js ("users" for
   setAccountStatus, "patch" for updateUserAccount, "reset"), system/service.js
   ("system"), staffDirectoryService.js ("staff"), and by the holder of a
   reset token ("token").                                                  *)

setAccountStatus(row, s, until) ==
    CASE s = "active" -> idle.seen
      [] s = "locked" -> [row EXCEPT !.status = s, !.lockedAt = TRUE, !.until = until]
      [] OTHER -> [row EXCEPT !.status = s]

\* Neither the attempts nor lockedUntil are reset.
setUserStatus(row, s) == [row EXCEPT !.status = s, !.lockedAt = (s = "locked")]

\* The lock is left as it is.
updateUserAccount(row, s) == [row EXCEPT !.status = s]

revokes(op, s) == op \in {"reset", "token"} \/ (op # "patch" /\ s # "active")

\* The row they read first only tells them that the account is there. What an
\* operation does not look at is not varied.
write(h, op, s, until) ==
    /\ handler[h] = idle
    /\ op \in {"reset", "token"} => s = "active"
    /\ until = "running" => op = "users" /\ s = "locked"
    /\ updateUser(CASE op = "users" -> setAccountStatus(account, s, until)
                    [] op = "system" -> setUserStatus(account, s)
                    [] op \in {"patch", "staff"} -> updateUserAccount(account, s)
                    [] op = "token" -> [account EXCEPT !.status = "active"]
                    [] op = "reset" -> account)
    /\ handler' = [handler EXCEPT ![h] = [idle EXCEPT !.op = IF op = "token" THEN op ELSE "users",
                                                     !.step = IF revokes(op, s) THEN "revoking" ELSE "keeping",
                                                     !.seen.status = account'.status]]
    /\ UNCHANGED <<mirror, limit, active, opened>>

\* Then users.json, but for the routes of auth/routes.js, and the sessions.
finish(h) ==
    /\ at(h, Admin, "revoking") \/ at(h, Admin, "keeping")
    /\ mirror' = IF handler[h].op = "token" THEN mirror ELSE handler[h].seen.status
    /\ active' = IF handler[h].step = "revoking" THEN {} ELSE active
    /\ ends(h)
    /\ UNCHANGED <<account, limit, opened>>

\* security/securityService.js writes users.json only.
unlockAccount ==
    /\ mirror' = "active"
    /\ UNCHANGED <<account, limit, active, opened, handler>>

---------------------------------------------------------------------------

lockoutPasses ==
    /\ account.until = "running"
    /\ account' = [account EXCEPT !.until = "over"]
    /\ UNCHANGED <<mirror, limit, active, opened, handler>>

\* syncAllUsersToSupabase: the status of users.json, but not its lock, is written
\* over the row before requests are taken.
restart ==
    /\ account' = [account EXCEPT !.status = mirror]
    /\ handler' = [h \in Handler |-> idle]
    /\ UNCHANGED <<mirror, limit, active, opened>>

SessionRequest(h) ==
    \/ \E op \in SignIn : begin(h, op, account, 0)
    \/ \E n \in active : begin(h, "refresh", [idle.seen EXCEPT !.status = IF account.status = "active" THEN @ ELSE "inactive"], n)
    \/ unlockExpired(h)
    \/ readAgain(h)
    \/ refuse(h)
    \/ wrongPassword(h)
    \/ rightPassword(h)
    \/ signIn(h)
    \/ refresh(h)

AccountRequest(h) ==
    \/ \E op \in Admin, s \in Status, until \in {"none", "running"} : write(h, op, s, until)
    \/ finish(h)

Next ==
    \/ \E h \in Handler : SessionRequest(h) \/ AccountRequest(h)
    \/ \E n \in 1..opened : closeSession(n)
    \/ revokeUserSessions
    \/ \E n \in Limits : updateSessionPolicy(n)
    \/ unlockAccount
    \/ lockoutPasses
    \/ restart

Spec == Init /\ [][Next]_vars

---------------------------------------------------------------------------
(* Properties. *)

\* Whoever signs in or refreshes, at the same time as others and after the limit
\* was lowered, is left with that session, and no more sessions than the limit in force
\* are left active. (Of every step.)
SessionLimitKept == opened' # opened => opened' \in active' /\ Cardinality(active') <= limit
---------------------------------------------------------------------------
(* The invariant SessionLimitKept follows from. *)

Inv == opened \in Nat /\ active \subseteq 1 .. opened /\ limit \in Limits
=============================================================================
