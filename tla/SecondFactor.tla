---------------------------- MODULE SecondFactor ----------------------------
(***************************************************************************)
(* The second factor of one account: the setting in its profile            *)
(* (profile/service.js, profile/repository.js), read and written with      *)
(* awaits in Postgres, or in the local file when a query fails; and the    *)
(* challenge of a sign-in (security/securityService.js, auth/routes.js).   *)
(***************************************************************************)
EXTENDS Naturals

CONSTANTS
    Call,       \* handlers of the profile and of sign-ins
    Challenge,
    MaxCodes    \* times that codes are generated (bound)

SecondFactorConstants == "none" \notin Challenge /\ MaxCodes \in Nat

VARIABLES
    store,      \* the row in Postgres and the one in the file
    call,       \* what each handler waits for, and the row it is to write
    codes,      \* times that codes were generated
    asked,      \* what the last request asked for: on or off
    muddled,    \* two requests ran at one time, or a query failed
    challenge,
    opened      \* sessions that each challenge opened

vars == <<store, call, codes, asked, muddled, challenge, opened>>

\* One-time codes and backup codes carry the number of their generation; 0 is none.
noSecurity == [enabled |-> FALSE, codes |-> 0, otp |-> 0]
idle == [at |-> "idle", row |-> noSecurity, asks |-> "same", of |-> "none"]

Init ==
    /\ store = [db |-> noSecurity, file |-> noSecurity]
    /\ call = [c \in Call |-> idle]
    /\ codes = 0
    /\ asked = "off"
    /\ muddled = FALSE
    /\ challenge = [h \in Challenge |-> "none"]
    /\ opened = [h \in Challenge |-> 0]

waits(c, at) == call[c].at = at
onProfile(c) == call[c].at \in {"reading", "verifying", "writing"}

begins(c, at, r, s) ==
    /\ waits(c, "idle")
    /\ call' = [call EXCEPT ![c] = [at |-> at, row |-> r, asks |-> s, of |-> "none"]]
    /\ muddled' = (muddled \/ \E d \in Call \ {c} : onProfile(d))

generates == codes < MaxCodes /\ codes' = codes + 1

---------------------------------------------------------------------------
(* The profile. *)

enableMfa(c) ==
    /\ generates
    /\ begins(c, "writing", [enabled |-> FALSE, codes |-> codes', otp |-> codes'], "off")
    /\ UNCHANGED <<store, asked, challenge, opened>>

disableMfa(c) ==
    /\ begins(c, "writing", noSecurity, "off")
    /\ UNCHANGED <<store, codes, asked, challenge, opened>>

\* Both read the row first.
beginVerifyMfa(c) ==
    /\ begins(c, "verifying", noSecurity, "on")
    /\ UNCHANGED <<store, codes, asked, challenge, opened>>

beginRegenerate(c) ==
    /\ begins(c, "reading", noSecurity, "same")
    /\ UNCHANGED <<store, codes, asked, challenge, opened>>

\* A query that fails is answered from the file.
getSecurity(r) ==
    \/ r = store.db /\ UNCHANGED muddled
    \/ r = store.file /\ muddled' = TRUE

\* Mutant: the code that was used stays.
confirmed_keeps(r) == [r EXCEPT !.enabled = TRUE]
confirmed(r) == [r EXCEPT !.enabled = TRUE, !.otp = 0]

\* The code is right and in time, or the handler ends.
verifyMfa(c, r) ==
    /\ waits(c, "verifying")
    /\ getSecurity(r)
    /\ \/ /\ r.otp # 0
          /\ call' = [call EXCEPT ![c].at = "writing", ![c].row = confirmed(r)]
       \/ call' = [call EXCEPT ![c] = idle]
    /\ UNCHANGED <<store, codes, asked, challenge, opened>>

\* A code that is waited for is forgotten.
regenerateBackupCodes(c, r) ==
    /\ waits(c, "reading")
    /\ getSecurity(r)
    /\ generates
    /\ call' = [call EXCEPT ![c].at = "writing", ![c].row = [r EXCEPT !.codes = codes', !.otp = 0]]
    /\ UNCHANGED <<store, asked, challenge, opened>>

\* In Postgres, or in the file when the query fails.
updateSecurity(c, at) ==
    /\ waits(c, "writing")
    /\ store' = [store EXCEPT ![at] = call[c].row]
    /\ asked' = IF call[c].asks = "same" THEN asked ELSE call[c].asks
    /\ muddled' = (muddled \/ at = "file")
    /\ call' = [call EXCEPT ![c] = idle]
    /\ UNCHANGED <<codes, challenge, opened>>

---------------------------------------------------------------------------
(* Signing in, while the platform requires a second factor of everyone: the profile's
   setting is not asked. *)

createMfaChallenge(h) ==
    /\ challenge[h] = "none"
    /\ challenge' = [challenge EXCEPT ![h] = "pending"]
    /\ UNCHANGED <<store, call, codes, asked, muddled, opened>>

\* With the right code; then the account's row is awaited. A wrong code leaves it pending.
verifyMfaChallenge(c, h) ==
    /\ waits(c, "idle")
    /\ challenge[h] = "pending"
    /\ challenge' = [challenge EXCEPT ![h] = "verified"]
    /\ call' = [call EXCEPT ![c] = [at |-> "signing", row |-> noSecurity, asks |-> "same", of |-> h]]
    /\ UNCHANGED <<store, codes, asked, muddled, opened>>

expires(h) ==
    /\ challenge[h] = "pending"
    /\ challenge' = [challenge EXCEPT ![h] = "expired"]
    /\ UNCHANGED <<store, call, codes, asked, muddled, opened>>

issueAuthResponse(c) ==
    /\ waits(c, "signing")
    /\ opened' = [opened EXCEPT ![call[c].of] = @ + 1]
    /\ call' = [call EXCEPT ![c] = idle]
    /\ UNCHANGED <<store, codes, asked, muddled, challenge>>

Profile(c) ==
    \/ enableMfa(c) \/ disableMfa(c) \/ beginVerifyMfa(c) \/ beginRegenerate(c)
    \/ \E r \in {store.db, store.file} : verifyMfa(c, r) \/ regenerateBackupCodes(c, r)
    \/ \E at \in {"db", "file"} : updateSecurity(c, at)

Next ==
    \/ \E c \in Call : Profile(c) \/ issueAuthResponse(c)
    \/ \E h \in Challenge : createMfaChallenge(h) \/ expires(h) \/ \E c \in Call : verifyMfaChallenge(c, h)

Spec == Init /\ [][Next]_vars

---------------------------------------------------------------------------
(* Properties. *)

\* Unless two requests of the account ran at one time or a query failed, the setting is
\* what the last request that changes it asked for, and an account whose second factor is
\* on has the newest backup codes and waits for no code; and a challenge opens one session.
SecondFactorIsAsAsked ==
    /\ ~muddled => /\ store.db.enabled = (asked = "on")
                   /\ store.db.enabled =>
                        /\ store.db.otp = 0
                        /\ store.db.codes = codes \/ \E c \in Call : call[c].row.codes = codes
    /\ \A h \in Challenge : opened[h] <= 1 /\ (opened[h] = 1 => challenge[h] = "verified")
---------------------------------------------------------------------------
(* The invariant SecondFactorIsAsAsked follows from: what the handlers are to write, and *)
(* who may still open a session.                                                         *)

Security == [enabled : BOOLEAN, codes : Nat, otp : Nat]
Handling == [at : {"idle", "reading", "verifying", "writing", "signing"}, row : Security,
             asks : {"on", "off", "same"}, of : Challenge \cup {"none"}]

\* One that is on or waits for a code has the newest codes.
newest(r) == r.enabled \/ r.otp # 0 => r.codes = codes

\* What a handler is to write is what its request asked for.
toWrite(k) ==
    /\ newest(k.row)
    /\ k.asks = "on" => k.row.enabled /\ k.row.otp = 0
    /\ k.asks = "off" => ~k.row.enabled
    /\ k.asks = "same" => k.row.enabled = store.db.enabled /\ k.row.otp = 0

\* What holds while requests of the profile run one at a time and no query fails.
Orderly ==
    /\ \A c, d \in Call : onProfile(c) /\ onProfile(d) => c = d
    /\ store.db.enabled = (asked = "on")
    /\ store.db.enabled => store.db.otp = 0
    /\ newest(store.db) \/ \E c \in Call : waits(c, "writing") /\ call[c].row.codes = codes
    /\ \A c \in Call : waits(c, "writing") => toWrite(call[c])

Inv ==
    /\ store \in [db : Security, file : Security] /\ call \in [Call -> Handling] /\ codes \in Nat
    /\ asked \in {"on", "off"} /\ muddled \in BOOLEAN
    /\ challenge \in [Challenge -> {"none", "pending", "verified", "expired"}]
    /\ opened \in [Challenge -> {0, 1}]
    /\ \A c \in Call :
          /\ waits(c, "verifying") => call[c].asks = "on"
          /\ waits(c, "reading") => call[c].asks = "same"
          /\ waits(c, "signing") => /\ call[c].of \in Challenge /\ challenge[call[c].of] = "verified"
                                    /\ opened[call[c].of] = 0
    /\ \A c, d \in Call : waits(c, "signing") /\ waits(d, "signing") /\ call[c].of = call[d].of => c = d
    /\ \A h \in Challenge : opened[h] = 1 => challenge[h] = "verified"
    /\ ~muddled => Orderly
=============================================================================
