---------------------------- MODULE Connections ----------------------------
(***************************************************************************)
(* The connections to Slack, Google and Zoom                               *)
(* (integrations/integration.service.js): made with a token or through     *)
(* OAuth, tested, used by messages, events and meetings, refreshed when    *)
(* they are about to expire, disconnected. Every call of a provider is     *)
(* awaited, and the handlers of others run meanwhile. Paystack's payments  *)
(* are module Payments.                                                    *)
(***************************************************************************)
EXTENDS FiniteSets

CONSTANTS
    Provider, Call,
    Refreshable,  \* providers whose tokens refreshIfNeeded() renews
    State,        \* OAuth states that are issued (bound)
    Grant,        \* authorisations a provider gives: what a token belongs to
    None          \* no token

ConnectionsConstants ==
    None \notin Grant \cup Provider \cup State /\ Refreshable \subseteq Provider

VARIABLES
    connection,  \* status, access and refresh token, late: about to expire
    oauth,       \* states with the provider they are of: free, issued, used
    call,        \* handlers that wait for a provider, and the tokens they read
    overtaken    \* connections that changed hands while a call of theirs was waited for, or
                 \* were given a status without the tokens of it, and not made anew since

vars == <<connection, oauth, call, overtaken>>

noConnection == [status |-> "inactive", access |-> None, refresh |-> None, late |-> FALSE]
waiter(at, next, p, s, t) == [at |-> at, next |-> next, of |-> p, state |-> s, refresh |-> t]
idle == waiter("idle", "idle", None, None, None)

Init ==
    /\ connection = [p \in Provider |-> noConnection]
    /\ oauth = [s \in State |-> [at |-> "free", of |-> None]]
    /\ call = [c \in Call |-> idle]
    /\ overtaken = {}

\* The time a token expires is only looked at where it can be renewed.
Late(p) == IF p \in Refreshable THEN BOOLEAN ELSE {FALSE}

waits(c, at) == call[c].at = at
awaits(c, at, p) == call' = [call EXCEPT ![c] = waiter(at, "idle", p, None, None)]
ends(c) == call' = [call EXCEPT ![c] = idle]
awaited(p) == \E c \in Call : call[c].of = p

\* A row whose fields are written over those it has.
upsertIntegration(p, r) == connection' = [connection EXCEPT ![p] = r]
markStatus(p, s) == upsertIntegration(p, [connection[p] EXCEPT !.status = s])

\* Those that wait hold tokens of what the connection was; if nobody does it begins anew.
changesHands(p) == overtaken' = IF awaited(p) THEN overtaken \cup {p} ELSE overtaken \ {p}

---------------------------------------------------------------------------
(* Connecting. *)

createOAuthState(p, s) ==
    /\ oauth[s].at = "free"
    /\ oauth' = [oauth EXCEPT ![s] = [at |-> "issued", of |-> p]]
    /\ UNCHANGED <<connection, call, overtaken>>

\* With a token of the caller's, and a refresh token or not.
connectIntegration(p, g, r, l) ==
    /\ r \in {g, None} /\ l \in Late(p)
    /\ upsertIntegration(p, [status |-> "active", access |-> g, refresh |-> r, late |-> l])
    /\ changesHands(p)
    /\ UNCHANGED <<oauth, call>>

\* Mutant: the state is marked once the provider has answered.
consumeOAuthState_late(c, p, s) ==
    oauth[s] = [at |-> "issued", of |-> p] /\ UNCHANGED oauth

\* Used before the provider is asked.
consumeOAuthState(c, p, s) ==
    /\ oauth[s] = [at |-> "issued", of |-> p]
    /\ oauth' = [oauth EXCEPT ![s].at = "used"]

handleOAuthCallback(c, p, s) ==
    /\ waits(c, "idle")
    /\ consumeOAuthState(c, p, s)
    /\ call' = [call EXCEPT ![c] = waiter("exchanging", "idle", p, s, None)]
    /\ UNCHANGED <<connection, overtaken>>

\* A refresh token the provider does not give is the one there is.
exchangesCode(c, g, r, l) ==
    /\ waits(c, "exchanging") /\ r \in {g, None}
    /\ LET p == call[c].of IN
       /\ l \in Late(p)
       /\ upsertIntegration(p, [status |-> "active", access |-> g, late |-> l,
              refresh |-> IF r = None THEN connection[p].refresh ELSE r])
       /\ overtaken' = IF \/ \E d \in Call \ {c} : call[d].of = p
                          \/ r = None /\ connection[p].refresh # None
                       THEN overtaken \cup {p} ELSE overtaken \ {p}
    /\ ends(c)
    /\ UNCHANGED oauth

refusesCode(c) ==
    /\ waits(c, "exchanging")
    /\ ends(c)
    /\ UNCHANGED <<connection, oauth, overtaken>>

disconnectIntegration(p) ==
    /\ connection[p].status # "inactive"
    /\ upsertIntegration(p, [noConnection EXCEPT !.late = connection[p].late])
    /\ changesHands(p)
    /\ UNCHANGED <<oauth, call>>

---------------------------------------------------------------------------
(* Using. *)

refreshIfNeeded(p) == connection[p].late

\* Begins a test or a message, or renews the tokens first; without a refresh token it
\* ends there.
getActiveIntegration(c, p, next) ==
    /\ waits(c, "idle")
    /\ connection[p].status = "active"
    /\ IF ~refreshIfNeeded(p)
       THEN awaits(c, next, p) /\ UNCHANGED connection
       ELSE IF connection[p].refresh = None
       THEN markStatus(p, "expired") /\ UNCHANGED call
       ELSE /\ call' = [call EXCEPT ![c] = waiter("refreshing", next, p, None, connection[p].refresh)]
            /\ UNCHANGED connection
    /\ UNCHANGED <<oauth, overtaken>>

\* Written over whatever the connection has become.
refreshes(c) ==
    /\ waits(c, "refreshing")
    /\ LET t == call[c].refresh
       IN upsertIntegration(call[c].of, [status |-> "active", access |-> t, refresh |-> t, late |-> FALSE])
    /\ awaits(c, call[c].next, call[c].of)
    /\ UNCHANGED <<oauth, overtaken>>

\* Also when another call has renewed the tokens meanwhile and this one's are spent.
refusesRefresh(c) ==
    /\ waits(c, "refreshing")
    /\ markStatus(call[c].of, "expired")
    /\ ends(c)
    /\ UNCHANGED <<oauth, overtaken>>

\* Active if the provider says so, whoever disconnected meanwhile.
testIntegration(c, s) ==
    /\ waits(c, "testing")
    /\ markStatus(call[c].of, s)
    /\ ends(c)
    /\ UNCHANGED <<oauth, overtaken>>

\* A Slack message that fails says so in the connection, the others do not.
sendSlackMessage(c, s) ==
    /\ waits(c, "using")
    /\ call[c].of \notin Refreshable
    /\ markStatus(call[c].of, s)
    /\ ends(c)
    /\ UNCHANGED <<oauth, overtaken>>

\* A message that is sent, an event or a meeting that is made, changed or refused.
uses(c) ==
    /\ waits(c, "using")
    /\ ends(c)
    /\ UNCHANGED <<connection, oauth, overtaken>>

late(p) ==
    /\ connection[p].access # None /\ TRUE \in Late(p) \ {connection[p].late}
    /\ upsertIntegration(p, [connection[p] EXCEPT !.late = TRUE])
    /\ UNCHANGED <<oauth, call, overtaken>>

---------------------------------------------------------------------------
(* System management writes the same rows and knows nothing of tokens. *)

systemUpserts(p, s) ==
    /\ markStatus(p, s)
    /\ overtaken' = IF (s = "active") = (connection[p].access = None)
                    THEN overtaken \cup {p} ELSE overtaken
    /\ UNCHANGED <<oauth, call>>

deleteIntegration(p) ==
    /\ upsertIntegration(p, noConnection)
    /\ changesHands(p)
    /\ UNCHANGED <<oauth, call>>

\* Every handler that waits is forgotten.
restart ==
    /\ \E c \in Call : ~waits(c, "idle")
    /\ call' = [c \in Call |-> idle]
    /\ UNCHANGED <<connection, oauth, overtaken>>

Connecting(p) ==
    \/ \E s \in State : createOAuthState(p, s)
    \/ \E g \in Grant, r \in Grant \cup {None}, l \in BOOLEAN : connectIntegration(p, g, r, l)
    \/ \E c \in Call, s \in State : handleOAuthCallback(c, p, s)
    \/ disconnectIntegration(p)

Waiting(c) ==
    \/ \E g \in Grant, r \in Grant \cup {None}, l \in BOOLEAN : exchangesCode(c, g, r, l)
    \/ refusesCode(c)
    \/ refreshes(c) \/ refusesRefresh(c)
    \/ \E s \in {"active", "error"} : testIntegration(c, s)
    \/ \E s \in {"expired", "error"} : sendSlackMessage(c, s)
    \/ uses(c)

Next ==
    \/ \E p \in Provider : Connecting(p) \/ late(p) \/ deleteIntegration(p)
    \/ \E p \in Provider, s \in {"active", "inactive"} : systemUpserts(p, s)
    \/ \E c \in Call, p \in Provider, next \in {"testing", "using"} : getActiveIntegration(c, p, next)
    \/ \E c \in Call : Waiting(c)
    \/ restart

Spec == Init /\ [][Next]_vars

---------------------------------------------------------------------------
(* Properties. *)

\* Unless a connection was made or taken away while a call of it was waited for, made again
\* without a refresh token, or given a status by system management that its tokens do not
\* bear out, and was not made or taken away since with nobody waiting, an active one has a
\* token, both of its tokens are of one authorisation, and a disconnected one has none; and
\* an OAuth state serves one callback.
ConnectionIsWhole ==
    /\ \A p \in Provider \ overtaken :
          LET r == connection[p] IN
          /\ r.status = "active" => r.access # None
          /\ r.refresh \in {None, r.access}
          /\ r.status = "inactive" => r.access = None
    /\ \A c, d \in Call : call[c].state = call[d].state /\ c # d => call[c].state = None
---------------------------------------------------------------------------
(* The invariant ConnectionIsWhole follows from. *)

Row == [status : {"inactive", "active", "expired", "error"}, access : Grant \cup {None},
        refresh : Grant \cup {None}, late : BOOLEAN]
Waiter == [at : {"idle", "exchanging", "refreshing", "testing", "using"},
           next : {"idle", "testing", "using"}, of : Provider \cup {None},
           state : State \cup {None}, refresh : Grant \cup {None}]

TypeOK ==
    /\ connection \in [Provider -> Row]
    /\ oauth \in [State -> [at : {"free", "issued", "used"}, of : Provider \cup {None}]]
    /\ call \in [Call -> Waiter]

Whole(p) ==
    LET r == connection[p] IN
    /\ r.status = "active" => r.access # None
    /\ r.refresh \in {None, r.access}
    /\ r.status = "inactive" => r.access = None

\* A call that uses a connection, or renews its tokens, is of one that has a token
\* unless it was overtaken; and a state that a callback holds was used by it alone.
CallAgrees(c) ==
    LET w == call[c] IN
    /\ w.at = "idle" => w.of = None /\ w.state = None
    /\ w.at # "idle" => w.of \in Provider
    /\ w.at \in {"refreshing", "testing", "using"} /\ w.of \notin overtaken
           => connection[w.of].access # None
    /\ w.at = "refreshing" => w.refresh # None /\ w.next \in {"testing", "using"}
    /\ w.state # None => oauth[w.state].at = "used"

Inv ==
    /\ TypeOK
    /\ \A p \in Provider \ overtaken : Whole(p)
    /\ \A c \in Call : CallAgrees(c)
    /\ \A c, d \in Call : call[c].state = call[d].state /\ c # d => call[c].state = None
=============================================================================
