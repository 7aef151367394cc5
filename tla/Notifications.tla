---------------------------- MODULE Notifications ---------------------------
(***************************************************************************)
(* src/src/modules/notifications: the queue of notification jobs, the push *)
(* subscriptions its jobs are delivered to, and, composed with it, the     *)
(* queue of mail (EmailQueue) into which its email jobs put their mail.    *)
(* processQueue() is called by the worker once a minute, whether or not    *)
(* its last call has ended, and by POST /notification-config/queue/process.*)
(* A call reads the jobs once.  An email job is done without waiting (the  *)
(* mail is only queued); a push job waits once for each subscription, an   *)
(* sms job once.  The code between two waits is one step.                  *)
(***************************************************************************)
EXTENDS Naturals, Sequences, FiniteSets, FiniteSetsExt

CONSTANTS Ticks,       \* calls of processQueue() that may overlap
          Drains, MaxMail, MaxDirect, MailLimit,
          Endpoints,   \* browsers of one user
          MaxJobs,     \* bound: jobs ever queued
          MaxSubs,     \* bound: subscriptions ever made
          JobLimit,    \* jobs one call takes (25 in the code)
          MaxRetries,
          MaxCrashes   \* bound: stops of the process

ASSUME NotificationsAssumption ==
    /\ MaxJobs \in Nat /\ MaxSubs \in Nat /\ MaxCrashes \in Nat
    /\ MaxMail \in Nat /\ MaxDirect \in 0..MaxMail /\ MaxRetries \in Nat \ {0}
    /\ JobLimit \in Nat \ {0} /\ MailLimit \in Nat \ {0}

VARIABLES job,      \* notification_jobs, in order of creation
          sub,      \* push_subscriptions, in order of creation
          tick,     \* tick[t]: what the call t still has to do
          crashes,
          enabled, check, mail, drain

mailVars == <<enabled, check, mail, drain>>
vars == <<job, sub, tick, crashes, enabled, check, mail, drain>>

Mail == INSTANCE EmailQueue

Channels == {"email", "sms", "push"}
Waiting == {"queued", "retrying"}
Settled == {"sent", "skipped", "failed"}
Nothing == [i \in {} |-> 0]

(* A job.  subs: the subscriptions its push goes to; valid: sendEmail()    *)
(* accepts its address and text; due and errors as in EmailQueue.          *)
Job == [channel : Channels,
        status  : Waiting \cup {"sending"} \cup Settled,
        retry   : 0..MaxRetries,
        errors  : 0..MaxRetries,
        due     : BOOLEAN,
        valid   : BOOLEAN,
        subs    : SUBSET (1..MaxSubs)]

Sub == [endpoint : Endpoints, state : {"active", "revoked", "expired"}]

(* A call: the retry counts, as it read them, of the jobs it still has to  *)
(* do; of the first of them, the subscriptions not yet answered for, and   *)
(* whether one of the others was sent or had expired.                      *)
Idle == [todo |-> Nothing, subs |-> {}, used |-> FALSE]

Init ==
    /\ job = << >>
    /\ sub = << >>
    /\ tick = [t \in Ticks |-> Idle]
    /\ crashes = 0
    /\ Mail!Init

Head1(todo) == Min(DOMAIN todo)

Others(todo) == [i \in DOMAIN todo \ {Head1(todo)} |-> todo[i]]

-----------------------------------------------------------------------------
(* Push subscriptions.                                                     *)

Active == {s \in DOMAIN sub : sub[s].state = "active"}

(* A form of subscribePush() with a bug: it never looks for an active one. *)
SubscribePush_always(e) ==
    /\ Len(sub) < MaxSubs
    /\ sub' = Append(sub, [endpoint |-> e, state |-> "active"])
    /\ UNCHANGED <<job, tick, crashes, mailVars>>

(* subscribePush(): an active subscription of the endpoint is refreshed,   *)
(* any other makes room for a new one.                                     *)
SubscribePush(e) ==
    /\ IF \E s \in Active : sub[s].endpoint = e
       THEN sub' = sub
       ELSE /\ Len(sub) < MaxSubs
            /\ sub' = Append(sub, [endpoint |-> e, state |-> "active"])
    /\ UNCHANGED <<job, tick, crashes, mailVars>>

(* unsubscribePush() of a subscription named by its id.                    *)
Revoke(s) ==
    /\ sub' = [sub EXCEPT ![s].state = "revoked"]
    /\ UNCHANGED <<job, tick, crashes, mailVars>>

UnsubscribeId(s) == s \in DOMAIN sub /\ Revoke(s)

(* findOwnedPushSubscription() of an endpoint: the oldest, whatever its    *)
(* state.                                                                  *)
FirstOf(e) == Min({s \in DOMAIN sub : sub[s].endpoint = e})

UnsubscribeEndpoint(e) ==
    /\ \E s \in DOMAIN sub : sub[s].endpoint = e
    /\ Revoke(FirstOf(e))

-----------------------------------------------------------------------------
(* The queue.                                                              *)

NewJob(c, quiet, ok) ==
    [channel |-> c, status |-> "queued", retry |-> 0, errors |-> 0,
     due |-> ~quiet, valid |-> ok, subs |-> IF c = "push" THEN Active ELSE {}]

(* send() queues one job per channel that the rule, the preferences and    *)
(* the contacts of the user allow, in the order email, sms, push; in quiet *)
(* hours the jobs wait for their end.                                      *)
Send(C, quiet, ok) ==
    LET one(c) == IF c \in C THEN <<c>> ELSE << >>
        order  == one("email") \o one("sms") \o one("push")
    IN  /\ Len(job) + Len(order) <= MaxJobs
        /\ "push" \in C => Active # {}
        /\ job' = job \o [k \in DOMAIN order |-> NewJob(order[k], quiet, ok)]
        /\ UNCHANGED <<sub, tick, crashes, mailVars>>

(* Forms of Runnable with a bug: sent jobs are taken too; jobs to retry    *)
(* are not.                                                                *)
Runnable_sent ==
    LET due == {i \in DOMAIN job : job[i].status # "sending" /\ job[i].due}
        old == {i \in due : Cardinality({k \in due : k <= i}) <= JobLimit}
    IN  [i \in old |-> job[i].retry]
Runnable_new ==
    LET due == {i \in DOMAIN job : job[i].status = "queued" /\ job[i].due}
        old == {i \in due : Cardinality({k \in due : k <= i}) <= JobLimit}
    IN  [i \in old |-> job[i].retry]

(* The jobs processQueue() takes: the oldest JobLimit that wait and are    *)
(* due.                                                                    *)
Runnable ==
    LET due == {i \in DOMAIN job : job[i].status \in Waiting /\ job[i].due}
        old == {i \in due : Cardinality({k \in due : k <= i}) <= JobLimit}
    IN  [i \in old |-> job[i].retry]

Ended(j, status) == [j EXCEPT !.status = status]

(* Forms of Failed with a bug: a job is given up one attempt too early. *)
Failed_early(j, seen) ==
    [j EXCEPT !.status = IF seen + 2 >= MaxRetries THEN "failed" ELSE "retrying",
              !.retry = seen + 1,
              !.errors = IF @ < MaxRetries THEN @ + 1 ELSE @,
              !.due = FALSE]

(* The catch branch: seen is the retry count of the copy.                  *)
Failed(j, seen) ==
    [j EXCEPT !.status = IF seen + 1 >= MaxRetries THEN "failed" ELSE "retrying",
              !.retry = seen + 1,
              !.errors = IF @ < MaxRetries THEN @ + 1 ELSE @,
              !.due = FALSE]

(* The email jobs at the front of todo: their delivery does not wait.      *)
Front(q, todo) ==
    {i \in DOMAIN todo : \A k \in DOMAIN todo : k <= i => q[k].channel = "email"}

Rest(q, todo) == [i \in DOMAIN todo \ Front(q, todo) |-> todo[i]]

(* A form of Begin with a bug: the whole batch is marked at its start.     *)
Begin_batch(q, todo) ==
    [i \in DOMAIN q |->
        IF i \in Front(q, todo)
        THEN IF q[i].valid THEN Ended(q[i], "sent") ELSE Failed(q[i], todo[i])
        ELSE IF i \in DOMAIN Rest(q, todo) THEN Ended(q[i], "sending")
        ELSE q[i]]

(* The loop goes on with todo over the jobs q: the email jobs at the front *)
(* are settled, an address or a text that sendEmail() refuses as a failed  *)
(* attempt; the next job is marked and waited for.                         *)
Begin(q, todo) ==
    LET rest == Rest(q, todo)
    IN  [i \in DOMAIN q |->
            IF i \in Front(q, todo)
            THEN IF q[i].valid THEN Ended(q[i], "sent") ELSE Failed(q[i], todo[i])
            ELSE IF rest # Nothing /\ i = Head1(rest) THEN Ended(q[i], "sending")
            ELSE q[i]]

Loop(t, q, todo) ==
    LET rest == Rest(q, todo)
    IN  /\ job' = Begin(q, todo)
        /\ Mail!Enqueue(Cardinality({i \in Front(q, todo) : q[i].valid}))
        /\ tick' = [tick EXCEPT ![t] =
              IF rest = Nothing THEN Idle
              ELSE [todo |-> rest, subs |-> q[Head1(rest)].subs, used |-> FALSE]]
        /\ UNCHANGED <<crashes, enabled, check, drain>>

ProcessQueue(t) ==
    /\ tick[t].todo = Nothing
    /\ Runnable # Nothing
    /\ Loop(t, job, Runnable)
    /\ UNCHANGED sub

(* The job t waits for ends with status, or with a failed attempt.         *)
End(t, result) ==
    LET todo == tick[t].todo
    IN  Loop(t, [job EXCEPT ![Head1(todo)] = result], Others(todo))

Busy(t, c) == tick[t].todo # Nothing /\ job[Head1(tick[t].todo)].channel = c

Error(t, c) ==
    LET i == Head1(tick[t].todo)
    IN  /\ Busy(t, c)
        /\ End(t, Failed(job[i], tick[t].todo[i]))
        /\ UNCHANGED sub

SmsSent(t) ==
    /\ Busy(t, "sms")
    /\ End(t, Ended(job[Head1(tick[t].todo)], "sent"))
    /\ UNCHANGED sub

(* A form of Answered with a bug: a success saves the copy the call took.  *)
Answered_copy(s, answer) ==
    [sub EXCEPT ![s].state = CASE answer = "expired" -> "expired"
                               [] answer = "sent" -> "active"
                               [] OTHER -> @]

(* deliverJob(), push: the answer for the next subscription.  One that has *)
(* expired is disabled; a success is noted in the stored subscription.     *)
Answered(s, answer) ==
    IF answer = "expired" /\ sub[s].state = "active"
    THEN [sub EXCEPT ![s].state = "expired"]
    ELSE sub

Pushed(t, answer) ==
    LET i    == Head1(tick[t].todo)
        s    == Min(tick[t].subs)
        used == tick[t].used \/ answer # "skipped"
    IN  /\ Busy(t, "push")
        /\ sub' = Answered(s, answer)
        /\ IF tick[t].subs = {s}
           THEN End(t, Ended(job[i], IF used THEN "sent" ELSE "skipped"))
           ELSE /\ tick' = [tick EXCEPT ![t].subs = @ \ {s}, ![t].used = used]
                /\ UNCHANGED <<job, crashes, mailVars>>

(* nextRunAt of a job passes.                                              *)
Due(i) ==
    /\ i \in DOMAIN job
    /\ job[i].status \in Waiting /\ ~job[i].due
    /\ job' = [job EXCEPT ![i].due = TRUE]
    /\ UNCHANGED <<sub, tick, crashes, mailVars>>

-----------------------------------------------------------------------------
MailStep == Mail!Next /\ UNCHANGED <<job, sub, tick, crashes>>

(* The process stops: the calls are gone, the collections stay.            *)
Crash ==
    /\ crashes < MaxCrashes
    /\ crashes' = crashes + 1
    /\ tick' = [t \in Ticks |-> Idle]
    /\ drain' = [d \in Drains |-> Nothing]
    /\ check' = {}
    /\ UNCHANGED <<job, sub, enabled, mail>>

Work(t) ==
    \/ ProcessQueue(t) \/ Error(t, "sms") \/ Error(t, "push") \/ SmsSent(t)
    \/ \E a \in {"sent", "expired", "skipped"} : Pushed(t, a)

Next ==
    \/ \E C \in SUBSET Channels \ {{}}, quiet, ok \in BOOLEAN : Send(C, quiet, ok)
    \/ \E e \in Endpoints : SubscribePush(e) \/ UnsubscribeEndpoint(e)
    \/ \E s \in 1..MaxSubs : UnsubscribeId(s)
    \/ \E t \in Ticks : Work(t)
    \/ \E i \in 1..MaxJobs : Due(i)
    \/ MailStep
    \/ Crash

Spec == Init /\ [][Next]_vars

(* The worker calls processQueue() every minute, every call to a provider  *)
(* is answered in the end, and time passes.  Nobody drains the mail.       *)
FairSpec ==
    /\ Spec
    /\ \A t \in Ticks : WF_vars(Work(t))
    /\ \A i \in 1..MaxJobs : WF_vars(Due(i))

-----------------------------------------------------------------------------
TypeOK ==
    /\ job \in Seq(Job) /\ Len(job) <= MaxJobs
    /\ sub \in Seq(Sub) /\ Len(sub) <= MaxSubs
    /\ tick \in [Ticks -> [todo : UNION {[S -> 0..MaxRetries] :
                                            S \in SUBSET (1..MaxJobs)},
                           subs : SUBSET (1..MaxSubs),
                           used : BOOLEAN]]
    /\ crashes \in 0..MaxCrashes
    /\ Mail!TypeOK

(* MAX_RETRIES of notification.service.js: a job, or a mail, is given up    *)
(* only when MaxRetries attempts at it failed, although overlapping calls   *)
(* count from stale copies.                                                 *)
FailedWasTried ==
    /\ \A i \in DOMAIN job :
          job[i].status = "failed" => job[i].errors = MaxRetries
    /\ Mail!MailFailedWasTried

MailLogAgrees == Mail!MailLogAgrees

(* A job or a mail marked as being sent is in the hands of a call that     *)
(* will settle it; only a stop of the process leaves one behind, which no  *)
(* later call takes up.                                                    *)
SendingIsHeld ==
    crashes = 0 =>
        /\ \A i \in DOMAIN job : job[i].status = "sending" =>
             \E t \in Ticks : tick[t].todo # Nothing /\ Head1(tick[t].todo) = i
        /\ \A i \in DOMAIN mail : mail[i].status = "sending" => Mail!Held(i)

(* docs/attendance-and-push-endpoints.md: "duplicate active subscriptions  *)
(* are prevented by user ID plus endpoint hash".                           *)
OneActivePerEndpoint ==
    \A s, r \in Active : sub[s].endpoint = sub[r].endpoint => s = r

(* A subscription that was revoked or has expired never becomes active     *)
(* again: an answer that arrives after the user unsubscribed saves nothing *)
(* of the copy the call took before.                                       *)
SubscriptionsStayOff ==
    [][\A s \in DOMAIN sub :
          sub[s].state # "active" => sub'[s].state # "active"]_vars

(* The notification queue implements Delivery while calls do not overlap.  *)
Queue == INSTANCE Delivery WITH
    Jobs <- 1..MaxJobs,
    state <- [i \in 1..MaxJobs |->
                IF i > Len(job) THEN "none"
                ELSE CASE job[i].status \in {"sent", "skipped"} -> "done"
                       [] job[i].status = "failed" -> "dropped"
                       [] OTHER -> "open"],
    failures <- [i \in 1..MaxJobs |->
                    IF i > Len(job) THEN 0 ELSE job[i].errors]

JobsAreDelivered == Queue!Spec

MailIsDelivered == Mail!Queue!Spec

(* The worker settles every job, unless the process stopped.               *)
JobsSettle ==
    \A i \in 1..MaxJobs :
        (i \in DOMAIN job) ~>
            (crashes > 0 \/ (i \in DOMAIN job /\ job[i].status \in Settled))
=============================================================================
