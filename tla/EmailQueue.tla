----------------------------- MODULE EmailQueue -----------------------------
(***************************************************************************)
(* src/src/modules/email: the switch of the service and the queue of       *)
(* outgoing mail.  No worker drains the queue: a drain is one call of      *)
(* processQueue(), made by POST /email-config/queue/process, and two calls *)
(* may overlap.  processQueue() reads the jobs once; each is a copy, so    *)
(* its retry count is the one of that reading.  The code between two       *)
(* awaits is one step: the answer of the provider for one job and the      *)
(* start of the next one are the same step.                                *)
(***************************************************************************)
EXTENDS Naturals, Sequences, FiniteSets, FiniteSetsExt

CONSTANTS Drains,      \* calls of processQueue() that may overlap
          MaxMail,     \* bound: mails ever queued
          MaxDirect,   \* bound: SendEmail only while fewer are queued
          MailLimit,   \* jobs one call takes (25 in the code)
          MaxRetries

VARIABLES enabled,  \* isEnabled of the stored configuration
          check,    \* {what a checkConfiguration() in flight read}, or {}
          mail,     \* email_jobs, each with its row of email_logs
          drain     \* drain[d]: retry counts of the jobs d still has to do

vars == <<enabled, check, mail, drain>>

Waiting == {"queued", "retrying"}
Nothing == [i \in {} |-> 0]

(* An entry of email_jobs.  due: nextRunAt has passed.  errors counts, up  *)
(* to MaxRetries, how often the provider failed; the code keeps no such    *)
(* count, retry is its own.                                                *)
Mail == [status : Waiting \cup {"sending", "sent", "failed"},
         log    : {"queued", "sending", "sent", "failed"},
         retry  : 0..MaxRetries,
         errors : 0..MaxRetries,
         due    : BOOLEAN]

NewMail == [status |-> "queued", log |-> "queued", retry |-> 0, errors |-> 0,
            due |-> TRUE]

NewMails(n) == [i \in 1..n |-> NewMail]

Init ==
    /\ enabled \in BOOLEAN
    /\ check = {}
    /\ mail = << >>
    /\ drain = [d \in Drains |-> Nothing]

-----------------------------------------------------------------------------
(* listRunnableJobs(): the oldest MailLimit jobs that wait and are due.    *)
Runnable ==
    LET due == {i \in DOMAIN mail : mail[i].status \in Waiting /\ mail[i].due}
        old == {i \in due : Cardinality({k \in due : k <= i}) <= MailLimit}
    IN  [i \in old |-> mail[i].retry]

Sending(m) == [m EXCEPT !.status = "sending", !.log = "sending"]

Sent(m) == [m EXCEPT !.status = "sent", !.log = "sent"]

(* Forms of Failed with a bug: a mail is given up one attempt too early;   *)
(* the log of a retried mail says failed.                                  *)
Failed_early(m, seen) ==
    LET last == seen + 2 >= MaxRetries
    IN  [m EXCEPT !.status = IF last THEN "failed" ELSE "retrying",
                  !.log = IF last THEN "failed" ELSE "queued",
                  !.retry = seen + 1,
                  !.errors = IF @ < MaxRetries THEN @ + 1 ELSE @,
                  !.due = FALSE]
Failed_log(m, seen) ==
    [m EXCEPT !.status = IF seen + 1 >= MaxRetries THEN "failed" ELSE "retrying",
              !.log = "failed",
              !.retry = seen + 1,
              !.errors = IF @ < MaxRetries THEN @ + 1 ELSE @,
              !.due = FALSE]

(* The catch branch: seen is the retry count of the copy.                  *)
Failed(m, seen) ==
    LET last == seen + 1 >= MaxRetries
    IN  [status |-> IF last THEN "failed" ELSE "retrying",
         log    |-> IF last THEN "failed" ELSE "queued",
         retry  |-> seen + 1,
         errors |-> IF m.errors < MaxRetries THEN m.errors + 1 ELSE m.errors,
         due    |-> FALSE]

Head1(todo) == Min(DOMAIN todo)

Others(todo) == [i \in DOMAIN todo \ {Head1(todo)} |-> todo[i]]

(* The loop goes on with todo over the jobs in box: while mail is enabled  *)
(* the first of them is sent and the loop waits; while it is disabled      *)
(* deliverPayload() answers SKIPPED without waiting, and each job that is  *)
(* left is marked sent.                                                    *)
Begin(box, todo) ==
    [i \in DOMAIN box |->
        IF i \notin DOMAIN todo THEN box[i]
        ELSE IF ~enabled THEN Sent(box[i])
        ELSE IF i = Head1(todo) THEN Sending(box[i])
        ELSE box[i]]

Left(todo) == IF enabled THEN todo ELSE Nothing

-----------------------------------------------------------------------------
(* sendEmail() without sendNow: n mails are queued, or, while mail is      *)
(* disabled, only logged as cancelled.                                     *)
Enqueue(n) ==
    IF enabled
    THEN Len(mail) + n <= MaxMail /\ mail' = mail \o NewMails(n)
    ELSE mail' = mail

SendEmail ==
    /\ Len(mail) < MaxDirect
    /\ Enqueue(1)
    /\ UNCHANGED <<enabled, check, drain>>

ProcessQueue(d) ==
    /\ drain[d] = Nothing
    /\ Runnable # Nothing
    /\ mail' = Begin(mail, Runnable)
    /\ drain' = [drain EXCEPT ![d] = Left(Runnable)]
    /\ UNCHANGED <<enabled, check>>

(* The provider answers d for the first of its jobs.                       *)
Answered(d, result) ==
    LET todo == drain[d]
        i    == Head1(todo)
    IN  /\ todo # Nothing
        /\ mail' = Begin([mail EXCEPT ![i] = result], Others(todo))
        /\ drain' = [drain EXCEPT ![d] = Left(Others(todo))]
        /\ UNCHANGED <<enabled, check>>

Delivered(d) ==
    Answered(d, Sent(mail[Head1(drain[d])]))

Refused(d) ==
    Answered(d, Failed(mail[Head1(drain[d])], drain[d][Head1(drain[d])]))

(* nextRunAt of a job that waits for its retry passes.                     *)
Due(i) ==
    /\ i \in DOMAIN mail
    /\ mail[i].status = "retrying" /\ ~mail[i].due
    /\ mail' = [mail EXCEPT ![i].due = TRUE]
    /\ UNCHANGED <<enabled, check, drain>>

(* setStatus(), or updateConfiguration() with isEnabled.                   *)
SetStatus ==
    /\ enabled' = ~enabled
    /\ UNCHANGED <<check, mail, drain>>

(* checkConfiguration() reads the configuration, asks the provider and     *)
(* saves all it read, isEnabled included.                                  *)
CheckConfiguration ==
    /\ check = {}
    /\ check' = {enabled}
    /\ UNCHANGED <<enabled, mail, drain>>

Checked ==
    /\ check # {}
    /\ enabled' \in check
    /\ check' = {}
    /\ UNCHANGED <<mail, drain>>

Next ==
    \/ SendEmail \/ SetStatus \/ CheckConfiguration \/ Checked
    \/ \E d \in Drains : ProcessQueue(d) \/ Delivered(d) \/ Refused(d)
    \/ \E i \in 1..MaxMail : Due(i)

Spec == Init /\ [][Next]_vars
-----------------------------------------------------------------------------
TypeOK ==
    /\ enabled \in BOOLEAN
    /\ check \in SUBSET BOOLEAN
    /\ mail \in Seq(Mail) /\ Len(mail) <= MaxMail
    /\ drain \in [Drains -> UNION {[S -> 0..MaxRetries] :
                                        S \in SUBSET (1..MaxMail)}]

(* The row of email_logs says of each mail what its job says: whatever the *)
(* overlap of two calls, the last of them to write a job wrote its log.    *)
MailLogAgrees ==
    \A i \in DOMAIN mail :
        mail[i].log = IF mail[i].status = "retrying" THEN "queued"
                      ELSE mail[i].status

(* README.md: "failed deliveries retry up to three times before becoming   *)
(* failed".  A mail is given up only when the provider failed MaxRetries   *)
(* times, although overlapping calls count its retries from stale copies.  *)
MailFailedWasTried ==
    \A i \in DOMAIN mail :
        mail[i].status = "failed" => mail[i].errors = MaxRetries

(* Every mail marked as being sent is in the hands of a call that will     *)
(* settle it.                                                              *)
Held(i) == \E d \in Drains : drain[d] # Nothing /\ Head1(drain[d]) = i

(* EmailQueue implements Delivery while at most one call runs at a time.   *)
Queue == INSTANCE Delivery WITH
    Jobs <- 1..MaxMail,
    state <- [i \in 1..MaxMail |->
                IF i > Len(mail) THEN "none"
                ELSE CASE mail[i].status = "sent" -> "done"
                       [] mail[i].status = "failed" -> "dropped"
                       [] OTHER -> "open"],
    failures <- [i \in 1..MaxMail |->
                    IF i > Len(mail) THEN 0 ELSE mail[i].errors]
=============================================================================
