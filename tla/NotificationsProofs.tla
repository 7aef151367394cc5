------------------------- MODULE NotificationsProofs ------------------------
(***************************************************************************)
(* Proofs about Notifications and the queue of mail it is composed with,   *)
(* for any numbers of calls, drains, jobs, mails and subscriptions.        *)
(***************************************************************************)
EXTENDS Notifications, FiniteSetTheorems, WellFoundedInduction, TLAPS

USE NotificationsAssumption
USE DEF mailVars, vars, Mail!vars

(***************************************************************************)
(* The operators.                                                          *)
(***************************************************************************)
\* The first of the jobs a call still has to do is one of them.
LEMMA Smallest ==
    ASSUME NEW S \in SUBSET Nat, S # {}
    PROVE  Min(S) \in S /\ \A y \in S : Min(S) <= y
<1> DEFINE R == OpToRel(<, Nat)
<1>1. IsWellFoundedOn(R, Nat)
  BY NatLessThanWellFounded
<1>2. \A x, y \in Nat : ~ <<y, x>> \in R => x <= y
  BY DEF OpToRel
<1> HIDE DEF R
<1>3. \E x \in S : \A y \in S : ~ <<y, x>> \in R
  BY <1>1, WFMin
<1>4. \E x \in S : \A y \in S : x <= y
  BY <1>2, <1>3
<1> QED BY <1>4 DEF Min

LEMMA MailSmallest ==
    ASSUME NEW S \in SUBSET Nat, S # {}
    PROVE  Mail!Min(S) \in S
<1>1. Mail!Min(S) = Min(S)
  BY DEF Mail!Min, Min
<1> QED BY <1>1, Smallest

\* The retry counts a call takes with it.
Copies(n) == UNION {[S -> 0..MaxRetries] : S \in SUBSET (1..n)}

LEMMA CopiesAre ==
    ASSUME NEW n \in Nat, NEW f
    PROVE  f \in Copies(n) <=> /\ f = [i \in DOMAIN f |-> f[i]]
                               /\ DOMAIN f \subseteq 1..n
                               /\ \A i \in DOMAIN f : f[i] \in 0..MaxRetries
<1>1. ASSUME f \in Copies(n)
      PROVE  /\ f = [i \in DOMAIN f |-> f[i]]
             /\ DOMAIN f \subseteq 1..n
             /\ \A i \in DOMAIN f : f[i] \in 0..MaxRetries
  <2>1. PICK S \in SUBSET (1..n) : f \in [S -> 0..MaxRetries]
    BY <1>1 DEF Copies
  <2> QED BY <2>1
<1>2. ASSUME f = [i \in DOMAIN f |-> f[i]], DOMAIN f \subseteq 1..n,
             \A i \in DOMAIN f : f[i] \in 0..MaxRetries
      PROVE  f \in Copies(n)
  <2>1. f \in [DOMAIN f -> 0..MaxRetries]
    BY <1>2
  <2> QED BY <1>2, <2>1 DEF Copies
<1> QED BY <1>1, <1>2

\* A function on 1..n is a sequence.
LEMMA IsSequence ==
    ASSUME NEW S, NEW n \in Nat, NEW f \in [1..n -> S]
    PROVE  f \in Seq(S) /\ Len(f) = n
OBVIOUS

(***************************************************************************)
(* How often a job, or a mail, failed.  retry is what the code counts; a   *)
(* call that overlaps another writes it back from a copy, so it lags       *)
(* behind errors, the attempts that did fail.                              *)
(***************************************************************************)
Counted(j) ==
    /\ j.retry <= j.errors
    /\ j.status = "failed" => j.errors = MaxRetries
    /\ j.status \in {"queued", "retrying"} => j.retry < MaxRetries

Sound(q) == \A i \in DOMAIN q : Counted(q[i])

\* What a call still has to do is queued, with a count that lags behind too.
Backed(q, todo) ==
    /\ DOMAIN todo \subseteq DOMAIN q
    /\ \A i \in DOMAIN todo : todo[i] <= q[i].errors /\ todo[i] < MaxRetries

\* The errors of what is in q only grow.
Grown(q, r) ==
    /\ DOMAIN q \subseteq DOMAIN r
    /\ \A i \in DOMAIN q : q[i].errors <= r[i].errors

LEMMA StillBacked ==
    ASSUME NEW q, NEW r, NEW todo, Grown(q, r), Backed(q, todo),
           \A i \in DOMAIN q : q[i].errors \in Nat /\ r[i].errors \in Nat,
           \A i \in DOMAIN todo : todo[i] \in Nat
    PROVE  Backed(r, todo)
BY DEF Grown, Backed

LEMMA FailedCounts ==
    ASSUME NEW j \in Job, NEW seen \in 0..MaxRetries, seen < MaxRetries, seen <= j.errors
    PROVE  /\ Failed(j, seen) \in Job
           /\ Counted(Failed(j, seen))
           /\ Failed(j, seen).errors >= j.errors
           /\ Failed(j, seen).status # "sending"
<1> DEFINE f == Failed(j, seen)
<1>1. f \in Job
  <2> DEFINE f1 == [j EXCEPT !.status = IF seen + 1 >= MaxRetries THEN "failed" ELSE "retrying"]
             f2 == [f1 EXCEPT !.retry = seen + 1]
             f3 == [f2 EXCEPT !.errors = IF @ < MaxRetries THEN @ + 1 ELSE @]
  <2>1. f1 \in Job
    BY DEF Job, Waiting, Settled
  <2>2. f = [f3 EXCEPT !.due = FALSE]
    BY DEF Failed, Job
  <2> HIDE DEF f, f1
  <2>3. f2 \in Job
    BY <2>1 DEF Job
  <2> HIDE DEF f2
  <2>4. f3 \in Job
    BY <2>3 DEF Job
  <2> HIDE DEF f3
  <2> QED BY <2>2, <2>4 DEF Job
<1>2. /\ f.status = IF seen + 1 >= MaxRetries THEN "failed" ELSE "retrying"
      /\ f.retry = seen + 1
      /\ f.errors = IF j.errors < MaxRetries THEN j.errors + 1 ELSE j.errors
      /\ j.errors \in 0..MaxRetries
  BY DEF Failed, Job
<1> HIDE DEF f
<1> QED BY <1>1, <1>2 DEF f, Counted

LEMMA EndedCounts ==
    ASSUME NEW j \in Job, Counted(j), NEW s \in {"sent", "skipped", "sending"}
    PROVE  /\ Ended(j, s) \in Job
           /\ Counted(Ended(j, s))
           /\ Ended(j, s).errors = j.errors
           /\ Ended(j, s).status = s
BY DEF Ended, Job, Waiting, Settled, Counted

LEMMA RestIs ==
    ASSUME NEW q, NEW todo \in Copies(MaxJobs)
    PROVE  /\ Rest(q, todo) \in Copies(MaxJobs)
           /\ DOMAIN Rest(q, todo) = DOMAIN todo \ Front(q, todo)
           /\ \A i \in DOMAIN Rest(q, todo) : Rest(q, todo)[i] = todo[i]
<1>1. /\ DOMAIN Rest(q, todo) = DOMAIN todo \ Front(q, todo)
      /\ \A i \in DOMAIN Rest(q, todo) : Rest(q, todo)[i] = todo[i]
      /\ Rest(q, todo) = [i \in DOMAIN Rest(q, todo) |-> Rest(q, todo)[i]]
  BY DEF Rest
<1> QED BY <1>1, CopiesAre

\* What the loop does up to its next wait keeps the counts.
LEMMA BeginCounts ==
    ASSUME NEW q \in Seq(Job), NEW todo \in Copies(MaxJobs), Sound(q), Backed(q, todo)
    PROVE  /\ Begin(q, todo) \in Seq(Job) /\ Len(Begin(q, todo)) = Len(q)
           /\ Sound(Begin(q, todo))
           /\ Grown(q, Begin(q, todo))
           /\ Backed(Begin(q, todo), Rest(q, todo))
<1> DEFINE b == Begin(q, todo)
<1>1. DOMAIN b = 1..Len(q) /\ DOMAIN q = 1..Len(q) /\ Len(q) \in Nat
  BY DEF Begin
<1>2. \A i \in DOMAIN todo : todo[i] \in 0..MaxRetries
  BY CopiesAre
<1>3. ASSUME NEW i \in DOMAIN q
      PROVE  /\ b[i] \in Job /\ Counted(b[i]) /\ b[i].errors >= q[i].errors
             /\ q[i].errors \in Nat /\ b[i].errors \in Nat
  <2>1. q[i] \in Job /\ Counted(q[i])
    BY DEF Sound
  <2>2. q[i].errors \in Nat
    BY <2>1 DEF Job
  <2>3. b[i] = q[i] \/ b[i] = Ended(q[i], "sent") \/ b[i] = Ended(q[i], "sending")
        \/ (i \in DOMAIN todo /\ b[i] = Failed(q[i], todo[i]))
    BY DEF Begin, Front
  <2> HIDE DEF b
  <2>4. ASSUME i \in DOMAIN todo, b[i] = Failed(q[i], todo[i])
        PROVE  b[i] \in Job /\ Counted(b[i]) /\ b[i].errors >= q[i].errors
    BY <1>2, <2>1, <2>4, FailedCounts DEF Backed
  <2>5. b[i] \in Job /\ Counted(b[i]) /\ b[i].errors >= q[i].errors
    BY <2>1, <2>2, <2>3, <2>4, EndedCounts
  <2>6. b[i].errors \in Nat
    BY ONLY <2>5 DEF Job
  <2> QED BY <2>2, <2>5, <2>6
<1>4. b \in Seq(Job) /\ Len(b) = Len(q)
  <2>1. b = [i \in 1..Len(q) |-> b[i]]
    BY <1>1 DEF Begin
  <2> HIDE DEF b
  <2>2. b \in [1..Len(q) -> Job]
    BY <1>1, <1>3, <2>1
  <2> QED BY <1>1, <2>2, IsSequence
<1>5. \A i \in DOMAIN q : q[i].errors \in Nat /\ b[i].errors \in Nat
  BY <1>3
<1> HIDE DEF b
<1>6. Sound(b) /\ Grown(q, b)
  BY ONLY <1>1, <1>3, <1>5 DEF Sound, Grown
<1>7. Backed(q, Rest(q, todo))
  <2>1. /\ DOMAIN Rest(q, todo) \subseteq DOMAIN todo
        /\ \A i \in DOMAIN Rest(q, todo) : Rest(q, todo)[i] = todo[i]
    BY RestIs
  <2> QED BY ONLY <2>1, Backed(q, todo) DEF Backed
<1>8. Backed(b, Rest(q, todo))
  <2>1. \A i \in DOMAIN Rest(q, todo) : Rest(q, todo)[i] \in Nat
    <3>1. \A i \in DOMAIN Rest(q, todo) : i \in DOMAIN todo /\ Rest(q, todo)[i] = todo[i]
      BY RestIs
    <3> QED BY <1>2, <3>1
  <2> QED BY <1>5, <1>6, <1>7, <2>1, StillBacked
<1> QED BY <1>4, <1>6, <1>8 DEF b

(***************************************************************************)
(* The same for the queue of mail, and its log.                            *)
(***************************************************************************)
Logged(m) == m.log = IF m.status = "retrying" THEN "queued" ELSE m.status

SoundMail(box) == \A i \in DOMAIN box : Counted(box[i]) /\ Logged(box[i])

LEMMA MailFailedCounts ==
    ASSUME NEW m \in Mail!Mail, NEW seen \in 0..MaxRetries, seen < MaxRetries,
           seen <= m.errors
    PROVE  /\ Mail!Failed(m, seen) \in Mail!Mail
           /\ Counted(Mail!Failed(m, seen)) /\ Logged(Mail!Failed(m, seen))
           /\ Mail!Failed(m, seen).errors >= m.errors
           /\ Mail!Failed(m, seen).status # "sending"
<1> DEFINE f == Mail!Failed(m, seen)
<1>1. f \in Mail!Mail
  BY DEF Mail!Failed, Mail!Mail, Mail!Waiting
<1>2. /\ f.status = IF seen + 1 >= MaxRetries THEN "failed" ELSE "retrying"
      /\ f.log = IF seen + 1 >= MaxRetries THEN "failed" ELSE "queued"
      /\ f.retry = seen + 1
      /\ f.errors = IF m.errors < MaxRetries THEN m.errors + 1 ELSE m.errors
      /\ m.errors \in 0..MaxRetries
  BY DEF Mail!Failed, Mail!Mail
<1> HIDE DEF f
<1> QED BY <1>1, <1>2 DEF f, Counted, Logged

LEMMA MarkedCounts ==
    ASSUME NEW m \in Mail!Mail, Counted(m)
    PROVE  /\ Mail!Sent(m) \in Mail!Mail /\ Counted(Mail!Sent(m)) /\ Logged(Mail!Sent(m))
           /\ Mail!Sent(m).errors = m.errors /\ Mail!Sent(m).status = "sent"
           /\ Mail!Sending(m) \in Mail!Mail /\ Counted(Mail!Sending(m))
           /\ Logged(Mail!Sending(m))
           /\ Mail!Sending(m).errors = m.errors /\ Mail!Sending(m).status = "sending"
BY DEF Mail!Sent, Mail!Sending, Mail!Mail, Mail!Waiting, Counted, Logged

LEMMA MailBeginCounts ==
    ASSUME NEW box \in Seq(Mail!Mail), NEW todo \in Copies(MaxMail), SoundMail(box),
           Backed(box, todo)
    PROVE  /\ Mail!Begin(box, todo) \in Seq(Mail!Mail)
           /\ Len(Mail!Begin(box, todo)) = Len(box)
           /\ SoundMail(Mail!Begin(box, todo))
           /\ Grown(box, Mail!Begin(box, todo))
<1> DEFINE b == Mail!Begin(box, todo)
<1>1. DOMAIN b = 1..Len(box) /\ DOMAIN box = 1..Len(box) /\ Len(box) \in Nat
  BY DEF Mail!Begin
<1>2. ASSUME NEW i \in DOMAIN box
      PROVE  /\ b[i] \in Mail!Mail /\ Counted(b[i]) /\ Logged(b[i])
             /\ b[i].errors = box[i].errors /\ box[i].errors \in Nat
  <2>1. box[i] \in Mail!Mail /\ Counted(box[i]) /\ Logged(box[i])
    BY DEF SoundMail
  <2>2. box[i].errors \in Nat
    BY <2>1 DEF Mail!Mail
  <2>3. b[i] = box[i] \/ b[i] = Mail!Sent(box[i]) \/ b[i] = Mail!Sending(box[i])
    BY DEF Mail!Begin
  <2> HIDE DEF b
  <2> QED BY <2>1, <2>2, <2>3, MarkedCounts
<1>3. b = [i \in 1..Len(box) |-> b[i]]
  BY <1>1 DEF Mail!Begin
<1> HIDE DEF b
<1>4. b \in [1..Len(box) -> Mail!Mail]
  BY <1>1, <1>2, <1>3
<1>5. b \in Seq(Mail!Mail) /\ Len(b) = Len(box)
  BY <1>1, <1>4, IsSequence
<1>6. SoundMail(b) /\ Grown(box, b)
  BY ONLY <1>1, <1>2 DEF SoundMail, Grown
<1> QED BY <1>5, <1>6 DEF b

LEMMA NewMailCounts ==
    /\ Mail!NewMail \in Mail!Mail /\ Counted(Mail!NewMail) /\ Logged(Mail!NewMail)
    /\ Mail!NewMail.status = "queued" /\ Mail!NewMail.errors = 0
BY DEF Mail!NewMail, Mail!Mail, Mail!Waiting, Counted, Logged

\* Mail that is queued comes after what is there.
LEMMA EnqueueCounts ==
    ASSUME mail \in Seq(Mail!Mail), Len(mail) <= MaxMail, SoundMail(mail),
           NEW n \in Nat, Mail!Enqueue(n)
    PROVE  /\ mail' \in Seq(Mail!Mail) /\ Len(mail') <= MaxMail
           /\ SoundMail(mail') /\ Grown(mail, mail')
           /\ DOMAIN mail \subseteq DOMAIN mail'
           /\ \A i \in DOMAIN mail : mail'[i] = mail[i]
           /\ \A i \in DOMAIN mail' \ DOMAIN mail : mail'[i] = Mail!NewMail
<1>1. \A i \in DOMAIN mail : mail[i] \in Mail!Mail
  OBVIOUS
<1>2. \A i \in DOMAIN mail : mail[i].errors \in Nat
  BY <1>1 DEF Mail!Mail
<1>3. CASE mail' = mail
  BY <1>2, <1>3 DEF Grown
<1>4. CASE Len(mail) + n <= MaxMail /\ mail' = mail \o Mail!NewMails(n)
  <2> DEFINE more == Mail!NewMails(n)
  <2>1. more \in [1..n -> Mail!Mail] /\ \A i \in 1..n : more[i] = Mail!NewMail
    BY NewMailCounts DEF Mail!NewMails
  <2> HIDE DEF more
  <2>2. more \in Seq(Mail!Mail) /\ Len(more) = n
    BY <2>1, IsSequence
  <2>3. mail' \in Seq(Mail!Mail) /\ Len(mail') = Len(mail) + n
    BY <1>4, <2>2 DEF more
  <2>4. /\ DOMAIN mail = 1..Len(mail) /\ Len(mail) \in Nat
        /\ DOMAIN mail' = 1..(Len(mail) + n)
    BY <2>3
  <2>5. \A i \in 1..Len(mail) : mail'[i] = mail[i]
    BY <1>4, <2>2 DEF more
  <2>6. \A i \in 1..(Len(mail) + n) : i > Len(mail) => mail'[i] = more[i - Len(mail)]
    BY <1>4, <2>2 DEF more
  <2>7. \A i \in DOMAIN mail' \ DOMAIN mail : mail'[i] = Mail!NewMail
    BY <2>1, <2>4, <2>6
  <2>8. SoundMail(mail')
    BY ONLY SoundMail(mail), <2>4, <2>5, <2>7, NewMailCounts DEF SoundMail
  <2>9. Grown(mail, mail')
    BY ONLY <1>2, <2>4, <2>5 DEF Grown
  <2> QED BY <1>4, <2>3, <2>4, <2>5, <2>7, <2>8, <2>9
<1> QED BY <1>3, <1>4 DEF Mail!Enqueue

(***************************************************************************)
(* The inductive invariant: types, and counts that lag behind the errors.  *)
(***************************************************************************)
JobsInv ==
    /\ job \in Seq(Job) /\ Len(job) <= MaxJobs /\ Sound(job)
    /\ \A t \in Ticks : Backed(job, tick[t].todo)
    /\ tick \in [Ticks -> [todo : Copies(MaxJobs), subs : SUBSET (1..MaxSubs),
                           used : BOOLEAN]]

SubsInv == sub \in Seq(Sub) /\ Len(sub) <= MaxSubs

MailInv ==
    /\ enabled \in BOOLEAN /\ check \in SUBSET BOOLEAN
    /\ mail \in Seq(Mail!Mail) /\ Len(mail) <= MaxMail /\ SoundMail(mail)
    /\ drain \in [Drains -> Copies(MaxMail)]
    /\ \A d \in Drains : Backed(mail, drain[d])

CountInv == JobsInv /\ SubsInv /\ MailInv /\ crashes \in 0..MaxCrashes

LEMMA CountInvSuffices == CountInv => TypeOK /\ FailedWasTried /\ MailLogAgrees
<1> SUFFICES ASSUME CountInv  PROVE TypeOK /\ FailedWasTried /\ MailLogAgrees
  OBVIOUS
<1>1. TypeOK
  BY DEF TypeOK, Mail!TypeOK, CountInv, JobsInv, SubsInv, MailInv, Copies
<1>2. FailedWasTried
  BY DEF FailedWasTried, Mail!MailFailedWasTried, CountInv, JobsInv, MailInv, Sound,
         SoundMail, Counted
<1>3. MailLogAgrees
  BY DEF MailLogAgrees, Mail!MailLogAgrees, CountInv, MailInv, SoundMail, Logged
<1> QED BY <1>1, <1>2, <1>3

\* A call that does nothing has nothing to do.
LEMMA IdleIs ==
    /\ Nothing \in Copies(MaxJobs) /\ Mail!Nothing \in Copies(MaxMail)
    /\ DOMAIN Nothing = {} /\ DOMAIN Mail!Nothing = {}
    /\ Idle \in [todo : Copies(MaxJobs), subs : SUBSET (1..MaxSubs), used : BOOLEAN]
    /\ Idle.todo = Nothing
<1>1. DOMAIN Nothing = {} /\ DOMAIN Mail!Nothing = {}
  BY DEF Nothing, Mail!Nothing
<1>2. Nothing \in Copies(MaxJobs) /\ Mail!Nothing \in Copies(MaxMail)
  BY <1>1, CopiesAre DEF Nothing, Mail!Nothing
<1> QED BY <1>1, <1>2 DEF Idle

LEMMA NoneBacked == ASSUME NEW q  PROVE Backed(q, Nothing) /\ Backed(q, Mail!Nothing)
BY IdleIs DEF Backed

\* The first of the copies of a call that has some, and the others.
LEMMA HeadIs ==
    ASSUME NEW n \in Nat, NEW todo \in Copies(n), todo # Nothing
    PROVE  Head1(todo) \in DOMAIN todo /\ Mail!Head1(todo) \in DOMAIN todo
<1>1. DOMAIN todo \subseteq 1..n /\ todo = [i \in DOMAIN todo |-> todo[i]]
  BY CopiesAre
<1>2. DOMAIN todo # {}
  <2> SUFFICES ASSUME DOMAIN todo = {}  PROVE todo = Nothing
    OBVIOUS
  <2> QED BY <1>1 DEF Nothing
<1> QED BY <1>1, <1>2, Smallest, MailSmallest DEF Head1, Mail!Head1

LEMMA OthersAre ==
    ASSUME NEW n \in Nat, NEW todo \in Copies(n)
    PROVE  /\ Others(todo) \in Copies(n) /\ Mail!Others(todo) \in Copies(n)
           /\ DOMAIN Others(todo) = DOMAIN todo \ {Head1(todo)}
           /\ DOMAIN Mail!Others(todo) = DOMAIN todo \ {Mail!Head1(todo)}
           /\ \A i \in DOMAIN Others(todo) : Others(todo)[i] = todo[i]
           /\ \A i \in DOMAIN Mail!Others(todo) : Mail!Others(todo)[i] = todo[i]
<1>1. /\ DOMAIN Others(todo) = DOMAIN todo \ {Head1(todo)}
      /\ DOMAIN Mail!Others(todo) = DOMAIN todo \ {Mail!Head1(todo)}
      /\ \A i \in DOMAIN Others(todo) : Others(todo)[i] = todo[i]
      /\ \A i \in DOMAIN Mail!Others(todo) : Mail!Others(todo)[i] = todo[i]
      /\ Others(todo) = [i \in DOMAIN Others(todo) |-> Others(todo)[i]]
      /\ Mail!Others(todo) = [i \in DOMAIN Mail!Others(todo) |-> Mail!Others(todo)[i]]
  BY DEF Others, Mail!Others
<1>2. DOMAIN todo \subseteq 1..n /\ \A i \in DOMAIN todo : todo[i] \in 0..MaxRetries
  BY CopiesAre
<1> QED BY <1>1, <1>2, CopiesAre

\* The jobs one call takes.
LEMMA RunnableIs ==
    ASSUME JobsInv
    PROVE  /\ Runnable \in Copies(MaxJobs) /\ Backed(job, Runnable)
           /\ \A i \in DOMAIN Runnable : /\ job[i].status \in Waiting
                                         /\ Runnable[i] = job[i].retry
<1>1. /\ DOMAIN Runnable \subseteq DOMAIN job
      /\ \A i \in DOMAIN Runnable : job[i].status \in Waiting /\ Runnable[i] = job[i].retry
      /\ Runnable = [i \in DOMAIN Runnable |-> Runnable[i]]
  BY DEF Runnable
<1>2. \A i \in DOMAIN job : job[i] \in Job /\ Counted(job[i])
  BY DEF JobsInv, Sound
<1>3. /\ \A i \in DOMAIN Runnable : Runnable[i] \in 0..MaxRetries
      /\ Backed(job, Runnable)
  BY <1>1, <1>2 DEF Job, Counted, Backed, Waiting
<1>4. DOMAIN Runnable \subseteq 1..MaxJobs
  BY <1>1 DEF JobsInv
<1> QED BY <1>1, <1>3, <1>4, CopiesAre

LEMMA MailRunnableIs ==
    ASSUME MailInv
    PROVE  /\ Mail!Runnable \in Copies(MaxMail) /\ Backed(mail, Mail!Runnable)
           /\ \A i \in DOMAIN Mail!Runnable : /\ mail[i].status \in Mail!Waiting
                                              /\ Mail!Runnable[i] = mail[i].retry
<1> DEFINE todo == Mail!Runnable
<1>1. /\ DOMAIN todo \subseteq DOMAIN mail
      /\ \A i \in DOMAIN todo : mail[i].status \in Mail!Waiting /\ todo[i] = mail[i].retry
      /\ todo = [i \in DOMAIN todo |-> todo[i]]
  BY DEF Mail!Runnable
<1>2. \A i \in DOMAIN mail : mail[i] \in Mail!Mail /\ Counted(mail[i])
  BY DEF MailInv, SoundMail
<1> HIDE DEF todo
<1>3. (\A i \in DOMAIN todo : todo[i] \in 0..MaxRetries) /\ Backed(mail, todo)
  BY <1>1, <1>2 DEF Mail!Mail, Counted, Backed, Mail!Waiting
<1>4. DOMAIN todo \subseteq 1..MaxMail
  BY <1>1 DEF MailInv
<1> QED BY <1>1, <1>3, <1>4, CopiesAre DEF todo

(***************************************************************************)
(* Every step keeps them.                                                  *)
(***************************************************************************)
LEMMA Joined ==
    ASSUME NEW S, NEW q \in Seq(S), NEW n \in Nat, NEW more \in [1..n -> S]
    PROVE  /\ q \o more \in Seq(S) /\ Len(q \o more) = Len(q) + n
           /\ DOMAIN q = 1..Len(q) /\ Len(q) \in Nat
           /\ DOMAIN (q \o more) = 1..(Len(q) + n)
           /\ \A i \in 1..Len(q) : (q \o more)[i] = q[i]
           /\ \A i \in 1..(Len(q) + n) :
                 i > Len(q) => i - Len(q) \in 1..n /\ (q \o more)[i] = more[i - Len(q)]
<1>1. more \in Seq(S) /\ Len(more) = n
  BY IsSequence
<1> QED BY <1>1

LEMMA ErrorsCount ==
    ASSUME NEW q, \/ q \in Seq(Job)
                  \/ q \in Seq(Mail!Mail)
    PROVE  \A i \in DOMAIN q : q[i].errors \in Nat
<1>1. CASE q \in Seq(Job)
  <2>1. \A i \in DOMAIN q : q[i] \in Job
    BY <1>1
  <2> QED BY <2>1 DEF Job
<1>2. CASE q \in Seq(Mail!Mail)
  <2>1. \A i \in DOMAIN q : q[i] \in Mail!Mail
    BY <1>2
  <2> QED BY <2>1 DEF Mail!Mail
<1> QED BY <1>1, <1>2

\* What a call has to do stays backed by jobs, or mails, whose errors only grow.
LEMMA CallsBacked ==
    ASSUME NEW q, NEW r, NEW n \in Nat, NEW todo \in Copies(n),
           Grown(q, r), Backed(q, todo),
           \/ q \in Seq(Job) /\ r \in Seq(Job)
           \/ q \in Seq(Mail!Mail) /\ r \in Seq(Mail!Mail)
    PROVE  Backed(r, todo)
<1>1. \A i \in DOMAIN q : q[i].errors \in Nat /\ r[i].errors \in Nat
  BY ErrorsCount DEF Grown
<1>2. \A i \in DOMAIN todo : todo[i] \in Nat
  BY CopiesAre
<1> QED BY <1>1, <1>2, StillBacked

\* A step that leaves the calls alone, and lets errors only grow.
LEMMA JobsGrow ==
    ASSUME JobsInv, job' \in Seq(Job), Len(job') <= MaxJobs, Sound(job'),
           Grown(job, job'), UNCHANGED tick
    PROVE  JobsInv'
<1>1. \A t \in Ticks : tick[t].todo \in Copies(MaxJobs) /\ Backed(job, tick[t].todo)
  BY DEF JobsInv
<1>2. \A t \in Ticks : Backed(job', tick[t].todo)
  BY <1>1, CallsBacked DEF JobsInv
<1> QED BY <1>2 DEF JobsInv

LEMMA MailGrows ==
    ASSUME MailInv, mail' \in Seq(Mail!Mail), Len(mail') <= MaxMail, SoundMail(mail'),
           Grown(mail, mail'), enabled' \in BOOLEAN, check' \in SUBSET BOOLEAN,
           \A d \in Drains : drain'[d] = drain[d] \/ Backed(mail', drain'[d]),
           drain' \in [Drains -> Copies(MaxMail)]
    PROVE  MailInv'
<1>1. \A d \in Drains : drain[d] \in Copies(MaxMail) /\ Backed(mail, drain[d])
  BY DEF MailInv
<1>2. \A d \in Drains : Backed(mail', drain[d])
  BY <1>1, CallsBacked DEF MailInv
<1>3. \A d \in Drains : Backed(mail', drain'[d])
  BY <1>2
<1> QED BY <1>3 DEF MailInv

LEMMA GrowsOn ==
    ASSUME NEW p, NEW q, NEW r, Grown(p, q), Grown(q, r),
           \A i \in DOMAIN p : p[i].errors \in Nat,
           \A i \in DOMAIN q : q[i].errors \in Nat,
           \A i \in DOMAIN r : r[i].errors \in Nat
    PROVE  Grown(p, r)
BY DEF Grown

\* Mail is queued for so many of the jobs at the front.
LEMMA FrontCounts ==
    ASSUME NEW q, NEW todo \in Copies(MaxJobs)
    PROVE  Cardinality({i \in Front(q, todo) : q[i].valid}) \in Nat
<1> DEFINE S == {i \in Front(q, todo) : q[i].valid}
<1>1. S \subseteq DOMAIN todo /\ DOMAIN todo \subseteq 1..MaxJobs
  BY CopiesAre DEF Front
<1>2. IsFiniteSet(1..MaxJobs)
  BY FS_Interval
<1> HIDE DEF S
<1>3. IsFiniteSet(S)
  BY <1>1, <1>2, FS_Subset
<1> QED BY <1>3, FS_CardinalityType DEF S

LEMMA LoopCounts ==
    ASSUME JobsInv, MailInv, NEW t \in Ticks, NEW q \in Seq(Job), Len(q) = Len(job),
           Sound(q), Grown(job, q), NEW todo \in Copies(MaxJobs), Backed(q, todo),
           Loop(t, q, todo)
    PROVE  JobsInv' /\ MailInv' /\ UNCHANGED crashes
<1> DEFINE rest == Rest(q, todo)
           new == IF rest = Nothing THEN Idle
                  ELSE [todo |-> rest, subs |-> q[Head1(rest)].subs, used |-> FALSE]
<1>1. /\ job' = Begin(q, todo)
      /\ Mail!Enqueue(Cardinality({i \in Front(q, todo) : q[i].valid}))
      /\ tick' = [tick EXCEPT ![t] = new]
      /\ UNCHANGED <<crashes, enabled, check, drain>>
  BY DEF Loop
<1>2. /\ rest \in Copies(MaxJobs) /\ DOMAIN rest \subseteq DOMAIN todo
      /\ DOMAIN todo \subseteq DOMAIN q
  BY RestIs DEF Backed
<1>3. new \in [todo : Copies(MaxJobs), subs : SUBSET (1..MaxSubs), used : BOOLEAN]
  <2>1. CASE rest = Nothing
    BY <2>1, IdleIs
  <2>2. CASE rest # Nothing
    <3> HIDE DEF rest
    <3>1. Head1(rest) \in DOMAIN q
      BY <1>2, <2>2, HeadIs
    <3>2. q[Head1(rest)] \in Job
      BY <3>1
    <3>3. q[Head1(rest)].subs \in SUBSET (1..MaxSubs)
      BY <3>2 DEF Job
    <3> QED BY <1>2, <2>2, <3>3
  <2> QED BY <2>1, <2>2
<1>4. new.todo = rest
  BY IdleIs
<1> HIDE DEF new, rest
<1>5. /\ job' \in Seq(Job) /\ Len(job') = Len(job) /\ Sound(job') /\ Grown(q, job')
      /\ Backed(job', rest)
  BY <1>1, BeginCounts DEF rest
<1>6. Grown(job, job')
  BY <1>5, ErrorsCount, GrowsOn DEF JobsInv
<1>7. JobsInv'
  <2>1. \A u \in Ticks : tick[u].todo \in Copies(MaxJobs) /\ Backed(job, tick[u].todo)
    BY DEF JobsInv
  <2>2. \A u \in Ticks : Backed(job', tick[u].todo)
    BY <1>5, <1>6, <2>1, CallsBacked DEF JobsInv
  <2>3. \A u \in Ticks : Backed(job', tick'[u].todo)
    BY <1>1, <1>4, <1>5, <2>2 DEF JobsInv
  <2> QED BY <1>1, <1>3, <1>5, <2>3 DEF JobsInv
<1>8. Cardinality({i \in Front(q, todo) : q[i].valid}) \in Nat
  BY FrontCounts
<1>9. MailInv'
  BY <1>1, <1>8, EnqueueCounts, MailGrows DEF MailInv
<1> QED BY <1>1, <1>7, <1>9

\* The queue of mail on its own.
LEMMA MailBeginKeeps ==
    ASSUME MailInv, NEW d \in Drains, NEW box \in Seq(Mail!Mail), Len(box) = Len(mail),
           SoundMail(box), Grown(mail, box), NEW todo \in Copies(MaxMail),
           Backed(box, todo), mail' = Mail!Begin(box, todo),
           drain' = [drain EXCEPT ![d] = Mail!Left(todo)], UNCHANGED <<enabled, check>>
    PROVE  MailInv'
<1>1. /\ mail' \in Seq(Mail!Mail) /\ Len(mail') = Len(mail) /\ SoundMail(mail')
      /\ Grown(box, mail')
  BY MailBeginCounts
<1>2. Grown(mail, mail')
  BY <1>1, ErrorsCount, GrowsOn DEF MailInv
<1>3. Backed(mail', todo)
  BY <1>1, CallsBacked
<1>4. Mail!Left(todo) \in Copies(MaxMail) /\ Backed(mail', Mail!Left(todo))
  BY <1>3, IdleIs, NoneBacked DEF Mail!Left
<1>5. /\ drain' \in [Drains -> Copies(MaxMail)]
      /\ \A e \in Drains : drain'[e] = drain[e] \/ Backed(mail', drain'[e])
  BY <1>4 DEF MailInv
<1> QED BY <1>1, <1>2, <1>5, MailGrows DEF MailInv

MailOutcome(d, result) ==
    LET i == Mail!Head1(drain[d])
    IN  result = Mail!Sent(mail[i]) \/ result = Mail!Failed(mail[i], drain[d][i])

LEMMA AnsweredIs ==
    ASSUME MailInv, NEW d \in Drains, NEW result, MailOutcome(d, result),
           drain[d] # Mail!Nothing
    PROVE  LET todo == drain[d]
               i == Mail!Head1(todo)
               box == [mail EXCEPT ![i] = result]
           IN  /\ i \in DOMAIN todo /\ i \in DOMAIN mail
               /\ result \in Mail!Mail /\ result.status # "sending"
               /\ box \in Seq(Mail!Mail) /\ Len(box) = Len(mail) /\ DOMAIN box = DOMAIN mail
               /\ SoundMail(box) /\ Grown(mail, box)
               /\ box[i] = result /\ \A k \in DOMAIN mail : k # i => box[k] = mail[k]
               /\ Mail!Others(todo) \in Copies(MaxMail) /\ Backed(box, Mail!Others(todo))
<1> DEFINE i == Mail!Head1(drain[d])
           box == [mail EXCEPT ![i] = result]
           todo == Mail!Others(drain[d])
<1>1. drain[d] \in Copies(MaxMail) /\ Backed(mail, drain[d])
  BY DEF MailInv
<1>2. i \in DOMAIN drain[d] /\ i \in DOMAIN mail /\ drain[d][i] \in 0..MaxRetries
      /\ drain[d][i] <= mail[i].errors /\ drain[d][i] < MaxRetries
  <2>1. drain[d] # Nothing
    BY DEF Mail!Nothing, Nothing
  <2>2. i \in DOMAIN drain[d]
    BY <1>1, <2>1, HeadIs
  <2>3. drain[d][i] \in 0..MaxRetries
    BY <1>1, <2>2, CopiesAre
  <2> HIDE DEF i
  <2> QED BY ONLY <1>1, <2>2, <2>3 DEF Backed
<1>3. mail[i] \in Mail!Mail /\ Counted(mail[i]) /\ Logged(mail[i])
  BY <1>2 DEF MailInv, SoundMail
<1>4. /\ result \in Mail!Mail /\ Counted(result) /\ Logged(result)
      /\ result.status # "sending"
      /\ result.errors >= mail[i].errors
      /\ mail[i].errors \in Nat
  <2>1. mail[i].errors \in Nat
    BY <1>3 DEF Mail!Mail
  <2>4. \/ result = Mail!Sent(mail[i])
        \/ result = Mail!Failed(mail[i], drain[d][i])
    BY DEF MailOutcome
  <2> HIDE DEF i
  <2>2. CASE result = Mail!Sent(mail[i])
    BY <1>3, <2>1, <2>2, MarkedCounts
  <2>3. CASE result = Mail!Failed(mail[i], drain[d][i])
    BY <1>2, <1>3, <2>1, <2>3, MailFailedCounts
  <2> QED BY <2>2, <2>3, <2>4
<1> HIDE DEF i
<1>5. /\ box \in Seq(Mail!Mail) /\ Len(box) = Len(mail) /\ DOMAIN box = DOMAIN mail
      /\ box[i] = result /\ \A k \in DOMAIN mail : k # i => box[k] = mail[k]
  BY <1>2, <1>4 DEF MailInv
<1> HIDE DEF box
<1>6. SoundMail(box)
  BY <1>4, <1>5 DEF SoundMail, MailInv
<1>7. Grown(mail, box)
  BY <1>4, <1>5, ErrorsCount DEF Grown, MailInv
<1>8. todo \in Copies(MaxMail) /\ Backed(mail, todo)
  BY <1>1, OthersAre DEF Backed
<1> HIDE DEF todo
<1>9. Backed(box, todo)
  BY <1>5, <1>7, <1>8, CallsBacked DEF MailInv
<1> QED BY <1>2, <1>4, <1>5, <1>6, <1>7, <1>8, <1>9 DEF i, box, todo

LEMMA AnsweredKeeps ==
    ASSUME MailInv, NEW d \in Drains, NEW result, MailOutcome(d, result),
           Mail!Answered(d, result)
    PROVE  MailInv'
<1> DEFINE i == Mail!Head1(drain[d])
           box == [mail EXCEPT ![i] = result]
           todo == Mail!Others(drain[d])
<1>1. /\ mail' = Mail!Begin(box, todo) /\ drain[d] # Mail!Nothing
      /\ drain' = [drain EXCEPT ![d] = Mail!Left(todo)]
      /\ UNCHANGED <<enabled, check>>
  BY DEF Mail!Answered
<1>2. /\ box \in Seq(Mail!Mail) /\ Len(box) = Len(mail) /\ SoundMail(box)
      /\ Grown(mail, box) /\ todo \in Copies(MaxMail) /\ Backed(box, todo)
  BY <1>1, AnsweredIs
<1> HIDE DEF box, todo
<1> QED BY <1>1, <1>2, MailBeginKeeps

LEMMA MailCounts ==
    ASSUME MailInv, Mail!Next  PROVE MailInv'
<1> USE DEF MailInv
<1>1. CASE Mail!SendEmail
  BY <1>1, EnqueueCounts, MailGrows DEF Mail!SendEmail
<1>2. CASE Mail!SetStatus \/ Mail!CheckConfiguration \/ Mail!Checked
  BY <1>2 DEF Mail!SetStatus, Mail!CheckConfiguration, Mail!Checked
<1>3. ASSUME NEW d \in Drains, Mail!ProcessQueue(d)  PROVE MailInv'
  <2>1. Mail!Runnable \in Copies(MaxMail) /\ Backed(mail, Mail!Runnable)
    BY MailRunnableIs
  <2>2. mail \in Seq(Mail!Mail) /\ Grown(mail, mail) /\ SoundMail(mail)
    BY ErrorsCount DEF Grown
  <2> QED BY <1>3, <2>1, <2>2, MailBeginKeeps DEF Mail!ProcessQueue
<1>4. ASSUME NEW d \in Drains, Mail!Delivered(d)  PROVE MailInv'
  BY <1>4, AnsweredKeeps DEF Mail!Delivered, MailOutcome
<1>5. ASSUME NEW d \in Drains, Mail!Refused(d)  PROVE MailInv'
  BY <1>5, AnsweredKeeps DEF Mail!Refused, MailOutcome
<1>6. ASSUME NEW i \in 1..MaxMail, Mail!Due(i)  PROVE MailInv'
  <2> DEFINE m == [mail[i] EXCEPT !.due = TRUE]
  <2>1. i \in DOMAIN mail /\ mail[i] \in Mail!Mail /\ Counted(mail[i]) /\ Logged(mail[i])
    BY <1>6 DEF Mail!Due, SoundMail
  <2>2. m \in Mail!Mail /\ Counted(m) /\ Logged(m) /\ m.errors = mail[i].errors
    BY <2>1 DEF Mail!Mail, Counted, Logged
  <2>3. mail' = [mail EXCEPT ![i] = m] /\ UNCHANGED <<enabled, check, drain>>
    BY <1>6 DEF Mail!Due
  <2> HIDE DEF m
  <2>4. /\ mail' \in Seq(Mail!Mail) /\ Len(mail') = Len(mail) /\ DOMAIN mail' = DOMAIN mail
        /\ \A k \in DOMAIN mail : mail'[k] = IF k = i THEN m ELSE mail[k]
    BY <2>1, <2>2, <2>3
  <2>5. SoundMail(mail') /\ Grown(mail, mail')
    BY <2>2, <2>4, ErrorsCount DEF SoundMail, Grown
  <2> QED BY <2>3, <2>4, <2>5, MailGrows
<1> QED BY <1>1, <1>2, <1>3, <1>4, <1>5, <1>6 DEF Mail!Next

\* The first job of a call, with a result, before the loop goes on.
Outcome(t, result) ==
    LET i == Head1(tick[t].todo)
    IN  \/ \E s \in {"sent", "skipped"} : result = Ended(job[i], s)
        \/ result = Failed(job[i], tick[t].todo[i])

LEMMA EndIs ==
    ASSUME JobsInv, NEW t \in Ticks, tick[t].todo # Nothing, NEW result, Outcome(t, result)
    PROVE  LET todo == tick[t].todo
               i == Head1(todo)
               q == [job EXCEPT ![i] = result]
           IN  /\ i \in DOMAIN todo /\ i \in DOMAIN job /\ result.status # "sending"
               /\ q \in Seq(Job) /\ Len(q) = Len(job) /\ DOMAIN q = DOMAIN job
               /\ Sound(q) /\ Grown(job, q)
               /\ q[i] = result /\ \A k \in DOMAIN job : k # i => q[k] = job[k]
               /\ Others(todo) \in Copies(MaxJobs) /\ Backed(q, Others(todo))
<1> DEFINE todo == tick[t].todo
           i == Head1(todo)
           q == [job EXCEPT ![i] = result]
<1>1. todo \in Copies(MaxJobs) /\ Backed(job, todo)
  BY DEF JobsInv
<1>2. i \in DOMAIN todo
  BY <1>1, HeadIs
<1>3. i \in DOMAIN job /\ todo[i] \in 0..MaxRetries
      /\ todo[i] <= job[i].errors /\ todo[i] < MaxRetries
  <2>1. todo[i] \in 0..MaxRetries
    BY <1>1, <1>2, CopiesAre
  <2> HIDE DEF i, todo
  <2> QED BY ONLY <1>1, <1>2, <2>1 DEF Backed
<1>4. job[i] \in Job /\ Counted(job[i])
  BY <1>3 DEF JobsInv, Sound
<1>5. /\ result \in Job /\ Counted(result) /\ result.status # "sending"
      /\ result.errors >= job[i].errors
      /\ job[i].errors \in Nat
  <2>1. job[i].errors \in Nat
    BY <1>4 DEF Job
  <2>2. \/ \E s \in {"sent", "skipped"} : result = Ended(job[i], s)
        \/ result = Failed(job[i], todo[i])
    BY DEF Outcome
  <2> HIDE DEF i, todo
  <2>3. ASSUME NEW s \in {"sent", "skipped"}, result = Ended(job[i], s)
        PROVE  /\ result \in Job /\ Counted(result) /\ result.status # "sending"
               /\ result.errors >= job[i].errors
    BY <1>4, <2>1, <2>3, EndedCounts
  <2>4. ASSUME result = Failed(job[i], todo[i])
        PROVE  /\ result \in Job /\ Counted(result) /\ result.status # "sending"
               /\ result.errors >= job[i].errors
    BY <1>3, <1>4, <2>4, FailedCounts
  <2> QED BY <2>1, <2>2, <2>3, <2>4
<1> HIDE DEF i
<1>6. /\ q \in Seq(Job) /\ Len(q) = Len(job) /\ DOMAIN q = DOMAIN job
      /\ q[i] = result /\ \A k \in DOMAIN job : k # i => q[k] = job[k]
  BY <1>3, <1>5 DEF JobsInv
<1> HIDE DEF q, todo
<1>7. Sound(q)
  BY <1>5, <1>6 DEF Sound, JobsInv
<1>8. Grown(job, q)
  BY <1>5, <1>6, ErrorsCount DEF Grown, JobsInv
<1>9. Others(todo) \in Copies(MaxJobs) /\ Backed(job, Others(todo))
  BY <1>1, OthersAre DEF Backed
<1>10. Backed(q, Others(todo))
  BY <1>6, <1>8, <1>9, CallsBacked DEF JobsInv
<1> QED BY <1>2, <1>3, <1>5, <1>6, <1>7, <1>8, <1>9, <1>10 DEF i, q, todo

LEMMA EndCounts ==
    ASSUME JobsInv, MailInv, NEW t \in Ticks, tick[t].todo # Nothing, NEW result,
           Outcome(t, result), End(t, result)
    PROVE  JobsInv' /\ MailInv' /\ UNCHANGED crashes
<1> DEFINE todo == tick[t].todo
           q == [job EXCEPT ![Head1(todo)] = result]
<1>1. Loop(t, q, Others(todo))
  BY DEF End
<1>2. /\ q \in Seq(Job) /\ Len(q) = Len(job) /\ Sound(q) /\ Grown(job, q)
      /\ Others(todo) \in Copies(MaxJobs) /\ Backed(q, Others(todo))
  BY EndIs
<1> HIDE DEF q, todo
<1> QED BY <1>1, <1>2, LoopCounts

\* What send() queues comes after what is there.
New(j) == j.status = "queued" /\ j.errors = 0 /\ j.retry = 0

LEMMA SendIs ==
    ASSUME JobsInv, SubsInv, NEW C \in SUBSET Channels, NEW quiet \in BOOLEAN,
           NEW ok \in BOOLEAN, Send(C, quiet, ok)
    PROVE  /\ JobsInv' /\ DOMAIN job \subseteq DOMAIN job' /\ DOMAIN job' \subseteq Nat
           /\ \A i \in DOMAIN job' :
                 (i \in DOMAIN job /\ job'[i] = job[i]) \/ (i \notin DOMAIN job /\ New(job'[i]))
<1> DEFINE one(c) == IF c \in C THEN <<c>> ELSE << >>
           order == one("email") \o one("sms") \o one("push")
           more == [k \in DOMAIN order |-> NewJob(order[k], quiet, ok)]
<1>1. /\ Len(job) + Len(order) <= MaxJobs /\ job' = job \o more
      /\ UNCHANGED tick
  BY DEF Send
<1>2. order \in Seq(Channels)
  <2>1. \A c \in Channels : one(c) \in Seq(Channels)
    OBVIOUS
  <2>2. "email" \in Channels /\ "sms" \in Channels /\ "push" \in Channels
    BY DEF Channels
  <2> HIDE DEF one
  <2> QED BY <2>1, <2>2
<1>3. Active \in SUBSET (1..MaxSubs)
  BY DEF Active, SubsInv
<1>4. \A c \in Channels :
         LET j == NewJob(c, quiet, ok)
         IN  j \in Job /\ Counted(j) /\ New(j)
  BY <1>3 DEF NewJob, Job, Waiting, Counted, New
<1> HIDE DEF order
<1>5. /\ more \in [1..Len(order) -> Job] /\ Len(order) \in Nat
      /\ \A k \in 1..Len(order) : Counted(more[k]) /\ New(more[k])
  BY <1>2, <1>4
<1> HIDE DEF more
<1>6. /\ job' \in Seq(Job) /\ Len(job') = Len(job) + Len(order)
      /\ DOMAIN job = 1..Len(job) /\ Len(job) \in Nat
      /\ DOMAIN job' = 1..(Len(job) + Len(order))
      /\ \A i \in 1..Len(job) : job'[i] = job[i]
      /\ \A i \in 1..(Len(job) + Len(order)) :
            i > Len(job) => /\ i - Len(job) \in 1..Len(order)
                            /\ job'[i] = more[i - Len(job)]
  <2>1. job \in Seq(Job)
    BY DEF JobsInv
  <2> DEFINE all == job \o more
             n == Len(order)
  <2>2. more \in [1..n -> Job] /\ n \in Nat
    BY <1>5
  <2> HIDE DEF n
  <2>3. /\ all \in Seq(Job) /\ Len(all) = Len(job) + n
        /\ DOMAIN job = 1..Len(job) /\ Len(job) \in Nat
        /\ DOMAIN all = 1..(Len(job) + n)
        /\ \A i \in 1..Len(job) : all[i] = job[i]
        /\ \A i \in 1..(Len(job) + n) :
              i > Len(job) => i - Len(job) \in 1..n /\ all[i] = more[i - Len(job)]
    BY ONLY <2>1, <2>2, Joined
  <2> QED BY ONLY <1>1, <2>3 DEF n
<1>7. Sound(job')
  <2>1. \A i \in 1..Len(job) : Counted(job[i])
    BY <1>6 DEF JobsInv, Sound
  <2> QED BY ONLY <2>1, <1>5, <1>6 DEF Sound
<1>8. Grown(job, job')
  <2>1. \A i \in 1..Len(job) : job[i].errors \in Nat
    BY <1>6, ErrorsCount DEF JobsInv
  <2> QED BY ONLY <2>1, <1>5, <1>6 DEF Grown
<1> QED BY <1>1, <1>5, <1>6, <1>7, <1>8, JobsGrow DEF JobsInv

LEMMA WorkCounts ==
    ASSUME CountInv, NEW t \in Ticks, Work(t)
    PROVE  JobsInv' /\ MailInv' /\ UNCHANGED crashes
<1> USE DEF CountInv
<1>1. CASE ProcessQueue(t)
  <2>1. job \in Seq(Job) /\ Sound(job) /\ Grown(job, job)
    BY ErrorsCount DEF JobsInv, Grown
  <2> QED BY <1>1, <2>1, RunnableIs, LoopCounts DEF ProcessQueue
<1>2. ASSUME NEW c \in Channels, Error(t, c)
      PROVE  JobsInv' /\ MailInv' /\ UNCHANGED crashes
  BY <1>2, EndCounts DEF Error, Busy, Outcome
<1>3. CASE SmsSent(t)
  BY <1>3, EndCounts DEF SmsSent, Busy, Outcome
<1>4. ASSUME NEW a \in {"sent", "expired", "skipped"}, Pushed(t, a)
      PROVE  JobsInv' /\ MailInv' /\ UNCHANGED crashes
  <2> DEFINE i == Head1(tick[t].todo)
             used == tick[t].used \/ a # "skipped"
  <2>1. CASE tick[t].subs = {Min(tick[t].subs)}
    <3>1. tick[t].todo # Nothing
          /\ End(t, Ended(job[i], IF used THEN "sent" ELSE "skipped"))
      BY <1>4, <2>1 DEF Pushed, Busy
    <3>2. (IF used THEN "sent" ELSE "skipped") \in {"sent", "skipped"}
      OBVIOUS
    <3> QED BY <3>1, <3>2, EndCounts DEF Outcome
  <2>2. CASE tick[t].subs # {Min(tick[t].subs)}
    <3>1. tick' = [tick EXCEPT ![t].subs = @ \ {Min(tick[t].subs)}, ![t].used = used]
          /\ UNCHANGED <<job, crashes, mailVars>>
      BY <1>4, <2>2 DEF Pushed
    <3>2. tick[t] \in [todo : Copies(MaxJobs), subs : SUBSET (1..MaxSubs), used : BOOLEAN]
          /\ used \in BOOLEAN
      BY DEF JobsInv
    <3> HIDE DEF used
    <3>3. \A u \in Ticks : tick'[u].todo = tick[u].todo
      BY <3>1 DEF JobsInv
    <3>4. tick' \in [Ticks -> [todo : Copies(MaxJobs), subs : SUBSET (1..MaxSubs),
                               used : BOOLEAN]]
      BY <3>1, <3>2 DEF JobsInv
    <3> QED BY <3>1, <3>3, <3>4 DEF JobsInv, MailInv
  <2> QED BY <2>1, <2>2
<1> QED BY <1>1, <1>2, <1>3, <1>4 DEF Work, Channels

\* The subscriptions change one at a time.
Subscribed(e) ==
    /\ Len(sub) < MaxSubs
    /\ ~ \E s \in Active : sub[s].endpoint = e
    /\ sub' = Append(sub, [endpoint |-> e, state |-> "active"])

Stopped(s, x) ==
    /\ x \in {"revoked", "expired"}
    /\ sub' = [sub EXCEPT ![s].state = x]

SubsChange ==
    \/ sub' = sub
    \/ \E e \in Endpoints : Subscribed(e)
    \/ \E s, x : Stopped(s, x)

LEMMA SubsChangeAlone ==
    ASSUME [Next]_vars  PROVE SubsChange
<1> USE DEF SubsChange, Subscribed, Stopped
<1>1. ASSUME NEW C, NEW quiet, NEW ok, Send(C, quiet, ok)  PROVE SubsChange
  BY <1>1 DEF Send
<1>2. ASSUME NEW e \in Endpoints, SubscribePush(e)  PROVE SubsChange
  BY <1>2 DEF SubscribePush
<1>3. ASSUME NEW s, Revoke(s)  PROVE SubsChange
  BY <1>3 DEF Revoke
<1>4. ASSUME NEW e \in Endpoints, UnsubscribeEndpoint(e)  PROVE SubsChange
  BY <1>3, <1>4 DEF UnsubscribeEndpoint
<1>5. ASSUME NEW s, UnsubscribeId(s)  PROVE SubsChange
  BY <1>3, <1>5 DEF UnsubscribeId
<1>6. ASSUME NEW t \in Ticks, Work(t)  PROVE SubsChange
  <2>1. CASE ProcessQueue(t) \/ (\E c \in Channels : Error(t, c)) \/ SmsSent(t)
    BY <2>1 DEF ProcessQueue, Error, SmsSent
  <2>2. ASSUME NEW a, Pushed(t, a)  PROVE SubsChange
    BY <2>2 DEF Pushed, Answered
  <2> QED BY <1>6, <2>1, <2>2 DEF Work, Channels
<1>7. ASSUME NEW i, Due(i)  PROVE SubsChange
  BY <1>7 DEF Due
<1>8. CASE MailStep \/ Crash \/ UNCHANGED vars
  BY <1>8 DEF MailStep, Crash
<1> QED BY <1>1, <1>2, <1>4, <1>5, <1>6, <1>7, <1>8 DEF Next

LEMMA SubsCount == ASSUME SubsInv, SubsChange  PROVE SubsInv'
<1>1. ASSUME NEW e \in Endpoints, Subscribed(e)  PROVE SubsInv'
  BY <1>1 DEF Subscribed, SubsInv, Sub
<1>2. ASSUME NEW s, NEW x, Stopped(s, x)  PROVE SubsInv'
  <2>1. CASE s \in DOMAIN sub
    <3>1. sub[s] \in Sub
      BY <2>1 DEF SubsInv
    <3>2. [sub[s] EXCEPT !.state = x] \in Sub
      BY <1>2, <3>1 DEF Sub, Stopped
    <3> QED BY <1>2, <2>1, <3>2 DEF Stopped, SubsInv
  <2>2. CASE s \notin DOMAIN sub
    <3>1. sub' = sub
      BY <1>2, <2>2 DEF Stopped, SubsInv
    <3> QED BY <3>1 DEF SubsInv
  <2> QED BY <2>1, <2>2
<1>3. CASE sub' = sub
  BY <1>3 DEF SubsInv
<1> QED BY <1>1, <1>2, <1>3 DEF SubsChange

\* Of the queues, a step changes what one of these actions changes.
LEMMA StepCounts ==
    ASSUME CountInv, [Next]_vars  PROVE CountInv'
<1> USE DEF CountInv
<1>1. SubsInv'
  BY SubsChangeAlone, SubsCount
<1>2. ASSUME NEW C \in SUBSET Channels, NEW quiet \in BOOLEAN, NEW ok \in BOOLEAN,
             Send(C, quiet, ok)
      PROVE  CountInv'
  BY <1>1, <1>2, SendIs DEF Send, MailInv
<1>3. CASE UNCHANGED <<job, tick, crashes, mailVars>>
  BY <1>1, <1>3 DEF JobsInv, MailInv
<1>4. ASSUME NEW e, SubscribePush(e) \/ UnsubscribeEndpoint(e) \/ UnsubscribeId(e)
      PROVE  CountInv'
  BY <1>3, <1>4 DEF SubscribePush, UnsubscribeEndpoint, UnsubscribeId, Revoke
<1>5. ASSUME NEW t \in Ticks, Work(t)  PROVE CountInv'
  BY <1>1, <1>5, WorkCounts
<1>6. ASSUME NEW i, Due(i)  PROVE CountInv'
  <2> DEFINE j == [job[i] EXCEPT !.due = TRUE]
  <2>1. i \in DOMAIN job /\ job[i] \in Job /\ Counted(job[i])
    BY <1>6 DEF Due, JobsInv, Sound
  <2>2. j \in Job /\ Counted(j) /\ j.errors = job[i].errors
    BY <2>1 DEF Job, Counted
  <2>3. job' = [job EXCEPT ![i] = j] /\ UNCHANGED <<tick, crashes, mailVars>>
    BY <1>6 DEF Due
  <2> HIDE DEF j
  <2>4. /\ job' \in Seq(Job) /\ Len(job') = Len(job) /\ DOMAIN job' = DOMAIN job
        /\ \A k \in DOMAIN job : job'[k] = IF k = i THEN j ELSE job[k]
    BY <2>1, <2>2, <2>3 DEF JobsInv
  <2>5. Sound(job') /\ Grown(job, job')
    BY <2>2, <2>4, ErrorsCount DEF Sound, Grown, JobsInv
  <2> QED BY <1>1, <2>3, <2>4, <2>5, JobsGrow DEF MailInv, JobsInv
<1>7. CASE MailStep
  BY <1>1, <1>7, MailCounts DEF MailStep, JobsInv
<1>8. CASE Crash
  <2>1. /\ tick' = [t \in Ticks |-> Idle] /\ drain' = [d \in Drains |-> Mail!Nothing]
        /\ check' = {} /\ crashes' \in 0..MaxCrashes /\ UNCHANGED <<job, enabled, mail>>
    BY <1>8 DEF Crash, Nothing, Mail!Nothing
  <2>2. JobsInv'
    BY <2>1, IdleIs, NoneBacked DEF JobsInv
  <2>3. MailInv'
    BY <2>1, IdleIs, NoneBacked DEF MailInv
  <2> QED BY <1>1, <2>1, <2>2, <2>3
<1>9. CASE UNCHANGED vars
  BY <1>3, <1>9
<1> QED BY <1>2, <1>4, <1>5, <1>6, <1>7, <1>8, <1>9 DEF Next

LEMMA CountHolds == Spec => []CountInv
<1>1. Init => CountInv
  <2> SUFFICES ASSUME Init  PROVE CountInv
    OBVIOUS
  <2>1. /\ job = << >> /\ sub = << >> /\ mail = << >> /\ crashes = 0
        /\ tick = [t \in Ticks |-> Idle] /\ drain = [d \in Drains |-> Mail!Nothing]
        /\ enabled \in BOOLEAN /\ check = {}
    BY DEF Init, Mail!Init
  <2>2. JobsInv
    BY <2>1, IdleIs, NoneBacked DEF JobsInv, Sound
  <2>3. MailInv
    BY <2>1, IdleIs, NoneBacked DEF MailInv, SoundMail
  <2> QED BY <2>1, <2>2, <2>3 DEF CountInv, SubsInv
<1> QED BY <1>1, StepCounts, PTL DEF Spec

\* The jobs, mails, calls and subscriptions are of their types.
THEOREM TypeCorrect == Spec => []TypeOK
BY CountHolds, CountInvSuffices, PTL

\* A job or a mail is given up only when MaxRetries attempts at it failed, with
\* any number of calls that overlap and count from stale copies.
THEOREM FailedWereTried == Spec => []FailedWasTried
BY CountHolds, CountInvSuffices, PTL

\* The log of every mail says what its job says, whatever calls overlap.
THEOREM LogsAgree == Spec => []MailLogAgrees
BY CountHolds, CountInvSuffices, PTL

(***************************************************************************)
(* Subscriptions.                                                          *)
(***************************************************************************)
\* A browser of a user has one active subscription at most, through answers of
\* the push service that arrive after it unsubscribed or subscribed again.
THEOREM OneSubscription == Spec => []OneActivePerEndpoint
<1>1. Init => OneActivePerEndpoint
  BY DEF Init, OneActivePerEndpoint, Active
<1>2. CountInv /\ OneActivePerEndpoint /\ [Next]_vars => OneActivePerEndpoint'
  <2> SUFFICES ASSUME CountInv, OneActivePerEndpoint, [Next]_vars
               PROVE  OneActivePerEndpoint'
    OBVIOUS
  <2> USE DEF OneActivePerEndpoint, Active
  <2>1. SubsChange /\ sub \in Seq(Sub)
    BY SubsChangeAlone DEF CountInv, SubsInv
  <2>2. ASSUME NEW e \in Endpoints, Subscribed(e)  PROVE OneActivePerEndpoint'
    <3> DEFINE new == [endpoint |-> e, state |-> "active"]
    <3>1. /\ DOMAIN sub' = DOMAIN sub \cup {Len(sub) + 1}
          /\ \A s \in DOMAIN sub : sub'[s] = sub[s]
          /\ sub'[Len(sub) + 1] = new
      BY <2>1, <2>2 DEF Subscribed
    <3> QED BY <2>2, <3>1 DEF Subscribed
  <2>3. ASSUME NEW s, NEW x, Stopped(s, x)  PROVE OneActivePerEndpoint'
    <3>1. /\ DOMAIN sub' = DOMAIN sub
          /\ \A r \in DOMAIN sub : sub'[r].endpoint = sub[r].endpoint
          /\ \A r \in DOMAIN sub : sub'[r].state = sub[r].state \/ sub'[r].state # "active"
      <4>1. \A r \in DOMAIN sub : sub[r] \in Sub
        BY <2>1
      <4> QED BY <2>1, <2>3, <4>1 DEF Stopped, Sub
    <3> QED BY <3>1
  <2> QED BY <2>1, <2>2, <2>3 DEF SubsChange
<1> QED BY <1>1, <1>2, CountHolds, PTL DEF Spec

\* No step makes a subscription active that is not: not even the answer to a
\* push that was under way when the user unsubscribed.
THEOREM OffStaysOff == Spec => SubscriptionsStayOff
<1>1. CountInv /\ [Next]_vars =>
        [\A s \in DOMAIN sub : sub[s].state # "active" => sub'[s].state # "active"]_vars
  <2> SUFFICES ASSUME CountInv, [Next]_vars, NEW s \in DOMAIN sub, sub[s].state # "active"
               PROVE  sub'[s].state # "active"
    OBVIOUS
  <2>1. SubsChange /\ sub \in Seq(Sub) /\ sub[s] \in Sub
    BY SubsChangeAlone DEF CountInv, SubsInv
  <2>2. ASSUME NEW e \in Endpoints, Subscribed(e)  PROVE sub'[s] = sub[s]
    BY <2>1, <2>2 DEF Subscribed
  <2>3. ASSUME NEW r, NEW x, Stopped(r, x)  PROVE sub'[s].state # "active"
    BY <2>1, <2>3 DEF Stopped, Sub
  <2> QED BY <2>1, <2>2, <2>3 DEF SubsChange
<1> QED BY <1>1, CountHolds, PTL DEF Spec, SubscriptionsStayOff

(***************************************************************************)
(* What is being sent.                                                     *)
(***************************************************************************)
Holds(t, i) == tick[t].todo # Nothing /\ Head1(tick[t].todo) = i

JobsHeld == \A i \in DOMAIN job : job[i].status = "sending" => \E t \in Ticks : Holds(t, i)

MailHeld == \A i \in DOMAIN mail : mail[i].status = "sending" => Mail!Held(i)

\* The loop of a call marks one job and goes on to hold it.
LEMMA LoopHolds ==
    ASSUME JobsInv, NEW t \in Ticks, NEW q \in Seq(Job), Sound(q),
           NEW todo \in Copies(MaxJobs), Backed(q, todo), Loop(t, q, todo),
           \A i \in DOMAIN q : q[i].status = "sending" =>
              \E u \in Ticks \ {t} : Holds(u, i)
    PROVE  JobsHeld'
<1> DEFINE rest == Rest(q, todo)
           b == Begin(q, todo)
<1>1. job' = b /\ DOMAIN b = DOMAIN q
  BY DEF Loop, Begin
<1>2. /\ \A u \in Ticks \ {t} : tick'[u] = tick[u]
      /\ rest # Nothing => tick'[t].todo = rest
  BY DEF Loop, JobsInv
<1>3. ASSUME NEW i \in DOMAIN q, b[i].status = "sending"
      PROVE  q[i].status = "sending" \/ (rest # Nothing /\ i = Head1(rest))
  <2>1. q[i] \in Job /\ Counted(q[i])
    BY DEF Sound
  <2>2. \/ b[i] = q[i] \/ b[i] = Ended(q[i], "sent")
        \/ rest # Nothing /\ i = Head1(rest)
        \/ i \in DOMAIN todo /\ b[i] = Failed(q[i], todo[i])
    BY DEF Begin, Front
  <2> HIDE DEF b, rest
  <2>3. ASSUME i \in DOMAIN todo, b[i] = Failed(q[i], todo[i])  PROVE FALSE
    <3>1. todo[i] \in 0..MaxRetries /\ todo[i] < MaxRetries /\ todo[i] <= q[i].errors
      BY <2>3, CopiesAre DEF Backed
    <3> QED BY <1>3, <2>1, <2>3, <3>1, FailedCounts
  <2> QED BY <1>3, <2>1, <2>2, <2>3, EndedCounts
<1> HIDE DEF b, rest
<1> QED BY <1>1, <1>2, <1>3 DEF JobsHeld, Holds

LEMMA EndHolds ==
    ASSUME JobsInv, JobsHeld, NEW t \in Ticks, tick[t].todo # Nothing, NEW result,
           Outcome(t, result), End(t, result)
    PROVE  JobsHeld'
<1> DEFINE todo == tick[t].todo
           i == Head1(todo)
           q == [job EXCEPT ![i] = result]
<1>1. Loop(t, q, Others(todo))
  BY DEF End
<1>2. /\ q \in Seq(Job) /\ DOMAIN q = DOMAIN job /\ Sound(q)
      /\ Others(todo) \in Copies(MaxJobs) /\ Backed(q, Others(todo))
      /\ q[i].status # "sending" /\ \A k \in DOMAIN job : k # i => q[k] = job[k]
  BY EndIs
<1> HIDE DEF q
<1>3. ASSUME NEW k \in DOMAIN q, q[k].status = "sending"
      PROVE  \E u \in Ticks \ {t} : Holds(u, k)
  <2>1. k \in DOMAIN job /\ k # i /\ job[k].status = "sending"
    BY <1>2, <1>3
  <2>2. ~ Holds(t, k)
    BY <2>1 DEF Holds
  <2> QED BY <2>1, <2>2 DEF JobsHeld
<1> HIDE DEF i, todo
<1> QED BY <1>1, <1>2, <1>3, LoopHolds

MailHolds(d, i) == drain[d] # Mail!Nothing /\ Mail!Head1(drain[d]) = i

LEMMA MailBeginHolds ==
    ASSUME MailInv, NEW d \in Drains, NEW box \in Seq(Mail!Mail), SoundMail(box),
           NEW todo \in Copies(MaxMail), mail' = Mail!Begin(box, todo),
           drain' = [drain EXCEPT ![d] = Mail!Left(todo)],
           \A i \in DOMAIN box : box[i].status = "sending" =>
              \E e \in Drains \ {d} : MailHolds(e, i)
    PROVE  MailHeld'
<1> DEFINE b == Mail!Begin(box, todo)
<1>1. DOMAIN b = DOMAIN box /\ drain'[d] = Mail!Left(todo)
      /\ \A e \in Drains \ {d} : drain'[e] = drain[e]
  BY DEF Mail!Begin, MailInv
<1>2. ASSUME NEW i \in DOMAIN box, b[i].status = "sending"
      PROVE  \/ box[i].status = "sending"
             \/ i \in DOMAIN todo /\ i = Mail!Head1(todo) /\ Mail!Left(todo) = todo
  <2>1. box[i] \in Mail!Mail /\ Counted(box[i])
    BY DEF SoundMail
  <2>2. \/ b[i] = box[i] \/ b[i] = Mail!Sent(box[i])
        \/ i \in DOMAIN todo /\ i = Mail!Head1(todo) /\ Mail!Left(todo) = todo
    BY DEF Mail!Begin, Mail!Left
  <2> HIDE DEF b
  <2> QED BY <1>2, <2>1, <2>2, MarkedCounts
<1> HIDE DEF b
<1>3. ASSUME NEW i \in DOMAIN box, b[i].status = "sending"
      PROVE  (\E e \in Drains : MailHolds(e, i))'
  <2>1. CASE box[i].status = "sending"
    BY <1>1, <2>1 DEF MailHolds
  <2>2. CASE i \in DOMAIN todo /\ i = Mail!Head1(todo) /\ Mail!Left(todo) = todo
    <3>1. todo # Mail!Nothing
      BY <2>2, IdleIs
    <3> QED BY <1>1, <2>2, <3>1 DEF MailHolds
  <2> QED BY <1>2, <1>3, <2>1, <2>2
<1> QED BY <1>1, <1>3 DEF MailHeld, Mail!Held, MailHolds, b

LEMMA EnqueueHolds ==
    ASSUME MailInv, MailHeld, NEW n \in Nat, Mail!Enqueue(n), UNCHANGED drain
    PROVE  MailHeld'
<1>1. /\ \A i \in DOMAIN mail : mail'[i] = mail[i]
      /\ \A i \in DOMAIN mail' \ DOMAIN mail : mail'[i] = Mail!NewMail
  BY EnqueueCounts DEF MailInv
<1>2. \A i \in DOMAIN mail' : mail'[i].status = "sending" =>
         i \in DOMAIN mail /\ mail[i].status = "sending"
  BY <1>1, NewMailCounts
<1> QED BY <1>2 DEF MailHeld, Mail!Held

LEMMA AnsweredHolds ==
    ASSUME MailInv, MailHeld, NEW d \in Drains, NEW result, MailOutcome(d, result),
           Mail!Answered(d, result)
    PROVE  MailHeld'
<1> DEFINE todo == drain[d]
           i == Mail!Head1(todo)
           box == [mail EXCEPT ![i] = result]
<1>1. /\ mail' = Mail!Begin(box, Mail!Others(todo))
      /\ drain' = [drain EXCEPT ![d] = Mail!Left(Mail!Others(todo))]
      /\ todo # Mail!Nothing
  BY DEF Mail!Answered
<1>2. /\ box \in Seq(Mail!Mail) /\ DOMAIN box = DOMAIN mail /\ SoundMail(box)
      /\ Mail!Others(todo) \in Copies(MaxMail)
      /\ box[i].status # "sending" /\ \A k \in DOMAIN mail : k # i => box[k] = mail[k]
  BY <1>1, AnsweredIs
<1> HIDE DEF box
<1>3. ASSUME NEW k \in DOMAIN box, box[k].status = "sending"
      PROVE  \E e \in Drains \ {d} : MailHolds(e, k)
  <2>1. k \in DOMAIN mail /\ k # i /\ mail[k].status = "sending"
    BY <1>2, <1>3
  <2>2. ~ MailHolds(d, k)
    BY <2>1 DEF MailHolds
  <2> QED BY <2>1, <2>2 DEF MailHeld, Mail!Held, MailHolds
<1> HIDE DEF i, todo
<1> QED BY <1>1, <1>2, <1>3, MailBeginHolds

LEMMA MailStepHolds ==
    ASSUME MailInv, MailHeld, Mail!Next  PROVE MailHeld'
<1>1. CASE Mail!SendEmail
  BY <1>1, EnqueueHolds DEF Mail!SendEmail
<1>2. CASE UNCHANGED <<mail, drain>>
  BY <1>2 DEF MailHeld, Mail!Held
<1>3. ASSUME NEW d \in Drains, Mail!ProcessQueue(d)  PROVE MailHeld'
  <2>1. Mail!Runnable \in Copies(MaxMail)
    BY MailRunnableIs
  <2>2. \A i \in DOMAIN mail : mail[i].status = "sending" =>
           \E e \in Drains \ {d} : MailHolds(e, i)
    BY <1>3 DEF MailHeld, Mail!Held, MailHolds, Mail!ProcessQueue
  <2> QED BY <1>3, <2>1, <2>2, MailBeginHolds DEF Mail!ProcessQueue, MailInv
<1>4. ASSUME NEW d \in Drains, Mail!Delivered(d) \/ Mail!Refused(d)  PROVE MailHeld'
  BY <1>4, AnsweredHolds DEF Mail!Delivered, Mail!Refused, MailOutcome
<1>5. ASSUME NEW i \in 1..MaxMail, Mail!Due(i)  PROVE MailHeld'
  <2>1. mail[i] \in Mail!Mail /\ i \in DOMAIN mail /\ mail' = [mail EXCEPT ![i].due = TRUE]
        /\ UNCHANGED drain
    BY <1>5 DEF Mail!Due, MailInv
  <2>2. DOMAIN mail' = DOMAIN mail
        /\ \A k \in DOMAIN mail : mail'[k].status = mail[k].status
    BY <2>1 DEF Mail!Mail
  <2> QED BY <2>1, <2>2 DEF MailHeld, Mail!Held
<1> QED BY <1>1, <1>2, <1>3, <1>4, <1>5
        DEF Mail!Next, Mail!SetStatus, Mail!CheckConfiguration, Mail!Checked

\* Of the mail, a call queues some or leaves all alone.
LEMMA WorkEnqueues ==
    ASSUME JobsInv, NEW t \in Ticks, Work(t)
    PROVE  (\E n \in Nat : Mail!Enqueue(n) /\ UNCHANGED drain) \/ UNCHANGED <<mail, drain>>
<1> DEFINE Enqueues == \E n \in Nat : Mail!Enqueue(n) /\ UNCHANGED drain
<1>1. ASSUME NEW q, NEW todo \in Copies(MaxJobs), Loop(t, q, todo)  PROVE Enqueues
  <2> DEFINE n == Cardinality({i \in Front(q, todo) : q[i].valid})
  <2>1. n \in Nat
    BY FrontCounts
  <2>2. Mail!Enqueue(n) /\ UNCHANGED drain
    BY <1>1 DEF Loop
  <2> HIDE DEF n
  <2> QED BY <2>1, <2>2
<1>2. ASSUME NEW result, End(t, result)  PROVE Enqueues
  <2>1. tick[t].todo \in Copies(MaxJobs)
    BY DEF JobsInv
  <2>2. Others(tick[t].todo) \in Copies(MaxJobs)
    BY <2>1, OthersAre
  <2> HIDE DEF Enqueues
  <2> QED BY <1>1, <1>2, <2>2 DEF End
<1>3. ProcessQueue(t) => Enqueues
  <2> HIDE DEF Enqueues
  <2> QED BY <1>1, RunnableIs DEF ProcessQueue
<1> HIDE DEF Enqueues
<1>4. Enqueues \/ UNCHANGED <<mail, drain>>
  BY <1>2, <1>3 DEF Work, Error, SmsSent, Pushed
<1> QED BY <1>4 DEF Enqueues

LEMMA WorkHolds ==
    ASSUME JobsInv, JobsHeld, MailInv, MailHeld, NEW t \in Ticks, Work(t)
    PROVE  JobsHeld' /\ MailHeld'
<1>1. MailHeld'
  <2>1. CASE UNCHANGED <<mail, drain>>
    BY <2>1 DEF MailHeld, Mail!Held
  <2> QED BY <2>1, WorkEnqueues, EnqueueHolds
<1>2. ASSUME NEW result, tick[t].todo # Nothing, Outcome(t, result), End(t, result)
      PROVE  JobsHeld' /\ MailHeld'
  BY <1>1, <1>2, EndHolds
<1>3. CASE ProcessQueue(t)
  <2>1. Runnable \in Copies(MaxJobs) /\ Backed(job, Runnable)
    BY RunnableIs
  <2>2. \A i \in DOMAIN job : job[i].status = "sending" =>
           \E u \in Ticks \ {t} : Holds(u, i)
    BY <1>3 DEF JobsHeld, Holds, ProcessQueue
  <2> QED BY <1>1, <1>3, <2>1, <2>2, LoopHolds DEF ProcessQueue, JobsInv
<1>4. ASSUME NEW c, Error(t, c)  PROVE JobsHeld' /\ MailHeld'
  BY <1>2, <1>4 DEF Error, Busy, Outcome
<1>5. CASE SmsSent(t)
  BY <1>2, <1>5 DEF SmsSent, Busy, Outcome
<1>6. ASSUME NEW a, Pushed(t, a)  PROVE JobsHeld' /\ MailHeld'
  <2> DEFINE used == tick[t].used \/ a # "skipped"
             result == Ended(job[Head1(tick[t].todo)], IF used THEN "sent" ELSE "skipped")
  <2>1. Outcome(t, result)
    BY DEF Outcome
  <2>2. CASE tick[t].subs = {Min(tick[t].subs)}
    <3>1. tick[t].todo # Nothing /\ End(t, result)
      BY <1>6, <2>2 DEF Pushed, Busy
    <3> HIDE DEF result
    <3> QED BY <1>2, <2>1, <3>1
  <2>3. CASE tick[t].subs # {Min(tick[t].subs)}
    <3>1. tick' = [tick EXCEPT ![t].subs = @ \ {Min(tick[t].subs)}, ![t].used = used]
          /\ UNCHANGED <<job, mail, drain>>
      BY <1>6, <2>3 DEF Pushed
    <3> HIDE DEF used, result
    <3>2. \A u \in Ticks : tick'[u].todo = tick[u].todo
      BY <3>1 DEF JobsInv
    <3> QED BY <3>1, <3>2 DEF JobsHeld, Holds, MailHeld, Mail!Held
  <2> QED BY <2>2, <2>3
<1> QED BY <1>3, <1>4, <1>5, <1>6 DEF Work

\* A job or a mail marked as being sent is in the hands of a call, which settles
\* it when the provider answers: until the process stops for the first time.
THEOREM SendingHeld == Spec => []SendingIsHeld
<1> DEFINE HeldInv == crashes = 0 => JobsHeld /\ MailHeld
<1>1. Init => HeldInv
  BY DEF Init, Mail!Init, JobsHeld, MailHeld
<1>2. CountInv /\ HeldInv /\ [Next]_vars => HeldInv'
  <2> SUFFICES ASSUME CountInv, crashes = 0 => JobsHeld /\ MailHeld, [Next]_vars,
                      crashes' = 0
               PROVE  JobsHeld' /\ MailHeld'
    OBVIOUS
  <2> USE DEF CountInv
  <2>1. ASSUME crashes = 0 => JobsHeld /\ MailHeld,
               UNCHANGED <<tick, crashes, mailVars>>, DOMAIN job' \subseteq Nat,
               \A i \in DOMAIN job' : job'[i].status = "sending" =>
                  i \in DOMAIN job /\ job[i].status = "sending"
        PROVE  JobsHeld' /\ MailHeld'
    BY <2>1 DEF JobsHeld, Holds, MailHeld, Mail!Held
  <2>2. ASSUME NEW C \in SUBSET Channels, NEW quiet \in BOOLEAN, NEW ok \in BOOLEAN,
               Send(C, quiet, ok)
        PROVE  JobsHeld' /\ MailHeld'
    <3>1. \A i \in DOMAIN job' : (i \in DOMAIN job /\ job'[i] = job[i])
                                 \/ job'[i].status = "queued"
      BY <2>2, SendIs DEF New
    <3>2. DOMAIN job' \subseteq Nat
      BY <2>2, SendIs
    <3> QED BY <2>1, <2>2, <3>1, <3>2 DEF Send
  <2>3. CASE UNCHANGED <<job, tick, crashes, mailVars>>
    BY <2>3 DEF JobsHeld, Holds, MailHeld, Mail!Held
  <2>4. ASSUME NEW e, SubscribePush(e) \/ UnsubscribeEndpoint(e) \/ UnsubscribeId(e)
        PROVE  JobsHeld' /\ MailHeld'
    BY <2>3, <2>4 DEF SubscribePush, UnsubscribeEndpoint, UnsubscribeId, Revoke
  <2>5. ASSUME NEW t \in Ticks, Work(t)  PROVE JobsHeld' /\ MailHeld'
    <3>1. UNCHANGED crashes
      BY <2>5, WorkCounts
    <3> QED BY <2>5, <3>1, WorkHolds
  <2>6. ASSUME NEW i, Due(i)  PROVE JobsHeld' /\ MailHeld'
    <3>1. job[i] \in Job /\ i \in DOMAIN job /\ job' = [job EXCEPT ![i].due = TRUE]
          /\ UNCHANGED <<tick, crashes, mailVars>>
      BY <2>6 DEF Due, JobsInv
    <3>2. DOMAIN job' = DOMAIN job /\ DOMAIN job \subseteq Nat
          /\ \A k \in DOMAIN job : job'[k].status = job[k].status
      BY <3>1 DEF Job, JobsInv
    <3> QED BY <2>1, <3>1, <3>2
  <2>7. CASE MailStep
    BY <2>7, MailStepHolds DEF MailStep, JobsHeld, Holds
  <2>8. CASE Crash
    BY <2>8 DEF Crash
  <2>9. CASE UNCHANGED vars
    BY <2>3, <2>9
  <2> QED BY <2>2, <2>4, <2>5, <2>6, <2>7, <2>8, <2>9 DEF Next
<1>3. HeldInv => SendingIsHeld
  BY DEF SendingIsHeld, JobsHeld, Holds, MailHeld
<1> QED BY <1>1, <1>2, <1>3, CountHolds, PTL DEF Spec

(***************************************************************************)
(* Delivery.  While calls do not overlap the counts of the code are exact, *)
(* and each job goes its way one attempt after the other.                  *)
(***************************************************************************)
Open == {"queued", "retrying", "sending"}

\* Of a job or a mail: no attempt is lost, and it is given up after the last.
Exact(j) ==
    /\ j.retry = j.errors
    /\ j.status \in Open => j.errors < MaxRetries

ExactCopies(q, todo) ==
    \A i \in DOMAIN todo : todo[i] = q[i].errors /\ q[i].status \in Open

Delivering(j) == CASE j.status \in {"sent", "skipped"} -> "done"
                   [] j.status = "failed" -> "dropped"
                   [] OTHER -> "open"

\* What a step may do to a job or a mail that is there.
Moves(j, k) ==
    \/ Delivering(k) = Delivering(j) /\ k.errors = j.errors
    \/ Delivering(j) = "open" /\ Delivering(k) = "done" /\ k.errors = j.errors
    \/ /\ Delivering(j) = "open" /\ k.errors = j.errors + 1
       /\ Delivering(k) = IF k.errors < MaxRetries THEN "open" ELSE "dropped"

LEMMA FailedMoves ==
    ASSUME NEW j \in Job, Exact(j), j.status \in Open
    PROVE  Exact(Failed(j, j.errors)) /\ Moves(j, Failed(j, j.errors))
<1> DEFINE f == Failed(j, j.errors)
<1>1. /\ f.status = IF j.errors + 1 >= MaxRetries THEN "failed" ELSE "retrying"
      /\ f.retry = j.errors + 1
      /\ f.errors = j.errors + 1
      /\ j.errors \in 0..MaxRetries
  BY DEF Failed, Job, Exact
<1> HIDE DEF f
<1> QED BY <1>1 DEF f, Exact, Moves, Delivering, Open

LEMMA EndedMoves ==
    ASSUME NEW j \in Job, Exact(j), j.status \in Open, NEW s \in {"sent", "skipped", "sending"}
    PROVE  Exact(Ended(j, s)) /\ Moves(j, Ended(j, s))
<1> DEFINE e == Ended(j, s)
<1>1. e.status = s /\ e.retry = j.retry /\ e.errors = j.errors /\ j.errors \in 0..MaxRetries
  BY DEF Ended, Job
<1> HIDE DEF e
<1> QED BY <1>1 DEF e, Exact, Moves, Delivering, Open

LEMMA BeginMoves ==
    ASSUME NEW q \in Seq(Job), NEW todo \in Copies(MaxJobs), Backed(q, todo),
           \A i \in DOMAIN q : Exact(q[i]), ExactCopies(q, todo)
    PROVE  /\ \A i \in DOMAIN q : /\ Exact(Begin(q, todo)[i])
                                  /\ Moves(q[i], Begin(q, todo)[i])
                                  /\ i \notin DOMAIN todo => Begin(q, todo)[i] = q[i]
           /\ ExactCopies(Begin(q, todo), Rest(q, todo))
<1> DEFINE b == Begin(q, todo)
           rest == Rest(q, todo)
<1>1. DOMAIN todo \subseteq DOMAIN q
  BY DEF Backed
<1>2. /\ DOMAIN rest = DOMAIN todo \ Front(q, todo) /\ Front(q, todo) \subseteq DOMAIN todo
      /\ \A i \in DOMAIN rest : rest[i] = todo[i]
      /\ rest \in Copies(MaxJobs)
  BY RestIs DEF Front
<1>3. \A i \in DOMAIN q : q[i] \in Job
  OBVIOUS
<1>4. ASSUME NEW i \in DOMAIN q
      PROVE  \/ b[i] = q[i]
             \/ i \in Front(q, todo) /\ (b[i] = Ended(q[i], "sent") \/ b[i] = Failed(q[i], todo[i]))
             \/ i \in DOMAIN rest /\ b[i] = Ended(q[i], "sending")
  <2>1. rest # Nothing => Head1(rest) \in DOMAIN rest
    BY <1>2, HeadIs
  <2> HIDE DEF rest
  <2> QED BY <2>1 DEF Begin, rest
<1> HIDE DEF b, rest
<1>5. ASSUME NEW i \in DOMAIN q
      PROVE  Exact(b[i]) /\ Moves(q[i], b[i]) /\ (i \notin DOMAIN todo => b[i] = q[i])
  <2>1. q[i] \in Job /\ Exact(q[i]) /\ Moves(q[i], q[i])
    BY <1>3 DEF Moves
  <2>2. i \in DOMAIN todo => todo[i] = q[i].errors /\ q[i].status \in Open
    BY DEF ExactCopies
  <2> QED BY <1>2, <1>4, <2>1, <2>2, EndedMoves, FailedMoves
<1>6. ASSUME NEW i \in DOMAIN rest  PROVE rest[i] = b[i].errors /\ b[i].status \in Open
  <2>1. i \in DOMAIN q /\ i \in DOMAIN todo /\ i \notin Front(q, todo) /\ rest[i] = todo[i]
    BY <1>1, <1>2
  <2>2. q[i] \in Job /\ rest[i] = q[i].errors /\ q[i].status \in Open
    BY <1>3, <2>1 DEF ExactCopies
  <2>3. b[i] = q[i] \/ b[i] = Ended(q[i], "sending")
    BY <1>4, <2>1
  <2>4. Ended(q[i], "sending").errors = q[i].errors /\ Ended(q[i], "sending").status = "sending"
    BY <2>2 DEF Ended, Job
  <2> QED BY <2>2, <2>3, <2>4 DEF Open
<1> QED BY <1>5, <1>6 DEF b, rest, ExactCopies

ExactJobs ==
    /\ \A i \in DOMAIN job : Exact(job[i])
    /\ \A t \in Ticks : ExactCopies(job, tick[t].todo)

JobsMove ==
    /\ \A i \in DOMAIN job : i \in DOMAIN job' /\ Moves(job[i], job'[i])
    /\ \A i \in DOMAIN job' : i \notin DOMAIN job => New(job'[i])

LEMMA SameMoves == ASSUME NEW j, NEW k, k.status = j.status, k.errors = j.errors,
                          k.retry = j.retry
                   PROVE  Moves(j, k) /\ (Exact(j) => Exact(k))
BY DEF Moves, Delivering, Exact

LEMMA LoopMoves ==
    ASSUME \A t, u \in Ticks : t = u,
           JobsInv, NEW t \in Ticks, NEW q \in Seq(Job), DOMAIN q = DOMAIN job,
           NEW todo \in Copies(MaxJobs), Backed(q, todo), Loop(t, q, todo),
           \A i \in DOMAIN q : Exact(q[i]) /\ Moves(job[i], q[i]), ExactCopies(q, todo),
           \A i \in DOMAIN todo : q[i] = job[i]
    PROVE  ExactJobs' /\ JobsMove
<1> DEFINE b == Begin(q, todo)
           rest == Rest(q, todo)
<1>1. job' = b /\ DOMAIN b = DOMAIN q
  BY DEF Loop, Begin
<1>2. \A i \in DOMAIN q : Exact(b[i]) /\ Moves(q[i], b[i]) /\ (i \notin DOMAIN todo => b[i] = q[i])
  BY BeginMoves
<1>3. ExactCopies(b, rest)
  BY BeginMoves
<1>4. tick'[t].todo = rest
  <2> DEFINE new == IF rest = Nothing THEN Idle
                    ELSE [todo |-> rest, subs |-> q[Head1(rest)].subs, used |-> FALSE]
  <2>1. tick' = [tick EXCEPT ![t] = new]
    BY DEF Loop
  <2> HIDE DEF rest
  <2>2. new.todo = rest
    BY IdleIs
  <2> HIDE DEF new
  <2> QED BY <2>1, <2>2 DEF JobsInv
<1> HIDE DEF b, rest
<1>5. \A u \in Ticks : ExactCopies(job', tick'[u].todo)
  BY <1>1, <1>3, <1>4
<1> QED BY <1>1, <1>2, <1>5 DEF ExactJobs, JobsMove

LEMMA EndMoves ==
    ASSUME \A t, u \in Ticks : t = u,
           JobsInv, ExactJobs, NEW t \in Ticks, tick[t].todo # Nothing, NEW result,
           Outcome(t, result), End(t, result)
    PROVE  ExactJobs' /\ JobsMove
<1> DEFINE todo == tick[t].todo
           i == Head1(todo)
           q == [job EXCEPT ![i] = result]
<1>1. Loop(t, q, Others(todo))
  BY DEF End
<1>2. /\ i \in DOMAIN todo /\ i \in DOMAIN job
      /\ q \in Seq(Job) /\ DOMAIN q = DOMAIN job
      /\ Others(todo) \in Copies(MaxJobs) /\ Backed(q, Others(todo))
      /\ q[i] = result /\ \A k \in DOMAIN job : k # i => q[k] = job[k]
  BY EndIs
<1>3. /\ DOMAIN Others(todo) = DOMAIN todo \ {i}
      /\ \A k \in DOMAIN Others(todo) : Others(todo)[k] = todo[k]
      /\ DOMAIN todo \subseteq DOMAIN job
  BY OthersAre DEF JobsInv, Backed
<1>4. ExactCopies(job, todo)
  BY DEF ExactJobs
<1>5. job[i] \in Job /\ Exact(job[i]) /\ job[i].status \in Open /\ todo[i] = job[i].errors
  <2> HIDE DEF i, todo, q
  <2> QED BY <1>2, <1>4 DEF ExactJobs, ExactCopies, JobsInv
<1>6. Exact(result) /\ Moves(job[i], result)
  <2>1. (\E s \in {"sent", "skipped"} : result = Ended(job[i], s))
        \/ result = Failed(job[i], todo[i])
    BY DEF Outcome
  <2> HIDE DEF i, todo, q
  <2> QED BY <1>5, <2>1, EndedMoves, FailedMoves
<1> HIDE DEF i, q, todo
<1>7. \A k \in DOMAIN q : Exact(q[k]) /\ Moves(job[k], q[k])
  BY <1>2, <1>6, SameMoves DEF ExactJobs
<1>8. \A k \in DOMAIN Others(todo) : q[k] = job[k]
  BY <1>2, <1>3
<1>9. ExactCopies(q, Others(todo))
  BY <1>3, <1>4, <1>8 DEF ExactCopies
<1> QED BY <1>1, <1>2, <1>7, <1>8, <1>9, LoopMoves

LEMMA JobsMoveExactly ==
    ASSUME \A t, u \in Ticks : t = u, CountInv, ExactJobs, [Next]_vars
    PROVE  ExactJobs' /\ JobsMove
<1> USE DEF CountInv
<1>1. CASE UNCHANGED <<job, tick>>
  BY <1>1, SameMoves DEF ExactJobs, JobsMove
<1>2. ASSUME NEW C \in SUBSET Channels, NEW quiet \in BOOLEAN, NEW ok \in BOOLEAN,
             Send(C, quiet, ok)
      PROVE  ExactJobs' /\ JobsMove
  <2>1. /\ \A i \in DOMAIN job' : \/ i \in DOMAIN job /\ job'[i] = job[i]
                                  \/ i \notin DOMAIN job /\ New(job'[i])
        /\ UNCHANGED tick /\ DOMAIN job \subseteq DOMAIN job'
    <3>1. DOMAIN job \subseteq DOMAIN job'
      BY <1>2, SendIs
    <3> QED BY <1>2, <3>1, SendIs DEF Send
  <2>2. \A i \in DOMAIN job' : Exact(job'[i])
    BY <2>1 DEF ExactJobs, New, Exact
  <2>3. \A t \in Ticks : ExactCopies(job', tick[t].todo)
    <3>1. \A t \in Ticks : DOMAIN tick[t].todo \subseteq DOMAIN job
      BY DEF JobsInv, Backed
    <3> QED BY <2>1, <3>1 DEF ExactJobs, ExactCopies
  <2> QED BY <2>1, <2>2, <2>3, SameMoves DEF ExactJobs, JobsMove
<1>3. ASSUME NEW t \in Ticks, Work(t)  PROVE ExactJobs' /\ JobsMove
  <2>1. ASSUME NEW result, tick[t].todo # Nothing, Outcome(t, result), End(t, result)
        PROVE  ExactJobs' /\ JobsMove
    BY <2>1, EndMoves
  <2>2. CASE ProcessQueue(t)
    <3>1. /\ Runnable \in Copies(MaxJobs) /\ Backed(job, Runnable)
          /\ ExactCopies(job, Runnable)
      BY RunnableIs DEF ExactCopies, ExactJobs, Exact, Waiting, Open, Backed
    <3>2. \A i \in DOMAIN job : Exact(job[i]) /\ Moves(job[i], job[i])
      BY SameMoves DEF ExactJobs
    <3> QED BY <2>2, <3>1, <3>2, LoopMoves DEF ProcessQueue, JobsInv
  <2>3. ASSUME NEW c, Error(t, c)  PROVE ExactJobs' /\ JobsMove
    BY <2>1, <2>3 DEF Error, Busy, Outcome
  <2>4. CASE SmsSent(t)
    BY <2>1, <2>4 DEF SmsSent, Busy, Outcome
  <2>5. ASSUME NEW a, Pushed(t, a)  PROVE ExactJobs' /\ JobsMove
    <3> DEFINE used == tick[t].used \/ a # "skipped"
               result == Ended(job[Head1(tick[t].todo)], IF used THEN "sent" ELSE "skipped")
    <3>1. Outcome(t, result)
      BY DEF Outcome
    <3>2. CASE tick[t].subs = {Min(tick[t].subs)}
      <4>1. tick[t].todo # Nothing /\ End(t, result)
        BY <2>5, <3>2 DEF Pushed, Busy
      <4> HIDE DEF result
      <4> QED BY <2>1, <3>1, <4>1
    <3>3. CASE tick[t].subs # {Min(tick[t].subs)}
      <4>1. tick' = [tick EXCEPT ![t].subs = @ \ {Min(tick[t].subs)}, ![t].used = used]
            /\ UNCHANGED job
        BY <2>5, <3>3 DEF Pushed
      <4> HIDE DEF used, result
      <4>2. \A u \in Ticks : tick'[u].todo = tick[u].todo
        BY <4>1 DEF JobsInv
      <4> QED BY <4>1, <4>2, SameMoves DEF ExactJobs, JobsMove
    <3> QED BY <3>2, <3>3
  <2> QED BY <1>3, <2>2, <2>3, <2>4, <2>5 DEF Work
<1>4. ASSUME NEW i, Due(i)  PROVE ExactJobs' /\ JobsMove
  <2>1. job[i] \in Job /\ i \in DOMAIN job /\ job' = [job EXCEPT ![i].due = TRUE]
        /\ UNCHANGED tick
    BY <1>4 DEF Due, JobsInv
  <2>2. /\ DOMAIN job' = DOMAIN job
        /\ \A k \in DOMAIN job : /\ job'[k].status = job[k].status
                                 /\ job'[k].errors = job[k].errors
                                 /\ job'[k].retry = job[k].retry
    BY <2>1 DEF Job, JobsInv
  <2>3. \A t \in Ticks : DOMAIN tick[t].todo \subseteq DOMAIN job
    BY DEF JobsInv, Backed
  <2> QED BY <2>1, <2>2, <2>3, SameMoves DEF ExactJobs, JobsMove, ExactCopies
<1>5. CASE Crash
  <2>1. job' = job /\ \A t \in Ticks : tick'[t].todo = Nothing
    BY <1>5, IdleIs DEF Crash
  <2> QED BY <2>1, IdleIs, SameMoves DEF ExactJobs, JobsMove, ExactCopies
<1> QED BY <1>1, <1>2, <1>3, <1>4, <1>5
        DEF Next, MailStep, SubscribePush, UnsubscribeEndpoint, UnsubscribeId, Revoke

\* While calls of processQueue() do not overlap the queue of notifications is a
\* delivery: no attempt at a job is lost or made twice, a job is given up after
\* MaxRetries of them, and what is settled stays so, through stops of the process.
THEOREM JobsImplementDelivery ==
    ASSUME \A t, u \in Ticks : t = u
    PROVE  Spec => JobsAreDelivered
<1>1. Init => Queue!Init /\ ExactJobs
  <2> SUFFICES ASSUME Init  PROVE Queue!Init /\ ExactJobs
    OBVIOUS
  <2>1. job = << >> /\ Len(job) = 0 /\ DOMAIN job = {}
        /\ \A t \in Ticks : tick[t].todo = Nothing
    BY IdleIs DEF Init
  <2>2. Queue!Init
    BY <2>1 DEF Queue!Init
  <2> QED BY <2>1, <2>2, IdleIs DEF ExactJobs, ExactCopies
<1>2. CountInv /\ ExactJobs /\ [Next]_vars => ExactJobs' /\ [Queue!Next]_(Queue!vars)
  <2> SUFFICES ASSUME CountInv, ExactJobs, [Next]_vars  PROVE ExactJobs' /\ Queue!Next
    OBVIOUS
  <2>1. CountInv' /\ ExactJobs' /\ JobsMove
    BY StepCounts, JobsMoveExactly
  <2> SUFFICES ASSUME NEW j \in 1..MaxJobs
               PROVE  Queue!Stay(j) \/ Queue!Accept(j) \/ Queue!Settle(j) \/ Queue!Fail(j)
    BY <2>1 DEF Queue!Next
  <2>2. /\ DOMAIN job = 1..Len(job) /\ Len(job) \in Nat
        /\ DOMAIN job' = 1..Len(job') /\ Len(job') \in Nat
    BY <2>1 DEF CountInv, JobsInv
  <2>3. CASE j <= Len(job)
    <3>1. Moves(job[j], job'[j]) /\ j <= Len(job')
      BY <2>1, <2>2, <2>3 DEF JobsMove
    <3> QED BY <2>2, <2>3, <3>1
            DEF Moves, Delivering, Queue!Stay, Queue!Settle, Queue!Fail
  <2>4. CASE j > Len(job) /\ j <= Len(job')
    <3>1. New(job'[j])
      BY <2>1, <2>2, <2>4 DEF JobsMove
    <3> QED BY <2>2, <2>4, <3>1 DEF New, Queue!Accept
  <2>5. CASE j > Len(job) /\ j > Len(job')
    BY <2>2, <2>5 DEF Queue!Stay
  <2> QED BY <2>2, <2>3, <2>4, <2>5
<1> QED BY <1>1, <1>2, CountHolds, PTL DEF Spec, JobsAreDelivered, Queue!Spec

(***************************************************************************)
(* The same for the mail.                                                  *)
(***************************************************************************)
ExactMail ==
    /\ \A i \in DOMAIN mail : Exact(mail[i])
    /\ \A d \in Drains : ExactCopies(mail, drain[d])

MailMoves ==
    /\ \A i \in DOMAIN mail : i \in DOMAIN mail' /\ Moves(mail[i], mail'[i])
    /\ \A i \in DOMAIN mail' : i \notin DOMAIN mail => New(mail'[i])

LEMMA MailFailedMoves ==
    ASSUME NEW m \in Mail!Mail, Exact(m), m.status \in Open
    PROVE  Exact(Mail!Failed(m, m.errors)) /\ Moves(m, Mail!Failed(m, m.errors))
<1> DEFINE f == Mail!Failed(m, m.errors)
<1>1. /\ f.status = IF m.errors + 1 >= MaxRetries THEN "failed" ELSE "retrying"
      /\ f.retry = m.errors + 1
      /\ f.errors = m.errors + 1
      /\ m.errors \in 0..MaxRetries
  BY DEF Mail!Failed, Mail!Mail, Exact
<1> HIDE DEF f
<1> QED BY <1>1 DEF f, Exact, Moves, Delivering, Open

LEMMA MarkedMoves ==
    ASSUME NEW m \in Mail!Mail, Exact(m), m.status \in Open
    PROVE  /\ Exact(Mail!Sent(m)) /\ Moves(m, Mail!Sent(m))
           /\ Exact(Mail!Sending(m)) /\ Moves(m, Mail!Sending(m))
           /\ Mail!Sending(m).errors = m.errors /\ Mail!Sending(m).status = "sending"
<1> DEFINE s == Mail!Sent(m)
           g == Mail!Sending(m)
<1>1. /\ s.status = "sent" /\ s.retry = m.retry /\ s.errors = m.errors
      /\ g.status = "sending" /\ g.retry = m.retry /\ g.errors = m.errors
      /\ m.errors \in 0..MaxRetries
  BY DEF Mail!Sent, Mail!Sending, Mail!Mail
<1> HIDE DEF s, g
<1> QED BY <1>1 DEF s, g, Exact, Moves, Delivering, Open

LEMMA MailLoopMoves ==
    ASSUME \A d, e \in Drains : d = e,
           MailInv, NEW d \in Drains, NEW box \in Seq(Mail!Mail), DOMAIN box = DOMAIN mail,
           NEW todo \in Copies(MaxMail), Backed(box, todo), mail' = Mail!Begin(box, todo),
           drain' = [drain EXCEPT ![d] = Mail!Left(todo)],
           \A i \in DOMAIN box : Exact(box[i]) /\ Moves(mail[i], box[i]),
           ExactCopies(box, todo), \A i \in DOMAIN todo : box[i] = mail[i]
    PROVE  ExactMail' /\ MailMoves
<1> DEFINE b == Mail!Begin(box, todo)
<1>1. mail' = b /\ DOMAIN b = DOMAIN box /\ drain'[d] = Mail!Left(todo)
  BY DEF Mail!Begin, MailInv
<1>2. ASSUME NEW i \in DOMAIN box
      PROVE  \/ b[i] = box[i]
             \/ i \in DOMAIN todo /\ b[i] = Mail!Sent(box[i]) /\ ~ enabled
             \/ i \in DOMAIN todo /\ b[i] = Mail!Sending(box[i])
  BY DEF Mail!Begin
<1> HIDE DEF b
<1>3. ASSUME NEW i \in DOMAIN box  PROVE Exact(b[i]) /\ Moves(mail[i], b[i])
  <2>1. box[i] \in Mail!Mail /\ Exact(box[i]) /\ Moves(mail[i], box[i])
    OBVIOUS
  <2>2. i \in DOMAIN todo => box[i].status \in Open /\ box[i] = mail[i]
    BY DEF ExactCopies
  <2> QED BY <1>2, <2>1, <2>2, MarkedMoves
<1>4. ExactCopies(b, Mail!Left(todo))
  <2>1. CASE enabled
    <3> SUFFICES ASSUME NEW i \in DOMAIN todo
                 PROVE  todo[i] = b[i].errors /\ b[i].status \in Open
      BY <2>1 DEF ExactCopies, Mail!Left
    <3>1. i \in DOMAIN box /\ todo[i] = box[i].errors /\ box[i].status \in Open
      BY DEF ExactCopies, Backed
    <3>2. box[i] \in Mail!Mail /\ Exact(box[i])
      BY <3>1
    <3> QED BY <1>2, <2>1, <3>1, <3>2, MarkedMoves DEF Open
  <2>2. CASE ~ enabled
    BY <2>2, IdleIs DEF ExactCopies, Mail!Left
  <2> QED BY <2>1, <2>2
<1>5. \A e \in Drains : ExactCopies(mail', drain'[e])
  BY <1>1, <1>4
<1> QED BY <1>1, <1>3, <1>5 DEF ExactMail, MailMoves

LEMMA EnqueueMoves ==
    ASSUME MailInv, ExactMail, NEW n \in Nat, Mail!Enqueue(n), UNCHANGED drain
    PROVE  ExactMail' /\ MailMoves
<1>1. /\ DOMAIN mail \subseteq DOMAIN mail'
      /\ \A i \in DOMAIN mail : mail'[i] = mail[i]
      /\ \A i \in DOMAIN mail' : i \notin DOMAIN mail => mail'[i] = Mail!NewMail
  BY EnqueueCounts DEF MailInv
<1>2. New(Mail!NewMail) /\ Exact(Mail!NewMail)
  BY DEF Mail!NewMail, New, Exact
<1>3. \A d \in Drains : DOMAIN drain[d] \subseteq DOMAIN mail
  BY DEF MailInv, Backed
<1>4. \A d \in Drains : ExactCopies(mail', drain[d])
  BY <1>1, <1>3 DEF ExactMail, ExactCopies
<1> QED BY <1>1, <1>2, <1>4, SameMoves DEF ExactMail, MailMoves

LEMMA AnsweredMoves ==
    ASSUME \A d, e \in Drains : d = e,
           MailInv, ExactMail, NEW d \in Drains, NEW result, MailOutcome(d, result),
           Mail!Answered(d, result)
    PROVE  ExactMail' /\ MailMoves
<1> DEFINE todo == drain[d]
           i == Mail!Head1(todo)
           box == [mail EXCEPT ![i] = result]
           rest == Mail!Others(todo)
<1>1. /\ mail' = Mail!Begin(box, rest) /\ todo # Mail!Nothing
      /\ drain' = [drain EXCEPT ![d] = Mail!Left(rest)]
  BY DEF Mail!Answered
<1>2. /\ i \in DOMAIN todo /\ i \in DOMAIN mail
      /\ box \in Seq(Mail!Mail) /\ DOMAIN box = DOMAIN mail
      /\ rest \in Copies(MaxMail) /\ Backed(box, rest)
      /\ box[i] = result /\ \A k \in DOMAIN mail : k # i => box[k] = mail[k]
  BY <1>1, AnsweredIs
<1>3. /\ DOMAIN rest = DOMAIN todo \ {i}
      /\ \A k \in DOMAIN rest : rest[k] = todo[k]
      /\ DOMAIN todo \subseteq DOMAIN mail
  BY OthersAre DEF MailInv, Backed
<1>4. ExactCopies(mail, todo)
  BY DEF ExactMail
<1>5. /\ mail[i] \in Mail!Mail /\ Exact(mail[i]) /\ mail[i].status \in Open
      /\ todo[i] = mail[i].errors
  <2> HIDE DEF i, todo, box, rest
  <2> QED BY <1>2, <1>4 DEF ExactMail, ExactCopies, MailInv
<1>6. Exact(result) /\ Moves(mail[i], result)
  <2>1. result = Mail!Sent(mail[i]) \/ result = Mail!Failed(mail[i], todo[i])
    BY DEF MailOutcome
  <2> HIDE DEF i, todo, box, rest
  <2> QED BY <1>5, <2>1, MarkedMoves, MailFailedMoves
<1> HIDE DEF i, box, todo, rest
<1>7. \A k \in DOMAIN box : Exact(box[k]) /\ Moves(mail[k], box[k])
  BY <1>2, <1>6, SameMoves DEF ExactMail
<1>8. \A k \in DOMAIN rest : box[k] = mail[k]
  BY <1>2, <1>3
<1>9. ExactCopies(box, rest)
  BY <1>3, <1>4, <1>8 DEF ExactCopies
<1> QED BY <1>1, <1>2, <1>7, <1>8, <1>9, MailLoopMoves

LEMMA MailMovesExactly ==
    ASSUME \A d, e \in Drains : d = e, CountInv, ExactMail, [Next]_vars
    PROVE  ExactMail' /\ MailMoves
<1> USE DEF CountInv
<1>1. CASE UNCHANGED <<mail, drain>>
  BY <1>1, SameMoves DEF ExactMail, MailMoves
<1>2. ASSUME NEW t \in Ticks, Work(t)  PROVE ExactMail' /\ MailMoves
  <2>1. (\E n \in Nat : Mail!Enqueue(n) /\ UNCHANGED drain) \/ UNCHANGED <<mail, drain>>
    BY <1>2, WorkEnqueues
  <2> QED BY <1>1, <2>1, EnqueueMoves
<1>3. CASE MailStep
  <2>1. CASE Mail!SendEmail
    BY <2>1, EnqueueMoves DEF Mail!SendEmail
  <2>2. ASSUME NEW d \in Drains, Mail!ProcessQueue(d)  PROVE ExactMail' /\ MailMoves
    <3>1. /\ Mail!Runnable \in Copies(MaxMail) /\ Backed(mail, Mail!Runnable)
          /\ ExactCopies(mail, Mail!Runnable)
      BY MailRunnableIs DEF ExactCopies, ExactMail, Exact, Mail!Waiting, Open, Backed
    <3>2. \A i \in DOMAIN mail : Exact(mail[i]) /\ Moves(mail[i], mail[i])
      BY SameMoves DEF ExactMail
    <3> QED BY <2>2, <3>1, <3>2, MailLoopMoves DEF Mail!ProcessQueue, MailInv
  <2>3. ASSUME NEW d \in Drains, Mail!Delivered(d) \/ Mail!Refused(d)
        PROVE  ExactMail' /\ MailMoves
    BY <2>3, AnsweredMoves DEF Mail!Delivered, Mail!Refused, MailOutcome
  <2>4. ASSUME NEW i \in 1..MaxMail, Mail!Due(i)  PROVE ExactMail' /\ MailMoves
    <3>1. mail[i] \in Mail!Mail /\ i \in DOMAIN mail /\ mail' = [mail EXCEPT ![i].due = TRUE]
          /\ UNCHANGED drain
      BY <2>4 DEF Mail!Due, MailInv
    <3>2. /\ DOMAIN mail' = DOMAIN mail
          /\ \A k \in DOMAIN mail : /\ mail'[k].status = mail[k].status
                                    /\ mail'[k].errors = mail[k].errors
                                    /\ mail'[k].retry = mail[k].retry
      BY <3>1 DEF Mail!Mail, MailInv
    <3>3. \A d \in Drains : DOMAIN drain[d] \subseteq DOMAIN mail
      BY DEF MailInv, Backed
    <3> QED BY <3>1, <3>2, <3>3, SameMoves DEF ExactMail, MailMoves, ExactCopies
  <2> QED BY <1>1, <1>3, <2>1, <2>2, <2>3, <2>4
          DEF MailStep, Mail!Next, Mail!SetStatus, Mail!CheckConfiguration, Mail!Checked
<1>4. CASE Crash
  <2>1. mail' = mail /\ \A d \in Drains : drain'[d] = Nothing
    BY <1>4 DEF Crash
  <2> QED BY <2>1, IdleIs, SameMoves DEF ExactMail, MailMoves, ExactCopies
<1> QED BY <1>1, <1>2, <1>3, <1>4
        DEF Next, Send, Due, SubscribePush, UnsubscribeEndpoint, UnsubscribeId, Revoke

\* While no two drains overlap the queue of mail is a delivery too, although mail
\* is queued by requests and by notification jobs at any moment, and the switch
\* of the service is thrown and a check of it writes back what it read.
THEOREM MailImplementsDelivery ==
    ASSUME \A d, e \in Drains : d = e
    PROVE  Spec => MailIsDelivered
<1>1. Init => Mail!Queue!Init /\ ExactMail
  <2> SUFFICES ASSUME Init  PROVE Mail!Queue!Init /\ ExactMail
    OBVIOUS
  <2>1. mail = << >> /\ Len(mail) = 0 /\ DOMAIN mail = {}
        /\ \A d \in Drains : drain[d] = Mail!Nothing
    BY DEF Init, Mail!Init
  <2>2. Mail!Queue!Init
    BY <2>1 DEF Mail!Queue!Init
  <2> QED BY <2>1, <2>2, IdleIs DEF ExactMail, ExactCopies
<1>2. CountInv /\ ExactMail /\ [Next]_vars => ExactMail' /\ [Mail!Queue!Next]_(Mail!Queue!vars)
  <2> SUFFICES ASSUME CountInv, ExactMail, [Next]_vars  PROVE ExactMail' /\ Mail!Queue!Next
    OBVIOUS
  <2>1. CountInv' /\ ExactMail' /\ MailMoves
    BY StepCounts, MailMovesExactly
  <2> SUFFICES ASSUME NEW j \in 1..MaxMail
               PROVE  \/ Mail!Queue!Stay(j) \/ Mail!Queue!Accept(j)
                      \/ Mail!Queue!Settle(j) \/ Mail!Queue!Fail(j)
    BY <2>1 DEF Mail!Queue!Next
  <2>2. /\ DOMAIN mail = 1..Len(mail) /\ Len(mail) \in Nat
        /\ DOMAIN mail' = 1..Len(mail') /\ Len(mail') \in Nat
    BY <2>1 DEF CountInv, MailInv
  <2>3. CASE j <= Len(mail)
    <3>1. Moves(mail[j], mail'[j]) /\ j <= Len(mail')
      BY <2>1, <2>2, <2>3 DEF MailMoves
    <3>2. mail[j] \in Mail!Mail /\ mail'[j] \in Mail!Mail
      BY <2>1, <2>2, <2>3, <3>1 DEF CountInv, MailInv
    <3>3. mail[j].status # "skipped" /\ mail'[j].status # "skipped"
      BY <3>2 DEF Mail!Mail, Mail!Waiting
    <3> QED BY <2>2, <2>3, <3>1, <3>3
            DEF Moves, Delivering, Mail!Queue!Stay, Mail!Queue!Settle, Mail!Queue!Fail
  <2>4. CASE j > Len(mail) /\ j <= Len(mail')
    <3>1. New(mail'[j])
      BY <2>1, <2>2, <2>4 DEF MailMoves
    <3> QED BY <2>2, <2>4, <3>1 DEF New, Mail!Queue!Accept
  <2>5. CASE j > Len(mail) /\ j > Len(mail')
    BY <2>2, <2>5 DEF Mail!Queue!Stay
  <2> QED BY <2>2, <2>3, <2>4, <2>5
<1> QED BY <1>1, <1>2, CountHolds, PTL DEF Spec, MailIsDelivered, Mail!Queue!Spec
=============================================================================
