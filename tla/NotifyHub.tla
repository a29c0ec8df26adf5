------------------------------ MODULE NotifyHub ------------------------------
(***************************************************************************)
(* One channel of the whole system: API requests (NotificationService),    *)
(* the scheduler of each worker process (Scheduler) and the worker         *)
(* goroutines (Processor), which meet in the notifications table and the   *)
(* Kafka topics (Store).                                                   *)
(***************************************************************************)
EXTENDS NotificationService, Scheduler, Processor

VARIABLE recalled   \* history: see Recallable

vars == <<storeVars, serviceVars, schedulerVars, processorVars, recalled>>

\* Cancel succeeds on n before it is due, after Send has answered.
Recallable(n) ==
  schedule[n] = "future" /\ \A c \in Clients : call[c].id # n

Init ==
  /\ StoreInit /\ ServiceInit /\ SchedulerInit /\ ProcessorInit
  /\ recalled = {}

Service ==
  /\ \E c \in Clients : SendStep(c)
  /\ UNCHANGED <<schedulerVars, processorVars, recalled>>

CancelRequest ==
  \E t \in Tenants, n \in Ids :
    /\ Cancel(t, n)
    /\ recalled' = IF Recallable(n) THEN recalled \cup {n} ELSE recalled
    /\ UNCHANGED <<schedulerVars, processorVars>>

Schedule ==
  /\ \E s \in Schedulers : SchedulerStep(s)
  /\ UNCHANGED <<serviceVars, processorVars, recalled>>

Process(h) ==
  /\ ProcBegin(h) \/ ProcStep(h)
  /\ UNCHANGED <<serviceVars, schedulerVars, recalled>>

WorkerCrash ==
  /\ ProcCrash
  /\ UNCHANGED <<serviceVars, schedulerVars, recalled>>

SchedulerCrash ==
  /\ \E s \in Schedulers : SchedCrash(s)
  /\ UNCHANGED <<serviceVars, processorVars, recalled>>

Clock ==
  /\ \E n \in Ids : ComeDue(n)
  /\ UNCHANGED <<serviceVars, schedulerVars, processorVars, recalled>>

CalmNext == Service \/ CancelRequest \/ Schedule \/ Clock \/ \E h \in Handlers : Process(h)

Next == CalmNext \/ WorkerCrash \/ SchedulerCrash

Spec == Init /\ [][Next]_vars

-----------------------------------------------------------------------------
(* Fairness.  Requests run to their end, the scheduler keeps polling, time   *)
(* passes, and each handler finishes what it has begun and takes a message   *)
(* that was never handed out (WorkerPool: EveryMessageHandled).              *)
FirstHandout(h) ==
  /\ \E i \in 1 .. Len(topic) : handed[i] = 0 /\ Begin(h, i)
  /\ UNCHANGED <<serviceVars, schedulerVars, recalled>>

HandlerStep(h) ==
  ProcStep(h) /\ UNCHANGED <<serviceVars, schedulerVars, recalled>>

SchedulerProgress(s) ==
  SchedulerStep(s) /\ UNCHANGED <<serviceVars, processorVars, recalled>>

ServiceProgress(c) ==
  SendStep(c) /\ UNCHANGED <<schedulerVars, processorVars, recalled>>

Fairness ==
  /\ \A c \in Clients : WF_vars(ServiceProgress(c))
  /\ \A s \in Schedulers : WF_vars(SchedulerProgress(s))
  /\ \A h \in Handlers : WF_vars(HandlerStep(h)) /\ WF_vars(FirstHandout(h))
  /\ WF_vars(Clock)

\* No worker process dies.
CalmSpec == Init /\ [][CalmNext]_vars /\ Fairness

-----------------------------------------------------------------------------
(* Properties *)

\* A message names a row that was inserted before it was published.
MessagesHaveRows ==
  /\ \A i \in 1 .. Len(topic) : topic[i].id \in Existing
  /\ \A i \in 1 .. Len(dlqTopic) : dlqTopic[i].id \in Existing

TypeOK ==
  /\ StoreTypeOK /\ ServiceTypeOK /\ SchedulerTypeOK /\ ProcessorTypeOK
  /\ recalled \subseteq cancelled
  /\ MessagesHaveRows

\* Whatever says that a notification was delivered (its status, a success row
\* in delivery_logs, a webhook event) is preceded by a provider send that
\* succeeded, however runs of Process for the same row interleave (deliver).
DeliveredWasSent ==
  \A n \in Ids :
    (\/ status[n] = "delivered"
     \/ [id |-> n, success |-> TRUE] \in logged
     \/ [id |-> n, event |-> "delivered"] \in events) => sent[n] > 0

\* An operator who sees a failed notification finds it in the dead-letter
\* topic, unless that publish itself failed.  This is so because deliver calls
\* deadLetter before updateStatus, which is not the order its comment gives: "the
\* notification is already marked failed".  The other direction does not hold:
\* until the update, or for good if it fails or the worker dies, the row of a
\* dead letter is still processing (deliver, deadLetter).
FailedIsDeadLettered ==
  \A n \in Ids :
    status[n] = "failed" /\ DLQEnabled =>
      n \in dlqLost \/ \E i \in 1 .. Len(dlqTopic) : dlqTopic[i].id = n

\* The sends that sendWithRetry makes at most: one if MaxAttempts is 0.
Bound == IF MaxAttempts > 0 THEN MaxAttempts ELSE 1

\* One run of Process calls the provider at most MaxAttempts times, and once
\* if MaxAttempts is 0 (sendWithRetry).
RetryBounded == \A h \in Handlers : tried[h] <= Bound

\* The times Process was started on a message of n: the j-th start on message i.
Handouts(n) ==
  {x \in (1 .. Len(topic)) \X (1 .. MaxHandouts) :
     topic[x[1]].id = n /\ x[2] <= handed[x[1]]}

\* What the provider accepted for n, whatever Send answered.
Copies(n) == sent[n] + doubtful[n]

\* How often a notification can reach its recipient: each time Process is started
\* on a message of it, by a redelivery, a replay or a second publish, adds at most
\* one send that succeeds, and at most MaxAttempts copies if sends fail after the
\* provider has accepted, which sendWithRetry repeats (sendWithRetry, Process).
CopiesAreBounded ==
  \A n \in Ids :
    /\ sent[n] <= Cardinality(Handouts(n))
    /\ Copies(n) <= Bound * Cardinality(Handouts(n))

\* Two requests of one tenant with one idempotency key that both succeed get
\* the same notification, and it is the tenant's own, also when requests race
\* between lookup and insert (Send).
IdempotentAnswers ==
  \A a, b \in {x \in answers : x.key # NoKey /\ x.result > 0} :
    /\ tenantOf[a.result] = a.tenant
    /\ a.tenant = b.tenant /\ a.key = b.key => a.result = b.result

\* A scheduled notification cancelled before it was due is never published,
\* by the scheduler of any worker process or by anyone else (tick, Cancel).
RecalledIsNotEnqueued ==
  \A i \in 1 .. Len(topic) : topic[i].id \notin recalled

Published(n) == \E i \in 1 .. Len(topic) : topic[i].id = n

\* A client that is given a notification may rely on it: it is on the topic, it
\* waits for the scheduler, or somebody cancelled it, however requests with one
\* key race.  The exception is a repeated key whose first request inserted the
\* row and failed before or while it published, or has not come so far; nobody
\* publishes that row later (Send: lookup, publish, "stays pending").
AnsweredIsEnqueued ==
  \A a \in {x \in answers : x.result > 0} :
    \/ Published(a.result) \/ schedule[a.result] # "null" \/ a.result \in cancelled
    \/ \E c \in Clients : call[c].id = a.result
    \/ \E b \in answers : b.tenant = a.tenant /\ b.key = a.key /\ b.result = Failure

\* The queued mark of a request or of a scheduler for n is still to come.
QueuedMarkDue(n) ==
  \/ \E c \in Clients : call[c].pc = "mark" /\ call[c].id = n
  \/ \E s \in Schedulers : marking[s] = n

\* Process was started on n more than once.
HandedAgain(n) ==
  \E i, j \in {x \in 1 .. Len(topic) : topic[x].id = n /\ handed[x] > 0} :
    i # j \/ handed[i] > 1

\* Two things overwrite the outcome on a row that was not cancelled: the queued
\* mark of whoever published it, which comes after the publish and asks for no
\* status, and a second run of Process.  A single run, a retry or a Cancel never
\* does (UpdateStatus in Send, tick and Process; Cancel).
OutcomeIsKept ==
  [][\A n \in Ids : status[n] \in Terminal /\ status'[n] # status[n] =>
       \/ status'[n] = "queued" /\ QueuedMarkDue(n)
       \/ n \in cancelled \/ HandedAgain(n)]_vars

\* Without worker crashes and infrastructure errors, a request that was
\* answered with an immediate notification leads to a run of Process that
\* comes to an outcome for it (Send, Process).
AcceptedIsConcluded ==
  \A n \in Ids :
    (\E a \in answers : a.result = n) ~> \E i \in concluded : topic[i].id = n

-----------------------------------------------------------------------------
(* What the repository says and the code does not do. *)

\* "scheduler worker enqueues at the right time": a due notification that is
\* pending, and that nobody cancels, is processed to an outcome (tick, Process).
ScheduledIsConcluded ==
  \A n \in Ids :
    n \in DueScheduled ~> (n \in cancelled \/ \E i \in concluded : topic[i].id = n)
=============================================================================
