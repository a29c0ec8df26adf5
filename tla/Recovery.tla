------------------------------ MODULE Recovery ------------------------------
(***************************************************************************)
(* The whole loop of a notification that fails: requests and workers       *)
(* (NotifyHub), the consumer of the dead-letter topic and the operators    *)
(* who replay or delete its rows (DeadLetter).                             *)
(***************************************************************************)
EXTENDS NotifyHub, DeadLetter

recoveryVars == <<vars, deadLetterVars>>

hubOnlyVars == <<serviceVars, schedulerVars, processorVars, recalled>>

RecoveryInit == Init /\ DeadLetterInit

Consume == DLQRun /\ UNCHANGED hubOnlyVars

ConsumerFault == (DLQRestart \/ DLQRebalance) /\ UNCHANGED hubOnlyVars

Administer == AdminStep /\ UNCHANGED hubOnlyVars

Operate == CalmNext /\ UNCHANGED deadLetterVars

RecoveryNext ==
  Operate \/ Consume \/ ConsumerFault \/ Administer

\* As in NotifyHub, and the consumer and the API process run when they can.
RecoveryFairness ==
  /\ \A c \in Clients : WF_recoveryVars(ServiceProgress(c) /\ UNCHANGED deadLetterVars)
  /\ \A h \in Handlers :
       /\ WF_recoveryVars(HandlerStep(h) /\ UNCHANGED deadLetterVars)
       /\ WF_recoveryVars(FirstHandout(h) /\ UNCHANGED deadLetterVars)
  /\ WF_recoveryVars(Consume)
  /\ \A a \in Admins :
       WF_recoveryVars((ReplayPublish(a) \/ ReplayMark(a)) /\ UNCHANGED hubOnlyVars)

RecoverySpec ==
  RecoveryInit /\ [][RecoveryNext]_recoveryVars /\ RecoveryFairness

\* With the crashes of the worker process, and with no assumption of progress.
WholeNext ==
  RecoveryNext \/ ((WorkerCrash \/ SchedulerCrash) /\ UNCHANGED deadLetterVars)

WholeSpec == RecoveryInit /\ [][WholeNext]_recoveryVars

-----------------------------------------------------------------------------
(* Properties *)

\* Without infrastructure errors a notification that is marked failed is in
\* the dead-letter table in the end, where an operator can find it: the
\* worker, the dead-letter topic and its consumer together lose none, also
\* when the consumer restarts (deadLetter, DLQConsumer.Run).
FailedIsRecorded ==
  \A n \in Ids :
    status[n] = "failed" ~>
      \E r \in 1 .. Len(records) : dlqTopic[records[r].entry].id = n

\* Without crashes and infrastructure errors a replay leads to a new run of
\* Process that reaches an outcome: the message an operator put back carries
\* what the worker needs to find its row (Replay, Process).
ReplayIsConcluded ==
  \A i \in Indexes :
    (\E x \in reissues : x.index = i) ~> i \in concluded
=============================================================================
