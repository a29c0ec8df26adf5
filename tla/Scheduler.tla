------------------------------ MODULE Scheduler ------------------------------
(***************************************************************************)
(* internal/service/scheduler.go: every worker process polls for due       *)
(* notifications and publishes them.  Nothing keeps two of them apart.     *)
(***************************************************************************)
EXTENDS Store

CONSTANTS Schedulers,  \* worker processes, one scheduler each
          BatchSize    \* LIMIT of the query

ASSUME SchedulerAssumption == BatchSize \in Nat \ {0}

VARIABLES batch,    \* rows of the current tick still to be published
          marking   \* the row published and not yet marked queued, or NoRow

schedulerVars == <<batch, marking>>

NoRow == 0

SchedulerInit ==
  /\ batch = [s \in Schedulers |-> {}]
  /\ marking = [s \in Schedulers |-> NoRow]

SchedulerTypeOK ==
  /\ batch \in [Schedulers -> SUBSET Existing]
  /\ marking \in [Schedulers -> Existing \cup {NoRow}]

-----------------------------------------------------------------------------
(* tick: ListDueScheduled.  The rows go out in the order of the query; the   *)
(* model lets them go in any order.                                          *)
SchedTick(s) ==
  /\ batch[s] = {} /\ marking[s] = NoRow
  /\ \E due \in SUBSET DueScheduled :
       /\ due # {} /\ Cardinality(due) <= BatchSize
       /\ due = DueScheduled \/ Cardinality(due) = BatchSize
       /\ batch' = [batch EXCEPT ![s] = due]
  /\ UNCHANGED <<storeVars, marking>>

(* tick: enqueue one row.  The message enqueue builds has no TenantID, so it *)
(* carries the zero UUID.  An error, after which the message may be in the   *)
(* topic all the same, is logged and the loop goes on.                       *)
SchedEnqueue(s, n) ==
  /\ n \in batch[s] /\ marking[s] = NoRow
  /\ batch' = [batch EXCEPT ![s] = @ \ {n}]
  /\ \/ /\ Publish([id |-> n, tenant |-> NullTenant])
        /\ \/ marking' = [marking EXCEPT ![s] = n]
           \/ InfraErrors /\ UNCHANGED marking
     \/ InfraErrors /\ UNCHANGED <<storeVars, marking>>

(* tick: mark the row queued, whatever its status has become; an error is    *)
(* logged.                                                                   *)
SchedMark(s) ==
  /\ marking[s] # NoRow
  /\ marking' = [marking EXCEPT ![s] = NoRow]
  /\ \/ UpdateStatus(marking[s], "queued")
     \/ InfraErrors /\ UNCHANGED storeVars
  /\ UNCHANGED batch

\* The worker process dies in the middle of a tick.
SchedCrash(s) ==
  /\ batch[s] # {} \/ marking[s] # NoRow
  /\ batch' = [batch EXCEPT ![s] = {}]
  /\ marking' = [marking EXCEPT ![s] = NoRow]
  /\ UNCHANGED storeVars

SchedulerStep(s) ==
  SchedTick(s) \/ SchedMark(s) \/ \E n \in Ids : SchedEnqueue(s, n)
=============================================================================
