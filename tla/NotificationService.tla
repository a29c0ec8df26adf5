------------------------- MODULE NotificationService -------------------------
(***************************************************************************)
(* internal/service/notification.go: Send, SendBulk and Cancel as the API  *)
(* process runs them, one goroutine per request.  Between two steps of a   *)
(* request any other request, the scheduler and the workers may run.       *)
(***************************************************************************)
EXTENDS Store

CONSTANTS Clients,     \* API requests in flight, one call each
          Schedules,   \* the scheduled_at values requests carry
          MaxBulk      \* bound: recipients of a SendBulk beyond the first

ASSUME ServiceAssumption ==
  /\ Schedules \subseteq {"null", "future", "due"}
  /\ MaxBulk \in Nat

VARIABLES call,       \* what each request is doing
          answers,    \* results handed back: [tenant, key, result]
          cancelled   \* notifications for which Cancel answered success

serviceVars == <<call, answers, cancelled>>

NoId == 0
Conflict == -1   \* the INSERT broke the UNIQUE constraint
Failure == -2    \* any other error

Pcs == {"ready", "lookup", "create", "enqueue", "mark", "done"}
Call == [pc : Pcs, tenant : Tenants \cup {NullTenant}, key : Keys \cup {NoKey},
         schedule : {"null", "future", "due"}, id : Ids \cup {NoId},
         left : 0 .. MaxBulk]
Answer == [tenant : Tenants, key : Keys \cup {NoKey},
           result : Ids \cup {Conflict, Failure}]

ServiceInit ==
  /\ call = [c \in Clients |->
               [pc |-> "ready", tenant |-> NullTenant, key |-> NoKey,
                schedule |-> "null", id |-> NoId, left |-> 0]]
  /\ answers = {} /\ cancelled = {}

ServiceTypeOK ==
  /\ call \in [Clients -> Call]
  /\ \A c \in Clients : call[c].pc # "ready" => call[c].tenant \in Tenants
  /\ \A c \in Clients : call[c].pc \in {"enqueue", "mark"} => call[c].id \in Existing
  /\ answers \subseteq Answer
  /\ cancelled \subseteq Ids

Goto(c, pc) == call' = [call EXCEPT ![c].pc = pc]

\* Send returns.  SendBulk goes on with its next recipient whatever the result
\* of this one was; it passes neither a key nor a schedule.
Return(c, result) ==
  /\ answers' = answers \cup
       {[tenant |-> call[c].tenant, key |-> call[c].key, result |-> result]}
  /\ call' = [call EXCEPT ![c].pc = IF call[c].left > 0 THEN "create" ELSE "done",
                          ![c].id = NoId,
                          ![c].left = IF @ > 0 THEN @ - 1 ELSE 0]
  /\ UNCHANGED cancelled

-----------------------------------------------------------------------------
(* Send: a valid request arrives; only one with a key that is not empty does *)
(* the lookup (an empty key is stored all the same).                         *)
SendStart(c) ==
  /\ call[c].pc = "ready"
  /\ \E t \in Tenants, k \in Keys \cup {NoKey}, s \in Schedules, b \in 0 .. MaxBulk :
       /\ b > 0 => k = NoKey /\ s = "null"
       /\ call' = [call EXCEPT ![c] =
            [pc |-> IF k \in {NoKey, EmptyKey} THEN "create" ELSE "lookup", tenant |-> t,
             key |-> k, schedule |-> s, id |-> NoId, left |-> b]]
  /\ UNCHANGED <<storeVars, answers, cancelled>>

(* Send: GetByIdempotencyKey. *)
SendLookup(c) ==
  LET found == FindByKey(call[c].tenant, call[c].key) IN
  /\ call[c].pc = "lookup"
  /\ UNCHANGED storeVars
  /\ \/ /\ found = {}
        /\ Goto(c, "create") /\ UNCHANGED <<answers, cancelled>>
     \/ \E n \in found : Return(c, n)
     \/ InfraErrors /\ Return(c, Failure)

(* Send: Create, the INSERT with status pending. *)
SendCreate(c) ==
  /\ call[c].pc = "create"
  /\ \/ \E n \in Ids :
          /\ ~KeyTaken(call[c].key)
          /\ Create(n, call[c].tenant, call[c].key, call[c].schedule)
          /\ call' = [call EXCEPT ![c].pc = "enqueue", ![c].id = n]
          /\ UNCHANGED <<answers, cancelled>>
     \/ KeyTaken(call[c].key) /\ Return(c, Conflict) /\ UNCHANGED storeVars
     \/ InfraErrors /\ Return(c, Failure) /\ UNCHANGED storeVars

\* Mutant: the message is built without its TenantID.
MessageNoTenant(c) == [id |-> call[c].id, tenant |-> NullTenant]

\* enqueue: the message a worker will get.
MessageOf(c) == [id |-> call[c].id, tenant |-> call[c].tenant]

\* Mutant: a failed publish is only logged.
SendEnqueueLogs(c) ==
  LET n == call[c].id IN
  /\ call[c].pc = "enqueue"
  /\ \/ schedule[n] = "future" /\ Return(c, n) /\ UNCHANGED storeVars
     \/ /\ schedule[n] # "future"
        /\ \/ Publish(MessageOf(c)) /\ Goto(c, "mark") /\ UNCHANGED <<answers, cancelled>>
           \/ InfraErrors /\ Return(c, n) /\ UNCHANGED storeVars

(* Send: stop here if scheduled_at is still to come, else publish.  A failed *)
(* publish may or may not have reached the broker.                           *)
SendEnqueue(c) ==
  LET n == call[c].id IN
  /\ call[c].pc = "enqueue"
  /\ \/ schedule[n] = "future" /\ Return(c, n) /\ UNCHANGED storeVars
     \/ /\ schedule[n] # "future"
        /\ \/ Publish(MessageOf(c)) /\ Goto(c, "mark") /\ UNCHANGED <<answers, cancelled>>
           \/ InfraErrors /\ Publish(MessageOf(c)) /\ Return(c, Failure)
           \/ InfraErrors /\ Return(c, Failure) /\ UNCHANGED storeVars

(* Send: mark as queued, only after a successful publish. *)
SendMark(c) ==
  /\ call[c].pc = "mark"
  /\ \/ UpdateStatus(call[c].id, "queued") /\ Return(c, call[c].id)
     \/ InfraErrors /\ Return(c, Failure) /\ UNCHANGED storeVars

(* Cancel. *)
Cancel(t, n) ==
  /\ CancelRow(t, n)
  /\ cancelled' = cancelled \cup {n}
  /\ UNCHANGED <<call, answers>>

SendStep(c) ==
  SendStart(c) \/ SendLookup(c) \/ SendCreate(c) \/ SendEnqueue(c) \/ SendMark(c)
=============================================================================
