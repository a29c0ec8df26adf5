-------------------------------- MODULE Store --------------------------------
(***************************************************************************)
(* What the API process and the worker process share: the notifications   *)
(* table, as internal/repository/notification.go reads and writes it, and  *)
(* the two Kafka topics of one channel.  Each operator below is one SQL    *)
(* statement or one publish, and so one atomic step of its caller.         *)
(***************************************************************************)
EXTENDS Integers, Sequences, FiniteSets

CONSTANTS Tenants,      \* tenant UUIDs
          Keys,         \* idempotency keys of requests, perhaps EmptyKey
          MaxRows,      \* bound: notifications ever created
          MaxLog,       \* bound: messages ever published to each topic
          InfraErrors   \* may Postgres, Redis and Kafka calls fail?

ASSUME StoreAssumption ==
  /\ MaxRows \in Nat /\ MaxLog \in Nat
  /\ InfraErrors \in BOOLEAN

VARIABLES status,    \* column status; "absent" before the INSERT
          tenantOf,  \* column tenant_id
          keyOf,     \* column idempotency_key
          schedule,  \* column scheduled_at: "null", "future" or "due"
          topic,     \* the channel topic
          dlqTopic   \* the channel's dead-letter topic

storeVars == <<status, tenantOf, keyOf, schedule, topic, dlqTopic>>
columns == <<tenantOf, keyOf, schedule>>

Ids == 1 .. MaxRows
NoKey == "no key"
EmptyKey == ""
NullTenant == "00000000-0000-0000-0000-000000000000"

Terminal == {"delivered", "failed", "dropped"}
Statuses == {"absent", "pending", "queued", "processing"} \cup Terminal

\* queue.Message, down to the fields that decide what a worker does with it.
\* Every producer sets Attempt to 1.
Message == [id : Ids, tenant : Tenants \cup {NullTenant}]

StoreInit ==
  /\ status = [n \in Ids |-> "absent"]
  /\ tenantOf = [n \in Ids |-> NullTenant]
  /\ keyOf = [n \in Ids |-> NoKey]
  /\ schedule = [n \in Ids |-> "null"]
  /\ topic = <<>> /\ dlqTopic = <<>>

StoreTypeOK ==
  /\ status \in [Ids -> Statuses]
  /\ tenantOf \in [Ids -> Tenants \cup {NullTenant}]
  /\ keyOf \in [Ids -> Keys \cup {NoKey}]
  /\ schedule \in [Ids -> {"null", "future", "due"}]
  /\ topic \in Seq(Message) /\ Len(topic) <= MaxLog
  /\ dlqTopic \in Seq(Message) /\ Len(dlqTopic) <= MaxLog

Existing == {n \in Ids : status[n] # "absent"}

-----------------------------------------------------------------------------
(* Queries. *)

\* GetNotificationByIdempotencyKey: of this tenant only.
FindByKey(t, k) == {n \in Existing : keyOf[n] = k /\ tenantOf[n] = t}

\* Mutant: without the UNIQUE constraint.
KeyNeverTaken(k) == k # k

\* The UNIQUE constraint on idempotency_key does not mention the tenant.
KeyTaken(k) == k # NoKey /\ \E n \in Existing : keyOf[n] = k

\* GetNotificationByID: the row must belong to the tenant.
GetByID(t, n) == n \in Existing /\ tenantOf[n] = t

\* Mutant: the query forgets status = 'pending'.
DueWhateverStatus == {n \in Existing : schedule[n] = "due"}

\* ListDueScheduledNotifications, without its LIMIT.
DueScheduled == {n \in Existing : status[n] = "pending" /\ schedule[n] = "due"}

-----------------------------------------------------------------------------
(* Statements. *)

Create(n, t, k, s) ==
  /\ status[n] = "absent"
  /\ \A m \in Ids : m < n => status[m] # "absent"
  /\ status' = [status EXCEPT ![n] = "pending"]
  /\ tenantOf' = [tenantOf EXCEPT ![n] = t]
  /\ keyOf' = [keyOf EXCEPT ![n] = k]
  /\ schedule' = [schedule EXCEPT ![n] = s]
  /\ UNCHANGED <<topic, dlqTopic>>

\* UpdateNotificationStatus: by id, whatever the status was.
UpdateStatus(n, s) ==
  /\ status' = [status EXCEPT ![n] = s]
  /\ UNCHANGED <<columns, topic, dlqTopic>>

\* Mutant: the UPDATE does not ask for the status.
CancelAnyRow(t, n) == GetByID(t, n) /\ UpdateStatus(n, "dropped")

\* CancelNotification: one conditional UPDATE.
CancelRow(t, n) ==
  /\ GetByID(t, n) /\ status[n] \in {"pending", "queued"}
  /\ UpdateStatus(n, "dropped")

Publish(m) ==
  /\ Len(topic) < MaxLog
  /\ topic' = Append(topic, m)
  /\ UNCHANGED <<status, columns, dlqTopic>>

PublishDLQ(m) ==
  /\ Len(dlqTopic) < MaxLog
  /\ dlqTopic' = Append(dlqTopic, m)
  /\ UNCHANGED <<status, columns, topic>>

\* The wall clock reaches a row's scheduled_at.
ComeDue(n) ==
  /\ schedule[n] = "future"
  /\ schedule' = [schedule EXCEPT ![n] = "due"]
  /\ UNCHANGED <<status, tenantOf, keyOf, topic, dlqTopic>>
=============================================================================
