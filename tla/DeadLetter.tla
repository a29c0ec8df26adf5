----------------------------- MODULE DeadLetter -----------------------------
(***************************************************************************)
(* internal/worker/dlq_consumer.go, which copies one channel's dead-letter *)
(* topic into the table dead_letter_messages, and the Replay and Delete    *)
(* handlers of internal/api/handler/dlq.go, which operators call on its    *)
(* rows.  The broker and the reader behave as in WorkerPool.               *)
(***************************************************************************)
EXTENDS Store

CONSTANTS Admins,       \* replay requests in flight at a time
          Garbled,      \* indexes of dlqTopic that json.Unmarshal rejects
          MaxRecords,   \* bound: rows ever inserted
          MaxRestarts   \* bound: restarts and rebalances of the consumer

ASSUME DeadLetterAssumption ==
  /\ Garbled \subseteq 1 .. MaxLog
  /\ MaxRecords \in Nat /\ MaxRestarts \in Nat

VARIABLES offset,    \* the consumer group's offset in dlqTopic
          reading,   \* the reader's next index
          held,      \* the index Run is working on, or NoEntry
          stored,    \* Create has succeeded for it
          restarts,  \* restarts and rebalances so far
          records,   \* dead_letter_messages: which entry, and what became of it
          request,   \* what each Replay request is doing
          refused,   \* history: entries whose Create failed
          reissues   \* history: messages published by Replay

consumerVars == <<offset, reading, held, stored, restarts, refused>>
adminVars == <<request, reissues>>
deadLetterVars == <<consumerVars, records, adminVars>>

NoEntry == 0
NoRecord == 0
Record == [entry : 1 .. MaxLog, state : {"unreplayed", "replayed", "deleted"}]
Reissue == [record : 1 .. MaxRecords, index : 1 .. MaxLog]

DeadLetterInit ==
  /\ offset = 1 /\ reading = 1 /\ held = NoEntry /\ stored = FALSE
  /\ restarts = 0 /\ records = <<>> /\ refused = {} /\ reissues = {}
  /\ request = [a \in Admins |-> [pc |-> "ready", record |-> NoRecord]]

DeadLetterTypeOK ==
  /\ offset \in 1 .. Len(dlqTopic) + 1 /\ reading \in 1 .. Len(dlqTopic) + 1
  /\ held \in 0 .. Len(dlqTopic)
  /\ stored \in BOOLEAN /\ (stored => held # NoEntry)
  /\ restarts \in 0 .. MaxRestarts
  /\ records \in Seq(Record) /\ Len(records) <= MaxRecords
  /\ \A r \in 1 .. Len(records) : records[r].entry <= Len(dlqTopic)
  /\ request \in [Admins -> [pc : {"ready", "publish", "mark"},
                             record : 0 .. Len(records)]]
  /\ \A a \in Admins : request[a].pc = "ready" <=> request[a].record = NoRecord
  /\ refused \subseteq 1 .. MaxLog
  /\ reissues \subseteq Reissue

-----------------------------------------------------------------------------
(* Statements on dead_letter_messages.  A row keeps its number; the UPDATE     *)
(* and the DELETE touch nothing, and report no error, when it is gone.         *)
CreateDeadLetter(e) ==
  /\ Len(records) < MaxRecords
  /\ records' = Append(records, [entry |-> e, state |-> "unreplayed"])

GetDeadLetterByID(r) == r \in 1 .. Len(records) /\ records[r].state # "deleted"

MarkDeadLetterReplayed(r) ==
  records' = IF GetDeadLetterByID(r)
             THEN [records EXCEPT ![r].state = "replayed"] ELSE records

DeleteDeadLetter(r) == records' = [records EXCEPT ![r].state = "deleted"]

-----------------------------------------------------------------------------
(* Run: fetch the next message. *)
DLQFetch ==
  /\ held = NoEntry /\ reading <= Len(dlqTopic)
  /\ held' = reading /\ reading' = reading + 1
  /\ UNCHANGED <<storeVars, offset, stored, restarts, refused, records, adminVars>>

(* Run: the message does not decode; commit it and go on. *)
DLQSkip ==
  /\ held \in Garbled
  /\ offset' \in {offset, held + 1}
  /\ held' = NoEntry
  /\ UNCHANGED <<storeVars, reading, stored, restarts, refused, records, adminVars>>

(* Run: Create, one INSERT.  When it fails the loop goes on with the next    *)
(* message, without a commit.                                                *)
DLQPersist ==
  /\ held # NoEntry /\ held \notin Garbled /\ ~stored
  /\ \/ /\ CreateDeadLetter(held)
        /\ stored' = TRUE
        /\ UNCHANGED <<held, refused>>
     \/ /\ InfraErrors
        /\ refused' = refused \cup {held} /\ held' = NoEntry
        /\ UNCHANGED <<records, stored>>
  /\ UNCHANGED <<storeVars, offset, reading, restarts, adminVars>>

(* Run: Commit, whose failure is only logged. *)
DLQCommit ==
  /\ stored
  /\ offset' \in {offset, held + 1}
  /\ held' = NoEntry /\ stored' = FALSE
  /\ UNCHANGED <<storeVars, reading, restarts, refused, records, adminVars>>

\* Mutant: the reader comes back where it was, not where it had committed.
DLQRestartPast ==
  /\ restarts < MaxRestarts /\ restarts' = restarts + 1
  /\ held' = NoEntry /\ stored' = FALSE /\ reading' = reading
  /\ UNCHANGED <<storeVars, offset, refused, records, adminVars>>

(* The worker process stops or dies and is started again. *)
DLQRestart ==
  /\ restarts < MaxRestarts /\ restarts' = restarts + 1
  /\ held' = NoEntry /\ stored' = FALSE /\ reading' = offset
  /\ UNCHANGED <<storeVars, offset, refused, records, adminVars>>

(* A new group generation while Run is at work on a message. *)
DLQRebalance ==
  /\ restarts < MaxRestarts /\ restarts' = restarts + 1
  /\ reading' = offset
  /\ UNCHANGED <<storeVars, offset, held, stored, refused, records, adminVars>>

DLQRun == DLQFetch \/ DLQSkip \/ DLQPersist \/ DLQCommit

-----------------------------------------------------------------------------
(* Replay: read the row, whether it was replayed before or not. *)
ReplayRead(a, r) ==
  /\ request[a].pc = "ready" /\ GetDeadLetterByID(r)
  /\ request' = [request EXCEPT ![a] = [pc |-> "publish", record |-> r]]
  /\ UNCHANGED <<storeVars, consumerVars, records, reissues>>

Answered(a) == request' = [request EXCEPT ![a] = [pc |-> "ready", record |-> NoRecord]]

\* Mutants: an error of Publish is not looked at; the message is built anew,
\* without its TenantID.
ReplayPublishUnchecked(a) ==
  /\ request[a].pc = "publish"
  /\ request' = [request EXCEPT ![a].pc = "mark"]
  /\ UNCHANGED <<storeVars, reissues, consumerVars, records>>

ReplayPublishNoTenant(a) ==
  LET r == request[a].record IN
  /\ request[a].pc = "publish"
  /\ Publish([id |-> dlqTopic[records[r].entry].id, tenant |-> NullTenant])
  /\ reissues' = reissues \cup {[record |-> r, index |-> Len(topic) + 1]}
  /\ request' = [request EXCEPT ![a].pc = "mark"]
  /\ UNCHANGED <<consumerVars, records>>

(* Replay: publish the original message to the channel topic.  A failed      *)
(* publish, which may have reached the broker, ends the request.             *)
ReplayPublish(a) ==
  LET r == request[a].record IN
  /\ request[a].pc = "publish"
  /\ \/ /\ Publish(dlqTopic[records[r].entry])
        /\ reissues' = reissues \cup {[record |-> r, index |-> Len(topic) + 1]}
        /\ \/ request' = [request EXCEPT ![a].pc = "mark"]
           \/ InfraErrors /\ Answered(a)
     \/ InfraErrors /\ Answered(a) /\ UNCHANGED <<storeVars, reissues>>
  /\ UNCHANGED <<consumerVars, records>>

(* Replay: MarkReplayed.  Its failure becomes a warning in the answer. *)
ReplayMark(a) ==
  /\ request[a].pc = "mark"
  /\ \/ MarkDeadLetterReplayed(request[a].record)
     \/ InfraErrors /\ UNCHANGED records
  /\ Answered(a)
  /\ UNCHANGED <<storeVars, consumerVars, reissues>>

(* Delete. *)
DeleteRecord(r) ==
  /\ DeleteDeadLetter(r)
  /\ UNCHANGED <<storeVars, consumerVars, adminVars>>

AdminStep ==
  \/ \E a \in Admins, r \in 1 .. Len(records) : ReplayRead(a, r)
  \/ \E a \in Admins : ReplayPublish(a) \/ ReplayMark(a)
  \/ \E r \in 1 .. Len(records) : DeleteRecord(r)

-----------------------------------------------------------------------------
(* On its own: some run of Process dead-letters a message of the channel. *)
DeadLettered ==
  /\ \E m \in Message : m.tenant \in Tenants /\ PublishDLQ(m)
  /\ UNCHANGED deadLetterVars

DeadLetterNext == DeadLettered \/ DLQRun \/ DLQRestart \/ DLQRebalance \/ AdminStep

letterVars == <<storeVars, deadLetterVars>>

LetterInit == StoreInit /\ DeadLetterInit

DeadLetterSpec == LetterInit /\ [][DeadLetterNext]_letterVars

-----------------------------------------------------------------------------
(* Properties *)

LetterTypeOK == StoreTypeOK /\ DeadLetterTypeOK

Persisted(i) == \E r \in 1 .. Len(records) : records[r].entry = i

\* A dead letter below the group's offset, which the consumer will not see
\* again, got a row of its own, unless it did not decode or its INSERT failed:
\* restarts, rebalances and lost commits skip over nothing else (Run).  A letter
\* whose INSERT failed is lost with the next commit, although Run says that "Kafka
\* will redeliver after recovery".
PersistedOrRefused ==
  \A i \in 1 .. offset - 1 : Persisted(i) \/ i \in Garbled \/ i \in refused

\* A row that says it was replayed has put its own message back into the
\* channel topic, whatever other replays and deletes of the row run at the
\* same time (Replay: MarkReplayed comes after Publish).
ReplayedWasPublished ==
  \A r \in 1 .. Len(records) :
    records[r].state = "replayed" =>
      \E x \in reissues :
        x.record = r /\ x.index <= Len(topic)
          /\ topic[x.index] = dlqTopic[records[r].entry]
=============================================================================
