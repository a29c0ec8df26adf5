------------------------------ MODULE Delivery ------------------------------
(***************************************************************************)
(* What a message handler may assume of the consumer group that feeds it.  *)
(* The three consumers of the worker process (worker.Pool,                 *)
(* worker.DLQConsumer, worker.WebhookWorker) share this contract: a        *)
(* handler is only started on a message that was produced, it ends with    *)
(* nil or with an error, and the group's offset is only ever set just past *)
(* a message that was finished.  The contract is silent about messages     *)
(* below the offset: see WorkerPool for what the code really does there.   *)
(***************************************************************************)
EXTENDS Integers

CONSTANTS Handlers,    \* the goroutines that run a handler
          LogCapacity  \* bound on the number of messages ever produced

VARIABLES produced,    \* messages 0 .. produced-1 exist in the topic
          handling,    \* the message a handler is working on, or Nothing
          finished,    \* messages a handler returned nil for, or skipped
          resume       \* the group's committed offset

deliveryVars == <<produced, handling, finished, resume>>

Nothing == -1

DeliveryInit ==
  /\ produced = 0
  /\ handling = [h \in Handlers |-> Nothing]
  /\ finished = {}
  /\ resume = 0

Produce ==
  /\ produced < LogCapacity
  /\ produced' = produced + 1
  /\ UNCHANGED <<handling, finished, resume>>

Begin(h) ==
  /\ handling[h] = Nothing
  /\ \E m \in 0 .. produced - 1 : handling' = [handling EXCEPT ![h] = m]
  /\ UNCHANGED <<produced, finished, resume>>

EndNil(h) ==
  /\ handling[h] # Nothing
  /\ finished' = finished \cup {handling[h]}
  /\ handling' = [handling EXCEPT ![h] = Nothing]
  /\ UNCHANGED <<produced, resume>>

EndError(h) ==
  /\ handling[h] # Nothing
  /\ handling' = [handling EXCEPT ![h] = Nothing]
  /\ UNCHANGED <<produced, finished, resume>>

Acknowledge ==
  /\ \E m \in finished : resume' = m + 1
  /\ UNCHANGED <<produced, handling, finished>>

\* A message that cannot be decoded is finished without a handler.
Skip ==
  /\ \E m \in 0 .. produced - 1 :
       /\ finished' = finished \cup {m}
       /\ resume' \in {resume, m + 1}
  /\ UNCHANGED <<produced, handling>>

\* A crash stops every handler in the middle of its message.
Lose ==
  /\ handling' = [h \in Handlers |-> Nothing]
  /\ UNCHANGED <<produced, finished, resume>>

DeliveryNext ==
  \/ Produce \/ Acknowledge \/ Skip \/ Lose
  \/ \E h \in Handlers : Begin(h) \/ EndNil(h) \/ EndError(h)

DeliverySpec == DeliveryInit /\ [][DeliveryNext]_deliveryVars
=============================================================================
