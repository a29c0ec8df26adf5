------------------------------ MODULE Processor ------------------------------
(***************************************************************************)
(* internal/worker/processor.go: the seven-step pipeline each worker       *)
(* goroutine runs on a message, one step per call to Postgres, Redis,      *)
(* Kafka or the provider.  WorkerPool says when a message is handed to     *)
(* Process: any message of the topic, several times after a crash, a       *)
(* rebalance or a lost commit, and not always at least once.               *)
(***************************************************************************)
EXTENDS Store

CONSTANTS Handlers,     \* worker goroutines
          MaxAttempts,  \* queue.Message.MaxAttempts
          MaxHandouts,  \* bound: times one message is handed to Process
          MaxDoubts,    \* bound: sends of one notification that fail after the
                        \* provider has accepted it
          DLQEnabled    \* configuration

ASSUME ProcessorAssumption ==
  /\ IsFiniteSet(Handlers)
  /\ MaxAttempts \in Nat
  /\ MaxHandouts \in Nat /\ MaxDoubts \in Nat
  /\ DLQEnabled \in BOOLEAN

VARIABLES step,      \* where each handler is in Process
          current,   \* the index in topic of its message, or NoMessage
          attempt,   \* sendWithRetry's attempt counter
          outcome,   \* what deliver or drop is about to record
          handed,    \* times each message was handed to Process
          concluded, \* messages Process returned nil for
          sent,      \* provider sends that succeeded, per notification
          doubtful,  \* sends that failed after the provider had accepted, likewise
          tried,     \* provider sends in this run of Process, per handler
          logged,    \* delivery_logs rows: [id, success]
          dlqLost,   \* notifications whose dead letter could not be published
          events     \* webhook events dispatched: [id, event]

processorVars == <<step, current, attempt, outcome, handed, concluded, sent,
                   doubtful, tried, logged, dlqLost, events>>

NoMessage == 0
Indexes == 1 .. MaxLog
Steps == {"idle", "fetch", "mark", "check", "render", "send", "log",
          "deadletter", "status", "webhook"}

ProcessorInit ==
  /\ step = [h \in Handlers |-> "idle"]
  /\ current = [h \in Handlers |-> NoMessage]
  /\ attempt = [h \in Handlers |-> 1]
  /\ outcome = [h \in Handlers |-> "none"]
  /\ handed = [i \in Indexes |-> 0]
  /\ concluded = {}
  /\ sent = [n \in Ids |-> 0] /\ doubtful = [n \in Ids |-> 0]
  /\ tried = [h \in Handlers |-> 0]
  /\ logged = {} /\ dlqLost = {} /\ events = {}

\* The notification a handler is working on.
Target(h) == topic[current[h]].id

ProcessorTypeOK ==
  /\ step \in [Handlers -> Steps]
  /\ current \in [Handlers -> 0 .. Len(topic)]
  /\ \A h \in Handlers : step[h] = "idle" <=> current[h] = NoMessage
  /\ attempt \in [Handlers -> Nat]
  /\ outcome \in [Handlers -> {"none"} \cup Terminal]
  /\ handed \in [Indexes -> 0 .. MaxHandouts]
  /\ concluded \subseteq Indexes
  /\ sent \in [Ids -> Nat] /\ doubtful \in [Ids -> 0 .. MaxDoubts]
  /\ tried \in [Handlers -> Nat]
  /\ logged \subseteq [id : Ids, success : BOOLEAN]
  /\ dlqLost \subseteq Ids
  /\ events \subseteq [id : Ids, event : Terminal]

Advance(h, s) == step' = [step EXCEPT ![h] = s]

Leave(h) ==
  /\ step' = [step EXCEPT ![h] = "idle"]
  /\ current' = [current EXCEPT ![h] = NoMessage]
  /\ attempt' = [attempt EXCEPT ![h] = 1]
  /\ outcome' = [outcome EXCEPT ![h] = "none"]
  /\ tried' = [tried EXCEPT ![h] = 0]

ReturnError(h) ==
  /\ Leave(h)
  /\ UNCHANGED <<storeVars, handed, concluded, sent, doubtful, logged, dlqLost, events>>

\* Settle on an outcome; writing the delivery log comes next.
Conclude(h, o) ==
  /\ Advance(h, "log")
  /\ outcome' = [outcome EXCEPT ![h] = o]
  /\ UNCHANGED <<storeVars, current, attempt, handed, concluded, logged, dlqLost,
                 events>>

-----------------------------------------------------------------------------
(* The pool hands message i to Process. *)
Begin(h, i) ==
  /\ step[h] = "idle" /\ handed[i] < MaxHandouts
  /\ step' = [step EXCEPT ![h] = "fetch"]
  /\ current' = [current EXCEPT ![h] = i]
  /\ handed' = [handed EXCEPT ![i] = @ + 1]
  /\ UNCHANGED <<storeVars, attempt, outcome, concluded, sent, doubtful, tried, logged,
                 dlqLost, events>>

(* Step 1: fetch the row.  No row for this tenant is an error like any other. *)
ProcFetch(h) ==
  LET m == topic[current[h]] IN
  /\ step[h] = "fetch"
  /\ \/ /\ GetByID(m.tenant, m.id) /\ Advance(h, "mark")
        /\ UNCHANGED <<storeVars, current, attempt, outcome, handed, concluded,
                       sent, doubtful, tried, logged, dlqLost, events>>
     \/ ~GetByID(m.tenant, m.id) /\ ReturnError(h)
     \/ InfraErrors /\ ReturnError(h)

(* Step 2: mark the row processing. *)
ProcMark(h) ==
  /\ step[h] = "mark"
  /\ \/ /\ UpdateStatus(Target(h), "processing") /\ Advance(h, "check")
        /\ UNCHANGED <<current, attempt, outcome, handed, concluded, sent, doubtful, tried,
                       logged, dlqLost, events>>
     \/ InfraErrors /\ ReturnError(h)

(* Steps 3 and 4: the preference and the rate limit each allow or drop. *)
ProcCheck(h) ==
  /\ step[h] = "check"
  /\ \/ /\ Advance(h, "render")
        /\ UNCHANGED <<storeVars, current, attempt, outcome, handed, concluded,
                       sent, doubtful, tried, logged, dlqLost, events>>
     \/ Conclude(h, "dropped") /\ UNCHANGED <<sent, doubtful, tried>>
     \/ InfraErrors /\ ReturnError(h)

(* Step 5 and the provider lookup: any failure is final. *)
ProcRender(h) ==
  /\ step[h] = "render"
  /\ \/ /\ Advance(h, "send")
        /\ UNCHANGED <<storeVars, current, attempt, outcome, handed, concluded,
                       sent, doubtful, tried, logged, dlqLost, events>>
     \/ Conclude(h, "failed") /\ UNCHANGED <<sent, doubtful, tried>>

\* A Send that fails: a permanent error, a temporary one, or none that says what
\* became of it, such as a timeout after the provider has accepted.
SendFails(h) ==
  /\ UNCHANGED sent
  /\ \/ UNCHANGED doubtful
     \/ /\ doubtful[Target(h)] < MaxDoubts
        /\ doubtful' = [doubtful EXCEPT ![Target(h)] = @ + 1]

\* The backoff passes.
TryAgain(h) ==
  /\ attempt' = [attempt EXCEPT ![h] = @ + 1]
  /\ UNCHANGED <<storeVars, step, current, outcome, handed, concluded, logged, dlqLost,
                 events>>

Sent(h) == sent' = [sent EXCEPT ![Target(h)] = @ + 1] /\ UNCHANGED doubtful

\* Mutants: one attempt too many; the last error is taken for a success; the
\* loop is not left after a success.
ProcSendOnceMore(h) ==
  /\ step[h] = "send"
  /\ tried' = [tried EXCEPT ![h] = @ + 1]
  /\ \/ Sent(h) /\ Conclude(h, "delivered")
     \/ SendFails(h) /\ Conclude(h, "failed")
     \/ SendFails(h) /\ attempt[h] <= MaxAttempts /\ TryAgain(h)

ProcSendSwallows(h) ==
  /\ step[h] = "send"
  /\ tried' = [tried EXCEPT ![h] = @ + 1]
  /\ \/ Sent(h) /\ Conclude(h, "delivered")
     \/ SendFails(h) /\ attempt[h] >= MaxAttempts /\ Conclude(h, "delivered")
     \/ SendFails(h) /\ attempt[h] < MaxAttempts /\ TryAgain(h)

ProcSendNoReturn(h) ==
  /\ step[h] = "send"
  /\ tried' = [tried EXCEPT ![h] = @ + 1]
  /\ \/ Sent(h) /\ attempt[h] >= MaxAttempts /\ Conclude(h, "delivered")
     \/ Sent(h) /\ attempt[h] < MaxAttempts /\ TryAgain(h)

(* Step 6, one round of sendWithRetry: the provider accepts; or the error is *)
(* permanent, the attempts are used up or the context is cancelled during    *)
(* the backoff, which all end in failure; or the backoff passes and the      *)
(* notification is sent again, also if the provider has already accepted it. *)
ProcSend(h) ==
  /\ step[h] = "send"
  /\ tried' = [tried EXCEPT ![h] = @ + 1]
  /\ \/ Sent(h) /\ Conclude(h, "delivered")
     \/ SendFails(h) /\ Conclude(h, "failed")
     \/ SendFails(h) /\ attempt[h] < MaxAttempts /\ TryAgain(h)

\* Mutant: the failure path without deadLetter.
ProcLogNoDeadLetter(h) ==
  /\ step[h] = "log"
  /\ Advance(h, "status")
  /\ logged' = logged \cup {[id |-> Target(h), success |-> outcome[h] = "delivered"]}
  /\ UNCHANGED <<storeVars, current, attempt, outcome, handed, concluded, sent, doubtful,
                 tried, dlqLost, events>>

(* Step 7: logDelivery.  From here on errors are only logged. *)
ProcLog(h) ==
  /\ step[h] = "log"
  /\ Advance(h, IF outcome[h] = "failed" THEN "deadletter" ELSE "status")
  /\ \/ logged' = logged \cup {[id |-> Target(h), success |-> outcome[h] = "delivered"]}
     \/ InfraErrors /\ UNCHANGED logged
  /\ UNCHANGED <<storeVars, current, attempt, outcome, handed, concluded, sent, doubtful,
                 tried, dlqLost, events>>

(* deadLetter, before the row is marked failed. *)
ProcDeadLetter(h) ==
  /\ step[h] = "deadletter"
  /\ Advance(h, "status")
  /\ \/ DLQEnabled /\ PublishDLQ(topic[current[h]]) /\ UNCHANGED dlqLost
     \/ /\ DLQEnabled /\ InfraErrors
        /\ dlqLost' = dlqLost \cup {Target(h)}
        /\ PublishDLQ(topic[current[h]]) \/ UNCHANGED storeVars
     \/ ~DLQEnabled /\ UNCHANGED <<storeVars, dlqLost>>
  /\ UNCHANGED <<current, attempt, outcome, handed, concluded, sent, doubtful, tried, logged,
                 events>>

(* updateStatus with the outcome. *)
ProcStatus(h) ==
  /\ step[h] = "status"
  /\ Advance(h, "webhook")
  /\ \/ UpdateStatus(Target(h), outcome[h])
     \/ InfraErrors /\ UNCHANGED storeVars
  /\ UNCHANGED <<current, attempt, outcome, handed, concluded, sent, doubtful, tried, logged,
                 dlqLost, events>>

(* dispatchWebhook; Process returns nil. *)
ProcWebhook(h) ==
  /\ step[h] = "webhook"
  /\ Leave(h)
  /\ concluded' = concluded \cup {current[h]}
  /\ \/ events' = events \cup {[id |-> Target(h), event |-> outcome[h]]}
     \/ InfraErrors /\ UNCHANGED events
  /\ UNCHANGED <<storeVars, handed, sent, doubtful, logged, dlqLost>>

\* The worker process dies: every run of Process is cut off where it is.
ProcCrash ==
  /\ \E h \in Handlers : step[h] # "idle"
  /\ step' = [h \in Handlers |-> "idle"]
  /\ current' = [h \in Handlers |-> NoMessage]
  /\ attempt' = [h \in Handlers |-> 1]
  /\ outcome' = [h \in Handlers |-> "none"]
  /\ tried' = [h \in Handlers |-> 0]
  /\ UNCHANGED <<storeVars, handed, concluded, sent, doubtful, logged, dlqLost, events>>

ProcStep(h) ==
  \/ ProcFetch(h) \/ ProcMark(h) \/ ProcCheck(h) \/ ProcRender(h) \/ ProcSend(h)
  \/ ProcLog(h) \/ ProcDeadLetter(h) \/ ProcStatus(h) \/ ProcWebhook(h)

ProcBegin(h) == \E i \in 1 .. Len(topic) : Begin(h, i)
=============================================================================
