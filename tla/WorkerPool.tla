----------------------------- MODULE WorkerPool -----------------------------
(***************************************************************************)
(* internal/worker/pool.go over internal/queue/consumer.go: one fetch      *)
(* loop, a buffered channel and a fixed set of worker goroutines that      *)
(* consume one channel's topic.  Every topic has one partition             *)
(* (queue/admin.go), so a message is its offset.                           *)
(*                                                                         *)
(* The broker and the kafka-go reader are external: the reader hands out   *)
(* consecutive offsets from a position of its own; a commit of message o   *)
(* sets the group's offset to o + 1 whatever it was before; a restarted    *)
(* or rebalanced reader starts again from the group's offset.              *)
(* Processor.Process is seen here only through its result; the module      *)
(* Processor has its steps.                                                *)
(***************************************************************************)
EXTENDS Integers, Sequences, FiniteSets

CONSTANTS Workers,      \* the goroutines started by Run; their number is
                        \* also the capacity of the work channel
          MaxMessages,  \* bound: messages ever published to the topic
          Poison,       \* offsets whose value json.Unmarshal rejects
          InfraErrors,  \* may Process fail while the worker is not stopping?
          MaxFaults     \* bound: crashes + rebalances + stop requests

ASSUME PoolAssumption ==
  /\ IsFiniteSet(Workers) /\ Workers # {}
  /\ MaxMessages \in Nat /\ MaxFaults \in Nat
  /\ Poison \subseteq 0 .. MaxMessages - 1
  /\ InfraErrors \in BOOLEAN

VARIABLES
  \* the broker and the reader (external)
  logEnd,     \* offsets 0 .. logEnd-1 are in the partition
  committed,  \* the consumer group's offset
  position,   \* the reader's next offset
  \* the pool
  phase,      \* "running", "draining" (work closed), "stopped", "down"
  cancelled,  \* ctx is cancelled
  fetched,    \* the message fetchLoop holds, or None
  work,       \* the work channel
  stage,      \* where each worker goroutine is
  item,       \* the message each worker goroutine holds, or None
  faults,     \* faults so far
  \* history
  completed,  \* Process returned nil, or the fetch loop skipped the message
  failed,     \* Process returned an error
  abandoned   \* in flight when the process crashed

brokerVars == <<logEnd, committed, position>>
historyVars == <<completed, failed, abandoned>>
vars == <<logEnd, committed, position, phase, cancelled, fetched, work, stage,
          item, faults, completed, failed, abandoned>>

None == -1
Offsets == 0 .. MaxMessages - 1
Concurrency == Cardinality(Workers)
Holding == {"processing", "doomed", "committing"}

Init ==
  /\ logEnd = 0 /\ committed = 0 /\ position = 0
  /\ phase = "running" /\ cancelled = FALSE
  /\ fetched = None /\ work = <<>>
  /\ stage = [w \in Workers |-> "idle"]
  /\ item = [w \in Workers |-> None]
  /\ faults = 0
  /\ completed = {} /\ failed = {} /\ abandoned = {}

-----------------------------------------------------------------------------
(* The producer side: some client of the topic appends a message. *)
Publish ==
  /\ logEnd < MaxMessages
  /\ logEnd' = logEnd + 1
  /\ UNCHANGED <<committed, position, phase, cancelled, fetched, work, stage,
                 item, faults, historyVars>>

(* fetchLoop: consumer.Fetch returns a message.  The reader's select may    *)
(* still pick a buffered message when ctx is already cancelled.             *)
Fetch ==
  /\ phase = "running" /\ fetched = None
  /\ position < logEnd
  /\ fetched' = position
  /\ position' = position + 1
  /\ UNCHANGED <<logEnd, committed, phase, cancelled, work, stage, item, faults,
                 historyVars>>

(* fetchLoop: the value does not decode; commit it and go on.  A failed     *)
(* commit is only logged.                                                   *)
SkipPoison ==
  /\ fetched \in Poison
  /\ committed' \in {committed, fetched + 1}
  /\ completed' = completed \cup {fetched}
  /\ fetched' = None
  /\ UNCHANGED <<logEnd, position, phase, cancelled, work, stage, item, faults,
                 failed, abandoned>>

\* Mutants: a send that gives up when the channel is full, and an unbounded one.
DispatchOrDrop ==
  /\ fetched # None /\ fetched \notin Poison
  /\ work' = IF Len(work) < Concurrency THEN Append(work, fetched) ELSE work
  /\ fetched' = None
  /\ UNCHANGED <<brokerVars, phase, cancelled, stage, item, faults, historyVars>>

DispatchUnbounded ==
  /\ fetched # None /\ fetched \notin Poison
  /\ work' = Append(work, fetched)
  /\ fetched' = None
  /\ UNCHANGED <<brokerVars, phase, cancelled, stage, item, faults, historyVars>>

(* fetchLoop: work <- item, which blocks while the channel is full. *)
Dispatch ==
  /\ fetched # None /\ fetched \notin Poison
  /\ Len(work) < Concurrency
  /\ work' = Append(work, fetched)
  /\ fetched' = None
  /\ UNCHANGED <<brokerVars, phase, cancelled, stage, item, faults, historyVars>>

\* Mutant: Run without close(work).
FetchStopUnclosed ==
  /\ phase = "running" /\ fetched = None /\ cancelled
  /\ phase' = "unclosed"
  /\ UNCHANGED <<brokerVars, cancelled, fetched, work, stage, item, faults,
                 historyVars>>

(* fetchLoop: Fetch fails and ctx is cancelled; Run then closes work. *)
FetchStop ==
  /\ phase = "running" /\ fetched = None /\ cancelled
  /\ phase' = "draining"
  /\ UNCHANGED <<brokerVars, cancelled, fetched, work, stage, item, faults,
                 historyVars>>

-----------------------------------------------------------------------------
(* runWorker: receive the next item.  An item taken after cancellation can  *)
(* only fail: the first thing Process does is a query with that context.    *)
Take(w) ==
  /\ stage[w] = "idle" /\ work # <<>>
  /\ item' = [item EXCEPT ![w] = Head(work)]
  /\ work' = Tail(work)
  /\ stage' = [stage EXCEPT ![w] = IF cancelled THEN "doomed" ELSE "processing"]
  /\ UNCHANGED <<brokerVars, phase, cancelled, fetched, faults, historyVars>>

(* runWorker: Process returned nil; the commit is next. *)
ProcessNil(w) ==
  /\ stage[w] = "processing"
  /\ stage' = [stage EXCEPT ![w] = "committing"]
  /\ completed' = completed \cup {item[w]}
  /\ UNCHANGED <<brokerVars, phase, cancelled, fetched, work, item, faults,
                 failed, abandoned>>

\* Mutant: the "continue" after a Process error is missing.
ProcessErrorCommits(w) ==
  /\ \/ stage[w] = "doomed"
     \/ stage[w] = "processing" /\ (InfraErrors \/ cancelled)
  /\ stage' = [stage EXCEPT ![w] = "committing"]
  /\ failed' = failed \cup {item[w]}
  /\ UNCHANGED <<brokerVars, phase, cancelled, fetched, work, item, faults,
                 completed, abandoned>>

(* runWorker: Process returned an error; log it and continue, no commit. *)
ProcessError(w) ==
  /\ \/ stage[w] = "doomed"
     \/ stage[w] = "processing" /\ (InfraErrors \/ cancelled)
  /\ stage' = [stage EXCEPT ![w] = "idle"]
  /\ item' = [item EXCEPT ![w] = None]
  /\ failed' = failed \cup {item[w]}
  /\ UNCHANGED <<brokerVars, phase, cancelled, fetched, work, faults, completed,
                 abandoned>>

(* runWorker: consumer.Commit, whose failure is only logged.  With a        *)
(* cancelled ctx the request may or may not have reached the broker.        *)
Commit(w) ==
  /\ stage[w] = "committing"
  /\ committed' \in {committed, item[w] + 1}
  /\ stage' = [stage EXCEPT ![w] = "idle"]
  /\ item' = [item EXCEPT ![w] = None]
  /\ UNCHANGED <<logEnd, position, phase, cancelled, fetched, work, faults,
                 historyVars>>

\* Mutant: the worker leaves on close without draining the channel.
ExitUndrained(w) ==
  /\ stage[w] = "idle" /\ phase = "draining"
  /\ stage' = [stage EXCEPT ![w] = "exited"]
  /\ UNCHANGED <<brokerVars, phase, cancelled, fetched, work, item, faults,
                 historyVars>>

(* runWorker: the channel is closed and empty. *)
Exit(w) ==
  /\ stage[w] = "idle" /\ phase = "draining" /\ work = <<>>
  /\ stage' = [stage EXCEPT ![w] = "exited"]
  /\ UNCHANGED <<brokerVars, phase, cancelled, fetched, work, item, faults,
                 historyVars>>

(* Run: wg.Wait() has returned; the consumer is closed. *)
Close ==
  /\ phase = "draining"
  /\ \A w \in Workers : stage[w] = "exited"
  /\ phase' = "stopped"
  /\ UNCHANGED <<brokerVars, cancelled, fetched, work, stage, item, faults,
                 historyVars>>

-----------------------------------------------------------------------------
(* The environment of the process. *)
InFlight ==
  {item[w] : w \in {v \in Workers : stage[v] \in Holding}}
    \cup {work[i] : i \in 1 .. Len(work)}
    \cup ({fetched} \ {None})

\* SIGINT or SIGTERM: cmd/worker cancels the context of every pool.
Stop ==
  /\ phase = "running" /\ ~cancelled
  /\ faults < MaxFaults /\ faults' = faults + 1
  /\ cancelled' = TRUE
  /\ UNCHANGED <<brokerVars, phase, fetched, work, stage, item, historyVars>>

\* The process dies; the channel and the goroutines are gone.
Crash ==
  /\ phase \in {"running", "draining"}
  /\ faults < MaxFaults /\ faults' = faults + 1
  /\ phase' = "down"
  /\ abandoned' = abandoned \cup InFlight
  /\ fetched' = None /\ work' = <<>>
  /\ stage' = [w \in Workers |-> "idle"]
  /\ item' = [w \in Workers |-> None]
  /\ UNCHANGED <<brokerVars, cancelled, completed, failed>>

\* Mutant: StartOffset is LastOffset, so that a group without a commit begins
\* at the end of the log.
RestartAtLogEnd ==
  /\ phase \in {"down", "stopped"}
  /\ phase' = "running" /\ cancelled' = FALSE
  /\ stage' = [w \in Workers |-> "idle"]
  /\ position' = IF committed = 0 THEN logEnd ELSE committed
  /\ UNCHANGED <<logEnd, committed, fetched, work, item, faults, historyVars>>

\* A new process joins the group and reads from the group's offset.
Restart ==
  /\ phase \in {"down", "stopped"}
  /\ phase' = "running" /\ cancelled' = FALSE
  /\ stage' = [w \in Workers |-> "idle"]
  /\ position' = committed
  /\ UNCHANGED <<logEnd, committed, fetched, work, item, faults, historyVars>>

\* A new group generation: the same reader starts again from the group's
\* offset, while what it had handed out stays in the pool.
Rebalance ==
  /\ phase = "running"
  /\ faults < MaxFaults /\ faults' = faults + 1
  /\ position' = committed
  /\ UNCHANGED <<logEnd, committed, phase, cancelled, fetched, work, stage, item,
                 historyVars>>

-----------------------------------------------------------------------------
FetchLoop == Fetch \/ SkipPoison \/ Dispatch \/ FetchStop

RunWorker(w) ==
  Take(w) \/ ProcessNil(w) \/ ProcessError(w) \/ Commit(w) \/ Exit(w)

Next ==
  \/ Publish \/ FetchLoop \/ Close
  \/ \E w \in Workers : RunWorker(w)
  \/ Stop \/ Crash \/ Restart \/ Rebalance

Spec == Init /\ [][Next]_vars

\* The scheduler of the Go runtime runs every goroutine that can run; Process
\* returns (its retry loop is bounded); a dead or stopped worker is started
\* again by whoever operates it.
Fairness ==
  /\ WF_vars(FetchLoop)
  /\ WF_vars(Close)
  /\ \A w \in Workers : WF_vars(RunWorker(w))
  /\ WF_vars(Restart)

FairSpec == Spec /\ Fairness

-----------------------------------------------------------------------------
(* Properties *)

TypeOK ==
  /\ logEnd \in 0 .. MaxMessages
  /\ committed \in 0 .. logEnd /\ position \in 0 .. logEnd
  /\ phase \in {"running", "draining", "stopped", "down"}
  /\ cancelled \in BOOLEAN
  /\ fetched \in 0 .. logEnd - 1 \cup {None}
  /\ work \in Seq(0 .. logEnd - 1) /\ Len(work) <= Concurrency
  /\ stage \in [Workers -> {"idle", "exited"} \cup Holding]
  /\ item \in [Workers -> 0 .. logEnd - 1 \cup {None}]
  /\ \A w \in Workers : item[w] = None <=> stage[w] \notin Holding
  /\ faults \in 0 .. MaxFaults
  /\ completed \subseteq 0 .. logEnd - 1
  /\ failed \subseteq 0 .. logEnd - 1
  /\ abandoned \subseteq 0 .. logEnd - 1

Accounted == completed \cup failed \cup abandoned \cup InFlight

\* A message below the group's offset, which no reader will fetch again, was
\* completed, or is still in the pool, or Process refused it, or it was in
\* the pool at a crash: fetching, the channel and out-of-order commits by the
\* workers lose nothing else (Pool.Run, fetchLoop, runWorker).
NoUnexplainedLoss == \A o \in 0 .. committed - 1 : o \in Accounted

\* A graceful stop leaves nothing in the channel or with a worker, so that
\* the consumer is closed with no message in flight (Pool.Run: "all in-flight
\* messages are processed, and the consumer is closed").
DrainedWhenStopped == phase = "stopped" => InFlight = {}

\* A commit names a message whose Process returned nil, or an undecodable one
\* (Consumer.Commit: "only after the message has been fully handled").
CommitOnlyCompleted == [][committed' # committed => committed' - 1 \in completed']_vars

\* "infrastructure errors leave messages unconsumed for reprocessing": a
\* message that Process refused and never completed is not below the group's
\* offset, unless it is being handled again (runWorker: "skip commit so Kafka
\* redelivers").
FailedIsRedelivered ==
  \A o \in failed \ completed : committed <= o \/ o \in InFlight

\* Once the context is cancelled the pool comes to rest: the fetch loop never
\* blocks for good on a full channel and every worker leaves (Pool.Run).
ShutdownCompletes ==
  (phase = "running" /\ cancelled) ~> phase \in {"stopped", "down"}

\* Every published message is completed or refused, or was in flight at a
\* crash: no message waits forever in the topic or in the channel.
EveryMessageHandled ==
  \A o \in Offsets : o < logEnd ~> o \in completed \cup failed \cup abandoned

\* The pool keeps the contract its handler relies on: it implements Delivery,
\* each worker goroutine being a handler (runWorker, fetchLoop).
Contract ==
  INSTANCE Delivery WITH
    Handlers <- Workers, LogCapacity <- MaxMessages,
    produced <- logEnd, finished <- completed, resume <- committed,
    handling <- [w \in Workers |->
                   IF stage[w] \in {"processing", "doomed"} THEN item[w] ELSE None]

KeepsContract == Contract!DeliverySpec
=============================================================================
