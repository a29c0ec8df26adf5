----------------------------- MODULE Processes -----------------------------
(***************************************************************************)
(* The two programs, cmd/worker/main.go and cmd/api/main.go: how they      *)
(* start, what they start, and the order in which they stop.  The parts of *)
(* the worker are seen only through the loop around Fetch or the ticker;   *)
(* the modules named after them have what they do.  One channel.           *)
(* Postgres, Redis, Kafka and whoever restarts a process are external.  A  *)
(* reader that joins its group while its topic does not exist is assigned  *)
(* nothing for as long as it lives, as queue/admin.go describes it.        *)
(***************************************************************************)
EXTENDS Integers, Sequences, FiniteSets

CONSTANTS Settings,    \* possible environments: dlq, webhook, concurrency
          MaxStarts    \* bound: process starts

ASSUME ProcessesAssumption ==
  /\ \A s \in Settings :
       s.dlq \in BOOLEAN /\ s.webhook \in BOOLEAN /\ s.concurrency \in Int
  /\ MaxStarts \in Nat

Programs == {"worker", "api"}
Resources == {"postgres", "redis", "producer"}
Consumers == {"pool", "dlq", "webhook"}
Parts == Consumers \cup {"scheduler"}
Kinds == {"http", "stream"}   \* a stream has taken its connection from the server

VARIABLES
  settings,   \* what config.Load reads
  topics,     \* topics that exist, each named after its consumer; one without an
              \* enabled consumer is left out
  unread,     \* topics that hold a message nobody fetched
  main,       \* per program, the step main is at
  open,       \* per program, the resources it holds
  signalled,  \* per program, SIGTERM was received
  part,       \* per part of the worker, what its goroutine does
  assigned,   \* consumers whose reader was assigned its topic
  requests,   \* kinds of requests that the API handles
  starts,
  \* history
  swallowed,  \* an error of CreateTopics was only logged, since the last start
  late        \* the API's Shutdown timed out, since the last start

procVars == <<settings, topics, unread, main, open, signalled, part, assigned,
              requests, starts, swallowed, late>>

StartSteps == {"config", "postgres", "redis", "producer", "topics", "launch"}
Working == {"start", "fetch", "busy", "blocked", "wait"}

ProcInit ==
  /\ settings \in Settings
  /\ topics = {} /\ unread = {}
  /\ main = [p \in Programs |-> "down"] /\ open = [p \in Programs |-> {}]
  /\ signalled = [p \in Programs |-> FALSE]
  /\ part = [c \in Parts |-> "off"] /\ assigned = {}
  /\ requests = {} /\ starts = 0
  /\ swallowed = FALSE /\ late = FALSE

\* Types; a process that is down holds nothing and runs nothing, and a goroutine
\* of the worker exists only after main has launched it.
ProcTypeOK ==
  /\ settings \in Settings
  /\ topics \subseteq Consumers /\ unread \subseteq topics /\ assigned \subseteq Consumers
  /\ main \in [Programs -> StartSteps \cup {"down", "serve", "drain", "close"}]
  /\ open \in [Programs -> SUBSET Resources]
  /\ part \in [Parts -> Working \cup {"off", "done"}]
  /\ main["api"] # "topics"
  /\ \A p \in Programs : main[p] = "down" => open[p] = {} /\ ~signalled[p]
  /\ main["worker"] \in StartSteps \cup {"down"} => \A c \in Parts : part[c] = "off"
  /\ main["api"] \notin {"serve", "drain", "close"} => requests = {}
  /\ requests \subseteq Kinds
  /\ starts \in 0 .. MaxStarts

-----------------------------------------------------------------------------
(* The end of a process: os.Exit in a start step, a panic, a crash, or the   *)
(* return of main.  What a consumer had fetched and not committed will be    *)
(* fetched again.                                                            *)
Gone(p) ==
  /\ main' = [main EXCEPT ![p] = "down"]
  /\ open' = [open EXCEPT ![p] = {}]
  /\ signalled' = [signalled EXCEPT ![p] = FALSE]
  /\ IF p = "worker"
     THEN /\ part' = [c \in Parts |-> "off"] /\ assigned' = {} /\ swallowed' = FALSE
          /\ unread' = unread \cup {c \in Consumers : part[c] \in {"busy", "blocked"}}
          /\ UNCHANGED <<requests, late>>
     ELSE /\ requests' = {} /\ late' = FALSE
          /\ UNCHANGED <<part, assigned, swallowed, unread>>

Kill(p) ==
  /\ main[p] # "down" /\ Gone(p)
  /\ UNCHANGED <<settings, topics, starts>>

Start(p) ==
  /\ main[p] = "down" /\ starts < MaxStarts
  /\ starts' = starts + 1
  /\ main' = [main EXCEPT ![p] = "config"]
  /\ UNCHANGED <<settings, topics, unread, open, signalled, part, assigned, requests, swallowed, late>>

\* The step after s, where "config" includes the tracer; the API creates no topics.
After(p, s) ==
  [config |-> "postgres", postgres |-> "redis", redis |-> "producer",
   producer |-> IF p = "worker" THEN "topics" ELSE "launch", topics |-> "launch"][s]

(* main: one step that opens something; NewProducer dials nobody yet. *)
OpenStep(p) ==
  LET s == main[p] IN
  /\ s \in {"config", "postgres", "redis", "producer"}
  /\ main' = [main EXCEPT ![p] = After(p, s)]
  /\ open' = [open EXCEPT ![p] = @ \cup ({s} \cap Resources)]
  /\ UNCHANGED <<settings, topics, unread, signalled, part, assigned, requests, starts, swallowed, late>>

(* main: the step's error, and os.Exit(1). *)
FailStep(p) ==
  /\ main[p] \in StartSteps \ {"producer", "launch"}
  /\ Gone(p)
  /\ UNCHANGED <<settings, topics, starts>>

\* The parts that startPools, startDLQConsumers, startScheduler and
\* startWebhookWorker launch.
Enabled == {"pool", "scheduler"} \cup (IF settings.dlq THEN {"dlq"} ELSE {})
                                 \cup (IF settings.webhook THEN {"webhook"} ELSE {})

\* Mutant: the webhook topic is forgotten.
TopicsOfChannels == {"pool", "dlq"}

\* allTopics.
AllTopics == {"pool", "dlq", "webhook"}

(* EnsureTopics: all topics exist afterwards, unless CreateTopics returns an *)
(* error, which is only logged.  A topic without a consumer is left out.     *)
EnsureTopics ==
  LET wanted == AllTopics \cap Enabled IN
  /\ main["worker"] = "topics"
  /\ main' = [main EXCEPT !["worker"] = "launch"]
  /\ \/ topics' = topics \cup wanted /\ UNCHANGED swallowed
     \/ /\ swallowed' = TRUE
        /\ \E created \in SUBSET wanted : topics' = topics \cup created
  /\ UNCHANGED <<settings, unread, open, signalled, part, assigned, requests, starts, late>>

\* Mutant: the webhook worker's reader is given another topic.
JoinedWrong == (topics \cap Enabled) \ {"webhook"}

\* The consumers whose reader finds its topic when it joins its group.
Joined == topics \cap Enabled

(* main: the signal handler is in place; every part gets its goroutine, and  *)
(* its reader joins the group.                                               *)
Launch ==
  /\ main["worker"] = "launch"
  /\ main' = [main EXCEPT !["worker"] = "serve"]
  /\ part' = [c \in Parts |->
                IF c \notin Enabled THEN "off"
                ELSE IF c = "pool" THEN "start"
                ELSE IF c = "scheduler" THEN "wait" ELSE "fetch"]
  /\ assigned' = Joined
  /\ UNCHANGED <<settings, topics, unread, open, signalled, requests, starts,
                 swallowed, late>>

(* Pool.Run: a negative concurrency is a panic of make.  With 0 there is no  *)
(* worker, and the channel has no buffer.                                    *)
PoolStart ==
  /\ part["pool"] = "start"
  /\ \/ /\ settings.concurrency >= 0
        /\ part' = [part EXCEPT !["pool"] = "fetch"]
        /\ UNCHANGED <<main, open, signalled, assigned, requests, swallowed, late, unread>>
     \/ settings.concurrency < 0 /\ Gone("worker")
  /\ UNCHANGED <<settings, topics, starts>>

-----------------------------------------------------------------------------
(* The loops of the parts. *)

\* Only part changes.
Turn(c, state) ==
  /\ part' = [part EXCEPT ![c] = state]
  /\ UNCHANGED <<settings, topics, main, open, signalled, assigned, requests, starts, swallowed, late>>

(* Fetch returns a message, also when the context is already cancelled; the  *)
(* fetch loop of a pool without workers blocks on the channel.               *)
FetchNext(c) ==
  /\ c \in assigned \cap unread /\ part[c] = "fetch"
  /\ unread' = unread \ {c}
  /\ Turn(c, IF c = "pool" /\ settings.concurrency = 0 THEN "blocked" ELSE "busy")

(* The ticker fires. *)
Tick ==
  /\ part["scheduler"] = "wait"
  /\ Turn("scheduler", "busy") /\ UNCHANGED unread

\* Topics that a part writes to.
WritesTo(c) ==
  CASE c = "pool" -> {"dlq", "webhook"} [] c = "scheduler" -> {"pool"} [] OTHER -> {}

(* The message or the batch is done; what it published is in its topic, if   *)
(* there is one and the producer works.                                      *)
Finish(c) ==
  /\ part[c] = "busy"
  /\ \/ UNCHANGED unread
     \/ /\ "producer" \in open["worker"]
        /\ \E t \in WritesTo(c) \cap topics : unread' = unread \cup {t}
  /\ Turn(c, IF c = "scheduler" THEN "wait" ELSE "fetch")

\* Mutant: the webhook worker takes a cancelled context for one more fetch error.
StopPartNotWebhook(c) ==
  /\ part[c] \in {"fetch", "wait"} /\ signalled["worker"] /\ c # "webhook"
  /\ Turn(c, "done") /\ UNCHANGED unread

(* Fetch fails, or the select takes ctx.Done: the loop ends and the consumer *)
(* is closed.                                                                *)
StopPart(c) ==
  /\ part[c] \in {"fetch", "wait"} /\ signalled["worker"]
  /\ Turn(c, "done") /\ UNCHANGED unread

-----------------------------------------------------------------------------
(* The API. *)

\* Only requests and unread change.
Request(r) ==
  /\ requests' = r
  /\ UNCHANGED <<settings, topics, main, open, signalled, part, assigned, starts, swallowed, late>>

(* ListenAndServe in its goroutine; when it fails the process exits. *)
Listen ==
  /\ main["api"] = "launch"
  /\ \/ /\ main' = [main EXCEPT !["api"] = "serve"]
        /\ UNCHANGED <<open, signalled, part, assigned, requests, swallowed, late, unread>>
     \/ Gone("api")
  /\ UNCHANGED <<settings, topics, starts>>

(* The server reads a request and calls the router. *)
BeginRequest ==
  /\ main["api"] = "serve" /\ "http" \notin requests
  /\ Request(requests \cup {"http"}) /\ UNCHANGED unread

(* Stream accepts a WebSocket: the handler goes on, and the server forgets   *)
(* the connection.                                                           *)
Hijack ==
  /\ "http" \in requests /\ "stream" \notin requests
  /\ Request((requests \ {"http"}) \cup {"stream"}) /\ UNCHANGED unread

(* A handler returns; it may have published a notification. *)
EndRequest(k) ==
  /\ k \in requests
  /\ \/ UNCHANGED unread
     \/ /\ k = "http" /\ "pool" \in topics /\ "producer" \in open["api"]
        /\ unread' = unread \cup {"pool"}
  /\ Request(requests \ {k})

-----------------------------------------------------------------------------
(* Stopping. *)

(* SIGTERM or SIGINT. *)
Signal(p) ==
  /\ main[p] = "serve" /\ ~signalled[p]
  /\ signalled' = [signalled EXCEPT ![p] = TRUE]
  /\ main' = [main EXCEPT ![p] = "drain"]
  /\ UNCHANGED <<settings, topics, unread, open, part, assigned, requests, starts, swallowed, late>>

\* Mutant: main goes on when the signal comes.
WaitsForNone(p) == p \in Programs

\* What main waits for: the worker for its goroutines (wg.Wait), the API for the
\* requests the server knows of (Shutdown).
Idle(p) ==
  IF p = "worker" THEN \A c \in Parts : part[c] \in {"off", "done"}
                  ELSE "http" \notin requests

(* The wait is over; that of the API also after 30 s. *)
Drained(p) ==
  /\ main[p] = "drain"
  /\ \/ Idle(p) /\ UNCHANGED late
     \/ p = "api" /\ ~Idle(p) /\ late' = TRUE
  /\ main' = [main EXCEPT ![p] = "close"]
  /\ UNCHANGED <<settings, topics, unread, open, signalled, part, assigned, requests,
                 starts, swallowed>>

\* The resource that main opened last of those it holds.
Newest(held) ==
  IF "producer" \in held THEN "producer" ELSE IF "redis" \in held THEN "redis" ELSE "postgres"

(* main returns: the deferred calls close what main had opened, the last one *)
(* first, and the process ends.                                              *)
CloseNext(p) ==
  /\ main[p] = "close"
  /\ \/ /\ open[p] # {}
        /\ open' = [open EXCEPT ![p] = @ \ {Newest(@)}]
        /\ UNCHANGED <<main, signalled, part, assigned, requests, swallowed, late, unread>>
     \/ open[p] = {} /\ Gone(p)
  /\ UNCHANGED <<settings, topics, starts>>

-----------------------------------------------------------------------------
MainStep(p) ==
  \/ OpenStep(p) \/ FailStep(p) \/ Drained(p) \/ CloseNext(p)
  \/ p = "worker" /\ (EnsureTopics \/ Launch)
  \/ p = "api" /\ Listen

Proceed(c) == Finish(c) \/ (c = "pool" /\ PoolStart)
PartStep(c) == FetchNext(c) \/ Proceed(c) \/ (c = "scheduler" /\ Tick)

ProcNext ==
  \/ \E p \in Programs : Start(p) \/ MainStep(p) \/ Signal(p) \/ Kill(p)
  \/ \E c \in Parts : PartStep(c) \/ StopPart(c)
  \/ BeginRequest \/ Hijack \/ \E k \in Kinds : EndRequest(k)

\* Goroutines that can run do; of two ready cases a select takes each sooner or
\* later, so that a cancelled context is noticed and a message is fetched.  No
\* request has to end: Shutdown gives up after 30 s.
ProcSpec ==
  /\ ProcInit /\ [][ProcNext]_procVars
  /\ \A p \in Programs : WF_procVars(MainStep(p))
  /\ \A c \in Parts : WF_procVars(Proceed(c)) /\ SF_procVars(StopPart(c))
  /\ \A c \in Consumers : WF_procVars(FetchNext(c))

-----------------------------------------------------------------------------
(* Properties. *)

\* "Wait for all in-flight messages to finish before stopping infra": no
\* goroutine of the worker and no request of the API runs without Postgres,
\* Redis and the producer, whenever a signal comes.  Two kinds of requests are
\* excepted, because Shutdown does not wait for them: one that outlasts its 30 s,
\* and a stream, which has taken its connection from the server; these run on
\* while main closes what they use (main of both programs, Stream).
InfraOutlivesWork ==
  /\ (\E c \in Parts : part[c] \in Working) => open["worker"] = Resources
  /\ "http" \in requests /\ ~late => open["api"] = Resources

\* "consumers never join with empty assignments": a part that consumes a topic
\* reads it, unless EnsureTopics went on after an error of CreateTopics, which it
\* takes for "topics already exist" whatever it is: then a consumer may join with
\* nothing to read (main, EnsureTopics, NewConsumer).
ConsumersAreAssigned ==
  \A c \in Consumers : part[c] \in Working => c \in assigned \/ swallowed

\* A signalled process ends, whatever its goroutines do at that moment, unless a
\* pool was configured without workers and has fetched a message: that one
\* waits for ever, and main with it (main, Pool.Run).
StopCompletes ==
  \A p \in Programs :
    signalled[p] ~> \/ main[p] = "down"
                    \/ p = "worker" /\ part["pool"] = "blocked" /\ settings.concurrency = 0

\* A message in a topic is fetched, by this process or a later one, as long as
\* the worker serves and has a consumer for the topic: nothing stays behind
\* because of a crash or of the order in which the programs start; except where
\* CreateTopics failed, or the pool has no workers (start functions,
\* EnsureTopics).
TopicIsRead ==
  \A c \in Consumers :
    c \in unread ~> \/ c \notin unread \/ main["worker"] # "serve"
                    \/ swallowed \/ (c = "pool" /\ settings.concurrency = 0)
=============================================================================
