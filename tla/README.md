# NotifyHub in TLA+

NotifyHub takes notification requests over HTTP, stores them in Postgres,
passes them through Kafka to worker processes and delivers them by email, push,
SMS or in-app message. This directory models the parts of it that run
concurrently and can fail half way, checks them with TLC on small instances and
proves the most important facts for every size with TLAPS.

    tlc -workers 2 -config pool.cfg MCWorkerPool     # one run
    tlapm NotifyHubProofs.tla                        # all proofs of a module

`PROJECT.json` lists the runs, the correspondence between definitions and source
lines (`map`), the hazards of the code and the theorems.

## The system

| part | source | state | operations that change it | module |
|---|---|---|---|---|
| notification service | `service/notification.go`, `api/handler/notification.go` | a request's progress | Send, SendBulk, Cancel | `NotificationService` |
| notification table | `repository/notification.go`, `db/notification.sql.go`, `migrations/000001` | one row per notification | INSERT, two UPDATEs | `Store` |
| Kafka producer | `queue/producer.go` | channel topic, dead-letter topic | Publish, PublishDLQ | `Store` |
| scheduler | `service/scheduler.go` | the batch of a tick | tick | `Scheduler` |
| worker pool | `worker/pool.go`, `queue/consumer.go` | work channel, goroutines, group offset | fetch, dispatch, process, commit, stop | `WorkerPool` |
| delivery pipeline | `worker/processor.go` | one run of Process per goroutine | the seven steps | `Processor` |
| dead-letter consumer | `worker/dlq_consumer.go` | its offset, the dead-letter table | Run | `DeadLetter` |
| dead-letter administration | `api/handler/dlq.go`, `repository/dead_letter.go` | the dead-letter table | Replay, Delete | `DeadLetter` |
| webhooks | `service/webhook.go`, `worker/webhook_worker.go`, `repository/webhook.go` | endpoints, deliveries, webhook topic | Create, Update, Delete, Dispatch, Run | `Webhook` |
| rate limiter | `service/ratelimit.go`, `api/middleware/ratelimit.go` | a sorted set in Redis | Allow, AllowKey | `RateLimiter`, `Admission` |
| preferences | `service/preference.go`, `repository/preference.go`, `api/handler/preference.go` | preference rows | PUT, DELETE; IsAllowed reads | `Preferences`, `Admission` |
| templates | `service/template.go`, `repository/template.go`, `scripts/seed.go` | the templates table | create, update, delete, seed; Render reads | `Templates`, `Outbound` |
| providers | `provider/` | - | Send | `Providers`, `Outbound` |
| in-app provider, realtime hub, inbox stream | `provider/inapp/inapp.go`, `realtime/hub.go`, `api/handler/inbox.go` | inbox rows, channels, streams | Send, Subscribe, Publish, Run, Stream | `Inbox` |
| inbox requests | `api/handler/inbox.go`, `repository/inapp.go` | read marks | List, MarkRead, MarkAllRead | `InboxPages`, `InboxClient` |
| the two programs | `cmd/worker/main.go`, `cmd/api/main.go`, `queue/admin.go`, `config/` | what is open, what runs, which topics exist | start, stop, crash | `Processes` |
| tenants, API keys, device tokens, token checks | `service/tenant.go`, `service/device_token.go`, `auth/` | rows | single INSERTs and stateless checks | not modelled |
| observability, routing, generated plumbing | `observability/`, `api/router.go`, `db/db.go` | - | - | not modelled |

How they meet: API requests and worker processes share only the table and the
topics. A request inserts a row, publishes a message and marks the row queued,
in three separate steps. Each worker process runs one pool per channel, one
dead-letter consumer per channel, one scheduler and one webhook worker. A pool
hands messages to its goroutines, which run `Process` and commit. A failed
notification goes to the dead-letter topic, from there into a table, and from
there, on an operator's request, back into the channel topic.

What is hard about it: every step of a request, of a scheduler tick and of a run
of `Process` can interleave with all others; status updates are unconditional;
workers commit out of order; a message can be handled twice, also at the same
time; any call to Postgres, Redis or Kafka can fail; a publish that fails may
have reached the broker; a process can die between any two steps.

## Modules

    Store                      table and topics; one operator per statement
     |- NotificationService    API requests
     |- Scheduler              one per worker process
     |- Processor              one run of Process per goroutine
     |   \- NotifyHub          the three above, composed
     |       \- NotifyHubProofs
     \- DeadLetter             consumer, Replay, Delete
         |- DeadLetterProofs
         \- Recovery           NotifyHub and DeadLetter, composed
             \- RecoveryProofs
    Delivery                   what a handler may assume of its consumer
     \- WorkerPool             the pool, shown to implement Delivery
         \- WorkerProofs       with Processes
    RateLimiter, Preferences
     \- Admission              steps 3 and 4 of Process; the API's middleware
         \- AdmissionProofs
    Templates, Providers
     \- Outbound               steps 5 and 6 of Process
         \- OutboundProofs
    Webhook                    endpoints, Dispatch, webhook worker
     \- WebhookProofs
    Inbox, InboxPages          the stream and the list of in-app messages
     \- InboxClient            the two ways to one inbox
         \- InboxProofs
    Processes                  start and stop of the two programs
    MC*                        instances for TLC

**Store.** A row is `status`, `tenantOf`, `keyOf`, `schedule`; the status
`"absent"` stands for a row not yet inserted. `schedule` compares scheduled_at
with the clock: `"null"`, `"future"` or `"due"`; `ComeDue` is the clock passing
it. Every operator is one SQL statement or one publish. `KeyTaken` is the UNIQUE
constraint, which does not mention the tenant, while `FindByKey` does. A message
is the row's id and the tenant it carries; the scheduler's messages carry the
zero UUID.

**NotificationService.** `call[c]` is a request. `SendStart`, `SendLookup`,
`SendCreate`, `SendEnqueue`, `SendMark` are the calls Send makes, in order, each
with its early returns. `Return` is the end of Send; in a bulk request it goes
on with the next recipient, whatever the result was. `Cancel` is one conditional
UPDATE.

**Scheduler.** `SchedTick` reads a batch, `SchedEnqueue` publishes one row of it,
`SchedMark` marks that row queued. Two schedulers may hold the same row.

**Processor.** `step[h]` is where goroutine h is: fetch, mark, check (preference and
rate limit), render, send, log, deadletter, status, webhook. An error before `send`
returns from Process without an outcome; an error after it is only logged. A send
may fail after the provider has accepted, as a timeout does; the loop then sends
again (`SendFails`, `TryAgain`). `sent`, `doubtful` (such sends), `logged`,
`events`, `dlqLost` and `concluded` record what left the process. Any message of the
topic may be handed out, up to `MaxHandouts` times, to any goroutine: that is what
`WorkerPool` allows.

**WorkerPool.** A message is its offset; every topic has one partition
(`queue/admin.go`). `fetched` is the message the fetch loop holds, `work` the
buffered channel, `stage` and `item` the goroutines. A commit of offset o sets
the group's offset to o + 1, also when that is lower than before. `Stop` is the
signal, `Crash` the end of the process, `Restart` a new process, `Rebalance` a
new generation of the consumer group, in which the reader starts again from the
group's offset while the old messages stay in the pool. An item taken after the
context was cancelled is `"doomed"`: the first thing Process does is a query
with that context.

**DeadLetter.** `offset`, `reading`, `held`, `stored` are the consumer between
two statements of Run; `records` is the table; `request` is a Replay between its
three steps (read, publish, mark).

**Webhook.** `CreateEndpoint`, `UpdateEndpoint`, `DeleteEndpoint` are a tenant's
requests; a delete takes the endpoint's delivery rows with it. `DispatchList`,
`CreateDelivery`, `PublishDelivery` are the calls of Dispatch, for which
`fanout` holds the endpoints its SELECT returned and that are not yet served.
A message carries the URL its endpoint had then; `offered` records which URLs an
endpoint ever subscribed with.
`HookFetch`, `HookSend` (one post), `HookMark`, `HookCommit` are the single
goroutine of the webhook worker. `stranded` and `errored` record the two ways in
which the code gives a delivery up. Producers of the topic send only what
Dispatch builds, so the branch for undecodable messages cannot be taken and is
left out. Dispatch stands alone here: `Processor` only says when it is called.

**Inbox.** A message is its place in the order of `created_at` and `id`, which is
the order in which the INSERTs begin (`SendInsert`): `created_at` is the time at
which the transaction starts. They commit (`SendCommit`) and are published
(`SendPublish`) in any order; `overtaken` has the messages that did so after a
later one. The hub takes one message at a time (`HubReceive`) and offers it to one
channel after the other (`HubSend`); when its Redis connection breaks
(`SubscriptionLost`) it misses messages and does not know. A stream is subscribed
before it reads the history (`ListSince`: the visible rows after the cursor, up to
the LIMIT), then replays it, then goes live; `Receive` moves the client's cursor to
the frame it got, which is what the comment on Stream asks of clients. `Publish`
goes through the map of channels without the lock, so that a stream that closes
at that moment may end the process: `HubPanic`. `settled` has what a client
got and the losses the code accepts. Heartbeats are left out.

**InboxPages, InboxClient.** A row has an id and a `created_at`, which several
rows may share. `FirstPage` and `NextPage` are a client that asks for page after
page, by offset or by cursor; `Selected` are the rows of a query in any order, of
which `ListInbox` keeps the orders by time and `ListInboxAfterCursor` the one by
time and id. `InsertMessage`, `MarkRead` and `MarkAllRead` change
the table meanwhile, and a row may become visible late. `due` records the rows
that matched from the first page on. A behaviour of `InboxClient` is about the
stream or about the list: neither looks at what the other changes.

**RateLimiter.** `AllowStamp` reads the caller's clock, `AllowExec` is the
transaction that removes, counts and adds. Between the two other callers may
overtake. `Score` is the rounding of nanoseconds to float64, by which two calls
may share a member; `expires` is the TTL of the key.

**Preferences.** One row per tenant. `ToDomain`, `LocalTime`, `InQuietHours` and
`Allowed` are the functions of the code, on minutes of a day of any length.
`QuietByTheClock` is what they are compared with: the minutes one passes on the
way from start to end.

**Admission.** `call[c]` is a notification in steps 3 and 4 of Process
(`PrefGet`, `PrefJudge`, `Limit`, `Execute`) or an API request in the middleware
(`Authenticate`, `Limit`, `Execute`). Preferences may change between the SELECT
and the judgement. A worker that cannot ask Redis returns an error; the API lets
the request through. Processor has the results of these steps as choices.

**Templates, Providers, Outbound.** `UpdateRead` and `UpdateWrite` are the two
statements of an update; `SeedTemplate` is the upsert of the seed script. A text
is a model value that may be blank or not parse. `Incomplete` and `IsPermanent`
are what each provider refuses and what its classify function calls permanent.
`Render`, `Send` and `Backoff` are `deliver` and `sendWithRetry`; `letters` has the
dead letters with their reasons and what happened in the run.

**Processes.** `main[p]` is the step main is at, `open[p]` what it has opened,
`part[c]` where the goroutine of a pool, a dead-letter consumer, the webhook
worker or the scheduler is. A consumer that joins before its topic exists is
assigned nothing; only topics that have a consumer are kept in `topics`.
`requests` has what the API handles: a request the server knows of, or a stream,
whose connection `Hijack` has taken from it. `Signal` cancels the context,
`Drained` is the end of the wait for the goroutines or for the requests, the latter
also after 30 s, `CloseNext` is the deferred calls, one at a time, the last one
deferred first, and `Kill` is a crash.

**NotifyHub, Recovery.** Interleavings of the components; each action is one step
of one of them with the others unchanged. `RecoverySpec` has the fairness its
liveness properties need and no worker crashes; `WholeSpec` has the crashes and no
fairness, so that it allows whatever `RecoverySpec` allows, and the safety of the
whole is proved for it.

### Abstractions

- One channel. Channels share no state but the table, whose rows belong to one
  channel each.
- Payloads, addresses, priorities and log texts are left out.
- An SQL call that reports an error had no effect, but for the INSERT of an in-app
  message, which may have committed. A publish, a commit of an offset or a send
  that reports an error may have had its effect.
- The order of rows in a tick (by priority and time) is any order.
- Requests that fail validation, and read-only requests, change nothing and are
  left out.

## Runs

| run | checks | outcome |
|---|---|---|
| `pool` | what is below the committed offset is accounted for, a stop drains and ends, commits name completed messages, no message waits for ever, the pool implements `Delivery` | holds |
| `pool_refused` | a message that Process refused is redelivered | violated |
| `hub_safety` | records of delivery are true, failed rows are dead-lettered, attempts and copies are bounded, an outcome is overwritten only by a late queued mark or a second run | holds |
| `hub_requests` | idempotent answers, an answered row is enqueued, a row cancelled in time is never published | holds |
| `hub_scheduled` | a due notification is processed to an outcome | violated |
| `letters` | the dead-letter consumer skips nothing without reason; a row marked replayed was published | holds |
| `recovery` | accepted leads to an outcome, failed leads to a dead-letter row, a replay leads to an outcome | holds |
| `hooks` | delivery rows record what happened, a row left pending has a reason, posts go to a URL the endpoint subscribed with and stay within the tenant, every published delivery is marked | holds |
| `inbox` | no unexplained hole behind a client that reconnects or pages, no unexplained repetition, the hub drains what is published though no client reads | holds |
| `admission` | no window admits more than its cap, a denial is justified, preferences are honoured | holds |
| `outbound` | what goes out is one state of the template, dead letters have the true reason, versions count updates, an update that was not overtaken changes only what it names | holds |
| `processes` | connections outlive the work that main waits for, consumers join existing topics, a signalled process ends, topics are read | holds |

### The violated ones

Each states what a comment or document of the repository says.

- `pool_refused` (`pool.go:73`, "skip commit so Kafka redelivers"): offset 0 is
  refused, offset 1 completes and is committed, which moves the group past 0.
  Nothing reads 0 again. The same holds of two more loops and of what is written in
  them: `dlq_consumer.go:75`, "do not commit; Kafka will redeliver after recovery",
  where a dead letter whose INSERT failed is lost with the next commit (`refused` in
  `PersistedOrRefused`), and `webhook_worker.go:75`, "don't commit; Kafka will
  redeliver", where a delivery stays pending (`errored` in `PendingIsExplained`).
- `hub_scheduled` (`README.md:11`): the scheduler's message has no tenant, so
  Process does not find the row and returns an error.

### Observations

Behaviour that the properties allow for, by name, because the code has it:

- Send's and the scheduler's queued mark comes after the publish and asks for no
  status: it may overwrite `processing` or an outcome, although
  `000001_init.up.sql:61` gives the order pending, queued, processing, outcome
  (`QueuedMarkDue` in `OutcomeIsKept`).
- An immediate notification whose publish failed stays pending for ever: the
  comment at `notification.go:104` counts on the scheduler, whose query needs a
  scheduled_at. A retry with the same key is answered with that row
  (`AnsweredIsEnqueued`).
- With two workers a crash loses a message that a later commit has overtaken
  (`abandoned` in `NoUnexplainedLoss`).
- A notification cancelled after its message was published is sent. A key used
  by one tenant is refused to all others.
- The dead letter is published before the row is marked failed
  (`processor.go:176-177`, `194-195`, `210-211`), although the comment at
  `processor.go:277-279` says "the notification is already marked failed": after a
  crash between the two the row stays processing beside its dead letter, and a
  replay can be delivered and then be overwritten with failed. Therefore
  `FailedIsDeadLettered` goes from the row to the letter and not back.
- A send that the provider accepted and whose answer was lost is an error to Send of
  every provider, and most of these errors are retried: the recipient gets up to
  MaxAttempts copies from one run of Process (`CopiesAreBounded`).
- A row that two schedulers have read is published by both. A row cancelled after
  the tick has read it is published.
- A webhook event goes out although the status update failed; a delivery row that
  said delivered becomes failed when its message is read again after a crash and
  the endpoint then refuses. An endpoint that was changed or deleted is still
  posted to at the URL it had. With the webhook worker disabled, Dispatch
  publishes all the same.
- In-app messages that are committed or published in the other order than they got
  their `created_at` reach a client that stays connected. One that is away loses the
  earlier message: it lies before the id the client sends as since.
- The history has at most 200 rows, although `repository/inapp.go:17` says that
  ListSince "returns all messages newer than sinceID"; a client with more to catch
  up on loses the rest. A subscription of the hub that breaks loses what is
  published meanwhile (`hub.go:83-91`).
- A client that disconnects while the hub goes through its map of channels can end
  the API process.
- The first page of the inbox is ordered by time, the following ones by time and
  id, so that rows of one time may be missed or repeated (`Tied`); pages by offset
  shift when rows come or are marked read.
- The worker's rate-limit key names no tenant: tenants that use one user id share
  a window. Two calls within one step of float64 count as one, so the window can
  hold more calls than entries (`WindowBound` counts entries). A call that another
  one overtakes between its stamp and its transaction is checked after the other has
  removed entries of its window, and may be one too many (`WindowBound` leaves it
  out).
- Two overlapping template updates lose one of the two changes, and undo a
  delete (`Overtake`); the seed script replaces a template of the same name that
  another tenant created. A deleted template still renders. An empty rendering
  falls back to the payload's own text. An SQL error while the template is read
  is final, like a missing template.
- A pool with concurrency 0 takes one message and then blocks, also at shutdown;
  with a negative one the process panics.
- Streams over WebSocket are not waited for by the API's Shutdown, nor requests that
  take longer than its 30 s: they run on while main closes Postgres, Redis and the
  producer (`InfraOutlivesWork` excepts both).
- EnsureTopics takes every error of CreateTopics for topics that exist already
  (`admin.go:79-83`) and returns nil. If it was another one, consumers join with
  nothing to read, which the comment at `worker/main.go:123` excludes ("so consumers
  never join with empty assignments"; `swallowed` in `ConsumersAreAssigned`).

### Types

Every module states the types of its variables. Only those of `WorkerPool`, where
they include the capacity of the work channel, are a property of a run, and those
of `WorkerPool` and `DeadLetter` are proved as they stand; the others describe the
state, and hold when they are added to the configuration of their run. What the
proofs need of them is part of their inductive invariants.

### Bounds

Two workers and three messages are the least with which a commit can overtake
another message while a third waits; two faults allow a crash or rebalance after a
stop. Two handlers and two handouts of each of two messages let two runs of Process
on one row meet at every step; one send that fails after it was accepted
(`MaxDoubts`) makes two copies of one run, and two attempts are its limit. Two
requests, two rows and two pollers are enough for every race on a key and on a due
row; a third request adds no new kind of overlap because a request holds no lock.
Two replays and three dead letters with three rows give a repeated row, an
undecodable letter and a race on one row. For webhooks two endpoints, two delivery
rows and one fault let a fan-out be cut between two endpoints and a message be
posted twice; two attempts separate the last attempt from the others. For the inbox
three messages are the least that have one before, one in and one after a gap; a
channel for one message and a history of one row make both limits bind; two times
for three rows give ties, and pages of one and of two rows end inside and outside of
them. For admission a window of two ticks and a float64 step of two make entries
share a score, caps of 0, 1 and 2 and three calls reach the cap from below and from
above, a clock that goes to 4 lets the key expire, and a day of three minutes has
every order of start, end and now. For the templates one row, two overlapping
updates and one more operation between them are enough for an update to be lost; one
worker with two attempts, since runs of `deliver` share nothing but the table. For
the programs three starts let one be stopped or crash and come up again beside the
other; each optional consumer runs beside a pool with concurrency 1, and 0 and -1
are the edge. Faults, rows, messages and restarts are counted and bounded in guards
(`MaxFaults`, `MaxRows`, `MaxLog`, `MaxRecords`, `MaxRestarts`, `MaxHandouts`,
`MaxDoubts`, `MaxBulk`, `MaxEndpoints`, `MaxUpdates`, `MaxDeliveries`,
`MaxMessages`, `MaxClock`, `MaxCalls`, `MaxUpserts`, `MaxTemplates`, `MaxEdits`,
`MaxRuns`, `MaxStarts`). Deadlock checking is off: with all bounds used up and every
message handled the system is idle, which is not an error.

### Fairness

`WorkerPool`: the fetch loop, every goroutine and the end of Run are weakly fair,
since the Go runtime runs every goroutine that can run and Process returns (its
retry loop is bounded and its calls have timeouts); a stopped worker is started
again by whoever operates it. `NotifyHub` and `Recovery`: requests, schedulers,
goroutines in the middle of Process and the dead-letter consumer likewise, and a
message that was never handed out is handed out in the end, which is
`EveryMessageHandled` of the pool. `Webhook`: the webhook goroutine likewise.
`Inbox`: the hub only; a stream handler may wait for its client without end, since
its `conn.Write` (`inbox.go:303`) has no timeout. `Processes`: main and the
goroutines likewise, but no request has to end, since Shutdown gives up after 30 s;
that a loop notices the cancelled context is strongly fair, because between two
looks at it the loop may fetch another message, and of two ready cases a select
takes each sooner or later. `Admission`, `Outbound` and `InboxPages` are checked for
safety only. Nothing is assumed of crashes, rebalances, cancellations, errors,
signals or operators. Liveness of the composition is checked without infrastructure
errors and without worker crashes, because with them the code does not promise it
(`pool_refused`).

## Proofs

| module | theorem | statement |
|---|---|---|
| `WorkerProofs` | `TypeCorrect` | `Spec => []TypeOK` |
| | `LossIsExplained` | `Spec => []NoUnexplainedLoss` |
| | `StopDrains` | `Spec => []DrainedWhenStopped` |
| | `CommitsAreOfCompleted` | `Spec => CommitOnlyCompleted` |
| | `PoolKeepsContract` | `Spec => KeepsContract`, the refinement of `Delivery` |
| `NotifyHubProofs` | `DeliveryIsTrue` | `Spec => []DeliveredWasSent` |
| | `FailureIsTrue` | `Spec => []FailedIsDeadLettered` |
| | `RetriesAreBounded` | `Spec => []RetryBounded` |
| | `AnswersAreIdempotent` | `Spec => []IdempotentAnswers` |
| | `RecallIsFinal` | `Spec => []RecalledIsNotEnqueued` |
| | `AnswersAreKept` | `Spec => []AnsweredIsEnqueued` |
| | `OutcomesAreKept` | `Spec => OutcomeIsKept` |
| | `MessagesAreOfRows` | `Spec => []MessagesHaveRows` |
| `DeadLetterProofs` | `LettersAreTyped` | `DeadLetterSpec => []LetterTypeOK` |
| | `NothingIsSkipped` | `DeadLetterSpec => []PersistedOrRefused` |
| | `ReplayIsHonest` | `DeadLetterSpec => []ReplayedWasPublished` |
| `RecoveryProofs` | `SendsArePaidFor` | `Spec => []CopiesAreBounded` |
| | `ReplaysArePaidFor` | `WholeSpec => []CopiesAreBounded` |
| | `RecordsStayTrue` | `WholeSpec => [](DeliveredWasSent /\ FailedIsDeadLettered /\ RetryBounded)` |
| | `AnswersStayTrue` | `WholeSpec => [](IdempotentAnswers /\ RecalledIsNotEnqueued /\ AnsweredIsEnqueued)` |
| | `OutcomesAreKeptInAll` | `WholeSpec => OutcomeIsKept` |
| | `LettersAreKeptInAll` | `WholeSpec => [](PersistedOrRefused /\ ReplayedWasPublished)` |
| | `MessagesAreOfRowsInAll` | `WholeSpec => []MessagesHaveRows` |
| `AdmissionProofs` | `PreferencesAreHonoured` | `AdmissionSpec => PreferenceHonoured` |
| | `WindowsAreBounded` | `AdmissionSpec => []WindowBound` |
| | `DenialsAreJustified` | `AdmissionSpec => []DenialIsJustified` |
| `WebhookProofs` | `RecordsAreTrue` | `HookSpec => []RecordMatchesPosts` |
| | `PostsGoWhereOffered` | `HookSpec => []PostedWhereOffered` |
| | `PendingHasAReason` | `HookSpec => []PendingIsExplained` |
| | `DeliveredIsKept` | `HookSpec => DeliveredStays` |
| `OutboundProofs` | `VersionsCount` | `OutboundSpec => []VersionCountsUpdates` |
| | `UpdatesLeaveRest` | `OutboundSpec => UpdateLeavesRest` |
| | `SendsAreTemplates` | `OutboundSpec => []SentIsTemplate` |
| | `ReasonsAreTrue` | `OutboundSpec => []ReasonIsTrue` |
| `InboxProofs` | `NoGapIsSilent` | `InboxClientSpec => []NoSilentGap` |
| | `MissingHasACause` | `InboxClientSpec => []MissedForCause` |
| | `RepetitionHasACause` | `InboxClientSpec => []RepeatedForCause` |
| `WorkerProofs` | `NothingOutlivesInfra` | `ProcSpec => []InfraOutlivesWork` |
| | `ConsumersHaveTopics` | `ProcSpec => []ConsumersAreAssigned` |

They assume the named ASSUMEs of the modules only: natural bounds, finitely many
workers and handlers and at least one worker in a pool, undecodable offsets among
the offsets, zones that are less than a day ahead of UTC, PUT bodies that are
preference rows, payloads and template requests with the fields the code decodes,
and a value `"none"` that is no tenant and no event. None of the properties is
inductive by itself. TLC has checked each inductive invariant below on every
reachable state of the instances of the runs before it was proved, and `WholeInv`,
which belongs to no run, on an instance of `WholeSpec` with one request, one
handler, one operator, two messages, errors and crashes. A leaf that says `Zenon` is
one that needs no arithmetic; naming the prover keeps the proof runs short.

**WorkerPool.** The inductive invariant `IInv` adds to `TypeOK`:

- `PhaseInv`: in each phase what the channel, the fetch loop and the goroutines
  can hold. A restart is only well typed because a dead or stopped pool holds
  nothing;
- `CommitInv`: a goroutine that is about to commit holds a completed message;
- `AccountInv`: every offset below the reader's position, not only those below
  the group's offset, is accounted for. This is what a commit needs, since it
  may jump to any offset that has been read.

Each action is one step of each preservation lemma. The refinement proof maps
each pool step to a step of the contract or a stutter under `IInv`.

**NotifyHub.** What makes the records of delivery and failure true is what a run of
Process knows when it writes them. `HubInv` therefore has, for every handler,
`HandlerInv`: once the outcome is decided, delivered means that the provider
accepted; at the status update of a failed row the dead letter is published or
counted as lost; before the decision the attempt counter is one ahead of the
sends. All these facts are about logs that only grow, so the lemma `Bystander`
carries them over the steps of everybody else, and `Environment` does so for
requests, schedulers, Cancel and the clock, which record no outcome.

Two further invariants rest on `HubInv`. `RequestInv` is about requests: no two
rows have one key, a request between its INSERT and its answer holds a row with
its own tenant and key and marks it only after it published it (`CallInv`), an
answer names such a row (`AnswerInv`), nothing touches a row before its INSERT or
before it is due (`EarlyInv`), a recalled row is out of everybody's reach
(`RecallInv`), and every row to be sent at once is published, in the hands of its
request, or the answer to its request was a failure (`ExplainedInv`). `RunInv` is
about outcomes: a row that has one was handed out, and two runs on one row mean
that it was handed out twice. `OutcomesAreKept` then goes through all steps that
write a status. `LetterInv` says that a dead letter is of a published notification,
and `MessagesAreOfRows` follows with `EarlyInv`.

**DeadLetter.** `ConsumerInv` says of the letters below the entry in hand, and of
those below the reader's position, what `PersistedOrRefused` says of those below
the group's offset: after a rebalance the entry Run works on may lie above what
the reader reads next, and its commit moves the offset there. `ReplayInv` adds
that a request about to mark its row has published it. `RowsStay` and
`TopicsGrow` are the monotonicity both rest on. `GrowthKeeps` says that both
invariants also survive whatever others append to the topics.

**Sends.** `CopiesAreBounded` compares counters with the size of a set. `SendInv`
makes it inductive, with two counts. The successful sends of a notification and the
runs of Process that may still send it (`ToSend`) are together no more than the
starts on its messages (`Handouts`). The copies of it and the sends those runs may
still make (`ToTry`) are together no more than `Bound` for each start (`Tries`),
where `Bound` is MaxAttempts, or 1 if that is 0. A start adds as much to both sides;
a successful send turns a run that may send into a send; a send that fails uses up
one try of its run, whether it was accepted or not; an outcome, an error or a crash
only takes runs and tries away; and a publish only adds messages on which nothing
was started. `SendsOnce` is the fact about the code: a run that has sent never comes
back to a step before the end of sendWithRetry.

**Recovery.** `WholeInv` is the conjunction of the invariants of the parts. Requests,
schedulers and workers keep those of the dead letters because they only add to the
topics (`HubStep`). The consumer and most requests of operators leave everything else
alone; the step that does not is the publish of a replay, which puts a message into
the channel topic that neither Send nor a scheduler has published
(`RepublishKeeps`). It is harmless because the row has been published before: it
exists, is due and was not recalled. So a replay can do no more than a redelivery, and
every promise of the parts holds in the whole, with the crashes of the worker.

**Admission.** `QuietHours` proves that the two branches of inQuietHours, for
hours within a day and for hours that wrap, are the minutes between start and
end on the clock, for every length of the day. `PrefInv` says that the row a
call has read, and the row of this moment, are among the rows its tenant has had
since it came; a PUT adds the new row to those of every call under way.
`OnlyJudgement` shows that no step but PrefJudge takes a call out of the
judgement, and `JudgedByARow` that this step decides by such a row.

For the limiter, `ScoreMonotone` proves from the definition of rounding that a
later stamp never has a lower score. `RateInv` adds to the two properties where an
entry is: `ZsetInv`, every member of the sorted set is a logged call, which bounds a
denial by earlier calls; and `GrantInv`, a granted call is still in the set, or has
left the window of a call that evicted it, or so much time has passed that the key
is gone. `Counting` and `WindowIsKept` turn this into the bound: when a call is
granted, the earlier calls of its window are members that ZCARD counted below the
cap, and a late call changes no window but its own.

**Webhook.** `HookInv` has `OfferInv`, whatever Dispatch read, is about to publish or
has published was offered by an endpoint of the tenant; `PostInv`, the attempt
counter never runs ahead of the refused posts; `ReadInv`, the messages below the one
in hand and below the reader's position have been through process, which a commit
after a rebalance needs; `TraceInv`, a pending row is on its way to the topic, in it,
or stranded; and `OnceInv` and `ReadOnce`, a row has one message, which is read once
as long as there is no crash or rebalance.

**Outbound.** `TemplateInv` says that an update holds the row as it is unless it
was overtaken, and that the texts of every row are remembered. `JobsInv` says for
each stage of deliver how the attempt counter and the calls relate and that the
rendered texts are from one state of the template; `OutboxInv` and `LettersInv` are
what is sent or dead-lettered in such a stage. Templates are never removed and their
texts are only added to, so every fact survives all edits.

**Inbox.** A gap is silent when something precedes a message on the way to a client
and is neither known nor still to come. `InboxInv` therefore follows each message:
`BufferOrder`, `FanOrder` and `PubsubOrder` say that whatever is older than a message
in the channel, in the hub's hands or in pubsub is settled, ahead of it on the way,
or due from the history, unless it was overtaken; `NoneLost` says that every row is
somewhere on the way to a connected client or settled. This is where the order of
Stream matters: it subscribes before it reads the history. `Behind` is about the rows
before the cursor: what is missing there is settled, or was overtaken (or will be
once it is published) and is still on its way. `Replayed` says that the history
frames leave out no row in order between them.

For the pages, `PagesInv` says where the rows lie that are still due and those the
client has got. With the cursor, what is due comes after the cursor and what was got
does not, but for the rows of the time at which the first page ended, since the first
page does not order them by id. With the offset, as long as no row leaves the list a
due row has at least as many newer rows as the client has got, and as long as none
comes to it a row that was got has fewer. `RankIsPlace` links the two: a row's place in
the answer of a query is the number of rows before it. `SelectedLists` is what the
proof needs of the query: it lists every matching row once.

**Processes.** `MainInv` gives for each step of main before its deferred calls what it
has opened, `WorkInv` says that the worker's goroutines, and the requests Shutdown
waits for, run while their main serves or drains, and `TopicInv` that main launches
consumers only when the topics exist or the error was swallowed.

Only model-checked is liveness (`EveryMessageHandled`, `ShutdownCompletes`,
`AcceptedIsConcluded`, `FailedIsRecorded`, `ReplayIsConcluded`, `PublishedIsMarked`,
`PublishedIsDrained`, `StopCompletes`, `TopicIsRead`), since fairness and ENABLED are
out of the prover's reach. Every invariant and every action property that a run finds
to hold is also proved.

## Not modelled

- Device tokens: two single statements on a table that delivery does not read.
- Tenants and API keys: single INSERTs of rows that nothing changes; a tenant is
  a constant of the models.
- The checks of API keys and tokens: stateless. `Authenticate` lets a request
  through or turns it away.
- Health probes, logs, metrics, traces, the worker's admin server: they read, or
  write what no other part reads.
- Routing, response formats, the template language, front matter of seed files:
  no state; the texts are model values.
- Generated query plumbing: the statements are modelled with the repositories
  that call them.
- The status in a webhook's payload: it is the one the row had when Process
  fetched it. No document says which it should be.
- The frequency cap of a preference: stored and never enforced by the code.
- Days on which a zone changes its offset, and clocks of several hosts that
  differ.
