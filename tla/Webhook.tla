------------------------------- MODULE Webhook -------------------------------
(***************************************************************************)
(* Outbound webhooks: the endpoints a tenant registers                     *)
(* (service/webhook.go, repository/webhook.go), Dispatch, which fans one   *)
(* event out to them, and worker/webhook_worker.go, the one goroutine that *)
(* posts the queued deliveries.  Dispatch runs at the end of Process, in   *)
(* the same process as the webhook worker.  The endpoint's HTTP server,    *)
(* Postgres and the reader of the webhook topic are external; the reader   *)
(* behaves as in WorkerPool.                                               *)
(***************************************************************************)
EXTENDS Integers, Sequences, FiniteSets

CONSTANTS Tenants,        \* tenant UUIDs
          Events,         \* domain.AllWebhookEvents
          Dispatchers,    \* goroutines that run Dispatch
          MaxEndpoints,   \* bound: endpoints ever created
          MaxUpdates,     \* bound: updates and deletes of endpoints
          MaxDeliveries,  \* bound: delivery rows ever created
          MaxAttempts,    \* WEBHOOK_MAX_ATTEMPTS
          MaxFaults       \* bound: crashes, stops, rebalances and failed calls

ASSUME WebhookAssumption ==
  /\ MaxEndpoints \in Nat /\ MaxUpdates \in Nat /\ MaxDeliveries \in Nat
  /\ MaxAttempts \in Nat /\ MaxFaults \in Nat
  /\ "none" \notin Tenants \cup Events

VARIABLES
  endpoints,   \* webhook_endpoints; a deleted row keeps its slot as Gone
  updates,     \* updates and deletes so far
  deliveries,  \* webhook_deliveries, in the order of their INSERT
  fanout,      \* per dispatcher: the event, what is left of the SELECT, the row to publish
  hookTopic,   \* the webhook topic: a delivery id and the URL to post to
  committed,   \* the group's offset: messages 1 .. committed are consumed
  position,    \* the last message the reader handed out
  held,        \* the message process is working on, or NoMessage
  stage,       \* "fetch", "send", "delivered", "failed" or "commit"
  attempt,     \* process's attempt counter
  faults,      \* crashes, stops and rebalances so far
  errors,      \* Postgres and Kafka calls that failed so far
  \* history
  offered,     \* <<endpoint, URL, event>>: active with this URL and event at some time
  accepted,    \* deliveries whose post was answered with 2xx
  refused,     \* per delivery, posts that failed
  stranded,    \* deliveries whose publish failed or never happened
  errored      \* messages process returned an error for

adminVars == <<endpoints, updates, offered>>
readerVars == <<committed, position, held, stage, attempt>>
postVars == <<accepted, refused>>
hookVars == <<endpoints, updates, deliveries, fanout, hookTopic, committed, position,
              held, stage, attempt, faults, errors, offered, accepted, refused, stranded,
              errored>>

NoMessage == 0
NoDelivery == 0
Subscriptions == SUBSET Events \ {{}}  \* validate:"required,min=1"
Urls == 0 .. MaxUpdates                \* URL u came with update u, 0 with the INSERT
Gone == [tenant |-> "none", url |-> 0, active |-> FALSE, events |-> {}]
Endpoint == [tenant : Tenants, url : Urls, active : BOOLEAN, events : Subscriptions]
Listed == [id : 1 .. MaxEndpoints, url : Urls]  \* a row of Dispatch's SELECT
WebhookMessage == [row : 1 .. MaxDeliveries, url : Urls]
Delivery == [endpoint : 1 .. MaxEndpoints, tenant : Tenants, event : Events,
             status : {"pending", "delivered", "failed", "deleted"}, attempt : Nat]
Idle == [event |-> "none", tenant |-> "none", left |-> {}, row |-> NoDelivery, url |-> 0]
Rows == 1 .. MaxDeliveries

HookInit ==
  /\ endpoints = <<>> /\ updates = 0 /\ deliveries = <<>>
  /\ fanout = [p \in Dispatchers |-> Idle]
  /\ hookTopic = <<>>
  /\ committed = 0 /\ position = 0
  /\ held = NoMessage /\ stage = "fetch" /\ attempt = 1 /\ faults = 0 /\ errors = 0
  /\ offered = {} /\ accepted = {} /\ refused = [d \in Rows |-> 0]
  /\ stranded = {} /\ errored = {}

\* Types, and the shape of the worker: it holds a message exactly when it is
\* past Fetch, and the row it works on is the one the message names.
HookTypeOK ==
  /\ endpoints \in Seq(Endpoint \cup {Gone}) /\ Len(endpoints) <= MaxEndpoints
  /\ updates \in 0 .. MaxUpdates
  /\ deliveries \in Seq(Delivery) /\ Len(deliveries) <= MaxDeliveries
  /\ hookTopic \in Seq(WebhookMessage)
  /\ \A i \in DOMAIN hookTopic : hookTopic[i].row <= Len(deliveries)
  /\ \A p \in Dispatchers :
       /\ fanout[p].left \subseteq Listed
       /\ fanout[p].row \in 0 .. Len(deliveries)
  /\ committed \in 0 .. Len(hookTopic) /\ position \in 0 .. Len(hookTopic)
  /\ held \in 0 .. Len(hookTopic)
  /\ stage = "fetch" <=> held = NoMessage
  /\ stage \in {"fetch", "send", "delivered", "failed", "commit"}
  /\ attempt \in {1} \cup 1 .. MaxAttempts
  /\ faults \in Nat /\ errors \in Nat /\ faults + errors <= MaxFaults
  /\ accepted \subseteq Rows /\ refused \in [Rows -> Nat]
  /\ stranded \subseteq Rows /\ errored \subseteq 1 .. Len(hookTopic)

-----------------------------------------------------------------------------
(* The tenant's requests.  A failed statement changes nothing, and an update *)
(* or delete of an absent row or of another tenant's matches no row.         *)

\* What endpoint e offers Dispatch from now on.
Offer(e, url, evs) == offered' = offered \cup {<<e, url, ev>> : ev \in evs}

CreateEndpoint(t, evs) ==
  /\ Len(endpoints) < MaxEndpoints
  /\ endpoints' =
       Append(endpoints, [tenant |-> t, url |-> 0, active |-> TRUE, events |-> evs])
  /\ Offer(Len(endpoints) + 1, 0, evs)
  /\ UNCHANGED <<updates, deliveries, fanout, hookTopic, readerVars, faults, errors,
                 postVars, stranded, errored>>

\* The update gives the endpoint a new URL, events and activity at once.
UpdateEndpoint(t, e, evs, active) ==
  /\ updates < MaxUpdates /\ endpoints[e].tenant = t
  /\ updates' = updates + 1
  /\ endpoints' = [endpoints EXCEPT ![e] =
       [tenant |-> t, url |-> updates + 1, active |-> active, events |-> evs]]
  /\ Offer(e, updates + 1, IF active THEN evs ELSE {})
  /\ UNCHANGED <<deliveries, fanout, hookTopic, readerVars, faults, errors, postVars,
                 stranded, errored>>

\* ON DELETE CASCADE takes the endpoint's deliveries with it.
DeleteEndpoint(t, e) ==
  /\ updates < MaxUpdates /\ endpoints[e].tenant = t
  /\ updates' = updates + 1
  /\ endpoints' = [endpoints EXCEPT ![e] = Gone]
  /\ deliveries' = [d \in DOMAIN deliveries |->
       IF deliveries[d].endpoint = e THEN [deliveries[d] EXCEPT !.status = "deleted"]
                                     ELSE deliveries[d]]
  /\ UNCHANGED <<fanout, hookTopic, readerVars, faults, errors, offered, postVars,
                 stranded, errored>>

-----------------------------------------------------------------------------
(* Dispatch. *)

Row(e) == [id |-> e, url |-> endpoints[e].url]

\* Mutant: the query forgets is_active.
ListInactiveToo(t, ev) ==
  {Row(e) : e \in {x \in DOMAIN endpoints :
     endpoints[x].tenant = t /\ ev \in endpoints[x].events}}

ListActiveForEvent(t, ev) ==
  {Row(e) : e \in {x \in DOMAIN endpoints :
     endpoints[x].tenant = t /\ endpoints[x].active /\ ev \in endpoints[x].events}}

(* The SELECT; on an error or without endpoints Dispatch returns at once. *)
DispatchList(p, t, ev) ==
  /\ fanout[p] = Idle /\ ListActiveForEvent(t, ev) # {}
  /\ fanout' = [fanout EXCEPT ![p] =
       [Idle EXCEPT !.event = ev, !.tenant = t, !.left = ListActiveForEvent(t, ev)]]
  /\ UNCHANGED <<adminVars, deliveries, hookTopic, readerVars, faults, errors, postVars,
                 stranded, errored>>

\* A call fails for a reason that is there, or as one of the errors.
MayFail(reason) ==
  \/ reason /\ UNCHANGED errors
  \/ ~reason /\ faults + errors < MaxFaults /\ errors' = errors + 1

\* The loop goes on to the next endpoint; after the last one Dispatch returns.
NextEndpoint(p, left) ==
  fanout' = [fanout EXCEPT ![p] =
    IF left = {} THEN Idle ELSE [@ EXCEPT !.left = left, !.row = NoDelivery, !.url = 0]]

(* CreateDelivery for one endpoint of the SELECT.  The endpoint may have     *)
(* been deleted meanwhile: the foreign key then refuses the row.             *)
CreateDelivery(p, ep) ==
  LET f == fanout[p] IN
  /\ f.row = NoDelivery /\ ep \in f.left
  /\ \/ /\ endpoints[ep.id] # Gone /\ Len(deliveries) < MaxDeliveries
        /\ deliveries' = Append(deliveries,
             [endpoint |-> ep.id, tenant |-> f.tenant, event |-> f.event,
              status |-> "pending", attempt |-> 0])
        /\ fanout' = [fanout EXCEPT ![p].row = Len(deliveries) + 1, ![p].url = ep.url,
                                    ![p].left = @ \ {ep}]
        /\ UNCHANGED errors
     \/ /\ MayFail(endpoints[ep.id] = Gone)
        /\ NextEndpoint(p, f.left \ {ep}) /\ UNCHANGED deliveries
  /\ UNCHANGED <<adminVars, hookTopic, readerVars, faults, postVars, stranded, errored>>

(* Publish: the message has the URL and the secret of the SELECT.  A failure  *)
(* is logged, and may still have reached the broker.                         *)
PublishDelivery(p) ==
  LET d == fanout[p].row
      published == Append(hookTopic, [row |-> d, url |-> fanout[p].url])
  IN
  /\ d # NoDelivery
  /\ NextEndpoint(p, fanout[p].left)
  /\ \/ hookTopic' = published /\ UNCHANGED <<stranded, errors>>
     \/ /\ MayFail(FALSE)
        /\ hookTopic' \in {hookTopic, published}
        /\ stranded' = stranded \cup {d}
  /\ UNCHANGED <<adminVars, deliveries, readerVars, faults, postVars, errored>>

-----------------------------------------------------------------------------
(* The webhook worker. *)

\* Mutant: the offset is committed when the message is read.
HookFetchCommits ==
  /\ stage = "fetch" /\ position < Len(hookTopic)
  /\ position' = position + 1 /\ committed' = position + 1
  /\ held' = position + 1 /\ stage' = "send" /\ attempt' = 1
  /\ UNCHANGED <<adminVars, deliveries, fanout, hookTopic, faults, errors, postVars,
                 stranded, errored>>

(* Run: Fetch, and process begins with the message's attempt, always 1. *)
HookFetch ==
  /\ stage = "fetch" /\ position < Len(hookTopic)
  /\ position' = position + 1
  /\ held' = position + 1 /\ stage' = "send" /\ attempt' = 1
  /\ UNCHANGED <<adminVars, deliveries, fanout, hookTopic, committed, faults, errors,
                 postVars, stranded, errored>>

\* Mutant: the loop gives up one attempt early.
SendGivesUpEarly ==
  LET d == hookTopic[held].row IN
  /\ stage = "send"
  /\ \/ accepted' = accepted \cup {d} /\ stage' = "delivered"
        /\ UNCHANGED <<attempt, refused>>
     \/ /\ refused' = [refused EXCEPT ![d] = @ + 1]
        /\ \/ attempt + 1 >= MaxAttempts /\ stage' = "failed" /\ UNCHANGED attempt
           \/ attempt + 1 < MaxAttempts /\ attempt' = attempt + 1 /\ UNCHANGED stage
        /\ UNCHANGED accepted
  /\ UNCHANGED <<adminVars, deliveries, fanout, hookTopic, committed, position, held,
                 faults, errors, stranded, errored>>

(* process: one send.  A failure at the last attempt ends the loop; an       *)
(* earlier one waits for the backoff and tries again.                        *)
HookSend ==
  LET d == hookTopic[held].row IN
  /\ stage = "send"
  /\ \/ accepted' = accepted \cup {d} /\ stage' = "delivered"
        /\ UNCHANGED <<attempt, refused>>
     \/ /\ refused' = [refused EXCEPT ![d] = @ + 1]
        /\ \/ attempt >= MaxAttempts /\ stage' = "failed" /\ UNCHANGED attempt
           \/ attempt < MaxAttempts /\ attempt' = attempt + 1 /\ UNCHANGED stage
        /\ UNCHANGED accepted
  /\ UNCHANGED <<adminVars, deliveries, fanout, hookTopic, committed, position, held,
                 faults, errors, stranded, errored>>

\* UpdateDelivery: by id; a row that is gone is an error.
UpdateDelivery(d, s, a) ==
  /\ deliveries[d].status # "deleted"
  /\ deliveries' = [deliveries EXCEPT ![d].status = s, ![d].attempt = a]

\* Mutant: a delivery that used up its attempts is committed without markFailed.
HookMarkDeliveredOnly ==
  LET d == hookTopic[held].row IN
  /\ stage \in {"delivered", "failed"}
  /\ \/ stage = "delivered" /\ UpdateDelivery(d, stage, attempt)
     \/ stage = "failed" /\ UNCHANGED deliveries
  /\ stage' = "commit" /\ attempt' = 1
  /\ UNCHANGED <<adminVars, fanout, hookTopic, committed, position, held, faults,
                 errors, postVars, stranded, errored>>

(* markDelivered and markFailed: on an error Run does not commit and fetches *)
(* the next message.                                                         *)
HookMark ==
  LET d == hookTopic[held].row IN
  /\ stage \in {"delivered", "failed"}
  /\ \/ /\ UpdateDelivery(d, stage, IF stage = "failed" THEN MaxAttempts ELSE attempt)
        /\ stage' = "commit" /\ UNCHANGED <<held, errors, errored>>
     \/ /\ MayFail(deliveries[d].status = "deleted")
        /\ stage' = "fetch" /\ held' = NoMessage
        /\ errored' = errored \cup {held} /\ UNCHANGED deliveries
  /\ attempt' = 1
  /\ UNCHANGED <<adminVars, fanout, hookTopic, committed, position, faults, postVars,
                 stranded>>

\* Mutant: after a failed commit the reader seeks back to the group's offset.
HookCommitRewinds ==
  /\ stage = "commit"
  /\ \/ committed' = held /\ UNCHANGED <<position, errors>>
     \/ MayFail(FALSE) /\ position' = committed /\ UNCHANGED committed
  /\ stage' = "fetch" /\ held' = NoMessage
  /\ UNCHANGED <<adminVars, deliveries, fanout, hookTopic, attempt, faults, postVars,
                 stranded, errored>>

(* Run: commit the message; a failure is only logged. *)
HookCommit ==
  /\ stage = "commit"
  /\ \/ committed' = held /\ UNCHANGED errors
     \/ MayFail(FALSE) /\ UNCHANGED committed
  /\ stage' = "fetch" /\ held' = NoMessage
  /\ UNCHANGED <<adminVars, deliveries, fanout, hookTopic, position, attempt, faults,
                 postVars, stranded, errored>>

-----------------------------------------------------------------------------
(* The worker process crashes, or stops: a cancelled context fails the send, *)
(* the UPDATE and the commit.  What Dispatch had not published is lost; the   *)
(* restarted reader resumes at the group's offset.                           *)
HookCrash ==
  /\ faults + errors < MaxFaults /\ faults' = faults + 1
  /\ stranded' = stranded \cup ({fanout[p].row : p \in Dispatchers} \ {NoDelivery})
  /\ fanout' = [p \in Dispatchers |-> Idle]
  /\ position' = committed /\ held' = NoMessage /\ stage' = "fetch" /\ attempt' = 1
  /\ UNCHANGED <<adminVars, deliveries, hookTopic, committed, errors, postVars, errored>>

\* The group rebalances: the reader goes back to the group's offset, and the
\* worker finishes what it holds.
HookRebalance ==
  /\ faults + errors < MaxFaults /\ faults' = faults + 1
  /\ position' = committed
  /\ UNCHANGED <<adminVars, deliveries, fanout, hookTopic, committed, held, stage,
                 attempt, errors, postVars, stranded, errored>>

-----------------------------------------------------------------------------
HookAdmin(t) ==
  \/ \E evs \in Subscriptions : CreateEndpoint(t, evs)
  \/ \E e \in DOMAIN endpoints, evs \in Subscriptions, a \in BOOLEAN :
       UpdateEndpoint(t, e, evs, a)
  \/ \E e \in DOMAIN endpoints : DeleteEndpoint(t, e)

HookDispatch(p) ==
  \/ \E ep \in fanout[p].left : CreateDelivery(p, ep)
  \/ PublishDelivery(p)

HookWorker == HookFetch \/ HookSend \/ HookMark \/ HookCommit

HookNext ==
  \/ \E t \in Tenants : HookAdmin(t)
  \/ \E p \in Dispatchers, t \in Tenants, ev \in Events : DispatchList(p, t, ev)
  \/ \E p \in Dispatchers : HookDispatch(p)
  \/ HookWorker \/ HookCrash \/ HookRebalance

\* The webhook goroutine runs whenever it can; sends time out after 10 s.
HookSpec == HookInit /\ [][HookNext]_hookVars /\ WF_hookVars(HookWorker)

-----------------------------------------------------------------------------
(* Properties. *)

\* What a delivery row records happened: a delivered row was accepted by the
\* endpoint, and a failed one was refused MaxAttempts times (process,
\* markDelivered and markFailed), across crashes and repeated deliveries.
RecordMatchesPosts ==
  \A d \in DOMAIN deliveries :
    /\ deliveries[d].status = "delivered" =>
         d \in accepted /\ deliveries[d].attempt <= refused[d] + 1
    /\ deliveries[d].status = "failed" => refused[d] >= MaxAttempts

\* Whatever happens to an endpoint between the SELECT of Dispatch and the last
\* retry, a post only goes to an endpoint of the notification's own tenant, at a
\* URL under which it was active and subscribed to the event: the message keeps
\* the URL it was listed with, and never one of a disabled or half-updated
\* endpoint (Dispatch, process).
PostedWhereOffered ==
  \A i \in DOMAIN hookTopic :
    LET d == deliveries[hookTopic[i].row] IN
    /\ <<d.endpoint, hookTopic[i].url, d.event>> \in offered
    /\ endpoints[d.endpoint] = Gone \/ endpoints[d.endpoint].tenant = d.tenant

\* Message i is still to be read, or in the worker's hands.
Awaited(i) == i > position \/ i = held

\* Only three things leave a row pending for good: Dispatch could not publish
\* it or died before it did, or process returned an error and the reader went
\* on, although Run says that "Kafka will redeliver".  Crashes, stops, rebalances
\* and lost commits of the webhook worker do not.
PendingIsExplained ==
  \A d \in DOMAIN deliveries : deliveries[d].status = "pending" =>
    \/ d \in stranded
    \/ \E p \in Dispatchers : fanout[p].row = d
    \/ \E i \in DOMAIN hookTopic : hookTopic[i].row = d /\ (Awaited(i) \/ i \in errored)

\* Once a row says delivered it keeps saying so, unless the endpoint is deleted
\* or a crash or rebalance has the message posted again (Run, UpdateDelivery).
DeliveredStays ==
  [][\A d \in DOMAIN deliveries :
       deliveries[d].status = "delivered" /\ faults = 0
         => deliveries'[d].status \in {"delivered", "deleted"}]_hookVars

\* Every row whose message was published is marked, or deleted with its
\* endpoint, or process has returned an error for it (WebhookWorker.Run).
PublishedIsMarked ==
  \A d \in Rows :
    (\E i \in DOMAIN hookTopic : hookTopic[i].row = d)
      ~> \/ d \in DOMAIN deliveries /\ deliveries[d].status # "pending"
         \/ \E i \in errored : hookTopic[i].row = d
=============================================================================
