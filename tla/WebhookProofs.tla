--------------------------- MODULE WebhookProofs ---------------------------
(***************************************************************************)
(* Proofs about Webhook: for every number of tenants, endpoints, updates,  *)
(* dispatchers, deliveries, attempts, failed calls, crashes and            *)
(* rebalances, the delivery rows tell the truth about the posts, posts go  *)
(* where the endpoint was offered, and no row stays pending unexplained.   *)
(***************************************************************************)
EXTENDS Webhook, TLAPS

-----------------------------------------------------------------------------
(* The inductive invariant. *)

Fanout == [event : Events \cup {"none"}, tenant : Tenants \cup {"none"},
           left : SUBSET Listed, row : 0 .. MaxDeliveries, url : Urls]

EndpointTypes ==
  /\ endpoints \in Seq(Endpoint \cup {Gone}) /\ Len(endpoints) <= MaxEndpoints
  /\ updates \in 0 .. MaxUpdates

RowTypes == deliveries \in Seq(Delivery) /\ Len(deliveries) <= MaxDeliveries

\* A dispatcher that has endpoints left knows its event and its tenant.
FanoutTypes ==
  /\ fanout \in [Dispatchers -> Fanout]
  /\ \A p \in Dispatchers :
       /\ fanout[p].row <= Len(deliveries)
       /\ fanout[p].left # {} => fanout[p].event \in Events /\ fanout[p].tenant \in Tenants

TopicTypes ==
  /\ hookTopic \in Seq(WebhookMessage)
  /\ \A i \in 1 .. Len(hookTopic) : hookTopic[i].row <= Len(deliveries)

ReaderTypes ==
  /\ committed \in 0 .. Len(hookTopic) /\ position \in 0 .. Len(hookTopic)
  /\ held \in 0 .. Len(hookTopic)
  /\ stage \in {"fetch", "send", "delivered", "failed", "commit"}
  /\ stage = "fetch" <=> held = NoMessage
  /\ attempt \in Nat

PostTypes == refused \in [Rows -> Nat] /\ faults \in Nat /\ errors \in Nat

HookTypes == EndpointTypes /\ RowTypes /\ FanoutTypes /\ TopicTypes /\ ReaderTypes /\ PostTypes

\* In the table eps, endpoint e is, or was until it was deleted, one of tenant t's.
BelongsTo(eps, e, t) == e \in 1 .. Len(eps) /\ (eps[e] = Gone \/ eps[e].tenant = t)

\* According to the offers o, the endpoint of a row was active with the url and
\* subscribed to the event of the row.
OfferedAt(o, row, url) == <<row.endpoint, url, row.event>> \in o

\* What Dispatch read, what it is about to publish and what it published was
\* offered by an endpoint of the tenant; what is active now has been offered.
OfferInv ==
  /\ \A e \in 1 .. Len(endpoints) : endpoints[e].active =>
       \A ev \in endpoints[e].events : <<e, endpoints[e].url, ev>> \in offered
  /\ \A p \in Dispatchers : \A ep \in fanout[p].left :
       <<ep.id, ep.url, fanout[p].event>> \in offered /\ BelongsTo(endpoints, ep.id, fanout[p].tenant)
  /\ \A p \in Dispatchers : fanout[p].row # NoDelivery =>
       OfferedAt(offered, deliveries[fanout[p].row], fanout[p].url)
  /\ \A i \in 1 .. Len(hookTopic) :
       OfferedAt(offered, deliveries[hookTopic[i].row], hookTopic[i].url)
  /\ \A d \in 1 .. Len(deliveries) :
       BelongsTo(endpoints, deliveries[d].endpoint, deliveries[d].tenant)

\* What process knows of the row it works on: its attempt counter never runs
\* ahead of the posts that failed.
PostInv ==
  /\ \A d \in 1 .. Len(deliveries) :
       /\ deliveries[d].status = "delivered" =>
            d \in accepted /\ deliveries[d].attempt <= refused[d] + 1
       /\ deliveries[d].status = "failed" => refused[d] >= MaxAttempts
  /\ stage \in {"send", "delivered"} => attempt <= refused[hookTopic[held].row] + 1
  /\ stage = "delivered" => hookTopic[held].row \in accepted
  /\ stage = "failed" => refused[hookTopic[held].row] >= MaxAttempts

\* Message i has been through process.
Processed(i) == deliveries[hookTopic[i].row].status # "pending" \/ i \in errored

\* The offset says too little: after a rebalance the message process works on
\* may lie above what the reader reads next, and its commit moves the offset there.
ReadInv ==
  /\ \A i \in 1 .. committed : Processed(i)
  /\ \A i \in 1 .. Len(hookTopic) : i < held => Processed(i)
  /\ \A i \in 1 .. position : i = held \/ Processed(i)
  /\ stage = "commit" => Processed(held)

\* A pending row is on its way to the topic, in it, or stranded.
TraceInv ==
  \A d \in 1 .. Len(deliveries) : deliveries[d].status = "pending" =>
    \/ d \in stranded
    \/ \E p \in Dispatchers : fanout[p].row = d
    \/ \E i \in 1 .. Len(hookTopic) : hookTopic[i].row = d

Unmarked(d) == deliveries[d].status \in {"pending", "deleted"}

\* A row is published once, by the dispatcher that created it, and is unmarked
\* until its message has been read.
OnceInv ==
  /\ \A i, j \in 1 .. Len(hookTopic) : hookTopic[i].row = hookTopic[j].row => i = j
  /\ \A p \in Dispatchers : \A i \in 1 .. Len(hookTopic) : fanout[p].row # hookTopic[i].row
  /\ \A p, q \in Dispatchers : fanout[p].row = fanout[q].row /\ fanout[p].row # NoDelivery => p = q
  /\ \A p \in Dispatchers : fanout[p].row # NoDelivery => Unmarked(fanout[p].row)

\* Without crashes and rebalances no message is read twice.
ReadOnce ==
  faults = 0 =>
    /\ \A i \in 1 .. Len(hookTopic) : i > position => Unmarked(hookTopic[i].row)
    /\ stage # "fetch" => held = position
    /\ stage \in {"send", "delivered", "failed"} => Unmarked(hookTopic[held].row)

HookInv == HookTypes /\ OfferInv /\ PostInv /\ ReadInv /\ TraceInv /\ OnceInv /\ ReadOnce

-----------------------------------------------------------------------------
(* Sequences. *)

(* What appending to a sequence yields.                                      *)
LEMMA Appended ==
  ASSUME NEW S, NEW s \in Seq(S), NEW e \in S
  PROVE  /\ Append(s, e) \in Seq(S) /\ Len(Append(s, e)) = Len(s) + 1
         /\ Len(s) \in Nat
         /\ Append(s, e)[Len(s) + 1] = e
         /\ \A i \in 1 .. Len(s) : Append(s, e)[i] = s[i]
  OBVIOUS

(* What replacing an element of a sequence yields.                           *)
LEMMA Replaced ==
  ASSUME NEW S, NEW s \in Seq(S), NEW i \in 1 .. Len(s), NEW e \in S
  PROVE  /\ [s EXCEPT ![i] = e] \in Seq(S)
         /\ Len([s EXCEPT ![i] = e]) = Len(s)
         /\ [s EXCEPT ![i] = e][i] = e
         /\ \A j \in 1 .. Len(s) : j # i => [s EXCEPT ![i] = e][j] = s[j]
  OBVIOUS

-----------------------------------------------------------------------------
(* What the operations do to the state they change. *)

(* The row of a message exists.                                              *)
LEMMA MessageRow ==
  ASSUME HookTypes, NEW i \in 1 .. Len(hookTopic)
  PROVE  /\ hookTopic[i].row \in 1 .. Len(deliveries) /\ hookTopic[i].row \in Rows
         /\ hookTopic[i].url \in Urls
         /\ deliveries[hookTopic[i].row] \in Delivery
<1>1. hookTopic[i] \in WebhookMessage /\ hookTopic[i].row <= Len(deliveries)
  BY DEF HookTypes, TopicTypes
<1>2. Len(deliveries) \in Nat /\ deliveries \in Seq(Delivery)
  BY DEF HookTypes, RowTypes
<1>3. hookTopic[i].row \in 1 .. MaxDeliveries /\ hookTopic[i].url \in Urls
  BY <1>1, Zenon DEF WebhookMessage
<1>4. hookTopic[i].row \in 1 .. Len(deliveries)
  BY <1>1, <1>2, <1>3, WebhookAssumption
<1> QED
  BY <1>2, <1>3, <1>4 DEF Rows

(* The message that process works on.                                        *)
LEMMA HeldMessage ==
  ASSUME HookTypes, stage # "fetch"
  PROVE  held \in 1 .. Len(hookTopic) /\ held # NoMessage
  BY DEF HookTypes, ReaderTypes, TopicTypes, NoMessage

(* What dispatchers and the worker know of rows that nobody touches.         *)
LEMMA RowsStay ==
  ASSUME HookInv, UNCHANGED <<endpoints, offered, deliveries, fanout, hookTopic, stranded>>
  PROVE  OfferInv' /\ TraceInv' /\ OnceInv'
<1>1. OfferInv'
  <2>1. OfferInv
    BY Zenon DEF HookInv
  <2> QED
    BY <2>1, Zenon DEF OfferInv
<1>2. TraceInv'
  <2>1. TraceInv
    BY Zenon DEF HookInv
  <2> QED
    BY <2>1, Zenon DEF TraceInv
<1>3. OnceInv'
  <2>1. OnceInv
    BY Zenon DEF HookInv
  <2> QED
    BY <2>1, Zenon DEF OnceInv, Unmarked
<1> QED
  BY <1>1, <1>2, <1>3, Zenon

(* An update or a delete writes new to the slot of endpoint e.               *)
Rewrites(e, new) ==
  /\ new = Gone \/ new.tenant = endpoints[e].tenant
  /\ endpoints[e] # Gone /\ updates < MaxUpdates /\ updates' = updates + 1
  /\ endpoints' = [endpoints EXCEPT ![e] = new]
  /\ offered \subseteq offered'
  /\ new.active => \A ev \in new.events : <<e, new.url, ev>> \in offered'

(* An endpoint keeps its tenant until it is gone, and stays gone; and what   *)
(* CreateEndpoint and UpdateEndpoint write is offered.                       *)
LEMMA EndpointSteps ==
  ASSUME HookTypes, NEW t \in Tenants, HookAdmin(t)
  PROVE  /\ EndpointTypes'
         /\ Len(endpoints) <= Len(endpoints')
         /\ Len(endpoints) \in Nat /\ Len(endpoints') \in Nat
         /\ offered \subseteq offered'
         /\ \A e \in 1 .. Len(endpoints) :
              /\ endpoints[e] = Gone => endpoints'[e] = Gone
              /\ endpoints'[e] = Gone \/ endpoints'[e].tenant = endpoints[e].tenant
         /\ \A e \in 1 .. Len(endpoints') :
              \/ e \in 1 .. Len(endpoints) /\ endpoints'[e] = endpoints[e]
              \/ endpoints'[e].active =>
                   \A ev \in endpoints'[e].events : <<e, endpoints'[e].url, ev>> \in offered'
<1> USE WebhookAssumption
<1>0. /\ endpoints \in Seq(Endpoint \cup {Gone}) /\ Len(endpoints) <= MaxEndpoints
      /\ updates \in 0 .. MaxUpdates /\ DOMAIN endpoints = 1 .. Len(endpoints)
      /\ Len(endpoints) \in Nat
  BY DEF HookTypes, EndpointTypes
<1>1. ASSUME NEW evs \in Subscriptions, CreateEndpoint(t, evs)
      PROVE  /\ EndpointTypes' /\ Len(endpoints') = Len(endpoints) + 1
             /\ offered \subseteq offered'
             /\ \A e \in 1 .. Len(endpoints) : endpoints'[e] = endpoints[e]
             /\ \A ev \in endpoints'[Len(endpoints) + 1].events :
                  <<Len(endpoints) + 1, endpoints'[Len(endpoints) + 1].url, ev>> \in offered'
  <2> DEFINE new == [tenant |-> t, url |-> 0, active |-> TRUE, events |-> evs]
  <2>1. new \in Endpoint
    BY <1>1 DEF Endpoint, Urls
  <2>2. endpoints' = Append(endpoints, new) /\ Len(endpoints) < MaxEndpoints /\ updates' = updates
        /\ offered' = offered \cup {<<Len(endpoints) + 1, 0, ev>> : ev \in evs}
    BY <1>1, Zenon DEF CreateEndpoint, Offer
  <2>3. new.url = 0 /\ new.events = evs
    BY Zenon
  <2> HIDE DEF new
  <2>4. /\ endpoints' \in Seq(Endpoint \cup {Gone}) /\ Len(endpoints') = Len(endpoints) + 1
        /\ endpoints'[Len(endpoints) + 1] = new
        /\ \A e \in 1 .. Len(endpoints) : endpoints'[e] = endpoints[e]
    BY <1>0, <2>1, <2>2, Appended
  <2> QED
    BY <1>0, <2>2, <2>3, <2>4 DEF EndpointTypes
<1>2. ASSUME NEW e \in DOMAIN endpoints, NEW new \in Endpoint \cup {Gone}, Rewrites(e, new)
      PROVE  /\ EndpointTypes' /\ Len(endpoints') = Len(endpoints) /\ offered \subseteq offered'
             /\ \A x \in 1 .. Len(endpoints) :
                  /\ endpoints[x] = Gone => endpoints'[x] = Gone
                  /\ endpoints'[x] = Gone \/ endpoints'[x].tenant = endpoints[x].tenant
                  /\ \/ endpoints'[x] = endpoints[x]
                     \/ endpoints'[x].active =>
                          \A ev \in endpoints'[x].events : <<x, endpoints'[x].url, ev>> \in offered'
  <2>1. /\ endpoints' \in Seq(Endpoint \cup {Gone}) /\ Len(endpoints') = Len(endpoints)
        /\ endpoints'[e] = new
        /\ \A x \in 1 .. Len(endpoints) : x # e => endpoints'[x] = endpoints[x]
    BY <1>0, <1>2, Replaced DEF Rewrites
  <2> QED
    BY <1>0, <1>2, <2>1 DEF EndpointTypes, Rewrites
<1>3. \A e \in DOMAIN endpoints : endpoints[e].tenant = t => endpoints[e] # Gone
  BY DEF Gone
<1>4. ASSUME NEW e \in DOMAIN endpoints, NEW evs \in Subscriptions, NEW a \in BOOLEAN,
             UpdateEndpoint(t, e, evs, a)
      PROVE  \E new \in Endpoint \cup {Gone} : Rewrites(e, new)
  <2> DEFINE new == [tenant |-> t, url |-> updates + 1, active |-> a, events |-> evs]
  <2>1. updates < MaxUpdates /\ endpoints[e].tenant = t /\ updates' = updates + 1
        /\ endpoints' = [endpoints EXCEPT ![e] = new]
        /\ offered' = offered \cup {<<e, updates + 1, ev>> : ev \in IF a THEN evs ELSE {}}
    BY <1>4, Zenon DEF UpdateEndpoint, Offer
  <2>2. new \in Endpoint
    BY <1>0, <2>1 DEF Endpoint, Urls
  <2>3. new.tenant = t /\ new.url = updates + 1 /\ new.active = a /\ new.events = evs
    BY Zenon
  <2> HIDE DEF new
  <2>4. new.active => \A ev \in new.events : <<e, new.url, ev>> \in offered'
    BY <2>1, <2>3, Zenon
  <2> QED
    BY <1>3, <2>1, <2>2, <2>3, <2>4, Zenon DEF Rewrites
<1>5. ASSUME NEW e \in DOMAIN endpoints, DeleteEndpoint(t, e)
      PROVE  Rewrites(e, Gone)
  <2>1. ~Gone.active
    BY Zenon DEF Gone
  <2>2. /\ updates < MaxUpdates /\ endpoints[e].tenant = t /\ updates' = updates + 1
        /\ endpoints' = [endpoints EXCEPT ![e] = Gone] /\ offered' = offered
    BY <1>5, Zenon DEF DeleteEndpoint
  <2> QED
    BY <1>3, <2>1, <2>2, Zenon DEF Rewrites
<1>6. CASE \E evs \in Subscriptions : CreateEndpoint(t, evs)
  <2>1. /\ EndpointTypes' /\ Len(endpoints') = Len(endpoints) + 1
        /\ offered \subseteq offered'
        /\ \A e \in 1 .. Len(endpoints) : endpoints'[e] = endpoints[e]
        /\ \A ev \in endpoints'[Len(endpoints) + 1].events :
             <<Len(endpoints) + 1, endpoints'[Len(endpoints) + 1].url, ev>> \in offered'
    BY <1>1, <1>6, Zenon
  <2>2. \A e \in 1 .. Len(endpoints') : e \in 1 .. Len(endpoints) \/ e = Len(endpoints) + 1
    BY <1>0, <2>1
  <2> QED
    BY <1>0, <2>1, <2>2
<1>7. CASE \E e \in DOMAIN endpoints :
             \/ \E evs \in Subscriptions, a \in BOOLEAN : UpdateEndpoint(t, e, evs, a)
             \/ DeleteEndpoint(t, e)
  <2>1. PICK e \in DOMAIN endpoints, new \in Endpoint \cup {Gone} : Rewrites(e, new)
    BY <1>4, <1>5, <1>7, Zenon
  <2>2. /\ EndpointTypes' /\ Len(endpoints') = Len(endpoints) /\ offered \subseteq offered'
        /\ \A x \in 1 .. Len(endpoints) :
             /\ endpoints[x] = Gone => endpoints'[x] = Gone
             /\ endpoints'[x] = Gone \/ endpoints'[x].tenant = endpoints[x].tenant
             /\ \/ endpoints'[x] = endpoints[x]
                \/ endpoints'[x].active =>
                     \A ev \in endpoints'[x].events : <<x, endpoints'[x].url, ev>> \in offered'
    BY <1>2, <2>1, Zenon
  <2> QED
    BY <1>0, <2>2
<1> QED
  BY <1>6, <1>7, Zenon DEF HookAdmin

(* The tenant's requests delete rows at most, and touch nothing of the       *)
(* dispatchers and of the worker.                                            *)
LEMMA AdminRows ==
  ASSUME HookTypes, NEW t \in Tenants, HookAdmin(t)
  PROVE  /\ RowTypes' /\ Len(deliveries') = Len(deliveries)
         /\ \A d \in 1 .. Len(deliveries) :
              /\ deliveries'[d].endpoint = deliveries[d].endpoint
              /\ deliveries'[d].tenant = deliveries[d].tenant
              /\ deliveries'[d].event = deliveries[d].event
              /\ deliveries'[d].attempt = deliveries[d].attempt
              /\ deliveries'[d].status \in {deliveries[d].status, "deleted"}
         /\ UNCHANGED <<fanout, hookTopic, readerVars, faults, errors, postVars, stranded, errored>>
<1>0. /\ deliveries \in Seq(Delivery) /\ Len(deliveries) <= MaxDeliveries
      /\ DOMAIN deliveries = 1 .. Len(deliveries) /\ Len(deliveries) \in Nat
  BY DEF HookTypes, RowTypes
<1>1. UNCHANGED <<fanout, hookTopic, readerVars, faults, errors, postVars, stranded, errored>>
  BY Zenon DEF HookAdmin, CreateEndpoint, UpdateEndpoint, DeleteEndpoint
<1>2. CASE UNCHANGED deliveries
  BY <1>0, <1>1, <1>2, Zenon DEF RowTypes
<1>3. ASSUME NEW e \in DOMAIN endpoints, DeleteEndpoint(t, e)
      PROVE  /\ RowTypes' /\ Len(deliveries') = Len(deliveries)
             /\ \A d \in 1 .. Len(deliveries) :
                  /\ deliveries'[d].endpoint = deliveries[d].endpoint
                  /\ deliveries'[d].tenant = deliveries[d].tenant
                  /\ deliveries'[d].event = deliveries[d].event
                  /\ deliveries'[d].attempt = deliveries[d].attempt
                  /\ deliveries'[d].status \in {deliveries[d].status, "deleted"}
  <2>1. deliveries' = [d \in 1 .. Len(deliveries) |->
          IF deliveries[d].endpoint = e THEN [deliveries[d] EXCEPT !.status = "deleted"]
                                        ELSE deliveries[d]]
    BY <1>0, <1>3, Zenon DEF DeleteEndpoint
  <2>2. \A d \in 1 .. Len(deliveries) :
          deliveries'[d] \in {deliveries[d], [deliveries[d] EXCEPT !.status = "deleted"]}
    BY <2>1, Zenon
  <2>3. \A d \in 1 .. Len(deliveries) : deliveries[d] \in Delivery
    BY <1>0
  <2>4. \A d \in 1 .. Len(deliveries) :
          /\ deliveries'[d] \in Delivery
          /\ deliveries'[d].endpoint = deliveries[d].endpoint
          /\ deliveries'[d].tenant = deliveries[d].tenant
          /\ deliveries'[d].event = deliveries[d].event
          /\ deliveries'[d].attempt = deliveries[d].attempt
          /\ deliveries'[d].status \in {deliveries[d].status, "deleted"}
    BY <2>2, <2>3 DEF Delivery
  <2>5. deliveries' \in Seq(Delivery) /\ Len(deliveries') = Len(deliveries)
    BY <1>0, <2>1, <2>4
  <2> QED
    BY <1>0, <2>4, <2>5, Zenon DEF RowTypes
<1> QED
  BY <1>1, <1>2, <1>3, Zenon DEF HookAdmin, CreateEndpoint, UpdateEndpoint

(* The requests of the tenants.                                              *)
LEMMA AdminKeeps ==
  ASSUME HookInv, NEW t \in Tenants, HookAdmin(t)
  PROVE  HookInv'
<1> DEFINE N == Len(deliveries)
           L == Len(hookTopic)
<1>1. HookTypes
  BY Zenon DEF HookInv
<1>2. /\ RowTypes' /\ Len(deliveries') = N /\ N \in Nat /\ L \in Nat
      /\ \A d \in 1 .. N :
           /\ deliveries'[d].endpoint = deliveries[d].endpoint
           /\ deliveries'[d].tenant = deliveries[d].tenant
           /\ deliveries'[d].event = deliveries[d].event
           /\ deliveries'[d].attempt = deliveries[d].attempt
           /\ deliveries'[d].status \in {deliveries[d].status, "deleted"}
  BY <1>1, AdminRows DEF HookTypes, RowTypes, TopicTypes
<1>3. UNCHANGED <<fanout, hookTopic, committed, position, held, stage, attempt, faults, errors,
                  accepted, refused, stranded, errored>>
  BY <1>1, AdminRows, Zenon DEF readerVars, postVars
<1>4. \A i \in 1 .. L : hookTopic[i].row \in 1 .. N
  BY <1>1, MessageRow, Zenon
<1>5. \A p \in Dispatchers : fanout[p].row # NoDelivery => fanout[p].row \in 1 .. N
  BY <1>1, <1>2 DEF HookTypes, FanoutTypes, Fanout, NoDelivery
<1>6. stage # "fetch" => held \in 1 .. L
  BY <1>1, HeldMessage, Zenon
<1> HIDE DEF N, L
<1>7. HookTypes'
  <2>1. EndpointTypes'
    BY <1>1, EndpointSteps, Zenon
  <2>2. FanoutTypes' /\ TopicTypes' /\ ReaderTypes' /\ PostTypes'
    BY <1>1, <1>2, <1>3, Zenon
    DEF HookTypes, FanoutTypes, TopicTypes, ReaderTypes, PostTypes, N
  <2> QED
    BY <1>2, <2>1, <2>2, Zenon DEF HookTypes
<1>8. OfferInv'
  <2>0. OfferInv
    BY Zenon DEF HookInv
  <2>1. /\ Len(endpoints) <= Len(endpoints')
        /\ Len(endpoints) \in Nat /\ Len(endpoints') \in Nat
        /\ offered \subseteq offered'
        /\ \A e \in 1 .. Len(endpoints) :
             /\ endpoints[e] = Gone => endpoints'[e] = Gone
             /\ endpoints'[e] = Gone \/ endpoints'[e].tenant = endpoints[e].tenant
        /\ \A e \in 1 .. Len(endpoints') :
             \/ e \in 1 .. Len(endpoints) /\ endpoints'[e] = endpoints[e]
             \/ endpoints'[e].active =>
                  \A ev \in endpoints'[e].events : <<e, endpoints'[e].url, ev>> \in offered'
    BY <1>1, EndpointSteps, Zenon
  <2>2. \A e, u : BelongsTo(endpoints, e, u) => BelongsTo(endpoints', e, u)
    BY <2>1 DEF BelongsTo
  <2>3. \A e \in 1 .. Len(endpoints') : endpoints'[e].active =>
          \A ev \in endpoints'[e].events : <<e, endpoints'[e].url, ev>> \in offered'
    BY <2>0, <2>1, Zenon DEF OfferInv
  <2>4. \A p \in Dispatchers : \A ep \in fanout'[p].left :
          /\ <<ep.id, ep.url, fanout'[p].event>> \in offered'
          /\ BelongsTo(endpoints', ep.id, fanout'[p].tenant)
    BY <1>3, <2>0, <2>1, <2>2, Zenon DEF OfferInv
  <2>5. \A p \in Dispatchers : fanout'[p].row # NoDelivery =>
          OfferedAt(offered', deliveries'[fanout'[p].row], fanout'[p].url)
    BY <1>2, <1>3, <1>5, <2>0, <2>1, Zenon DEF OfferInv, OfferedAt
  <2>6. \A i \in 1 .. Len(hookTopic') :
          OfferedAt(offered', deliveries'[hookTopic'[i].row], hookTopic'[i].url)
    BY <1>2, <1>3, <1>4, <2>0, <2>1, ZenonT(30) DEF OfferInv, OfferedAt, L
  <2>7. \A d \in 1 .. Len(deliveries') :
          BelongsTo(endpoints', deliveries'[d].endpoint, deliveries'[d].tenant)
    BY <1>2, <2>0, <2>2, Zenon DEF OfferInv, N
  <2> QED
    BY <2>3, <2>4, <2>5, <2>6, <2>7, Zenon DEF OfferInv
<1>9. PostInv'
  BY <1>2, <1>3, <1>4, <1>6, Zenon DEF HookInv, PostInv, N, L
<1>10. ReadInv'
  <2>1. \A i \in 1 .. L : Processed(i) => Processed(i)'
    BY <1>2, <1>3, <1>4, Zenon DEF Processed
  <2>2. committed \in 0 .. L /\ position \in 0 .. L
    BY <1>1, Zenon DEF HookTypes, ReaderTypes, L
  <2> QED
    BY <1>2, <1>3, <1>6, <2>1, <2>2 DEF HookInv, ReadInv, L
<1>11. TraceInv'
  BY <1>2, <1>3 DEF HookInv, TraceInv, N
<1>12. OnceInv' /\ ReadOnce'
  <2>1. \A d \in 1 .. N : Unmarked(d) => Unmarked(d)'
    BY <1>2, Zenon DEF Unmarked
  <2>2. OnceInv'
    BY <1>3, <1>5, <2>1, Zenon DEF HookInv, OnceInv
  <2>3. ReadOnce'
    BY <1>3, <1>4, <1>6, <2>1, Zenon DEF HookInv, ReadOnce, L
  <2> QED
    BY <2>2, <2>3, Zenon
<1> QED
  BY <1>7, <1>8, <1>9, <1>10, <1>11, <1>12, Zenon DEF HookInv

-----------------------------------------------------------------------------
(* Dispatch. *)

\* Dispatcher p is done with the row it had, if any, and goes on with endpoints
\* that were offered to it.
MovesOn(p) ==
  /\ fanout' \in [Dispatchers -> Fanout]
  /\ fanout'[p].row = NoDelivery
  /\ fanout'[p].left # {} => fanout'[p].event \in Events /\ fanout'[p].tenant \in Tenants
  /\ \A ep \in fanout'[p].left :
       /\ <<ep.id, ep.url, fanout'[p].event>> \in offered
       /\ BelongsTo(endpoints, ep.id, fanout'[p].tenant)
  /\ \A q \in Dispatchers : q # p => fanout'[q] = fanout[q]

(* The SELECT lists active endpoints, and what is active has been offered.   *)
LEMMA ListMovesOn ==
  ASSUME HookTypes, OfferInv, NEW p \in Dispatchers, NEW t \in Tenants, NEW ev \in Events,
         DispatchList(p, t, ev)
  PROVE  MovesOn(p) /\ fanout[p].row = NoDelivery
<1>0. PICK l, f : /\ l = ListActiveForEvent(t, ev)
                  /\ f = [Idle EXCEPT !.event = ev, !.tenant = t, !.left = l]
  BY Zenon
<1>1. fanout[p] = Idle /\ fanout' = [fanout EXCEPT ![p] = f]
  BY <1>0, Zenon DEF DispatchList
<1>2. \A ep \in ListActiveForEvent(t, ev) : \E e \in 1 .. Len(endpoints) :
        /\ ep = [id |-> e, url |-> endpoints[e].url]
        /\ endpoints[e].tenant = t /\ endpoints[e].active /\ ev \in endpoints[e].events
  BY DEF ListActiveForEvent, Row, HookTypes, EndpointTypes
<1>3. \A e \in 1 .. Len(endpoints) : endpoints[e].url \in Urls /\ e \in 1 .. MaxEndpoints
  <2>1. \A e \in 1 .. Len(endpoints) : endpoints[e] \in Endpoint \cup {Gone}
    BY DEF HookTypes, EndpointTypes
  <2>2. Len(endpoints) \in Nat /\ Len(endpoints) <= MaxEndpoints
    BY DEF HookTypes, EndpointTypes
  <2> QED
    BY <2>1, <2>2, WebhookAssumption DEF Endpoint, Gone, Urls
<1>4. \A ep \in ListActiveForEvent(t, ev) :
        /\ ep \in Listed
        /\ <<ep.id, ep.url, ev>> \in offered /\ BelongsTo(endpoints, ep.id, t)
  <2> SUFFICES ASSUME NEW ep \in ListActiveForEvent(t, ev)
               PROVE  /\ ep \in Listed
                      /\ <<ep.id, ep.url, ev>> \in offered /\ BelongsTo(endpoints, ep.id, t)
    BY Zenon
  <2>1. PICK e \in 1 .. Len(endpoints) :
          /\ ep = [id |-> e, url |-> endpoints[e].url]
          /\ endpoints[e].tenant = t /\ endpoints[e].active /\ ev \in endpoints[e].events
    BY <1>2, Zenon
  <2>2. ep.id = e /\ ep.url = endpoints[e].url /\ ep \in Listed
    BY <1>3, <2>1, Zenon DEF Listed
  <2> QED
    BY <2>1, <2>2, Zenon DEF OfferInv, BelongsTo
<1>5. /\ f.event = ev /\ f.tenant = t /\ f.left = ListActiveForEvent(t, ev)
      /\ f.row = NoDelivery /\ f \in Fanout
  <2>1. l \in SUBSET Listed
    BY <1>0, <1>4, Zenon
  <2>2. f = [Idle EXCEPT !.event = ev, !.tenant = t, !.left = l]
    BY <1>0, Zenon
  <2>3. f.event = ev /\ f.tenant = t /\ f.left = l /\ f.row = NoDelivery /\ f \in Fanout
    <3>1. NoDelivery \in 0 .. MaxDeliveries /\ 0 \in Urls
      BY WebhookAssumption DEF Urls, NoDelivery
    <3>2. f.event = ev /\ f.tenant = t /\ f.left = l /\ f.row = NoDelivery
      BY <2>2, Zenon DEF Idle
    <3>3. f = [event |-> ev, tenant |-> t, left |-> l, row |-> NoDelivery, url |-> 0]
      BY <2>2, Zenon DEF Idle
    <3>4. f \in Fanout
      BY <2>1, <3>1, <3>3, Zenon DEF Fanout
    <3> QED
      BY <3>2, <3>4, Zenon
  <2> QED
    BY <1>0, <2>3, Zenon
<1>6. /\ fanout' \in [Dispatchers -> Fanout] /\ fanout'[p] = f
      /\ \A q \in Dispatchers : q # p => fanout'[q] = fanout[q]
  BY <1>1, <1>5, Zenon DEF HookTypes, FanoutTypes
<1>7. Idle.row = NoDelivery
  BY Zenon DEF Idle
<1> QED
  BY <1>1, <1>4, <1>5, <1>6, <1>7, Zenon DEF MovesOn

(* The loop of Dispatch goes on with what is left of the SELECT.             *)
LEMMA NextMovesOn ==
  ASSUME HookTypes, OfferInv, NEW p \in Dispatchers, NEW left \in SUBSET fanout[p].left,
         NextEndpoint(p, left)
  PROVE  MovesOn(p)
<1>1. fanout[p] \in Fanout /\ fanout \in [Dispatchers -> Fanout]
  BY Zenon DEF HookTypes, FanoutTypes
<1>2. CASE left = {}
  <2>1. Idle \in Fanout /\ Idle.row = NoDelivery /\ Idle.left = {}
    BY WebhookAssumption DEF Idle, Fanout, Urls, NoDelivery
  <2>2. fanout' = [fanout EXCEPT ![p] = Idle]
    BY <1>2, Zenon DEF NextEndpoint
  <2> QED
    BY <1>1, <2>1, <2>2, Zenon DEF MovesOn
<1>3. CASE left # {}
  <2>0. PICK g, f : g = fanout[p] /\ f = [g EXCEPT !.left = left, !.row = NoDelivery, !.url = 0]
    BY Zenon
  <2>1. fanout' = [fanout EXCEPT ![p] = f]
    BY <1>3, <2>0, Zenon DEF NextEndpoint
  <2>2. /\ f \in Fanout /\ f.row = NoDelivery /\ f.left = left
        /\ f.event = fanout[p].event /\ f.tenant = fanout[p].tenant
    <3>1. left \in SUBSET Listed
      BY <1>1, Zenon DEF Fanout
    <3>2. g \in Fanout /\ f = [g EXCEPT !.left = left, !.row = NoDelivery, !.url = 0]
      BY <1>1, <2>0, Zenon
    <3>3. /\ f.event = g.event /\ f.tenant = g.tenant /\ f.left = left /\ f.row = NoDelivery
          /\ f \in Fanout
      <4>1. NoDelivery \in 0 .. MaxDeliveries /\ 0 \in Urls
        BY WebhookAssumption DEF Urls, NoDelivery
      <4>2. f.event = g.event /\ f.tenant = g.tenant /\ f.left = left /\ f.row = NoDelivery
        BY <3>2, Zenon DEF Fanout
      <4>3. f \in Fanout
        BY <3>1, <3>2, <4>1, Zenon DEF Fanout
      <4> QED
        BY <4>2, <4>3, Zenon
    <3> QED
      BY <2>0, <3>3, Zenon
  <2>3. fanout[p].event \in Events /\ fanout[p].tenant \in Tenants
    BY <1>3, Zenon DEF HookTypes, FanoutTypes
  <2>4. /\ fanout' \in [Dispatchers -> Fanout] /\ fanout'[p] = f
        /\ \A q \in Dispatchers : q # p => fanout'[q] = fanout[q]
    BY <1>1, <2>1, <2>2, Zenon
  <2> QED
    BY <2>2, <2>3, <2>4, Zenon DEF MovesOn, OfferInv
<1> QED
  BY <1>2, <1>3, Zenon

(* A dispatcher that goes on without publishing has stranded its row, if it  *)
(* had one.                                                                  *)
LEMMA MovingOnKeeps ==
  ASSUME HookInv, NEW p \in Dispatchers, MovesOn(p),
         UNCHANGED <<adminVars, deliveries, hookTopic, readerVars, faults, postVars, errored>>,
         errors' \in Nat,
         stranded \subseteq stranded',
         fanout[p].row = NoDelivery \/ fanout[p].row \in stranded'
  PROVE  HookInv'
<1>0. UNCHANGED <<endpoints, updates, offered, deliveries, hookTopic, committed, position, held,
                  stage, attempt, faults, accepted, refused, errored>>
  BY Zenon DEF adminVars, readerVars, postVars
<1>1. HookTypes'
  <2>1. EndpointTypes' /\ RowTypes' /\ TopicTypes' /\ ReaderTypes' /\ PostTypes'
    BY <1>0, Zenon DEF HookInv, HookTypes, EndpointTypes, RowTypes, TopicTypes, ReaderTypes, PostTypes
  <2>2. Len(deliveries) \in Nat
    BY DEF HookInv, HookTypes, RowTypes
  <2>3. FanoutTypes'
    BY <1>0, <2>2 DEF HookInv, HookTypes, FanoutTypes, MovesOn, NoDelivery
  <2> QED
    BY <2>1, <2>3, Zenon DEF HookTypes
<1>2. OfferInv'
  BY <1>0, Zenon DEF HookInv, OfferInv, MovesOn
<1>3. PostInv' /\ ReadInv' /\ ReadOnce'
  BY <1>0, Zenon DEF HookInv, PostInv, ReadInv, ReadOnce, Processed, Unmarked
<1>4. TraceInv'
  <2>1. \A d \in 1 .. Len(deliveries) : d # NoDelivery
    BY DEF NoDelivery
  <2>2. \A d \in 1 .. Len(deliveries) : \A q \in Dispatchers :
          fanout[q].row = d => fanout'[q].row = d \/ d \in stranded'
    BY <2>1, Zenon DEF MovesOn
  <2> QED
    BY <1>0, <2>2, Zenon DEF HookInv, TraceInv
<1>5. OnceInv'
  <2>1. \A i \in 1 .. Len(hookTopic) : hookTopic[i].row # NoDelivery
    BY MessageRow DEF HookInv, NoDelivery
  <2> QED
    BY <1>0, <2>1 DEF HookInv, OnceInv, MovesOn, Unmarked
<1> QED
  BY <1>1, <1>2, <1>3, <1>4, <1>5, Zenon DEF HookInv

\* The INSERT of CreateDelivery.
Inserts(p, ep) ==
  /\ fanout[p].row = NoDelivery /\ Len(deliveries) < MaxDeliveries
  /\ deliveries' = Append(deliveries,
       [endpoint |-> ep.id, tenant |-> fanout[p].tenant, event |-> fanout[p].event,
        status |-> "pending", attempt |-> 0])
  /\ fanout' = [fanout EXCEPT ![p].row = Len(deliveries) + 1, ![p].url = ep.url,
                              ![p].left = @ \ {ep}]
  /\ UNCHANGED <<adminVars, hookTopic, readerVars, faults, errors, postVars, stranded, errored>>

(* CreateDelivery inserts a pending row for an endpoint of the SELECT; only  *)
(* its dispatcher knows of it.                                               *)
LEMMA InsertKeeps ==
  ASSUME HookInv, NEW p \in Dispatchers, NEW ep \in fanout[p].left, Inserts(p, ep)
  PROVE  HookInv'
<1>0. UNCHANGED <<endpoints, updates, offered, hookTopic, committed, position, held,
                  stage, attempt, faults, errors, accepted, refused, stranded, errored>>
  BY Zenon DEF Inserts, adminVars, readerVars, postVars
<1>1. HookTypes /\ OfferInv
  BY Zenon DEF HookInv
<1>2. PICK N : /\ N = Len(deliveries) /\ N \in Nat /\ N + 1 <= MaxDeliveries
               /\ deliveries \in Seq(Delivery)
  <2>1. Len(deliveries) < MaxDeliveries
    BY Zenon DEF Inserts
  <2>2. deliveries \in Seq(Delivery)
    BY <1>1, Zenon DEF HookTypes, RowTypes
  <2>3. Len(deliveries) \in Nat /\ Len(deliveries) + 1 <= MaxDeliveries
    BY <2>1, <2>2, WebhookAssumption
  <2> QED
    BY <2>2, <2>3, Zenon
<1>3. PICK row : row = [endpoint |-> ep.id, tenant |-> fanout[p].tenant, event |-> fanout[p].event,
                        status |-> "pending", attempt |-> 0]
  BY Zenon
<1>4. /\ fanout \in [Dispatchers -> Fanout] /\ fanout[p] \in Fanout
      /\ fanout[p].event \in Events /\ fanout[p].tenant \in Tenants
  BY <1>1, Zenon DEF HookTypes, FanoutTypes
<1>5. ep \in Listed
  BY <1>4, Zenon DEF Fanout
<1>6. /\ row \in Delivery /\ row.endpoint = ep.id /\ row.tenant = fanout[p].tenant
      /\ row.event = fanout[p].event /\ row.status = "pending"
  BY <1>3, <1>4, <1>5, Zenon DEF Delivery, Listed
<1>7. /\ deliveries' \in Seq(Delivery) /\ Len(deliveries') = N + 1 /\ deliveries'[N + 1] = row
      /\ \A d \in 1 .. N : deliveries'[d] = deliveries[d]
  <2>1. deliveries' = Append(deliveries, row)
    BY <1>3, Zenon DEF Inserts
  <2> QED
    BY <1>2, <1>6, <2>1, Appended
<1>8. /\ fanout' \in [Dispatchers -> Fanout]
      /\ fanout'[p].row = N + 1 /\ fanout'[p].url = ep.url
      /\ fanout'[p].left \subseteq fanout[p].left
      /\ fanout'[p].event = fanout[p].event /\ fanout'[p].tenant = fanout[p].tenant
      /\ \A q \in Dispatchers : q # p => fanout'[q] = fanout[q]
  <2>1. PICK g, f : g = fanout[p] /\ f = [g EXCEPT !.row = N + 1, !.url = ep.url, !.left = @ \ {ep}]
    BY Zenon
  <2>2. fanout' = [fanout EXCEPT ![p] = f]
    BY <1>2, <1>4, <2>1, Zenon DEF Inserts
  <2>3. N + 1 \in 0 .. MaxDeliveries /\ ep.url \in Urls
    BY <1>2, <1>5, WebhookAssumption DEF Listed
  <2>4. /\ f.row = N + 1 /\ f.url = ep.url /\ f.left \subseteq g.left
        /\ f.event = g.event /\ f.tenant = g.tenant
    BY <1>4, <2>1, Zenon DEF Fanout
  <2>5. f \in Fanout
    BY <1>4, <2>1, <2>3, Zenon DEF Fanout
  <2> QED
    BY <1>4, <2>1, <2>2, <2>4, <2>5, Zenon
<1>9. \A i \in 1 .. Len(hookTopic) : hookTopic[i].row \in 1 .. N
  BY <1>1, <1>2, MessageRow, Zenon
<1>10. \A q \in Dispatchers : fanout[q].row \in 0 .. N
  BY <1>1, <1>2 DEF HookTypes, FanoutTypes, Fanout
<1>11. HookTypes'
  <2>1. EndpointTypes' /\ ReaderTypes' /\ PostTypes'
    BY <1>0, <1>1, Zenon DEF HookTypes, EndpointTypes, ReaderTypes, PostTypes
  <2>2. RowTypes'
    BY <1>2, <1>7, Zenon DEF RowTypes
  <2>3. TopicTypes'
    BY <1>0, <1>1, <1>2, <1>7, <1>9 DEF HookTypes, TopicTypes
  <2>4. FanoutTypes'
    BY <1>1, <1>2, <1>4, <1>7, <1>8, <1>10 DEF HookTypes, FanoutTypes
  <2> QED
    BY <2>1, <2>2, <2>3, <2>4, Zenon DEF HookTypes
<1>12. OfferInv'
  <2>1. /\ <<ep.id, ep.url, fanout[p].event>> \in offered
        /\ BelongsTo(endpoints, ep.id, fanout[p].tenant)
    BY <1>1, Zenon DEF OfferInv
  <2>2. \A q \in Dispatchers : \A x \in fanout'[q].left :
          /\ <<x.id, x.url, fanout'[q].event>> \in offered
          /\ BelongsTo(endpoints, x.id, fanout'[q].tenant)
    BY <1>1, <1>8, Zenon DEF OfferInv
  <2>3. \A q \in Dispatchers : fanout'[q].row # NoDelivery =>
          OfferedAt(offered, deliveries'[fanout'[q].row], fanout'[q].url)
    <3> SUFFICES ASSUME NEW q \in Dispatchers, fanout'[q].row # NoDelivery
                 PROVE  OfferedAt(offered, deliveries'[fanout'[q].row], fanout'[q].url)
      BY Zenon
    <3>1. CASE q = p
      BY <1>6, <1>7, <1>8, <2>1, <3>1, Zenon DEF OfferedAt
    <3>2. CASE q # p
      <4>1. fanout[q].row \in 1 .. N
        BY <1>2, <1>8, <1>10, <3>2 DEF NoDelivery
      <4> QED
        BY <1>1, <1>7, <1>8, <3>2, <4>1 DEF OfferInv
    <3> QED
      BY <3>1, <3>2, Zenon
  <2>4. \A i \in 1 .. Len(hookTopic) :
          OfferedAt(offered, deliveries'[hookTopic[i].row], hookTopic[i].url)
    BY <1>1, <1>7, <1>9, Zenon DEF OfferInv
  <2>5. \A d \in 1 .. N + 1 : BelongsTo(endpoints, deliveries'[d].endpoint, deliveries'[d].tenant)
    <3>1. \A d \in 1 .. N + 1 : d \in 1 .. N \/ d = N + 1
      BY <1>2
    <3> QED
      BY <1>1, <1>2, <1>6, <1>7, <2>1, <3>1, Zenon DEF OfferInv
  <2> QED
    BY <1>0, <1>1, <1>7, <2>2, <2>3, <2>4, <2>5, Zenon DEF OfferInv
<1>13. \A d \in 1 .. Len(deliveries') :
         \/ d \in 1 .. N /\ deliveries'[d] = deliveries[d]
         \/ d = N + 1 /\ deliveries'[d].status = "pending"
  BY <1>2, <1>6, <1>7
<1>14. PostInv'
  BY <1>0, <1>2, <1>13, Zenon DEF HookInv, PostInv
<1>15. ReadInv'
  <2>1. \A i \in 1 .. Len(hookTopic) : Processed(i) => Processed(i)'
    BY <1>0, <1>7, <1>9, Zenon DEF Processed
  <2>2. committed \in 0 .. Len(hookTopic) /\ position \in 0 .. Len(hookTopic) /\ Len(hookTopic) \in Nat
    BY <1>1 DEF HookTypes, ReaderTypes, TopicTypes
  <2>3. stage # "fetch" => held \in 1 .. Len(hookTopic)
    BY <1>1, HeldMessage, Zenon
  <2> QED
    BY <1>0, <2>1, <2>2, <2>3 DEF HookInv, ReadInv
<1>16. TraceInv'
  <2>1. \A d \in 1 .. N : \A q \in Dispatchers : fanout[q].row = d => fanout'[q].row = d
    BY <1>8 DEF Inserts, NoDelivery
  <2> QED
    BY <1>0, <1>2, <1>8, <1>13, <2>1, ZenonT(30) DEF HookInv, TraceInv
<1>17. \A d \in 1 .. N : Unmarked(d) => Unmarked(d)'
  BY <1>7, Zenon DEF Unmarked
<1>18. OnceInv'
  <2>0. OnceInv
    BY Zenon DEF HookInv
  <2>a. /\ \A q \in Dispatchers : \A i \in 1 .. Len(hookTopic) : fanout[q].row # hookTopic[i].row
        /\ \A q, r \in Dispatchers :
             fanout[q].row = fanout[r].row /\ fanout[q].row # NoDelivery => q = r
    BY <2>0, Zenon DEF OnceInv
  <2>1. \A q \in Dispatchers : \A i \in 1 .. Len(hookTopic) : fanout'[q].row # hookTopic[i].row
    BY <1>2, <1>8, <1>9, <2>a, SMTT(30)
  <2>2. \A q, r \in Dispatchers :
          fanout'[q].row = fanout'[r].row /\ fanout'[q].row # NoDelivery => q = r
    BY <1>2, <1>8, <1>10, <2>a
  <2>3. \A q \in Dispatchers : fanout'[q].row # NoDelivery =>
          deliveries'[fanout'[q].row].status \in {"pending", "deleted"}
    <3>1. \A q \in Dispatchers : q # p /\ fanout[q].row # NoDelivery => fanout[q].row \in 1 .. N
      BY <1>2, <1>10 DEF NoDelivery
    <3> QED
      BY <1>6, <1>7, <1>8, <2>0, <3>1 DEF OnceInv, Unmarked
  <2> QED
    BY <1>0, <2>0, <2>1, <2>2, <2>3, Zenon DEF OnceInv, Unmarked
<1>19. ReadOnce'
  <2>1. stage # "fetch" => held \in 1 .. Len(hookTopic)
    BY <1>1, HeldMessage, Zenon
  <2> QED
    BY <1>0, <1>9, <1>17, <2>1, Zenon DEF HookInv, ReadOnce
<1> QED
  BY <1>11, <1>12, <1>14, <1>15, <1>16, <1>18, <1>19, Zenon DEF HookInv

\* The publish of Dispatch.
Publishes(p) ==
  /\ MovesOn(p) /\ fanout[p].row # NoDelivery
  /\ hookTopic' = Append(hookTopic, [row |-> fanout[p].row, url |-> fanout[p].url])
  /\ stranded \subseteq stranded' /\ errors' \in Nat
  /\ UNCHANGED <<adminVars, deliveries, readerVars, faults, postVars, errored>>

(* Publish appends the message of the dispatcher's row to the topic.         *)
LEMMA PublishKeeps ==
  ASSUME HookInv, NEW p \in Dispatchers, Publishes(p)
  PROVE  HookInv'
<1>0. UNCHANGED <<endpoints, updates, offered, deliveries, committed, position, held,
                  stage, attempt, faults, accepted, refused, errored>>
  BY Zenon DEF Publishes, adminVars, readerVars, postVars
<1>1. HookTypes /\ OfferInv /\ MovesOn(p) /\ fanout[p].row # NoDelivery
      /\ stranded \subseteq stranded' /\ errors' \in Nat
  BY Zenon DEF HookInv, Publishes
<1>2. PICK L, m : /\ L = Len(hookTopic) /\ L \in Nat /\ hookTopic \in Seq(WebhookMessage)
                  /\ m = [row |-> fanout[p].row, url |-> fanout[p].url]
  <2>1. hookTopic \in Seq(WebhookMessage) /\ Len(hookTopic) \in Nat
    BY <1>1 DEF HookTypes, TopicTypes
  <2> QED
    BY <2>1, Zenon
<1>3. PICK N : N = Len(deliveries) /\ N \in Nat
  BY <1>1 DEF HookTypes, RowTypes
<1>4. fanout[p] \in Fanout /\ fanout[p].row \in 1 .. N /\ fanout[p].row \in 1 .. MaxDeliveries
  BY <1>1, <1>3, WebhookAssumption DEF HookTypes, FanoutTypes, Fanout, NoDelivery
<1>5. m \in WebhookMessage /\ m.row = fanout[p].row /\ m.url = fanout[p].url
  BY <1>2, <1>4, Zenon DEF WebhookMessage, Fanout
<1>6. /\ hookTopic' \in Seq(WebhookMessage) /\ Len(hookTopic') = L + 1 /\ hookTopic'[L + 1] = m
      /\ \A i \in 1 .. L : hookTopic'[i] = hookTopic[i]
  <2>1. hookTopic' = Append(hookTopic, m)
    BY <1>2, Zenon DEF Publishes
  <2> QED
    BY <1>2, <1>5, <2>1, Appended
<1>7. \A i \in 1 .. L + 1 : i \in 1 .. L \/ i = L + 1
  BY <1>2
<1>8. \A i \in 1 .. L : hookTopic[i].row \in 1 .. N
  BY <1>1, <1>2, <1>3, MessageRow, Zenon
<1>9. stage # "fetch" => held \in 1 .. L
  BY <1>1, <1>2, HeldMessage, Zenon
<1>10. committed \in 0 .. L /\ position \in 0 .. L /\ held \in 0 .. L
  BY <1>1, <1>2, Zenon DEF HookTypes, ReaderTypes
<1>11. HookTypes'
  <2>1. EndpointTypes' /\ RowTypes' /\ PostTypes'
    BY <1>0, <1>1, Zenon DEF HookTypes, EndpointTypes, RowTypes, PostTypes
  <2>2. TopicTypes'
    BY <1>0, <1>2, <1>3, <1>4, <1>5, <1>6, <1>7, <1>8 DEF TopicTypes
  <2>3. ReaderTypes'
    BY <1>0, <1>1, <1>2, <1>6, <1>10 DEF HookTypes, ReaderTypes
  <2>4. FanoutTypes'
    BY <1>0, <1>1, <1>3 DEF HookTypes, FanoutTypes, MovesOn, NoDelivery
  <2> QED
    BY <2>1, <2>2, <2>3, <2>4, Zenon DEF HookTypes
<1>12. OfferInv'
  <2>1. \A i \in 1 .. L + 1 :
          OfferedAt(offered, deliveries[hookTopic'[i].row], hookTopic'[i].url)
    BY <1>1, <1>2, <1>5, <1>6, <1>7, ZenonT(30) DEF OfferInv
  <2>2. \A q \in Dispatchers : fanout'[q].row # NoDelivery => fanout'[q] = fanout[q]
    BY <1>1, Zenon DEF MovesOn
  <2>3. \A q \in Dispatchers : \A ep \in fanout'[q].left :
          /\ <<ep.id, ep.url, fanout'[q].event>> \in offered
          /\ BelongsTo(endpoints, ep.id, fanout'[q].tenant)
    BY <1>1, Zenon DEF MovesOn, OfferInv
  <2> QED
    BY <1>0, <1>1, <1>6, <2>1, <2>2, <2>3, Zenon DEF OfferInv
<1>13. PostInv'
  BY <1>0, <1>6, <1>9, Zenon DEF HookInv, PostInv
<1>14. ReadInv'
  <2>1. \A i \in 1 .. L : Processed(i) => Processed(i)'
    BY <1>0, <1>6, Zenon DEF Processed
  <2>2. \A i \in 1 .. L + 1 : i < held => i \in 1 .. L
    BY <1>2, <1>7, <1>10
  <2> QED
    BY <1>0, <1>2, <1>6, <1>9, <1>10, <2>1, <2>2 DEF HookInv, ReadInv
<1>15. TraceInv'
  <2>1. \A q \in Dispatchers, d \in 1 .. N : fanout[q].row = d => fanout'[q].row = d \/ d = m.row
    BY <1>1, <1>5, Zenon DEF MovesOn
  <2>2. L + 1 \in 1 .. L + 1 /\ 1 .. L \subseteq 1 .. L + 1
    BY <1>2
  <2>3. hookTopic'[L + 1].row = m.row
    BY <1>6, Zenon
  <2>4. TraceInv /\ stranded \subseteq stranded'
    BY <1>1, Zenon DEF HookInv
  <2> SUFFICES ASSUME NEW d \in 1 .. N, deliveries[d].status = "pending"
               PROVE  \/ d \in stranded'
                      \/ \E q \in Dispatchers : fanout'[q].row = d
                      \/ \E i \in 1 .. L + 1 : hookTopic'[i].row = d
    BY <1>0, <1>3, <1>6, Zenon DEF TraceInv
  <2>5. \/ d \in stranded
        \/ \E q \in Dispatchers : fanout[q].row = d
        \/ \E i \in 1 .. L : hookTopic[i].row = d
    BY <1>2, <1>3, <2>4, Zenon DEF TraceInv
  <2>6. CASE \E i \in 1 .. L : hookTopic[i].row = d
    BY <1>6, <2>2, <2>6, Zenon
  <2>7. CASE \E q \in Dispatchers : fanout[q].row = d
    BY <2>1, <2>2, <2>3, <2>7, Zenon
  <2> QED
    BY <2>4, <2>5, <2>6, <2>7, Zenon
<1>16. OnceInv'
  <2>0. OnceInv /\ \A q \in Dispatchers : fanout'[q].row # NoDelivery => q # p /\ fanout'[q] = fanout[q]
    BY <1>1, Zenon DEF HookInv, MovesOn
  <2>a. /\ \A i, j \in 1 .. L : hookTopic[i].row = hookTopic[j].row => i = j
        /\ \A i \in 1 .. L : \A q \in Dispatchers : fanout[q].row # hookTopic[i].row
        /\ \A q, r \in Dispatchers :
             fanout[q].row = fanout[r].row /\ fanout[q].row # NoDelivery => q = r
        /\ \A q \in Dispatchers : fanout[q].row # NoDelivery => Unmarked(fanout[q].row)
    BY <1>2, <2>0, Zenon DEF OnceInv
  <2>b. \A i \in 1 .. L : hookTopic'[i].row # hookTopic'[L + 1].row
    BY <1>5, <1>6, <2>a
  <2>1. \A i, j \in 1 .. L + 1 : hookTopic'[i].row = hookTopic'[j].row => i = j
    BY <1>6, <1>7, <2>a, <2>b, Zenon
  <2>2. \A q \in Dispatchers : \A i \in 1 .. L + 1 : fanout'[q].row # hookTopic'[i].row
    <3>1. \A i \in 1 .. L + 1 : hookTopic'[i].row # NoDelivery
      BY <1>4, <1>5, <1>6, <1>7, <1>8 DEF NoDelivery
    <3>2. ASSUME NEW q \in Dispatchers, fanout'[q].row # NoDelivery, NEW i \in 1 .. L + 1
          PROVE  fanout'[q].row # hookTopic'[i].row
      <4>1. q # p /\ fanout'[q] = fanout[q]
        BY <2>0, <3>2, Zenon
      <4>2. fanout[q].row # fanout[p].row
        BY <2>a, <3>2, <4>1, Zenon
      <4> QED
        BY <1>5, <1>6, <1>7, <2>a, <4>1, <4>2
    <3> QED
      BY <3>1, <3>2, Zenon
  <2>3. \A q, r \in Dispatchers :
          fanout'[q].row = fanout'[r].row /\ fanout'[q].row # NoDelivery => q = r
    BY <2>0, <2>a
  <2>4. \A q \in Dispatchers : fanout'[q].row # NoDelivery => Unmarked(fanout'[q].row)
    BY <2>0, <2>a, Zenon
  <2>5. \A d : Unmarked(d) => deliveries'[d].status \in {"pending", "deleted"}
    BY <1>0, Zenon DEF Unmarked
  <2> QED
    BY <1>6, <2>1, <2>2, <2>3, <2>4, <2>5 DEF OnceInv, Unmarked
<1>17. ReadOnce'
  <2>1. \A i \in 1 .. L + 1 : i > position => i = L + 1 \/ i \in 1 .. L
    BY <1>7, Zenon
  <2>2. deliveries[m.row].status \in {"pending", "deleted"}
    BY <1>1, <1>5, Zenon DEF HookInv, OnceInv, Unmarked
  <2> QED
    BY <1>0, <1>2, <1>6, <1>9, <2>1, <2>2, Zenon DEF HookInv, ReadOnce, Unmarked
<1> QED
  BY <1>11, <1>12, <1>13, <1>14, <1>15, <1>16, <1>17, Zenon DEF HookInv

(* A call of Postgres or Kafka that fails is counted.                        *)
LEMMA FailureCounts ==
  ASSUME HookTypes, NEW reason, MayFail(reason)
  PROVE  errors' \in Nat
  BY DEF MayFail, HookTypes, PostTypes

(* The steps of Dispatch.                                                    *)
LEMMA DispatchKeeps ==
  ASSUME HookInv, NEW p \in Dispatchers,
         HookDispatch(p) \/ \E t \in Tenants, ev \in Events : DispatchList(p, t, ev)
  PROVE  HookInv'
<1>0. HookTypes /\ OfferInv /\ errors \in Nat
  BY Zenon DEF HookInv, HookTypes, PostTypes
<1>1. ASSUME NEW t \in Tenants, NEW ev \in Events, DispatchList(p, t, ev)
      PROVE  HookInv'
  <2>1. MovesOn(p) /\ fanout[p].row = NoDelivery
    BY <1>0, <1>1, ListMovesOn, Zenon
  <2>2. /\ UNCHANGED <<adminVars, deliveries, hookTopic, readerVars, faults, postVars, errored>>
        /\ errors' \in Nat /\ stranded \subseteq stranded'
    BY <1>0, <1>1, Zenon DEF DispatchList
  <2> QED
    BY <2>1, <2>2, MovingOnKeeps, Zenon
<1>2. ASSUME NEW ep \in fanout[p].left, CreateDelivery(p, ep)
      PROVE  HookInv'
  <2>1. CASE Inserts(p, ep)
    BY <2>1, InsertKeeps, Zenon
  <2>2. CASE ~Inserts(p, ep)
    <3>1. /\ fanout[p].row = NoDelivery /\ MayFail(endpoints[ep.id] = Gone)
          /\ NextEndpoint(p, fanout[p].left \ {ep}) /\ UNCHANGED deliveries
          /\ UNCHANGED <<adminVars, hookTopic, readerVars, faults, postVars, stranded, errored>>
      BY <1>2, <2>2, Zenon DEF CreateDelivery, Inserts
    <3>2. MovesOn(p)
      BY <1>0, <3>1, NextMovesOn, Zenon
    <3>3. errors' \in Nat
      BY <1>0, <3>1, FailureCounts, Zenon
    <3> QED
      BY <3>1, <3>2, <3>3, MovingOnKeeps, Zenon
  <2> QED
    BY <2>1, <2>2, Zenon
<1>3. CASE PublishDelivery(p)
  <2> DEFINE m == [row |-> fanout[p].row, url |-> fanout[p].url]
  <2>1. /\ fanout[p].row # NoDelivery /\ NextEndpoint(p, fanout[p].left)
        /\ UNCHANGED <<adminVars, deliveries, readerVars, faults, postVars, errored>>
        /\ \/ hookTopic' = Append(hookTopic, m) /\ UNCHANGED <<stranded, errors>>
           \/ /\ MayFail(FALSE) /\ hookTopic' \in {hookTopic, Append(hookTopic, m)}
              /\ stranded' = stranded \cup {fanout[p].row}
    BY <1>3, Zenon DEF PublishDelivery
  <2>2. MovesOn(p)
    BY <1>0, <2>1, NextMovesOn, Zenon
  <2>3. errors' \in Nat
    BY <1>0, <2>1, FailureCounts, Zenon
  <2>4. CASE hookTopic' = Append(hookTopic, m)
    <3>1. Publishes(p)
      BY <2>1, <2>2, <2>3, <2>4, Zenon DEF Publishes
    <3> QED
      BY <3>1, PublishKeeps, Zenon
  <2>5. CASE UNCHANGED hookTopic /\ stranded' = stranded \cup {fanout[p].row}
    <3>1. fanout[p].row \in stranded' /\ stranded \subseteq stranded'
      BY <2>5, Zenon
    <3> QED
      BY <2>1, <2>2, <2>3, <2>5, <3>1, MovingOnKeeps, Zenon
  <2> QED
    BY <2>1, <2>4, <2>5, Zenon
<1> QED
  BY <1>1, <1>2, <1>3, Zenon DEF HookDispatch

-----------------------------------------------------------------------------
(* The webhook worker. *)

(* Fetch hands out the next message; on the way nothing is lost.             *)
LEMMA FetchKeeps ==
  ASSUME HookInv, HookFetch
  PROVE  HookInv'
<1>0. /\ UNCHANGED <<endpoints, updates, offered, deliveries, fanout, hookTopic, committed, faults,
                     errors, accepted, refused, stranded, errored>>
      /\ stage = "fetch" /\ stage' = "send" /\ attempt' = 1
      /\ position < Len(hookTopic) /\ position' = position + 1 /\ held' = position + 1
  BY Zenon DEF HookFetch, adminVars, postVars
<1>1. HookTypes
  BY Zenon DEF HookInv
<1>2. PICK L : L = Len(hookTopic) /\ L \in Nat
  <2>1. Len(hookTopic) \in Nat
    BY <1>1 DEF HookTypes, TopicTypes
  <2> QED
    BY <2>1, Zenon
<1>3. position \in 0 .. L /\ committed \in 0 .. L /\ held = NoMessage
  BY <1>0, <1>1, <1>2, Zenon DEF HookTypes, ReaderTypes
<1>4. position + 1 \in 1 .. L /\ held' = position + 1
  BY <1>0, <1>2, <1>3
<1>5. HookTypes'
  <2>1. EndpointTypes' /\ RowTypes' /\ FanoutTypes' /\ TopicTypes' /\ PostTypes'
    BY <1>0, <1>1, Zenon DEF HookTypes, EndpointTypes, RowTypes, FanoutTypes, TopicTypes, PostTypes
  <2>2. ReaderTypes'
    BY <1>0, <1>2, <1>3, <1>4 DEF ReaderTypes, NoMessage
  <2> QED
    BY <2>1, <2>2, Zenon DEF HookTypes
<1>6. OfferInv' /\ TraceInv' /\ OnceInv'
  BY <1>0, RowsStay, Zenon
<1>7. PostInv'
  <2>1. refused[hookTopic[position + 1].row] \in Nat
    BY <1>1, <1>2, <1>4, MessageRow, Zenon DEF HookTypes, PostTypes
  <2>2. 1 <= refused[hookTopic[position + 1].row] + 1
    BY <2>1
  <2> QED
    BY <1>0, <2>2, Zenon DEF HookInv, PostInv
<1>8. ReadInv'
  <2>1. \A i \in 1 .. L : Processed(i)' <=> Processed(i)
    BY <1>0, Zenon DEF Processed
  <2>2. \A i \in 1 .. position : Processed(i)
    BY <1>3 DEF HookInv, ReadInv, NoMessage
  <2>3. \A i \in 1 .. L : i < position + 1 => i \in 1 .. position
    BY <1>2, <1>3
  <2>4. \A i \in 1 .. position + 1 : i = position + 1 \/ i \in 1 .. position
    BY <1>3
  <2>5. \A i \in 1 .. committed : i \in 1 .. L
    BY <1>2, <1>3
  <2>6. \A i \in 1 .. position : i \in 1 .. L
    BY <1>2, <1>3
  <2>7. ReadInv
    BY Zenon DEF HookInv
  <2> QED
    BY <1>0, <1>2, <2>1, <2>2, <2>3, <2>4, <2>5, <2>6, <2>7, Zenon DEF ReadInv
<1>9. ReadOnce'
  <2>1. \A i \in 1 .. L : i > position + 1 => i > position
    BY <1>2, <1>3
  <2>2. position + 1 > position
    BY <1>3
  <2> QED
    BY <1>0, <1>2, <1>4, <2>1, <2>2, Zenon DEF HookInv, ReadOnce, Unmarked
<1> QED
  BY <1>5, <1>6, <1>7, <1>8, <1>9, Zenon DEF HookInv

(* One post of process: the counters of posts only grow, and the loop ends   *)
(* with the outcome the endpoint gave it.                                    *)
LEMMA SendKeeps ==
  ASSUME HookInv, HookSend
  PROVE  HookInv'
<1> DEFINE d == hookTopic[held].row
<1>0. /\ UNCHANGED <<endpoints, updates, offered, deliveries, fanout, hookTopic, committed,
                     position, held, faults, errors, stranded, errored>>
      /\ stage = "send"
      /\ \/ /\ accepted' = accepted \cup {d} /\ stage' = "delivered"
            /\ UNCHANGED <<attempt, refused>>
         \/ /\ refused' = [refused EXCEPT ![d] = @ + 1] /\ UNCHANGED accepted
            /\ \/ attempt >= MaxAttempts /\ stage' = "failed" /\ UNCHANGED attempt
               \/ attempt < MaxAttempts /\ attempt' = attempt + 1 /\ UNCHANGED stage
  BY Zenon DEF HookSend, adminVars
<1>1. HookTypes
  BY Zenon DEF HookInv
<1>2. held \in 1 .. Len(hookTopic) /\ held # NoMessage
  BY <1>0, <1>1, HeldMessage, Zenon
<1>3. d \in Rows
  BY <1>1, <1>2, MessageRow, Zenon
<1>4. /\ refused \in [Rows -> Nat] /\ attempt \in Nat /\ MaxAttempts \in Nat
      /\ Len(deliveries) \in Nat /\ \A x \in 1 .. Len(deliveries) : x \in Rows
  BY <1>1, WebhookAssumption DEF HookTypes, PostTypes, ReaderTypes, RowTypes, Rows
<1> HIDE DEF d
<1>5. /\ refused' \in [Rows -> Nat] /\ \A x \in Rows : refused[x] <= refused'[x]
      /\ accepted \subseteq accepted'
      /\ attempt' \in Nat /\ stage' \in {"send", "delivered", "failed"}
  BY <1>0, <1>3, <1>4
<1>6. HookTypes'
  <2>1. EndpointTypes' /\ RowTypes' /\ FanoutTypes' /\ TopicTypes' /\ PostTypes'
    BY <1>0, <1>1, <1>5, Zenon
    DEF HookTypes, EndpointTypes, RowTypes, FanoutTypes, TopicTypes, PostTypes
  <2>2. ReaderTypes'
    BY <1>0, <1>1, <1>2, <1>5, Zenon DEF HookTypes, ReaderTypes
  <2> QED
    BY <2>1, <2>2, Zenon DEF HookTypes
<1>7. OfferInv' /\ TraceInv' /\ OnceInv'
  BY <1>0, RowsStay, Zenon
<1>8. PostInv'
  <2>0. PostInv /\ attempt <= refused[d] + 1 /\ refused[d] \in Nat
    BY <1>0, <1>3, <1>4, Zenon DEF HookInv, PostInv, d
  <2>1. \A x \in 1 .. Len(deliveries) :
          /\ deliveries[x].status = "delivered" =>
               x \in accepted' /\ deliveries[x].attempt <= refused'[x] + 1
          /\ deliveries[x].status = "failed" => refused'[x] >= MaxAttempts
    <3> SUFFICES ASSUME NEW x \in 1 .. Len(deliveries)
                 PROVE  /\ deliveries[x].status = "delivered" =>
                             x \in accepted' /\ deliveries[x].attempt <= refused'[x] + 1
                        /\ deliveries[x].status = "failed" => refused'[x] >= MaxAttempts
      BY Zenon
    <3>1. refused[x] \in Nat /\ refused'[x] \in Nat /\ refused[x] <= refused'[x]
      BY <1>4, <1>5, Zenon
    <3>2. deliveries[x].attempt \in Nat
      <4>1. deliveries[x] \in Delivery
        BY <1>1 DEF HookTypes, RowTypes
      <4> QED
        BY <4>1, Zenon DEF Delivery
    <3> QED
      BY <1>4, <1>5, <2>0, <3>1, <3>2 DEF PostInv
  <2>2. /\ stage' \in {"send", "delivered"} => attempt' <= refused'[d] + 1
        /\ stage' = "delivered" => d \in accepted'
        /\ stage' = "failed" => refused'[d] >= MaxAttempts
    BY <1>0, <1>3, <1>4, <2>0
  <2> QED
    BY <1>0, <2>1, <2>2, Zenon DEF PostInv, d
<1>9. ReadInv'
  BY <1>0, <1>5, Zenon DEF HookInv, ReadInv, Processed
<1>10. ReadOnce'
  BY <1>0, <1>5, Zenon DEF HookInv, ReadOnce, Unmarked
<1> QED
  BY <1>6, <1>7, <1>8, <1>9, <1>10, Zenon DEF HookInv

(* markDelivered and markFailed write the outcome and the attempts to one    *)
(* row.                                                                      *)
LEMMA UpdatedRow ==
  ASSUME HookTypes, NEW d \in 1 .. Len(deliveries), NEW s \in {"delivered", "failed"},
         NEW a \in Nat, UpdateDelivery(d, s, a)
  PROVE  /\ RowTypes' /\ Len(deliveries') = Len(deliveries) /\ Len(deliveries) \in Nat
         /\ deliveries'[d].status = s /\ deliveries'[d].attempt = a
         /\ \A x \in 1 .. Len(deliveries) :
              /\ x # d => deliveries'[x] = deliveries[x]
              /\ deliveries'[x].endpoint = deliveries[x].endpoint
              /\ deliveries'[x].tenant = deliveries[x].tenant
              /\ deliveries'[x].event = deliveries[x].event
<1>1. PICK old, new : old = deliveries[d] /\ new = [old EXCEPT !.status = s, !.attempt = a]
  BY Zenon
<1>2. deliveries \in Seq(Delivery) /\ Len(deliveries) <= MaxDeliveries /\ Len(deliveries) \in Nat
  BY DEF HookTypes, RowTypes
<1>3. old \in Delivery
  BY <1>1, <1>2
<1>4. /\ new.status = s /\ new.attempt = a /\ new.endpoint = old.endpoint
      /\ new.tenant = old.tenant /\ new.event = old.event
  BY <1>1, <1>3, Zenon DEF Delivery
<1>5. new \in Delivery
  BY <1>1, <1>3, Zenon DEF Delivery
<1>6. deliveries' = [deliveries EXCEPT ![d] = new]
  BY <1>1, <1>2, Zenon DEF UpdateDelivery
<1>7. /\ deliveries' \in Seq(Delivery) /\ Len(deliveries') = Len(deliveries)
      /\ deliveries'[d] = new
      /\ \A x \in 1 .. Len(deliveries) : x # d => deliveries'[x] = deliveries[x]
  BY <1>2, <1>5, <1>6, Replaced
<1> QED
  BY <1>1, <1>2, <1>4, <1>7, Zenon DEF RowTypes

(* markDelivered and markFailed: the row says what the posts said.           *)
LEMMA MarkKeeps ==
  ASSUME HookInv, stage \in {"delivered", "failed"},
         UpdateDelivery(hookTopic[held].row, stage, IF stage = "failed" THEN MaxAttempts ELSE attempt),
         stage' = "commit", attempt' = 1,
         UNCHANGED <<adminVars, fanout, hookTopic, committed, position, held, faults, errors,
                     postVars, stranded, errored>>
  PROVE  HookInv'
<1>0. UNCHANGED <<endpoints, updates, offered, fanout, hookTopic, committed, position, held, faults,
                  errors, accepted, refused, stranded, errored>>
  BY Zenon DEF adminVars, postVars
<1>1. HookTypes /\ PostInv
  BY Zenon DEF HookInv
<1>2. PICK L : L = Len(hookTopic) /\ L \in Nat
  <2>1. Len(hookTopic) \in Nat
    BY <1>1 DEF HookTypes, TopicTypes
  <2> QED
    BY <2>1, Zenon
<1>3. held \in 1 .. L /\ held # NoMessage
  BY <1>1, <1>2, HeldMessage, Zenon
<1>4. PICK d, a : d = hookTopic[held].row /\ a = IF stage = "failed" THEN MaxAttempts ELSE attempt
  BY Zenon
<1>5. PICK N : N = Len(deliveries) /\ N \in Nat
  <2>1. Len(deliveries) \in Nat
    BY <1>1 DEF HookTypes, RowTypes
  <2> QED
    BY <2>1, Zenon
<1>6. d \in 1 .. N /\ a \in Nat
  BY <1>1, <1>2, <1>3, <1>4, <1>5, MessageRow, WebhookAssumption, Zenon DEF HookTypes, ReaderTypes
<1>7. /\ RowTypes' /\ Len(deliveries') = N
      /\ deliveries'[d].status = stage /\ deliveries'[d].attempt = a
      /\ \A x \in 1 .. N :
           /\ x # d => deliveries'[x] = deliveries[x]
           /\ deliveries'[x].endpoint = deliveries[x].endpoint
           /\ deliveries'[x].tenant = deliveries[x].tenant
           /\ deliveries'[x].event = deliveries[x].event
  BY <1>1, <1>4, <1>5, <1>6, UpdatedRow
<1>8. \A i \in 1 .. L : hookTopic[i].row \in 1 .. N
  BY <1>1, <1>2, <1>5, MessageRow, Zenon
<1>9. \A p \in Dispatchers : fanout[p].row # NoDelivery => fanout[p].row \in 1 .. N
  BY <1>1, <1>5 DEF HookTypes, FanoutTypes, Fanout, NoDelivery
<1>10. HookTypes'
  <2>1. EndpointTypes' /\ PostTypes'
    BY <1>0, <1>1, Zenon DEF HookTypes, EndpointTypes, PostTypes
  <2>2. FanoutTypes' /\ TopicTypes'
    BY <1>0, <1>1, <1>5, <1>7, Zenon DEF HookTypes, FanoutTypes, TopicTypes
  <2>3. ReaderTypes'
    BY <1>0, <1>1, <1>3, Zenon DEF HookTypes, ReaderTypes
  <2> QED
    BY <1>7, <2>1, <2>2, <2>3, Zenon DEF HookTypes
<1>11. OfferInv'
  <2>1. OfferInv
    BY Zenon DEF HookInv
  <2>2. \A p \in Dispatchers : fanout[p].row # NoDelivery =>
          OfferedAt(offered, deliveries'[fanout[p].row], fanout[p].url)
    BY <1>7, <1>9, <2>1, ZenonT(30) DEF OfferInv, OfferedAt
  <2>3. \A i \in 1 .. L : OfferedAt(offered, deliveries'[hookTopic[i].row], hookTopic[i].url)
    BY <1>2, <1>7, <1>8, <2>1, Zenon DEF OfferInv, OfferedAt
  <2>4. \A x \in 1 .. N : BelongsTo(endpoints, deliveries'[x].endpoint, deliveries'[x].tenant)
    BY <1>5, <1>7, <2>1, Zenon DEF OfferInv
  <2> QED
    BY <1>0, <1>2, <1>7, <2>1, <2>2, <2>3, <2>4, ZenonT(30) DEF OfferInv
<1>12. PostInv'
  <2>1. stage = "delivered" => d \in accepted /\ a <= refused[d] + 1
    BY <1>1, <1>4, Zenon DEF PostInv
  <2>2. stage = "failed" => refused[d] >= MaxAttempts
    BY <1>1, <1>4, Zenon DEF PostInv
  <2>3. \A x \in 1 .. N :
          /\ deliveries'[x].status = "delivered" =>
               x \in accepted /\ deliveries'[x].attempt <= refused[x] + 1
          /\ deliveries'[x].status = "failed" => refused[x] >= MaxAttempts
    BY <1>1, <1>5, <1>7, <2>1, <2>2, Zenon DEF PostInv
  <2> QED
    BY <1>0, <1>7, <2>3, Zenon DEF PostInv
<1>13. ReadInv'
  <2>1. \A x \in 1 .. N : deliveries'[x].status = "pending" => deliveries[x].status = "pending"
    BY <1>7, Zenon
  <2>2. \A i \in 1 .. L : Processed(i) => Processed(i)'
    BY <1>0, <1>8, <2>1, Zenon DEF Processed
  <2>3. Processed(held)'
    BY <1>0, <1>4, <1>7, Zenon DEF Processed
  <2>4. committed \in 0 .. L /\ position \in 0 .. L
    BY <1>1, <1>2, Zenon DEF HookTypes, ReaderTypes
  <2> QED
    BY <1>0, <1>2, <2>2, <2>3, <2>4 DEF HookInv, ReadInv
<1>14. TraceInv'
  <2>1. \A x \in 1 .. N : deliveries'[x].status = "pending" => deliveries[x].status = "pending"
    BY <1>7, Zenon
  <2>2. TraceInv
    BY Zenon DEF HookInv
  <2> QED
    BY <1>0, <1>5, <1>7, <2>1, <2>2 DEF TraceInv
<1>15. OnceInv'
  <2>0. OnceInv
    BY Zenon DEF HookInv
  <2>a. /\ \A p \in Dispatchers : fanout[p].row # hookTopic[held].row
        /\ \A p \in Dispatchers : fanout[p].row # NoDelivery => Unmarked(fanout[p].row)
    BY <1>2, <1>3, <2>0, Zenon DEF OnceInv
  <2>1. \A p \in Dispatchers : fanout[p].row # NoDelivery => fanout[p].row # d
    BY <1>4, <2>a, Zenon
  <2>2. \A p \in Dispatchers : fanout[p].row # NoDelivery => Unmarked(fanout[p].row)'
    BY <1>0, <1>7, <1>9, <2>1, <2>a DEF Unmarked
  <2> QED
    BY <1>0, <2>0, <2>2, Zenon DEF OnceInv
<1>16. ReadOnce'
  <2>1. faults = 0 => held = position
    BY Zenon DEF HookInv, ReadOnce
  <2>a. \A i, j \in 1 .. L : hookTopic[i].row = hookTopic[j].row => i = j
    BY <1>2, Zenon DEF HookInv, OnceInv
  <2>2. \A i \in 1 .. L : i > held => hookTopic[i].row # d
    BY <1>2, <1>3, <1>4, <2>a
  <2>b. faults = 0 => \A i \in 1 .. L : i > position => Unmarked(hookTopic[i].row)
    BY <1>2, Zenon DEF HookInv, ReadOnce
  <2>3. faults = 0 => \A i \in 1 .. L : i > position => Unmarked(hookTopic[i].row)'
    BY <1>0, <1>7, <1>8, <2>1, <2>2, <2>b DEF Unmarked
  <2> QED
    BY <1>0, <1>2, <2>1, <2>3, Zenon DEF ReadOnce
<1> QED
  BY <1>10, <1>11, <1>12, <1>13, <1>14, <1>15, <1>16, Zenon DEF HookInv

(* The worker lets go of its message: process returned an error and the      *)
(* message is errored, or the message was processed and the offset moved     *)
(* there or stayed.                                                          *)
LEMMA ReleaseKeeps ==
  ASSUME HookInv, stage # "fetch", stage' = "fetch", held' = NoMessage, attempt' \in Nat,
         errors' \in Nat, errored \subseteq errored',
         \/ committed' = committed /\ held \in errored'
         \/ committed' \in {committed, held} /\ stage = "commit",
         UNCHANGED <<adminVars, deliveries, fanout, hookTopic, position, faults, postVars, stranded>>
  PROVE  HookInv'
<1>0. UNCHANGED <<endpoints, updates, offered, deliveries, fanout, hookTopic, position, faults,
                  accepted, refused, stranded>>
  BY Zenon DEF adminVars, postVars
<1>1. HookTypes
  BY Zenon DEF HookInv
<1>2. PICK L : L = Len(hookTopic) /\ L \in Nat
  <2>1. Len(hookTopic) \in Nat
    BY <1>1 DEF HookTypes, TopicTypes
  <2> QED
    BY <2>1, Zenon
<1>3. held \in 1 .. L /\ committed \in 0 .. L /\ position \in 0 .. L
  BY <1>1, <1>2, HeldMessage, Zenon DEF HookTypes, ReaderTypes
<1>4. HookTypes'
  <2>1. EndpointTypes' /\ RowTypes' /\ FanoutTypes' /\ TopicTypes' /\ PostTypes'
    BY <1>0, <1>1, Zenon DEF HookTypes, EndpointTypes, RowTypes, FanoutTypes, TopicTypes, PostTypes
  <2>2. ReaderTypes'
    BY <1>0, <1>2, <1>3 DEF ReaderTypes, NoMessage
  <2> QED
    BY <2>1, <2>2, Zenon DEF HookTypes
<1>5. OfferInv' /\ TraceInv' /\ OnceInv'
  BY <1>0, RowsStay, Zenon
<1>6. PostInv'
  BY <1>0, Zenon DEF HookInv, PostInv
<1>7. ReadInv'
  <2>0. ReadInv
    BY Zenon DEF HookInv
  <2>1. \A i \in 1 .. L : Processed(i) => Processed(i)'
    BY <1>0, Zenon DEF Processed
  <2>2. PICK h : h = held
    BY Zenon
  <2>3. Processed(h)'
    <3>1. Processed(h) \/ h \in errored'
      BY <2>0, <2>2, Zenon DEF ReadInv
    <3> QED
      BY <1>0, <1>3, <2>1, <2>2, <3>1, Zenon DEF Processed
  <2>4. \A i \in 1 .. committed' : Processed(i)'
    <3>1. \A i \in 1 .. held : i \in 1 .. L /\ (i < held \/ i = h)
      BY <1>2, <1>3, <2>2
    <3>2. \A i \in 1 .. committed : i \in 1 .. L
      BY <1>2, <1>3
    <3> QED
      BY <1>0, <1>2, <2>0, <2>1, <2>3, <3>1, <3>2, Zenon DEF ReadInv
  <2>5. \A i \in 1 .. position : Processed(i)'
    <3>1. \A i \in 1 .. position : i \in 1 .. L /\ (i = h \/ i # held)
      BY <1>2, <1>3, <2>2
    <3> QED
      BY <2>0, <2>1, <2>3, <3>1, Zenon DEF ReadInv
  <2>6. \A i \in 1 .. L : ~(i < NoMessage)
    BY DEF NoMessage
  <2> QED
    BY <1>0, <1>2, <2>4, <2>5, <2>6, Zenon DEF ReadInv
<1>8. ReadOnce'
  BY <1>0, Zenon DEF HookInv, ReadOnce, Unmarked
<1> QED
  BY <1>4, <1>5, <1>6, <1>7, <1>8, Zenon DEF HookInv

(* The worker's steps.                                                       *)
LEMMA WorkerKeeps ==
  ASSUME HookInv, HookWorker
  PROVE  HookInv'
<1>0. HookTypes /\ errors \in Nat /\ attempt \in Nat
  BY Zenon DEF HookInv, HookTypes, PostTypes, ReaderTypes
<1>1. CASE HookFetch
  BY <1>1, FetchKeeps, Zenon
<1>2. CASE HookSend
  BY <1>2, SendKeeps, Zenon
<1>3. CASE HookMark
  <2>0. /\ stage \in {"delivered", "failed"} /\ attempt' = 1
        /\ UNCHANGED <<adminVars, fanout, hookTopic, committed, position, faults, postVars, stranded>>
    BY <1>3, Zenon DEF HookMark
  <2>1. CASE /\ UpdateDelivery(hookTopic[held].row, stage,
                               IF stage = "failed" THEN MaxAttempts ELSE attempt)
             /\ stage' = "commit" /\ UNCHANGED <<held, errors, errored>>
    BY <2>0, <2>1, MarkKeeps, Zenon
  <2>2. CASE /\ MayFail(deliveries[hookTopic[held].row].status = "deleted")
             /\ stage' = "fetch" /\ held' = NoMessage
             /\ errored' = errored \cup {held} /\ UNCHANGED deliveries
    <3>1. errors' \in Nat
      BY <1>0, <2>2, FailureCounts, Zenon
    <3>2. stage # "fetch" /\ held \in errored' /\ errored \subseteq errored' /\ attempt' \in Nat
      BY <2>0, <2>2, Zenon
    <3> QED
      BY <2>0, <2>2, <3>1, <3>2, ReleaseKeeps, Zenon
  <2> QED
    BY <1>3, <2>1, <2>2, Zenon DEF HookMark
<1>4. CASE HookCommit
  <2>0. /\ stage = "commit" /\ stage' = "fetch" /\ held' = NoMessage
        /\ \/ committed' = held /\ UNCHANGED errors
           \/ MayFail(FALSE) /\ UNCHANGED committed
        /\ UNCHANGED <<adminVars, deliveries, fanout, hookTopic, position, attempt, faults,
                       postVars, stranded, errored>>
    BY <1>4, Zenon DEF HookCommit
  <2>1. errors' \in Nat
    BY <1>0, <2>0, FailureCounts, Zenon
  <2>2. /\ stage # "fetch" /\ attempt' \in Nat /\ errored \subseteq errored'
        /\ committed' \in {committed, held}
    BY <1>0, <2>0, Zenon
  <2> QED
    BY <2>0, <2>1, <2>2, ReleaseKeeps, Zenon
<1> QED
  BY <1>1, <1>2, <1>3, <1>4, Zenon DEF HookWorker

(* A crash or a rebalance: the reader goes back to the offset, and what the  *)
(* dispatchers had not published is stranded.                                *)
LEMMA FaultKeeps ==
  ASSUME HookInv, HookCrash \/ HookRebalance
  PROVE  HookInv'
<1>0. /\ UNCHANGED <<endpoints, updates, offered, deliveries, hookTopic, committed, errors,
                     accepted, refused, errored>>
      /\ position' = committed /\ faults' = faults + 1
  BY Zenon DEF HookCrash, HookRebalance, adminVars, postVars
<1>1. HookTypes
  BY Zenon DEF HookInv
<1>2. /\ committed \in 0 .. Len(hookTopic) /\ faults \in Nat
      /\ Len(deliveries) \in Nat /\ Len(hookTopic) \in Nat
  BY <1>1 DEF HookTypes, ReaderTypes, PostTypes, RowTypes, TopicTypes
<1>3. \/ UNCHANGED <<fanout, stranded, held, stage, attempt>>
      \/ /\ fanout' = [p \in Dispatchers |-> Idle]
         /\ stranded' = stranded \cup ({fanout[p].row : p \in Dispatchers} \ {NoDelivery})
         /\ held' = NoMessage /\ stage' = "fetch" /\ attempt' = 1
  BY Zenon DEF HookCrash, HookRebalance
<1>4. Idle \in Fanout /\ Idle.row = NoDelivery /\ Idle.left = {}
  BY WebhookAssumption DEF Idle, Fanout, Urls, NoDelivery
<1>5. /\ fanout' \in [Dispatchers -> Fanout]
      /\ \A p \in Dispatchers :
           \/ fanout'[p] = fanout[p]
           \/ fanout'[p].row = NoDelivery /\ fanout'[p].left = {}
  BY <1>1, <1>3, <1>4 DEF HookTypes, FanoutTypes
<1>6. HookTypes'
  <2>1. EndpointTypes' /\ RowTypes' /\ TopicTypes' /\ PostTypes'
    BY <1>0, <1>1, <1>2, SMTT(30) DEF HookTypes, EndpointTypes, RowTypes, TopicTypes, PostTypes
  <2>2. FanoutTypes'
    BY <1>0, <1>1, <1>2, <1>5 DEF HookTypes, FanoutTypes, NoDelivery
  <2>3. ReaderTypes'
    BY <1>0, <1>1, <1>2, <1>3 DEF HookTypes, ReaderTypes, NoMessage
  <2> QED
    BY <2>1, <2>2, <2>3, Zenon DEF HookTypes
<1>7. OfferInv'
  BY <1>0, <1>5, Zenon DEF HookInv, OfferInv
<1>8. PostInv'
  BY <1>0, <1>3, Zenon DEF HookInv, PostInv
<1>9. ReadInv'
  <2>1. ReadInv
    BY Zenon DEF HookInv
  <2>2. \A i \in 1 .. Len(hookTopic) : Processed(i)' <=> Processed(i)
    BY <1>0, Zenon DEF Processed
  <2>3. \A i \in 1 .. committed : i \in 1 .. Len(hookTopic)
    BY <1>2
  <2>4. CASE UNCHANGED <<held, stage>>
    <3>1. stage = "commit" => held \in 1 .. Len(hookTopic)
      BY <1>1, HeldMessage, Zenon
    <3> QED
      BY <1>0, <2>1, <2>2, <2>3, <2>4, <3>1, Zenon DEF ReadInv
  <2>5. CASE held' = NoMessage /\ stage' = "fetch"
    <3>1. \A i \in 1 .. Len(hookTopic) : ~(i < NoMessage)
      BY DEF NoMessage
    <3> QED
      BY <1>0, <2>1, <2>2, <2>3, <2>5, <3>1, Zenon DEF ReadInv
  <2> QED
    BY <1>3, <2>4, <2>5, Zenon
<1>10. TraceInv'
  <2>1. \A d \in 1 .. Len(deliveries) : d # NoDelivery
    BY DEF NoDelivery
  <2>2. stranded \subseteq stranded'
    BY <1>3, Zenon
  <2>3. \A d \in 1 .. Len(deliveries) : \A p \in Dispatchers :
          fanout[p].row = d => fanout'[p].row = d \/ d \in stranded'
    BY <1>3, <2>1, Zenon
  <2> QED
    BY <1>0, <2>2, <2>3, Zenon DEF HookInv, TraceInv
<1>11. OnceInv'
  <2>1. \A i \in 1 .. Len(hookTopic) : hookTopic[i].row # NoDelivery
    BY <1>1, MessageRow DEF NoDelivery
  <2>2. OnceInv
    BY Zenon DEF HookInv
  <2>3. \A p, q \in Dispatchers :
          fanout'[p].row = fanout'[q].row /\ fanout'[p].row # NoDelivery => p = q
    BY <1>5, <2>2 DEF OnceInv
  <2>4. \A p \in Dispatchers : \A i \in 1 .. Len(hookTopic) : fanout'[p].row # hookTopic[i].row
    BY <1>5, <2>1, <2>2 DEF OnceInv
  <2> QED
    BY <1>0, <1>5, <2>2, <2>3, <2>4, Zenon DEF OnceInv, Unmarked
<1>12. ReadOnce'
  BY <1>0, <1>2 DEF ReadOnce
<1> QED
  BY <1>6, <1>7, <1>8, <1>9, <1>10, <1>11, <1>12, Zenon DEF HookInv

-----------------------------------------------------------------------------
(* The results. *)

(* No endpoint, no row and no message at first.                              *)
LEMMA HookStarts == HookInit => HookInv
<1> SUFFICES ASSUME HookInit PROVE HookInv
  BY Zenon
<1>1. /\ Len(endpoints) = 0 /\ Len(deliveries) = 0 /\ Len(hookTopic) = 0
      /\ endpoints \in Seq(Endpoint \cup {Gone}) /\ deliveries \in Seq(Delivery)
      /\ hookTopic \in Seq(WebhookMessage)
  BY DEF HookInit
<1>2. Idle \in Fanout /\ Idle.row = NoDelivery /\ Idle.left = {}
  BY WebhookAssumption DEF Idle, Fanout, Urls, NoDelivery
<1>3. fanout \in [Dispatchers -> Fanout] /\ \A p \in Dispatchers : fanout[p] = Idle
  BY <1>2, Zenon DEF HookInit
<1>4. HookTypes
  <2>1. EndpointTypes /\ RowTypes /\ TopicTypes
    BY <1>1, WebhookAssumption DEF HookInit, EndpointTypes, RowTypes, TopicTypes
  <2>2. FanoutTypes
    BY <1>1, <1>2, <1>3 DEF FanoutTypes, NoDelivery
  <2>3. ReaderTypes /\ PostTypes
    BY <1>1 DEF HookInit, ReaderTypes, PostTypes, NoMessage
  <2> QED
    BY <2>1, <2>2, <2>3, Zenon DEF HookTypes
<1>5. OfferInv
  BY <1>1, <1>2, <1>3 DEF OfferInv
<1>6. PostInv /\ ReadInv /\ TraceInv
  BY <1>1 DEF HookInit, PostInv, ReadInv, TraceInv, Processed
<1>7. OnceInv /\ ReadOnce
  BY <1>1, <1>2, <1>3 DEF HookInit, OnceInv, ReadOnce
<1> QED
  BY <1>4, <1>5, <1>6, <1>7, Zenon DEF HookInv

(* HookInv is inductive.                                                     *)
LEMMA HookStep == HookInv /\ [HookNext]_hookVars => HookInv'
<1> SUFFICES ASSUME HookInv, [HookNext]_hookVars PROVE HookInv'
  BY Zenon
<1>1. CASE \E t \in Tenants : HookAdmin(t)
  BY <1>1, AdminKeeps, Zenon
<1>2. CASE \E p \in Dispatchers :
             HookDispatch(p) \/ \E t \in Tenants, ev \in Events : DispatchList(p, t, ev)
  BY <1>2, DispatchKeeps, Zenon
<1>3. CASE HookWorker
  BY <1>3, WorkerKeeps, Zenon
<1>4. CASE HookCrash \/ HookRebalance
  BY <1>4, FaultKeeps, Zenon
<1>5. CASE UNCHANGED hookVars
  <2>1. HookTypes'
    BY <1>5, Zenon DEF hookVars, HookInv, HookTypes, EndpointTypes, RowTypes, FanoutTypes, TopicTypes,
                ReaderTypes, PostTypes
  <2>2. OfferInv' /\ TraceInv' /\ OnceInv'
    BY <1>5, RowsStay, Zenon DEF hookVars, adminVars
  <2>3. PostInv'
    BY <1>5, Zenon DEF hookVars, postVars, HookInv, PostInv
  <2>4. ReadInv'
    BY <1>5, Zenon DEF hookVars, HookInv, ReadInv, Processed
  <2>5. ReadOnce'
    BY <1>5, Zenon DEF hookVars, HookInv, ReadOnce, Unmarked
  <2> QED
    BY <2>1, <2>2, <2>3, <2>4, <2>5, Zenon DEF HookInv
<1> QED
  BY <1>1, <1>2, <1>3, <1>4, <1>5, Zenon DEF HookNext

(* HookInv holds in every state.                                             *)
LEMMA HookCorrect == HookSpec => []HookInv
  BY HookStarts, HookStep, PTL DEF HookSpec

(* A row says delivered only when the endpoint accepted a post of it, and    *)
(* failed only when it refused MaxAttempts posts (markDelivered,             *)
(* markFailed), whatever crashes, rebalances and repeated readings there     *)
(* are.                                                                      *)
THEOREM RecordsAreTrue == HookSpec => []RecordMatchesPosts
<1>1. HookInv => RecordMatchesPosts
  <2> SUFFICES ASSUME HookInv PROVE RecordMatchesPosts
    BY Zenon
  <2>1. DOMAIN deliveries = 1 .. Len(deliveries)
    BY DEF HookInv, HookTypes, RowTypes
  <2> QED
    BY <2>1, Zenon DEF HookInv, PostInv, RecordMatchesPosts
<1> QED
  BY <1>1, HookCorrect, PTL

(* Every message of the webhook topic names a URL under which the endpoint   *)
(* was active and subscribed to the event, and an endpoint of the            *)
(* notification's tenant, however updates and deletes interleave with        *)
(* Dispatch.                                                                 *)
THEOREM PostsGoWhereOffered == HookSpec => []PostedWhereOffered
<1>1. HookInv => PostedWhereOffered
  <2> SUFFICES ASSUME HookInv PROVE PostedWhereOffered
    BY Zenon
  <2>1. DOMAIN hookTopic = 1 .. Len(hookTopic)
    BY DEF HookInv, HookTypes, TopicTypes
  <2>2. \A i \in 1 .. Len(hookTopic) : hookTopic[i].row \in 1 .. Len(deliveries)
    BY MessageRow, Zenon DEF HookInv
  <2>3. \A i \in 1 .. Len(hookTopic) :
          /\ OfferedAt(offered, deliveries[hookTopic[i].row], hookTopic[i].url)
          /\ BelongsTo(endpoints, deliveries[hookTopic[i].row].endpoint,
                       deliveries[hookTopic[i].row].tenant)
    BY <2>2, Zenon DEF HookInv, OfferInv
  <2> QED
    BY <2>1, <2>3, Zenon DEF PostedWhereOffered, OfferedAt, BelongsTo
<1> QED
  BY <1>1, HookCorrect, PTL

(* A row that stays pending was stranded by Dispatch, or process returned an *)
(* error for it; until then it is on its way: crashes, rebalances and failed *)
(* commits of the worker lose nothing (Run).                                 *)
THEOREM PendingHasAReason == HookSpec => []PendingIsExplained
<1>1. HookInv => PendingIsExplained
  <2> SUFFICES ASSUME HookInv, NEW d \in DOMAIN deliveries, deliveries[d].status = "pending"
               PROVE  \/ d \in stranded
                      \/ \E p \in Dispatchers : fanout[p].row = d
                      \/ \E i \in DOMAIN hookTopic :
                           hookTopic[i].row = d /\ (Awaited(i) \/ i \in errored)
    BY Zenon DEF PendingIsExplained
  <2>1. DOMAIN deliveries = 1 .. Len(deliveries) /\ DOMAIN hookTopic = 1 .. Len(hookTopic)
    BY DEF HookInv, HookTypes, RowTypes, TopicTypes
  <2>2. ASSUME NEW i \in 1 .. Len(hookTopic), hookTopic[i].row = d
        PROVE  Awaited(i) \/ i \in errored
    <3>1. position \in 0 .. Len(hookTopic)
      BY Zenon DEF HookInv, HookTypes, ReaderTypes
    <3>2. i > position \/ i \in 1 .. position
      BY <3>1
    <3>3. i \in 1 .. position => i = held \/ i \in errored
      BY <2>2, Zenon DEF HookInv, ReadInv, Processed
    <3> QED
      BY <3>2, <3>3, Zenon DEF Awaited
  <2> QED
    BY <2>1, <2>2, Zenon DEF HookInv, TraceInv
<1> QED
  BY <1>1, HookCorrect, PTL

\* What a step may do to a row that says delivered.
DeliveredRowStays ==
  \A d \in DOMAIN deliveries :
    deliveries[d].status = "delivered" /\ faults = 0
      => deliveries'[d].status \in {"delivered", "deleted"}

(* A row that says delivered is not overwritten by a later failure, as long  *)
(* as no crash or rebalance has its message read twice: each row is          *)
(* published once and each message read once (Dispatch, Run,                 *)
(* UpdateDelivery).                                                          *)
THEOREM DeliveredIsKept == HookSpec => DeliveredStays
<1>1. HookInv /\ [HookNext]_hookVars => [DeliveredRowStays]_hookVars
  <2> SUFFICES ASSUME HookInv, HookNext, NEW d \in 1 .. Len(deliveries),
                      deliveries[d].status = "delivered", faults = 0
               PROVE  deliveries'[d].status \in {"delivered", "deleted"}
    <3>1. HookInv => DOMAIN deliveries = 1 .. Len(deliveries)
      BY DEF HookInv, HookTypes, RowTypes
    <3> QED
      BY <3>1, Zenon DEF DeliveredRowStays
  <2>0. HookTypes
    BY Zenon DEF HookInv
  <2>1. CASE \E t \in Tenants : HookAdmin(t)
    BY <2>0, <2>1, AdminRows, Zenon
  <2>2. CASE UNCHANGED deliveries
    BY <2>2, Zenon
  <2>3. ASSUME NEW p \in Dispatchers, NEW ep \in fanout[p].left, CreateDelivery(p, ep)
        PROVE  deliveries'[d].status \in {"delivered", "deleted"}
    <3>1. deliveries \in Seq(Delivery) /\ Len(deliveries) \in Nat
      BY <2>0 DEF HookTypes, RowTypes
    <3>2. deliveries' = deliveries \/ \E row : deliveries' = Append(deliveries, row)
      BY <2>3, Zenon DEF CreateDelivery
    <3>3. deliveries'[d] = deliveries[d]
      BY <3>1, <3>2
    <3> QED
      BY <3>3, Zenon
  <2>4. CASE HookMark
    <3>1. /\ stage \in {"delivered", "failed"}
          /\ \/ UNCHANGED deliveries
             \/ UpdateDelivery(hookTopic[held].row, stage,
                               IF stage = "failed" THEN MaxAttempts ELSE attempt)
      BY <2>4, Zenon DEF HookMark
    <3>2. deliveries[hookTopic[held].row].status # "delivered"
      BY <3>1, Zenon DEF HookInv, ReadOnce, Unmarked
    <3>3. deliveries \in Seq(Delivery) /\ hookTopic[held].row # d
      BY <2>0, <3>2, Zenon DEF HookTypes, RowTypes
    <3> QED
      BY <3>1, <3>3 DEF UpdateDelivery
  <2> QED
    BY <2>1, <2>2, <2>3, <2>4, Zenon
    DEF HookNext, HookDispatch, HookWorker, DispatchList, PublishDelivery, HookFetch, HookSend,
        HookCommit, HookCrash, HookRebalance
<1> QED
  BY <1>1, HookCorrect, PTL DEF HookSpec, DeliveredStays, DeliveredRowStays
=============================================================================
