--------------------------- MODULE NotifyHubProofs ---------------------------
(***************************************************************************)
(* Proofs about NotifyHub: whatever requests, schedulers, handlers,        *)
(* repeated deliveries, errors and crashes there are, records of success   *)
(* and failure are true, a run of Process keeps to its attempts and to its *)
(* outcome, requests with one key get one notification, what a client was  *)
(* given is on its way, and what was recalled in time is not.              *)
(***************************************************************************)
EXTENDS NotifyHub, TLAPS

-----------------------------------------------------------------------------
(* The inductive invariant. *)

\* The variables the properties depend on, and what is published to the topic.
HubTypes ==
  /\ status \in [Ids -> Statuses]
  /\ topic \in Seq(Message) /\ dlqTopic \in Seq(Message)
  /\ call \in [Clients -> Call]
  /\ \A c \in Clients : call[c].pc \in {"enqueue", "mark"} => call[c].id \in Ids
  /\ batch \in [Schedulers -> SUBSET Ids]
  /\ marking \in [Schedulers -> Ids \cup {NoRow}]
  /\ step \in [Handlers -> Steps] /\ current \in [Handlers -> Nat]
  /\ attempt \in [Handlers -> Nat] /\ outcome \in [Handlers -> {"none"} \cup Terminal]
  /\ tried \in [Handlers -> Nat] /\ sent \in [Ids -> Nat]

\* The steps that follow the decision about the outcome.
Concluding == {"log", "deadletter", "status", "webhook"}

InDLQ(n) == n \in dlqLost \/ \E i \in 1 .. Len(dlqTopic) : dlqTopic[i].id = n

\* What a run of Process knows about its message.  Its records come last: by
\* then the send has succeeded, or the dead letter has been published.
HandlerInv(h) ==
  /\ step[h] # "idle" => current[h] \in 1 .. Len(topic)
  /\ step[h] \in Concluding => outcome[h] \in Terminal
  /\ step[h] \in Concluding /\ outcome[h] = "delivered" => sent[Target(h)] > 0
  /\ step[h] = "status" /\ outcome[h] = "failed" /\ DLQEnabled => InDLQ(Target(h))
  /\ tried[h] <= Bound
  /\ step[h] \notin Concluding => tried[h] + 1 = attempt[h] /\ attempt[h] <= Bound

HubInv ==
  /\ HubTypes
  /\ \A h \in Handlers : HandlerInv(h)
  /\ DeliveredWasSent /\ FailedIsDeadLettered

(* The number of sends that a run of Process may make.                       *)
LEMMA BoundType == Bound \in Nat /\ 1 <= Bound /\ MaxAttempts <= Bound
  BY ProcessorAssumption DEF Bound

(* What appending to a sequence yields.                                      *)
LEMMA Appended ==
  ASSUME NEW S, NEW s \in Seq(S), NEW e \in S
  PROVE  /\ Append(s, e) \in Seq(S) /\ Len(Append(s, e)) = Len(s) + 1
         /\ Len(s) \in Nat
         /\ Append(s, e)[Len(s) + 1] = e
         /\ \A i \in 1 .. Len(s) : Append(s, e)[i] = s[i]
  OBVIOUS

(* A sequence that may have been appended to.                                *)
LEMMA Longer ==
  ASSUME NEW S, NEW s \in Seq(S), NEW e \in S, NEW t, t = s \/ t = Append(s, e)
  PROVE  /\ t \in Seq(S) /\ s \in Seq(S)
         /\ Len(s) \in Nat /\ Len(t) \in Nat /\ Len(s) <= Len(t)
         /\ \A i \in 1 .. Len(s) : t[i] = s[i]
         /\ t = Append(s, e) => Len(t) = Len(s) + 1 /\ t[Len(t)] = e
<1>1. CASE t = s /\ t # Append(s, e)
  BY <1>1
<1>2. CASE t = Append(s, e)
  BY <1>2
<1> QED
  BY <1>1, <1>2, Zenon

(* A publish that reached the broker, or did not, leaves a typed topic.      *)
LEMMA PublishedType ==
  ASSUME topic \in Seq(Message),
         UNCHANGED topic \/ \E m \in Message : topic' = Append(topic, m)
  PROVE  topic' \in Seq(Message)
<1>1. CASE UNCHANGED topic
  BY <1>1, Zenon
<1>2. CASE \E m \in Message : topic' = Append(topic, m)
  BY <1>2, Appended
<1> QED
  BY <1>1, <1>2, Zenon

(* At the start there is no row, no message and no run of Process.           *)
LEMMA HubInit == Init => HubInv
<1> SUFFICES ASSUME Init PROVE HubInv
  BY Zenon
<1> USE DEF Init
<1>1. HubTypes
  <2>1. /\ status \in [Ids -> Statuses] /\ topic \in Seq(Message) /\ dlqTopic \in Seq(Message)
        /\ batch \in [Schedulers -> SUBSET Ids] /\ marking \in [Schedulers -> Ids \cup {NoRow}]
        /\ sent \in [Ids -> Nat] /\ tried \in [Handlers -> Nat] /\ attempt \in [Handlers -> Nat]
        /\ current \in [Handlers -> Nat]
    BY DEF StoreInit, SchedulerInit, ProcessorInit, Statuses, NoMessage
  <2>2. step \in [Handlers -> Steps] /\ outcome \in [Handlers -> {"none"} \cup Terminal]
    BY Zenon DEF ProcessorInit, Steps
  <2>3. /\ call \in [Clients -> Call]
        /\ \A c \in Clients : call[c].pc = "ready"
    BY ServiceAssumption DEF ServiceInit, Call, Pcs
  <2> QED
    BY <2>1, <2>2, <2>3, Zenon DEF HubTypes
<1>2. ASSUME NEW h \in Handlers PROVE HandlerInv(h)
  BY BoundType DEF ProcessorInit, HandlerInv, Concluding
<1>3. DeliveredWasSent /\ FailedIsDeadLettered
  BY Zenon DEF StoreInit, ProcessorInit, DeliveredWasSent, FailedIsDeadLettered
<1> QED
  BY <1>1, <1>2, <1>3, Zenon DEF HubInv

-----------------------------------------------------------------------------
(* What the parts may do to each other. *)

\* Both topics only grow.
Grows ==
  /\ Len(topic) \in Nat /\ Len(topic') \in Nat /\ Len(topic) <= Len(topic')
  /\ \A i \in 1 .. Len(topic) : topic'[i] = topic[i]
  /\ \A n \in Ids : InDLQ(n) => InDLQ(n)'
  /\ \A n \in Ids : sent[n] \in Nat /\ sent'[n] \in Nat /\ sent[n] <= sent'[n]

(* A handler that stands still keeps what it knows while topics and sends    *)
(* grow.                                                                     *)
LEMMA Bystander ==
  ASSUME HubTypes, Grows, NEW h \in Handlers, HandlerInv(h),
         step'[h] = step[h], current'[h] = current[h], attempt'[h] = attempt[h],
         outcome'[h] = outcome[h], tried'[h] = tried[h]
  PROVE  HandlerInv(h)'
<1>1. CASE step[h] = "idle"
  BY <1>1, Zenon DEF HandlerInv, Concluding
<1>2. CASE step[h] # "idle"
  <2>1. current[h] \in 1 .. Len(topic) /\ current[h] \in 1 .. Len(topic')
    BY <1>2 DEF HandlerInv, Grows
  <2>2. PICK n \in Ids : n = topic[current[h]].id /\ n = topic'[current'[h]].id
    <3>1. topic[current[h]] \in Message /\ topic'[current'[h]] = topic[current[h]]
      BY <2>1 DEF HubTypes, Grows
    <3> QED
      BY <3>1, Zenon DEF Message
  <2>3. sent[n] > 0 => sent'[n] > 0
    BY DEF Grows
  <2>4. InDLQ(n) => InDLQ(n)'
    BY Zenon DEF Grows
  <2> QED
    BY <2>1, <2>2, <2>3, <2>4, Zenon DEF HandlerInv, Target, InDLQ
<1> QED
  BY <1>1, <1>2, Zenon

(* A step outside Process that leaves outcomes alone or overwrites them with *)
(* no outcome, and at most publishes, keeps the invariant.                   *)
LEMMA Environment ==
  ASSUME HubInv, HubTypes', UNCHANGED <<processorVars, dlqTopic>>,
         UNCHANGED topic \/ \E m \in Message : topic' = Append(topic, m),
         \A n \in Ids : status'[n] \in {"delivered", "failed"} => status'[n] = status[n]
  PROVE  HubInv'
<1>1. Grows
  <2>1. /\ Len(topic) \in Nat /\ Len(topic') \in Nat /\ Len(topic) <= Len(topic')
        /\ \A i \in 1 .. Len(topic) : topic'[i] = topic[i]
    <3>1. topic \in Seq(Message)
      BY Zenon DEF HubInv, HubTypes
    <3>2. CASE UNCHANGED topic
      BY <3>1, <3>2
    <3>3. CASE \E m \in Message : topic' = Append(topic, m)
      BY <3>1, <3>3, Appended
    <3> QED
      BY <3>2, <3>3, Zenon
  <2>2. UNCHANGED <<sent, dlqLost, dlqTopic>>
    BY Zenon DEF processorVars
  <2>3. \A n \in Ids : sent[n] \in Nat
    BY Zenon DEF HubInv, HubTypes
  <2> QED
    BY <2>1, <2>2, <2>3 DEF Grows, InDLQ
<1>2. ASSUME NEW h \in Handlers PROVE HandlerInv(h)'
  BY <1>1, Bystander, Zenon DEF HubInv, processorVars
<1>3. DeliveredWasSent'
  BY Zenon DEF HubInv, DeliveredWasSent, processorVars
<1>4. FailedIsDeadLettered'
  BY Zenon DEF HubInv, FailedIsDeadLettered, processorVars
<1> QED
  BY <1>2, <1>3, <1>4, Zenon DEF HubInv

-----------------------------------------------------------------------------
(* Requests. *)

(* The types of processor variables stay when Process does not run.          *)
LEMMA ProcessorTypesStay ==
  ASSUME HubTypes, UNCHANGED processorVars
  PROVE  /\ step' \in [Handlers -> Steps] /\ current' \in [Handlers -> Nat]
         /\ attempt' \in [Handlers -> Nat]
         /\ outcome' \in [Handlers -> {"none"} \cup Terminal]
         /\ tried' \in [Handlers -> Nat] /\ sent' \in [Ids -> Nat]
  BY Zenon DEF HubTypes, processorVars

(* Return ends a call, or begins the next one of SendBulk.                   *)
LEMMA ReturnTypes ==
  ASSUME HubTypes, NEW c \in Clients, NEW x, Return(c, x)
  PROVE  /\ call' \in [Clients -> Call]
         /\ \A d \in Clients : call'[d].pc \in {"enqueue", "mark"} => call'[d].id \in Ids
<1> DEFINE p == IF call[c].left > 0 THEN "create" ELSE "done"
           l == IF call[c].left > 0 THEN call[c].left - 1 ELSE 0
           r == [call[c] EXCEPT !.pc = p, !.id = NoId, !.left = l]
<1>1. call[c] \in Call
  BY Zenon DEF HubTypes
<1>2. call' = [call EXCEPT ![c] = r]
  BY Zenon DEF Return
<1>3. r \in Call /\ r.pc \in {"create", "done"}
  <2>1. p \in {"create", "done"}
    BY Zenon
  <2>2. call[c].left \in 0 .. MaxBulk
    BY <1>1, Zenon DEF Call
  <2>3. l \in 0 .. MaxBulk
    BY <2>2, ServiceAssumption
  <2> HIDE DEF p, l
  <2> QED
    BY <1>1, <2>1, <2>3, Zenon DEF Call, Pcs
<1> HIDE DEF r
<1> QED
  BY <1>2, <1>3, Zenon DEF HubTypes

(* Goto changes where a call is.                                             *)
LEMMA GotoTypes ==
  ASSUME HubTypes, NEW c \in Clients, NEW p \in Pcs, Goto(c, p),
         p \in {"enqueue", "mark"} => call[c].id \in Ids
  PROVE  /\ call' \in [Clients -> Call]
         /\ \A d \in Clients : call'[d].pc \in {"enqueue", "mark"} => call'[d].id \in Ids
<1> DEFINE r == [call[c] EXCEPT !.pc = p]
<1>1. call[c] \in Call
  BY Zenon DEF HubTypes
<1>2. call' = [call EXCEPT ![c] = r]
  BY Zenon DEF Goto
<1>3. r \in Call /\ r.pc = p /\ r.id = call[c].id
  BY <1>1, Zenon DEF Call
<1> HIDE DEF r
<1> QED
  BY <1>2, <1>3, Zenon DEF HubTypes

(* The steps of Send and SendBulk record no outcome.                         *)
LEMMA ServiceKeeps ==
  ASSUME HubInv, Service
  PROVE  HubInv'
<1>0. HubTypes /\ UNCHANGED <<schedulerVars, processorVars>>
  BY Zenon DEF HubInv, Service
<1> DEFINE CallTypes == /\ call' \in [Clients -> Call]
                        /\ \A d \in Clients :
                             call'[d].pc \in {"enqueue", "mark"} => call'[d].id \in Ids
(* It is enough to look at the statement, and at the types of the calls.     *)
<1>1. ASSUME CallTypes, UNCHANGED dlqTopic,
             UNCHANGED topic \/ \E m \in Message : topic' = Append(topic, m),
             \/ UNCHANGED status
             \/ \E n \in Ids, x \in {"pending", "queued"} : status' = [status EXCEPT ![n] = x]
      PROVE  HubInv'
  <2>1. /\ status' \in [Ids -> Statuses]
        /\ \A n \in Ids : status'[n] \in {"delivered", "failed"} => status'[n] = status[n]
    BY <1>0, <1>1, Zenon DEF HubTypes, Statuses
  <2>2. topic' \in Seq(Message) /\ dlqTopic' \in Seq(Message)
    BY <1>0, <1>1, PublishedType, Zenon DEF HubTypes
  <2>3. batch' \in [Schedulers -> SUBSET Ids] /\ marking' \in [Schedulers -> Ids \cup {NoRow}]
    BY <1>0, Zenon DEF HubTypes, schedulerVars
  <2>4. HubTypes'
    BY <1>0, <1>1, <2>1, <2>2, <2>3, ProcessorTypesStay, Zenon DEF HubTypes
  <2> QED
    BY <1>0, <1>1, <2>1, <2>4, Environment, Zenon
<1> HIDE DEF CallTypes
<1>2. PICK c \in Clients : SendStep(c)
  BY Zenon DEF Service
<1>3. call[c] \in Call
  BY <1>0, Zenon DEF HubTypes
<1>4. CASE SendStart(c)
  <2>1. PICK t \in Tenants, k \in Keys \cup {NoKey}, s \in Schedules, b \in 0 .. MaxBulk :
          call' = [call EXCEPT ![c] =
            [pc |-> IF k \in {NoKey, EmptyKey} THEN "create" ELSE "lookup", tenant |-> t,
             key |-> k, schedule |-> s, id |-> NoId, left |-> b]]
    BY <1>4, Zenon DEF SendStart
  <2> DEFINE r == [pc |-> IF k \in {NoKey, EmptyKey} THEN "create" ELSE "lookup", tenant |-> t,
                   key |-> k, schedule |-> s, id |-> NoId, left |-> b]
  <2>2. r \in Call /\ r.pc \in {"create", "lookup"}
    BY ServiceAssumption, Zenon DEF Call, Pcs, NoId
  <2> HIDE DEF r
  <2>3. CallTypes
    BY <1>0, <2>1, <2>2, Zenon DEF HubTypes, CallTypes, r
  <2> QED
    BY <1>1, <1>4, <2>3, Zenon DEF SendStart, storeVars
<1>5. CASE SendLookup(c)
  <2>1. UNCHANGED storeVars
    BY <1>5, Zenon DEF SendLookup
  <2>2. Goto(c, "create") \/ \E x : Return(c, x)
    BY <1>5, Zenon DEF SendLookup
  <2>3. CallTypes
    BY <1>0, <2>2, ReturnTypes, GotoTypes, Zenon DEF CallTypes, Pcs
  <2> QED
    BY <1>1, <2>1, <2>3, Zenon DEF storeVars
<1>6. CASE SendCreate(c)
  <2>1. CASE \E x : Return(c, x) /\ UNCHANGED storeVars
    <3>1. CallTypes
      BY <1>0, <2>1, ReturnTypes, Zenon DEF CallTypes
    <3> QED
      BY <1>1, <2>1, <3>1, Zenon DEF storeVars
  <2>2. CASE \E n \in Ids : /\ Create(n, call[c].tenant, call[c].key, call[c].schedule)
                            /\ call' = [call EXCEPT ![c].pc = "enqueue", ![c].id = n]
    <3>1. PICK n \in Ids : /\ Create(n, call[c].tenant, call[c].key, call[c].schedule)
                           /\ call' = [call EXCEPT ![c].pc = "enqueue", ![c].id = n]
      BY <2>2, Zenon
    <3> DEFINE r == [call[c] EXCEPT !.pc = "enqueue", !.id = n]
    <3>2. r \in Call /\ r.id = n
      BY <1>3, Zenon DEF Call, Pcs
    <3>3. call' = [call EXCEPT ![c] = r]
      BY <3>1, Zenon
    <3> HIDE DEF r
    <3>4. CallTypes
      BY <1>0, <3>2, <3>3, Zenon DEF HubTypes, CallTypes
    <3>5. status' = [status EXCEPT ![n] = "pending"] /\ UNCHANGED <<topic, dlqTopic>>
      BY <3>1, Zenon DEF Create
    <3> QED
      BY <1>1, <3>4, <3>5, Zenon
  <2> QED
    BY <1>6, <2>1, <2>2, Zenon DEF SendCreate
<1>7. CASE SendEnqueue(c)
  <2>1. call[c].id \in Ids /\ MessageOf(c) \in Message
    BY <1>0, <1>3, <1>7, Zenon DEF SendEnqueue, HubTypes, MessageOf, Message, Call
  <2>2. \/ UNCHANGED storeVars
        \/ topic' = Append(topic, MessageOf(c)) /\ UNCHANGED <<status, dlqTopic>>
    BY <1>7, Zenon DEF SendEnqueue, Publish
  <2>3. Goto(c, "mark") \/ \E x : Return(c, x)
    BY <1>7, Zenon DEF SendEnqueue
  <2>4. CallTypes
    BY <1>0, <2>1, <2>3, ReturnTypes, GotoTypes, Zenon DEF CallTypes, Pcs
  <2> QED
    BY <1>1, <2>1, <2>2, <2>4, Zenon DEF storeVars
<1>8. CASE SendMark(c)
  <2>1. call[c].id \in Ids
    BY <1>0, <1>8, Zenon DEF SendMark, HubTypes
  <2>2. \E x : Return(c, x)
    BY <1>8, Zenon DEF SendMark
  <2>3. CallTypes
    BY <1>0, <2>2, ReturnTypes, Zenon DEF CallTypes
  <2>4. \/ UNCHANGED storeVars
        \/ status' = [status EXCEPT ![call[c].id] = "queued"] /\ UNCHANGED <<topic, dlqTopic>>
    BY <1>8, Zenon DEF SendMark, UpdateStatus
  <2> QED
    BY <1>1, <2>1, <2>3, <2>4, Zenon DEF storeVars
<1> QED
  BY <1>2, <1>4, <1>5, <1>6, <1>7, <1>8, Zenon DEF SendStep

-----------------------------------------------------------------------------
(* Cancel, the schedulers and the clock. *)

(* Cancel, the scheduler and the clock record no outcome either.             *)
LEMMA OthersKeep ==
  ASSUME HubInv, CancelRequest \/ Schedule \/ SchedulerCrash \/ Clock \/ UNCHANGED vars
  PROVE  HubInv'
<1>0. HubTypes
  BY Zenon DEF HubInv
<1>1. UNCHANGED <<processorVars, call>>
  BY Zenon DEF CancelRequest, Cancel, Schedule, SchedulerCrash, Clock, vars, serviceVars
<1>2. ASSUME batch' \in [Schedulers -> SUBSET Ids],
             marking' \in [Schedulers -> Ids \cup {NoRow}],
             UNCHANGED dlqTopic,
             UNCHANGED topic \/ \E m \in Message : topic' = Append(topic, m),
             \/ UNCHANGED status
             \/ \E n \in Ids, x \in {"dropped", "queued"} : status' = [status EXCEPT ![n] = x]
      PROVE  HubInv'
  <2>1. /\ status' \in [Ids -> Statuses]
        /\ \A n \in Ids : status'[n] \in {"delivered", "failed"} => status'[n] = status[n]
    BY <1>0, <1>2, Zenon DEF HubTypes, Statuses, Terminal
  <2>2. topic' \in Seq(Message) /\ dlqTopic' \in Seq(Message)
    BY <1>0, <1>2, PublishedType, Zenon DEF HubTypes
  <2>3. HubTypes'
    BY <1>0, <1>1, <1>2, <2>1, <2>2, ProcessorTypesStay, Zenon DEF HubTypes
  <2> QED
    BY <1>1, <1>2, <2>1, <2>3, Environment, Zenon
<1>3. CASE CancelRequest
  <2>1. PICK t \in Tenants, n \in Ids : CancelRow(t, n) /\ UNCHANGED schedulerVars
    BY <1>3, Zenon DEF CancelRequest, Cancel
  <2>2. status' = [status EXCEPT ![n] = "dropped"] /\ UNCHANGED <<topic, dlqTopic>>
    BY <2>1, Zenon DEF CancelRow, UpdateStatus
  <2> QED
    BY <1>0, <1>2, <2>1, <2>2, Zenon DEF HubTypes, schedulerVars
<1>4. CASE Clock \/ UNCHANGED vars
  <2>1. UNCHANGED <<schedulerVars, status, topic, dlqTopic>>
    BY <1>4, Zenon DEF Clock, ComeDue, vars, storeVars
  <2> QED
    BY <1>0, <1>2, <2>1, Zenon DEF HubTypes, schedulerVars
<1>5. ASSUME NEW s \in Schedulers, SchedTick(s) PROVE HubInv'
  <2>1. PICK due \in SUBSET DueScheduled : batch' = [batch EXCEPT ![s] = due]
    BY <1>5, Zenon DEF SchedTick
  <2>2. due \in SUBSET Ids
    BY Zenon DEF DueScheduled, Existing
  <2>3. UNCHANGED <<storeVars, marking>>
    BY <1>5, Zenon DEF SchedTick
  <2> QED
    BY <1>0, <1>2, <2>1, <2>2, <2>3, Zenon DEF HubTypes, storeVars
<1>6. ASSUME NEW s \in Schedulers, NEW n \in Ids, SchedEnqueue(s, n) PROVE HubInv'
  <2> DEFINE m == [id |-> n, tenant |-> NullTenant]
  <2>1. m \in Message
    BY Zenon DEF Message
  <2>2. /\ batch' = [batch EXCEPT ![s] = batch[s] \ {n}]
        /\ UNCHANGED marking \/ marking' = [marking EXCEPT ![s] = n]
    BY <1>6, Zenon DEF SchedEnqueue
  <2>3. \/ UNCHANGED storeVars
        \/ topic' = Append(topic, m) /\ UNCHANGED <<status, dlqTopic>>
    BY <1>6, Zenon DEF SchedEnqueue, Publish
  <2>4. batch[s] \ {n} \in SUBSET Ids
    BY <1>0, Zenon DEF HubTypes
  <2> HIDE DEF m
  <2> QED
    BY <1>0, <1>2, <2>1, <2>2, <2>3, <2>4, Zenon DEF HubTypes, storeVars
<1>7. ASSUME NEW s \in Schedulers, SchedMark(s) PROVE HubInv'
  <2>1. marking[s] \in Ids
    BY <1>0, <1>7, Zenon DEF HubTypes, SchedMark
  <2>2. marking' = [marking EXCEPT ![s] = NoRow] /\ UNCHANGED batch
    BY <1>7, Zenon DEF SchedMark
  <2>3. \/ UNCHANGED storeVars
        \/ status' = [status EXCEPT ![marking[s]] = "queued"] /\ UNCHANGED <<topic, dlqTopic>>
    BY <1>7, Zenon DEF SchedMark, UpdateStatus
  <2> QED
    BY <1>0, <1>2, <2>1, <2>2, <2>3, Zenon DEF HubTypes, storeVars
<1>8. ASSUME NEW s \in Schedulers, SchedCrash(s) PROVE HubInv'
  <2>1. /\ batch' = [batch EXCEPT ![s] = {}] /\ marking' = [marking EXCEPT ![s] = NoRow]
        /\ UNCHANGED storeVars
    BY <1>8, Zenon DEF SchedCrash
  <2> QED
    BY <1>0, <1>2, <2>1, Zenon DEF HubTypes, storeVars
<1> QED
  BY <1>3, <1>4, <1>5, <1>6, <1>7, <1>8, Zenon DEF Schedule, SchedulerStep, SchedulerCrash

-----------------------------------------------------------------------------
(* Process. *)

(* The notification a handler is working on.                                 *)
LEMMA TargetType ==
  ASSUME HubInv, NEW h \in Handlers, step[h] # "idle"
  PROVE  /\ current[h] \in 1 .. Len(topic) /\ topic[current[h]] \in Message
         /\ Target(h) \in Ids
<1>1. current[h] \in 1 .. Len(topic)
  BY Zenon DEF HubInv, HandlerInv
<1>2. topic[current[h]] \in Message
  BY <1>1 DEF HubInv, HubTypes
<1> QED
  BY <1>1, <1>2, Zenon DEF Target, Message

(* A step that sends nothing and publishes no dead letter.                   *)
LEMMA Unsent ==
  ASSUME HubTypes, UNCHANGED <<dlqTopic, sent>>
  PROVE  /\ dlqTopic' \in Seq(Message)
         /\ sent' \in [Ids -> Nat] /\ \A n \in Ids : sent[n] <= sent'[n]
<1>1. dlqTopic \in Seq(Message) /\ sent \in [Ids -> Nat]
  BY Zenon DEF HubTypes
<1>2. dlqTopic' = dlqTopic /\ sent' = sent
  BY Zenon
<1>3. \A n \in Ids : sent[n] \in Nat
  BY <1>1, Zenon
<1>4. \A n \in Ids : sent[n] <= sent'[n]
  BY <1>2, <1>3
<1> QED
  BY <1>1, <1>2, <1>4, Zenon

(* A step of handler h keeps the invariant if it leaves the others alone and *)
(* keeps what h knows and what the records say.                              *)
LEMMA OneHandler ==
  ASSUME HubInv, NEW h \in Handlers, UNCHANGED <<topic, call, batch, marking>>,
         NEW st \in Steps, step' = [step EXCEPT ![h] = st],
         NEW cu \in Nat, current' = [current EXCEPT ![h] = cu],
         NEW at \in Nat, attempt' = [attempt EXCEPT ![h] = at],
         NEW ou \in {"none"} \cup Terminal, outcome' = [outcome EXCEPT ![h] = ou],
         NEW tr \in Nat, tried' = [tried EXCEPT ![h] = tr],
         status' \in [Ids -> Statuses], dlqTopic' \in Seq(Message),
         sent' \in [Ids -> Nat], \A n \in Ids : sent[n] <= sent'[n],
         \A n \in Ids : InDLQ(n) => InDLQ(n)',
         HandlerInv(h)', DeliveredWasSent', FailedIsDeadLettered'
  PROVE  HubInv'
<1>0. HubTypes
  BY Zenon DEF HubInv
<1>1. HubTypes'
  <2>1. /\ step' \in [Handlers -> Steps] /\ current' \in [Handlers -> Nat]
        /\ attempt' \in [Handlers -> Nat] /\ tried' \in [Handlers -> Nat]
    BY <1>0, Zenon DEF HubTypes
  <2>2. outcome' \in [Handlers -> {"none"} \cup Terminal]
    BY <1>0, Zenon DEF HubTypes
  <2>3. /\ topic' \in Seq(Message) /\ call' \in [Clients -> Call]
        /\ \A c \in Clients : call'[c].pc \in {"enqueue", "mark"} => call'[c].id \in Ids
        /\ batch' \in [Schedulers -> SUBSET Ids]
        /\ marking' \in [Schedulers -> Ids \cup {NoRow}]
    BY <1>0, Zenon DEF HubTypes
  <2> QED
    BY <2>1, <2>2, <2>3, Zenon DEF HubTypes
<1>2. Grows
  BY <1>0, <1>1 DEF Grows, HubTypes
<1>3. ASSUME NEW g \in Handlers, g # h PROVE HandlerInv(g)'
  <2>1. /\ step'[g] = step[g] /\ current'[g] = current[g] /\ attempt'[g] = attempt[g]
        /\ outcome'[g] = outcome[g] /\ tried'[g] = tried[g]
    BY <1>0, <1>3, Zenon DEF HubTypes
  <2>2. HandlerInv(g)
    BY Zenon DEF HubInv
  <2> QED
    BY <1>0, <1>2, <2>1, <2>2, Bystander, Zenon
<1> QED
  BY <1>1, <1>3, Zenon DEF HubInv

(* A step of h that records nothing.                                         *)
LEMMA QuietStep ==
  ASSUME HubInv, NEW h \in Handlers, UNCHANGED <<storeVars, call, batch, marking>>,
         UNCHANGED <<sent, logged, dlqLost, events>>,
         NEW st \in Steps, step' = [step EXCEPT ![h] = st],
         NEW cu \in Nat, current' = [current EXCEPT ![h] = cu],
         NEW at \in Nat, attempt' = [attempt EXCEPT ![h] = at],
         NEW ou \in {"none"} \cup Terminal, outcome' = [outcome EXCEPT ![h] = ou],
         NEW tr \in Nat, tried' = [tried EXCEPT ![h] = tr],
         HandlerInv(h)'
  PROVE  HubInv'
<1>1. UNCHANGED <<status, topic, dlqTopic>>
  BY Zenon DEF storeVars
<1>2. /\ status' \in [Ids -> Statuses] /\ dlqTopic' \in Seq(Message)
      /\ sent' \in [Ids -> Nat] /\ \A n \in Ids : sent[n] <= sent'[n]
  <2>1. HubTypes
    BY Zenon DEF HubInv
  <2>2. status \in [Ids -> Statuses]
    BY <2>1, Zenon DEF HubTypes
  <2> QED
    BY <1>1, <2>1, <2>2, Unsent, Zenon
<1>3. \A n \in Ids : InDLQ(n) => InDLQ(n)'
  BY <1>1, Zenon DEF InDLQ
<1>4. DeliveredWasSent' /\ FailedIsDeadLettered'
  BY <1>1, Zenon DEF HubInv, DeliveredWasSent, FailedIsDeadLettered
<1> QED
  BY <1>1, <1>2, <1>3, <1>4, OneHandler, Zenon

(* The state of one handler.                                                 *)
LEMMA HandlerTypes ==
  ASSUME HubInv, NEW h \in Handlers
  PROVE  /\ step[h] \in Steps /\ current[h] \in Nat /\ attempt[h] \in Nat /\ tried[h] \in Nat
         /\ outcome[h] \in {"none"} \cup Terminal
         /\ step = [step EXCEPT ![h] = step[h]]
         /\ current = [current EXCEPT ![h] = current[h]]
         /\ attempt = [attempt EXCEPT ![h] = attempt[h]]
         /\ outcome = [outcome EXCEPT ![h] = outcome[h]]
         /\ tried = [tried EXCEPT ![h] = tried[h]]
         /\ HandlerInv(h)
  BY Zenon DEF HubInv, HubTypes

(* Process returns, or is cut off.                                           *)
LEMMA LeaveKnows ==
  ASSUME HubInv, NEW h \in Handlers, Leave(h)
  PROVE  HandlerInv(h)'
<1>1. step'[h] = "idle" /\ attempt'[h] = 1 /\ tried'[h] = 0
  BY Zenon DEF Leave, HubInv, HubTypes
<1> QED
  BY <1>1, BoundType DEF HandlerInv, Concluding

(* Process returns an error: it has recorded nothing since it began.         *)
LEMMA ReturnErrorKeeps ==
  ASSUME HubInv, NEW h \in Handlers, ReturnError(h), UNCHANGED <<call, batch, marking>>
  PROVE  HubInv'
<1>1. HandlerInv(h)'
  BY LeaveKnows, Zenon DEF ReturnError
<1>2. /\ step' = [step EXCEPT ![h] = "idle"] /\ current' = [current EXCEPT ![h] = 0]
      /\ attempt' = [attempt EXCEPT ![h] = 1] /\ outcome' = [outcome EXCEPT ![h] = "none"]
      /\ tried' = [tried EXCEPT ![h] = 0]
      /\ UNCHANGED <<storeVars, sent, logged, dlqLost, events>>
  BY Zenon DEF ReturnError, Leave, NoMessage
<1>3. "idle" \in Steps /\ 0 \in Nat /\ 1 \in Nat /\ "none" \in {"none"} \cup Terminal
  BY Zenon DEF Steps
<1> QED
  BY <1>1, <1>2, <1>3, QuietStep, Zenon

(* A step to another one before the decision about the outcome.              *)
LEMMA AdvanceKeeps ==
  ASSUME HubInv, NEW h \in Handlers, UNCHANGED <<call, batch, marking>>,
         NEW st \in Steps \ (Concluding \cup {"idle"}), step' = [step EXCEPT ![h] = st],
         step[h] \notin Concluding,
         NEW cu \in 1 .. Len(topic), current' = [current EXCEPT ![h] = cu],
         UNCHANGED <<storeVars, attempt, outcome, tried, sent, logged, dlqLost, events>>
  PROVE  HubInv'
<1>1. step'[h] = st /\ current'[h] = cu
  BY Zenon DEF HubInv, HubTypes
<1>2. HandlerInv(h)'
  <2>1. HandlerInv(h)
    BY Zenon DEF HubInv
  <2>2. UNCHANGED <<topic, attempt, tried>>
    BY Zenon DEF storeVars
  <2> QED
    BY <1>1, <2>1, <2>2, Zenon DEF HandlerInv, Concluding
<1>3. cu \in Nat
  OBVIOUS
<1> QED
  BY <1>2, <1>3, HandlerTypes, QuietStep, Zenon

(* The decision for an outcome other than delivered.                         *)
LEMMA ConcludeKeeps ==
  ASSUME HubInv, NEW h \in Handlers, UNCHANGED <<call, batch, marking>>,
         NEW o \in {"dropped", "failed"}, Conclude(h, o), step[h] # "idle",
         NEW tr \in Nat, tried' = [tried EXCEPT ![h] = tr], tr <= Bound, UNCHANGED sent
  PROVE  HubInv'
<1>1. /\ step' = [step EXCEPT ![h] = "log"] /\ outcome' = [outcome EXCEPT ![h] = o]
      /\ UNCHANGED <<storeVars, current, attempt, sent, logged, dlqLost, events>>
  BY Zenon DEF Conclude, Advance
<1>2. step'[h] = "log" /\ outcome'[h] = o /\ current'[h] = current[h] /\ tried'[h] = tr
  BY <1>1, Zenon DEF HubInv, HubTypes
<1>3. HandlerInv(h)'
  <2>1. HandlerInv(h) /\ UNCHANGED topic
    BY <1>1, Zenon DEF HubInv, storeVars
  <2> QED
    BY <1>2, <2>1, Zenon DEF HandlerInv, Concluding, Terminal
<1>4. "log" \in Steps /\ o \in {"none"} \cup Terminal
  BY Zenon DEF Steps, Terminal
<1> QED
  BY <1>1, <1>3, <1>4, HandlerTypes, QuietStep, Zenon

(* The steps before the send.                                                *)
LEMMA EarlyStepsKeep ==
  ASSUME HubInv, NEW h \in Handlers, UNCHANGED <<call, batch, marking>>,
         ProcBegin(h) \/ ProcFetch(h) \/ ProcMark(h) \/ ProcCheck(h) \/ ProcRender(h)
  PROVE  HubInv'
<1>0. HandlerInv(h) /\ HubTypes
  BY Zenon DEF HubInv
<1>1. CASE ProcBegin(h)
  <2>1. PICK i \in 1 .. Len(topic) : Begin(h, i)
    BY <1>1, Zenon DEF ProcBegin
  <2>2. "fetch" \in Steps \ (Concluding \cup {"idle"}) /\ step[h] \notin Concluding
    BY <2>1, Zenon DEF Steps, Concluding, Begin
  <2>3. /\ step' = [step EXCEPT ![h] = "fetch"] /\ current' = [current EXCEPT ![h] = i]
        /\ UNCHANGED <<storeVars, attempt, outcome, tried, sent, logged, dlqLost, events>>
    BY <2>1, Zenon DEF Begin
  <2> QED
    BY <2>2, <2>3, AdvanceKeeps, Zenon
<1>2. ASSUME NEW st \in {"mark", "render", "send"}, step[h] \in {"fetch", "check", "render"},
             Advance(h, st),
             UNCHANGED <<storeVars, current, attempt, outcome, tried, sent, logged, dlqLost,
                         events>>
      PROVE  HubInv'
  <2>1. st \in Steps \ (Concluding \cup {"idle"}) /\ step[h] \notin Concluding
    BY <1>2, Zenon DEF Steps, Concluding
  <2>2. current[h] \in 1 .. Len(topic) /\ current' = [current EXCEPT ![h] = current[h]]
    BY <1>0, <1>2, Zenon DEF HandlerInv, HubTypes
  <2> QED
    BY <1>2, <2>1, <2>2, AdvanceKeeps, Zenon DEF Advance
<1>3. CASE ProcFetch(h)
  BY <1>2, <1>3, ReturnErrorKeeps, Zenon DEF ProcFetch
<1>4. CASE ProcMark(h)
  <2>1. CASE ReturnError(h)
    BY <2>1, ReturnErrorKeeps, Zenon
  <2>2. CASE ~ReturnError(h)
    <3>1. PICK n \in Ids : n = Target(h)
      BY <1>4, TargetType, Zenon DEF ProcMark
    <3>2. /\ status' = [status EXCEPT ![n] = "processing"] /\ step' = [step EXCEPT ![h] = "check"]
          /\ UNCHANGED <<topic, dlqTopic, current, attempt, outcome, tried, sent, logged,
                         dlqLost, events>>
      BY <1>4, <2>2, <3>1, Zenon DEF ProcMark, UpdateStatus, Advance
    <3>3. /\ status' \in [Ids -> Statuses]
          /\ \A k \in Ids : status'[k] \in {"delivered", "failed"} => status'[k] = status[k]
      BY <1>0, <3>2, Zenon DEF HubTypes, Statuses
    <3>4. DeliveredWasSent' /\ FailedIsDeadLettered'
      BY <3>2, <3>3, Zenon DEF HubInv, DeliveredWasSent, FailedIsDeadLettered
    <3>5. step'[h] = "check"
      BY <1>0, <3>2, Zenon DEF HubTypes
    <3>6. HandlerInv(h)'
      BY <1>0, <1>4, <3>2, <3>5, Zenon DEF ProcMark, HandlerInv, Concluding
    <3>7. /\ sent' \in [Ids -> Nat] /\ \A k \in Ids : sent[k] <= sent'[k]
          /\ dlqTopic' \in Seq(Message)
      BY <1>0, <3>2, Unsent, Zenon
    <3>8. \A k \in Ids : InDLQ(k) => InDLQ(k)'
      BY <3>2, Zenon DEF InDLQ
    <3>9. /\ current' = [current EXCEPT ![h] = current[h]]
          /\ attempt' = [attempt EXCEPT ![h] = attempt[h]]
          /\ outcome' = [outcome EXCEPT ![h] = outcome[h]]
          /\ tried' = [tried EXCEPT ![h] = tried[h]]
      BY <3>2, HandlerTypes, Zenon
    <3>10. /\ "check" \in Steps /\ current[h] \in Nat /\ attempt[h] \in Nat /\ tried[h] \in Nat
           /\ outcome[h] \in {"none"} \cup Terminal
      BY HandlerTypes, Zenon DEF Steps
    <3> QED
      BY <3>2, <3>3, <3>4, <3>6, <3>7, <3>8, <3>9, <3>10, OneHandler, Zenon
  <2> QED
    BY <2>1, <2>2, Zenon
<1>5. ASSUME NEW o \in {"dropped", "failed"}, Conclude(h, o), UNCHANGED <<sent, tried>>,
             step[h] # "idle"
      PROVE  HubInv'
  <2>1. tried[h] \in Nat /\ tried[h] <= Bound
    BY <1>0, Zenon DEF HubTypes, HandlerInv
  <2>2. o \in {"dropped", "failed"} /\ Conclude(h, o) /\ UNCHANGED <<sent, tried>>
        /\ step[h] # "idle"
    BY <1>5, Zenon
  <2> QED
    BY <2>1, <2>2, HandlerTypes, ConcludeKeeps, SMTT(30)
<1>6. CASE ProcCheck(h)
  BY <1>2, <1>5, <1>6, ReturnErrorKeeps, Zenon DEF ProcCheck
<1>7. CASE ProcRender(h)
  BY <1>2, <1>5, <1>7, Zenon DEF ProcRender
<1> QED
  BY <1>1, <1>3, <1>4, <1>6, <1>7, Zenon

(* A round of sendWithRetry.  A success is counted before anything says so.  *)
LEMMA SendKeeps ==
  ASSUME HubInv, NEW h \in Handlers, UNCHANGED <<call, batch, marking>>, ProcSend(h)
  PROVE  HubInv'
<1>0. HandlerInv(h) /\ HubTypes /\ step[h] = "send" /\ Target(h) \in Ids
  BY TargetType, Zenon DEF HubInv, ProcSend
<1>a. /\ tried[h] \in Nat /\ attempt[h] \in Nat /\ attempt[h] <= Bound
      /\ tried[h] + 1 = attempt[h] /\ tried' = [tried EXCEPT ![h] = attempt[h]]
  BY <1>0, Zenon DEF HandlerInv, HubTypes, Concluding, ProcSend
<1>1. CASE Conclude(h, "failed") /\ UNCHANGED sent
  BY <1>0, <1>1, <1>a, ConcludeKeeps, Zenon
<1>2. CASE sent' = [sent EXCEPT ![Target(h)] = @ + 1] /\ Conclude(h, "delivered")
  <2>1. PICK n \in Ids : n = Target(h)
    BY <1>0, Zenon
  <2>2. /\ sent' \in [Ids -> Nat] /\ \A k \in Ids : sent[k] <= sent'[k]
        /\ sent'[n] > 0
    BY <1>0, <1>2, <2>1 DEF HubTypes
  <2>3. /\ step' = [step EXCEPT ![h] = "log"] /\ outcome' = [outcome EXCEPT ![h] = "delivered"]
        /\ UNCHANGED <<status, topic, dlqTopic, current, attempt, logged, dlqLost, events>>
    BY <1>2, Zenon DEF Conclude, Advance, storeVars
  <2>4. step'[h] = "log" /\ outcome'[h] = "delivered" /\ tried'[h] = attempt[h]
    BY <1>0, <1>a, <2>3, Zenon DEF HubTypes
  <2>5. HandlerInv(h)'
    <3>1. topic'[current'[h]].id = n
      BY <2>1, <2>3, Zenon DEF Target
    <3> QED
      BY <1>0, <1>a, <2>2, <2>3, <2>4, <3>1, Zenon DEF HandlerInv, Concluding, Terminal, Target
  <2>6. DeliveredWasSent'
    <3>1. \A k \in Ids : sent[k] > 0 => sent'[k] > 0
      BY <1>0, <2>2 DEF HubTypes
    <3> QED
      BY <2>3, <3>1, Zenon DEF HubInv, DeliveredWasSent
  <2>7. FailedIsDeadLettered'
    BY <2>3, Zenon DEF HubInv, FailedIsDeadLettered
  <2>8. /\ status' \in [Ids -> Statuses] /\ dlqTopic' \in Seq(Message)
        /\ \A k \in Ids : InDLQ(k) => InDLQ(k)'
    BY <1>0, <2>3, Zenon DEF HubTypes, InDLQ
  <2>9. "log" \in Steps /\ "delivered" \in {"none"} \cup Terminal
    BY Zenon DEF Steps, Terminal
  <2> QED
    BY <1>a, <2>2, <2>3, <2>5, <2>6, <2>7, <2>8, <2>9, HandlerTypes, OneHandler, Zenon
<1>3. CASE /\ attempt[h] < MaxAttempts /\ attempt' = [attempt EXCEPT ![h] = @ + 1]
           /\ UNCHANGED <<storeVars, step, current, outcome, sent, logged, dlqLost, events>>
  <2>1. attempt' = [attempt EXCEPT ![h] = attempt[h] + 1] /\ attempt[h] + 1 \in Nat
    BY <1>3, <1>a
  <2>2. attempt'[h] = attempt[h] + 1 /\ tried'[h] = attempt[h]
    BY <1>0, <1>a, <2>1, Zenon DEF HubTypes
  <2>3. attempt[h] + 1 <= Bound
    BY <1>3, <1>a, BoundType, ProcessorAssumption
  <2>4. HandlerInv(h)'
    BY <1>0, <1>3, <1>a, <2>2, <2>3, Zenon DEF HandlerInv, Concluding, storeVars
  <2> QED
    BY <1>3, <1>a, <2>1, <2>4, HandlerTypes, QuietStep, Zenon
<1> QED
  BY <1>1, <1>2, <1>3, Zenon DEF ProcSend, Sent, SendFails, TryAgain

(* A step of h among the records, after which only the step differs.         *)
LEMMA RecordStep ==
  ASSUME HubInv, NEW h \in Handlers, UNCHANGED <<topic, call, batch, marking, sent>>,
         NEW st \in Steps, step' = [step EXCEPT ![h] = st],
         UNCHANGED <<current, attempt, outcome, tried>>,
         status' \in [Ids -> Statuses], dlqTopic' \in Seq(Message),
         \A n \in Ids : InDLQ(n) => InDLQ(n)',
         step[h] \in Concluding, st \in Concluding,
         st = "status" /\ outcome[h] = "failed" /\ DLQEnabled => InDLQ(Target(h))',
         DeliveredWasSent', FailedIsDeadLettered'
  PROVE  HubInv'
<1>0. HubTypes /\ HandlerInv(h)
  BY Zenon DEF HubInv
<1>1. /\ current' = [current EXCEPT ![h] = current[h]]
      /\ attempt' = [attempt EXCEPT ![h] = attempt[h]]
      /\ outcome' = [outcome EXCEPT ![h] = outcome[h]]
      /\ tried' = [tried EXCEPT ![h] = tried[h]]
  BY HandlerTypes, Zenon
<1>2. /\ current[h] \in Nat /\ attempt[h] \in Nat /\ tried[h] \in Nat
      /\ outcome[h] \in {"none"} \cup Terminal
  BY HandlerTypes, Zenon
<1>3. sent' \in [Ids -> Nat] /\ \A n \in Ids : sent[n] <= sent'[n]
  BY <1>0 DEF HubTypes
<1>4. step'[h] = st /\ step[h] # "idle"
  BY <1>0, Zenon DEF HubTypes, Concluding
<1>5. HandlerInv(h)'
  BY <1>0, <1>4, Zenon DEF HandlerInv, Target
<1> QED
  BY <1>1, <1>2, <1>3, <1>5, OneHandler, Zenon

(* The records of step 7.                                                    *)
LEMMA RecordsKeep ==
  ASSUME HubInv, NEW h \in Handlers, UNCHANGED <<call, batch, marking>>,
         ProcLog(h) \/ ProcDeadLetter(h) \/ ProcStatus(h) \/ ProcWebhook(h)
  PROVE  HubInv'
<1>0. HubTypes /\ HandlerInv(h) /\ step[h] \in Concluding
  BY Zenon DEF HubInv, ProcLog, ProcDeadLetter, ProcStatus, ProcWebhook, Concluding
<1>1. /\ current[h] \in 1 .. Len(topic) /\ topic[current[h]] \in Message /\ Target(h) \in Ids
      /\ outcome[h] \in Terminal /\ (outcome[h] = "delivered" => sent[Target(h)] > 0)
  BY <1>0, TargetType, Zenon DEF Concluding, HandlerInv
<1>2. PICK n \in Ids : n = Target(h)
  BY <1>1, Zenon
<1>3. CASE ProcLog(h)
  <2> DEFINE st == IF outcome[h] = "failed" THEN "deadletter" ELSE "status"
  <2>1. /\ step' = [step EXCEPT ![h] = st]
        /\ logged' \subseteq logged \cup {[id |-> n, success |-> outcome[h] = "delivered"]}
        /\ UNCHANGED <<storeVars, current, attempt, outcome, tried, sent, dlqLost, events>>
    BY <1>2, <1>3, Zenon DEF ProcLog, Advance
  <2>2. UNCHANGED <<status, topic, dlqTopic>>
    BY <2>1, Zenon DEF storeVars
  <2>3. st \in Steps /\ st \in Concluding /\ ~(st = "status" /\ outcome[h] = "failed")
    BY Zenon DEF Steps, Concluding
  <2> HIDE DEF st
  <2>4. DeliveredWasSent'
    <3>1. ASSUME NEW k \in Ids, [id |-> k, success |-> TRUE] \in logged'
          PROVE  sent[k] > 0
      <4>1. CASE [id |-> k, success |-> TRUE] \in logged
        BY <4>1, Zenon DEF HubInv, DeliveredWasSent
      <4>2. CASE [id |-> k, success |-> TRUE] = [id |-> n, success |-> outcome[h] = "delivered"]
        <5>1. k = n /\ outcome[h] = "delivered"
          BY <4>2, Zenon
        <5> QED
          BY <1>1, <1>2, <5>1, Zenon
      <4> QED
        BY <2>1, <3>1, <4>1, <4>2, Zenon
    <3> QED
      BY <2>1, <2>2, <3>1, Zenon DEF HubInv, DeliveredWasSent
  <2>5. FailedIsDeadLettered'
    BY <2>1, <2>2, Zenon DEF HubInv, FailedIsDeadLettered
  <2>6. status' \in [Ids -> Statuses] /\ dlqTopic' \in Seq(Message)
    BY <1>0, <2>2, Zenon DEF HubTypes
  <2>7. \A k \in Ids : InDLQ(k) => InDLQ(k)'
    BY <2>1, <2>2, Zenon DEF InDLQ
  <2> QED
    BY <1>0, <2>1, <2>2, <2>3, <2>4, <2>5, <2>6, <2>7, RecordStep, Zenon
<1>4. CASE ProcDeadLetter(h)
  <2>1. /\ step' = [step EXCEPT ![h] = "status"]
        /\ UNCHANGED <<current, attempt, outcome, tried, sent, logged, events>>
    BY <1>4, Zenon DEF ProcDeadLetter, Advance
  <2>2. /\ UNCHANGED <<status, topic>>
        /\ UNCHANGED dlqTopic \/ dlqTopic' = Append(dlqTopic, topic[current[h]])
        /\ dlqLost' \in {dlqLost, dlqLost \cup {n}}
        /\ DLQEnabled => n \in dlqLost' \/ dlqTopic' = Append(dlqTopic, topic[current[h]])
    BY <1>2, <1>4, Zenon DEF ProcDeadLetter, PublishDLQ, storeVars
  <2>3. /\ dlqTopic' \in Seq(Message) /\ dlqTopic \in Seq(Message)
        /\ Len(dlqTopic) \in Nat /\ Len(dlqTopic') \in Nat /\ Len(dlqTopic) <= Len(dlqTopic')
        /\ \A i \in 1 .. Len(dlqTopic) : dlqTopic'[i] = dlqTopic[i]
        /\ dlqTopic' = Append(dlqTopic, topic[current[h]]) =>
             Len(dlqTopic') = Len(dlqTopic) + 1 /\ dlqTopic'[Len(dlqTopic')] = topic[current[h]]
    <3>1. dlqTopic \in Seq(Message)
      BY <1>0, Zenon DEF HubTypes
    <3>2. PICK m \in Message : m = topic[current[h]]
      BY <1>1, Zenon
    <3>3. PICK d \in Seq(Message) : d = dlqTopic
      BY <3>1, Zenon
    <3>4. PICK t : t = dlqTopic'
      BY Zenon
    <3>5. t = d \/ t = Append(d, m)
      BY <2>2, <3>2, <3>3, <3>4, Zenon
    <3>6. /\ t \in Seq(Message) /\ Len(d) \in Nat /\ Len(t) \in Nat /\ Len(d) <= Len(t)
          /\ \A i \in 1 .. Len(d) : t[i] = d[i]
          /\ t = Append(d, m) => Len(t) = Len(d) + 1 /\ t[Len(t)] = m
      BY <3>5, Longer
    <3> QED
      BY <3>1, <3>2, <3>3, <3>4, <3>6, Zenon
  <2>4. ASSUME NEW k \in Ids, InDLQ(k) PROVE InDLQ(k)'
    <3>1. CASE k \in dlqLost
      BY <2>2, <3>1, Zenon DEF InDLQ
    <3>2. CASE \E i \in 1 .. Len(dlqTopic) : dlqTopic[i].id = k
      <4>1. PICK i \in 1 .. Len(dlqTopic) : dlqTopic[i].id = k
        BY <3>2, Zenon
      <4>2. i \in 1 .. Len(dlqTopic') /\ dlqTopic'[i].id = k
        BY <2>3, <4>1
      <4> QED
        BY <4>2, Zenon DEF InDLQ
    <3> QED
      BY <2>4, <3>1, <3>2, Zenon DEF InDLQ
  <2>5. DLQEnabled => InDLQ(n)'
    <3>1. CASE n \in dlqLost'
      BY <3>1, Zenon DEF InDLQ
    <3>2. CASE dlqTopic' = Append(dlqTopic, topic[current[h]])
      <4>1. Len(dlqTopic') \in 1 .. Len(dlqTopic') /\ dlqTopic'[Len(dlqTopic')].id = n
        BY <1>2, <2>3, <3>2, SMTT(30) DEF Target
      <4> QED
        BY <4>1, Zenon DEF InDLQ
    <3> QED
      BY <2>2, <3>1, <3>2, Zenon
  <2>6. DLQEnabled => InDLQ(Target(h))'
    <3>1. n = Target(h)'
      BY <1>2, <2>1, <2>2, Zenon DEF Target
    <3> QED
      BY <2>5, <3>1, Zenon DEF InDLQ
  <2>7. DeliveredWasSent'
    BY <2>1, <2>2, Zenon DEF HubInv, DeliveredWasSent
  <2>8. FailedIsDeadLettered'
    BY <2>2, <2>4, Zenon DEF HubInv, FailedIsDeadLettered, InDLQ
  <2>9. "status" \in Steps /\ "status" \in Concluding /\ status' \in [Ids -> Statuses]
    BY <1>0, <2>2, Zenon DEF Steps, Concluding, HubTypes
  <2> QED
    BY <1>0, <2>1, <2>2, <2>3, <2>4, <2>6, <2>7, <2>8, <2>9, RecordStep, Zenon
<1>5. CASE ProcStatus(h)
  <2>1. /\ step' = [step EXCEPT ![h] = "webhook"]
        /\ UNCHANGED <<topic, dlqTopic, current, attempt, outcome, tried, sent, logged, dlqLost,
                       events>>
        /\ UNCHANGED status \/ status' = [status EXCEPT ![n] = outcome[h]]
    BY <1>2, <1>5, Zenon DEF ProcStatus, Advance, UpdateStatus, storeVars
  <2>2. /\ status' \in [Ids -> Statuses]
        /\ \A k \in Ids : status'[k] = status[k] \/ (k = n /\ status'[k] = outcome[h])
    BY <1>0, <1>1, <2>1, Zenon DEF HubTypes, Statuses
  <2>3. DeliveredWasSent'
    BY <1>1, <1>2, <2>1, <2>2, Zenon DEF HubInv, DeliveredWasSent
  <2>4. outcome[h] = "failed" /\ DLQEnabled => InDLQ(n)
    BY <1>0, <1>2, <1>5, Zenon DEF HandlerInv, ProcStatus
  <2>5. FailedIsDeadLettered'
    BY <2>1, <2>2, <2>4, Zenon DEF HubInv, FailedIsDeadLettered, InDLQ
  <2>6. "webhook" \in Steps /\ "webhook" \in Concluding /\ dlqTopic' \in Seq(Message)
    BY <1>0, <2>1, Zenon DEF Steps, Concluding, HubTypes
  <2>7. \A k \in Ids : InDLQ(k) => InDLQ(k)'
    BY <2>1, Zenon DEF InDLQ
  <2> QED
    BY <1>0, <2>1, <2>2, <2>3, <2>5, <2>6, <2>7, RecordStep, Zenon
<1>6. CASE ProcWebhook(h)
  <2>1. HandlerInv(h)'
    BY <1>6, LeaveKnows, Zenon DEF ProcWebhook
  <2>2. /\ step' = [step EXCEPT ![h] = "idle"] /\ current' = [current EXCEPT ![h] = 0]
        /\ attempt' = [attempt EXCEPT ![h] = 1] /\ outcome' = [outcome EXCEPT ![h] = "none"]
        /\ tried' = [tried EXCEPT ![h] = 0]
        /\ UNCHANGED <<storeVars, sent, logged, dlqLost>>
        /\ events' \subseteq events \cup {[id |-> n, event |-> outcome[h]]}
    BY <1>2, <1>6, Zenon DEF ProcWebhook, Leave, NoMessage
  <2>3. UNCHANGED <<status, topic, dlqTopic>>
    BY <2>2, Zenon DEF storeVars
  <2>4. DeliveredWasSent'
    <3>1. ASSUME NEW k \in Ids, [id |-> k, event |-> "delivered"] \in events'
          PROVE  sent[k] > 0
      <4>1. CASE [id |-> k, event |-> "delivered"] \in events
        BY <4>1, Zenon DEF HubInv, DeliveredWasSent
      <4>2. CASE [id |-> k, event |-> "delivered"] = [id |-> n, event |-> outcome[h]]
        <5>1. k = n /\ outcome[h] = "delivered"
          BY <4>2, Zenon
        <5> QED
          BY <1>1, <1>2, <5>1, Zenon
      <4> QED
        BY <2>2, <3>1, <4>1, <4>2, Zenon
    <3> QED
      BY <2>2, <2>3, <3>1, Zenon DEF HubInv, DeliveredWasSent
  <2>5. FailedIsDeadLettered'
    BY <2>2, <2>3, Zenon DEF HubInv, FailedIsDeadLettered
  <2>6. /\ status' \in [Ids -> Statuses] /\ dlqTopic' \in Seq(Message)
        /\ sent' \in [Ids -> Nat] /\ \A k \in Ids : sent[k] <= sent'[k]
    <3>1. status \in [Ids -> Statuses]
      BY <1>0, Zenon DEF HubTypes
    <3> QED
      BY <1>0, <2>2, <2>3, <3>1, Unsent, Zenon
  <2>7. \A k \in Ids : InDLQ(k) => InDLQ(k)'
    BY <2>2, <2>3, Zenon DEF InDLQ
  <2>8. "idle" \in Steps /\ 0 \in Nat /\ 1 \in Nat /\ "none" \in {"none"} \cup Terminal
    BY Zenon DEF Steps
  <2> QED
    BY <2>1, <2>2, <2>3, <2>4, <2>5, <2>6, <2>7, <2>8, OneHandler, Zenon
<1> QED
  BY <1>3, <1>4, <1>5, <1>6, Zenon

(* A crash cuts off every run of Process; what was recorded stays true.      *)
LEMMA CrashKeeps ==
  ASSUME HubInv, WorkerCrash
  PROVE  HubInv'
<1>0. HubTypes
  BY Zenon DEF HubInv
<1>1. /\ step' = [h \in Handlers |-> "idle"] /\ current' = [h \in Handlers |-> 0]
      /\ attempt' = [h \in Handlers |-> 1] /\ outcome' = [h \in Handlers |-> "none"]
      /\ tried' = [h \in Handlers |-> 0]
      /\ UNCHANGED <<status, topic, dlqTopic, sent, logged, dlqLost, events, call, batch, marking>>
  BY Zenon DEF WorkerCrash, ProcCrash, NoMessage, storeVars, serviceVars, schedulerVars
<1>2. HubTypes'
  <2>1. step' \in [Handlers -> Steps] /\ outcome' \in [Handlers -> {"none"} \cup Terminal]
    BY <1>1, Zenon DEF Steps
  <2>2. current' \in [Handlers -> Nat] /\ attempt' \in [Handlers -> Nat] /\ tried' \in [Handlers -> Nat]
    BY <1>1, Zenon
  <2> QED
    BY <1>0, <1>1, <2>1, <2>2, Zenon DEF HubTypes
<1>3. ASSUME NEW h \in Handlers PROVE HandlerInv(h)'
  BY <1>1, BoundType DEF HandlerInv, Concluding
<1>4. DeliveredWasSent' /\ FailedIsDeadLettered'
  BY <1>1, Zenon DEF HubInv, DeliveredWasSent, FailedIsDeadLettered
<1> QED
  BY <1>2, <1>3, <1>4, Zenon DEF HubInv

-----------------------------------------------------------------------------
(* The theorems. *)

(* Every step of every part keeps the invariant.                             *)
LEMMA HubNext == HubInv /\ [Next]_vars => HubInv'
<1> SUFFICES ASSUME HubInv, [Next]_vars PROVE HubInv'
  BY Zenon
<1>1. ASSUME NEW h \in Handlers, Process(h) PROVE HubInv'
  <2>1. UNCHANGED <<call, batch, marking>>
    BY <1>1, Zenon DEF Process, serviceVars, schedulerVars
  <2> QED
    BY <1>1, <2>1, EarlyStepsKeep, SendKeeps, RecordsKeep, Zenon DEF Process, ProcStep
<1> QED
  BY <1>1, ServiceKeeps, OthersKeep, CrashKeeps, Zenon DEF Next, CalmNext

(* Whatever says that a notification was delivered is preceded by a send the *)
(* provider accepted, for any number of requests, handlers, redeliveries,    *)
(* errors and crashes.                                                       *)
THEOREM DeliveryIsTrue == Spec => []DeliveredWasSent
<1>1. HubInv => DeliveredWasSent
  BY Zenon DEF HubInv
<1> QED
  BY <1>1, HubInit, HubNext, PTL DEF Spec

(* A notification marked failed is in the dead-letter topic, or publishing   *)
(* it there failed: the dead letter comes before the mark.                   *)
THEOREM FailureIsTrue == Spec => []FailedIsDeadLettered
<1>1. HubInv => FailedIsDeadLettered
  BY Zenon DEF HubInv
<1> QED
  BY <1>1, HubInit, HubNext, PTL DEF Spec

(* A run of Process calls the provider MaxAttempts times at most.            *)
THEOREM RetriesAreBounded == Spec => []RetryBounded
<1>1. HubInv => RetryBounded
  BY Zenon DEF HubInv, HandlerInv, RetryBounded, Bound
<1> QED
  BY <1>1, HubInit, HubNext, PTL DEF Spec

-----------------------------------------------------------------------------
(* Requests and rows: the inductive invariant. *)

\* The columns that only the INSERT and the clock write, and the answers.
RowTypes ==
  /\ tenantOf \in [Ids -> Tenants \cup {NullTenant}]
  /\ keyOf \in [Ids -> Keys \cup {NoKey}]
  /\ schedule \in [Ids -> {"null", "future", "due"}]
  /\ answers \subseteq Answer /\ recalled \subseteq Ids

\* The UNIQUE constraint, and what it says of ids that are not in use yet.
KeysUnique ==
  /\ \A n \in Ids : status[n] = "absent" => keyOf[n] = NoKey
  /\ \A m, n \in Ids : keyOf[m] = keyOf[n] /\ keyOf[m] # NoKey => m = n

Pending == {"enqueue", "mark"}

\* A request between INSERT and answer holds the row it inserted, and marks
\* it only after it published it.
CallInv(c) ==
  /\ call[c].pc # "ready" => call[c].tenant \in Tenants
  /\ call[c].pc \notin Pending => call[c].id = NoId
  /\ call[c].pc \in Pending =>
       /\ call[c].id \in Existing
       /\ tenantOf[call[c].id] = call[c].tenant /\ keyOf[call[c].id] = call[c].key
  /\ call[c].pc = "mark" => Published(call[c].id)

\* An answer names a row with the tenant and the key of the request.
AnswerInv ==
  \A a \in answers : a.result > 0 =>
    /\ a.result \in Existing
    /\ tenantOf[a.result] = a.tenant /\ keyOf[a.result] = a.key

\* No worker has anything to do with n.
Untouched(n) ==
  /\ ~Published(n)
  /\ \A s \in Schedulers : n \notin batch[s] /\ marking[s] # n

\* Nothing is published before its INSERT or before it is due.
EarlyInv ==
  \A n \in Ids : status[n] = "absent" \/ schedule[n] = "future" => Untouched(n)

\* A recalled row is out of everyone's reach.
RecallInv ==
  \A n \in recalled :
    /\ status[n] = "dropped" /\ Untouched(n)
    /\ \A c \in Clients : call[c].id # n

\* Where a row that has to be sent at once is.
Explained(n) ==
  \/ Published(n) \/ schedule[n] # "null"
  \/ \E c \in Clients : call[c].id = n
  \/ \E b \in answers : b.tenant = tenantOf[n] /\ b.key = keyOf[n] /\ b.result = Failure

ExplainedInv == \A n \in Existing : Explained(n)

RequestInv ==
  /\ RowTypes /\ KeysUnique /\ (\A c \in Clients : CallInv(c))
  /\ AnswerInv /\ EarlyInv /\ RecallInv /\ ExplainedInv

\* Process was started on n.
HandedOnce(n) == \E i \in 1 .. Len(topic) : topic[i].id = n /\ handed[i] > 0

Active(h) == step[h] # "idle"

RunInv ==
  /\ Len(topic) <= MaxLog /\ handed \in [Indexes -> Nat]
  /\ \A h \in Handlers : Active(h) => handed[current[h]] > 0
  /\ \A g, h \in Handlers :
       g # h /\ Active(g) /\ Active(h) /\ Target(g) = Target(h) => HandedAgain(Target(h))
  /\ \A n \in Ids : status[n] \in Terminal => n \in cancelled \/ HandedOnce(n)
  /\ \A h \in Handlers :
       Active(h) /\ step[h] # "webhook" /\ status[Target(h)] \in Terminal =>
         Target(h) \in cancelled \/ HandedAgain(Target(h))

-----------------------------------------------------------------------------
(* Requests: rows, calls and answers. *)

(* At the start there is no row, no request has begun, nothing is queued.    *)
LEMMA RequestsStart == Init => RequestInv
<1> SUFFICES ASSUME Init PROVE RequestInv
  BY Zenon
<1> USE DEF Init, StoreInit, ServiceInit, SchedulerInit
<1>1. RowTypes
  BY Zenon DEF RowTypes
<1>2. KeysUnique /\ AnswerInv /\ RecallInv
  BY Zenon DEF KeysUnique, AnswerInv, RecallInv
<1>3. ASSUME NEW c \in Clients PROVE CallInv(c)
  BY Zenon DEF CallInv, Pending
<1>4. EarlyInv
  <2>1. \A n \in Ids : ~Published(n)
    BY DEF Published
  <2> QED
    BY <2>1 DEF EarlyInv, Untouched, NoRow, Ids
<1>5. ExplainedInv
  BY Zenon DEF ExplainedInv, Existing
<1> QED
  BY <1>1, <1>2, <1>3, <1>4, <1>5, Zenon DEF RequestInv

(* Existing rows keep their tenant, their key and, if they have one, a       *)
(* schedule; what is published stays published.                              *)
Kept ==
  /\ \A n \in Existing :
       /\ n \in Existing' /\ tenantOf'[n] = tenantOf[n] /\ keyOf'[n] = keyOf[n]
       /\ schedule[n] # "null" => schedule'[n] # "null"
  /\ \A n \in Ids : Published(n) => Published(n)'

\* The topic is as it was, or the message m was appended.
MayPublish(m) == UNCHANGED topic \/ topic' = Append(topic, m)

(* A publish adds one notification to the published ones.                    *)
LEMMA PublishAdds ==
  ASSUME topic \in Seq(Message), NEW m \in Message, MayPublish(m)
  PROVE  /\ \A n : Published(n) => Published(n)'
         /\ \A n : Published(n)' => Published(n) \/ n = m.id
         /\ topic' = Append(topic, m) => Published(m.id)'
<1>1. PICK t : t = topic'
  BY Zenon
<1>2. t = topic \/ t = Append(topic, m)
  BY <1>1, Zenon DEF MayPublish
<1>3. /\ Len(topic) \in Nat /\ Len(t) \in Nat /\ Len(topic) <= Len(t)
      /\ \A i \in 1 .. Len(topic) : t[i] = topic[i]
      /\ t = Append(topic, m) => Len(t) = Len(topic) + 1 /\ t[Len(t)] = m
  BY <1>2, Longer
<1>4. ASSUME NEW n, Published(n) PROVE Published(n)'
  BY <1>1, <1>3, <1>4 DEF Published
<1>5. ASSUME NEW n, Published(n)' PROVE Published(n) \/ n = m.id
  <2>1. PICK i \in 1 .. Len(t) : t[i].id = n
    BY <1>1, <1>5, Zenon DEF Published
  <2>2. CASE i \in 1 .. Len(topic)
    BY <1>3, <2>1, <2>2, Zenon DEF Published
  <2>3. CASE i \notin 1 .. Len(topic)
    <3>1. t = Append(topic, m) /\ i = Len(t)
      BY <1>2, <1>3, <2>1, <2>3
    <3> QED
      BY <1>3, <2>1, <3>1, Zenon
  <2> QED
    BY <2>2, <2>3, Zenon
<1>6. topic' = Append(topic, m) => Published(m.id)'
  BY <1>1, <1>3 DEF Published
<1> QED
  BY <1>4, <1>5, <1>6, Zenon

(* Where a request is after Return, and the answer it leaves.                *)
LEMMA Returned ==
  ASSUME HubTypes, NEW c \in Clients, NEW x, Return(c, x)
  PROVE  /\ \A d \in Clients : d # c => call'[d] = call[d]
         /\ call'[c].id = NoId /\ call'[c].pc \notin Pending
         /\ call'[c].tenant = call[c].tenant
         /\ answers' = answers \cup
              {[tenant |-> call[c].tenant, key |-> call[c].key, result |-> x]}
         /\ UNCHANGED cancelled
<1>1. call \in [Clients -> Call] /\ call[c] \in Call
  BY Zenon DEF HubTypes
<1>2. PICK g, f : /\ g = call[c]
                  /\ f = [g EXCEPT !.pc = IF call[c].left > 0 THEN "create" ELSE "done",
                                   !.id = NoId,
                                   !.left = IF call[c].left > 0 THEN call[c].left - 1 ELSE 0]
  BY Zenon
<1>3. call' = [call EXCEPT ![c] = f]
  BY <1>2, Zenon DEF Return
<1>4. f.id = NoId /\ f.pc \notin Pending /\ f.tenant = g.tenant
  BY <1>1, <1>2, Zenon DEF Call, Pending
<1> QED
  BY <1>1, <1>2, <1>3, <1>4, Zenon DEF Return

\* x is a result Send may give to the request c.
MayAnswer(c, x) ==
  /\ x \in Ids \cup {Conflict, Failure}
  /\ x > 0 => /\ x \in Existing
              /\ tenantOf[x] = call[c].tenant /\ keyOf[x] = call[c].key

(* A request that returns takes back its claim on its row: either the row is *)
(* published, or it waits, or the answer is a failure.                       *)
LEMMA ReturnKeeps ==
  ASSUME HubTypes, RequestInv, Kept, NEW c \in Clients, NEW x,
         Return(c, x), MayAnswer(c, x), call[c].pc # "ready",
         NEW r, r = call[c].id,
         r # NoId => x = Failure \/ Published(r)' \/ schedule[r] # "null"
  PROVE  /\ \A d \in Clients : CallInv(d)'
         /\ AnswerInv' /\ answers' \subseteq Answer
         /\ \A n \in Existing : Explained(n)'
<1>0. /\ \A d \in Clients : d # c => call'[d] = call[d]
      /\ call'[c].id = NoId /\ call'[c].pc \notin Pending /\ call'[c].tenant = call[c].tenant
  BY Returned, Zenon
<1>1. PICK a : /\ a = [tenant |-> call[c].tenant, key |-> call[c].key, result |-> x]
               /\ answers' = answers \cup {a}
  BY Returned, Zenon
<1>2. a.tenant = call[c].tenant /\ a.key = call[c].key /\ a.result = x
  BY <1>1, Zenon
<1>a. call[c].tenant \in Tenants
  BY Zenon DEF RequestInv, CallInv
<1>3. ASSUME NEW d \in Clients PROVE CallInv(d)'
  <2>1. CASE d = c
    BY <1>0, <1>a, <2>1, Zenon DEF CallInv, Pending
  <2>2. CASE d # c
    <3>1. CallInv(d) /\ call'[d] = call[d]
      BY <1>0, <2>2, Zenon DEF RequestInv
    <3>2. call[d].pc \in Pending => call[d].id \in Existing
      BY <3>1, Zenon DEF CallInv
    <3> QED
      BY <3>1, <3>2, Zenon DEF CallInv, Kept, Existing, Pending
  <2> QED
    BY <2>1, <2>2, Zenon
<1>4. AnswerInv'
  <2> SUFFICES ASSUME NEW b \in answers', b.result > 0
               PROVE  /\ b.result \in Existing'
                      /\ tenantOf'[b.result] = b.tenant /\ keyOf'[b.result] = b.key
    BY Zenon DEF AnswerInv
  <2>1. /\ b.result \in Existing
        /\ tenantOf[b.result] = b.tenant /\ keyOf[b.result] = b.key
    BY <1>1, <1>2, Zenon DEF RequestInv, AnswerInv, MayAnswer
  <2> QED
    BY <2>1, Zenon DEF Kept
<1>5. a \in Answer
  <2>1. call[c] \in Call
    BY Zenon DEF HubTypes
  <2>2. call[c].tenant \in Tenants /\ call[c].key \in Keys \cup {NoKey}
    BY <1>a, <2>1, Zenon DEF Call
  <2> QED
    BY <1>1, <2>2, Zenon DEF Answer, MayAnswer
<1>6. ASSUME NEW n \in Existing PROVE Explained(n)'
  <2>1. Explained(n) /\ n \in Ids
    BY Zenon DEF RequestInv, ExplainedInv, Existing
  <2>2. CASE Published(n) \/ schedule[n] # "null"
    BY <2>1, <2>2, Zenon DEF Kept, Explained
  <2>3. CASE \E d \in Clients : d # c /\ call[d].id = n
    BY <1>0, <2>3, Zenon DEF Explained
  <2>4. CASE call[c].id = n
    <3>1. n # NoId
      BY <2>1 DEF Ids, NoId
    <3>2. tenantOf[n] = call[c].tenant /\ keyOf[n] = call[c].key
      BY <2>4, <3>1, Zenon DEF RequestInv, CallInv
    <3>3. CASE x = Failure
      <4>1. a \in answers' /\ a.tenant = tenantOf'[n] /\ a.key = keyOf'[n] /\ a.result = Failure
        BY <1>1, <1>2, <3>2, <3>3, Zenon DEF Kept
      <4> QED
        BY <4>1, Zenon DEF Explained
    <3> QED
      BY <2>1, <2>4, <3>1, <3>3, Zenon DEF Explained, Kept
  <2>5. CASE \E b \in answers : b.tenant = tenantOf[n] /\ b.key = keyOf[n] /\ b.result = Failure
    BY <1>1, <2>5, Zenon DEF Kept, Explained
  <2> QED
    BY <2>1, <2>2, <2>3, <2>4, <2>5, Zenon DEF Explained
<1> QED
  BY <1>1, <1>3, <1>4, <1>5, <1>6, Zenon DEF RequestInv, RowTypes

\* Request c goes on with the record r, without answering.
MovesTo(c, r) ==
  /\ call' = [call EXCEPT ![c] = r] /\ r.id = call[c].id
  /\ r.pc # "ready" => r.tenant \in Tenants
  /\ r.pc \notin Pending => r.id = NoId
  /\ r.pc \in Pending =>
       call[c].pc \in Pending /\ r.tenant = call[c].tenant /\ r.key = call[c].key
  /\ r.pc = "mark" => \E n \in Ids : n = r.id /\ Published(n)'

(* Requests that stand still, or one that moves without answering.           *)
LEMMA MoveKeeps ==
  ASSUME HubTypes, RequestInv, Kept, UNCHANGED answers,
         UNCHANGED call \/ \E c \in Clients : \E r : MovesTo(c, r)
  PROVE  /\ \A d \in Clients : CallInv(d)'
         /\ AnswerInv' /\ answers' \subseteq Answer
         /\ \A n \in Existing : Explained(n)'
<1>0. \A d \in Clients : call'[d].id = call[d].id
  BY Zenon DEF HubTypes, MovesTo
<1>1. ASSUME NEW d \in Clients, call'[d] = call[d] PROVE CallInv(d)'
  <2>1. CallInv(d)
    BY Zenon DEF RequestInv
  <2>2. call[d].pc \in Pending => call[d].id \in Existing
    BY <2>1, Zenon DEF CallInv
  <2> QED
    BY <1>1, <2>1, <2>2, Zenon DEF CallInv, Kept, Existing, Pending
<1>2. ASSUME NEW d \in Clients PROVE CallInv(d)'
  <2>1. CASE UNCHANGED call
    BY <1>1, <2>1, Zenon
  <2>2. CASE ~UNCHANGED call
    <3>0. PICK c \in Clients : \E r : MovesTo(c, r)
      BY <2>2, Zenon
    <3>1. PICK r : MovesTo(c, r)
      BY <3>0, Zenon
    <3> USE DEF MovesTo
    <3>2. CASE d # c
      BY <1>1, <3>1, <3>2, Zenon DEF HubTypes
    <3>3. CASE d = c
      <4>1. call'[c] = r
        BY <3>1, Zenon DEF HubTypes
      <4>2. call[c].pc \in Pending =>
              /\ call[c].id \in Existing
              /\ tenantOf[call[c].id] = call[c].tenant /\ keyOf[call[c].id] = call[c].key
        BY Zenon DEF RequestInv, CallInv
      <4>3. r.pc \in Pending =>
              r.id \in Existing' /\ tenantOf'[r.id] = r.tenant /\ keyOf'[r.id] = r.key
        BY <3>1, <4>2 DEF Kept
      <4>4. r.pc = "mark" => Published(call[c].id)'
        BY <3>1, <4>1, Zenon DEF Published
      <4>5. r.pc = "mark" => Published(call[d].id)'
        BY <3>3, <4>4, Zenon
      <4> QED
        BY <3>1, <3>3, <4>1, <4>3, <4>5, Zenon DEF CallInv
    <3> QED
      BY <3>2, <3>3, Zenon
  <2> QED
    BY <2>1, <2>2, Zenon
<1>3. AnswerInv'
  BY Zenon DEF RequestInv, AnswerInv, Kept
<1>4. ASSUME NEW n \in Existing PROVE Explained(n)'
  <2>1. Explained(n) /\ n \in Ids
    BY Zenon DEF RequestInv, ExplainedInv, Existing
  <2> QED
    BY <1>0, <2>1, Zenon DEF Kept, Explained
<1> QED
  BY <1>2, <1>3, <1>4, Zenon DEF RequestInv, RowTypes

(* The keys stay unique when no row is inserted.                             *)
LEMMA KeysKeep ==
  ASSUME RequestInv, UNCHANGED <<tenantOf, keyOf>>,
         \A n \in Ids : status'[n] = "absent" => status[n] = "absent"
  PROVE  KeysUnique'
  BY Zenon DEF RequestInv, KeysUnique

(* Workers get to see rows that exist, that are due and not recalled.        *)
LEMMA QueuesKeep ==
  ASSUME RequestInv, UNCHANGED recalled,
         \A n \in Ids : ~Untouched(n)' =>
           \/ ~Untouched(n)
           \/ status[n] # "absent" /\ schedule[n] # "future" /\ n \notin recalled,
         \A n \in Ids : status'[n] = "absent" => status[n] = "absent",
         \A n \in Ids : schedule'[n] = "future" => schedule[n] = "future" \/ status[n] = "absent",
         \A n \in recalled : status'[n] = status[n],
         \A n \in recalled, c \in Clients : call'[c].id # n
  PROVE  EarlyInv' /\ RecallInv'
<1>1. EarlyInv'
  <2> SUFFICES ASSUME NEW n \in Ids, status'[n] = "absent" \/ schedule'[n] = "future"
               PROVE  Untouched(n)'
    BY Zenon DEF EarlyInv
  <2>1. status[n] = "absent" \/ schedule[n] = "future"
    BY Zenon
  <2>2. Untouched(n)
    BY <2>1, Zenon DEF RequestInv, EarlyInv
  <2> QED
    BY <2>1, <2>2, Zenon
<1>2. RecallInv'
  <2> SUFFICES ASSUME NEW n \in recalled
               PROVE  /\ status'[n] = "dropped" /\ Untouched(n)'
                      /\ \A c \in Clients : call'[c].id # n
    BY Zenon DEF RecallInv
  <2>1. n \in Ids /\ status[n] = "dropped" /\ Untouched(n)
    BY Zenon DEF RequestInv, RowTypes, RecallInv
  <2>2. Untouched(n)'
    BY <2>1, Zenon
  <2> QED
    BY <2>1, <2>2, Zenon
<1> QED
  BY <1>1, <1>2, Zenon

\* A message of notification n is published.
Enqueues(n) == \E m \in Message : m.id = n /\ topic' = Append(topic, m)

\* Nobody publishes, or somebody publishes what the workers may see.
PublishesDue ==
  \/ UNCHANGED topic
  \/ \E n \in Existing : schedule[n] # "future" /\ n \notin recalled /\ Enqueues(n)

(* Publishing keeps what is published, and touches only what is due.         *)
LEMMA DueTouched ==
  ASSUME HubTypes, PublishesDue
  PROVE  /\ \A n \in Ids : Published(n) => Published(n)'
         /\ \A n \in Ids : Published(n)' =>
              \/ Published(n)
              \/ status[n] # "absent" /\ schedule[n] # "future" /\ n \notin recalled
<1>1. CASE UNCHANGED topic
  BY <1>1, Zenon DEF Published
<1>2. CASE \E n \in Existing : schedule[n] # "future" /\ n \notin recalled /\ Enqueues(n)
  <2>1. PICK k \in Existing, m \in Message :
          /\ schedule[k] # "future" /\ k \notin recalled
          /\ m.id = k /\ topic' = Append(topic, m)
    BY <1>2, Zenon DEF Enqueues
  <2>2. /\ \A n : Published(n) => Published(n)'
        /\ \A n : Published(n)' => Published(n) \/ n = k
    BY <2>1, PublishAdds, Zenon DEF HubTypes, MayPublish
  <2> QED
    BY <2>1, <2>2, Zenon DEF Existing
<1> QED
  BY <1>1, <1>2, Zenon DEF PublishesDue

(* Rows and messages are kept by a step that writes no column but status.    *)
LEMMA RowsKept ==
  ASSUME HubTypes, UNCHANGED columns, PublishesDue,
         \A n \in Ids : status'[n] = "absent" <=> status[n] = "absent"
  PROVE  Kept /\ Existing' = Existing
<1>1. Existing' = Existing /\ UNCHANGED <<tenantOf, keyOf, schedule>>
  BY Zenon DEF Existing, columns
<1> QED
  BY <1>1, DueTouched, Zenon DEF Kept

(* A step that inserts no row keeps the invariant if it keeps what is said   *)
(* of calls and answers.                                                     *)
LEMMA NoInsertKeeps ==
  ASSUME HubTypes, RequestInv, UNCHANGED <<columns, recalled, batch, marking>>, PublishesDue,
         \A n \in Ids : status'[n] = "absent" <=> status[n] = "absent",
         \A n \in recalled : status'[n] = status[n],
         \A d \in Clients : call'[d].id \in {call[d].id, NoId},
         \A d \in Clients : CallInv(d)',
         AnswerInv', answers' \subseteq Answer, \A n \in Existing : Explained(n)'
  PROVE  RequestInv'
<1>1. UNCHANGED <<tenantOf, keyOf, schedule>>
  BY Zenon DEF columns
<1>2. RowTypes'
  BY <1>1, Zenon DEF RequestInv, RowTypes
<1>3. KeysUnique'
  BY <1>1, KeysKeep, Zenon
<1>4. ExplainedInv'
  BY RowsKept, Zenon DEF ExplainedInv
<1>5. EarlyInv' /\ RecallInv'
  <2>1. ASSUME NEW n \in Ids, ~Untouched(n)'
        PROVE  \/ ~Untouched(n)
               \/ status[n] # "absent" /\ schedule[n] # "future" /\ n \notin recalled
    BY <2>1, DueTouched, Zenon DEF Untouched
  <2>2. ASSUME NEW n \in recalled, NEW c \in Clients PROVE call'[c].id # n
    <3>1. n \in Ids /\ call[c].id # n
      BY Zenon DEF RequestInv, RowTypes, RecallInv
    <3>2. n # NoId
      BY <3>1 DEF Ids, NoId
    <3> QED
      BY <3>1, <3>2, Zenon
  <2> QED
    BY <1>1, <2>1, <2>2, QueuesKeep, Zenon
<1> QED
  BY <1>2, <1>3, <1>4, <1>5, Zenon DEF RequestInv

(* The types of a call and the row it holds.                                 *)
LEMMA CallRow ==
  ASSUME HubTypes, RequestInv, NEW c \in Clients
  PROVE  /\ call[c] \in Call /\ CallInv(c)
         /\ call[c].pc \in Pending =>
              /\ call[c].id \in Existing /\ call[c].id \in Ids /\ call[c].id \notin recalled
              /\ call[c].id > 0
         /\ call[c].pc \notin Pending => call[c].id = NoId
<1>1. call[c] \in Call /\ CallInv(c)
  BY Zenon DEF HubTypes, RequestInv
<1> QED
  BY <1>1 DEF CallInv, RequestInv, RecallInv, Existing, Ids

(* SendStart and SendLookup write no table.                                  *)
LEMMA LookupKeeps ==
  ASSUME HubTypes, RequestInv, NEW c \in Clients, SendStart(c) \/ SendLookup(c),
         UNCHANGED <<schedulerVars, recalled>>
  PROVE  RequestInv'
<1>1. UNCHANGED <<status, columns, topic, recalled, batch, marking>>
  BY Zenon DEF SendStart, SendLookup, storeVars, columns, schedulerVars
<1>2. Kept /\ PublishesDue
  BY <1>1, RowsKept, Zenon DEF PublishesDue
<1>3. call[c].pc \notin Pending /\ call[c].id = NoId
  BY CallRow, Zenon DEF SendStart, SendLookup, Pending
<1>4. ASSUME \A d \in Clients : call'[d].id \in {call[d].id, NoId},
             \A d \in Clients : CallInv(d)', AnswerInv', answers' \subseteq Answer,
             \A n \in Existing : Explained(n)'
      PROVE  RequestInv'
  BY <1>1, <1>2, <1>4, NoInsertKeeps, Zenon
<1>5. CASE SendStart(c)
  <2>1. PICK t \in Tenants, k \in Keys \cup {NoKey}, s \in Schedules, b \in 0 .. MaxBulk :
          call' = [call EXCEPT ![c] =
            [pc |-> IF k \in {NoKey, EmptyKey} THEN "create" ELSE "lookup", tenant |-> t,
             key |-> k, schedule |-> s, id |-> NoId, left |-> b]]
    BY <1>5, Zenon DEF SendStart
  <2>a. PICK r : r =
            [pc |-> IF k \in {NoKey, EmptyKey} THEN "create" ELSE "lookup", tenant |-> t,
             key |-> k, schedule |-> s, id |-> NoId, left |-> b]
    BY Zenon
  <2>2. /\ call' = [call EXCEPT ![c] = r]
        /\ r.pc \notin Pending /\ r.tenant \in Tenants /\ r.id = NoId
    BY <2>1, <2>a, Zenon DEF Pending
  <2>3. /\ \A d \in Clients : CallInv(d)'
        /\ AnswerInv' /\ answers' \subseteq Answer
        /\ \A n \in Existing : Explained(n)'
    <3>1. UNCHANGED answers
      BY <1>5, Zenon DEF SendStart
    <3> QED
      BY <1>2, <1>3, <2>2, <3>1, MoveKeeps, Zenon DEF Pending, MovesTo
  <2>4. \A d \in Clients : call'[d].id \in {call[d].id, NoId}
    BY <2>2, Zenon DEF HubTypes
  <2> QED
    BY <1>4, <2>3, <2>4, Zenon
<1>6. CASE SendLookup(c)
  <2>1. CASE Goto(c, "create") /\ UNCHANGED answers
    <3>1. PICK r : r = [call[c] EXCEPT !.pc = "create"]
      BY Zenon
    <3>2. /\ call' = [call EXCEPT ![c] = r] /\ r.pc = "create" /\ r.id = NoId
          /\ r.tenant = call[c].tenant /\ r.pc \notin Pending
      BY <1>3, <2>1, <3>1, CallRow, Zenon DEF Goto, Call, Pending
    <3>3. r.tenant \in Tenants
      BY <1>6, <3>2, CallRow, Zenon DEF CallInv, SendLookup
    <3>4. /\ \A d \in Clients : CallInv(d)'
          /\ AnswerInv' /\ answers' \subseteq Answer
          /\ \A n \in Existing : Explained(n)'
      BY <1>2, <1>3, <2>1, <3>2, <3>3, MoveKeeps, Zenon DEF MovesTo
    <3>5. \A d \in Clients : call'[d].id \in {call[d].id, NoId}
      BY <3>2, Zenon DEF HubTypes
    <3> QED
      BY <1>4, <3>4, <3>5, Zenon
  <2>2. CASE \E n \in FindByKey(call[c].tenant, call[c].key) \cup {Failure} : Return(c, n)
    <3>1. PICK x \in FindByKey(call[c].tenant, call[c].key) \cup {Failure} : Return(c, x)
      BY <2>2, Zenon
    <3>2. MayAnswer(c, x)
      BY DEF FindByKey, MayAnswer, Failure, Existing
    <3>3. call[c].pc # "ready"
      BY <1>6, Zenon DEF SendLookup
    <3>4. /\ \A d \in Clients : CallInv(d)'
          /\ AnswerInv' /\ answers' \subseteq Answer
          /\ \A n \in Existing : Explained(n)'
      BY <1>2, <1>3, <3>1, <3>2, <3>3, ReturnKeeps, Zenon
    <3>5. \A d \in Clients : call'[d].id \in {call[d].id, NoId}
      BY <3>1, Returned, Zenon
    <3> QED
      BY <1>4, <3>4, <3>5, Zenon
  <2> QED
    BY <1>6, <2>1, <2>2, Zenon DEF SendLookup
<1> QED
  BY <1>5, <1>6, Zenon

(* The INSERT: a new id with a key nobody has.                               *)
LEMMA InsertKeeps ==
  ASSUME HubTypes, RequestInv, NEW c \in Clients, call[c].pc = "create", NEW n \in Ids,
         ~KeyTaken(call[c].key), Create(n, call[c].tenant, call[c].key, call[c].schedule),
         call' = [call EXCEPT ![c].pc = "enqueue", ![c].id = n],
         UNCHANGED <<answers, schedulerVars, recalled>>
  PROVE  RequestInv'
<1>1. PICK t, k, s, r : /\ t = call[c].tenant /\ k = call[c].key /\ s = call[c].schedule
                        /\ r = [call[c] EXCEPT !.pc = "enqueue", !.id = n]
  BY Zenon
<1>2. /\ status[n] = "absent" /\ status' = [status EXCEPT ![n] = "pending"]
      /\ tenantOf' = [tenantOf EXCEPT ![n] = t] /\ keyOf' = [keyOf EXCEPT ![n] = k]
      /\ schedule' = [schedule EXCEPT ![n] = s] /\ UNCHANGED <<topic, batch, marking>>
  BY <1>1, Zenon DEF Create, schedulerVars
<1>3. /\ call[c] \in Call /\ t \in Tenants /\ k \in Keys \cup {NoKey}
      /\ s \in {"null", "future", "due"} /\ call[c].id = NoId
  BY <1>1, CallRow, Zenon DEF Call, CallInv, Pending
<1>4. /\ call' = [call EXCEPT ![c] = r] /\ call'[c] = r
      /\ r.pc = "enqueue" /\ r.id = n /\ r.tenant = t /\ r.key = k
  BY <1>1, <1>3, Zenon DEF HubTypes, Call
<1>5. /\ \A m \in Ids : m # n => /\ status'[m] = status[m] /\ tenantOf'[m] = tenantOf[m]
                                 /\ keyOf'[m] = keyOf[m] /\ schedule'[m] = schedule[m]
      /\ status'[n] = "pending" /\ tenantOf'[n] = t /\ keyOf'[n] = k /\ schedule'[n] = s
  BY <1>2, Zenon DEF HubTypes, RequestInv, RowTypes
<1>6. RowTypes'
  <2>1. tenantOf' \in [Ids -> Tenants \cup {NullTenant}]
    BY <1>2, <1>3, Zenon DEF RequestInv, RowTypes
  <2>2. keyOf' \in [Ids -> Keys \cup {NoKey}]
    BY <1>2, <1>3, Zenon DEF RequestInv, RowTypes
  <2>3. schedule' \in [Ids -> {"null", "future", "due"}]
    BY <1>2, <1>3, Zenon DEF RequestInv, RowTypes
  <2> QED
    BY <2>1, <2>2, <2>3, Zenon DEF RequestInv, RowTypes
<1>7. Kept /\ Existing' = Existing \cup {n} /\ n \notin Existing
  BY <1>2, <1>5, Zenon DEF Kept, Existing, Published
<1>8. KeysUnique'
  <2>1. k # NoKey => \A m \in Existing : keyOf[m] # k
    BY <1>1, Zenon DEF KeyTaken
  <2>2. k # NoKey => \A m \in Ids : keyOf[m] # k
    BY <2>1, Zenon DEF RequestInv, KeysUnique, Existing
  <2>3. \A m \in Ids : status'[m] = "absent" => keyOf'[m] = NoKey
    BY <1>5, Zenon DEF RequestInv, KeysUnique
  <2>4. ASSUME NEW a \in Ids, NEW b \in Ids, keyOf'[a] = keyOf'[b], keyOf'[a] # NoKey
        PROVE  a = b
    BY <1>5, <2>2, <2>4 DEF RequestInv, KeysUnique
  <2> QED
    BY <2>3, <2>4, Zenon DEF KeysUnique
<1>9. ASSUME NEW d \in Clients PROVE CallInv(d)'
  <2>1. CASE d = c
    BY <1>3, <1>4, <1>5, <1>7, <2>1, Zenon DEF CallInv, Pending
  <2>2. CASE d # c
    <3>1. CallInv(d) /\ call'[d] = call[d]
      BY <1>4, <2>2, Zenon DEF RequestInv, HubTypes
    <3>2. call[d].pc \in Pending => call[d].id \in Existing
      BY <3>1, Zenon DEF CallInv
    <3> QED
      BY <1>7, <3>1, <3>2, Zenon DEF CallInv, Kept, Existing, Pending
  <2> QED
    BY <2>1, <2>2, Zenon
<1>10. AnswerInv'
  BY <1>7, Zenon DEF RequestInv, AnswerInv, Kept
<1>11. ExplainedInv'
  <2>1. Explained(n)'
    BY <1>4, Zenon DEF Explained
  <2>2. ASSUME NEW m \in Existing PROVE Explained(m)'
    <3>1. Explained(m) /\ m \in Ids /\ m # NoId
      BY DEF RequestInv, ExplainedInv, Existing, Ids, NoId
    <3>2. \A d \in Clients : call[d].id = m => call'[d].id = m
      BY <1>3, <1>4, <3>1, Zenon DEF HubTypes
    <3> QED
      BY <1>7, <3>1, <3>2, Zenon DEF Kept, Explained
  <2> QED
    BY <1>7, <2>1, <2>2, Zenon DEF ExplainedInv
<1>12. EarlyInv' /\ RecallInv'
  <2>1. ASSUME NEW m \in Ids PROVE Untouched(m)' <=> Untouched(m)
    BY <1>2, Zenon DEF Untouched, Published
  <2>2. \A m \in recalled : m \in Ids /\ m # n /\ status[m] # "absent"
    BY <1>2, Zenon DEF RequestInv, RowTypes, RecallInv
  <2>3. \A m \in recalled, d \in Clients : call'[d].id # m
    BY <1>4, <2>2 DEF RequestInv, RecallInv, HubTypes
  <2>4. /\ \A m \in Ids : status'[m] = "absent" => status[m] = "absent"
        /\ \A m \in Ids : schedule'[m] = "future" => schedule[m] = "future" \/ status[m] = "absent"
        /\ \A m \in recalled : status'[m] = status[m]
    BY <1>2, <1>5, <2>2, Zenon
  <2> QED
    BY <2>1, <2>3, <2>4, QueuesKeep, Zenon
<1> QED
  BY <1>6, <1>8, <1>9, <1>10, <1>11, <1>12, Zenon DEF RequestInv

(* Create, publish and mark.                                                 *)
LEMMA SendRowKeeps ==
  ASSUME HubTypes, RequestInv, NEW c \in Clients,
         SendCreate(c) \/ SendEnqueue(c) \/ SendMark(c),
         UNCHANGED <<schedulerVars, recalled>>
  PROVE  RequestInv'
<1>0. /\ UNCHANGED <<batch, marking, recalled>> /\ call[c] \in Call /\ call[c].pc # "ready"
      /\ CallInv(c)
  BY CallRow, Zenon DEF schedulerVars, SendCreate, SendEnqueue, SendMark
<1>1. ASSUME UNCHANGED columns, PublishesDue,
             \A n \in Ids : status'[n] = "absent" <=> status[n] = "absent",
             \A n \in recalled : status'[n] = status[n],
             NEW x, Return(c, x), MayAnswer(c, x),
             NEW r, r = call[c].id,
             r # NoId => x = Failure \/ Published(r)' \/ schedule[r] # "null"
      PROVE  RequestInv'
  <2>1. Kept
    BY <1>1, RowsKept, Zenon
  <2>2. /\ \A d \in Clients : CallInv(d)'
        /\ AnswerInv' /\ answers' \subseteq Answer
        /\ \A n \in Existing : Explained(n)'
    BY <1>0, <1>1, <2>1, ReturnKeeps, Zenon
  <2>3. \A d \in Clients : call'[d].id \in {call[d].id, NoId}
    BY <1>1, Returned, Zenon
  <2> QED
    BY <1>0, <1>1, <2>2, <2>3, NoInsertKeeps, Zenon
(* The errors of Create and of the publish.                                  *)
<1>2. ASSUME UNCHANGED storeVars, NEW x \in {Conflict, Failure}, Return(c, x),
             call[c].id # NoId => x = Failure
      PROVE  RequestInv'
  <2>1. UNCHANGED <<columns, topic, status>>
    BY <1>2, Zenon DEF storeVars, columns
  <2>2. MayAnswer(c, x)
    BY DEF MayAnswer, Conflict, Failure
  <2> QED
    BY <1>1, <1>2, <2>1, <2>2, Zenon DEF PublishesDue
<1>3. CASE SendCreate(c)
  <2>1. call[c].id = NoId
    BY <1>3, CallRow, Zenon DEF SendCreate, Pending
  <2>2. CASE \E n \in Ids :
          /\ ~KeyTaken(call[c].key)
          /\ Create(n, call[c].tenant, call[c].key, call[c].schedule)
          /\ call' = [call EXCEPT ![c].pc = "enqueue", ![c].id = n]
          /\ UNCHANGED <<answers, cancelled>>
    BY <1>3, <2>2, InsertKeeps, Zenon DEF SendCreate
  <2> QED
    BY <1>2, <1>3, <2>1, <2>2, Zenon DEF SendCreate
<1>4. CASE SendEnqueue(c)
  <2>1. PICK n : n = call[c].id
    BY Zenon
  <2>2. /\ call[c].pc = "enqueue" /\ n \in Existing /\ n \in Ids /\ n \notin recalled /\ n > 0
        /\ tenantOf[n] = call[c].tenant /\ keyOf[n] = call[c].key
    BY <1>4, <2>1, CallRow, Zenon DEF SendEnqueue, Pending, CallInv
  <2>3. CASE schedule[n] = "future" /\ Return(c, n) /\ UNCHANGED storeVars
    <3>1. UNCHANGED <<columns, topic, status>>
      BY <2>3, Zenon DEF storeVars, columns
    <3>2. MayAnswer(c, n)
      BY <2>2, Zenon DEF MayAnswer
    <3> QED
      BY <1>1, <2>1, <2>3, <3>1, <3>2, Zenon DEF PublishesDue
  <2>4. CASE schedule[n] # "future" /\ Publish(MessageOf(c))
    <3>1. PICK m : m = MessageOf(c)
      BY Zenon
    <3>2. m \in Message /\ m.id = n
      BY <1>0, <2>1, <2>2, <3>1, Zenon DEF MessageOf, Message, Call
    <3>3. topic' = Append(topic, m) /\ UNCHANGED <<status, columns>>
      BY <2>4, <3>1, Zenon DEF Publish
    <3>4. Published(n)'
      BY <3>2, <3>3, PublishAdds, Zenon DEF HubTypes, MayPublish
    <3>5. PublishesDue
      BY <2>2, <2>4, <3>2, <3>3, Zenon DEF PublishesDue, Enqueues
    <3>6. CASE Goto(c, "mark") /\ UNCHANGED answers
      <4>1. PICK r : r = [call[c] EXCEPT !.pc = "mark"]
        BY Zenon
      <4>2. /\ call' = [call EXCEPT ![c] = r] /\ r.pc = "mark" /\ r.id = n
            /\ r.tenant = call[c].tenant /\ r.key = call[c].key /\ r.tenant \in Tenants
        BY <1>0, <2>1, <3>6, <4>1, Zenon DEF Goto, Call, CallInv
      <4>3. Kept
        BY <3>3, <3>5, RowsKept
      <4>4. /\ \A d \in Clients : CallInv(d)'
            /\ AnswerInv' /\ answers' \subseteq Answer
            /\ \A k \in Existing : Explained(k)'
        BY <2>1, <2>2, <3>4, <3>6, <4>2, <4>3, MoveKeeps DEF Pending, MovesTo
      <4>5. \A d \in Clients : call'[d].id \in {call[d].id, NoId}
        BY <2>1, <4>2, Zenon DEF HubTypes
      <4> QED
        BY <1>0, <3>3, <3>5, <4>4, <4>5, NoInsertKeeps, Zenon
    <3>7. CASE Return(c, Failure)
      <4>1. MayAnswer(c, Failure)
        BY DEF MayAnswer, Failure
      <4> QED
        BY <1>1, <3>3, <3>5, <3>7, <4>1, Zenon
    <3> QED
      BY <1>4, <2>1, <2>2, <2>4, <3>6, <3>7, <1>2, Zenon DEF SendEnqueue
  <2> QED
    BY <1>2, <1>4, <2>1, <2>3, <2>4, Zenon DEF SendEnqueue
<1>5. CASE SendMark(c)
  <2>1. PICK n : n = call[c].id
    BY Zenon
  <2>2. /\ n \in Existing /\ n \in Ids /\ n \notin recalled /\ n > 0
        /\ tenantOf[n] = call[c].tenant /\ keyOf[n] = call[c].key
        /\ Published(n) /\ MayAnswer(c, n)
    BY <1>5, <2>1, CallRow, Zenon DEF SendMark, Pending, CallInv, MayAnswer
  <2>3. CASE UpdateStatus(n, "queued") /\ Return(c, n)
    <3>1. /\ status' = [status EXCEPT ![n] = "queued"] /\ UNCHANGED <<columns, topic>>
      BY <2>3, Zenon DEF UpdateStatus
    <3>2. /\ \A k \in Ids : status'[k] = "absent" <=> status[k] = "absent"
          /\ \A k \in recalled : status'[k] = status[k]
      BY <2>2, <3>1, Zenon DEF HubTypes, Existing, RequestInv, RowTypes
    <3>3. Published(n)' /\ PublishesDue
      BY <2>2, <3>1, Zenon DEF Published, PublishesDue
    <3> QED
      BY <1>1, <2>1, <2>2, <2>3, <3>1, <3>2, <3>3
  <2> QED
    BY <1>2, <1>5, <2>1, <2>3, Zenon DEF SendMark
<1> QED
  BY <1>3, <1>4, <1>5, Zenon

-----------------------------------------------------------------------------
(* Requests and the other parts. *)

\* Rows of which a worker or a scheduler knows.
Reaches == \A n \in Ids : ~Untouched(n)' =>
             \/ ~Untouched(n)
             \/ status[n] # "absent" /\ schedule[n] # "future" /\ n \notin recalled

(* A step of a scheduler or of Process, which know only rows that exist, are *)
(* due and not recalled.                                                     *)
LEMMA WorkStep ==
  ASSUME HubTypes, RequestInv, UNCHANGED <<columns, call, answers, recalled>>, PublishesDue,
         Reaches,
         \/ UNCHANGED status
         \/ \E n \in Ids, x \in Statuses \ {"absent"} :
              status' = [status EXCEPT ![n] = x] /\ ~Untouched(n)
  PROVE  RequestInv'
<1>0. UNCHANGED <<tenantOf, keyOf, schedule>>
  BY Zenon DEF columns
<1>1. /\ \A n \in Ids : status'[n] = "absent" <=> status[n] = "absent"
      /\ \A n \in recalled : status'[n] = status[n]
  <2>1. CASE UNCHANGED status
    BY <2>1, Zenon
  <2>2. CASE ~UNCHANGED status
    <3>1. PICK n \in Ids, x \in Statuses \ {"absent"} :
            status' = [status EXCEPT ![n] = x] /\ ~Untouched(n)
      BY <2>2, Zenon
    <3>2. status[n] # "absent" /\ n \notin recalled
      BY <3>1, Zenon DEF RequestInv, EarlyInv, RecallInv
    <3> QED
      BY <3>1, <3>2, Zenon DEF HubTypes, RequestInv, RowTypes
  <2> QED
    BY <2>1, <2>2, Zenon
<1>2. Kept /\ Existing' = Existing
  BY <1>1, RowsKept, Zenon
<1>3. /\ \A d \in Clients : CallInv(d)'
      /\ AnswerInv' /\ answers' \subseteq Answer
      /\ \A n \in Existing : Explained(n)'
  BY <1>2, MoveKeeps, Zenon
<1>4. KeysUnique'
  BY <1>0, <1>1, KeysKeep, Zenon
<1>5. EarlyInv' /\ RecallInv'
  <2>1. \A n \in recalled, c \in Clients : call'[c].id # n
    BY Zenon DEF RequestInv, RecallInv
  <2> QED
    BY <1>0, <1>1, <2>1, QueuesKeep, Zenon DEF Reaches
<1>6. RowTypes'
  BY <1>0, Zenon DEF RequestInv, RowTypes
<1> QED
  BY <1>2, <1>3, <1>4, <1>5, <1>6, Zenon DEF RequestInv, ExplainedInv

(* The schedulers.                                                           *)
LEMMA SchedulersKeep ==
  ASSUME HubTypes, RequestInv, Schedule \/ SchedulerCrash
  PROVE  RequestInv'
<1>0. UNCHANGED <<call, answers, recalled>>
  BY Zenon DEF Schedule, SchedulerCrash, serviceVars
<1>1. PICK s \in Schedulers :
        \/ SchedTick(s) \/ SchedMark(s) \/ SchedCrash(s)
        \/ \E n \in Ids : SchedEnqueue(s, n)
  BY Zenon DEF Schedule, SchedulerCrash, SchedulerStep
<1>2. CASE SchedTick(s)
  <2>1. PICK due \in SUBSET DueScheduled : batch' = [batch EXCEPT ![s] = due]
    BY <1>2, Zenon DEF SchedTick
  <2>2. UNCHANGED <<status, columns, topic, marking>>
    BY <1>2, Zenon DEF SchedTick, storeVars, columns
  <2>3. \A n \in due : status[n] = "pending" /\ schedule[n] = "due" /\ n \notin recalled
    BY Zenon DEF DueScheduled, RequestInv, RecallInv
  <2>4. Reaches
    <3>1. \A n \in Ids : Published(n)' <=> Published(n)
      BY <2>2, Zenon DEF Published
    <3>2. \A n \in Ids, r \in Schedulers : n \in batch'[r] => n \in batch[r] \/ n \in due
      BY <2>1, Zenon DEF HubTypes
    <3> QED
      BY <2>2, <2>3, <3>1, <3>2, Zenon DEF Reaches, Untouched
  <2> QED
    BY <1>0, <2>2, <2>4, WorkStep, Zenon DEF PublishesDue
<1>3. CASE SchedMark(s)
  <2>1. PICK n \in Ids : n = marking[s]
    BY <1>3, Zenon DEF SchedMark, HubTypes
  <2>2. /\ marking' = [marking EXCEPT ![s] = NoRow]
        /\ UNCHANGED <<columns, topic, batch>>
        /\ UNCHANGED status \/ status' = [status EXCEPT ![n] = "queued"]
    BY <1>3, <2>1, Zenon DEF SchedMark, UpdateStatus, storeVars, columns
  <2>3. ~Untouched(n)
    BY <2>1, Zenon DEF Untouched
  <2>4. Reaches
    <3>1. \A k \in Ids : Published(k)' <=> Published(k)
      BY <2>2, Zenon DEF Published
    <3>2. \A k \in Ids, r \in Schedulers : marking'[r] = k => marking[r] = k
      BY <2>2 DEF HubTypes, NoRow, Ids
    <3> QED
      BY <2>2, <3>1, <3>2, Zenon DEF Reaches, Untouched
  <2>5. "queued" \in Statuses \ {"absent"}
    BY Zenon DEF Statuses
  <2> QED
    BY <1>0, <2>2, <2>3, <2>4, <2>5, WorkStep, Zenon DEF PublishesDue
<1>4. CASE SchedCrash(s)
  <2>1. /\ batch' = [batch EXCEPT ![s] = {}] /\ marking' = [marking EXCEPT ![s] = NoRow]
        /\ UNCHANGED <<status, columns, topic>>
    BY <1>4, Zenon DEF SchedCrash, storeVars, columns
  <2>2. Reaches
    <3>1. \A k \in Ids : Published(k)' <=> Published(k)
      BY <2>1, Zenon DEF Published
    <3>2. \A k \in Ids, r \in Schedulers :
            (marking'[r] = k => marking[r] = k) /\ (k \in batch'[r] => k \in batch[r])
      BY <2>1 DEF HubTypes, NoRow, Ids
    <3> QED
      BY <3>1, <3>2, Zenon DEF Reaches, Untouched
  <2> QED
    BY <1>0, <2>1, <2>2, WorkStep, Zenon DEF PublishesDue
<1>5. ASSUME NEW n \in Ids, SchedEnqueue(s, n) PROVE RequestInv'
  <2>1. PICK m : m = [id |-> n, tenant |-> NullTenant]
    BY Zenon
  <2>2. m \in Message /\ m.id = n
    BY <2>1, Zenon DEF Message
  <2>3. /\ n \in batch[s] /\ batch' = [batch EXCEPT ![s] = batch[s] \ {n}]
        /\ UNCHANGED marking \/ marking' = [marking EXCEPT ![s] = n]
        /\ UNCHANGED <<status, columns>> /\ MayPublish(m)
    BY <1>5, <2>1, Zenon DEF SchedEnqueue, Publish, storeVars, columns, MayPublish
  <2>4. ~Untouched(n)
    BY <2>3, Zenon DEF Untouched
  <2>5. n \in Existing /\ schedule[n] # "future" /\ n \notin recalled
    BY <2>4, Zenon DEF RequestInv, EarlyInv, RecallInv, Existing
  <2>6. PublishesDue
    BY <2>2, <2>3, <2>5, Zenon DEF PublishesDue, Enqueues, MayPublish
  <2>7. Reaches
    <3>1. \A k : Published(k)' => Published(k) \/ k = n
      BY <2>2, <2>3, PublishAdds, Zenon DEF HubTypes
    <3>2. \A k \in Ids, r \in Schedulers :
            /\ marking'[r] = k => marking[r] = k \/ k = n
            /\ k \in batch'[r] => k \in batch[r]
      BY <2>3, Zenon DEF HubTypes
    <3> QED
      BY <2>4, <3>1, <3>2 DEF Reaches, Untouched
  <2> QED
    BY <1>0, <2>3, <2>6, <2>7, WorkStep, Zenon
<1> QED
  BY <1>1, <1>2, <1>3, <1>4, <1>5, Zenon

(* Process writes no column but the status of rows whose message it has.     *)
LEMMA ProcessRows ==
  ASSUME HubInv, NEW h \in Handlers, ProcBegin(h) \/ ProcStep(h)
  PROVE  /\ UNCHANGED <<columns, topic>>
         /\ \/ UNCHANGED status
            \/ /\ step[h] \in {"mark", "status"}
               /\ \E x \in Statuses \ {"absent"} : status' = [status EXCEPT ![Target(h)] = x]
<1>1. CASE ProcBegin(h) \/ ProcFetch(h) \/ ProcCheck(h) \/ ProcRender(h) \/ ProcSend(h)
              \/ ProcLog(h) \/ ProcWebhook(h)
  <2>1. UNCHANGED storeVars
    BY <1>1, Zenon
    DEF ProcBegin, Begin, ProcFetch, ProcCheck, ProcRender, ProcSend, TryAgain, ProcLog, ProcWebhook,
        ReturnError, Conclude
  <2> QED
    BY <2>1, Zenon DEF storeVars, columns
<1>2. CASE ProcMark(h)
  BY <1>2, Zenon DEF ProcMark, UpdateStatus, ReturnError, storeVars, columns, Statuses
<1>3. CASE ProcDeadLetter(h)
  BY <1>3, Zenon DEF ProcDeadLetter, PublishDLQ, storeVars, columns
<1>4. CASE ProcStatus(h)
  <2>1. outcome[h] \in Terminal
    BY <1>4, Zenon DEF ProcStatus, HubInv, HandlerInv, Concluding
  <2>2. outcome[h] \in Statuses \ {"absent"}
    BY <2>1, Zenon DEF Statuses, Terminal
  <2> QED
    BY <1>4, <2>2, Zenon DEF ProcStatus, UpdateStatus, storeVars, columns
<1> QED
  BY <1>1, <1>2, <1>3, <1>4, Zenon DEF ProcStep

(* The workers.                                                              *)
LEMMA WorkersKeep ==
  ASSUME HubInv, RequestInv, WorkerCrash \/ \E h \in Handlers : Process(h)
  PROVE  RequestInv'
<1>0. HubTypes
  BY Zenon DEF HubInv
<1>1. UNCHANGED <<call, answers, recalled, batch, marking>>
  BY Zenon DEF WorkerCrash, Process, serviceVars, schedulerVars
<1>2. ASSUME UNCHANGED topic PROVE Reaches /\ PublishesDue
  BY <1>1, <1>2, Zenon DEF Reaches, Untouched, Published, PublishesDue
<1>3. CASE WorkerCrash
  <2>1. UNCHANGED <<columns, topic, status>>
    BY <1>3, Zenon DEF WorkerCrash, ProcCrash, storeVars, columns
  <2> QED
    BY <1>0, <1>1, <1>2, <2>1, WorkStep, Zenon
<1>4. ASSUME NEW h \in Handlers, Process(h) PROVE RequestInv'
  <2>1. /\ UNCHANGED <<columns, topic>>
        /\ \/ UNCHANGED status
           \/ /\ step[h] \in {"mark", "status"}
              /\ \E x \in Statuses \ {"absent"} : status' = [status EXCEPT ![Target(h)] = x]
    BY <1>4, ProcessRows, Zenon DEF Process
  <2>2. step[h] \in {"mark", "status"} => Target(h) \in Ids /\ ~Untouched(Target(h))
    BY TargetType, Zenon DEF Untouched, Published, Target
  <2> QED
    BY <1>0, <1>1, <1>2, <2>1, <2>2, WorkStep, Zenon
<1> QED
  BY <1>3, <1>4, Zenon

(* Cancel: what it recalls, no one has seen.                                 *)
LEMMA CancelKeeps ==
  ASSUME HubTypes, RequestInv, CancelRequest
  PROVE  RequestInv'
<1>1. PICK t \in Tenants, n \in Ids :
        /\ CancelRow(t, n) /\ UNCHANGED <<call, answers, schedulerVars>>
        /\ recalled' = IF Recallable(n) THEN recalled \cup {n} ELSE recalled
  BY Zenon DEF CancelRequest, Cancel
<1>2. /\ n \in Existing /\ status[n] # "dropped" /\ status' = [status EXCEPT ![n] = "dropped"]
      /\ UNCHANGED <<columns, topic, batch, marking>>
  BY <1>1, Zenon DEF CancelRow, GetByID, UpdateStatus, schedulerVars
<1>3. UNCHANGED <<tenantOf, keyOf, schedule>>
  BY <1>2, Zenon DEF columns
<1>4. \A k \in Ids : /\ status'[k] = "absent" <=> status[k] = "absent"
                     /\ k # n => status'[k] = status[k]
                     /\ status'[n] = "dropped"
  BY <1>2, Zenon DEF HubTypes, Existing
<1>5. Kept /\ Existing' = Existing
  BY <1>2, <1>4, RowsKept, Zenon DEF PublishesDue
<1>6. /\ \A d \in Clients : CallInv(d)'
      /\ AnswerInv' /\ answers' \subseteq Answer
      /\ \A k \in Existing : Explained(k)'
  BY <1>1, <1>5, MoveKeeps, Zenon
<1>7. KeysUnique'
  BY <1>3, <1>4, KeysKeep, Zenon
<1>8. \A k : Untouched(k)' <=> Untouched(k)
  BY <1>2, Zenon DEF Untouched, Published
<1>9. EarlyInv'
  BY <1>3, <1>4, <1>8, Zenon DEF RequestInv, EarlyInv
<1>10. RecallInv'
  <2> SUFFICES ASSUME NEW k \in recalled'
               PROVE  /\ status'[k] = "dropped" /\ Untouched(k)'
                      /\ \A c \in Clients : call'[c].id # k
    BY Zenon DEF RecallInv
  <2>1. CASE k \in recalled
    <3>1. /\ k \in Ids /\ status[k] = "dropped" /\ Untouched(k)
          /\ \A c \in Clients : call[c].id # k
      BY <2>1, Zenon DEF RequestInv, RowTypes, RecallInv
    <3> QED
      BY <1>1, <1>4, <1>8, <3>1, Zenon
  <2>2. CASE k = n /\ Recallable(n)
    <3>1. Untouched(n) /\ \A c \in Clients : call[c].id # n
      BY <2>2, Zenon DEF Recallable, RequestInv, EarlyInv
    <3> QED
      BY <1>1, <1>4, <1>8, <2>2, <3>1, Zenon
  <2> QED
    BY <1>1, <2>1, <2>2, Zenon
<1>11. RowTypes'
  BY <1>1, <1>3, Zenon DEF RequestInv, RowTypes
<1> QED
  BY <1>5, <1>6, <1>7, <1>9, <1>10, <1>11 DEF RequestInv, ExplainedInv

(* The clock, and steps that change nothing.                                 *)
LEMMA ClockKeeps ==
  ASSUME HubTypes, RequestInv, Clock \/ UNCHANGED vars
  PROVE  RequestInv'
<1>1. /\ UNCHANGED <<status, tenantOf, keyOf, topic, call, answers, recalled, batch, marking>>
      /\ \/ UNCHANGED schedule
         \/ \E n \in Ids : schedule[n] = "future" /\ schedule' = [schedule EXCEPT ![n] = "due"]
  BY Zenon DEF Clock, ComeDue, vars, storeVars, serviceVars, schedulerVars
<1>2. /\ schedule' \in [Ids -> {"null", "future", "due"}]
      /\ \A k \in Ids : schedule[k] # "null" => schedule'[k] # "null"
      /\ \A k \in Ids : schedule'[k] = "future" => schedule[k] = "future"
  BY <1>1, Zenon DEF RequestInv, RowTypes
<1>3. Kept /\ Existing' = Existing
  BY <1>1, <1>2, Zenon DEF Kept, Existing, Published
<1>4. /\ \A d \in Clients : CallInv(d)'
      /\ AnswerInv' /\ answers' \subseteq Answer
      /\ \A k \in Existing : Explained(k)'
  BY <1>1, <1>3, MoveKeeps, Zenon
<1>5. KeysUnique'
  BY <1>1, KeysKeep, Zenon
<1>6. \A k : Untouched(k)' <=> Untouched(k)
  BY <1>1, Zenon DEF Untouched, Published
<1>7. EarlyInv'
  BY <1>1, <1>2, <1>6, Zenon DEF RequestInv, EarlyInv
<1>8. RecallInv'
  BY <1>1, <1>6, Zenon DEF RequestInv, RecallInv
<1>9. RowTypes'
  BY <1>1, <1>2, Zenon DEF RequestInv, RowTypes
<1> QED
  BY <1>3, <1>4, <1>5, <1>7, <1>8, <1>9, Zenon DEF RequestInv, ExplainedInv

(* Every step keeps RequestInv.                                              *)
LEMMA RequestsNext == HubInv /\ RequestInv /\ [Next]_vars => RequestInv'
<1> SUFFICES ASSUME HubInv, RequestInv, [Next]_vars PROVE RequestInv'
  BY Zenon
<1>1. HubTypes
  BY Zenon DEF HubInv
<1>2. ASSUME Service PROVE RequestInv'
  <2>1. PICK c \in Clients : SendStep(c) /\ UNCHANGED <<schedulerVars, recalled>>
    BY <1>2, Zenon DEF Service
  <2> QED
    BY <1>1, <2>1, LookupKeeps, SendRowKeeps, Zenon DEF SendStep
<1> QED
  BY <1>1, <1>2, SchedulersKeep, WorkersKeep, CancelKeeps, ClockKeeps, Zenon DEF Next, CalmNext

(* HubInv and RequestInv hold in every state.                                *)
LEMMA RequestsCorrect == Spec => [](HubInv /\ RequestInv)
  BY HubInit, HubNext, RequestsStart, RequestsNext, PTL DEF Spec

(* One row per key answers every request with the key.                        *)
LEMMA OneAnswer == HubInv /\ RequestInv => IdempotentAnswers
<1> SUFFICES ASSUME RequestInv,
                    NEW a \in answers, NEW b \in answers,
                    a.key # NoKey, a.result > 0, b.key # NoKey, b.result > 0
             PROVE  /\ tenantOf[a.result] = a.tenant
                    /\ a.tenant = b.tenant /\ a.key = b.key => a.result = b.result
  BY Zenon DEF IdempotentAnswers
<1>1. /\ a.result \in Ids /\ tenantOf[a.result] = a.tenant /\ keyOf[a.result] = a.key
      /\ b.result \in Ids /\ keyOf[b.result] = b.key
  BY Zenon DEF RequestInv, AnswerInv, Existing
<1> QED
  BY <1>1, Zenon DEF RequestInv, KeysUnique

(* Requests of one tenant with one idempotency key that succeed get one      *)
(* notification, the tenant's own, however many of them race between lookup  *)
(* and INSERT (Send).                                                        *)
THEOREM AnswersAreIdempotent == Spec => []IdempotentAnswers
  BY OneAnswer, RequestsCorrect, PTL

(* A recalled row is not published.                                          *)
LEMMA RecalledStays == HubInv /\ RequestInv => RecalledIsNotEnqueued
  BY Zenon DEF RequestInv, RecallInv, Untouched, Published, RecalledIsNotEnqueued

(* A notification cancelled before it was due is never published, by the     *)
(* scheduler of any worker process or by the request that created it (tick,  *)
(* Cancel).                                                                  *)
THEOREM RecallIsFinal == Spec => []RecalledIsNotEnqueued
  BY RecalledStays, RequestsCorrect, PTL

(* A row a client was given has an explanation.                              *)
LEMMA AnsweredStays == HubInv /\ RequestInv => AnsweredIsEnqueued
<1> SUFFICES ASSUME RequestInv, NEW a \in answers, a.result > 0
             PROVE  \/ Published(a.result) \/ schedule[a.result] # "null"
                    \/ \E c \in Clients : call[c].id = a.result
                    \/ \E b \in answers :
                         b.tenant = a.tenant /\ b.key = a.key /\ b.result = Failure
  BY Zenon DEF AnsweredIsEnqueued
<1>1. /\ a.result \in Existing /\ tenantOf[a.result] = a.tenant /\ keyOf[a.result] = a.key
  BY Zenon DEF RequestInv, AnswerInv
<1> QED
  BY <1>1, Zenon DEF RequestInv, ExplainedInv, Explained

(* A notification a client was given is published, waits, was cancelled, is  *)
(* still in the hands of a request, or the request that inserted it failed   *)
(* (Send).                                                                   *)
THEOREM AnswersAreKept == Spec => []AnsweredIsEnqueued
  BY AnsweredStays, RequestsCorrect, PTL

-----------------------------------------------------------------------------
(* Runs of Process and the outcome on the row. *)

\* What a step may do to a status that nobody working for Process wrote.
StatusMove(n) ==
  \/ status'[n] = status[n]
  \/ status[n] = "absent" /\ status'[n] = "pending"
  \/ status'[n] = "queued" /\ QueuedMarkDue(n)
  \/ status[n] \in {"pending", "queued"} /\ n \in cancelled'

\* A step outside Process.
Outside ==
  /\ UNCHANGED processorVars /\ cancelled \subseteq cancelled'
  /\ \/ UNCHANGED topic
     \/ \E m \in Message : topic' = Append(topic, m) /\ Len(topic) < MaxLog
  /\ \A n \in Ids : StatusMove(n)

\* A step of Process after its first.
Within(h) ==
  /\ UNCHANGED <<topic, handed, cancelled>>
  /\ step[h] # "idle" /\ \E st \in Steps : step' = [step EXCEPT ![h] = st]
  /\ \/ UNCHANGED current
     \/ step'[h] = "idle" /\ current' = [current EXCEPT ![h] = NoMessage]
  /\ step[h] = "webhook" => step'[h] = "idle"
  /\ \/ UNCHANGED status
     \/ status' = [status EXCEPT ![Target(h)] = "processing"] /\ step[h] = "mark"
     \/ /\ \E x \in Terminal : status' = [status EXCEPT ![Target(h)] = x]
        /\ step[h] = "status" /\ step'[h] = "webhook"

(* Send, the schedulers, Cancel and the clock are outside Process.           *)
LEMMA OthersOutside ==
  ASSUME HubTypes,
         Service \/ CancelRequest \/ Schedule \/ SchedulerCrash \/ Clock \/ UNCHANGED vars
  PROVE  Outside
<1>1. UNCHANGED processorVars
  BY Zenon DEF Service, CancelRequest, Schedule, SchedulerCrash, Clock, vars
<1>2. CASE Service
  <2>1. PICK c \in Clients : SendStep(c)
    BY <1>2, Zenon DEF Service
  <2>2. UNCHANGED cancelled
    BY <2>1, Zenon DEF SendStep, SendStart, SendLookup, SendCreate, SendEnqueue, SendMark, Return
  <2>3. CASE SendStart(c) \/ SendLookup(c)
    <3>1. UNCHANGED <<status, topic>>
      BY <2>3, Zenon DEF SendStart, SendLookup, storeVars
    <3> QED
      BY <1>1, <2>2, <3>1, Zenon DEF Outside, StatusMove
  <2>4. CASE SendCreate(c)
    <3>1. /\ UNCHANGED topic
          /\ \/ UNCHANGED status
             \/ \E n \in Ids : status[n] = "absent" /\ status' = [status EXCEPT ![n] = "pending"]
      BY <2>4, Zenon DEF SendCreate, Create, storeVars
    <3>2. \A n \in Ids : StatusMove(n)
      BY <3>1, Zenon DEF StatusMove, HubTypes
    <3> QED
      BY <1>1, <2>2, <3>1, <3>2, Zenon DEF Outside
  <2>5. CASE SendEnqueue(c)
    <3>1. PICK m : m = MessageOf(c)
      BY Zenon
    <3>2. m \in Message
      BY <2>5, <3>1, Zenon DEF MessageOf, Message, HubTypes, Call, SendEnqueue
    <3>3. /\ UNCHANGED status
          /\ UNCHANGED topic \/ (topic' = Append(topic, m) /\ Len(topic) < MaxLog)
      BY <2>5, <3>1, Zenon DEF SendEnqueue, Publish, storeVars
    <3> QED
      BY <1>1, <2>2, <3>2, <3>3, Zenon DEF Outside, StatusMove
  <2>6. CASE SendMark(c)
    <3>1. /\ UNCHANGED topic /\ call[c].pc = "mark"
          /\ UNCHANGED status \/ status' = [status EXCEPT ![call[c].id] = "queued"]
      BY <2>6, Zenon DEF SendMark, UpdateStatus, storeVars
    <3>2. \A n \in Ids : StatusMove(n)
      BY <3>1, Zenon DEF StatusMove, HubTypes, QueuedMarkDue
    <3> QED
      BY <1>1, <2>2, <3>1, <3>2, Zenon DEF Outside
  <2> QED
    BY <2>1, <2>3, <2>4, <2>5, <2>6, Zenon DEF SendStep
<1>3. CASE CancelRequest
  <2>1. PICK t \in Tenants, n \in Ids : Cancel(t, n)
    BY <1>3, Zenon DEF CancelRequest
  <2>2. /\ UNCHANGED topic /\ cancelled' = cancelled \cup {n}
        /\ status[n] \in {"pending", "queued"} /\ status' = [status EXCEPT ![n] = "dropped"]
    BY <2>1, Zenon DEF Cancel, CancelRow, UpdateStatus
  <2>3. \A k \in Ids : StatusMove(k)
    BY <2>2, Zenon DEF StatusMove, HubTypes
  <2> QED
    BY <1>1, <2>2, <2>3, Zenon DEF Outside
<1>4. CASE Schedule \/ SchedulerCrash
  <2>1. PICK s \in Schedulers :
          \/ SchedTick(s) \/ SchedMark(s) \/ SchedCrash(s)
          \/ \E n \in Ids : SchedEnqueue(s, n)
    BY <1>4, Zenon DEF Schedule, SchedulerCrash, SchedulerStep
  <2>2. UNCHANGED cancelled
    BY <1>4, Zenon DEF Schedule, SchedulerCrash, serviceVars
  <2>3. CASE SchedTick(s) \/ SchedCrash(s)
    <3>1. UNCHANGED <<status, topic>>
      BY <2>3, Zenon DEF SchedTick, SchedCrash, storeVars
    <3> QED
      BY <1>1, <2>2, <3>1, Zenon DEF Outside, StatusMove
  <2>4. CASE SchedMark(s)
    <3>1. /\ UNCHANGED topic
          /\ UNCHANGED status \/ status' = [status EXCEPT ![marking[s]] = "queued"]
      BY <2>4, Zenon DEF SchedMark, UpdateStatus, storeVars
    <3>2. \A n \in Ids : StatusMove(n)
      BY <3>1, Zenon DEF StatusMove, HubTypes, QueuedMarkDue
    <3> QED
      BY <1>1, <2>2, <3>1, <3>2, Zenon DEF Outside
  <2>5. ASSUME NEW n \in Ids, SchedEnqueue(s, n) PROVE Outside
    <3>1. PICK m : m = [id |-> n, tenant |-> NullTenant]
      BY Zenon
    <3>2. m \in Message
      BY <3>1, Zenon DEF Message
    <3>3. /\ UNCHANGED status
          /\ UNCHANGED topic \/ (topic' = Append(topic, m) /\ Len(topic) < MaxLog)
      BY <2>5, <3>1, Zenon DEF SchedEnqueue, Publish, storeVars
    <3> QED
      BY <1>1, <2>2, <3>2, <3>3, Zenon DEF Outside, StatusMove
  <2> QED
    BY <2>1, <2>3, <2>4, <2>5, Zenon
<1>5. CASE Clock \/ UNCHANGED vars
  <2>1. UNCHANGED <<status, topic, cancelled>>
    BY <1>5, Zenon DEF Clock, ComeDue, vars, storeVars, serviceVars
  <2> QED
    BY <1>1, <2>1, Zenon DEF Outside, StatusMove
<1> QED
  BY <1>2, <1>3, <1>4, <1>5, Zenon

(* The steps of Process after the first.                                     *)
LEMMA StepsWithin ==
  ASSUME HubInv, NEW h \in Handlers, Process(h), ProcStep(h)
  PROVE  Within(h)
<1>0. UNCHANGED cancelled /\ step \in [Handlers -> Steps]
  BY Zenon DEF Process, serviceVars, HubInv, HubTypes
<1>1. CASE ProcFetch(h) \/ ProcCheck(h) \/ ProcRender(h)
  <2>1. /\ UNCHANGED <<topic, handed, status>> /\ step[h] \in {"fetch", "check", "render"}
        /\ \E st \in Steps : step' = [step EXCEPT ![h] = st]
        /\ \/ UNCHANGED current
           \/ /\ step' = [step EXCEPT ![h] = "idle"]
              /\ current' = [current EXCEPT ![h] = NoMessage]
    BY <1>1, Zenon DEF ProcFetch, ProcCheck, ProcRender, ReturnError, Conclude, Leave, Advance,
                storeVars, Steps
  <2> QED
    BY <1>0, <2>1, Zenon DEF Within
<1>2. CASE ProcMark(h)
  <2>1. /\ UNCHANGED <<topic, handed>> /\ step[h] = "mark"
        /\ \E st \in Steps : step' = [step EXCEPT ![h] = st]
        /\ \/ UNCHANGED current
           \/ /\ step' = [step EXCEPT ![h] = "idle"]
              /\ current' = [current EXCEPT ![h] = NoMessage]
        /\ UNCHANGED status \/ status' = [status EXCEPT ![Target(h)] = "processing"]
    BY <1>2, Zenon DEF ProcMark, UpdateStatus, ReturnError, Leave, Advance, storeVars, Steps
  <2> QED
    BY <1>0, <2>1, Zenon DEF Within
<1>3. CASE ProcSend(h)
  <2>1. /\ UNCHANGED <<topic, handed, status, current>> /\ step[h] = "send"
        /\ UNCHANGED step \/ step' = [step EXCEPT ![h] = "log"]
    BY <1>3, Zenon DEF ProcSend, TryAgain, Conclude, Advance, storeVars
  <2>2. \E st \in Steps : step' = [step EXCEPT ![h] = st]
    <3>1. step = [step EXCEPT ![h] = step[h]] /\ step[h] \in Steps
      BY <1>0, Zenon
    <3> QED
      BY <2>1, <3>1, Zenon DEF Steps
  <2> QED
    BY <1>0, <2>1, <2>2, Zenon DEF Within
<1>4. CASE ProcLog(h) \/ ProcDeadLetter(h)
  <2>1. /\ UNCHANGED <<topic, handed, status, current>> /\ step[h] \in {"log", "deadletter"}
        /\ \E st \in Steps : step' = [step EXCEPT ![h] = st]
    BY <1>4, Zenon DEF ProcLog, ProcDeadLetter, PublishDLQ, Advance, storeVars, Steps
  <2> QED
    BY <1>0, <2>1, Zenon DEF Within
<1>5. CASE ProcStatus(h)
  <2>1. outcome[h] \in Terminal
    BY <1>5, Zenon DEF ProcStatus, HubInv, HandlerInv, Concluding
  <2>2. /\ UNCHANGED <<topic, handed, current>> /\ step[h] = "status"
        /\ step' = [step EXCEPT ![h] = "webhook"]
        /\ UNCHANGED status \/ status' = [status EXCEPT ![Target(h)] = outcome[h]]
    BY <1>5, Zenon DEF ProcStatus, UpdateStatus, Advance, storeVars
  <2>3. "webhook" \in Steps
    BY Zenon DEF Steps
  <2> QED
    BY <1>0, <2>1, <2>2, <2>3, Zenon DEF Within
<1>6. CASE ProcWebhook(h)
  <2>1. /\ UNCHANGED <<topic, handed, status>> /\ step[h] = "webhook"
        /\ step' = [step EXCEPT ![h] = "idle"]
        /\ current' = [current EXCEPT ![h] = NoMessage]
    BY <1>6, Zenon DEF ProcWebhook, Leave, storeVars
  <2>2. "idle" \in Steps
    BY Zenon DEF Steps
  <2> QED
    BY <1>0, <2>1, <2>2, Zenon DEF Within
<1> QED
  BY <1>1, <1>2, <1>3, <1>4, <1>5, <1>6 DEF ProcStep

(* Nothing takes back that Process was started on a row.                     *)
LEMMA HandedStays ==
  ASSUME HubTypes, NEW n, handed \in [Indexes -> Nat], Len(topic) \in Nat, Len(topic) <= MaxLog,
         Len(topic') \in Nat, Len(topic) <= Len(topic'),
         \A i \in 1 .. Len(topic) : topic'[i] = topic[i] /\ handed[i] <= handed'[i],
         handed' \in [Indexes -> Nat]
  PROVE  /\ HandedOnce(n) => HandedOnce(n)'
         /\ HandedAgain(n) => HandedAgain(n)'
<1>1. \A i \in 1 .. Len(topic) : /\ i \in 1 .. Len(topic') /\ i \in Indexes
                                 /\ handed[i] \in Nat /\ handed'[i] \in Nat
  BY StoreAssumption DEF Indexes
<1>2. HandedOnce(n) => HandedOnce(n)'
  BY <1>1 DEF HandedOnce
<1>3. ASSUME HandedAgain(n) PROVE HandedAgain(n)'
  <2>1. PICK i \in 1 .. Len(topic), j \in 1 .. Len(topic) :
          /\ topic[i].id = n /\ handed[i] > 0 /\ topic[j].id = n /\ handed[j] > 0
          /\ i # j \/ handed[i] > 1
    BY <1>3, Zenon DEF HandedAgain
  <2>2. /\ i \in 1 .. Len(topic') /\ j \in 1 .. Len(topic')
        /\ topic'[i].id = n /\ handed'[i] > 0 /\ topic'[j].id = n /\ handed'[j] > 0
        /\ i # j \/ handed'[i] > 1
    BY <1>1, <2>1
  <2> QED
    BY <2>2, Zenon DEF HandedAgain
<1> QED
  BY <1>2, <1>3, Zenon

(* RunInv holds initially.                                                   *)
LEMMA RunsStart == Init => RunInv
<1> SUFFICES ASSUME Init PROVE RunInv
  BY Zenon
<1>1. /\ topic = <<>> /\ status = [n \in Ids |-> "absent"]
      /\ step = [h \in Handlers |-> "idle"] /\ handed = [i \in Indexes |-> 0]
  BY Zenon DEF Init, StoreInit, ProcessorInit
<1>2. Len(topic) <= MaxLog /\ handed \in [Indexes -> Nat]
  BY <1>1, StoreAssumption
<1>3. \A h \in Handlers : ~Active(h)
  BY <1>1, Zenon DEF Active
<1>4. \A n \in Ids : status[n] \notin Terminal
  BY <1>1, Zenon DEF Terminal
<1> QED
  BY <1>2, <1>3, <1>4, Zenon DEF RunInv

(* A step outside Process keeps RunInv.                                      *)
LEMMA OutsideKeeps ==
  ASSUME HubInv, RunInv, Outside
  PROVE  RunInv'
<1>0. HubTypes /\ handed \in [Indexes -> Nat] /\ Len(topic) <= MaxLog
  BY Zenon DEF HubInv, RunInv
<1>1. UNCHANGED <<handed, step, current>>
  BY Zenon DEF Outside, processorVars
<1>2. /\ Len(topic) \in Nat /\ Len(topic') \in Nat /\ Len(topic) <= Len(topic')
      /\ Len(topic') <= MaxLog
      /\ \A i \in 1 .. Len(topic) : topic'[i] = topic[i]
  <2>1. topic \in Seq(Message)
    BY <1>0, Zenon DEF HubTypes
  <2>2. CASE UNCHANGED topic
    BY <1>0, <2>1, <2>2
  <2>3. CASE ~UNCHANGED topic
    <3>1. PICK m \in Message : topic' = Append(topic, m) /\ Len(topic) < MaxLog
      BY <2>3, Zenon DEF Outside
    <3> QED
      BY <2>1, <3>1, Appended, StoreAssumption
  <2> QED
    BY <2>2, <2>3, Zenon
<1>3. \A i \in 1 .. Len(topic) : handed[i] <= handed'[i]
  <2>1. \A i \in 1 .. Len(topic) : i \in Indexes
    BY <1>0, <1>2, StoreAssumption DEF Indexes
  <2>2. \A i \in 1 .. Len(topic) : handed[i] \in Nat /\ handed'[i] = handed[i]
    BY <1>0, <1>1, <2>1, Zenon
  <2> QED
    BY <2>2
<1>4. \A n : /\ HandedOnce(n) => HandedOnce(n)'
             /\ HandedAgain(n) => HandedAgain(n)'
  BY <1>0, <1>1, <1>2, <1>3, HandedStays, Zenon
<1>5. \A h \in Handlers : Active(h)' <=> Active(h)
  BY <1>1, Zenon DEF Active
<1>6. \A h \in Handlers : Active(h) => Target(h)' = Target(h) /\ Target(h) \in Ids
  BY <1>1, <1>2, TargetType, Zenon DEF Active, Target
<1>7. cancelled \subseteq cancelled'
  BY Zenon DEF Outside
<1>8. \A n \in Ids : status'[n] \in Terminal => status[n] = status'[n] \/ n \in cancelled'
  BY Zenon DEF Outside, StatusMove, Terminal
<1>9. \A n \in Ids : status'[n] \in Terminal => n \in cancelled' \/ HandedOnce(n)'
  BY <1>4, <1>7, <1>8, Zenon DEF RunInv
<1>10. \A h \in Handlers : Active(h)' => handed'[current'[h]] > 0
  BY <1>1, <1>5, Zenon DEF RunInv
<1>11. ASSUME NEW g \in Handlers, NEW h \in Handlers,
              g # h, Active(g)', Active(h)', Target(g)' = Target(h)',
              NEW n, n = Target(h)
       PROVE  HandedAgain(n)'
  BY <1>4, <1>5, <1>6, <1>11, Zenon DEF RunInv
<1>12. ASSUME NEW h \in Handlers, Active(h)', step'[h] # "webhook", NEW n, n = Target(h),
              status'[n] \in Terminal
       PROVE  n \in cancelled' \/ HandedAgain(n)'
  BY <1>1, <1>4, <1>5, <1>6, <1>7, <1>8, <1>12 DEF RunInv
<1>13. \A h \in Handlers : Active(h)' => Target(h)' \in Ids
  BY <1>5, <1>6, Zenon
<1>14. \A h \in Handlers : Active(h)' =>
         \E n \in Ids : n = Target(h) /\ n = Target(h)'
  BY <1>5, <1>6, Zenon
<1>15. \A g, h \in Handlers :
         g # h /\ Active(g)' /\ Active(h)' /\ Target(g)' = Target(h)' => HandedAgain(Target(h))'
  <2> SUFFICES ASSUME NEW g \in Handlers, NEW h \in Handlers,
                      g # h, Active(g)', Active(h)', Target(g)' = Target(h)'
               PROVE  HandedAgain(Target(h))'
    BY Zenon
  <2>1. PICK n \in Ids : n = Target(h) /\ n = Target(h)'
    BY <1>14, Zenon
  <2>2. HandedAgain(n)'
    BY <1>11, <2>1, Zenon
  <2> QED
    BY <2>1, <2>2, Zenon DEF HandedAgain
<1>16. \A h \in Handlers :
         Active(h)' /\ step'[h] # "webhook" /\ status'[Target(h)'] \in Terminal =>
           Target(h)' \in cancelled' \/ HandedAgain(Target(h))'
  <2> SUFFICES ASSUME NEW h \in Handlers, Active(h)', step'[h] # "webhook",
                      status'[Target(h)'] \in Terminal
               PROVE  Target(h)' \in cancelled' \/ HandedAgain(Target(h))'
    BY Zenon
  <2>1. PICK n \in Ids : n = Target(h) /\ n = Target(h)'
    BY <1>14, Zenon
  <2>2. n \in cancelled' \/ HandedAgain(n)'
    BY <1>12, <2>1, Zenon
  <2> QED
    BY <2>1, <2>2, Zenon DEF HandedAgain
<1> QED
  BY <1>0, <1>1, <1>2, <1>9, <1>10, <1>15, <1>16 DEF RunInv

(* A step of Process after its first keeps RunInv: it records an outcome only *)
(* on its own row, and another run on that row makes two.                    *)
LEMMA WithinKeeps ==
  ASSUME HubInv, RunInv, NEW h \in Handlers, Within(h)
  PROVE  RunInv'
<1>0. HubTypes /\ UNCHANGED <<topic, handed, cancelled>> /\ step[h] # "idle"
  BY Zenon DEF HubInv, Within
<1>1. \A g \in Handlers : g # h => step'[g] = step[g] /\ current'[g] = current[g]
  BY <1>0, Zenon DEF HubTypes, Within
<1>2. Active(h)' => current'[h] = current[h] /\ step[h] # "webhook"
  BY Zenon DEF Within, Active
<1>3. \A g \in Handlers : Active(g)' =>
        /\ Active(g) /\ current'[g] = current[g]
        /\ Target(g)' = Target(g)
        /\ step'[g] # "webhook" => step[g] # "webhook"
  BY <1>0, <1>1, <1>2, Zenon DEF Active, Target
<1>4. \A n : /\ HandedAgain(n)' <=> HandedAgain(n)
             /\ HandedOnce(n)' <=> HandedOnce(n)
  BY <1>0, Zenon DEF HandedAgain, HandedOnce
<1>5. Target(h) \in Ids /\ HandedOnce(Target(h))
  BY <1>0, TargetType, Zenon DEF RunInv, HandedOnce, Active, Target
<1>6. \A n \in Ids : status'[n] \in Terminal =>
        \/ status[n] \in Terminal
        \/ n = Target(h) /\ step'[h] = "webhook"
  BY <1>0, <1>5, Zenon DEF Within, HubTypes, Terminal
<1>7. \A n \in Ids : status'[n] \in Terminal => n \in cancelled' \/ HandedOnce(n)'
  BY <1>0, <1>4, <1>5, <1>6, Zenon DEF RunInv
<1>8. \A g \in Handlers : Active(g)' => handed'[current'[g]] > 0
  BY <1>0, <1>3, Zenon DEF RunInv
<1>9. \A g, k \in Handlers :
        g # k /\ Active(g)' /\ Active(k)' /\ Target(g)' = Target(k)' => HandedAgain(Target(k))'
  <2> SUFFICES ASSUME NEW g \in Handlers, NEW k \in Handlers,
                      g # k, Active(g)', Active(k)', Target(g)' = Target(k)'
               PROVE  HandedAgain(Target(k))'
    BY Zenon
  <2>1. HandedAgain(Target(k))
    BY <1>3, Zenon DEF RunInv
  <2>2. Target(k)' = Target(k)
    BY <1>3, Zenon
  <2> QED
    BY <1>0, <2>1, <2>2, Zenon DEF HandedAgain
<1>10. \A g \in Handlers :
         Active(g)' /\ step'[g] # "webhook" /\ status'[Target(g)'] \in Terminal =>
           Target(g)' \in cancelled' \/ HandedAgain(Target(g))'
  <2> SUFFICES ASSUME NEW g \in Handlers, Active(g)', step'[g] # "webhook",
                      status'[Target(g)'] \in Terminal
               PROVE  Target(g)' \in cancelled' \/ HandedAgain(Target(g))'
    BY Zenon
  <2>1. Active(g) /\ Target(g)' = Target(g) /\ Target(g) \in Ids /\ step[g] # "webhook"
    BY <1>3, TargetType, Zenon DEF Active
  <2>2. status[Target(g)] \in Terminal \/ (Target(g) = Target(h) /\ g # h)
    BY <1>6, <2>1, Zenon
  <2>3. Target(g) \in cancelled \/ HandedAgain(Target(g))
    BY <1>0, <2>1, <2>2, Zenon DEF RunInv, Active
  <2> QED
    BY <1>0, <2>1, <2>3, Zenon DEF HandedAgain
<1>11. Len(topic') <= MaxLog /\ handed' \in [Indexes -> Nat]
  BY <1>0, Zenon DEF RunInv
<1> QED
  BY <1>7, <1>8, <1>9, <1>10, <1>11, Zenon DEF RunInv

(* Where Process was started on a row already, one more start makes two.     *)
LEMMA StartedTwice ==
  ASSUME handed \in [Indexes -> Nat], topic' = topic, Len(topic) \in Nat, Len(topic) <= MaxLog,
         NEW i \in 1 .. Len(topic), handed' = [handed EXCEPT ![i] = handed[i] + 1],
         NEW n, n = topic[i].id, HandedOnce(n)
  PROVE  HandedAgain(n)'
<1>1. PICK j \in 1 .. Len(topic) : topic[j].id = n /\ handed[j] > 0
  BY Zenon DEF HandedOnce
<1>2. i \in Indexes /\ j \in Indexes /\ handed[i] \in Nat /\ handed[j] \in Nat
  BY StoreAssumption DEF Indexes
<1>3. handed'[i] = handed[i] + 1 /\ handed'[j] > 0 /\ handed'[i] > 0
  BY <1>1, <1>2
<1>4. i # j \/ handed'[i] > 1
  BY <1>1, <1>2, <1>3
<1> QED
  BY <1>1, <1>3, <1>4, Zenon DEF HandedAgain

(* The first step of Process keeps RunInv.                                   *)
LEMMA BeginKeeps ==
  ASSUME HubInv, RunInv, NEW h \in Handlers, NEW i \in 1 .. Len(topic), Begin(h, i),
         UNCHANGED cancelled
  PROVE  RunInv'
<1>0. /\ HubTypes /\ handed \in [Indexes -> Nat] /\ Len(topic) <= MaxLog
      /\ UNCHANGED <<topic, status>> /\ step[h] = "idle"
      /\ step' = [step EXCEPT ![h] = "fetch"] /\ current' = [current EXCEPT ![h] = i]
      /\ handed' = [handed EXCEPT ![i] = handed[i] + 1]
  BY Zenon DEF HubInv, RunInv, Begin, storeVars
<1>1. /\ Len(topic) \in Nat /\ i \in Indexes /\ handed[i] \in Nat
      /\ handed' \in [Indexes -> Nat] /\ handed'[i] > 0
      /\ \A j \in Indexes : handed[j] <= handed'[j] /\ handed[j] \in Nat /\ handed'[j] \in Nat
  <2>1. Len(topic) \in Nat
    BY <1>0 DEF HubTypes
  <2>2. i \in Indexes
    BY <1>0, <2>1, StoreAssumption DEF Indexes
  <2> QED
    BY <1>0, <2>1, <2>2
<1>2. \A j \in 1 .. Len(topic) : j \in Indexes
  BY <1>0, <1>1, StoreAssumption DEF Indexes
<1>3. \A n : /\ HandedOnce(n) => HandedOnce(n)'
             /\ HandedAgain(n) => HandedAgain(n)'
  BY <1>0, <1>1, <1>2, HandedStays
<1>4. PICK n : n = topic[i].id
  BY Zenon
<1>5. HandedOnce(n) => HandedAgain(n)'
  BY <1>0, <1>1, <1>4, StartedTwice, Zenon
<1>6. n \in Ids
  <2>1. topic[i] \in Message
    BY <1>0 DEF HubTypes
  <2> QED
    BY <1>4, <2>1, Zenon DEF Message
<1>7. /\ step'[h] = "fetch" /\ current'[h] = i /\ Target(h)' = n
      /\ \A g \in Handlers : g # h => step'[g] = step[g] /\ current'[g] = current[g]
  BY <1>0, <1>4, Zenon DEF HubTypes, Target
<1>8. ASSUME NEW g \in Handlers, g # h, Active(g)'
      PROVE  /\ Active(g) /\ Target(g)' = Target(g) /\ step'[g] = step[g]
             /\ current[g] \in 1 .. Len(topic) /\ handed[current[g]] > 0
             /\ current'[g] = current[g] /\ Target(g) \in Ids
  BY <1>0, <1>7, <1>8, TargetType, Zenon DEF Active, Target, RunInv
<1>9. ASSUME NEW g \in Handlers, g # h, Active(g)', Target(g)' = n PROVE HandedOnce(n)
  BY <1>8, <1>9, Zenon DEF HandedOnce, Target
<1>10. \A k \in Ids : status'[k] \in Terminal => k \in cancelled' \/ HandedOnce(k)'
  BY <1>0, <1>3, Zenon DEF RunInv
<1>11. \A g \in Handlers : Active(g)' => handed'[current'[g]] > 0
  <2> SUFFICES ASSUME NEW g \in Handlers, Active(g)' PROVE handed'[current'[g]] > 0
    BY Zenon
  <2>1. CASE g = h
    BY <1>1, <1>7, <2>1, Zenon
  <2>2. CASE g # h
    <3>1. PICK j \in Indexes : handed[j] > 0 /\ current'[g] = j
      BY <1>2, <1>8, <2>2, Zenon
    <3>2. handed[j] <= handed'[j] /\ handed[j] \in Nat /\ handed'[j] \in Nat
      BY <1>1, Zenon
    <3>3. handed'[j] > 0
      BY <3>1, <3>2
    <3> QED
      BY <3>1, <3>3, Zenon
  <2> QED
    BY <2>1, <2>2, Zenon
<1>12. \A g, k \in Handlers :
        g # k /\ Active(g)' /\ Active(k)' /\ Target(g)' = Target(k)' => HandedAgain(Target(k))'
  <2> SUFFICES ASSUME NEW g \in Handlers, NEW k \in Handlers,
                      g # k, Active(g)', Active(k)', Target(g)' = Target(k)'
               PROVE  HandedAgain(Target(k))'
    BY Zenon
  <2>1. PICK m : m = Target(k)'
    BY Zenon
  <2>2. CASE g = h \/ k = h
    <3>1. m = n
      BY <1>7, <2>1, <2>2, Zenon
    <3>2. HandedOnce(n)
      BY <1>9, <2>1, <2>2, <3>1, Zenon
    <3>3. HandedAgain(m)'
      BY <1>5, <3>1, <3>2
    <3> QED
      BY <2>1, <3>3, Zenon DEF HandedAgain
  <2>3. CASE g # h /\ k # h
    <3>1. m = Target(k) /\ HandedAgain(Target(k))
      BY <1>8, <2>1, <2>3, Zenon DEF RunInv
    <3>2. HandedAgain(m)
      BY <3>1, Zenon
    <3>3. HandedAgain(m)'
      BY <1>3, <3>2, Zenon
    <3> QED
      BY <2>1, <3>3, Zenon DEF HandedAgain
  <2> QED
    BY <2>2, <2>3, Zenon
<1>13. \A g \in Handlers :
         Active(g)' /\ step'[g] # "webhook" /\ status'[Target(g)'] \in Terminal =>
           Target(g)' \in cancelled' \/ HandedAgain(Target(g))'
  <2> SUFFICES ASSUME NEW g \in Handlers, Active(g)', step'[g] # "webhook",
                      status'[Target(g)'] \in Terminal
               PROVE  Target(g)' \in cancelled' \/ HandedAgain(Target(g))'
    BY Zenon
  <2>1. PICK m : m = Target(g)'
    BY Zenon
  <2>2. m \in cancelled \/ HandedAgain(m)'
    <3>1. CASE g = h
      <4>1. m = n /\ (n \in cancelled \/ HandedOnce(n))
        BY <1>0, <1>6, <1>7, <2>1, <3>1, Zenon DEF RunInv
      <4> QED
        BY <1>5, <4>1, Zenon
    <3>2. CASE g # h
      <4>1. m = Target(g) /\ (Target(g) \in cancelled \/ HandedAgain(Target(g)))
        BY <1>0, <1>8, <2>1, <3>2, Zenon DEF RunInv
      <4>2. m \in cancelled \/ HandedAgain(m)
        BY <4>1, Zenon
      <4> QED
        BY <1>3, <4>2, Zenon
    <3> QED
      BY <3>1, <3>2, Zenon
  <2> QED
    BY <2>1, <2>2, Zenon DEF HandedAgain
<1> QED
  BY <1>0, <1>1, <1>10, <1>11, <1>12, <1>13, Zenon DEF RunInv

(* Every step keeps RunInv.                                                  *)
LEMMA RunsNext == HubInv /\ RunInv /\ [Next]_vars => RunInv'
<1> SUFFICES ASSUME HubInv, RunInv, [Next]_vars PROVE RunInv'
  BY Zenon
<1>0. HubTypes
  BY Zenon DEF HubInv
<1>1. ASSUME NEW h \in Handlers, Process(h) PROVE RunInv'
  <2>1. CASE ProcStep(h)
    BY <1>1, <2>1, StepsWithin, WithinKeeps, Zenon
  <2>2. CASE ProcBegin(h)
    <3>1. PICK i \in 1 .. Len(topic) : Begin(h, i)
      BY <2>2, Zenon DEF ProcBegin
    <3>2. UNCHANGED cancelled
      BY <1>1, Zenon DEF Process, serviceVars
    <3> QED
      BY <3>1, <3>2, BeginKeeps, Zenon
  <2> QED
    BY <1>1, <2>1, <2>2, Zenon DEF Process
<1>2. CASE WorkerCrash
  <2>1. UNCHANGED <<topic, status, handed, cancelled>> /\ \A h \in Handlers : ~Active(h)'
    BY <1>2, Zenon DEF WorkerCrash, ProcCrash, storeVars, serviceVars, Active
  <2>2. \A n : HandedOnce(n)' <=> HandedOnce(n)
    BY <2>1, Zenon DEF HandedOnce
  <2>3. /\ Len(topic') <= MaxLog /\ handed' \in [Indexes -> Nat]
        /\ \A n \in Ids : status'[n] \in Terminal => n \in cancelled' \/ HandedOnce(n)'
    BY <2>1, <2>2, Zenon DEF RunInv
  <2> QED
    BY <2>1, <2>3, Zenon DEF RunInv
<1> QED
  BY <1>0, <1>1, <1>2, OthersOutside, OutsideKeeps, Zenon DEF Next, CalmNext

\* What OutcomeIsKept says of one step.
KeepsOutcome ==
  \A n \in Ids : status[n] \in Terminal /\ status'[n] # status[n] =>
    \/ status'[n] = "queued" /\ QueuedMarkDue(n)
    \/ n \in cancelled \/ HandedAgain(n)

(* A step that changes an outcome is one of those OutcomeIsKept names.       *)
LEMMA OutcomesStay == HubInv /\ RunInv /\ [Next]_vars => KeepsOutcome
<1> SUFFICES ASSUME HubInv, RunInv, [Next]_vars PROVE KeepsOutcome
  BY Zenon
<1>0. HubTypes
  BY Zenon DEF HubInv
<1>1. ASSUME NEW h \in Handlers, Process(h) PROVE KeepsOutcome
  <2>1. PICK x : \/ UNCHANGED status
                 \/ /\ status' = [status EXCEPT ![Target(h)] = x]
                    /\ step[h] \in {"mark", "status"}
    BY <1>1, ProcessRows, Zenon DEF Process
  <2>2. step[h] \in {"mark", "status"} /\ status[Target(h)] \in Terminal =>
          Target(h) \in cancelled \/ HandedAgain(Target(h))
    BY Zenon DEF RunInv, Active
  <2> QED
    BY <1>0, <2>1, <2>2, Zenon DEF KeepsOutcome, HubTypes
<1>2. CASE WorkerCrash
  BY <1>2, Zenon DEF WorkerCrash, ProcCrash, storeVars, KeepsOutcome
<1>3. ASSUME Outside PROVE KeepsOutcome
  BY <1>3, Zenon DEF Outside, StatusMove, KeepsOutcome, Terminal
<1> QED
  BY <1>0, <1>1, <1>2, <1>3, OthersOutside, Zenon DEF Next, CalmNext

(* An outcome on a row that was not cancelled is overwritten only by the     *)
(* queued mark of whoever published the row, or once Process was started on  *)
(* the row a second time (UpdateStatus in Send, tick and Process).           *)
THEOREM OutcomesAreKept == Spec => OutcomeIsKept
  BY HubInit, HubNext, RunsStart, RunsNext, OutcomesStay, PTL DEF Spec, OutcomeIsKept, KeepsOutcome

-----------------------------------------------------------------------------
(* The topics. *)

(* Nobody takes anything from the channel topic.                             *)
LEMMA TopicGrows ==
  ASSUME HubInv, [Next]_vars
  PROVE  \/ UNCHANGED topic
         \/ \E m \in Message : topic' = Append(topic, m) /\ Len(topic) < MaxLog
<1>0. HubTypes
  BY Zenon DEF HubInv
<1>1. ASSUME NEW h \in Handlers, Process(h) PROVE UNCHANGED topic
  BY <1>1, ProcessRows, Zenon DEF Process
<1>2. CASE WorkerCrash
  BY <1>2, Zenon DEF WorkerCrash, ProcCrash, storeVars
<1> QED
  BY <1>0, <1>1, <1>2, OthersOutside, Zenon DEF Next, CalmNext, Outside

(* Only deadLetter writes to the dead-letter topic, what it has from the     *)
(* channel topic.                                                            *)
LEMMA LettersGrow ==
  ASSUME HubInv, [Next]_vars
  PROVE  \/ UNCHANGED dlqTopic
         \/ \E h \in Handlers :
              /\ step[h] = "deadletter" /\ UNCHANGED topic
              /\ dlqTopic' = Append(dlqTopic, topic[current[h]]) /\ Len(dlqTopic) < MaxLog
<1>1. CASE Service
  <2>1. PICK c \in Clients : SendStep(c)
    BY <1>1, Zenon DEF Service
  <2> QED
    BY <2>1, Zenon DEF SendStep, SendStart, SendLookup, SendCreate, SendEnqueue, SendMark, Create,
                       UpdateStatus, Publish, storeVars
<1>2. CASE CancelRequest \/ Schedule \/ SchedulerCrash \/ Clock \/ WorkerCrash \/ UNCHANGED vars
  BY <1>2, Zenon DEF CancelRequest, Cancel, CancelRow, UpdateStatus, Schedule, SchedulerCrash,
                     SchedulerStep, SchedTick, SchedMark, SchedEnqueue, SchedCrash, Publish, Clock,
                     ComeDue, WorkerCrash, ProcCrash, storeVars, vars
<1>3. ASSUME NEW h \in Handlers, Process(h), ~ProcDeadLetter(h) PROVE UNCHANGED dlqTopic
  <2>1. CASE ProcBegin(h) \/ ProcFetch(h) \/ ProcMark(h) \/ ProcCheck(h) \/ ProcRender(h)
    BY <2>1, Zenon DEF ProcBegin, Begin, ProcFetch, ProcMark, ProcCheck, ProcRender, UpdateStatus,
                       ReturnError, Conclude, storeVars
  <2>2. CASE ProcSend(h) \/ ProcLog(h) \/ ProcStatus(h) \/ ProcWebhook(h)
    BY <2>2, Zenon
    DEF ProcSend, TryAgain, ProcLog, ProcStatus, ProcWebhook, UpdateStatus, Conclude, storeVars
  <2> QED
    BY <1>3, <2>1, <2>2, Zenon DEF Process, ProcStep
<1>4. ASSUME NEW h \in Handlers, ProcDeadLetter(h)
      PROVE  \/ UNCHANGED dlqTopic
             \/ /\ step[h] = "deadletter" /\ UNCHANGED topic
                /\ dlqTopic' = Append(dlqTopic, topic[current[h]]) /\ Len(dlqTopic) < MaxLog
  BY <1>4, Zenon DEF ProcDeadLetter, PublishDLQ, storeVars
<1> QED
  BY <1>1, <1>2, <1>3, <1>4, Zenon DEF Next, CalmNext

\* A dead letter is a message that was in the channel topic.
LetterInv ==
  /\ Len(dlqTopic) <= MaxLog
  /\ \A i \in 1 .. Len(dlqTopic) : Published(dlqTopic[i].id)

(* There is no dead letter at the start.                                     *)
LEMMA LettersStart == Init => LetterInv
  BY StoreAssumption DEF Init, StoreInit, LetterInv

(* Every step keeps LetterInv.                                               *)
LEMMA LettersNext == HubInv /\ LetterInv /\ [Next]_vars => LetterInv'
<1> SUFFICES ASSUME HubInv, LetterInv, [Next]_vars PROVE LetterInv'
  BY Zenon
<1>0. topic \in Seq(Message) /\ dlqTopic \in Seq(Message)
  BY Zenon DEF HubInv, HubTypes
<1>1. \A n : Published(n) => Published(n)'
  <2>1. CASE UNCHANGED topic
    BY <2>1, Zenon DEF Published
  <2>2. CASE \E m \in Message : topic' = Append(topic, m)
    BY <1>0, <2>2, PublishAdds, Zenon DEF MayPublish
  <2> QED
    BY <2>1, <2>2, TopicGrows, Zenon
<1>2. CASE UNCHANGED dlqTopic
  BY <1>1, <1>2, Zenon DEF LetterInv
<1>3. ASSUME NEW h \in Handlers, step[h] = "deadletter", Len(dlqTopic) < MaxLog,
             dlqTopic' = Append(dlqTopic, topic[current[h]])
      PROVE  LetterInv'
  <2>1. PICK m \in Message : m = topic[current[h]] /\ Published(m.id)
    BY <1>3, TargetType, Zenon DEF Published
  <2>2. /\ Len(dlqTopic') = Len(dlqTopic) + 1 /\ Len(dlqTopic) \in Nat
        /\ dlqTopic'[Len(dlqTopic) + 1] = m
        /\ \A i \in 1 .. Len(dlqTopic) : dlqTopic'[i] = dlqTopic[i]
    BY <1>0, <1>3, <2>1, Appended
  <2>3. ASSUME NEW i \in 1 .. Len(dlqTopic') PROVE Published(dlqTopic[i].id)'
    <3>1. i \in 1 .. Len(dlqTopic) \/ i = Len(dlqTopic) + 1
      BY <2>2
    <3>2. PICK n : n = dlqTopic'[i].id /\ Published(n)
      BY <2>1, <2>2, <3>1, Zenon DEF LetterInv
    <3> QED
      BY <1>1, <3>2, Zenon DEF Published
  <2>4. Len(dlqTopic') <= MaxLog
    BY <1>3, <2>2, StoreAssumption
  <2> QED
    BY <2>3, <2>4, Zenon DEF LetterInv
<1> QED
  BY <1>2, <1>3, LettersGrow, Zenon

(* What is in a topic has a row.                                             *)
LEMMA RowsOfMessages == HubInv /\ RequestInv /\ LetterInv => MessagesHaveRows
<1> SUFFICES ASSUME HubInv, RequestInv, LetterInv PROVE MessagesHaveRows
  BY Zenon
<1>1. \A n \in Ids : Published(n) => n \in Existing
  BY Zenon DEF RequestInv, EarlyInv, Untouched, Existing
<1>2. \A i \in 1 .. Len(topic) : topic[i].id \in Ids /\ Published(topic[i].id)
  <2>1. \A i \in 1 .. Len(topic) : topic[i] \in Message
    BY DEF HubInv, HubTypes
  <2> QED
    BY <2>1, Zenon DEF Message, Published
<1>3. \A i \in 1 .. Len(dlqTopic) : dlqTopic[i].id \in Ids /\ Published(dlqTopic[i].id)
  <2>1. \A i \in 1 .. Len(dlqTopic) : dlqTopic[i] \in Message
    BY DEF HubInv, HubTypes
  <2> QED
    BY <2>1, Zenon DEF Message, LetterInv
<1> QED
  BY <1>1, <1>2, <1>3, Zenon DEF MessagesHaveRows

(* Every message of both topics names a row that exists: whoever publishes   *)
(* does so after the INSERT, and dead letters come from the channel topic    *)
(* (Send, tick, deadLetter).                                                 *)
THEOREM MessagesAreOfRows == Spec => []MessagesHaveRows
  BY RequestsCorrect, LettersStart, LettersNext, RowsOfMessages, PTL DEF Spec

-----------------------------------------------------------------------------
(* What other modules need to know of a step. *)

(* Putting a message of a published notification into the channel topic once *)
(* more breaks nothing that requests, schedulers and workers rely on.        *)
LEMMA RepublishKeeps ==
  ASSUME HubInv, RequestInv, RunInv, NEW m \in Message, Published(m.id),
         topic' = Append(topic, m), Len(topic) < MaxLog,
         UNCHANGED <<status, columns, dlqTopic, serviceVars, schedulerVars, processorVars, recalled>>
  PROVE  HubInv' /\ RequestInv' /\ RunInv'
<1>0. HubTypes
  BY Zenon DEF HubInv
<1>1. HubInv'
  <2>1. topic' \in Seq(Message)
    BY <1>0, PublishedType, Zenon DEF HubTypes
  <2>2. HubTypes'
    BY <1>0, <2>1, Zenon DEF HubTypes, serviceVars, schedulerVars, processorVars
  <2> QED
    BY <2>2, Environment, Zenon
<1>2. RequestInv'
  <2>1. m.id \in Ids
    BY Zenon DEF Message
  <2>2. m.id \in Existing /\ schedule[m.id] # "future" /\ m.id \notin recalled
    BY <2>1, Zenon DEF RequestInv, EarlyInv, RecallInv, Untouched, Existing
  <2>3. PublishesDue
    BY <2>2, Zenon DEF PublishesDue, Enqueues
  <2>4. UNCHANGED <<call, answers, batch, marking>>
    BY Zenon DEF serviceVars, schedulerVars
  <2>5. Reaches
    BY <1>0, <2>3, <2>4, DueTouched, Zenon DEF Reaches, Untouched
  <2> QED
    BY <1>0, <2>3, <2>4, <2>5, WorkStep, Zenon
<1>3. RunInv'
  <2>1. Outside
    BY Zenon DEF Outside, StatusMove, serviceVars
  <2> QED
    BY <2>1, OutsideKeeps, Zenon
<1> QED
  BY <1>1, <1>2, <1>3, Zenon

\* The steps up to the end of sendWithRetry.
Sending == {"fetch", "mark", "check", "render", "send"}

(* A run of Process that has sent its notification does not come back to     *)
(* where it could send it again, unless the send failed; then an attempt is  *)
(* used up.                                                                  *)
LEMMA SendsOnce ==
  ASSUME HubInv, NEW h \in Handlers, ProcStep(h)
  PROVE  /\ step'[h] \in Sending =>
              step[h] \in Sending /\ current'[h] = current[h] /\ tried[h] <= tried'[h]
         /\ \/ UNCHANGED <<sent, doubtful>>
            \/ /\ step[h] = "send" /\ step'[h] \notin Sending /\ UNCHANGED doubtful
               /\ sent' = [sent EXCEPT ![Target(h)] = sent[Target(h)] + 1]
            \/ /\ step[h] = "send" /\ tried'[h] = tried[h] + 1 /\ UNCHANGED sent
               /\ doubtful' = [doubtful EXCEPT ![Target(h)] = doubtful[Target(h)] + 1]
<1>0. /\ step \in [Handlers -> Steps] /\ current \in [Handlers -> Nat]
      /\ tried \in [Handlers -> Nat] /\ tried[h] \in Nat
  BY Zenon DEF HubInv, HubTypes
<1>t. tried[h] <= tried[h] /\ tried[h] <= tried[h] + 1
  BY <1>0
<1>1. CASE ProcFetch(h) \/ ProcMark(h) \/ ProcCheck(h) \/ ProcRender(h)
  <2>1. step[h] \in Sending /\ UNCHANGED <<sent, doubtful>>
    BY <1>1, Zenon DEF ProcFetch, ProcMark, ProcCheck, ProcRender, ReturnError, Sending
  <2>2. UNCHANGED <<current, tried>> \/ step' = [step EXCEPT ![h] = "idle"]
    BY <1>1, Zenon DEF ProcFetch, ProcMark, ProcCheck, ProcRender, ReturnError, Conclude, Leave
  <2> QED
    BY <1>0, <1>t, <2>1, <2>2, Zenon DEF Sending
<1>2. CASE ProcSend(h)
  <2>1. /\ step[h] = "send" /\ UNCHANGED current /\ tried' = [tried EXCEPT ![h] = tried[h] + 1]
        /\ \/ UNCHANGED <<sent, doubtful>>
           \/ /\ sent' = [sent EXCEPT ![Target(h)] = sent[Target(h)] + 1]
              /\ step' = [step EXCEPT ![h] = "log"] /\ UNCHANGED doubtful
           \/ /\ doubtful' = [doubtful EXCEPT ![Target(h)] = doubtful[Target(h)] + 1]
              /\ UNCHANGED sent
    BY <1>2, Zenon DEF ProcSend, Sent, SendFails, TryAgain, Conclude, Advance
  <2>2. tried'[h] = tried[h] + 1
    BY <1>0, <2>1, Zenon
  <2> QED
    BY <1>0, <1>t, <2>1, <2>2, Zenon DEF Sending
<1>3. CASE ProcLog(h) \/ ProcDeadLetter(h) \/ ProcStatus(h) \/ ProcWebhook(h)
  <2>1. UNCHANGED <<sent, doubtful>>
    BY <1>3, Zenon DEF ProcLog, ProcDeadLetter, ProcStatus, ProcWebhook
  <2>2. \E st \in Steps \ Sending : step' = [step EXCEPT ![h] = st]
    BY <1>3, Zenon DEF ProcLog, ProcDeadLetter, ProcStatus, ProcWebhook, Advance, Leave, Steps, Sending
  <2> QED
    BY <1>0, <2>1, <2>2, Zenon
<1> QED
  BY <1>1, <1>2, <1>3, Zenon DEF ProcStep
=============================================================================
