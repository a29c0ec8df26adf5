-------------------------------- MODULE Inbox --------------------------------
(***************************************************************************)
(* In-app delivery: provider/inapp stores a message and publishes it on    *)
(* Redis; the hub of each API process (realtime/hub.go) fans it out to the *)
(* WebSocket streams of one recipient (api/handler/inbox.go), which replay *)
(* from the table what a client missed while it was away.  One recipient,  *)
(* one API process; a message is its place in the order of created_at, id, *)
(* which is the order in which the INSERTs began and not the one in which  *)
(* they commit.  Redis pub/sub, the table and the WebSocket clients are    *)
(* external; a client keeps the id of the last frame it received, as       *)
(* Stream's comment tells it to.                                           *)
(***************************************************************************)
EXTENDS Integers, Sequences, FiniteSets

CONSTANTS Concurrency,   \* in-app worker goroutines
          Clients,       \* connected devices of the recipient
          MaxMessages,   \* bound: INSERTs ever begun
          BufSize,       \* Hub.bufSize
          HistoryLimit,  \* LIMIT of ListInboxSince
          MaxFaults,     \* bound: disconnects, lost subscriptions and process crashes
          InfraErrors    \* may Postgres and Redis calls fail?

ASSUME InboxAssumption ==
  /\ Concurrency \in Nat /\ MaxMessages \in Nat /\ MaxFaults \in Nat
  /\ BufSize \in Nat \ {0} /\ HistoryLimit \in Nat \ {0}
  /\ InfraErrors \in BOOLEAN

VARIABLES
  begun,      \* INSERTs 1 .. begun have got their created_at
  inserting,  \* those whose transaction is open
  rows,       \* those that committed: the rows a query sees
  sending,    \* rows that a worker goroutine is about to publish
  pubsub,     \* published, not yet received by Hub.Run
  fan,        \* Hub.Publish: the message and the channels still to be visited
  stream,     \* per client, where its Stream handler is
  history,    \* per client, history frames still to be written
  buffer,     \* per client, its subscription channel
  cursor,     \* per client, the last message it received
  faults,
  \* history
  top,        \* the highest message published
  overtaken,  \* messages that committed or were published after a later one
  settled     \* per client, messages it received, that came before it began to
              \* follow the stream, or that it lost in a way the code accepts

inboxVars == <<begun, inserting, rows, sending, pubsub, fan, stream, history, buffer,
               cursor, faults, top, overtaken, settled>>
sendVars == <<begun, inserting, rows, sending, top, overtaken>>
clientVars == <<stream, history, buffer, cursor>>

NoMsg == 0
NoFan == [msg |-> NoMsg, left |-> {}]
Elements(s) == {s[i] : i \in 1 .. Len(s)}

InboxInit ==
  /\ begun = 0 /\ top = 0 /\ faults = 0
  /\ inserting = {} /\ rows = {} /\ sending = {} /\ overtaken = {}
  /\ pubsub = <<>> /\ fan = NoFan
  /\ stream = [c \in Clients |-> "off"]
  /\ history = [c \in Clients |-> <<>>]
  /\ buffer = [c \in Clients |-> <<>>]
  /\ cursor = [c \in Clients |-> NoMsg]
  /\ settled = [c \in Clients |-> {}]

\* Types; the subscription channel never holds more than it was made for, and
\* nothing is kept for a client that is not connected.
InboxTypeOK ==
  /\ begun \in 0 .. MaxMessages /\ top \in 0 .. begun /\ faults \in 0 .. MaxFaults
  /\ inserting \subseteq 1 .. begun /\ rows \subseteq (1 .. begun) \ inserting
  /\ sending \subseteq rows /\ overtaken \subseteq rows
  /\ Cardinality(inserting \cup sending) <= Concurrency
  /\ pubsub \in Seq(rows)
  /\ fan.msg \in rows \cup {NoMsg} /\ fan.left \subseteq Clients
  /\ stream \in [Clients -> {"off", "subscribed", "replay", "live"}]
  /\ \A c \in Clients :
       /\ cursor[c] \in rows \cup {NoMsg}
       /\ history[c] \in Seq(rows) /\ Len(history[c]) <= HistoryLimit
       /\ buffer[c] \in Seq(rows) /\ Len(buffer[c]) <= BufSize
       /\ stream[c] = "off" => history[c] = <<>> /\ buffer[c] = <<>>
       /\ settled[c] \subseteq rows

\* The messages of ms will not be published (again): a client that is connected,
\* or past them, has lost them; another one finds them in the history.
Lose(ms) ==
  settled' = [c \in Clients |->
                settled[c] \cup {m \in ms : stream[c] # "off" \/ m < cursor[c]}]

-----------------------------------------------------------------------------
(* Provider.Send. *)

(* The INSERT begins: now() is the time at which its transaction starts. *)
SendInsert ==
  /\ Cardinality(inserting \cup sending) < Concurrency /\ begun < MaxMessages
  /\ begun' = begun + 1
  /\ inserting' = inserting \cup {begun + 1}
  /\ UNCHANGED <<rows, sending, pubsub, fan, clientVars, faults, top, overtaken, settled>>

\* The messages of ms, whose transactions were open, become visible.
Commit(ms) ==
  /\ rows' = rows \cup ms
  /\ overtaken' = overtaken \cup {m \in ms : \E r \in rows : m < r}

(* It commits, and Send goes on; or it fails, for which Send returns a       *)
(* temporary error and will be called again with another row.  It may have   *)
(* committed all the same.                                                   *)
SendCommit(m) ==
  /\ inserting' = inserting \ {m}
  /\ \/ Commit({m}) /\ sending' = sending \cup {m} /\ UNCHANGED settled
     \/ /\ InfraErrors /\ UNCHANGED sending
        /\ \/ Commit({m}) /\ Lose({m})
           \/ UNCHANGED <<rows, overtaken, settled>>
  /\ UNCHANGED <<begun, pubsub, fan, clientVars, faults, top>>

(* The publish; a failure is only logged.  A later message of another        *)
(* goroutine may have overtaken this one.                                    *)
SendPublish(m) ==
  /\ sending' = sending \ {m}
  /\ \/ /\ pubsub' = Append(pubsub, m)
        /\ top' = IF top < m THEN m ELSE top
        /\ overtaken' = overtaken \cup (IF m < top THEN {m} ELSE {})
        /\ UNCHANGED settled
     \/ InfraErrors /\ Lose({m}) /\ UNCHANGED <<pubsub, top, overtaken>>
  /\ UNCHANGED <<begun, inserting, rows, fan, clientVars, faults>>

-----------------------------------------------------------------------------
(* The hub. *)

\* Mutant: the stream subscribes only after it has replayed the history.
SubscribedWhenLive == {c \in Clients : stream[c] = "live"}

\* Hub.conns: Stream subscribes before it reads the history.
Subscribers == {c \in Clients : stream[c] # "off"}

(* Run receives a message, and Publish takes the map of the recipient's      *)
(* channels, which it goes through without the lock.  A client that is away  *)
(* finds the message in the history, unless it was overtaken by one that the *)
(* client may have received already.                                         *)
HubReceive ==
  /\ fan = NoFan /\ pubsub # <<>>
  /\ pubsub' = Tail(pubsub)
  /\ fan' = IF Subscribers = {} THEN NoFan ELSE [msg |-> Head(pubsub), left |-> Subscribers]
  /\ settled' = [c \in Clients |-> settled[c] \cup
                   IF stream[c] = "off" THEN {Head(pubsub)} \cap overtaken ELSE {}]
  /\ UNCHANGED <<sendVars, clientVars, faults>>

FanNext(left) == fan' = IF left = {} THEN NoFan ELSE [fan EXCEPT !.left = left]

\* Mutant: Publish waits for room in a full channel.
HubSendWaits(c) ==
  /\ c \in fan.left /\ stream[c] # "off"
  /\ FanNext(fan.left \ {c})
  /\ Len(buffer[c]) < BufSize
  /\ buffer' = [buffer EXCEPT ![c] = Append(@, fan.msg)]
  /\ UNCHANGED <<sendVars, pubsub, stream, history, cursor, faults, settled>>

(* Publish: a channel with room gets the message; for a full one it is       *)
(* dropped.                                                                  *)
HubSend(c) ==
  /\ c \in fan.left /\ stream[c] # "off"
  /\ FanNext(fan.left \ {c})
  /\ \/ /\ Len(buffer[c]) < BufSize
        /\ buffer' = [buffer EXCEPT ![c] = Append(@, fan.msg)]
        /\ UNCHANGED settled
     \/ /\ Len(buffer[c]) = BufSize
        /\ settled' = [settled EXCEPT ![c] = @ \cup {fan.msg}]
        /\ UNCHANGED buffer
  /\ UNCHANGED <<sendVars, pubsub, stream, history, cursor, faults>>

(* The Redis connection of the hub breaks, or its channel overflows: what    *)
(* Run has not received from some message on is gone.  The client library    *)
(* subscribes again by itself, and Run notices nothing.                      *)
SubscriptionLost ==
  /\ faults < MaxFaults /\ faults' = faults + 1
  /\ \E n \in 0 .. Len(pubsub) - 1 :
       /\ pubsub' = SubSeq(pubsub, 1, n)
       /\ Lose({pubsub[i] : i \in n + 1 .. Len(pubsub)})
  /\ UNCHANGED <<sendVars, fan, clientVars>>

-----------------------------------------------------------------------------
(* Stream. *)

(* Connect: subscribe.  A client that has received nothing yet sends no      *)
(* since, and follows the stream from here on.  When Publish is going        *)
(* through the map, it may or may not come upon the new channel.             *)
StreamSubscribe(c) ==
  /\ stream[c] = "off"
  /\ stream' = [stream EXCEPT ![c] = IF cursor[c] = NoMsg THEN "live" ELSE "subscribed"]
  /\ settled' = [settled EXCEPT ![c] = @ \cup IF cursor[c] = NoMsg THEN rows \ sending ELSE {}]
  /\ \/ UNCHANGED fan
     \/ fan # NoFan /\ fan' = [fan EXCEPT !.left = @ \cup {c}]
  /\ UNCHANGED <<sendVars, pubsub, history, buffer, cursor, faults>>

LaterRows(m) == {r \in rows : m < r}

\* ListSince: the answers to the query, of which there is one: the rows after the
\* cursor that are visible, oldest first, up to the LIMIT.
ListSince(m) ==
  {s \in UNION {[1 .. n -> LaterRows(m)] : n \in 0 .. HistoryLimit} :
     /\ \A i, j \in 1 .. Len(s) : i < j => s[i] < s[j]
     /\ \A r \in LaterRows(m) \ Elements(s) :
          Len(s) = HistoryLimit /\ \A i \in 1 .. Len(s) : s[i] < r}

(* Read the history; when the query fails the stream goes live without it.   *)
(* The rows left out are lost, except those that are still to be published.  *)
StreamHistory(c) ==
  /\ stream[c] = "subscribed"
  /\ \/ \E missed \in ListSince(cursor[c]) :
          /\ history' = [history EXCEPT ![c] = missed]
          /\ stream' = [stream EXCEPT ![c] = "replay"]
          /\ settled' = [settled EXCEPT ![c] =
                           @ \cup ((LaterRows(cursor[c]) \ Elements(missed)) \ sending)]
     \/ /\ InfraErrors
        /\ stream' = [stream EXCEPT ![c] = "live"]
        /\ settled' = [settled EXCEPT ![c] = @ \cup (LaterRows(cursor[c]) \ sending)]
        /\ UNCHANGED history
  /\ UNCHANGED <<sendVars, pubsub, fan, buffer, cursor, faults>>

Receive(c, m) ==
  /\ cursor' = [cursor EXCEPT ![c] = m]
  /\ settled' = [settled EXCEPT ![c] = @ \cup {m}]

(* Write one history frame, or go on to the live loop. *)
StreamReplay(c) ==
  /\ stream[c] = "replay"
  /\ \/ /\ history[c] # <<>> /\ Receive(c, Head(history[c]))
        /\ history' = [history EXCEPT ![c] = Tail(@)]
        /\ UNCHANGED stream
     \/ /\ history[c] = <<>>
        /\ stream' = [stream EXCEPT ![c] = "live"]
        /\ UNCHANGED <<cursor, settled, history>>
  /\ UNCHANGED <<sendVars, pubsub, fan, buffer, faults>>

(* Write one live frame. *)
StreamLive(c) ==
  /\ stream[c] = "live" /\ buffer[c] # <<>>
  /\ Receive(c, Head(buffer[c]))
  /\ buffer' = [buffer EXCEPT ![c] = Tail(@)]
  /\ UNCHANGED <<sendVars, pubsub, fan, stream, history, faults>>

\* Messages that are on their way to c through its channel.
Coming(c) == Elements(buffer[c]) \cup (IF c \in fan.left THEN {fan.msg} ELSE {})

\* The streams of cs are gone, with what their channels held, and the messages of
\* ms with them.  What was not overtaken will be found in the history.
HangUp(cs, ms) ==
  /\ stream' = [c \in Clients |-> IF c \in cs THEN "off" ELSE stream[c]]
  /\ history' = [c \in Clients |-> IF c \in cs THEN <<>> ELSE history[c]]
  /\ buffer' = [c \in Clients |-> IF c \in cs THEN <<>> ELSE buffer[c]]
  /\ settled' = [c \in Clients |-> settled[c] \cup
                   IF c \in cs THEN (Coming(c) \cup ms) \cap overtaken ELSE {}]
  /\ UNCHANGED cursor

(* The connection breaks at any point: cancel removes and closes the channel.*)
(* Publish may be going through the same map; it does not see the channel    *)
(* any more, or it races with cancel, which HubPanic models.                 *)
StreamClose(c) ==
  /\ stream[c] # "off" /\ faults < MaxFaults
  /\ faults' = faults + 1
  /\ HangUp({c}, {})
  /\ FanNext(fan.left \ {c})
  /\ UNCHANGED <<sendVars, pubsub>>

(* A stream closes while Publish goes through the map: a send on the closed  *)
(* channel, or the map written during the iteration, ends the API process    *)
(* and every stream with it; what was published meanwhile reaches nobody.    *)
HubPanic ==
  /\ fan # NoFan /\ faults < MaxFaults
  /\ faults' = faults + 1
  /\ HangUp(Clients, Elements(pubsub)) /\ fan' = NoFan /\ pubsub' = <<>>
  /\ UNCHANGED sendVars

\* The worker process dies: what it was inserting may still commit, and what it
\* did not publish stays silent.
SenderCrash ==
  /\ inserting \cup sending # {}
  /\ faults < MaxFaults /\ faults' = faults + 1
  /\ inserting' = {} /\ sending' = {}
  /\ \E ms \in SUBSET inserting : Commit(ms) /\ Lose(ms \cup sending)
  /\ UNCHANGED <<begun, pubsub, fan, clientVars, top>>

-----------------------------------------------------------------------------
HubStep == HubReceive \/ \E c \in Clients : HubSend(c)
StreamStep(c) == StreamHistory(c) \/ StreamReplay(c) \/ StreamLive(c)

InboxNext ==
  \/ SendInsert
  \/ \E m \in inserting : SendCommit(m)
  \/ \E m \in sending : SendPublish(m)
  \/ HubStep \/ SubscriptionLost
  \/ \E c \in Clients : StreamSubscribe(c) \/ StreamStep(c) \/ StreamClose(c)
  \/ HubPanic \/ SenderCrash

\* Hub.Run is a goroutine that runs whenever it can.  A Stream handler may wait
\* for its client without end: conn.Write has no timeout.
InboxSpec == InboxInit /\ [][InboxNext]_inboxVars /\ WF_inboxVars(HubStep)

-----------------------------------------------------------------------------
(* Properties. *)

\* A client that keeps the id of its last message has no hole behind it: every
\* older row was received, is still being sent, or was lost in a way the code
\* accepts: it was never published, the hub's subscription broke, the client's
\* channel was full, or the history was cut off by its LIMIT or could not be read.
\* A row that committed or was published after a later one still comes to a
\* client that stays connected; one that is away by then has lost it, because
\* since is a place in the order of created_at (Stream, ListInboxSince, Publish).
NoSilentGap ==
  \A c \in Clients : \A m \in rows :
    m < cursor[c] =>
      \/ m \in settled[c] \cup sending
      \/ m \in overtaken \cap (Coming(c) \cup Elements(pubsub))

\* What is published goes through the hub although no client ever reads: the hub
\* drops a message for a full channel and waits for nobody (Publish: "never
\* blocks").
PublishedIsDrained == pubsub # <<>> \/ fan # NoFan ~> pubsub = <<>> /\ fan = NoFan
=============================================================================
