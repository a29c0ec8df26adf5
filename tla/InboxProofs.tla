----------------------------- MODULE InboxProofs -----------------------------
(***************************************************************************)
(* Proofs about Inbox and InboxPages: a client that follows its inbox has  *)
(* no hole behind its last message that the code does not account for, for *)
(* every number of senders, clients and messages, every size of a channel  *)
(* and every LIMIT of the history query; and a client that reads its inbox *)
(* page by page misses or repeats a message only for a cause.              *)
(***************************************************************************)
EXTENDS InboxClient, FiniteSetTheorems, TLAPS

-----------------------------------------------------------------------------
(* The stream: its inductive invariant. *)

Within(s, m) == \E i \in 1 .. Len(s) : s[i] = m
Before(s, j, m) == \E i \in 1 .. j - 1 : s[i] = m

(* Rows that were neither committed nor published after a later one.         *)
InOrder == rows \ overtaken

(* Stream will still write m to c from the history: the query is to come, or *)
(* its rows are being written.                                               *)
Pending(c, m) ==
  \/ stream[c] = "subscribed" /\ cursor[c] < m
  \/ stream[c] = "replay" /\ Within(history[c], m)

(* c has m, will get it from the history, or need not have it (yet).         *)
Known(c, m) == m \in settled[c] \/ m \in sending \/ Pending(c, m)
Held(c, m) == Known(c, m) \/ Within(buffer[c], m)
OnItsWay(c, m) == Held(c, m) \/ (c \in fan.left /\ m = fan.msg)

(* m is on the way from the sender to c.                                     *)
Underway(c, m) ==
  Within(buffer[c], m) \/ (c \in fan.left /\ m = fan.msg) \/ Within(pubsub, m)

(* Types, and where each part of the system has its messages from: whatever  *)
(* is on the way was committed, and published at or below top.               *)
SharedTypes ==
  /\ begun \in Nat /\ top \in Nat
  /\ inserting \subseteq 1 .. begun /\ rows \subseteq 1 .. begun /\ sending \subseteq rows
  /\ \A m \in inserting : m \notin rows
  /\ top \notin sending /\ (top # 0 => top \in rows)
  /\ pubsub \in Seq(Nat)
  /\ \A i \in 1 .. Len(pubsub) : pubsub[i] \in rows /\ pubsub[i] <= top
  /\ fan \in [msg : Nat, left : SUBSET Clients]
  /\ fan = NoFan \/ (fan.msg \in rows /\ fan.msg <= top)

ClientTypes ==
  /\ stream \in [Clients -> {"off", "subscribed", "replay", "live"}]
  /\ cursor \in [Clients -> Nat]
  /\ history \in [Clients -> Seq(Nat)] /\ buffer \in [Clients -> Seq(Nat)]
  /\ settled \in [Clients -> SUBSET Nat]

(* History frames are rows above the cursor, in their order, and between     *)
(* them no row is left out that could not have been seen by the query.       *)
Replayed(c) ==
  /\ \A i \in 1 .. Len(history[c]) : history[c][i] \in rows /\ cursor[c] < history[c][i]
  /\ \A i, j \in 1 .. Len(history[c]) : i < j => history[c][i] < history[c][j]
  /\ \A j \in 1 .. Len(history[c]) : \A m \in InOrder :
       cursor[c] < m /\ m < history[c][j] => Before(history[c], j, m)

Progress(c) ==
  /\ cursor[c] # NoMsg => cursor[c] \in rows /\ cursor[c] \in settled[c]
  /\ stream[c] = "replay" => Replayed(c)
  /\ \A i \in 1 .. Len(buffer[c]) : buffer[c][i] \in rows /\ buffer[c][i] <= top

(* What is missing behind the cursor was overtaken, or will be once it is    *)
(* published, and it is still on its way.                                    *)
Behind(c) ==
  \A m \in rows : m < cursor[c] =>
    \/ m \in settled[c]
    \/ m \in sending /\ (m < top \/ m \in overtaken)
    \/ m \in overtaken /\ Underway(c, m)

(* Whatever comes before a message that is on its way to a stream is known,  *)
(* or ahead of it on the same way, unless it was overtaken; and nothing      *)
(* vanishes from the way.                                                    *)
BufferOrder(c) ==
  \A j \in 1 .. Len(buffer[c]) : \A m \in InOrder : m < buffer[c][j] =>
    Known(c, m) \/ Before(buffer[c], j, m)
FanOrder(c) == c \in fan.left => \A m \in InOrder : m < fan.msg => Held(c, m)
PubsubOrder(c) ==
  \A j \in 1 .. Len(pubsub) : \A m \in InOrder : m < pubsub[j] =>
    OnItsWay(c, m) \/ Before(pubsub, j, m)
NoneLost(c) == \A m \in rows : OnItsWay(c, m) \/ Within(pubsub, m)

Followed(c) ==
  stream[c] # "off" => BufferOrder(c) /\ FanOrder(c) /\ PubsubOrder(c) /\ NoneLost(c)

InboxInv ==
  /\ SharedTypes /\ ClientTypes
  /\ \A c \in Clients : Progress(c) /\ Behind(c) /\ Followed(c)

(* Lemmas about the sequences. *)

(* Appending to a channel keeps what it holds, in its order.                 *)
LEMMA AppendWithin ==
  ASSUME NEW s \in Seq(Nat), NEW e \in Nat
  PROVE  /\ Append(s, e) \in Seq(Nat) /\ Len(Append(s, e)) = Len(s) + 1
         /\ \A i \in 1 .. Len(s) : Append(s, e)[i] = s[i]
         /\ Append(s, e)[Len(s) + 1] = e
         /\ \A m : Within(Append(s, e), m) <=> Within(s, m) \/ m = e
         /\ \A m : \A j \in 1 .. Len(s) : Before(s, j, m) => Before(Append(s, e), j, m)
         /\ \A m : Within(s, m) => Before(Append(s, e), Len(s) + 1, m)
<1>1. /\ Append(s, e) \in Seq(Nat) /\ Len(Append(s, e)) = Len(s) + 1 /\ Len(s) \in Nat
      /\ \A i \in 1 .. Len(s) : Append(s, e)[i] = s[i]
      /\ Append(s, e)[Len(s) + 1] = e
  OBVIOUS
<1> DEFINE a == Append(s, e)
           n == Len(s)
<1> HIDE DEF a, n
<1>2. \A i \in 1 .. n : i \in 1 .. n + 1 /\ a[i] = s[i]
  BY <1>1 DEF a, n
<1>3. \A i \in 1 .. n + 1 : i \in 1 .. n \/ i = n + 1
  BY <1>1 DEF n
<1>4. n + 1 \in 1 .. n + 1
  BY <1>1 DEF n
<1>5. \A m : Within(a, m) <=> Within(s, m) \/ m = e
  BY <1>1, <1>2, <1>3, <1>4, Zenon DEF Within, a, n
<1>6. \A j \in 1 .. n : \A i \in 1 .. j - 1 : i \in 1 .. n
  BY <1>1 DEF n
<1>7. \A m : \A j \in 1 .. n : Before(s, j, m) => Before(a, j, m)
  BY <1>2, <1>6, Zenon DEF Before
<1>8. 1 .. (n + 1) - 1 = 1 .. n
  BY <1>1 DEF n
<1>9. \A m : Within(s, m) => Before(a, n + 1, m)
  BY <1>2, <1>8, Zenon DEF Within, Before, n
<1> QED
  BY <1>1, <1>5, <1>7, <1>9, Zenon DEF a, n

(* Taking the first element leaves the others in their order.                *)
LEMMA TailWithin ==
  ASSUME NEW s \in Seq(Nat), s # <<>>
  PROVE  /\ Tail(s) \in Seq(Nat) /\ Head(s) = s[1] /\ Head(s) \in Nat
         /\ Len(s) \in Nat /\ Len(s) >= 1 /\ Len(Tail(s)) = Len(s) - 1
         /\ \A i \in 1 .. Len(Tail(s)) : i + 1 \in 1 .. Len(s) /\ Tail(s)[i] = s[i + 1]
         /\ \A m : Within(s, m) => m = Head(s) \/ Within(Tail(s), m)
         /\ \A m : \A j \in 1 .. Len(Tail(s)) :
              Before(s, j + 1, m) => m = Head(s) \/ Before(Tail(s), j, m)
<1>1. /\ Tail(s) \in Seq(Nat) /\ Head(s) = s[1] /\ Head(s) \in Nat
      /\ Len(s) \in Nat /\ Len(s) >= 1 /\ Len(Tail(s)) = Len(s) - 1
      /\ \A i \in 1 .. Len(Tail(s)) : i + 1 \in 1 .. Len(s) /\ Tail(s)[i] = s[i + 1]
  OBVIOUS
<1> DEFINE t == Tail(s)
<1> HIDE DEF t
<1>2. \A i \in 1 .. Len(s) : i = 1 \/ (i - 1 \in 1 .. Len(t) /\ t[i - 1] = s[i])
  BY <1>1 DEF t
<1>3. \A m : Within(s, m) => m = Head(s) \/ Within(t, m)
  BY <1>1, <1>2, Zenon DEF Within, t
<1>4. \A j \in 1 .. Len(t) : \A i \in 1 .. (j + 1) - 1 :
        i = 1 \/ (i - 1 \in 1 .. j - 1 /\ t[i - 1] = s[i])
  BY <1>1, <1>2 DEF t
<1>5. \A m : \A j \in 1 .. Len(t) : Before(s, j + 1, m) => m = Head(s) \/ Before(t, j, m)
  BY <1>1, <1>4, Zenon DEF Before, t
<1> QED
  BY <1>1, <1>3, <1>5, Zenon DEF t

(* An empty channel holds nothing.                                           *)
LEMMA EmptyWithin ==
  /\ <<>> \in Seq(Nat) /\ Len(<<>>) = 0 /\ 1 .. Len(<<>>) = {}
  /\ \A m : ~Within(<<>>, m)
<1>1. <<>> \in Seq(Nat) /\ Len(<<>>) = 0 /\ 1 .. Len(<<>>) = {}
  OBVIOUS
<1> QED
  BY <1>1, Zenon DEF Within

-----------------------------------------------------------------------------

(* The elements of a sequence are what is within it.                         *)
LEMMA ElementsWithin == \A s, m : m \in Elements(s) <=> Within(s, m)
BY Zenon DEF Elements, Within

(* Cutting a queue off leaves what was before the cut, in its order.         *)
LEMMA PrefixWithin ==
  ASSUME NEW s \in Seq(Nat), NEW n \in 0 .. Len(s) - 1
  PROVE  /\ SubSeq(s, 1, n) \in Seq(Nat) /\ Len(SubSeq(s, 1, n)) = n
         /\ \A i \in 1 .. n : i \in 1 .. Len(s) /\ SubSeq(s, 1, n)[i] = s[i]
         /\ \A m : Within(s, m) =>
              Within(SubSeq(s, 1, n), m) \/ m \in {s[i] : i \in n + 1 .. Len(s)}
         /\ \A m : \A j \in 1 .. n : Before(s, j, m) => Before(SubSeq(s, 1, n), j, m)
<1> DEFINE p == SubSeq(s, 1, n)
<1>1. /\ p \in Seq(Nat) /\ Len(p) = n /\ n \in Nat /\ Len(s) \in Nat
      /\ \A i \in 1 .. n : i \in 1 .. Len(s) /\ p[i] = s[i]
  OBVIOUS
<1>2. \A i \in 1 .. Len(s) : i \in 1 .. n \/ i \in n + 1 .. Len(s)
  BY <1>1
<1>3. \A j \in 1 .. n : \A i \in 1 .. j - 1 : i \in 1 .. n
  BY <1>1
<1> HIDE DEF p
<1>4. \A m : Within(s, m) => Within(p, m) \/ m \in {s[i] : i \in n + 1 .. Len(s)}
  BY <1>1, <1>2, Zenon DEF Within
<1>5. \A m : \A j \in 1 .. n : Before(s, j, m) => Before(p, j, m)
  BY <1>1, <1>3, Zenon DEF Before
<1> QED
  BY <1>1, <1>4, <1>5, Zenon DEF p

-----------------------------------------------------------------------------
(* Types. *)

(* Rows that are added leave the queues typed.                               *)
LEMMA SenderTypes ==
  ASSUME SharedTypes, UNCHANGED <<begun, top, pubsub, fan>>,
         rows \subseteq rows', rows' \subseteq rows \cup inserting,
         inserting' \subseteq inserting, sending' \subseteq rows',
         \A m \in inserting' : m \notin rows', top \notin sending'
  PROVE  SharedTypes'
BY Zenon DEF SharedTypes

(* What a step of Send, of the hub or of a stream leaves in the shared       *)
(* queues are rows, published at or below top.                               *)
LEMMA SharedNext ==
  ASSUME InboxInv, InboxNext
  PROVE  SharedTypes'
<1>0. SharedTypes
  BY Zenon DEF InboxInv
<1>n. /\ begun \in Nat /\ top \in Nat /\ \A m \in rows : m \in Nat
      /\ \A m \in inserting : m \in Nat /\ m # 0 /\ m # top /\ m \notin rows
  BY <1>0 DEF SharedTypes
<1> DEFINE Fans == [msg : Nat, left : SUBSET Clients]
<1>f. NoFan \in Fans
  BY Zenon DEF NoFan, NoMsg
<1>1. CASE SendInsert
  <2>1. /\ begun' = begun + 1 /\ inserting' = inserting \cup {begun + 1}
        /\ UNCHANGED <<rows, sending, pubsub, fan, top>>
    BY <1>1, Zenon DEF SendInsert
  <2>2. begun' \in Nat /\ inserting' \subseteq 1 .. begun' /\ rows' \subseteq 1 .. begun'
    BY <1>0, <2>1 DEF SharedTypes
  <2>3. begun + 1 \notin rows
    BY <1>0 DEF SharedTypes
  <2> QED
    BY <1>0, <2>1, <2>2, <2>3, Zenon DEF SharedTypes
<1>2. ASSUME NEW m \in inserting, SendCommit(m) PROVE SharedTypes'
  <2>1. /\ UNCHANGED <<begun, top, pubsub, fan>> /\ inserting' = inserting \ {m}
        /\ \/ rows' = rows \cup {m} /\ sending' = sending \cup {m}
           \/ rows' = rows \cup {m} /\ sending' = sending
           \/ rows' = rows /\ sending' = sending
    BY <1>2, Zenon DEF SendCommit, Commit
  <2> QED
    BY <1>0, <1>n, <2>1, SenderTypes, Zenon DEF SharedTypes
<1>3. ASSUME NEW m \in sending, SendPublish(m) PROVE SharedTypes'
  <2>0. /\ m \in Nat /\ m \in rows /\ m # top /\ m # 0
        /\ sending' = sending \ {m} /\ UNCHANGED <<begun, inserting, rows, fan>>
    BY <1>0, <1>3 DEF SendPublish, SharedTypes
  <2>1. CASE UNCHANGED <<pubsub, top>>
    BY <1>0, <2>0, <2>1, Zenon DEF SharedTypes
  <2>2. CASE pubsub' = Append(pubsub, m) /\ top' = IF top < m THEN m ELSE top
    <3>p. pubsub \in Seq(Nat)
      BY <1>0, Zenon DEF SharedTypes
    <3>1. /\ pubsub' \in Seq(Nat) /\ Len(pubsub') = Len(pubsub) + 1 /\ Len(pubsub) \in Nat
          /\ \A i \in 1 .. Len(pubsub) : pubsub'[i] = pubsub[i]
          /\ pubsub'[Len(pubsub) + 1] = m
      BY <3>p, <2>0, <2>2
    <3>2. top' \in Nat /\ top <= top' /\ m <= top'
      BY <1>n, <2>0, <2>2
    <3>3. top' \notin sending' /\ (top' # 0 => top' \in rows)
      BY <1>0, <2>0, <2>2, Zenon DEF SharedTypes
    <3>4. \A k \in Nat : k <= top => k <= top'
      BY <1>n, <3>2
    <3>5. ASSUME NEW i \in 1 .. Len(pubsub') PROVE pubsub'[i] \in rows /\ pubsub'[i] <= top'
      <4>1. i \in 1 .. Len(pubsub) \/ i = Len(pubsub) + 1
        BY <3>1
      <4> QED
        BY <1>0, <1>n, <2>0, <3>1, <3>2, <3>4, <4>1, Zenon DEF SharedTypes
    <3>6. fan = NoFan \/ (fan.msg \in rows /\ fan.msg <= top')
      BY <1>0, <1>n, <3>4, Zenon DEF SharedTypes
    <3> QED
      BY <1>0, <2>0, <3>1, <3>2, <3>3, <3>5, <3>6, Zenon DEF SharedTypes
  <2> QED
    BY <1>3, <2>1, <2>2, Zenon DEF SendPublish
<1>4. CASE HubReceive
  <2>0. /\ pubsub # <<>> /\ pubsub' = Tail(pubsub)
        /\ UNCHANGED <<begun, inserting, rows, sending, top>>
    BY <1>4, Zenon DEF HubReceive, sendVars
  <2>p. pubsub \in Seq(Nat)
    BY <1>0, Zenon DEF SharedTypes
  <2>1. /\ Tail(pubsub) \in Seq(Nat) /\ Head(pubsub) = pubsub[1] /\ 1 \in 1 .. Len(pubsub)
        /\ \A i \in 1 .. Len(Tail(pubsub)) :
             i + 1 \in 1 .. Len(pubsub) /\ Tail(pubsub)[i] = pubsub[i + 1]
    BY <2>0, <2>p, TailWithin
  <2>2. Head(pubsub) \in rows /\ Head(pubsub) <= top /\ Head(pubsub) \in Nat
    BY <1>0, <1>n, <2>1, Zenon DEF SharedTypes
  <2>3. \A i \in 1 .. Len(pubsub') : pubsub'[i] \in rows /\ pubsub'[i] <= top
    BY <1>0, <2>0, <2>1, Zenon DEF SharedTypes
  <2>4. fan' \in Fans /\ (fan' = NoFan \/ (fan'.msg \in rows /\ fan'.msg <= top))
    <3>1. CASE fan' = [msg |-> Head(pubsub), left |-> Subscribers]
      <4>1. Subscribers \in SUBSET Clients
        BY Zenon DEF Subscribers
      <4> QED
        BY <2>2, <3>1, <4>1, Zenon
    <3> QED
      BY <1>4, <1>f, <3>1, Zenon DEF HubReceive
  <2> QED
    BY <1>0, <2>0, <2>1, <2>3, <2>4, Zenon DEF SharedTypes
<1>5. ASSUME UNCHANGED sendVars, pubsub' = pubsub \/ pubsub' = <<>>,
             \/ fan' = fan \/ fan' = NoFan
             \/ fan # NoFan /\ \E l \in SUBSET Clients : fan' = [fan EXCEPT !.left = l]
      PROVE  SharedTypes'
  <2>1. fan' \in Fans /\ (fan' = NoFan \/ (fan'.msg \in rows /\ fan'.msg <= top))
    <3>2. ASSUME NEW l \in SUBSET Clients, fan # NoFan, fan' = [fan EXCEPT !.left = l]
          PROVE  fan' \in Fans /\ fan'.msg \in rows /\ fan'.msg <= top
      <4>1. fan' \in Fans /\ fan'.msg = fan.msg
        BY <1>0, <3>2, Zenon DEF SharedTypes
      <4> QED
        BY <1>0, <3>2, <4>1, Zenon DEF SharedTypes
    <3> QED
      BY <1>0, <1>5, <1>f, <3>2, Zenon DEF SharedTypes
  <2>2. pubsub' \in Seq(Nat) /\ \A i \in 1 .. Len(pubsub') : pubsub'[i] \in rows /\ pubsub'[i] <= top
    BY <1>0, <1>5, EmptyWithin, Zenon DEF SharedTypes
  <2> QED
    BY <1>0, <1>5, <2>1, <2>2, Zenon DEF SharedTypes, sendVars
<1>6. ASSUME NEW d \in Clients, FanNext(fan.left \ {d})
      PROVE  \/ fan' = NoFan
             \/ fan # NoFan /\ \E l \in SUBSET Clients : fan' = [fan EXCEPT !.left = l]
  <2>1. fan.left \subseteq Clients
    BY <1>0, Zenon DEF SharedTypes
  <2>2. fan = NoFan => fan.left = {}
    BY DEF NoFan
  <2> QED
    BY <1>6, <2>1, <2>2, Zenon DEF FanNext
<1>7. ASSUME NEW d \in Clients, HubSend(d) PROVE SharedTypes'
  BY <1>5, <1>6, <1>7, Zenon DEF HubSend
<1>8. ASSUME NEW d \in Clients, StreamSubscribe(d) PROVE SharedTypes'
  <2>1. fan.left \cup {d} \in SUBSET Clients
    BY <1>0, Zenon DEF SharedTypes
  <2>2. \/ fan' = fan
        \/ fan # NoFan /\ \E l \in SUBSET Clients : fan' = [fan EXCEPT !.left = l]
    BY <1>8, <2>1, Zenon DEF StreamSubscribe
  <2> QED
    BY <1>5, <1>8, <2>2, Zenon DEF StreamSubscribe
<1>9. ASSUME NEW d \in Clients, StreamStep(d) PROVE SharedTypes'
  <2>1. UNCHANGED sendVars /\ UNCHANGED <<pubsub, fan>>
    BY <1>9, Zenon DEF StreamStep, StreamHistory, StreamReplay, StreamLive
  <2> QED
    BY <1>5, <2>1, Zenon
<1>10. ASSUME NEW d \in Clients, StreamClose(d) PROVE SharedTypes'
  BY <1>5, <1>6, <1>10, Zenon DEF StreamClose
<1>11. CASE HubPanic
  BY <1>5, <1>11, Zenon DEF HubPanic
<1>12. CASE SubscriptionLost
  <2>p. pubsub \in Seq(Nat)
    BY <1>0, Zenon DEF SharedTypes
  <2>1. UNCHANGED sendVars /\ fan' = fan
    BY <1>12, Zenon DEF SubscriptionLost
  <2>2. PICK n \in 0 .. Len(pubsub) - 1 : pubsub' = SubSeq(pubsub, 1, n)
    BY <1>12, Zenon DEF SubscriptionLost
  <2>3. /\ pubsub' \in Seq(Nat)
        /\ \A i \in 1 .. Len(pubsub') : i \in 1 .. Len(pubsub) /\ pubsub'[i] = pubsub[i]
    <3>1. /\ SubSeq(pubsub, 1, n) \in Seq(Nat) /\ Len(SubSeq(pubsub, 1, n)) = n
          /\ \A i \in 1 .. n : i \in 1 .. Len(pubsub) /\ SubSeq(pubsub, 1, n)[i] = pubsub[i]
      BY <2>p, PrefixWithin, Zenon
    <3> QED
      BY <2>2, <3>1, Zenon
  <2> QED
    BY <1>0, <2>1, <2>3, Zenon DEF SharedTypes, sendVars
<1>13. CASE SenderCrash
  <2>1. PICK ms \in SUBSET inserting : rows' = rows \cup ms
    BY <1>13, Zenon DEF SenderCrash, Commit
  <2>2. UNCHANGED <<begun, top, pubsub, fan>> /\ inserting' = {} /\ sending' = {}
    BY <1>13, Zenon DEF SenderCrash
  <2> QED
    BY <1>0, <2>1, <2>2, SenderTypes, Zenon
<1> QED
  BY <1>1, <1>2, <1>3, <1>4, <1>7, <1>8, <1>9, <1>10, <1>11, <1>12, <1>13, Zenon
  DEF InboxNext, HubStep

(* The history query returns rows after the cursor, in order; a row that it  *)
(* leaves out is above all of them.                                          *)
LEMMA ListSinceRows ==
  ASSUME SharedTypes, NEW m \in Nat, NEW s \in ListSince(m)
  PROVE  /\ s \in Seq(Nat) /\ Len(s) \in Nat
         /\ \A i \in 1 .. Len(s) : s[i] \in rows /\ m < s[i]
         /\ \A i, j \in 1 .. Len(s) : i < j => s[i] < s[j]
         /\ \A r \in LaterRows(m) : Within(s, r) \/ \A i \in 1 .. Len(s) : s[i] < r
<1>1. /\ s \in UNION {[1 .. n -> LaterRows(m)] : n \in 0 .. HistoryLimit}
      /\ \A i, j \in 1 .. Len(s) : i < j => s[i] < s[j]
      /\ \A r \in LaterRows(m) \ Elements(s) : \A i \in 1 .. Len(s) : s[i] < r
  BY Zenon DEF ListSince
<1>2. PICK n \in 0 .. HistoryLimit : s \in [1 .. n -> LaterRows(m)]
  BY <1>1, Zenon
<1>3. \A r \in LaterRows(m) : r \in rows /\ m < r /\ r \in Nat
  BY DEF LaterRows, SharedTypes
<1>4. n \in Nat
  BY InboxAssumption
<1>5. s \in Seq(Nat) /\ Len(s) = n
  BY <1>2, <1>3, <1>4
<1>6. \A i \in 1 .. Len(s) : s[i] \in LaterRows(m)
  BY <1>2, <1>5, Zenon
<1>7. \A r \in LaterRows(m) : Within(s, r) \/ \A i \in 1 .. Len(s) : s[i] < r
  BY <1>1, ElementsWithin, Zenon
<1> QED
  BY <1>1, <1>3, <1>4, <1>5, <1>6, <1>7, Zenon

(* Each stream keeps a cursor, a history and a channel of messages.          *)
LEMMA ClientNext ==
  ASSUME InboxInv, InboxNext
  PROVE  ClientTypes'
<1> USE DEF ClientTypes
<1>0. SharedTypes /\ ClientTypes
  BY Zenon DEF InboxInv
<1>i. /\ \A m \in rows : m \in Nat
      /\ \A m \in inserting : m \in Nat
      /\ \A m \in sending : m \in Nat
  BY <1>0 DEF SharedTypes
<1>e. ASSUME NEW ms \in SUBSET Nat, Lose(ms) PROVE settled' \in [Clients -> SUBSET Nat]
  BY <1>0, <1>e, Zenon DEF Lose
<1>s. ASSUME NEW c \in Clients, NEW ms \in SUBSET Nat, settled' = [settled EXCEPT ![c] = @ \cup ms]
      PROVE  settled' \in [Clients -> SUBSET Nat]
  BY <1>0, <1>s, Zenon
<1>p. pubsub \in Seq(Nat) /\ \A i \in 1 .. Len(pubsub) : pubsub[i] \in Nat
  BY <1>0, <1>i, Zenon DEF SharedTypes
<1>1. CASE SendInsert
  BY <1>0, <1>1, Zenon DEF SendInsert, clientVars
<1>2. ASSUME NEW m \in inserting, SendCommit(m) PROVE ClientTypes'
  <2>1. UNCHANGED clientVars /\ (Lose({m}) \/ UNCHANGED settled) /\ {m} \in SUBSET Nat
    BY <1>i, <1>2, Zenon DEF SendCommit
  <2> QED
    BY <1>0, <1>e, <2>1, Zenon DEF clientVars
<1>3. ASSUME NEW m \in sending, SendPublish(m) PROVE ClientTypes'
  <2>1. UNCHANGED clientVars /\ (Lose({m}) \/ UNCHANGED settled) /\ {m} \in SUBSET Nat
    BY <1>i, <1>3, Zenon DEF SendPublish
  <2> QED
    BY <1>0, <1>e, <2>1, Zenon DEF clientVars
<1>4. CASE HubReceive
  <2>1. Head(pubsub) \in Nat
    BY <1>4, <1>p, TailWithin, Zenon DEF HubReceive
  <2>2. settled' \in [Clients -> SUBSET Nat]
    BY <1>0, <1>4, <2>1, Zenon DEF HubReceive
  <2> QED
    BY <1>0, <1>4, <2>2, Zenon DEF HubReceive, clientVars
<1>5. ASSUME NEW c \in Clients, HubSend(c) PROVE ClientTypes'
  <2>1. /\ UNCHANGED <<stream, history, cursor>>
        /\ \/ buffer' = [buffer EXCEPT ![c] = Append(@, fan.msg)] /\ UNCHANGED settled
           \/ settled' = [settled EXCEPT ![c] = @ \cup {fan.msg}] /\ UNCHANGED buffer
    BY <1>5, Zenon DEF HubSend
  <2>2. fan.msg \in Nat /\ {fan.msg} \in SUBSET Nat
    BY <1>0, Zenon DEF SharedTypes
  <2>3. Append(buffer[c], fan.msg) \in Seq(Nat)
    BY <1>0, <2>2, AppendWithin, Zenon
  <2> QED
    BY <1>0, <1>s, <2>1, <2>2, <2>3, Zenon
<1>6. ASSUME NEW c \in Clients, StreamSubscribe(c) PROVE ClientTypes'
  <2>1. /\ UNCHANGED <<history, buffer, cursor>>
        /\ stream' = [stream EXCEPT ![c] = IF cursor[c] = NoMsg THEN "live" ELSE "subscribed"]
        /\ settled' = [settled EXCEPT ![c] =
                         @ \cup IF cursor[c] = NoMsg THEN rows \ sending ELSE {}]
    BY <1>6, Zenon DEF StreamSubscribe
  <2>2. (IF cursor[c] = NoMsg THEN rows \ sending ELSE {}) \in SUBSET Nat
    BY <1>i, Zenon
  <2>3. settled' \in [Clients -> SUBSET Nat]
    BY <1>s, <2>1, <2>2, Zenon
  <2> QED
    BY <1>0, <2>1, <2>3, Zenon
<1>7. ASSUME NEW c \in Clients, StreamHistory(c) PROVE ClientTypes'
  <2>0. UNCHANGED <<buffer, cursor>> /\ LaterRows(cursor[c]) \subseteq Nat
    BY <1>i, <1>7, Zenon DEF StreamHistory, LaterRows
  <2>1. ASSUME NEW l \in ListSince(cursor[c]),
               history' = [history EXCEPT ![c] = l],
               stream' = [stream EXCEPT ![c] = "replay"],
               settled' = [settled EXCEPT ![c] =
                             @ \cup ((LaterRows(cursor[c]) \ Elements(l)) \ sending)]
        PROVE  ClientTypes'
    <3>1. l \in Seq(Nat)
      BY <1>0, ListSinceRows, Zenon
    <3>2. (LaterRows(cursor[c]) \ Elements(l)) \ sending \in SUBSET Nat
      BY <2>0, Zenon
    <3>3. settled' \in [Clients -> SUBSET Nat]
      BY <1>s, <2>1, <3>2, Zenon
    <3> QED
      BY <1>0, <2>0, <2>1, <3>1, <3>3, Zenon
  <2>2. CASE /\ UNCHANGED history /\ stream' = [stream EXCEPT ![c] = "live"]
             /\ settled' = [settled EXCEPT ![c] = @ \cup (LaterRows(cursor[c]) \ sending)]
    <3>2. LaterRows(cursor[c]) \ sending \in SUBSET Nat
      BY <2>0, Zenon
    <3>3. settled' \in [Clients -> SUBSET Nat]
      BY <1>s, <2>2, <3>2, Zenon
    <3> QED
      BY <1>0, <2>0, <2>2, <3>3, Zenon
  <2> QED
    BY <1>7, <2>1, <2>2, Zenon DEF StreamHistory
<1>8. ASSUME NEW c \in Clients, NEW m \in Nat, Receive(c, m)
      PROVE  cursor' \in [Clients -> Nat] /\ settled' \in [Clients -> SUBSET Nat]
  <2>1. {m} \in SUBSET Nat
    BY Zenon
  <2> QED
    BY <1>0, <1>8, <1>s, <2>1, Zenon DEF Receive
<1>9. ASSUME NEW c \in Clients, StreamReplay(c) PROVE ClientTypes'
  <2>1. CASE /\ history[c] # <<>> /\ Receive(c, Head(history[c]))
             /\ history' = [history EXCEPT ![c] = Tail(@)] /\ UNCHANGED stream
    <3>1. Head(history[c]) \in Nat /\ Tail(history[c]) \in Seq(Nat)
      BY <1>0, <2>1, TailWithin, Zenon
    <3> QED
      BY <1>0, <1>8, <1>9, <2>1, <3>1, Zenon DEF StreamReplay
  <2>2. CASE stream' = [stream EXCEPT ![c] = "live"] /\ UNCHANGED <<cursor, settled, history>>
    BY <1>0, <1>9, <2>2, Zenon DEF StreamReplay
  <2> QED
    BY <1>9, <2>1, <2>2, Zenon DEF StreamReplay
<1>10. ASSUME NEW c \in Clients, StreamLive(c) PROVE ClientTypes'
  <2>1. Head(buffer[c]) \in Nat /\ Tail(buffer[c]) \in Seq(Nat)
    BY <1>0, <1>10, TailWithin, Zenon DEF StreamLive
  <2> QED
    BY <1>0, <1>8, <1>10, <2>1, Zenon DEF StreamLive
<1>11. ASSUME NEW cs, NEW ms \in SUBSET Nat, HangUp(cs, ms) PROVE ClientTypes'
  <2>1. \A c \in Clients : Coming(c) \subseteq Nat
    <3>1. \A c \in Clients : \A i \in 1 .. Len(buffer[c]) : buffer[c][i] \in Nat
      BY <1>0
    <3>2. fan.msg \in Nat
      BY <1>0, Zenon DEF SharedTypes
    <3> QED
      BY <3>1, <3>2, Zenon DEF Coming, Elements
  <2>2. settled' \in [Clients -> SUBSET Nat]
    BY <1>0, <1>11, <2>1, Zenon DEF HangUp
  <2> QED
    BY <1>0, <1>11, <2>2, EmptyWithin, Zenon DEF HangUp
<1>12. ASSUME NEW c \in Clients, StreamClose(c) PROVE ClientTypes'
  BY <1>11, <1>12, Zenon DEF StreamClose
<1>13. CASE HubPanic
  <2>1. Elements(pubsub) \in SUBSET Nat
    BY <1>p, Zenon DEF Elements
  <2> QED
    BY <1>11, <1>13, <2>1, Zenon DEF HubPanic
<1>14. CASE SubscriptionLost
  <2>1. PICK n \in 0 .. Len(pubsub) - 1 : Lose({pubsub[i] : i \in n + 1 .. Len(pubsub)})
    BY <1>14, Zenon DEF SubscriptionLost
  <2>2. n + 1 .. Len(pubsub) \subseteq 1 .. Len(pubsub)
    BY <1>p
  <2>3. {pubsub[i] : i \in n + 1 .. Len(pubsub)} \in SUBSET Nat
    BY <1>p, <2>2, Zenon
  <2> QED
    BY <1>0, <1>14, <1>e, <2>1, <2>3, Zenon DEF SubscriptionLost, clientVars
<1>15. CASE SenderCrash
  <2>1. PICK ms \in SUBSET inserting : Lose(ms \cup sending)
    BY <1>15, Zenon DEF SenderCrash
  <2>2. ms \cup sending \in SUBSET Nat
    BY <1>i, Zenon
  <2> QED
    BY <1>0, <1>15, <1>e, <2>1, <2>2, Zenon DEF SenderCrash, clientVars
<1> QED
  BY <1>1, <1>2, <1>3, <1>4, <1>5, <1>6, <1>7, <1>9, <1>10, <1>12, <1>13, <1>14, <1>15, Zenon
  DEF InboxNext, HubStep, StreamStep

-----------------------------------------------------------------------------
(* What each kind of step does to a stream. *)

ClientInv(c) == Progress(c) /\ Behind(c) /\ Followed(c)

(* Messages are numbers, and so is whatever the queues hold.                 *)
LEMMA QueueNumbers ==
  ASSUME SharedTypes, ClientTypes, NEW c \in Clients, Progress(c)
  PROVE  /\ \A m \in rows : m \in Nat /\ m # 0
         /\ cursor[c] \in Nat /\ fan.msg \in Nat
         /\ (c \in fan.left => fan.msg \in rows /\ fan.msg <= top)
         /\ \A i \in 1 .. Len(pubsub) : pubsub[i] \in Nat
         /\ \A i \in 1 .. Len(buffer[c]) : buffer[c][i] \in Nat
         /\ \A m \in rows : m < cursor[c] => cursor[c] \in rows
<1>1. \A m \in rows : m \in Nat /\ m # 0
  BY DEF SharedTypes
<1>2. cursor[c] \in Nat /\ fan.msg \in Nat
  BY Zenon DEF SharedTypes, ClientTypes
<1>3. c \in fan.left => fan # NoFan
  BY DEF NoFan
<1>4. \A m \in rows : m < cursor[c] => cursor[c] # NoMsg
  BY <1>1, <1>2 DEF NoMsg
<1> QED
  BY <1>1, <1>2, <1>3, <1>4, Zenon DEF SharedTypes, Progress

(* A step that leaves a stream and the way to it as they are, that takes a   *)
(* message from the senders only to settle it, and that adds a row below     *)
(* another only as an overtaken one, keeps what holds of the stream.         *)
LEMMA Apart ==
  ASSUME SharedTypes, ClientTypes, SharedTypes', ClientTypes',
         NEW c \in Clients, ClientInv(c),
         stream'[c] = stream[c], cursor'[c] = cursor[c],
         history'[c] = history[c], buffer'[c] = buffer[c],
         settled[c] \subseteq settled'[c],
         rows \subseteq rows', overtaken \subseteq overtaken', top' = top, pubsub' = pubsub,
         \A m \in rows' : \/ m \in rows \/ m \in sending' \/ m \in settled'[c]
                          \/ stream[c] = "off" /\ ~(m < cursor[c]),
         \A m \in rows' : m \in rows \/ m \in overtaken' \/ \A r \in rows : r < m,
         \A m \in sending : \/ m \in sending' \/ m \in settled'[c]
                            \/ stream[c] = "off" /\ ~(m < cursor[c]),
         c \in fan'.left <=> c \in fan.left,
         c \in fan.left => fan'.msg = fan.msg
  PROVE  ClientInv(c)'
<1>0. Progress(c) /\ Behind(c) /\ Followed(c)
  BY Zenon DEF ClientInv
<1>n. /\ cursor[c] \in Nat
      /\ (c \in fan.left => fan.msg \in rows)
      /\ \A m \in rows : m < cursor[c] => cursor[c] \in rows
  BY <1>0, QueueNumbers, Zenon
<1>m. \A m \in rows' : m \in Nat /\ m # 0
  BY DEF SharedTypes
<1>a. \A x, y \in Nat : x < y => ~(y < x)
  OBVIOUS
<1>o. \A m \in InOrder' : \A x \in rows : m < x => m \in InOrder
  <2> SUFFICES ASSUME NEW m \in InOrder', NEW x \in rows, m < x PROVE m \in InOrder
    OBVIOUS
  <2>1. m \in rows' /\ m \notin overtaken' /\ m \in Nat /\ x \in Nat
    BY <1>m, Zenon DEF InOrder
  <2>2. ~(x < m)
    BY <1>a, <2>1, Zenon
  <2> QED
    BY <2>1, <2>2, Zenon DEF InOrder
<1>1. Progress(c)'
  <2>1. stream[c] = "replay" => Replayed(c)'
    BY <1>0, <1>o, Zenon DEF Progress, Replayed
  <2> QED
    BY <1>0, <2>1, Zenon DEF Progress
<1>2. Behind(c)'
  <2> SUFFICES ASSUME NEW m \in rows', m < cursor[c]
      PROVE  \/ m \in settled'[c]
             \/ m \in sending' /\ (m < top \/ m \in overtaken')
             \/ m \in overtaken' /\ Underway(c, m)'
    BY Zenon DEF Behind
  <2>1. Underway(c, m) => Underway(c, m)'
    BY Zenon DEF Underway
  <2>2. CASE m \in rows
    BY <1>0, <2>1, <2>2, Zenon DEF Behind
  <2>3. CASE m \notin rows
    <3>1. cursor[c] # NoMsg /\ m \in Nat
      BY <1>m, <1>n DEF NoMsg
    <3>2. cursor[c] \in rows
      BY <1>0, <3>1, Zenon DEF Progress
    <3>3. ~(cursor[c] < m)
      BY <1>a, <1>n, <3>1, Zenon
    <3> QED
      BY <2>3, <3>2, <3>3, Zenon
  <2> QED
    BY <2>2, <2>3, Zenon
<1>3. ASSUME stream[c] # "off", NEW m PROVE Known(c, m) => Known(c, m)'
  BY <1>3, Zenon DEF Known, Pending
<1>4. ASSUME stream[c] # "off", NEW m
      PROVE  (Held(c, m) => Held(c, m)') /\ (OnItsWay(c, m) => OnItsWay(c, m)')
  BY <1>3, <1>4, Zenon DEF Held, OnItsWay
<1>5. ASSUME stream[c] # "off" PROVE BufferOrder(c)'
  <2>1. BufferOrder(c) /\ \A j \in 1 .. Len(buffer[c]) : buffer[c][j] \in rows
    BY <1>0, <1>5, Zenon DEF Followed, Progress
  <2> QED
    BY <1>3, <1>5, <1>o, <2>1, Zenon DEF BufferOrder
<1>6. ASSUME stream[c] # "off" PROVE FanOrder(c)'
  <2>1. FanOrder(c)
    BY <1>0, <1>6, Zenon DEF Followed
  <2> QED
    BY <1>4, <1>6, <1>n, <1>o, <2>1, Zenon DEF FanOrder
<1>7. ASSUME stream[c] # "off" PROVE PubsubOrder(c)'
  <2>1. PubsubOrder(c) /\ \A j \in 1 .. Len(pubsub) : pubsub[j] \in rows
    BY <1>0, <1>7, Zenon DEF Followed, SharedTypes
  <2> QED
    BY <1>4, <1>7, <1>o, <2>1, Zenon DEF PubsubOrder
<1>8. ASSUME stream[c] # "off" PROVE NoneLost(c)'
  <2>1. \A m : m \in sending' \/ m \in settled'[c] => OnItsWay(c, m)'
    BY Zenon DEF OnItsWay, Held, Known
  <2> QED
    BY <1>0, <1>4, <1>8, <2>1, Zenon DEF Followed, NoneLost
<1> QED
  BY <1>1, <1>2, <1>5, <1>6, <1>7, <1>8, Zenon DEF ClientInv, Followed

(* A stream that is gone: what was overtaken and on its way is lost, and     *)
(* settled; the cursor stays.                                                *)
LEMMA Gone ==
  ASSUME SharedTypes, ClientTypes, SharedTypes', ClientTypes',
         NEW c \in Clients, ClientInv(c), NEW ms,
         stream'[c] = "off", cursor'[c] = cursor[c], buffer'[c] = <<>>,
         settled'[c] = settled[c] \cup ((Coming(c) \cup ms) \cap overtaken),
         \/ pubsub' = pubsub
         \/ pubsub' = <<>> /\ ms = Elements(pubsub),
         UNCHANGED sendVars
  PROVE  ClientInv(c)'
<1>0. Progress(c) /\ Behind(c)
  BY Zenon DEF ClientInv
<1>1. Progress(c)'
  BY <1>0, EmptyWithin, Zenon DEF Progress, sendVars
<1>2. Behind(c)'
  <2>1. \A m : Underway(c, m) => m \in Coming(c) \/ Within(pubsub, m)
    BY ElementsWithin, Zenon DEF Underway, Coming
  <2>2. \A m : Within(pubsub, m) => Within(pubsub', m) \/ m \in ms
    BY ElementsWithin, Zenon
  <2>3. \A m : m \in overtaken /\ Underway(c, m) => m \in settled'[c] \/ Underway(c, m)'
    BY <2>1, <2>2, Zenon DEF Underway
  <2> QED
    BY <1>0, <2>3, Zenon DEF Behind, sendVars
<1> QED
  BY <1>1, <1>2, Zenon DEF ClientInv, Followed

(* Publish in Send: the message goes to the end of the way to every stream.  *)
(* Unless it was overtaken it is above every message on the way, so that     *)
(* none of them waits for it.                                                *)
LEMMA PublishedNext ==
  ASSUME SharedTypes, ClientTypes, SharedTypes', ClientTypes',
         NEW c \in Clients, ClientInv(c), NEW m \in sending,
         sending' = sending \ {m}, pubsub' = Append(pubsub, m),
         top' = IF top < m THEN m ELSE top,
         overtaken' = overtaken \cup (IF m < top THEN {m} ELSE {}),
         UNCHANGED <<rows, fan, clientVars, settled>>
  PROVE  ClientInv(c)'
<1>0. Progress(c) /\ Behind(c) /\ Followed(c)
  BY Zenon DEF ClientInv
<1>n. /\ \A k \in rows : k \in Nat
      /\ (c \in fan.left => fan.msg \in rows /\ fan.msg <= top)
  BY <1>0, QueueNumbers, Zenon
<1>t. /\ top \in Nat /\ m \in Nat /\ m \in rows /\ m # top
      /\ pubsub \in Seq(Nat) /\ Len(pubsub) \in Nat
  BY <1>n DEF SharedTypes
<1>T. top' \in Nat /\ top <= top'
  BY <1>t
<1>u. UNCHANGED <<stream, history, buffer, cursor>>
  BY Zenon DEF clientVars
<1>a. \A x \in Nat : (x <= top => x <= top') /\ (x < top => x < top')
  BY <1>t, <1>T
<1>b. \A k \in InOrder' : k \in InOrder /\ \A x \in Nat : x <= top /\ k < x => k # m
  <2> SUFFICES ASSUME NEW k \in InOrder'
      PROVE  k \in InOrder /\ \A x \in Nat : x <= top /\ k < x => k # m
    OBVIOUS
  <2>1. k \in rows /\ k \notin overtaken /\ (k = m => ~(m < top))
    BY Zenon DEF InOrder
  <2>2. \A x \in Nat : x <= top /\ m < x => m < top
    BY <1>t
  <2> QED
    BY <2>1, <2>2, Zenon DEF InOrder
<1>w. /\ \A k : Within(pubsub, k) => Within(pubsub', k)
      /\ Within(pubsub', m)
      /\ \A k : Within(pubsub', k) => Within(pubsub, k) \/ k = m
      /\ \A k : \A j \in 1 .. Len(pubsub) : Before(pubsub, j, k) => Before(pubsub', j, k)
      /\ \A k : Within(pubsub, k) => Before(pubsub', Len(pubsub) + 1, k)
      /\ \A j \in 1 .. Len(pubsub') :
           (j \in 1 .. Len(pubsub) /\ pubsub'[j] = pubsub[j])
             \/ (j = Len(pubsub) + 1 /\ pubsub'[j] = m)
  BY <1>t, AppendWithin
<1>1. Progress(c)'
  <2>1. stream[c] = "replay" => Replayed(c)'
    BY <1>0, <1>b, <1>u, Zenon DEF Progress, Replayed
  <2> QED
    BY <1>0, <1>a, <1>n, <1>u, <2>1, Zenon DEF Progress
<1>2. Behind(c)'
  <2>1. \A k : Underway(c, k) => Underway(c, k)'
    BY <1>u, <1>w, Zenon DEF Underway
  <2>2. Underway(c, m)'
    BY <1>w, Zenon DEF Underway
  <2> QED
    BY <1>0, <1>a, <1>n, <1>u, <2>1, <2>2, Zenon DEF Behind
<1>3. \A k : k # m /\ Known(c, k) => Known(c, k)'
  BY <1>u, Zenon DEF Known, Pending
<1>4. \A k : k # m => (Held(c, k) => Held(c, k)') /\ (OnItsWay(c, k) => OnItsWay(c, k)')
  BY <1>3, <1>u, Zenon DEF Held, OnItsWay
<1>5. ASSUME stream[c] # "off" PROVE BufferOrder(c)'
  <2>1. BufferOrder(c) /\ \A j \in 1 .. Len(buffer[c]) : buffer[c][j] \in rows /\ buffer[c][j] <= top
    BY <1>0, <1>5, Zenon DEF Followed, Progress
  <2> QED
    BY <1>3, <1>b, <1>n, <1>u, <2>1, Zenon DEF BufferOrder
<1>6. ASSUME stream[c] # "off" PROVE FanOrder(c)'
  <2>1. FanOrder(c)
    BY <1>0, <1>6, Zenon DEF Followed
  <2> QED
    BY <1>4, <1>b, <1>n, <2>1, Zenon DEF FanOrder
<1>7. ASSUME stream[c] # "off" PROVE NoneLost(c)'
  <2>1. NoneLost(c)
    BY <1>0, <1>7, Zenon DEF Followed
  <2> QED
    BY <1>4, <1>w, <2>1, Zenon DEF NoneLost
<1>8. ASSUME stream[c] # "off" PROVE PubsubOrder(c)'
  <2>1. PubsubOrder(c) /\ \A j \in 1 .. Len(pubsub) : pubsub[j] \in rows /\ pubsub[j] <= top
    BY <1>0, <1>8, Zenon DEF Followed, SharedTypes
  <2> SUFFICES ASSUME NEW j \in 1 .. Len(pubsub'), NEW k \in InOrder', k < pubsub'[j]
      PROVE  OnItsWay(c, k)' \/ Before(pubsub', j, k)
    BY Zenon DEF PubsubOrder
  <2>2. CASE j \in 1 .. Len(pubsub) /\ pubsub'[j] = pubsub[j]
    BY <1>4, <1>b, <1>n, <1>w, <2>1, <2>2, Zenon DEF PubsubOrder
  <2>3. CASE j = Len(pubsub) + 1 /\ pubsub'[j] = m
    <3>1. k \in rows /\ k \in Nat
      BY <1>n, Zenon DEF InOrder
    <3>2. k # m
      BY <1>t, <2>3, <3>1
    <3>3. NoneLost(c)'
      BY <1>7, <1>8, Zenon
    <3> QED
      BY <1>w, <2>3, <3>1, <3>2, <3>3, Zenon DEF NoneLost
  <2> QED
    BY <1>w, <2>2, <2>3, Zenon
<1> QED
  BY <1>1, <1>2, <1>5, <1>6, <1>7, <1>8, <1>u, Zenon DEF ClientInv, Followed

(* Hub.Run takes the first message: it comes before everything else on the   *)
(* way to a stream, and Publish visits every stream.  A client that is away  *)
(* loses the message if it was overtaken.                                    *)
LEMMA ReceivedNext ==
  ASSUME SharedTypes, ClientTypes, SharedTypes', ClientTypes',
         NEW c \in Clients, ClientInv(c), HubReceive
  PROVE  ClientInv(c)'
<1>0. /\ Progress(c) /\ Behind(c) /\ Followed(c) /\ fan = NoFan /\ pubsub # <<>>
      /\ UNCHANGED <<stream, history, buffer, cursor, rows, sending, top, overtaken>>
      /\ pubsub' = Tail(pubsub)
  BY Zenon DEF ClientInv, clientVars, sendVars, HubReceive
<1>s. settled'[c] = settled[c] \cup IF stream[c] = "off" THEN {Head(pubsub)} \cap overtaken ELSE {}
  BY Zenon DEF HubReceive
<1>p. pubsub \in Seq(Nat)
  BY Zenon DEF SharedTypes
<1>3. c \notin fan.left
  BY <1>0 DEF NoFan
<1>1. Progress(c)'
  BY <1>0, <1>s, Zenon DEF Progress, Replayed, InOrder
<1>f. ASSUME stream[c] # "off" PROVE fan'.msg = Head(pubsub) /\ c \in fan'.left
  <2>1. fan' = [msg |-> Head(pubsub), left |-> Subscribers] /\ c \in Subscribers
    BY <1>f, Zenon DEF HubReceive, Subscribers
  <2> QED
    BY <2>1, Zenon
<1>b. Behind(c)'
  <2>1. \A k : k \in overtaken /\ Underway(c, k) => k \in settled'[c] \/ Underway(c, k)'
    <3>1. \A k : Within(pubsub, k) => k = Head(pubsub) \/ Within(pubsub', k)
      BY <1>0, <1>p, TailWithin, Zenon
    <3> QED
      BY <1>0, <1>3, <1>f, <1>s, <3>1, Zenon DEF Underway
  <2> QED
    BY <1>0, <1>s, <2>1, Zenon DEF Behind
<1>2. ASSUME stream[c] # "off" PROVE BufferOrder(c)' /\ FanOrder(c)' /\ PubsubOrder(c)' /\ NoneLost(c)'
  <2>0. BufferOrder(c) /\ FanOrder(c) /\ PubsubOrder(c) /\ NoneLost(c)
    BY <1>0, <1>2, Zenon DEF Followed
  <2>2. fan'.msg = Head(pubsub) /\ c \in fan'.left
    BY <1>2, <1>f, Zenon
  <2>4. \A k : Known(c, k) <=> Known(c, k)'
    BY <1>0, <1>2, <1>s, Zenon DEF Known, Pending
  <2>5. \A k : Held(c, k) <=> Held(c, k)'
    BY <1>0, <2>4, Zenon DEF Held
  <2>6. \A k : OnItsWay(c, k) \/ k = Head(pubsub) => OnItsWay(c, k)'
    BY <1>3, <2>2, <2>5, Zenon DEF OnItsWay
  <2>7. BufferOrder(c)'
    BY <1>0, <2>0, <2>4, Zenon DEF BufferOrder, InOrder
  <2>8. FanOrder(c)'
    <3>1. 1 \in 1 .. Len(pubsub) /\ pubsub[1] = Head(pubsub) /\ 1 .. 1 - 1 = {}
      BY <1>0, <1>p, TailWithin
    <3>2. \A k : ~Before(pubsub, 1, k)
      BY <3>1, Zenon DEF Before
    <3>3. \A k \in InOrder : k < pubsub[1] => OnItsWay(c, k)
      BY <2>0, <3>1, <3>2, Zenon DEF PubsubOrder
    <3>4. \A k \in InOrder : k < Head(pubsub) => Held(c, k)
      BY <1>3, <3>1, <3>3, Zenon DEF OnItsWay
    <3> QED
      BY <1>0, <2>2, <2>5, <3>4, Zenon DEF FanOrder, InOrder
  <2>9. PubsubOrder(c)'
    <3>1. ASSUME NEW j \in 1 .. Len(pubsub'), NEW k \in InOrder, k < pubsub'[j]
          PROVE  OnItsWay(c, k)' \/ Before(pubsub', j, k)
      <4>1. j + 1 \in 1 .. Len(pubsub) /\ pubsub'[j] = pubsub[j + 1]
        BY <1>0, <1>p, <3>1, TailWithin, Zenon
      <4>2. OnItsWay(c, k) \/ Before(pubsub, j + 1, k)
        BY <2>0, <3>1, <4>1, Zenon DEF PubsubOrder
      <4>3. Before(pubsub, j + 1, k) => k = Head(pubsub) \/ Before(pubsub', j, k)
        BY <1>0, <1>p, <3>1, TailWithin, Zenon
      <4> QED
        BY <2>6, <4>2, <4>3, Zenon
    <3> QED
      BY <1>0, <3>1, Zenon DEF PubsubOrder, InOrder
  <2>10. NoneLost(c)'
    BY <1>0, <1>p, <2>0, <2>6, TailWithin, Zenon DEF NoneLost
  <2> QED
    BY <2>7, <2>8, <2>9, <2>10, Zenon
<1> QED
  BY <1>0, <1>1, <1>2, <1>b, Zenon DEF ClientInv, Followed

(* The subscription breaks: the messages that Run does not receive are lost  *)
(* to the streams, and to a client that is away and past them.               *)
LEMMA LostNext ==
  ASSUME SharedTypes, ClientTypes, SharedTypes', ClientTypes',
         NEW c \in Clients, ClientInv(c), SubscriptionLost
  PROVE  ClientInv(c)'
<1>0. /\ Progress(c) /\ Behind(c) /\ Followed(c)
      /\ UNCHANGED <<stream, history, buffer, cursor, fan, rows, sending, top, overtaken>>
  BY Zenon DEF ClientInv, clientVars, sendVars, SubscriptionLost
<1>p. pubsub \in Seq(Nat)
  BY Zenon DEF SharedTypes
<1>1. PICK n \in 0 .. Len(pubsub) - 1 :
        /\ pubsub' = SubSeq(pubsub, 1, n)
        /\ Lose({pubsub[i] : i \in n + 1 .. Len(pubsub)})
  BY Zenon DEF SubscriptionLost
<1> DEFINE gone == {pubsub[i] : i \in n + 1 .. Len(pubsub)}
<1>2. /\ Len(pubsub') = n
      /\ \A i \in 1 .. Len(pubsub') : i \in 1 .. Len(pubsub) /\ pubsub'[i] = pubsub[i]
      /\ \A m : Within(pubsub, m) => Within(pubsub', m) \/ m \in gone
      /\ \A m : \A j \in 1 .. Len(pubsub') : Before(pubsub, j, m) => Before(pubsub', j, m)
  <2>1. PICK t : t = pubsub'
    OBVIOUS
  <2>2. /\ Len(t) = n
        /\ \A i \in 1 .. n : i \in 1 .. Len(pubsub) /\ t[i] = pubsub[i]
        /\ \A m : Within(pubsub, m) => Within(t, m) \/ m \in gone
        /\ \A m : \A j \in 1 .. n : Before(pubsub, j, m) => Before(t, j, m)
    BY <1>1, <1>p, <2>1, PrefixWithin, Zenon
  <2> QED
    BY <2>1, <2>2, Zenon
<1> HIDE DEF gone
<1>3. settled'[c] = settled[c] \cup {m \in gone : stream[c] # "off" \/ m < cursor[c]}
  BY <1>1, Zenon DEF Lose, gone
<1>4. Progress(c)'
  BY <1>0, <1>3, Zenon DEF Progress, Replayed, InOrder
<1>5. Behind(c)'
  <2>1. \A m : m < cursor[c] /\ Underway(c, m) => m \in settled'[c] \/ Underway(c, m)'
    BY <1>0, <1>2, <1>3, Zenon DEF Underway
  <2> QED
    BY <1>0, <1>3, <2>1, Zenon DEF Behind
<1>6. \A m : Known(c, m) => Known(c, m)'
  BY <1>0, <1>3, Zenon DEF Known, Pending
<1>7. \A m : (Held(c, m) => Held(c, m)') /\ (OnItsWay(c, m) => OnItsWay(c, m)')
  BY <1>0, <1>6, Zenon DEF Held, OnItsWay
<1>8. ASSUME stream[c] # "off" PROVE BufferOrder(c)' /\ FanOrder(c)' /\ PubsubOrder(c)' /\ NoneLost(c)'
  <2>0. BufferOrder(c) /\ FanOrder(c) /\ PubsubOrder(c) /\ NoneLost(c)
    BY <1>0, <1>8, Zenon DEF Followed
  <2>1. BufferOrder(c)' /\ FanOrder(c)'
    BY <1>0, <1>6, <1>7, <2>0, Zenon DEF BufferOrder, FanOrder, InOrder
  <2>2. PubsubOrder(c)'
    BY <1>0, <1>2, <1>7, <2>0, Zenon DEF PubsubOrder, InOrder
  <2>3. \A m \in gone : OnItsWay(c, m)'
    BY <1>3, <1>8, Zenon DEF OnItsWay, Held, Known
  <2>4. NoneLost(c)'
    BY <1>0, <1>2, <1>7, <2>0, <2>3, Zenon DEF NoneLost
  <2> QED
    BY <2>1, <2>2, <2>4, Zenon
<1> QED
  BY <1>0, <1>4, <1>5, <1>8, Zenon DEF ClientInv, Followed

(* Publish puts a message into c's channel behind what is there, or drops it *)
(* for c alone.                                                              *)
LEMMA SentNext ==
  ASSUME SharedTypes, ClientTypes, SharedTypes', ClientTypes',
         NEW c \in Clients, ClientInv(c), HubSend(c)
  PROVE  ClientInv(c)'
<1>0. /\ Progress(c) /\ Behind(c) /\ Followed(c) /\ c \in fan.left /\ stream[c] # "off"
      /\ UNCHANGED <<rows, sending, pubsub, stream, history, cursor, top, overtaken>>
      /\ FanNext(fan.left \ {c})
  BY Zenon DEF ClientInv, HubSend, sendVars
<1>1. BufferOrder(c) /\ FanOrder(c) /\ PubsubOrder(c) /\ NoneLost(c)
  BY <1>0, Zenon DEF Followed
<1>o. InOrder' = InOrder
  BY <1>0, Zenon DEF InOrder
<1>2. c \notin fan'.left
  <2>1. CASE fan' = NoFan
    BY <2>1, Zenon DEF NoFan
  <2>2. CASE fan' = [fan EXCEPT !.left = fan.left \ {c}]
    <3>1. fan'.left = fan.left \ {c}
      BY <2>2, Zenon DEF SharedTypes
    <3> QED
      BY <3>1, Zenon
  <2> QED
    BY <1>0, <2>1, <2>2, Zenon DEF FanNext
<1>3. FanOrder(c)'
  BY <1>2, Zenon DEF FanOrder
<1>4. /\ fan.msg \in Nat /\ buffer[c] \in Seq(Nat)
      /\ fan.msg \in rows /\ fan.msg <= top
  <2>1. buffer[c] \in Seq(Nat)
    BY Zenon DEF ClientTypes
  <2> QED
    BY <1>0, <2>1, QueueNumbers, Zenon
<1>5. SUFFICES Progress(c)' /\ Behind(c)' /\ BufferOrder(c)' /\ PubsubOrder(c)' /\ NoneLost(c)'
  BY <1>3, Zenon DEF ClientInv, Followed
<1>6. ASSUME \A k : OnItsWay(c, k) => OnItsWay(c, k)'
      PROVE  PubsubOrder(c)' /\ NoneLost(c)'
  BY <1>0, <1>1, <1>6, <1>o, Zenon DEF PubsubOrder, NoneLost
<1>b. ASSUME settled[c] \subseteq settled'[c],
             \A k : Underway(c, k) => k \in settled'[c] \/ Underway(c, k)'
      PROVE  Behind(c)'
  BY <1>0, <1>b, Zenon DEF Behind
<1>r. ASSUME settled[c] \subseteq settled'[c],
             \A i \in 1 .. Len(buffer'[c]) : buffer'[c][i] \in rows /\ buffer'[c][i] <= top
      PROVE  Progress(c)'
  BY <1>0, <1>o, <1>r, Zenon DEF Progress, Replayed
<1>7. CASE settled' = [settled EXCEPT ![c] = @ \cup {fan.msg}] /\ UNCHANGED buffer
  <2>1. settled'[c] = settled[c] \cup {fan.msg}
    BY <1>7, Zenon DEF ClientTypes
  <2>2. \A k : Known(c, k) => Known(c, k)'
    BY <1>0, <2>1, Zenon DEF Known, Pending
  <2>3. \A k : OnItsWay(c, k) => OnItsWay(c, k)'
    BY <1>0, <1>7, <2>1, <2>2, Zenon DEF OnItsWay, Held, Known
  <2>4. Behind(c)'
    BY <1>0, <1>7, <1>b, <2>1, Zenon DEF Underway
  <2>5. Progress(c)'
    BY <1>0, <1>7, <1>r, <2>1, Zenon DEF Progress
  <2>6. BufferOrder(c)'
    BY <1>1, <1>7, <1>o, <2>2, Zenon DEF BufferOrder
  <2> QED
    BY <1>6, <2>3, <2>4, <2>5, <2>6, Zenon
<1>8. CASE buffer' = [buffer EXCEPT ![c] = Append(@, fan.msg)] /\ UNCHANGED settled
  <2> DEFINE b == buffer[c]
             n == Len(buffer[c])
  <2>0. buffer'[c] = Append(b, fan.msg)
    BY <1>8, Zenon DEF ClientTypes
  <2> DEFINE e == fan.msg
             d == Append(b, e)
  <2> HIDE DEF e, d, b
  <2>1. buffer'[c] = d /\ b \in Seq(Nat) /\ e \in Nat
    BY <1>4, <2>0, Zenon DEF b, d, e
  <2>a. n \in Nat
    BY <1>4
  <2>2. Len(d) = n + 1 /\ d[n + 1] = fan.msg /\ \A i \in 1 .. n : d[i] = b[i]
    <3>1. Len(d) = n + 1
      BY <2>1, AppendWithin, Zenon DEF d, b
    <3>2. d[n + 1] = fan.msg
      BY <2>1, AppendWithin, Zenon DEF d, e, b
    <3>3. \A i \in 1 .. n : d[i] = b[i]
      BY <2>1, AppendWithin, Zenon DEF d, b
    <3> QED
      BY <3>1, <3>2, <3>3, Zenon
  <2>3. \A j \in 1 .. Len(d) : j \in 1 .. n \/ j = n + 1
    BY <2>2, <2>a
  <2>4. /\ \A m : Within(d, m) <=> Within(b, m) \/ m = fan.msg
        /\ \A m : \A j \in 1 .. n : Before(b, j, m) => Before(d, j, m)
        /\ \A m : Within(b, m) => Before(d, n + 1, m)
    <3>1. \A m : Within(d, m) <=> Within(b, m) \/ m = fan.msg
      BY <2>1, AppendWithin, Zenon DEF d, e
    <3>2. \A m : \A j \in 1 .. n : Before(b, j, m) => Before(d, j, m)
      BY <2>1, AppendWithin, Zenon DEF d, b
    <3>3. \A m : Within(b, m) => Before(d, n + 1, m)
      BY <2>1, AppendWithin, Zenon DEF d, b
    <3> QED
      BY <3>1, <3>2, <3>3, Zenon
  <2> HIDE DEF n
  <2>5. \A k : Known(c, k) <=> Known(c, k)'
    BY <1>0, <1>8, Zenon DEF Known, Pending
  <2>6. \A k : OnItsWay(c, k) => OnItsWay(c, k)'
    BY <2>1, <2>4, <2>5, Zenon DEF OnItsWay, Held, b
  <2>7. Progress(c)'
    <3>1. \A i \in 1 .. Len(buffer'[c]) : buffer'[c][i] \in rows /\ buffer'[c][i] <= top
      BY <1>0, <1>4, <2>1, <2>2, <2>3, Zenon DEF Progress, n, b
    <3> QED
      BY <1>8, <1>r, <3>1, Zenon
  <2>8. Behind(c)'
    BY <1>0, <1>8, <1>b, <2>1, <2>4, Zenon DEF Underway, b
  <2>9. BufferOrder(c)'
    <3>1. ASSUME NEW j \in 1 .. Len(buffer'[c]), NEW k \in InOrder, k < buffer'[c][j]
          PROVE  Known(c, k)' \/ Before(buffer'[c], j, k)
      <4>1. CASE j \in 1 .. n
        BY <1>1, <2>1, <2>2, <2>4, <2>5, <3>1, <4>1, Zenon DEF BufferOrder, n, b
      <4>2. CASE j = n + 1
        BY <1>0, <1>1, <2>1, <2>2, <2>4, <2>5, <3>1, <4>2, Zenon DEF FanOrder, Held, b
      <4> QED
        BY <2>1, <2>3, <3>1, <4>1, <4>2, Zenon
    <3> QED
      BY <1>o, <3>1, Zenon DEF BufferOrder
  <2> QED
    BY <1>6, <2>6, <2>7, <2>8, <2>9, Zenon
<1> QED
  BY <1>7, <1>8, Zenon DEF HubSend

(* A client without a cursor starts here; one with a cursor gets what it     *)
(* lacks from the history, because Stream subscribes before it reads it.     *)
LEMMA SubscribedNext ==
  ASSUME SharedTypes, ClientTypes, SharedTypes', ClientTypes',
         NEW c \in Clients, ClientInv(c), StreamSubscribe(c)
  PROVE  ClientInv(c)'
<1>0. /\ Progress(c) /\ Behind(c) /\ stream[c] = "off"
      /\ UNCHANGED <<rows, sending, pubsub, history, buffer, cursor, top, overtaken>>
  BY Zenon DEF ClientInv, StreamSubscribe, sendVars
<1>o. InOrder' = InOrder
  BY <1>0, Zenon DEF InOrder
<1>1. /\ stream'[c] = IF cursor[c] = NoMsg THEN "live" ELSE "subscribed"
      /\ settled'[c] = settled[c] \cup IF cursor[c] = NoMsg THEN rows \ sending ELSE {}
  BY Zenon DEF StreamSubscribe, ClientTypes
<1>2. c \in fan.left => c \in fan'.left /\ fan'.msg = fan.msg
  <2>1. CASE fan' = [fan EXCEPT !.left = @ \cup {c}]
    <3>1. fan'.left = fan.left \cup {c} /\ fan'.msg = fan.msg
      BY <2>1, Zenon DEF SharedTypes
    <3> QED
      BY <3>1, Zenon
  <2> QED
    BY <2>1, Zenon DEF StreamSubscribe
<1>3. Progress(c)'
  <2>1. stream'[c] # "replay"
    BY <1>1, Zenon
  <2> QED
    BY <1>0, <1>1, <2>1, Zenon DEF Progress
<1>w. \A m : Underway(c, m) => Underway(c, m)'
  BY <1>0, <1>2, Zenon DEF Underway
<1>4. Behind(c)'
  BY <1>0, <1>1, <1>w, Zenon DEF Behind
<1>5. \A m \in rows : Known(c, m)' \/ (m \in overtaken /\ Underway(c, m)')
  <2> SUFFICES ASSUME NEW m \in rows PROVE Known(c, m)' \/ (m \in overtaken /\ Underway(c, m)')
    BY Zenon
  <2>1. CASE cursor[c] = NoMsg
    BY <1>0, <1>1, <2>1, Zenon DEF Known
  <2>2. CASE cursor[c] # NoMsg
    <3>0. cursor[c] \in Nat /\ m \in Nat
      BY <1>0, QueueNumbers, Zenon
    <3>1. cursor[c] < m \/ m = cursor[c] \/ m < cursor[c]
      BY <3>0
    <3>2. stream'[c] = "subscribed" /\ cursor[c] \in settled'[c]
      BY <1>0, <1>1, <2>2, Zenon DEF Progress
    <3> QED
      BY <1>0, <1>1, <1>w, <3>1, <3>2, Zenon DEF Known, Pending, Behind
  <2> QED
    BY <2>1, <2>2, Zenon
<1>6. BufferOrder(c)' /\ FanOrder(c)' /\ PubsubOrder(c)'
  <2>1. \A m \in InOrder : Known(c, m)'
    BY <1>5, Zenon DEF InOrder
  <2> QED
    BY <1>o, <2>1, Zenon DEF BufferOrder, FanOrder, PubsubOrder, OnItsWay, Held
<1>7. NoneLost(c)'
  BY <1>0, <1>5, Zenon DEF NoneLost, OnItsWay, Held, Underway
<1> QED
  BY <1>3, <1>4, <1>6, <1>7, Zenon DEF ClientInv, Followed

(* A step of c's stream that takes nothing from c's channel, and after which *)
(* c knows at least what it knew, keeps the order on the way to c.           *)
LEMMA SameWay ==
  ASSUME NEW c \in Clients, Followed(c), stream[c] # "off",
         UNCHANGED <<rows, sending, pubsub, fan, buffer, top, overtaken>>,
         \A m \in rows : Known(c, m) => Known(c, m)'
  PROVE  Followed(c)'
<1>1. BufferOrder(c) /\ FanOrder(c) /\ PubsubOrder(c) /\ NoneLost(c)
  BY Zenon DEF Followed
<1>o. InOrder' = InOrder /\ \A m \in InOrder : m \in rows
  BY Zenon DEF InOrder
<1>2. \A m \in rows : (Held(c, m) => Held(c, m)') /\ (OnItsWay(c, m) => OnItsWay(c, m)')
  BY Zenon DEF Held, OnItsWay
<1>3. BufferOrder(c)'
  BY <1>1, <1>o, Zenon DEF BufferOrder
<1>4. FanOrder(c)'
  BY <1>1, <1>2, <1>o, Zenon DEF FanOrder
<1>5. PubsubOrder(c)'
  BY <1>1, <1>2, <1>o, Zenon DEF PubsubOrder
<1>6. NoneLost(c)'
  BY <1>1, <1>2, Zenon DEF NoneLost
<1> QED
  BY <1>3, <1>4, <1>5, <1>6, Zenon DEF Followed

(* The history has every row after the cursor that is visible and that the   *)
(* LIMIT does not cut off.                                                   *)
LEMMA HistoryNext ==
  ASSUME SharedTypes, ClientTypes, SharedTypes', ClientTypes',
         NEW c \in Clients, ClientInv(c), StreamHistory(c)
  PROVE  ClientInv(c)'
<1>0. /\ Progress(c) /\ Behind(c) /\ Followed(c) /\ stream[c] = "subscribed"
      /\ UNCHANGED <<rows, sending, pubsub, fan, buffer, cursor, top, overtaken>>
  BY Zenon DEF ClientInv, StreamHistory, sendVars
<1>n. cursor[c] \in Nat /\ \A m \in rows : m \in Nat
  BY <1>0, QueueNumbers, Zenon
<1>o. InOrder' = InOrder
  BY <1>0, Zenon DEF InOrder
<1>1. ASSUME settled[c] \subseteq settled'[c] PROVE Behind(c)'
  <2>1. \A m : Underway(c, m) => Underway(c, m)'
    BY <1>0, Zenon DEF Underway
  <2> QED
    BY <1>0, <1>1, <2>1, Zenon DEF Behind
<1>2. ASSUME NEW l \in ListSince(cursor[c]),
             history' = [history EXCEPT ![c] = l],
             stream' = [stream EXCEPT ![c] = "replay"],
             settled' = [settled EXCEPT ![c] =
                           @ \cup ((LaterRows(cursor[c]) \ Elements(l)) \ sending)]
      PROVE  ClientInv(c)'
  <2>1. /\ history'[c] = l /\ stream'[c] = "replay"
        /\ settled'[c] = settled[c] \cup ((LaterRows(cursor[c]) \ Elements(l)) \ sending)
    BY <1>2, Zenon DEF ClientTypes
  <2>2. /\ l \in Seq(Nat) /\ Len(l) \in Nat
        /\ \A i \in 1 .. Len(l) : l[i] \in rows /\ cursor[c] < l[i]
        /\ \A i, j \in 1 .. Len(l) : i < j => l[i] < l[j]
        /\ \A r \in LaterRows(cursor[c]) : Within(l, r) \/ \A i \in 1 .. Len(l) : l[i] < r
    BY <1>n, ListSinceRows, Zenon
  <2>3. ASSUME NEW j \in 1 .. Len(l), NEW m \in InOrder, cursor[c] < m, m < l[j]
        PROVE  Before(l, j, m)
    <3>1. m \in rows /\ m \in Nat /\ l[j] \in Nat /\ m \in LaterRows(cursor[c])
      BY <1>n, <2>2, <2>3, Zenon DEF InOrder, LaterRows
    <3>2. ~(l[j] < m)
      BY <2>3, <3>1
    <3>3. PICK i \in 1 .. Len(l) : l[i] = m
      BY <2>2, <3>1, <3>2, Zenon DEF Within
    <3>4. ~(j < i) /\ j # i
      <4>1. m # l[j]
        BY <2>3, <3>1
      <4> QED
        BY <2>2, <3>2, <3>3, <4>1, Zenon
    <3>5. i \in 1 .. j - 1
      BY <2>2, <3>4
    <3> QED
      BY <3>3, <3>5, Zenon DEF Before
  <2>4. Replayed(c)'
    BY <1>0, <1>o, <2>1, <2>2, <2>3, Zenon DEF Replayed
  <2>5. Progress(c)'
    BY <1>0, <2>1, <2>4, Zenon DEF Progress
  <2>6. Behind(c)'
    BY <1>1, <2>1, Zenon
  <2>7. ASSUME NEW m \in rows, Known(c, m) PROVE Known(c, m)'
    <3>1. Pending(c, m) => m \in LaterRows(cursor[c])
      BY <1>0, Zenon DEF Pending, LaterRows
    <3>2. m \in Elements(l) => Pending(c, m)'
      BY <2>1, ElementsWithin, Zenon DEF Pending
    <3> QED
      BY <1>0, <2>1, <2>7, <3>1, <3>2, Zenon DEF Known
  <2> QED
    BY <1>0, <2>5, <2>6, <2>7, SameWay, Zenon DEF ClientInv
<1>3. CASE /\ UNCHANGED history /\ stream' = [stream EXCEPT ![c] = "live"]
           /\ settled' = [settled EXCEPT ![c] = @ \cup (LaterRows(cursor[c]) \ sending)]
  <2>1. stream'[c] = "live" /\ settled'[c] = settled[c] \cup (LaterRows(cursor[c]) \ sending)
    BY <1>3, Zenon DEF ClientTypes
  <2>2. Progress(c)'
    BY <1>0, <2>1, Zenon DEF Progress
  <2>3. Behind(c)'
    BY <1>1, <2>1, Zenon
  <2>4. ASSUME NEW m \in rows, Known(c, m) PROVE Known(c, m)'
    BY <1>0, <2>1, <2>4, Zenon DEF Known, Pending, LaterRows
  <2> QED
    BY <1>0, <2>2, <2>3, <2>4, SameWay, Zenon DEF ClientInv
<1> QED
  BY <1>2, <1>3, Zenon DEF StreamHistory

(* A history frame is the next row after the cursor, but for the overtaken   *)
(* ones, which are settled or on their way.                                  *)
LEMMA ReplayNext ==
  ASSUME SharedTypes, ClientTypes, SharedTypes', ClientTypes',
         NEW c \in Clients, ClientInv(c), StreamReplay(c)
  PROVE  ClientInv(c)'
<1>0. /\ Progress(c) /\ Behind(c) /\ Followed(c) /\ stream[c] = "replay"
      /\ UNCHANGED <<rows, sending, pubsub, fan, buffer, top, overtaken>>
  BY Zenon DEF ClientInv, StreamReplay, sendVars
<1>o. InOrder' = InOrder
  BY <1>0, Zenon DEF InOrder
<1>n. cursor[c] \in Nat /\ history[c] \in Seq(Nat) /\ \A m \in rows : m \in Nat
  <2>1. history[c] \in Seq(Nat)
    BY Zenon DEF ClientTypes
  <2> QED
    BY <1>0, <2>1, QueueNumbers, Zenon
<1>2. CASE /\ history[c] # <<>> /\ Receive(c, Head(history[c]))
           /\ history' = [history EXCEPT ![c] = Tail(@)] /\ UNCHANGED stream
  <2> DEFINE l == history[c]
             h == Head(l)
             t == Tail(l)
             n == Len(l)
  <2>0. history'[c] = t /\ cursor'[c] = h /\ settled'[c] = settled[c] \cup {h}
    BY <1>2, Zenon DEF Receive, ClientTypes
  <2>1. /\ \A i \in 1 .. n : l[i] \in rows /\ cursor[c] < l[i]
        /\ \A i, j \in 1 .. n : i < j => l[i] < l[j]
        /\ \A j \in 1 .. n : \A m \in InOrder : cursor[c] < m /\ m < l[j] => Before(l, j, m)
    BY <1>0, Zenon DEF Progress, Replayed
  <2>2. /\ h = l[1] /\ n \in Nat /\ n >= 1 /\ Len(t) = n - 1 /\ h \in Nat
        /\ \A i \in 1 .. Len(t) : i + 1 \in 1 .. n /\ t[i] = l[i + 1]
        /\ \A m : Within(l, m) => m = h \/ Within(t, m)
        /\ \A m : \A j \in 1 .. Len(t) : Before(l, j + 1, m) => m = h \/ Before(t, j, m)
    <3> HIDE DEF l
    <3> QED
      BY <1>2, <1>n, TailWithin, Zenon DEF l
  <2> HIDE DEF l, h, t, n
  <2>3. /\ 1 \in 1 .. n /\ 1 .. 1 - 1 = {}
        /\ \A i \in 1 .. n : i = 1 \/ 1 < i
        /\ \A i \in 1 .. Len(t) : 1 < i + 1
        /\ \A i, j \in 1 .. Len(t) : i < j => i + 1 < j + 1
    BY <2>2
  <2>4. h \in rows /\ cursor[c] < h
    BY <2>1, <2>2, <2>3, Zenon
  <2>5. \A m \in Nat : h < m => cursor[c] < m /\ m # h
    BY <1>n, <2>2, <2>4
  <2>6. Replayed(c)'
    <3>1. \A i \in 1 .. Len(t) : t[i] \in rows /\ h < t[i]
      BY <2>1, <2>2, <2>3, Zenon
    <3>2. \A i, j \in 1 .. Len(t) : i < j => t[i] < t[j]
      BY <2>1, <2>2, <2>3, Zenon
    <3>3. ASSUME NEW j \in 1 .. Len(t), NEW m \in InOrder, h < m, m < t[j] PROVE Before(t, j, m)
      <4>1. cursor[c] < m /\ m # h
        BY <1>n, <2>5, <3>3, Zenon DEF InOrder
      <4>2. Before(l, j + 1, m)
        BY <2>1, <2>2, <3>3, <4>1, Zenon
      <4> QED
        BY <2>2, <3>3, <4>1, <4>2, Zenon
    <3> QED
      BY <1>0, <1>o, <2>0, <3>1, <3>2, <3>3, Zenon DEF Replayed
  <2>7. Progress(c)'
    BY <1>0, <2>0, <2>4, <2>6, Zenon DEF Progress
  <2>8. Behind(c)'
    <3>1. ASSUME NEW m \in rows, m < h
          PROVE  \/ m \in settled'[c]
                 \/ m \in sending /\ (m < top \/ m \in overtaken)
                 \/ m \in overtaken /\ Underway(c, m)
      <4>1. m < cursor[c] \/ m = cursor[c] \/ cursor[c] < m
        BY <1>n
      <4>2. CASE m < cursor[c]
        BY <1>0, <2>0, <4>2, Zenon DEF Behind
      <4>3. CASE m = cursor[c]
        <5>1. cursor[c] # NoMsg
          BY <4>3 DEF SharedTypes, NoMsg
        <5> QED
          BY <1>0, <2>0, <4>3, <5>1, Zenon DEF Progress
      <4>4. CASE cursor[c] < m
        <5>1. m \in overtaken
          BY <2>1, <2>2, <2>3, <3>1, <4>4, Zenon DEF InOrder, Before
        <5>2. ~Within(l, m)
          <6>1. \A i \in 1 .. n : l[i] \in Nat /\ (l[i] = h \/ h < l[i])
            BY <1>n, <2>1, <2>2, <2>3, Zenon
          <6>2. m \in Nat /\ \A x \in Nat : (x = h \/ h < x) => x # m
            BY <1>n, <2>2, <3>1
          <6> QED
            BY <6>1, <6>2, Zenon DEF Within, n
        <5>3. ~Pending(c, m)
          BY <1>0, <5>2, Zenon DEF Pending, l
        <5>4. OnItsWay(c, m) \/ Within(pubsub, m)
          BY <1>0, <3>1, Zenon DEF Followed, NoneLost
        <5> QED
          BY <2>0, <5>1, <5>3, <5>4, Zenon DEF OnItsWay, Held, Known, Underway
      <4> QED
        BY <4>1, <4>2, <4>3, <4>4, Zenon
    <3>2. \A m : Underway(c, m) => Underway(c, m)'
      BY <1>0, Zenon DEF Underway
    <3> QED
      BY <1>0, <2>0, <3>1, <3>2, Zenon DEF Behind
  <2>9. ASSUME NEW m \in rows, Known(c, m) PROVE Known(c, m)'
    <3>1. Pending(c, m) => m = h \/ Pending(c, m)'
      BY <1>0, <1>2, <2>0, <2>2, Zenon DEF Pending, l
    <3> QED
      BY <1>0, <2>0, <2>9, <3>1, Zenon DEF Known
  <2> QED
    BY <1>0, <2>7, <2>8, <2>9, SameWay, Zenon DEF ClientInv
<1>3. CASE /\ history[c] = <<>> /\ stream' = [stream EXCEPT ![c] = "live"]
           /\ UNCHANGED <<cursor, settled, history>>
  <2>1. stream'[c] = "live"
    BY <1>3, Zenon DEF ClientTypes
  <2>2. Progress(c)' /\ Behind(c)'
    BY <1>0, <1>3, <2>1, Zenon DEF Progress, Behind, Underway
  <2>3. ASSUME NEW m \in rows, Known(c, m) PROVE Known(c, m)'
    BY <1>0, <1>3, <2>1, <2>3, EmptyWithin, Zenon DEF Known, Pending
  <2> QED
    BY <1>0, <2>2, <2>3, SameWay, Zenon DEF ClientInv
<1> QED
  BY <1>2, <1>3, Zenon DEF StreamReplay

(* A live frame is the first message of the channel: what comes before it    *)
(* is known, or was overtaken, and nothing of the history is pending.        *)
LEMMA LiveNext ==
  ASSUME SharedTypes, ClientTypes, SharedTypes', ClientTypes',
         NEW c \in Clients, ClientInv(c), StreamLive(c)
  PROVE  ClientInv(c)'
<1>0. /\ Progress(c) /\ Behind(c) /\ Followed(c) /\ stream[c] = "live" /\ buffer[c] # <<>>
      /\ UNCHANGED <<rows, sending, pubsub, fan, stream, history, top, overtaken>>
  BY Zenon DEF ClientInv, StreamLive, sendVars
<1>o. InOrder' = InOrder /\ \A m \in InOrder : m \in rows
  BY <1>0, Zenon DEF InOrder
<1>n. \A m \in rows : m \in Nat
  BY <1>0, QueueNumbers, Zenon
<1>1. BufferOrder(c) /\ FanOrder(c) /\ PubsubOrder(c) /\ NoneLost(c)
  BY <1>0, Zenon DEF Followed
<1> DEFINE b == buffer[c]
           t == Tail(b)
           h == Head(b)
<1>2. buffer'[c] = t /\ cursor'[c] = h /\ settled'[c] = settled[c] \cup {h}
  BY Zenon DEF StreamLive, Receive, ClientTypes
<1>3. /\ h = b[1] /\ h \in Nat /\ Len(b) \in Nat /\ Len(b) >= 1
      /\ \A i \in 1 .. Len(t) : i + 1 \in 1 .. Len(b) /\ t[i] = b[i + 1]
      /\ \A m : Within(b, m) => m = h \/ Within(t, m)
      /\ \A m : \A j \in 1 .. Len(t) : Before(b, j + 1, m) => m = h \/ Before(t, j, m)
  <2>1. b \in Seq(Nat)
    BY Zenon DEF ClientTypes
  <2> HIDE DEF b
  <2> QED
    BY <1>0, <2>1, TailWithin, Zenon DEF b
<1> HIDE DEF t, h
<1>4. 1 \in 1 .. Len(b) /\ 1 .. 1 - 1 = {}
  BY <1>3
<1>5. h \in rows /\ h <= top /\ top \in Nat
  BY <1>0, <1>3, <1>4, Zenon DEF Progress, SharedTypes
<1>6. \A m : ~Pending(c, m)
  BY <1>0, Zenon DEF Pending
<1>7. \A m : Known(c, m) \/ m = h => Known(c, m)'
  BY <1>0, <1>2, <1>6, Zenon DEF Known
<1>8. Progress(c)'
  BY <1>0, <1>2, <1>3, <1>5, Zenon DEF Progress
<1>9. Behind(c)'
  <2> SUFFICES ASSUME NEW m \in rows, m < h
               PROVE  \/ m \in settled'[c]
                      \/ m \in sending /\ (m < top \/ m \in overtaken)
                      \/ m \in overtaken /\ Underway(c, m)'
    BY <1>0, <1>2, Zenon DEF Behind
  <2>1. m < top /\ m # h
    BY <1>3, <1>5, <1>n
  <2>2. CASE m \notin overtaken
    <3>1. Known(c, m)
      BY <1>1, <1>3, <1>4, <2>2, Zenon DEF BufferOrder, Before, InOrder
    <3> QED
      BY <1>2, <1>6, <2>1, <3>1, Zenon DEF Known
  <2>3. CASE m \in overtaken
    <3>1. OnItsWay(c, m) \/ Within(pubsub, m)
      BY <1>1, Zenon DEF NoneLost
    <3>2. Underway(c, m) => Underway(c, m)'
      BY <1>0, <1>2, <1>3, <2>1, Zenon DEF Underway
    <3> QED
      BY <1>2, <1>6, <2>3, <3>1, <3>2, Zenon DEF OnItsWay, Held, Known, Underway
  <2> QED
    BY <2>2, <2>3, Zenon
<1>10. BufferOrder(c)'
  <2>1. ASSUME NEW j \in 1 .. Len(t), NEW k \in InOrder, k < t[j]
        PROVE  Known(c, k)' \/ Before(t, j, k)
    <3>1. Known(c, k) \/ Before(b, j + 1, k)
      BY <1>1, <1>3, <2>1, Zenon DEF BufferOrder
    <3> QED
      BY <1>3, <1>7, <2>1, <3>1, Zenon
  <2> QED
    BY <1>2, <1>o, <2>1, Zenon DEF BufferOrder
<1>11. \A k : Held(c, k) => Held(c, k)'
  BY <1>2, <1>3, <1>7, Zenon DEF Held
<1>12. \A k : OnItsWay(c, k) => OnItsWay(c, k)'
  BY <1>0, <1>11, Zenon DEF OnItsWay
<1>13. FanOrder(c)' /\ PubsubOrder(c)' /\ NoneLost(c)'
  BY <1>0, <1>1, <1>11, <1>12, <1>o, Zenon DEF FanOrder, PubsubOrder, NoneLost
<1> QED
  BY <1>8, <1>9, <1>10, <1>13, Zenon DEF ClientInv, Followed

-----------------------------------------------------------------------------
(* The theorem. *)

(* In the beginning nothing has been sent and nobody is connected.           *)
LEMMA InboxFirst == InboxInit => InboxInv
<1> SUFFICES ASSUME InboxInit PROVE InboxInv
  BY Zenon
<1> USE DEF InboxInit
<1>1. SharedTypes
  BY EmptyWithin DEF SharedTypes, NoFan, NoMsg
<1>2. ClientTypes
  <2>1. NoMsg \in Nat
    BY Zenon DEF NoMsg
  <2> QED
    BY <2>1, EmptyWithin, Zenon DEF ClientTypes
<1>3. ASSUME NEW c \in Clients PROVE Progress(c) /\ Behind(c) /\ Followed(c)
  <2>1. cursor[c] = NoMsg /\ rows = {} /\ stream[c] = "off" /\ buffer[c] = <<>>
    BY Zenon
  <2>2. Progress(c)
    BY <2>1, EmptyWithin, Zenon DEF Progress
  <2> QED
    BY <2>1, <2>2, Zenon DEF Behind, Followed
<1> QED
  BY <1>1, <1>2, <1>3, Zenon DEF InboxInv

(* Every step of a sender, of the hub or of a stream keeps the invariant.    *)
LEMMA InboxStep == InboxInv /\ InboxNext => InboxInv'
<1> SUFFICES ASSUME InboxInv, InboxNext PROVE InboxInv'
  BY Zenon
<1>0. SharedTypes /\ ClientTypes /\ SharedTypes' /\ ClientTypes'
  BY SharedNext, ClientNext, Zenon DEF InboxInv
<1> SUFFICES ASSUME NEW c \in Clients PROVE ClientInv(c)'
  BY <1>0, Zenon DEF InboxInv, ClientInv
<1>1. ClientInv(c)
  BY Zenon DEF InboxInv, ClientInv
<1>n. \A m \in rows \cup inserting : m \in Nat
  BY <1>0 DEF SharedTypes
<1>f. ASSUME NEW d \in Clients, d # c, FanNext(fan.left \ {d})
      PROVE  (c \in fan'.left <=> c \in fan.left) /\ (c \in fan.left => fan'.msg = fan.msg)
  <2>1. CASE fan' = NoFan /\ fan.left \ {d} = {}
    BY <1>f, <2>1, Zenon DEF NoFan
  <2>2. CASE fan' = [fan EXCEPT !.left = fan.left \ {d}]
    <3>1. fan'.left = fan.left \ {d} /\ fan'.msg = fan.msg
      BY <1>0, <2>2, Zenon DEF SharedTypes
    <3> QED
      BY <1>f, <3>1, Zenon
  <2> QED
    BY <1>f, <2>1, <2>2, Zenon DEF FanNext
<1>o. ASSUME stream'[c] = stream[c], cursor'[c] = cursor[c],
             history'[c] = history[c], buffer'[c] = buffer[c],
             settled[c] \subseteq settled'[c], UNCHANGED <<sendVars, pubsub>>,
             c \in fan'.left <=> c \in fan.left,
             c \in fan.left => fan'.msg = fan.msg
      PROVE  ClientInv(c)'
  <2>1. UNCHANGED <<rows, sending, top, overtaken>>
    BY <1>o, Zenon DEF sendVars
  <2> QED
    BY <1>0, <1>1, <1>o, <2>1, Apart, Zenon
<1>s. ASSUME UNCHANGED <<pubsub, fan, clientVars, top>>,
             NEW ms \in SUBSET inserting, Commit(ms),
             settled[c] \subseteq settled'[c],
             \A m \in ms \cup sending : \/ m \in sending' \/ m \in settled'[c]
                                        \/ stream[c] = "off" /\ ~(m < cursor[c])
      PROVE  ClientInv(c)'
  <2>1. /\ rows' = rows \cup ms
        /\ overtaken' = overtaken \cup {m \in ms : \E r \in rows : m < r}
    BY <1>s, Zenon DEF Commit
  <2>2. ASSUME NEW m \in ms, m \notin overtaken', NEW r \in rows PROVE r < m
    <3>1. m # r
      BY <1>0, Zenon DEF SharedTypes
    <3>2. ~(m < r)
      BY <2>1, <2>2, Zenon
    <3>3. m \in Nat /\ r \in Nat
      BY <1>n, Zenon
    <3> QED
      BY <3>1, <3>2, <3>3
  <2>3. \A m \in rows' : m \in rows \/ m \in overtaken' \/ \A r \in rows : r < m
    BY <2>1, <2>2, Zenon
  <2>4. UNCHANGED <<stream, history, buffer, cursor>>
    BY <1>s, Zenon DEF clientVars
  <2> QED
    BY <1>0, <1>1, <1>s, <2>1, <2>3, <2>4, Apart, Zenon
<1>l. ASSUME NEW ms, Lose(ms)
      PROVE  /\ settled[c] \subseteq settled'[c]
             /\ \A m \in ms : m \in settled'[c] \/ (stream[c] = "off" /\ ~(m < cursor[c]))
  BY <1>l, Zenon DEF Lose
<1>2. CASE SendInsert
  <2>1. UNCHANGED <<rows, sending, pubsub, fan, clientVars, top, overtaken, settled>>
    BY <1>2, Zenon DEF SendInsert
  <2> QED
    BY <1>0, <1>1, <2>1, Apart, Zenon DEF clientVars
<1>3. ASSUME NEW m \in inserting, SendCommit(m) PROVE ClientInv(c)'
  <2>1. UNCHANGED <<pubsub, fan, clientVars, top>> /\ {m} \in SUBSET inserting
    BY <1>3, Zenon DEF SendCommit
  <2>2. CASE Commit({m}) /\ sending' = sending \cup {m} /\ UNCHANGED settled
    BY <1>s, <2>1, <2>2, Zenon
  <2>3. CASE Commit({m}) /\ Lose({m}) /\ UNCHANGED sending
    BY <1>l, <1>s, <2>1, <2>3, Zenon
  <2>4. CASE UNCHANGED <<sending, rows, overtaken, settled>>
    BY <1>0, <1>1, <2>1, <2>4, Apart, Zenon DEF clientVars
  <2> QED
    BY <1>3, <2>2, <2>3, <2>4, Zenon DEF SendCommit
<1>4. ASSUME NEW m \in sending, SendPublish(m) PROVE ClientInv(c)'
  <2>1. sending' = sending \ {m} /\ UNCHANGED <<rows, fan, clientVars>>
    BY <1>4, Zenon DEF SendPublish
  <2>2. CASE Lose({m}) /\ UNCHANGED <<pubsub, top, overtaken>>
    <3>1. /\ settled[c] \subseteq settled'[c]
          /\ \A k \in sending : \/ k \in sending' \/ k \in settled'[c]
                                \/ stream[c] = "off" /\ ~(k < cursor[c])
      BY <1>l, <2>1, <2>2, Zenon
    <3> QED
      BY <1>0, <1>1, <2>1, <2>2, <3>1, Apart, Zenon DEF clientVars
  <2>3. CASE /\ pubsub' = Append(pubsub, m) /\ top' = IF top < m THEN m ELSE top
             /\ overtaken' = overtaken \cup (IF m < top THEN {m} ELSE {})
             /\ UNCHANGED settled
    BY <1>0, <1>1, <2>1, <2>3, PublishedNext, Zenon
  <2> QED
    BY <1>4, <2>2, <2>3, Zenon DEF SendPublish
<1>5. CASE HubReceive
  BY <1>0, <1>1, <1>5, ReceivedNext, Zenon
<1>6. ASSUME NEW d \in Clients, HubSend(d) PROVE ClientInv(c)'
  <2>1. CASE d = c
    BY <1>0, <1>1, <1>6, <2>1, SentNext, Zenon
  <2>2. CASE d # c
    <3>1. UNCHANGED <<sendVars, pubsub, stream, history, cursor>> /\ FanNext(fan.left \ {d})
      BY <1>6, Zenon DEF HubSend
    <3>2. buffer'[c] = buffer[c] /\ settled[c] \subseteq settled'[c]
      BY <1>0, <1>6, <2>2, Zenon DEF HubSend, ClientTypes
    <3> QED
      BY <1>f, <1>o, <2>2, <3>1, <3>2, Zenon
  <2> QED
    BY <2>1, <2>2, Zenon
<1>7. ASSUME NEW d \in Clients, StreamSubscribe(d) PROVE ClientInv(c)'
  <2>1. CASE d = c
    BY <1>0, <1>1, <1>7, <2>1, SubscribedNext, Zenon
  <2>2. CASE d # c
    <3>1. UNCHANGED <<sendVars, pubsub, history, buffer, cursor>>
      BY <1>7, Zenon DEF StreamSubscribe
    <3>2. stream'[c] = stream[c] /\ settled[c] \subseteq settled'[c]
      BY <1>0, <1>7, <2>2, Zenon DEF StreamSubscribe, ClientTypes
    <3>3. (c \in fan'.left <=> c \in fan.left) /\ fan'.msg = fan.msg
      <4>1. CASE fan' = [fan EXCEPT !.left = @ \cup {d}]
        <5>1. fan'.left = fan.left \cup {d} /\ fan'.msg = fan.msg
          BY <1>0, <4>1, Zenon DEF SharedTypes
        <5> QED
          BY <2>2, <5>1, Zenon
      <4> QED
        BY <1>7, <4>1, Zenon DEF StreamSubscribe
    <3> QED
      BY <1>o, <3>1, <3>2, <3>3, Zenon
  <2> QED
    BY <2>1, <2>2, Zenon
<1>8. ASSUME NEW d \in Clients, StreamStep(d) PROVE ClientInv(c)'
  <2>1. CASE d = c
    BY <1>0, <1>1, <1>8, <2>1, HistoryNext, ReplayNext, LiveNext, Zenon DEF StreamStep
  <2>2. CASE d # c
    <3>1. UNCHANGED <<sendVars, pubsub, fan>>
      BY <1>8, Zenon DEF StreamStep, StreamHistory, StreamReplay, StreamLive
    <3>2. /\ stream'[c] = stream[c] /\ settled[c] \subseteq settled'[c]
          /\ cursor'[c] = cursor[c] /\ history'[c] = history[c] /\ buffer'[c] = buffer[c]
      <4>1. CASE StreamHistory(d)
        BY <1>0, <2>2, <4>1, Zenon DEF StreamHistory, ClientTypes
      <4>2. CASE StreamReplay(d)
        BY <1>0, <2>2, <4>2, Zenon DEF StreamReplay, Receive, ClientTypes
      <4>3. CASE StreamLive(d)
        BY <1>0, <2>2, <4>3, Zenon DEF StreamLive, Receive, ClientTypes
      <4> QED
        BY <1>8, <4>1, <4>2, <4>3, Zenon DEF StreamStep
    <3> QED
      BY <1>o, <3>1, <3>2, Zenon
  <2> QED
    BY <2>1, <2>2, Zenon
<1>9. ASSUME NEW d \in Clients, StreamClose(d) PROVE ClientInv(c)'
  <2>1. /\ HangUp({d}, {}) /\ FanNext(fan.left \ {d}) /\ UNCHANGED <<sendVars, pubsub>>
    BY <1>9, Zenon DEF StreamClose
  <2>2. CASE d = c
    <3>1. /\ stream'[c] = "off" /\ cursor'[c] = cursor[c] /\ buffer'[c] = <<>>
          /\ settled'[c] = settled[c] \cup ((Coming(c) \cup {}) \cap overtaken)
      BY <2>1, <2>2, Zenon DEF HangUp
    <3> QED
      BY <1>0, <1>1, <2>1, <3>1, Gone, Zenon
  <2>3. CASE d # c
    <3>1. /\ stream'[c] = stream[c] /\ cursor'[c] = cursor[c]
          /\ history'[c] = history[c] /\ buffer'[c] = buffer[c]
          /\ settled[c] \subseteq settled'[c]
      BY <2>1, <2>3, Zenon DEF HangUp
    <3> QED
      BY <1>f, <1>o, <2>1, <2>3, <3>1, Zenon
  <2> QED
    BY <2>2, <2>3, Zenon
<1>10. CASE HubPanic
  <2>1. /\ stream'[c] = "off" /\ cursor'[c] = cursor[c] /\ buffer'[c] = <<>>
        /\ settled'[c] = settled[c] \cup ((Coming(c) \cup Elements(pubsub)) \cap overtaken)
        /\ pubsub' = <<>> /\ UNCHANGED sendVars
    BY <1>10, Zenon DEF HubPanic, HangUp
  <2> QED
    BY <1>0, <1>1, <2>1, Gone, Zenon
<1>11. CASE SubscriptionLost
  BY <1>0, <1>1, <1>11, LostNext, Zenon
<1>12. CASE SenderCrash
  <2>1. PICK ms \in SUBSET inserting : Commit(ms) /\ Lose(ms \cup sending)
    BY <1>12, Zenon DEF SenderCrash
  <2>2. UNCHANGED <<pubsub, fan, clientVars, top>>
    BY <1>12, Zenon DEF SenderCrash
  <2> QED
    BY <1>l, <1>s, <2>1, <2>2, Zenon
<1> QED
  BY <1>2, <1>3, <1>4, <1>5, <1>6, <1>7, <1>8, <1>9, <1>10, <1>11, <1>12, Zenon
  DEF InboxNext, HubStep

(* NoSilentGap, for every number of senders and clients, every size of a     *)
(* channel and every LIMIT: a client that keeps the id of its last frame and *)
(* reconnects with it has behind it only holes with one of the causes that   *)
(* the module names, or messages that are still on their way to it.          *)
THEOREM NoGapIsSilent == InboxClientSpec => []NoSilentGap
<1>1. InboxClientInit => InboxInv
  BY InboxFirst, Zenon DEF InboxClientInit
<1>2. InboxInv /\ [InboxClientNext]_inboxClientVars => InboxInv'
  <2> SUFFICES ASSUME InboxInv, [InboxClientNext]_inboxClientVars PROVE InboxInv'
    BY Zenon
  <2>1. CASE InboxNext
    BY <2>1, InboxStep, Zenon
  <2>2. CASE UNCHANGED inboxVars
    <3>1. SharedTypes /\ ClientTypes /\ \A c \in Clients : ClientInv(c)
      BY Zenon DEF InboxInv, ClientInv
    <3>2. SharedTypes' /\ ClientTypes'
      BY <2>2, <3>1, Zenon DEF inboxVars, SharedTypes, ClientTypes
    <3>3. ASSUME NEW c \in Clients PROVE ClientInv(c)'
      BY <2>2, <3>1, <3>2, Apart, Zenon DEF inboxVars
    <3> QED
      BY <3>2, <3>3, Zenon DEF InboxInv, ClientInv
  <2> QED
    BY <2>1, <2>2, Zenon DEF InboxClientNext, inboxClientVars
<1>3. InboxInv => NoSilentGap
  BY ElementsWithin, Zenon DEF InboxInv, Behind, Underway, Coming, NoSilentGap
<1> QED
  BY <1>1, <1>2, <1>3, PTL DEF InboxClientSpec

-----------------------------------------------------------------------------
(* The list: its inductive invariant. *)

\* The client has got row i, and has got it twice.
GotRow(i) == Within(seen, i)
GotTwice(i) == \E j, k \in 1 .. Len(seen) : j < k /\ seen[j] = i /\ seen[k] = i

\* The client will ask for the page after row c.
AtRow(c) == reader.state = "reading" /\ Len(seen) > 0 /\ c = seen[Len(seen)]

\* Row i has the time of the last row of the first page.
OnEdge(q, i) == Len(seen) >= q.limit /\ at[i] = at[seen[q.limit]]

\* Another row has the time of row i.
HasTwin(i) == \E j \in Stored \ {i} : at[j] = at[i]

\* The rows of the list that are newer than row i, and how many there are.
Newer(q, i) == {j \in Matching(q) : at[j] > at[i]}
Rank(q, i) == Cardinality(Newer(q, i))

TableTypes ==
  /\ at \in [RowIds -> Stamps \cup {NoRow}]
  /\ IsFiniteSet(Stored) /\ read \subseteq Stored

Reader == [state : {"reading", "done"}, query : Query, page : Seq(RowIds)]

ReaderTypes ==
  /\ reader \in Reader \cup {NoReader}
  /\ seen \in Seq(RowIds) /\ \A i \in RowIds : GotRow(i) => i \in Stored
  /\ due \subseteq Stored
  /\ reader = NoReader => seen = <<>> /\ due = {}
  /\ reader # NoReader => due \subseteq Matching(reader.query)
  /\ reader.state = "reading" =>
       /\ Len(seen) >= reader.query.limit /\ Len(reader.page) > 0
       /\ AtRow(reader.page[Len(reader.page)])

\* With a cursor: what is still due comes after the cursor, and what was got comes
\* before it.  Only rows of the time at which the first page ended escape this.
CursorInv(q) ==
  /\ \A i \in due : \/ GotRow(i) \/ OnEdge(q, i)
                    \/ \E c \in RowIds : AtRow(c) /\ After(c, i)
  /\ \A c, i \in RowIds : AtRow(c) /\ GotRow(i) => i = c \/ OnEdge(q, i) \/ After(i, c)
  /\ \A i \in RowIds : GotTwice(i) => OnEdge(q, i)

\* With an offset: as long as no row leaves the list, what is still due has at
\* least as many newer rows as were got; as long as none comes, what was got has
\* fewer.
OffsetInv(q) ==
  /\ ~went => \A i \in due : \/ GotRow(i) \/ HasTwin(i)
                             \/ reader.state = "reading" /\ Rank(q, i) >= Len(seen)
  /\ ~came => \A i \in RowIds :
       /\ GotRow(i) => HasTwin(i) \/ Rank(q, i) < Len(seen)
       /\ GotTwice(i) => HasTwin(i)

Reads(q, kind) == reader # NoReader /\ reader.query = q /\ q.kind = kind

PagesInv ==
  /\ TableTypes /\ ReaderTypes
  /\ \A q \in Query : /\ Reads(q, "cursor") => CursorInv(q)
                      /\ Reads(q, "offset") => OffsetInv(q)

-----------------------------------------------------------------------------
(* The list: pages. *)

\* s has each row of S once.
Lists(S, s) ==
  /\ s \in Seq(RowIds)
  /\ \A i \in RowIds : Within(s, i) <=> i \in S
  /\ \A j, k \in 1 .. Len(s) : j < k => s[j] # s[k]

\* p has the rows of s after the first o, up to l of them.
IsPage(s, o, l, p) ==
  /\ p \in Seq(RowIds) /\ Len(p) <= l
  /\ \A m \in 1 .. Len(p) : o + m \in 1 .. Len(s) /\ p[m] = s[o + m]
  /\ Len(p) < l => \A k \in 1 .. Len(s) : k <= o + Len(p)

(* Times and ids are numbers.                                                *)
LEMMA Numbers == TableTypes => \A i \in RowIds : i \in Nat /\ at[i] \in Int
<1> SUFFICES ASSUME TableTypes, NEW i \in RowIds PROVE i \in Nat /\ at[i] \in Int
  BY Zenon
<1>1. at[i] \in Stamps \cup {NoRow}
  BY Zenon DEF TableTypes
<1>2. i \in Nat /\ (at[i] \in Nat \/ at[i] = NoRow)
  BY <1>1, InboxPagesAssumption, Zenon
<1> QED
  BY <1>2 DEF NoRow

(* A page has a positive number of rows.                                     *)
LEMMA LimitsArePositive == \A q \in Query : q.limit \in Nat /\ q.limit > 0
<1>1. \A q \in Query : q.limit \in Nat \ {0}
  BY InboxPagesAssumption, Zenon DEF Query
<1>2. \A n \in Nat \ {0} : n \in Nat /\ n > 0
  OBVIOUS
<1> QED
  BY <1>1, <1>2, Zenon

(* Rows have one order by time and id.                                       *)
LEMMA AfterIsOrder ==
  ASSUME TableTypes, NEW a \in RowIds, NEW b \in RowIds, NEW c \in RowIds
  PROVE  /\ ~After(a, a) /\ ~(After(a, b) /\ After(b, a))
         /\ After(a, b) /\ After(b, c) => After(a, c)
<1>1. \A i \in {a, b, c} : i \in Nat /\ at[i] \in Int
  BY Numbers, Zenon
<1> QED
  BY <1>1 DEF After

(* A SELECT returns every row of its set, and none twice, whatever the order *)
(* in which it returns them.                                                 *)
LEMMA SelectedLists ==
  ASSUME NEW S, S \subseteq RowIds, IsFiniteSet(S), NEW s \in Selected(S)
  PROVE  Lists(S, s) /\ DOMAIN s = 1 .. Len(s)
<1> DEFINE n == Cardinality(S)
<1>1. n \in Nat
  BY FS_CardinalityType, Zenon
<1>2. /\ s \in [1 .. n -> S]
      /\ \A j, k \in 1 .. n : j # k => s[j] # s[k]
  BY Zenon DEF Selected
<1>3. s \in Injection(1 .. n, S)
  BY <1>2, Zenon DEF Injection, IsInjective
<1>4. Cardinality(1 .. n) = n
  BY <1>1, FS_Interval
<1>5. s \in Surjection(1 .. n, S)
  BY <1>3, <1>4, FS_Injection, Zenon
<1> HIDE DEF n
<1>6. s \in Seq(RowIds) /\ Len(s) = n /\ DOMAIN s = 1 .. n
  <2>1. s \in [1 .. n -> RowIds]
    BY <1>2, Zenon
  <2> QED
    BY <1>1, <2>1
<1>7. ASSUME NEW i \in RowIds PROVE Within(s, i) <=> i \in S
  <2>1. \A j \in 1 .. Len(s) : s[j] \in S
    BY <1>2, <1>6, Zenon
  <2>2. \A x \in S : \E j \in 1 .. Len(s) : s[j] = x
    BY <1>5, <1>6, Zenon DEF Surjection
  <2> QED
    BY <2>1, <2>2, Zenon DEF Within
<1>8. \A j, k \in 1 .. n : j < k => j # k
  BY <1>1
<1> QED
  BY <1>2, <1>6, <1>7, <1>8, Zenon DEF Lists

(* OFFSET skips rows and LIMIT ends the page; a page that is not full is the *)
(* last.                                                                     *)
LEMMA SliceIsPage ==
  ASSUME NEW s \in Seq(RowIds), NEW o \in Nat, NEW l \in Nat \ {0}
  PROVE  IsPage(s, o, l, Slice(s, o, l))
<1> DEFINE e == IF o + l < Len(s) THEN o + l ELSE Len(s)
           p == SubSeq(s, o + 1, e)
<1>1. e \in Nat /\ Len(s) \in Nat /\ e <= Len(s) /\ e <= o + l
      /\ (e < o + l => e = Len(s))
  OBVIOUS
<1> HIDE DEF e
<1>2. p \in Seq(RowIds) /\ Len(p) = (IF o + 1 <= e THEN e - o ELSE 0)
      /\ \A m \in 1 .. Len(p) : p[m] = s[o + m]
  <2>1. CASE o + 1 <= e
    <3>1. o + 1 \in 1 .. Len(s) /\ e \in 1 .. Len(s)
      BY <1>1, <2>1
    <3>2. p \in Seq(RowIds)
      BY <3>1
    <3>3. Len(p) = e - o
      BY <1>1, <2>1
    <3>4. ASSUME NEW m \in 1 .. Len(p) PROVE p[m] = s[o + m]
      BY <1>1, <2>1, <3>3
    <3> QED
      BY <2>1, <3>2, <3>3, <3>4
  <2>2. CASE ~(o + 1 <= e)
    <3>1. p = <<>>
      BY <1>1, <2>2
    <3>2. <<>> \in Seq(RowIds) /\ Len(<<>>) = 0 /\ 1 .. Len(<<>>) = {}
      OBVIOUS
    <3> HIDE DEF p
    <3>3. p \in Seq(RowIds) /\ Len(p) = 0 /\ 1 .. Len(p) = {}
      BY <3>1, <3>2, Zenon
    <3> QED
      BY <2>2, <3>3
  <2> QED
    BY <2>1, <2>2, Zenon
<1>3. Slice(s, o, l) = p
  BY Zenon DEF Slice, e
<1> HIDE DEF p
<1>4. Len(p) <= l /\ \A m \in 1 .. Len(p) : o + m \in 1 .. Len(s)
  BY <1>1, <1>2
<1>5. Len(p) < l => \A k \in 1 .. Len(s) : k <= o + Len(p)
  BY <1>1, <1>2
<1> QED
  BY <1>2, <1>3, <1>4, <1>5, Zenon DEF IsPage

(* The list without a cursor: a page of all rows that match, newest first.   *)
LEMMA InboxIsPage ==
  ASSUME TableTypes, NEW q \in Query, NEW o \in Nat, NEW p \in ListInbox(q, o)
  PROVE  \E s : /\ Lists(Matching(q), s) /\ IsPage(s, o, q.limit, p)
                /\ \A j, k \in 1 .. Len(s) : j < k => at[s[j]] >= at[s[k]]
<1>1. PICK s \in Selected(Matching(q)) :
        /\ p = Slice(s, o, q.limit)
        /\ \A j, k \in DOMAIN s : j < k => at[s[j]] >= at[s[k]]
  BY Zenon DEF ListInbox
<1>2. Matching(q) \subseteq RowIds /\ IsFiniteSet(Matching(q))
  <2>1. Matching(q) \subseteq Stored /\ Stored \subseteq RowIds
    BY Zenon DEF Matching, Stored
  <2> QED
    BY <2>1, FS_Subset, Zenon DEF TableTypes
<1>3. Lists(Matching(q), s) /\ DOMAIN s = 1 .. Len(s)
  BY <1>2, SelectedLists, Zenon
<1>4. q.limit \in Nat \ {0}
  BY InboxPagesAssumption, Zenon DEF Query
<1>5. IsPage(s, o, q.limit, p)
  BY <1>1, <1>3, <1>4, SliceIsPage, Zenon DEF Lists
<1> QED
  BY <1>1, <1>3, <1>5, Zenon

(* The list with a cursor: the first rows after the cursor, in the order of  *)
(* time and id.                                                              *)
LEMMA CursorIsPage ==
  ASSUME TableTypes, NEW q \in Query, NEW c \in RowIds,
         NEW p \in ListInboxAfterCursor(q, c)
  PROVE  \E s : /\ Lists({i \in Matching(q) : After(c, i)}, s)
                /\ IsPage(s, 0, q.limit, p)
                /\ \A j, k \in 1 .. Len(s) : j < k => After(s[j], s[k])
<1> DEFINE S == {i \in Matching(q) : After(c, i)}
<1>1. PICK s \in Selected(S) :
        /\ p = Slice(s, 0, q.limit)
        /\ \A j, k \in DOMAIN s : j < k => Precedes(s[j], s[k])
  BY Zenon DEF ListInboxAfterCursor
<1>2. S \subseteq RowIds /\ IsFiniteSet(S)
  <2>1. S \subseteq Stored /\ Stored \subseteq RowIds
    BY Zenon DEF Matching, Stored
  <2> QED
    BY <2>1, FS_Subset, Zenon DEF TableTypes
<1> HIDE DEF S
<1>3. Lists(S, s) /\ DOMAIN s = 1 .. Len(s)
  BY <1>2, SelectedLists, Zenon
<1>4. q.limit \in Nat \ {0} /\ 0 \in Nat
  BY InboxPagesAssumption, Zenon DEF Query
<1>5. IsPage(s, 0, q.limit, p)
  BY <1>1, <1>3, <1>4, SliceIsPage, Zenon DEF Lists
<1>6. ASSUME NEW j \in 1 .. Len(s), NEW k \in 1 .. Len(s), j < k PROVE After(s[j], s[k])
  <2>1. Precedes(s[j], s[k])
    BY <1>1, <1>3, <1>6, Zenon
  <2>2. at[s[j]] \in Int /\ at[s[k]] \in Int /\ s[j] \in Nat /\ s[k] \in Nat
    <3>1. s[j] \in RowIds /\ s[k] \in RowIds
      BY <1>3, <1>6 DEF Lists
    <3> QED
      BY <3>1, Numbers, Zenon
  <2> QED
    BY <2>1, <2>2 DEF Precedes, After
<1> QED
  BY <1>1, <1>3, <1>5, <1>6, Zenon DEF S

(* What the client has got after it got page p.                              *)
LEMMA GotMore ==
  ASSUME seen \in Seq(RowIds), NEW p \in Seq(RowIds), seen' = seen \o p
  PROVE  /\ seen' \in Seq(RowIds) /\ Len(seen') = Len(seen) + Len(p)
         /\ Len(seen) \in Nat /\ Len(p) \in Nat
         /\ \A k \in 1 .. Len(seen) : seen'[k] = seen[k]
         /\ \A m \in 1 .. Len(p) : seen'[Len(seen) + m] = p[m]
         /\ \A i \in RowIds : GotRow(i)' <=> GotRow(i) \/ Within(p, i)
         /\ \A i \in RowIds : GotTwice(i)' =>
              \/ GotTwice(i) \/ (GotRow(i) /\ Within(p, i))
              \/ \E j, k \in 1 .. Len(p) : j < k /\ p[j] = i /\ p[k] = i
<1>1. /\ seen' \in Seq(RowIds) /\ Len(seen') = Len(seen) + Len(p)
      /\ Len(seen) \in Nat /\ Len(p) \in Nat
      /\ \A k \in 1 .. Len(seen) : seen'[k] = seen[k]
      /\ \A m \in 1 .. Len(p) : seen'[Len(seen) + m] = p[m]
  OBVIOUS
<1>2. PICK n \in Nat, l \in Nat : n = Len(seen) /\ l = Len(p)
  BY <1>1, Zenon
<1>3. \A k \in 1 .. n : k \in 1 .. n + l /\ seen'[k] = seen[k]
  BY <1>1, <1>2
<1>4. \A m \in 1 .. l : n + m \in 1 .. n + l /\ seen'[n + m] = p[m]
  BY <1>1, <1>2
<1>5. \A k \in 1 .. n + l : k \in 1 .. n \/ (k - n \in 1 .. l /\ k = n + (k - n))
  BY <1>2
<1>6. \A j, k \in 1 .. n + l :
        j < k /\ k \in 1 .. n => j \in 1 .. n
  BY <1>2
<1>7. \A j, k \in 1 .. n + l : j < k => j - n < k - n
  BY <1>2
<1>8. \A i \in RowIds : GotRow(i)' <=> GotRow(i) \/ Within(p, i)
  <2> SUFFICES ASSUME NEW i \in RowIds PROVE GotRow(i)' <=> GotRow(i) \/ Within(p, i)
    BY Zenon
  <2>1. GotRow(i) => GotRow(i)'
    BY <1>1, <1>2, <1>3, Zenon DEF GotRow, Within
  <2>2. Within(p, i) => GotRow(i)'
    BY <1>1, <1>2, <1>4, Zenon DEF GotRow, Within
  <2>3. ASSUME GotRow(i)' PROVE GotRow(i) \/ Within(p, i)
    <3>1. PICK k \in 1 .. n + l : seen'[k] = i
      BY <1>1, <1>2, <2>3, Zenon DEF GotRow, Within
    <3>2. CASE k \in 1 .. n
      BY <1>2, <1>3, <3>1, <3>2, Zenon DEF GotRow, Within
    <3>3. CASE k - n \in 1 .. l /\ k = n + (k - n)
      <4>1. p[k - n] = i
        BY <1>4, <3>1, <3>3, Zenon
      <4> QED
        BY <1>2, <3>3, <4>1, Zenon DEF Within
    <3> QED
      BY <1>5, <3>2, <3>3, Zenon
  <2> QED
    BY <2>1, <2>2, <2>3, Zenon
<1>9. ASSUME NEW i \in RowIds, GotTwice(i)',
             ~GotTwice(i), ~(GotRow(i) /\ Within(p, i))
      PROVE  \E j, k \in 1 .. Len(p) : j < k /\ p[j] = i /\ p[k] = i
  <2>1. PICK j \in 1 .. n + l, k \in 1 .. n + l :
          j < k /\ seen'[j] = i /\ seen'[k] = i
    BY <1>1, <1>2, <1>9, Zenon DEF GotTwice
  <2>2. CASE k \in 1 .. n
    BY <1>2, <1>3, <1>6, <1>9, <2>1, <2>2, Zenon DEF GotTwice
  <2>3. CASE k - n \in 1 .. l /\ k = n + (k - n)
    <3>1. p[k - n] = i
      BY <1>4, <2>1, <2>3, Zenon
    <3>2. j \notin 1 .. n
      BY <1>2, <1>3, <1>9, <2>1, <2>3, <3>1, Zenon DEF GotRow, Within
    <3>3. j - n \in 1 .. l /\ p[j - n] = i
      BY <1>4, <1>5, <2>1, <3>2, Zenon
    <3> QED
      BY <1>2, <1>7, <2>1, <2>3, <3>1, <3>3, Zenon
  <2> QED
    BY <1>5, <2>2, <2>3, Zenon
<1> QED
  BY <1>1, <1>8, <1>9, Zenon

(* In a list by time, a row whose time no other row has is preceded by the   *)
(* newer rows and by no others.                                              *)
LEMMA RankIsPlace ==
  ASSUME TableTypes, NEW q, NEW s, Lists(Matching(q), s),
         \A j, k \in 1 .. Len(s) : j < k => at[s[j]] >= at[s[k]],
         NEW k \in 1 .. Len(s), ~HasTwin(s[k])
  PROVE  Rank(q, s[k]) = k - 1
<1> DEFINE N == Newer(q, s[k])
           f == [m \in 1 .. k - 1 |-> s[m]]
<1>1. s \in Seq(RowIds) /\ Len(s) \in Nat /\ k \in Nat /\ k - 1 \in Nat
  BY DEF Lists
<1>2. \A m \in 1 .. Len(s) : /\ s[m] \in RowIds /\ s[m] \in Matching(q) /\ s[m] \in Stored
                             /\ at[s[m]] \in Int
  <2> SUFFICES ASSUME NEW m \in 1 .. Len(s)
               PROVE  s[m] \in RowIds /\ s[m] \in Matching(q) /\ s[m] \in Stored
                        /\ at[s[m]] \in Int
    BY Zenon
  <2>1. s[m] \in RowIds
    BY <1>1
  <2>2. s[m] \in Matching(q)
    BY <2>1, Zenon DEF Lists, Within
  <2> QED
    BY <2>1, <2>2, Numbers, Zenon DEF Matching
<1>3. \A m \in 1 .. k - 1 : m \in 1 .. Len(s) /\ m < k
  BY <1>1
<1>4. ASSUME NEW m \in 1 .. k - 1 PROVE s[m] \in N
  <2>1. at[s[m]] >= at[s[k]] /\ s[m] # s[k]
    BY <1>3, Zenon DEF Lists
  <2>2. at[s[m]] # at[s[k]]
    BY <1>2, <1>3, <2>1, Zenon DEF HasTwin
  <2>3. at[s[m]] \in Int /\ at[s[k]] \in Int
    BY <1>2, <1>3, Zenon
  <2>4. at[s[m]] > at[s[k]]
    BY <2>1, <2>2, <2>3
  <2> QED
    BY <1>2, <1>3, <2>4, Zenon DEF Newer
<1>5. ASSUME NEW x \in N PROVE \E m \in 1 .. k - 1 : s[m] = x
  <2>1. x \in Matching(q) /\ at[x] > at[s[k]] /\ x \in RowIds
    BY Zenon DEF Newer, Matching, Stored
  <2>2. PICK m \in 1 .. Len(s) : s[m] = x
    BY <2>1, Zenon DEF Lists, Within
  <2>3. at[s[m]] \in Int /\ at[s[k]] \in Int
    BY <1>2, Zenon
  <2>4. k < m => at[s[k]] >= at[s[m]]
    BY Zenon
  <2>5. m # k
    BY <2>1, <2>2, <2>3
  <2>6. m \in 1 .. k - 1
    BY <1>1, <2>1, <2>2, <2>3, <2>4, <2>5
  <2> QED
    BY <2>2, <2>6, Zenon
<1> HIDE DEF N
<1>6. f \in [1 .. k - 1 -> N]
  BY <1>4, Zenon
<1>7. ASSUME NEW a \in 1 .. k - 1, NEW b \in 1 .. k - 1, f[a] = f[b] PROVE a = b
  <2>1. a \in Nat /\ b \in Nat
    BY <1>1
  <2>2. ~(a < b) /\ ~(b < a)
    BY <1>3, <1>7, Zenon DEF Lists
  <2> QED
    BY <2>1, <2>2
<1>8. f \in Bijection(1 .. k - 1, N)
  <2>1. f \in Injection(1 .. k - 1, N)
    BY <1>6, <1>7, Zenon DEF Injection, IsInjective
  <2>2. f \in Surjection(1 .. k - 1, N)
    BY <1>5, <1>6, Zenon DEF Surjection
  <2> QED
    BY <2>1, <2>2, Zenon DEF Bijection
<1>9. Cardinality(N) = k - 1
  BY <1>1, <1>8, FS_CountingElements, Zenon DEF ExistsBijection
<1> QED
  BY <1>9, Zenon DEF N, Rank

-----------------------------------------------------------------------------
(* The list: steps of the client. *)

(* A read changes nothing in the table.                                      *)
LEMMA SameTable ==
  ASSUME TableTypes, UNCHANGED <<at, read>>
  PROVE  /\ TableTypes' /\ Stored' = Stored
         /\ \A q : Matching(q)' = Matching(q)
         /\ \A q, i : Rank(q, i)' = Rank(q, i)
         /\ \A c, i : After(c, i)' <=> After(c, i)
         /\ \A i : HasTwin(i)' <=> HasTwin(i)
<1>1. Stored' = Stored
  BY Zenon DEF Stored
<1>2. \A q : Matching(q)' = Matching(q)
  BY <1>1, Zenon DEF Matching
<1>3. ASSUME NEW q, NEW i PROVE Rank(q, i)' = Rank(q, i)
  <2>1. Matching(q)' = Matching(q)
    BY <1>2, Zenon
  <2>2. Newer(q, i)' = Newer(q, i)
    BY <2>1, Zenon DEF Newer
  <2> QED
    BY <2>2, Zenon DEF Rank
<1> QED
  BY <1>1, <1>2, <1>3, Zenon DEF TableTypes, After, HasTwin

(* What the types say of the client after a page.                            *)
LEMMA GotTypes ==
  ASSUME TableTypes, UNCHANGED <<at, read>>,
         seen \in Seq(RowIds), \A i \in RowIds : GotRow(i) => i \in Stored,
         NEW q \in Query, NEW p \in Seq(RowIds),
         \A i \in RowIds : Within(p, i) => i \in Stored,
         Got(q, p), due' \subseteq Matching(q)
  PROVE  ReaderTypes'
<1>1. /\ reader' = [state |-> IF Len(p) < q.limit THEN "done" ELSE "reading",
                    query |-> q, page |-> p]
      /\ seen' = seen \o p
  BY Zenon DEF Got
<1>2. /\ reader'.state = IF Len(p) < q.limit THEN "done" ELSE "reading"
      /\ reader'.query = q /\ reader'.page = p
  BY <1>1
<1>3. reader' \in Reader
  BY <1>1 DEF Reader
<1>4. reader'.state # NoReader.state
  BY <1>2 DEF NoReader
<1>5. Stored' = Stored /\ Matching(q)' = Matching(q) /\ Matching(q) \subseteq Stored
  BY SameTable, Zenon DEF Matching
<1>6. /\ seen' \in Seq(RowIds) /\ Len(seen') = Len(seen) + Len(p)
      /\ Len(seen) \in Nat /\ Len(p) \in Nat
      /\ \A m \in 1 .. Len(p) : seen'[Len(seen) + m] = p[m]
      /\ \A i \in RowIds : GotRow(i)' <=> GotRow(i) \/ Within(p, i)
  BY <1>1, GotMore, Zenon
<1>7. reader'.state = "reading" => Len(p) >= q.limit /\ Len(p) > 0
  BY <1>2, <1>6, LimitsArePositive
<1>8. ASSUME reader'.state = "reading"
      PROVE  /\ Len(seen') >= q.limit /\ Len(p) > 0
             /\ Len(seen') > 0 /\ p[Len(p)] = seen'[Len(seen')]
  <2>1. Len(p) \in 1 .. Len(p)
    BY <1>6, <1>7, <1>8
  <2>2. Len(seen') >= q.limit /\ Len(p) > 0 /\ Len(seen') > 0
    BY <1>6, <1>7, <1>8, LimitsArePositive
  <2> QED
    BY <1>6, <2>1, <2>2, Zenon
<1>9. (due \subseteq Matching(reader.query))'
  BY <1>2, <1>5, Zenon DEF Matching
<1> QED
  BY <1>2, <1>3, <1>4, <1>5, <1>6, <1>8, <1>9, Zenon DEF ReaderTypes, AtRow

(* A page by offset: it has the rows whose rank is next, if none came or     *)
(* went.                                                                     *)
LEMMA OffsetPage ==
  ASSUME TableTypes, UNCHANGED <<at, read, came, went>>,
         seen \in Seq(RowIds), NEW q \in Query, NEW p \in ListInbox(q, Len(seen)),
         Got(q, p), due' \subseteq Matching(q),
         ~went => \A i \in due' : \/ GotRow(i) \/ HasTwin(i) \/ Rank(q, i) >= Len(seen),
         ~came => \A i \in RowIds :
                    /\ GotRow(i) => HasTwin(i) \/ Rank(q, i) < Len(seen)
                    /\ GotTwice(i) => HasTwin(i)
  PROVE  OffsetInv(q)'
<1>1. PICK n \in Nat : n = Len(seen)
  OBVIOUS
<1>2. PICK s : /\ Lists(Matching(q), s) /\ IsPage(s, n, q.limit, p)
               /\ \A j, k \in 1 .. Len(s) : j < k => at[s[j]] >= at[s[k]]
  BY <1>1, InboxIsPage, Zenon
<1>3. PICK l \in Nat : l = q.limit /\ l > 0
  BY LimitsArePositive, Zenon
<1>4. p \in Seq(RowIds) /\ s \in Seq(RowIds)
  BY <1>2, Zenon DEF IsPage, Lists
<1>5. PICK r \in Nat : r = Len(p) /\ r <= l
  BY <1>2, <1>3, <1>4 DEF IsPage
<1>6. /\ Len(seen') = n + r
      /\ \A i \in RowIds : GotRow(i)' <=> GotRow(i) \/ Within(p, i)
      /\ \A i \in RowIds : GotTwice(i)' =>
           \/ GotTwice(i) \/ (GotRow(i) /\ Within(p, i))
           \/ \E j, k \in 1 .. Len(p) : j < k /\ p[j] = i /\ p[k] = i
  BY <1>1, <1>4, <1>5, GotMore, Zenon DEF Got
<1>7. /\ \A m \in 1 .. r : n + m \in 1 .. Len(s) /\ p[m] = s[n + m]
      /\ r < l => \A k \in 1 .. Len(s) : k <= n + r
  BY <1>2, <1>3, <1>5, Zenon DEF IsPage
<1>8. r = l => reader'.state = "reading"
  BY <1>3, <1>5 DEF Got
<1>9. /\ \A i \in RowIds : HasTwin(i)' <=> HasTwin(i)
      /\ \A i \in RowIds : Rank(q, i)' = Rank(q, i)
      /\ Matching(q) \subseteq RowIds
  BY SameTable, Zenon DEF Matching, Stored
<1>10. \A k \in 1 .. Len(s) : k \in Nat /\ (HasTwin(s[k]) \/ Rank(q, s[k]) = k - 1)
  <2>1. \A k \in 1 .. Len(s) : k \in Nat
    BY <1>4
  <2> QED
    BY <1>2, <2>1, RankIsPlace, Zenon
\* A row that is due is on this page or further on.
<1>11. ASSUME ~went, NEW i \in due', ~GotRow(i)', ~HasTwin(i)
       PROVE  reader'.state = "reading" /\ Rank(q, i) >= n + r
  <2>1. i \in Matching(q) /\ i \in RowIds
    BY <1>9, Zenon
  <2>2. PICK k \in 1 .. Len(s) : s[k] = i
    BY <1>2, <2>1, Zenon DEF Lists, Within
  <2>3. Rank(q, i) = k - 1 /\ k \in Nat
    BY <1>10, <1>11, <2>2, Zenon
  <2>4. Rank(q, i) >= n
    BY <1>1, <1>6, <1>11, <2>1, Zenon
  <2>5. k > n + r
    <3>1. SUFFICES ASSUME k <= n + r PROVE FALSE
      BY <2>3
    <3>2. k - n \in 1 .. r /\ n + (k - n) = k
      BY <2>3, <2>4, <3>1
    <3>3. p[k - n] = i
      BY <1>7, <2>2, <3>2, Zenon
    <3>4. Within(p, i)
      BY <1>5, <3>2, <3>3, Zenon DEF Within
    <3> QED
      BY <1>6, <1>11, <2>1, <3>4, Zenon
  <2>6. r = l
    BY <1>3, <1>5, <1>7, <2>3, <2>5
  <2>7. Rank(q, i) >= n + r
    BY <2>3, <2>5
  <2> QED
    BY <1>8, <2>6, <2>7, Zenon
\* A row of this page has as many newer rows as its place says.
<1>12. ASSUME NEW i \in RowIds, Within(p, i), ~HasTwin(i)
       PROVE  Rank(q, i) >= n /\ Rank(q, i) < n + r
  <2>1. PICK m \in 1 .. r : p[m] = i
    BY <1>5, <1>12, Zenon DEF Within
  <2>2. Rank(q, i) = (n + m) - 1
    BY <1>7, <1>10, <1>12, <2>1, Zenon
  <2> QED
    BY <2>2
<1>13. ASSUME ~came, NEW i \in RowIds, GotRow(i)', ~HasTwin(i)
       PROVE  Rank(q, i) < n + r
  <2>1. CASE GotRow(i)
    <3>1. Rank(q, i) < n
      BY <1>1, <1>13, <2>1, Zenon
    <3>2. Rank(q, i) \in Int
      <4>1. IsFiniteSet(Newer(q, i))
        BY FS_Subset, Zenon DEF TableTypes, Newer, Matching
      <4>2. Rank(q, i) \in Nat
        BY <4>1, FS_CardinalityType, Zenon DEF Rank
      <4> QED
        BY <4>2
    <3> QED
      BY <3>1, <3>2
  <2> QED
    BY <1>6, <1>12, <1>13, <2>1, Zenon
<1>14. ASSUME ~came, NEW i \in RowIds, GotTwice(i)' PROVE HasTwin(i)
  <2>1. SUFFICES ASSUME ~HasTwin(i) PROVE FALSE
    BY Zenon
  <2>2. CASE GotRow(i) /\ Within(p, i)
    <3>1. Rank(q, i) < n /\ Rank(q, i) >= n
      BY <1>1, <1>12, <1>14, <2>1, <2>2, Zenon
    <3>2. PICK m \in 1 .. r : p[m] = i
      BY <1>5, <2>2, Zenon DEF Within
    <3>3. Rank(q, i) = (n + m) - 1
      BY <1>7, <1>10, <2>1, <3>2, Zenon
    <3> QED
      BY <3>1, <3>3
  <2>3. CASE \E j, k \in 1 .. Len(p) : j < k /\ p[j] = i /\ p[k] = i
    <3>1. PICK j \in 1 .. r, k \in 1 .. r : j < k /\ p[j] = i /\ p[k] = i
      BY <1>5, <2>3, Zenon
    <3>2. n + j < n + k
      BY <3>1
    <3> QED
      BY <1>2, <1>7, <3>1, <3>2, Zenon DEF Lists
  <2> QED
    BY <1>6, <1>14, <2>1, <2>2, <2>3, Zenon
<1>15. (~went)' => ~went
  BY Zenon
<1>16. (~came)' => ~came
  BY Zenon
<1>17. \A i \in due' : i \in RowIds
  BY <1>9, Zenon
<1> QED
  BY <1>6, <1>9, <1>11, <1>13, <1>14, <1>15, <1>16, <1>17, Zenon DEF OffsetInv

(* Rows at the end of the first page stay there.                             *)
LEMMA EdgeStays ==
  ASSUME seen \in Seq(RowIds), NEW p \in Seq(RowIds), seen' = seen \o p, UNCHANGED at,
         NEW q \in Query, NEW i, OnEdge(q, i)
  PROVE  OnEdge(q, i)'
<1>1. PICK l \in Nat : l = q.limit /\ l > 0
  BY LimitsArePositive, Zenon
<1>2. /\ Len(seen') = Len(seen) + Len(p) /\ Len(seen) \in Nat /\ Len(p) \in Nat
      /\ \A k \in 1 .. Len(seen) : seen'[k] = seen[k]
  BY GotMore, Zenon
<1>3. Len(seen) >= l /\ at[i] = at[seen[l]]
  BY <1>1, Zenon DEF OnEdge
<1>4. l \in 1 .. Len(seen) /\ Len(seen') >= l
  BY <1>1, <1>2, <1>3
<1>5. at'[i] = at'[seen'[l]]
  BY <1>2, <1>3, <1>4, Zenon
<1> QED
  BY <1>1, <1>4, <1>5, Zenon DEF OnEdge

(* The first page for a cursor: it is only ordered by time, so its last row  *)
(* separates what was got from what is due up to rows of its own time.       *)
LEMMA CursorFirst ==
  ASSUME TableTypes, UNCHANGED <<at, read>>, seen = <<>>,
         NEW q \in Query, NEW p \in ListInbox(q, 0), Got(q, p), due' = Matching(q)
  PROVE  CursorInv(q)'
<1>1. PICK s : /\ Lists(Matching(q), s) /\ IsPage(s, 0, q.limit, p)
               /\ \A j, k \in 1 .. Len(s) : j < k => at[s[j]] >= at[s[k]]
  BY InboxIsPage
<1>2. PICK l \in Nat : l = q.limit /\ l > 0
  BY LimitsArePositive, Zenon
<1>3. p \in Seq(RowIds) /\ s \in Seq(RowIds)
  BY <1>1, Zenon DEF IsPage, Lists
<1>4. PICK r \in Nat : r = Len(p) /\ r <= l
  BY <1>1, <1>2, <1>3 DEF IsPage
<1>5. seen' = p
  <2>1. seen' = <<>> \o p
    BY Zenon DEF Got
  <2> QED
    BY <1>3, <2>1
<1>6. /\ \A m \in 1 .. r : m \in 1 .. Len(s) /\ p[m] = s[m]
      /\ r < l => \A k \in 1 .. Len(s) : k <= r
  <2>1. /\ \A m \in 1 .. r : 0 + m \in 1 .. Len(s) /\ p[m] = s[0 + m]
        /\ r < l => \A k \in 1 .. Len(s) : k <= 0 + r
    BY <1>1, <1>2, <1>4, Zenon DEF IsPage
  <2>2. 0 + r = r /\ \A m \in 1 .. r : 0 + m = m
    OBVIOUS
  <2> QED
    BY <2>1, <2>2, Zenon
<1>7. reader'.state = "reading" <=> r = l
  BY <1>2, <1>4 DEF Got
<1>8. r = l => l \in 1 .. r /\ l \in 1 .. Len(s) /\ p[l] = s[l] /\ p[l] \in RowIds
  <2>1. r = l => l \in 1 .. r
    BY <1>2
  <2> QED
    BY <1>3, <1>4, <1>6, <2>1
<1>9. \A k \in 1 .. Len(s) : s[k] \in RowIds /\ at[s[k]] \in Int /\ k \in Nat
  <2>1. \A k \in 1 .. Len(s) : s[k] \in RowIds /\ k \in Nat
    BY <1>3
  <2> QED
    BY <2>1, Numbers, Zenon
\* A row of the list that comes after the page.
<1>10. ASSUME NEW i \in Matching(q), ~GotRow(i)', ~OnEdge(q, i)'
       PROVE  \E c \in RowIds : AtRow(c)' /\ After(c, i)'
  <2>1. i \in RowIds
    BY Zenon DEF Matching, Stored
  <2>2. PICK k \in 1 .. Len(s) : s[k] = i
    BY <1>1, <2>1, Zenon DEF Lists, Within
  <2>3. k \notin 1 .. r
    BY <1>4, <1>5, <1>6, <1>10, <2>2, Zenon DEF GotRow, Within
  <2>4. k > r
    BY <1>9, <2>3
  <2>5. r = l
    BY <1>2, <1>4, <1>6, <1>9, <2>4
  <2>6. at[s[l]] >= at[s[k]]
    BY <1>1, <1>8, <2>4, <2>5, Zenon
  <2>7. l >= l
    BY <1>2
  <2>8. at[s[k]] # at[s[l]]
    BY <1>2, <1>4, <1>5, <1>8, <1>10, <2>2, <2>5, <2>7, Zenon DEF OnEdge
  <2>9. at[s[k]] < at[s[l]]
    BY <1>8, <1>9, <2>5, <2>6, <2>8
  <2>10. After(p[l], i)'
    BY <1>8, <2>2, <2>5, <2>9, Zenon DEF After
  <2>11. AtRow(p[l])'
    BY <1>2, <1>4, <1>5, <1>7, <2>5, Zenon DEF AtRow
  <2> QED
    BY <1>8, <2>5, <2>10, <2>11, Zenon
<1>11. ASSUME NEW c \in RowIds, NEW i \in RowIds, AtRow(c)', GotRow(i)'
       PROVE  i = c \/ OnEdge(q, i)' \/ After(i, c)'
  <2>1. r = l /\ c = p[l]
    BY <1>4, <1>5, <1>7, <1>11, Zenon DEF AtRow
  <2>2. PICK m \in 1 .. r : p[m] = i
    BY <1>4, <1>5, <1>11, Zenon DEF GotRow, Within
  <2>3. CASE m = l
    BY <2>1, <2>2, <2>3, Zenon
  <2>4. CASE m # l
    <3>1. m < l
      BY <2>1, <2>4
    <3>2. at[s[m]] >= at[s[l]] /\ m \in 1 .. Len(s) /\ p[m] = s[m]
      BY <1>1, <1>6, <1>8, <2>1, <3>1, Zenon
    <3>3. at[i] = at[c] \/ at[i] > at[c]
      BY <1>8, <1>9, <2>1, <2>2, <3>2
    <3>4. CASE at[i] = at[c]
      <4>1. Len(seen') >= q.limit
        BY <1>2, <1>4, <1>5, <2>1
      <4> QED
        BY <1>2, <1>5, <2>1, <3>4, <4>1, Zenon DEF OnEdge
    <3>5. CASE at[i] > at[c]
      <4>1. at[c] < at[i]
        BY <1>8, <1>9, <2>1, <2>2, <3>2, <3>5
      <4> QED
        BY <4>1, Zenon DEF After
    <3> QED
      BY <3>3, <3>4, <3>5, Zenon
  <2> QED
    BY <2>3, <2>4, Zenon
<1>12. ASSUME NEW i \in RowIds, GotTwice(i)' PROVE FALSE
  <2>1. PICK j \in 1 .. r, k \in 1 .. r : j < k /\ p[j] = i /\ p[k] = i
    BY <1>4, <1>5, <1>12, Zenon DEF GotTwice
  <2> QED
    BY <1>1, <1>6, <2>1, Zenon DEF Lists
<1> QED
  BY <1>10, <1>11, <1>12, Zenon DEF CursorInv

(* The pages after a cursor: what was due after the old cursor was got or    *)
(* comes after the new one, and nothing before the old cursor comes again.   *)
LEMMA CursorNext ==
  ASSUME TableTypes, UNCHANGED <<at, read, due>>, seen \in Seq(RowIds),
         NEW q \in Query, CursorInv(q), due \subseteq Matching(q),
         NEW d \in RowIds, AtRow(d), NEW p \in ListInboxAfterCursor(q, d), Got(q, p)
  PROVE  CursorInv(q)'
<1>1. PICK s : /\ Lists({i \in Matching(q) : After(d, i)}, s) /\ IsPage(s, 0, q.limit, p)
               /\ \A j, k \in 1 .. Len(s) : j < k => After(s[j], s[k])
  BY CursorIsPage, Zenon
<1>2. PICK l \in Nat : l = q.limit /\ l > 0
  BY LimitsArePositive, Zenon
<1>3. p \in Seq(RowIds) /\ s \in Seq(RowIds) /\ seen' = seen \o p
  BY <1>1, Zenon DEF IsPage, Lists, Got
<1>4. PICK r \in Nat : r = Len(p) /\ r <= l
  BY <1>1, <1>2, <1>3 DEF IsPage
<1>5. /\ Len(seen') = Len(seen) + r /\ Len(seen) \in Nat
      /\ \A m \in 1 .. r : seen'[Len(seen) + m] = p[m]
      /\ \A i \in RowIds : GotRow(i)' <=> GotRow(i) \/ Within(p, i)
      /\ \A i \in RowIds : GotTwice(i)' =>
           \/ GotTwice(i) \/ (GotRow(i) /\ Within(p, i))
           \/ \E j, k \in 1 .. Len(p) : j < k /\ p[j] = i /\ p[k] = i
  BY <1>3, <1>4, GotMore, Zenon
<1>6. /\ \A m \in 1 .. r : m \in 1 .. Len(s) /\ p[m] = s[m]
      /\ r < l => \A k \in 1 .. Len(s) : k <= r
  <2>1. /\ \A m \in 1 .. r : 0 + m \in 1 .. Len(s) /\ p[m] = s[0 + m]
        /\ r < l => \A k \in 1 .. Len(s) : k <= 0 + r
    BY <1>1, <1>2, <1>4, Zenon DEF IsPage
  <2>2. 0 + r = r /\ \A m \in 1 .. r : 0 + m = m
    OBVIOUS
  <2> QED
    BY <2>1, <2>2, Zenon
<1>7. reader'.state = "reading" <=> r = l
  BY <1>2, <1>4 DEF Got
<1>8. r = l => /\ l \in 1 .. r /\ p[l] \in RowIds
               /\ Len(seen') > 0 /\ seen'[Len(seen')] = p[l]
  <2>1. r = l => l \in 1 .. r /\ Len(seen) + r > 0
    BY <1>2, <1>5
  <2>2. l \in 1 .. r => p[l] \in RowIds
    BY <1>3, <1>4
  <2> QED
    BY <1>5, <2>1, <2>2, Zenon
<1>9. \A k \in 1 .. Len(s) : s[k] \in RowIds /\ k \in Nat /\ After(d, s[k])
  <2>1. \A k \in 1 .. Len(s) : s[k] \in RowIds /\ k \in Nat
    BY <1>3
  <2> QED
    BY <1>1, <2>1, Zenon DEF Lists, Within
<1>10. /\ \A c, i \in RowIds : After(c, i)' <=> After(c, i)
       /\ \A i \in RowIds : OnEdge(q, i) => OnEdge(q, i)'
       /\ Matching(q) \subseteq RowIds
  BY <1>3, SameTable, EdgeStays, Zenon DEF Matching, Stored
<1>11. ASSUME NEW i \in due, ~GotRow(i)', ~OnEdge(q, i)'
       PROVE  \E c \in RowIds : AtRow(c)' /\ After(c, i)'
  <2>1. i \in RowIds /\ i \in Matching(q)
    BY <1>10, Zenon
  <2>2. After(d, i)
    <3>1. ~GotRow(i) /\ ~OnEdge(q, i)
      BY <1>5, <1>10, <1>11, <2>1, Zenon
    <3>2. PICK c \in RowIds : AtRow(c) /\ After(c, i)
      BY <3>1, Zenon DEF CursorInv
    <3>3. c = d
      BY <3>2, Zenon DEF AtRow
    <3> QED
      BY <3>2, <3>3, Zenon
  <2>3. PICK k \in 1 .. Len(s) : s[k] = i
    BY <1>1, <2>1, <2>2, Zenon DEF Lists, Within
  <2>4. k \notin 1 .. r
    BY <1>4, <1>5, <1>6, <1>11, <2>1, <2>3, Zenon DEF Within
  <2>5. k > r
    BY <1>9, <2>4
  <2>6. r = l
    BY <1>2, <1>4, <1>6, <1>9, <2>5
  <2>7. After(p[l], i)
    BY <1>1, <1>6, <1>8, <2>3, <2>5, <2>6, Zenon
  <2>8. AtRow(p[l])'
    BY <1>7, <1>8, <2>6, Zenon DEF AtRow
  <2> QED
    BY <1>8, <1>10, <2>1, <2>6, <2>7, <2>8, Zenon
<1>12. ASSUME NEW c \in RowIds, NEW i \in RowIds, AtRow(c)', GotRow(i)'
       PROVE  i = c \/ OnEdge(q, i)' \/ After(i, c)'
  <2>1. r = l /\ c = p[l] /\ l \in 1 .. r
    BY <1>7, <1>8, <1>12, Zenon DEF AtRow
  <2>2. After(d, c)
    BY <1>6, <1>9, <2>1, Zenon
  <2>3. CASE GotRow(i)
    <3>1. i = d \/ OnEdge(q, i) \/ After(i, d)
      BY <2>3, Zenon DEF CursorInv
    <3>2. After(i, d) => After(i, c)
      BY <2>2, AfterIsOrder, Zenon
    <3> QED
      BY <1>10, <2>2, <3>1, <3>2, Zenon
  <2>4. CASE Within(p, i)
    <3>1. PICK m \in 1 .. r : p[m] = i
      BY <1>4, <2>4, Zenon DEF Within
    <3>2. m = l \/ m < l
      BY <2>1
    <3>3. m < l => After(i, c)
      BY <1>1, <1>6, <2>1, <3>1, Zenon
    <3> QED
      BY <1>10, <2>1, <3>1, <3>2, <3>3, Zenon
  <2> QED
    BY <1>5, <1>12, <2>3, <2>4, Zenon
<1>13. ASSUME NEW i \in RowIds, GotTwice(i)' PROVE OnEdge(q, i)'
  <2>1. CASE GotTwice(i)
    BY <1>10, <2>1, Zenon DEF CursorInv
  <2>2. CASE GotRow(i) /\ Within(p, i)
    <3>1. i = d \/ OnEdge(q, i) \/ After(i, d)
      BY <2>2, Zenon DEF CursorInv
    <3>2. After(d, i)
      BY <1>4, <1>6, <1>9, <2>2, Zenon DEF Within
    <3>3. ~After(d, d) /\ ~(After(d, i) /\ After(i, d))
      BY AfterIsOrder, Zenon
    <3> QED
      BY <1>10, <3>1, <3>2, <3>3, Zenon
  <2>3. CASE \E j, k \in 1 .. Len(p) : j < k /\ p[j] = i /\ p[k] = i
    BY <1>1, <1>4, <1>6, <2>3, Zenon DEF Lists
  <2> QED
    BY <1>5, <1>13, <2>1, <2>2, <2>3, Zenon
<1> QED
  BY <1>11, <1>12, <1>13, Zenon DEF CursorInv

-----------------------------------------------------------------------------
(* The list: steps of the writers. *)

(* The number of newer rows is a number, and it grows with the rows.         *)
LEMMA RankIsMonotone ==
  ASSUME NEW T, IsFiniteSet(T), NEW S \in SUBSET T
  PROVE  Cardinality(S) \in Nat /\ Cardinality(T) \in Nat /\ Cardinality(S) <= Cardinality(T)
<1>1. IsFiniteSet(S) /\ Cardinality(S) <= Cardinality(T)
  BY FS_Subset, Zenon
<1> QED
  BY <1>1, FS_CardinalityType, Zenon

(* The rows on which a client's list rests are stored.                       *)
LEMMA EdgeIsStored ==
  ASSUME ReaderTypes
  PROVE  /\ \A c \in RowIds : AtRow(c) => c \in Stored
         /\ \A q \in Query : Len(seen) >= q.limit => seen[q.limit] \in Stored
<1>1. /\ seen \in Seq(RowIds) /\ Len(seen) \in Nat
      /\ \A i \in RowIds : GotRow(i) => i \in Stored
  <2>1. seen \in Seq(RowIds) /\ \A i \in RowIds : GotRow(i) => i \in Stored
    BY Zenon DEF ReaderTypes
  <2> QED
    BY <2>1
<1>2. ASSUME NEW k \in 1 .. Len(seen) PROVE seen[k] \in Stored
  <2>1. seen[k] \in RowIds
    BY <1>1
  <2> QED
    BY <1>1, <2>1, Zenon DEF GotRow, Within
<1>3. ASSUME NEW c \in RowIds, AtRow(c) PROVE c \in Stored
  <2>1. Len(seen) > 0 /\ c = seen[Len(seen)]
    BY <1>3, Zenon DEF AtRow
  <2>2. Len(seen) \in 1 .. Len(seen)
    BY <1>1, <2>1
  <2> QED
    BY <1>2, <2>1, <2>2, Zenon
<1>4. ASSUME NEW q \in Query, Len(seen) >= q.limit PROVE seen[q.limit] \in Stored
  <2>1. q.limit \in Nat /\ q.limit > 0
    BY LimitsArePositive, Zenon
  <2>2. q.limit \in 1 .. Len(seen)
    BY <1>1, <1>4, <2>1
  <2> QED
    BY <1>2, <2>2, Zenon
<1> QED
  BY <1>3, <1>4, Zenon

(* A new row has no effect on what was got by cursor, and moves by offset    *)
(* only what is due.                                                         *)
LEMMA InsertNext ==
  ASSUME PagesInv, NEW x \in RowIds, NEW t \in Stamps, InsertMessage(x, t)
  PROVE  PagesInv'
<1>1. /\ at[x] = NoRow /\ at' = [at EXCEPT ![x] = t] /\ came' = (reader # NoReader)
      /\ UNCHANGED <<read, reader, seen, due, went>>
  BY Zenon DEF InsertMessage
<1>2. TableTypes /\ ReaderTypes
  BY Zenon DEF PagesInv
<1>3. at \in [RowIds -> Stamps \cup {NoRow}] /\ IsFiniteSet(Stored) /\ read \subseteq Stored
  BY <1>2, Zenon DEF TableTypes
<1>4. t # NoRow
  BY InboxPagesAssumption DEF NoRow
<1>5. /\ at' \in [RowIds -> Stamps \cup {NoRow}]
      /\ \A i \in Stored : i # x /\ i \in RowIds /\ at'[i] = at[i]
  BY <1>1, <1>3, Zenon DEF Stored
<1>6. Stored' = Stored \cup {x}
  BY <1>1, <1>3, <1>4, Zenon DEF Stored
<1>7. TableTypes'
  BY <1>1, <1>3, <1>5, <1>6, FS_AddElement, Zenon DEF TableTypes
<1>8. \A q : Matching(q) \subseteq Matching(q)'
  BY <1>1, <1>6, Zenon DEF Matching
<1>9. /\ \A i : (GotRow(i)' <=> GotRow(i)) /\ (GotTwice(i)' <=> GotTwice(i))
      /\ \A c : AtRow(c)' <=> AtRow(c)
  BY <1>1, Zenon DEF GotRow, GotTwice, Within, AtRow
<1>10. ReaderTypes'
  BY <1>1, <1>2, <1>6, <1>8, <1>9, Zenon DEF ReaderTypes, AtRow, Matching
<1>11. ASSUME NEW q \in Query, Reads(q, "cursor")' PROVE CursorInv(q)'
  <2>1. CursorInv(q)
    BY <1>1, <1>11, Zenon DEF PagesInv, Reads
  <2>2. /\ \A c \in RowIds : AtRow(c) => c \in Stored
        /\ Len(seen) >= q.limit => seen[q.limit] \in Stored
    BY <1>2, EdgeIsStored, Zenon
  <2>3. ASSUME NEW i \in Stored, OnEdge(q, i) PROVE OnEdge(q, i)'
    BY <1>1, <1>5, <2>2, <2>3, Zenon DEF OnEdge
  <2>4. ASSUME NEW c \in Stored, NEW i \in Stored, After(c, i) PROVE After(c, i)'
    BY <1>5, <2>4, Zenon DEF After
  <2>5. due \subseteq Stored /\ \A i \in RowIds : GotRow(i) => i \in Stored
    BY <1>2, Zenon DEF ReaderTypes
  <2>6. ASSUME NEW i \in RowIds, GotTwice(i) PROVE i \in Stored
    BY <2>5, <2>6, Zenon DEF GotTwice, GotRow, Within
  <2>7. ASSUME NEW i \in due', ~GotRow(i)', ~OnEdge(q, i)'
        PROVE  \E c \in RowIds : AtRow(c)' /\ After(c, i)'
    <3>1. i \in due /\ i \in Stored /\ ~GotRow(i) /\ ~OnEdge(q, i)
      BY <1>1, <1>9, <2>3, <2>5, <2>7, Zenon
    <3>2. PICK c \in RowIds : AtRow(c) /\ After(c, i)
      BY <2>1, <3>1, Zenon DEF CursorInv
    <3> QED
      BY <1>9, <2>2, <2>4, <3>1, <3>2, Zenon
  <2>8. ASSUME NEW c \in RowIds, NEW i \in RowIds, AtRow(c)', GotRow(i)'
        PROVE  i = c \/ OnEdge(q, i)' \/ After(i, c)'
    <3>1. AtRow(c) /\ GotRow(i) /\ c \in Stored /\ i \in Stored
      BY <1>9, <2>2, <2>5, <2>8, Zenon
    <3>2. i = c \/ OnEdge(q, i) \/ After(i, c)
      BY <2>1, <3>1, Zenon DEF CursorInv
    <3> QED
      BY <2>3, <2>4, <3>1, <3>2, Zenon
  <2>9. ASSUME NEW i \in RowIds, GotTwice(i)' PROVE OnEdge(q, i)'
    BY <1>9, <2>1, <2>3, <2>6, <2>9, Zenon DEF CursorInv
  <2> QED
    BY <2>7, <2>8, <2>9, Zenon DEF CursorInv
<1>12. ASSUME NEW q \in Query, Reads(q, "offset")' PROVE OffsetInv(q)'
  <2>1. OffsetInv(q) /\ came'
    BY <1>1, <1>12, Zenon DEF PagesInv, Reads
  <2>2. ASSUME NEW i \in due', (~went)', ~GotRow(i)', ~HasTwin(i)'
        PROVE  (reader.state = "reading" /\ Rank(q, i) >= Len(seen))'
    <3>1. i \in due /\ i \in Stored /\ ~went /\ ~GotRow(i)
      BY <1>1, <1>2, <1>9, <2>2, Zenon DEF ReaderTypes
    <3>2. HasTwin(i) => HasTwin(i)'
      BY <1>5, <1>6, <3>1, Zenon DEF HasTwin
    <3>3. reader.state = "reading" /\ Rank(q, i) >= Len(seen)
      BY <2>1, <2>2, <3>1, <3>2, Zenon DEF OffsetInv
    <3>4. Newer(q, i) \subseteq Newer(q, i)'
      <4> SUFFICES ASSUME NEW j \in Newer(q, i) PROVE j \in Newer(q, i)'
        BY Zenon
      <4>1. j \in Matching(q) /\ j \in Stored /\ at[j] > at[i]
        BY Zenon DEF Newer, Matching
      <4>2. j \in Matching(q)' /\ at'[j] > at'[i]
        BY <1>5, <1>8, <3>1, <4>1, Zenon
      <4> QED
        BY <4>2, Zenon DEF Newer
    <3>5. IsFiniteSet(Newer(q, i)')
      <4>1. Newer(q, i)' \subseteq Stored'
        BY Zenon DEF Newer, Matching
      <4> QED
        BY <1>7, <4>1, FS_Subset, Zenon DEF TableTypes
    <3>6. Rank(q, i) \in Nat /\ Rank(q, i)' \in Nat /\ Rank(q, i) <= Rank(q, i)'
      BY <3>4, <3>5, RankIsMonotone, Zenon DEF Rank
    <3>7. Len(seen) \in Nat
      <4>1. seen \in Seq(RowIds)
        BY <1>2, Zenon DEF ReaderTypes
      <4> QED
        BY <4>1
    <3>8. Rank(q, i)' >= Len(seen)
      BY <3>3, <3>6, <3>7
    <3> QED
      BY <1>1, <3>3, <3>8, Zenon
  <2> QED
    BY <2>1, <2>2, Zenon DEF OffsetInv
<1> QED
  BY <1>7, <1>10, <1>11, <1>12, Zenon DEF PagesInv

(* Marking rows read takes them from the list of unread rows, and from what  *)
(* is due.                                                                   *)
LEMMA ReadNext ==
  ASSUME PagesInv, NEW S \in SUBSET Stored, SetRead(S)
  PROVE  PagesInv'
<1>1. /\ read' = read \cup S /\ due' \subseteq due
      /\ reader # NoReader /\ reader.query.unread => due' = due \ S
      /\ went' = (went \/ (reader # NoReader /\ S \ read # {}))
      /\ UNCHANGED <<at, reader, seen, came>>
  BY Zenon DEF SetRead
<1>2. TableTypes /\ ReaderTypes
  BY Zenon DEF PagesInv
<1>3. Stored' = Stored
  BY <1>1, Zenon DEF Stored
<1>4. TableTypes'
  BY <1>1, <1>2, <1>3, Zenon DEF TableTypes
<1>5. \A q : Matching(q)' \subseteq Matching(q)
  BY <1>1, <1>3, Zenon DEF Matching
<1>6. /\ \A i : (GotRow(i)' <=> GotRow(i)) /\ (GotTwice(i)' <=> GotTwice(i))
      /\ \A c : AtRow(c)' <=> AtRow(c)
      /\ \A c, i : After(c, i)' <=> After(c, i)
      /\ \A i : HasTwin(i)' <=> HasTwin(i)
      /\ \A q, i : OnEdge(q, i)' <=> OnEdge(q, i)
  BY <1>1, <1>3, Zenon DEF GotRow, GotTwice, Within, AtRow, After, HasTwin, OnEdge
<1>7. reader # NoReader => (due \subseteq Matching(reader.query))'
  <2> SUFFICES ASSUME reader # NoReader, NEW i \in due'
               PROVE  i \in Matching(reader.query)'
    BY Zenon
  <2>1. i \in due /\ i \in Matching(reader.query)
    BY <1>1, <1>2, Zenon DEF ReaderTypes
  <2>2. reader.query.unread => i \notin S
    BY <1>1, Zenon
  <2> QED
    BY <1>1, <1>3, <2>1, <2>2, Zenon DEF Matching
<1>8. ReaderTypes'
  BY <1>1, <1>2, <1>3, <1>6, <1>7, Zenon DEF ReaderTypes, AtRow
<1>9. ASSUME NEW q \in Query, Reads(q, "cursor")' PROVE CursorInv(q)'
  <2>1. CursorInv(q)
    BY <1>1, <1>9, Zenon DEF PagesInv, Reads
  <2> QED
    BY <1>1, <1>6, <2>1, Zenon DEF CursorInv
<1>10. ASSUME NEW q \in Query, Reads(q, "offset")' PROVE OffsetInv(q)'
  <2>1. OffsetInv(q) /\ reader # NoReader
    BY <1>1, <1>10, Zenon DEF PagesInv, Reads
  <2>2. ASSUME (~went)' PROVE ~went /\ \A i : Rank(q, i)' = Rank(q, i)
    <3>1. ~went /\ UNCHANGED <<at, read>>
      BY <1>1, <2>1, <2>2, Zenon
    <3> QED
      BY <1>2, <3>1, SameTable, Zenon
  <2>3. ASSUME NEW i PROVE Rank(q, i)' \in Nat /\ Rank(q, i) \in Nat /\ Rank(q, i)' <= Rank(q, i)
    <3>1. Newer(q, i)' \subseteq Newer(q, i) /\ Newer(q, i) \subseteq Stored
      BY <1>1, <1>5, Zenon DEF Newer, Matching
    <3>2. IsFiniteSet(Newer(q, i))
      BY <1>2, <3>1, FS_Subset, Zenon DEF TableTypes
    <3> QED
      BY <3>1, <3>2, RankIsMonotone, Zenon DEF Rank
  <2>4. Len(seen) \in Nat
    <3>1. seen \in Seq(RowIds)
      BY <1>2, Zenon DEF ReaderTypes
    <3> QED
      BY <3>1
  <2>5. ASSUME NEW i, Rank(q, i) < Len(seen) PROVE Rank(q, i)' < Len(seen)
    BY <2>3, <2>4, <2>5
  <2>6. ASSUME (~went)', NEW i \in due', ~GotRow(i)', ~HasTwin(i)'
        PROVE  (reader.state = "reading" /\ Rank(q, i) >= Len(seen))'
    <3>1. reader.state = "reading" /\ Rank(q, i) >= Len(seen)
      BY <1>1, <1>6, <2>1, <2>2, <2>6, Zenon DEF OffsetInv
    <3> QED
      BY <1>1, <2>2, <2>6, <3>1, Zenon
  <2>7. ASSUME (~came)', NEW i \in RowIds
        PROVE  /\ GotRow(i)' => HasTwin(i)' \/ (Rank(q, i) < Len(seen))'
               /\ GotTwice(i)' => HasTwin(i)'
    BY <1>1, <1>6, <2>1, <2>5, <2>7, Zenon DEF OffsetInv
  <2> QED
    BY <2>6, <2>7, Zenon DEF OffsetInv
<1> QED
  BY <1>4, <1>8, <1>9, <1>10, Zenon DEF PagesInv

-----------------------------------------------------------------------------
(* The list: the invariant, and what it means for a client. *)

(* An empty inbox that nobody has read satisfies the invariant.              *)
LEMMA PagesFirst == PagesInit => PagesInv
<1> SUFFICES ASSUME PagesInit PROVE PagesInv
  BY Zenon
<1>1. /\ at = [i \in RowIds |-> NoRow] /\ read = {} /\ reader = NoReader
      /\ seen = <<>> /\ due = {}
  BY Zenon DEF PagesInit
<1>2. Stored = {}
  BY <1>1, Zenon DEF Stored
<1>3. TableTypes
  BY <1>1, <1>2, FS_EmptySet, Zenon DEF TableTypes
<1>4. <<>> \in Seq(RowIds) /\ 1 .. Len(<<>>) = {}
  OBVIOUS
<1>5. reader.state # "reading"
  BY <1>1, Zenon DEF NoReader
<1>6. ReaderTypes
  BY <1>1, <1>4, <1>5, Zenon DEF ReaderTypes, GotRow, Within
<1> QED
  BY <1>1, <1>3, <1>6, Zenon DEF PagesInv, Reads

(* The first page of List keeps it, for either way of going on.              *)
LEMMA FirstPageNext ==
  ASSUME PagesInv, NEW q \in Query, FirstPage(q)
  PROVE  PagesInv'
<1>1. /\ reader = NoReader /\ due' = Matching(q)
      /\ UNCHANGED <<at, read, came, went>>
  BY Zenon DEF FirstPage
<1>2. PICK p \in ListInbox(q, 0) : Got(q, p)
  BY Zenon DEF FirstPage
<1>3. TableTypes /\ seen = <<>> /\ seen \in Seq(RowIds)
  BY <1>1, Zenon DEF PagesInv, ReaderTypes
<1>4. Len(seen) = 0 /\ 1 .. Len(seen) = {} /\ 0 \in Nat
  BY <1>3
<1>5. \A i : ~GotRow(i) /\ ~GotTwice(i)
  BY <1>4, Zenon DEF GotRow, GotTwice, Within
<1>6. p \in Seq(RowIds) /\ \A i \in RowIds : Within(p, i) => i \in Stored
  <2>1. PICK s : Lists(Matching(q), s) /\ IsPage(s, 0, q.limit, p)
    BY <1>3, <1>4, InboxIsPage, Zenon
  <2> QED
    BY <2>1, Zenon DEF Lists, IsPage, Within, Matching
<1>7. TableTypes' /\ ReaderTypes'
  BY <1>1, <1>2, <1>3, <1>5, <1>6, GotTypes, SameTable, Zenon
<1>8. \A i : Rank(q, i) >= Len(seen)
  <2> SUFFICES ASSUME NEW i PROVE Rank(q, i) >= Len(seen)
    BY Zenon
  <2>1. Newer(q, i) \subseteq Stored
    BY Zenon DEF Newer, Matching
  <2>2. Rank(q, i) \in Nat
    BY <1>3, <2>1, RankIsMonotone, Zenon DEF TableTypes, Rank
  <2> QED
    BY <1>4, <2>2
<1>9. OffsetInv(q)'
  BY <1>1, <1>2, <1>3, <1>4, <1>5, <1>8, OffsetPage, Zenon
<1>10. CursorInv(q)'
  BY <1>1, <1>2, <1>3, CursorFirst, Zenon
<1>11. reader'.query = q
  BY <1>2 DEF Got
<1>12. ASSUME NEW r \in Query, NEW k, Reads(r, k)' PROVE r = q
  BY <1>11, <1>12, Zenon DEF Reads
<1> QED
  BY <1>7, <1>9, <1>10, <1>12, Zenon DEF PagesInv

(* So do the next pages, by after_id or by offset.                           *)
LEMMA NextPageNext ==
  ASSUME PagesInv, NextPage
  PROVE  PagesInv'
<1>1. /\ reader.state = "reading" /\ reader # NoReader
      /\ UNCHANGED <<at, read, due, came, went>>
  <2>1. reader.state = "reading" /\ UNCHANGED <<at, read, due, came, went>>
    BY Zenon DEF NextPage
  <2>2. NoReader.state = "new"
    BY DEF NoReader
  <2> QED
    BY <2>1, <2>2, Zenon
<1>2. TableTypes /\ ReaderTypes
  BY Zenon DEF PagesInv
<1>3. /\ reader \in Reader /\ seen \in Seq(RowIds) /\ due \subseteq Matching(reader.query)
      /\ \A i \in RowIds : GotRow(i) => i \in Stored
      /\ Len(reader.page) > 0 /\ AtRow(reader.page[Len(reader.page)])
  BY <1>1, <1>2, Zenon DEF ReaderTypes
<1>4. PICK q \in Query : q = reader.query
  BY <1>3, Zenon DEF Reader
<1>5. PICK d \in RowIds : d = reader.page[Len(reader.page)]
  BY <1>3 DEF Reader
<1>6. Len(seen) \in Nat
  BY <1>3
<1>7. CASE q.kind = "cursor"
  <2>1. PICK p \in ListInboxAfterCursor(q, d) : Got(q, p)
    BY <1>4, <1>5, <1>7, Zenon DEF NextPage
  <2>2. p \in Seq(RowIds) /\ \A i \in RowIds : Within(p, i) => i \in Stored
    <3>1. PICK s : /\ Lists({i \in Matching(q) : After(d, i)}, s)
                   /\ IsPage(s, 0, q.limit, p)
      BY <1>2, CursorIsPage, Zenon
    <3> QED
      BY <3>1, Zenon DEF Lists, IsPage, Within, Matching
  <2>3. TableTypes' /\ ReaderTypes'
    BY <1>1, <1>2, <1>3, <1>4, <2>1, <2>2, GotTypes, SameTable, Zenon
  <2>4. CursorInv(q)
    BY <1>1, <1>4, <1>7, Zenon DEF PagesInv, Reads
  <2>5. CursorInv(q)'
    BY <1>1, <1>2, <1>3, <1>4, <1>5, <2>1, <2>4, CursorNext, Zenon
  <2>6. reader'.query = q
    BY <2>1 DEF Got
  <2> QED
    BY <1>7, <2>3, <2>5, <2>6, Zenon DEF PagesInv, Reads
<1>8. CASE q.kind = "offset"
  <2>1. PICK p \in ListInbox(q, Len(seen)) : Got(q, p)
    BY <1>4, <1>8, Zenon DEF NextPage
  <2>2. p \in Seq(RowIds) /\ \A i \in RowIds : Within(p, i) => i \in Stored
    <3>1. PICK s : Lists(Matching(q), s) /\ IsPage(s, Len(seen), q.limit, p)
      BY <1>2, <1>6, InboxIsPage, Zenon
    <3> QED
      BY <3>1, Zenon DEF Lists, IsPage, Within, Matching
  <2>3. TableTypes' /\ ReaderTypes'
    BY <1>1, <1>2, <1>3, <1>4, <2>1, <2>2, GotTypes, SameTable, Zenon
  <2>4. OffsetInv(q)
    BY <1>1, <1>4, <1>8, Zenon DEF PagesInv, Reads
  <2>5. OffsetInv(q)'
    <3>1. ~went => \A i \in due' : \/ GotRow(i) \/ HasTwin(i) \/ Rank(q, i) >= Len(seen)
      BY <1>1, <2>4, Zenon DEF OffsetInv
    <3>2. ~came => \A i \in RowIds :
                     /\ GotRow(i) => HasTwin(i) \/ Rank(q, i) < Len(seen)
                     /\ GotTwice(i) => HasTwin(i)
      BY <2>4, Zenon DEF OffsetInv
    <3>3. due' \subseteq Matching(q)
      BY <1>1, <1>3, <1>4, Zenon
    <3> QED
      BY <1>1, <1>2, <1>3, <2>1, <3>1, <3>2, <3>3, OffsetPage, Zenon
  <2>6. reader'.query = q
    BY <2>1 DEF Got
  <2> QED
    BY <1>8, <2>3, <2>5, <2>6, Zenon DEF PagesInv, Reads
<1> QED
  BY <1>4, <1>7, <1>8, Zenon DEF Query

(* Every step of the list keeps the invariant: a page, an INSERT, MarkRead   *)
(* and MarkAllRead.                                                          *)
LEMMA PagesStep == PagesInv /\ [PagesNext]_pageVars => PagesInv'
<1> SUFFICES ASSUME PagesInv, [PagesNext]_pageVars PROVE PagesInv'
  BY Zenon
<1>1. ASSUME NEW i \in RowIds, MarkRead(i) PROVE PagesInv'
  BY <1>1, ReadNext, Zenon DEF MarkRead
<1>2. ASSUME NEW i \in RowIds, NEW t \in Stamps, InsertMessage(i, t) PROVE PagesInv'
  BY <1>2, InsertNext, Zenon
<1>3. ASSUME MarkAllRead PROVE PagesInv'
  BY <1>3, ReadNext, Zenon DEF MarkAllRead
<1>4. ASSUME NEW q \in Query, FirstPage(q) PROVE PagesInv'
  BY <1>4, FirstPageNext, Zenon
<1>5. ASSUME NextPage PROVE PagesInv'
  BY <1>5, NextPageNext, Zenon
<1>6. CASE UNCHANGED pageVars
  <2> USE <1>6 DEF pageVars
  <2>1. TableTypes /\ ReaderTypes
    BY Zenon DEF PagesInv
  <2>2. /\ TableTypes' /\ Stored' = Stored
        /\ \A q, i : Rank(q, i)' = Rank(q, i)
        /\ \A c, i : After(c, i)' <=> After(c, i)
        /\ \A i : HasTwin(i)' <=> HasTwin(i)
    BY <2>1, SameTable, Zenon
  <2>3. /\ \A i : (GotRow(i)' <=> GotRow(i)) /\ (GotTwice(i)' <=> GotTwice(i))
        /\ \A c : AtRow(c)' <=> AtRow(c)
        /\ \A q, i : OnEdge(q, i)' <=> OnEdge(q, i)
    BY Zenon DEF GotRow, GotTwice, Within, AtRow, OnEdge
  <2>4. ReaderTypes'
    BY <2>1, <2>2, <2>3, Zenon DEF ReaderTypes, AtRow, Matching
  <2>5. ASSUME NEW q \in Query
        PROVE  /\ CursorInv(q) => CursorInv(q)'
               /\ OffsetInv(q) => OffsetInv(q)'
    <3>1. CursorInv(q) => CursorInv(q)'
      BY <2>2, <2>3, Zenon DEF CursorInv
    <3>2. OffsetInv(q) => OffsetInv(q)'
      BY <2>2, <2>3, Zenon DEF OffsetInv
    <3> QED
      BY <3>1, <3>2, Zenon
  <2> QED
    BY <2>2, <2>4, <2>5, Zenon DEF PagesInv, Reads
<1> QED
  BY <1>1, <1>2, <1>3, <1>4, <1>5, <1>6, Zenon DEF PagesNext

(* What is missing or repeated at the end has one of the causes named.       *)
LEMMA PagesMean == PagesInv => MissedForCause /\ RepeatedForCause
<1> SUFFICES ASSUME PagesInv PROVE MissedForCause /\ RepeatedForCause
  BY Zenon
<1>1. ReaderTypes
  BY Zenon DEF PagesInv
<1>2. seen \in Seq(RowIds) /\ DOMAIN seen = 1 .. Len(seen)
  <2>1. seen \in Seq(RowIds)
    BY <1>1, Zenon DEF ReaderTypes
  <2> QED
    BY <2>1
<1>3. ASSUME reader # NoReader
      PROVE  \/ /\ reader.query \in Query /\ reader.query.kind = "cursor"
                /\ CursorInv(reader.query)
             \/ /\ reader.query \in Query /\ reader.query.kind = "offset"
                /\ OffsetInv(reader.query)
  <2>1. PICK q \in Query : q = reader.query
    BY <1>1, <1>3, Zenon DEF ReaderTypes, Reader
  <2>2. q.kind = "cursor" \/ q.kind = "offset"
    BY Zenon DEF Query
  <2> QED
    BY <1>3, <2>1, <2>2, Zenon DEF PagesInv, Reads
<1>4. ASSUME reader # NoReader, reader.state = "done", NEW i \in due
      PROVE  \/ \E k \in DOMAIN seen : seen[k] = i
             \/ Tied(i)
             \/ reader.query.kind = "offset" /\ went
  <2>1. reader.state # "reading"
    BY <1>4, Zenon
  <2>2. CASE reader.query.kind = "cursor" /\ CursorInv(reader.query)
    <3>1. GotRow(i) \/ OnEdge(reader.query, i)
      BY <1>4, <2>1, <2>2, Zenon DEF CursorInv, AtRow
    <3> QED
      BY <1>2, <2>2, <3>1, Zenon DEF GotRow, Within, OnEdge, Tied
  <2>3. CASE reader.query.kind = "offset" /\ OffsetInv(reader.query)
    <3>1. went \/ GotRow(i) \/ HasTwin(i)
      BY <1>4, <2>1, <2>3, Zenon DEF OffsetInv
    <3>2. reader.query.kind # "cursor"
      BY <2>3, Zenon
    <3> QED
      BY <1>2, <2>3, <3>1, <3>2, Zenon DEF GotRow, Within, HasTwin, Tied
  <2> QED
    BY <1>3, <1>4, <2>2, <2>3, Zenon
<1>5. ASSUME NEW j \in DOMAIN seen, NEW k \in DOMAIN seen, j < k, seen[j] = seen[k]
      PROVE  Tied(seen[j]) \/ (reader.query.kind = "offset" /\ came)
  <2>1. PICK i \in RowIds : i = seen[j]
    BY <1>2
  <2>2. GotTwice(i)
    BY <1>2, <1>5, <2>1, Zenon DEF GotTwice
  <2>3. reader # NoReader
    <3>1. 1 .. Len(<<>>) = {}
      OBVIOUS
    <3> QED
      BY <1>1, <1>2, <3>1, Zenon DEF ReaderTypes
  <2>4. CASE reader.query.kind = "cursor" /\ CursorInv(reader.query)
    BY <2>1, <2>2, <2>4, Zenon DEF CursorInv, OnEdge, Tied
  <2>5. CASE reader.query.kind = "offset" /\ OffsetInv(reader.query)
    <3>1. came \/ HasTwin(i)
      BY <2>2, <2>5, Zenon DEF OffsetInv
    <3>2. reader.query.kind # "cursor"
      BY <2>5, Zenon
    <3> QED
      BY <2>1, <2>5, <3>1, <3>2, Zenon DEF HasTwin, Tied
  <2> QED
    BY <1>3, <2>3, <2>4, <2>5, Zenon
<1> QED
  BY <1>4, <1>5, Zenon DEF MissedForCause, RepeatedForCause

(* The invariant of the list holds in every behaviour of the inbox: the      *)
(* stream touches nothing of it.                                             *)
LEMMA PagesAlways == InboxClientSpec => []PagesInv
<1>1. InboxClientInit => PagesInv
  BY PagesFirst, Zenon DEF InboxClientInit
<1>2. PagesInv /\ [InboxClientNext]_inboxClientVars => PagesInv'
  <2> SUFFICES ASSUME PagesInv, [InboxClientNext]_inboxClientVars PROVE PagesInv'
    BY Zenon
  <2>1. PagesNext \/ UNCHANGED pageVars
    BY Zenon DEF InboxClientNext, inboxClientVars
  <2> QED
    BY <2>1, PagesStep, Zenon
<1> QED
  BY <1>1, <1>2, PTL DEF InboxClientSpec

(* A client that has read all pages of List, by cursor or by offset, got     *)
(* every message that was in its list all the time, unless messages have the *)
(* same created_at, or it counted offsets and a message left the list: for   *)
(* every number of messages, times and pages, whatever comes in or is marked *)
(* read meanwhile.                                                           *)
THEOREM MissingHasACause == InboxClientSpec => []MissedForCause
<1>1. PagesInv => MissedForCause
  BY PagesMean, Zenon
<1> QED
  BY <1>1, PagesAlways, PTL

(* It got none twice, unless messages have the same created_at, or it        *)
(* counted offsets and a message came in.                                    *)
THEOREM RepetitionHasACause == InboxClientSpec => []RepeatedForCause
<1>1. PagesInv => RepeatedForCause
  BY PagesMean, Zenon
<1> QED
  BY <1>1, PagesAlways, PTL
=============================================================================
