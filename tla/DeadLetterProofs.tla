-------------------------- MODULE DeadLetterProofs --------------------------
(***************************************************************************)
(* Proofs about DeadLetter: for every number of dead letters, undecodable  *)
(* messages, restarts and replay requests, the consumer skips nothing      *)
(* without a recorded reason, and a row marked replayed was published.     *)
(***************************************************************************)
EXTENDS DeadLetter, TLAPS

-----------------------------------------------------------------------------
(* The inductive invariant. *)

\* The types, and that an INSERT has been made for decodable messages only.
Types == LetterTypeOK /\ (stored => held \notin Garbled)

\* What the consumer has been through with a dead letter before it goes on.
Accounted(i) == Persisted(i) \/ i \in Garbled \/ i \in refused

\* The offset says too little: after a rebalance the entry Run works on lies
\* above what the reader reads next, and its commit moves the offset there.
ConsumerInv ==
  /\ \A i \in 1 .. offset - 1 : Accounted(i)
  /\ \A i \in 1 .. held - 1 : Accounted(i)
  /\ \A i \in 1 .. reading - 1 : i = held \/ Accounted(i)
  /\ stored => Persisted(held)

Reissued(r) ==
  \E x \in reissues :
    x.record = r /\ x.index \in 1 .. Len(topic) /\ topic[x.index] = dlqTopic[records[r].entry]

\* A request that is about to mark its row has published it.
ReplayInv ==
  /\ \A r \in 1 .. Len(records) : records[r].state = "replayed" => Reissued(r)
  /\ \A a \in Admins : request[a].pc = "mark" => Reissued(request[a].record)

-----------------------------------------------------------------------------
(* Types. *)

(* What appending to a sequence yields.                                      *)
LEMMA Extended ==
  ASSUME NEW S, NEW s \in Seq(S), NEW e \in S
  PROVE  /\ Append(s, e) \in Seq(S) /\ Len(Append(s, e)) = Len(s) + 1
         /\ Len(s) \in Nat
         /\ Append(s, e)[Len(s) + 1] = e
         /\ \A i \in 1 .. Len(s) : Append(s, e)[i] = s[i]
  OBVIOUS

(* What replacing an element of a sequence yields.                           *)
LEMMA Replaced ==
  ASSUME NEW S, NEW s \in Seq(S), NEW i \in 1 .. Len(s), NEW e \in S
  PROVE  /\ [s EXCEPT ![i] = e] \in Seq(S)
         /\ Len([s EXCEPT ![i] = e]) = Len(s)
         /\ [s EXCEPT ![i] = e][i] = e
         /\ \A j \in 1 .. Len(s) : j # i => [s EXCEPT ![i] = e][j] = s[j]
  OBVIOUS

(* The consumer starts at the first letter, with an empty table.             *)
LEMMA TypesInit == LetterInit => Types
<1> SUFFICES ASSUME LetterInit PROVE Types
  BY Zenon
<1>1. StoreTypeOK
  BY StoreAssumption DEF LetterInit, StoreInit, StoreTypeOK, Statuses
<1>2. /\ offset \in 1 .. Len(dlqTopic) + 1 /\ reading \in 1 .. Len(dlqTopic) + 1
      /\ held \in 0 .. Len(dlqTopic) /\ restarts \in 0 .. MaxRestarts
  BY DeadLetterAssumption DEF LetterInit, StoreInit, DeadLetterInit, NoEntry
<1>3. stored \in BOOLEAN /\ ~stored
  BY Zenon DEF LetterInit, DeadLetterInit
<1>4. /\ records \in Seq(Record) /\ Len(records) = 0
      /\ refused = {} /\ reissues = {}
      /\ request \in [Admins -> [pc : {"ready", "publish", "mark"}, record : 0 .. 0]]
      /\ \A a \in Admins : request[a].pc = "ready" /\ request[a].record = NoRecord
  BY DEF LetterInit, DeadLetterInit, NoRecord
<1> QED
  BY <1>1, <1>2, <1>3, <1>4, DeadLetterAssumption DEF Types, LetterTypeOK, DeadLetterTypeOK

(* What the steps of the consumer leave alone.                               *)
LEMMA ConsumerTypes ==
  ASSUME Types, DLQRun \/ DLQRestart \/ DLQRebalance
  PROVE  Types'
<1> USE StoreAssumption, DeadLetterAssumption DEF NoEntry
<1>0. StoreTypeOK'
  BY Zenon DEF DLQRun, DLQFetch, DLQSkip, DLQPersist, DLQCommit, DLQRestart, DLQRebalance, Types,
         LetterTypeOK, StoreTypeOK, storeVars
<1>1. UNCHANGED <<dlqTopic, adminVars>>
  BY Zenon DEF DLQRun, DLQFetch, DLQSkip, DLQPersist, DLQCommit, DLQRestart, DLQRebalance, storeVars
<1>2. CASE UNCHANGED records
  <2> DEFINE L == Len(dlqTopic)
  <2>0. /\ L \in Nat /\ L <= MaxLog
        /\ offset \in 1 .. L + 1 /\ reading \in 1 .. L + 1 /\ held \in 0 .. L
        /\ stored \in BOOLEAN /\ (stored => held # NoEntry /\ held \notin Garbled)
        /\ restarts \in 0 .. MaxRestarts /\ refused \subseteq 1 .. MaxLog
    BY DEF Types, LetterTypeOK, StoreTypeOK, DeadLetterTypeOK
  <2> HIDE DEF L
  <2>1. /\ offset' \in 1 .. L + 1 /\ reading' \in 1 .. L + 1
        /\ held' \in 0 .. L
        /\ restarts' \in 0 .. MaxRestarts
        /\ refused' \subseteq 1 .. MaxLog
    <3>1. CASE DLQFetch
      BY <2>0, <3>1 DEF DLQFetch, L
    <3>2. CASE DLQSkip
      BY <2>0, <3>2 DEF DLQSkip
    <3>3. CASE DLQPersist
      <4>1. UNCHANGED <<offset, reading, restarts>>
        BY <3>3, Zenon DEF DLQPersist
      <4>2. \/ UNCHANGED <<held, refused>>
            \/ refused' = refused \cup {held} /\ held' = NoEntry /\ held # NoEntry
        BY <3>3, Zenon DEF DLQPersist
      <4>3. refused' \subseteq 1 .. MaxLog
        <5>1. held # NoEntry => held \in 1 .. MaxLog
          BY <2>0
        <5>2. refused' \subseteq refused \/ (refused' = refused \cup {held} /\ held # NoEntry)
          BY <4>2, Zenon
        <5> QED
          BY <2>0, <5>1, <5>2, Zenon
      <4>4. held' \in 0 .. L
        BY <2>0, <4>2
      <4> QED
        BY <2>0, <4>1, <4>3, <4>4, Zenon
    <3>4. CASE DLQCommit
      <4>1. /\ offset' \in {offset, held + 1} /\ held' = NoEntry
            /\ UNCHANGED <<reading, restarts, refused>>
        BY <3>4, Zenon DEF DLQCommit
      <4> QED
        BY <2>0, <4>1
    <3>5. CASE DLQRestart \/ DLQRebalance
      <4>1. /\ restarts < MaxRestarts /\ restarts' = restarts + 1 /\ reading' = offset
            /\ held' \in {held, NoEntry} /\ UNCHANGED <<offset, refused>>
        BY <3>5, Zenon DEF DLQRestart, DLQRebalance
      <4> QED
        BY <2>0, <4>1
    <3> QED
      BY <3>1, <3>2, <3>3, <3>4, <3>5, Zenon DEF DLQRun
  <2>2. stored' \in BOOLEAN /\ (stored' => held' # NoEntry /\ held' \notin Garbled)
    <3>1. CASE DLQFetch
      BY <2>0, <3>1, Zenon DEF DLQFetch
    <3>2. CASE DLQSkip
      BY <2>0, <3>2, Zenon DEF DLQSkip
    <3>3. CASE DLQPersist
      <4>1. CASE stored' = TRUE /\ UNCHANGED <<held, refused>>
        BY <3>3, <4>1, Zenon DEF DLQPersist
      <4>2. CASE UNCHANGED stored
        BY <2>0, <3>3, <4>2, Zenon DEF DLQPersist
      <4> QED
        BY <3>3, <4>1, <4>2, Zenon DEF DLQPersist
    <3>4. CASE DLQCommit
      BY <3>4, Zenon DEF DLQCommit
    <3>5. CASE DLQRestart
      BY <3>5, Zenon DEF DLQRestart
    <3>6. CASE DLQRebalance
      BY <2>0, <3>6, Zenon DEF DLQRebalance
    <3> QED
      BY <3>1, <3>2, <3>3, <3>4, <3>5, <3>6, Zenon DEF DLQRun
  <2> QED
    BY <1>0, <1>1, <1>2, <2>1, <2>2, Zenon DEF Types, LetterTypeOK, DeadLetterTypeOK, adminVars, L
<1>3. CASE DLQPersist /\ CreateDeadLetter(held) /\ stored' /\ UNCHANGED <<held, refused>>
  <2>1. held \in 1 .. Len(dlqTopic) /\ held \in 1 .. MaxLog
    BY <1>3 DEF DLQPersist, Types, LetterTypeOK, StoreTypeOK, DeadLetterTypeOK
  <2>2. [entry |-> held, state |-> "unreplayed"] \in Record
    BY <2>1, Zenon DEF Record
  <2>3. /\ records' \in Seq(Record) /\ Len(records') = Len(records) + 1
        /\ Len(records') <= MaxRecords
        /\ \A r \in 1 .. Len(records') : records'[r].entry <= Len(dlqTopic)
    BY <1>3, <2>1, <2>2 DEF CreateDeadLetter, Types, LetterTypeOK, DeadLetterTypeOK
  <2>4. request \in [Admins -> [pc : {"ready", "publish", "mark"}, record : 0 .. Len(records')]]
    <3>1. 0 .. Len(records) \subseteq 0 .. Len(records')
      BY <2>3 DEF Types, LetterTypeOK, DeadLetterTypeOK
    <3> QED
      BY <3>1, Zenon DEF Types, LetterTypeOK, DeadLetterTypeOK
  <2> QED
    BY <1>0, <1>1, <1>3, <2>3, <2>4, Zenon
    DEF DLQPersist, Types, LetterTypeOK, DeadLetterTypeOK, adminVars
<1> QED
  BY <1>2, <1>3, Zenon DEF DLQRun, DLQFetch, DLQSkip, DLQPersist, DLQCommit, DLQRestart, DLQRebalance

(* Types of what an operator's request is about.                             *)
LEMMA RequestTypes ==
  ASSUME Types, NEW a \in Admins, request[a].pc # "ready"
  PROVE  /\ request[a].record \in 1 .. Len(records)
         /\ request[a].record \in 1 .. MaxRecords
         /\ records[request[a].record] \in Record
         /\ records[request[a].record].entry \in 1 .. Len(dlqTopic)
         /\ dlqTopic[records[request[a].record].entry] \in Message
<1> DEFINE r == request[a].record
<1>1. r \in 1 .. Len(records) /\ Len(records) <= MaxRecords /\ Len(records) \in Nat
  BY DEF Types, LetterTypeOK, DeadLetterTypeOK, NoRecord
<1>2. records[r] \in Record /\ records[r].entry <= Len(dlqTopic)
  BY <1>1 DEF Types, LetterTypeOK, DeadLetterTypeOK
<1>3. records[r].entry \in 1 .. Len(dlqTopic)
  BY <1>2 DEF Record, Types, LetterTypeOK, StoreTypeOK
<1>4. dlqTopic[records[r].entry] \in Message
  BY <1>3 DEF Types, LetterTypeOK, StoreTypeOK
<1> QED
  BY <1>1, <1>2, <1>3, <1>4, DeadLetterAssumption

(* MarkDeadLetterReplayed and DeleteDeadLetter change a row's state only.     *)
LEMMA StateSet ==
  ASSUME Types, NEW r \in 1 .. Len(records), NEW st \in {"replayed", "deleted"},
         records' = [records EXCEPT ![r].state = st]
  PROVE  /\ records' \in Seq(Record) /\ Len(records') = Len(records)
         /\ \A q \in 1 .. Len(records) :
              /\ records'[q].entry = records[q].entry
              /\ records'[q].state = IF q = r THEN st ELSE records[q].state
<1> DEFINE e == [records[r] EXCEPT !.state = st]
<1>1. records \in Seq(Record) /\ records[r] \in Record
  BY DEF Types, LetterTypeOK, DeadLetterTypeOK
<1>2. e \in Record /\ e.entry = records[r].entry /\ e.state = st
  BY <1>1, Zenon DEF Record
<1>3. records' = [records EXCEPT ![r] = e]
  BY Zenon
<1> HIDE DEF e
<1> QED
  BY <1>1, <1>2, <1>3, Replaced

(* The steps of Replay and Delete keep the types.                            *)
LEMMA AdminTypes ==
  ASSUME Types, AdminStep
  PROVE  Types'
<1> USE DEF Types, LetterTypeOK
<1>1. ASSUME NEW a \in Admins, NEW r \in 1 .. Len(records), ReplayRead(a, r) PROVE Types'
  <2>1. StoreTypeOK' /\ UNCHANGED <<dlqTopic, consumerVars, records, reissues>>
    BY <1>1, Zenon DEF ReplayRead, storeVars, StoreTypeOK
  <2>2. /\ request' \in [Admins -> [pc : {"ready", "publish", "mark"}, record : 0 .. Len(records)]]
        /\ \A b \in Admins : request'[b].pc = "ready" <=> request'[b].record = NoRecord
    BY <1>1 DEF ReplayRead, DeadLetterTypeOK, NoRecord
  <2> QED
    BY <2>1, <2>2, Zenon DEF DeadLetterTypeOK, consumerVars
<1>2. ASSUME NEW a \in Admins, ReplayPublish(a) PROVE Types'
  <2> DEFINE r == request[a].record
             m == dlqTopic[records[r].entry]
  <2>1. r \in 1 .. MaxRecords /\ r # NoRecord /\ m \in Message
    <3>1. request[a].pc # "ready"
      BY <1>2, Zenon DEF ReplayPublish
    <3>2. request[a].record \in 1 .. MaxRecords /\ dlqTopic[records[request[a].record].entry] \in Message
      <4> HIDE DEF Types, LetterTypeOK
      <4> QED
        BY <3>1, RequestTypes, Zenon
    <3> QED
      BY <3>2 DEF NoRecord
  <2>2. /\ request' \in [Admins -> [pc : {"ready", "publish", "mark"}, record : 0 .. Len(records)]]
        /\ \A b \in Admins : request'[b].pc = "ready" <=> request'[b].record = NoRecord
    <3>1. request' = [request EXCEPT ![a].pc = "mark"] \/ Answered(a)
      BY <1>2, Zenon DEF ReplayPublish
    <3> DEFINE q == [pc : {"ready", "publish", "mark"}, record : 0 .. Len(records)]
    <3>2. request \in [Admins -> q] /\ Len(records) \in Nat
          /\ \A b \in Admins : request[b].pc = "ready" <=> request[b].record = NoRecord
      BY DEF DeadLetterTypeOK
    <3>3. [request[a] EXCEPT !.pc = "mark"] \in q
          /\ [request[a] EXCEPT !.pc = "mark"].pc = "mark"
          /\ [request[a] EXCEPT !.pc = "mark"].record = r
      BY <3>2, Zenon
    <3>4. [pc |-> "ready", record |-> NoRecord] \in q
      BY <3>2 DEF NoRecord
    <3>5. CASE request' = [request EXCEPT ![a].pc = "mark"]
      <4>1. request' = [request EXCEPT ![a] = [request[a] EXCEPT !.pc = "mark"]]
        BY <3>5, Zenon
      <4> QED
        BY <2>1, <3>2, <3>3, <4>1, Zenon
    <3>6. CASE Answered(a)
      BY <3>2, <3>4, <3>6, Zenon DEF Answered
    <3> QED
      BY <3>1, <3>5, <3>6, Zenon
  <2>3. StoreTypeOK' /\ UNCHANGED dlqTopic /\ reissues' \subseteq Reissue
    <3>1. CASE UNCHANGED <<storeVars, reissues>>
      BY <3>1, Zenon DEF storeVars, StoreTypeOK, DeadLetterTypeOK
    <3>2. CASE Publish(m) /\ reissues' = reissues \cup {[record |-> r, index |-> Len(topic) + 1]}
      <4> HIDE DEF m, r
      <4>1. Len(topic) + 1 \in 1 .. MaxLog
        BY <3>2, StoreAssumption DEF Publish, StoreTypeOK
      <4>2. reissues' \subseteq Reissue
        BY <2>1, <3>2, <4>1 DEF DeadLetterTypeOK, Reissue
      <4>3. StoreTypeOK' /\ UNCHANGED dlqTopic
        <5>1. topic' \in Seq(Message) /\ Len(topic') <= MaxLog
          BY <2>1, <3>2, <4>1, Extended DEF Publish, StoreTypeOK
        <5>2. UNCHANGED <<status, columns, dlqTopic>>
          BY <3>2, Zenon DEF Publish
        <5> QED
          BY <5>1, <5>2, Zenon DEF StoreTypeOK, columns
      <4> QED
        BY <4>2, <4>3, Zenon
    <3> QED
      BY <1>2, <3>1, <3>2, Zenon DEF ReplayPublish
  <2>4. UNCHANGED <<consumerVars, records>>
    BY <1>2, Zenon DEF ReplayPublish
  <2> QED
    BY <2>2, <2>3, <2>4, Zenon DEF DeadLetterTypeOK, consumerVars
<1>4. ASSUME UNCHANGED <<storeVars, consumerVars>>, reissues' = reissues,
             \/ UNCHANGED records
             \/ \E r \in 1 .. Len(records), st \in {"replayed", "deleted"} :
                  records' = [records EXCEPT ![r].state = st],
             \/ UNCHANGED request
             \/ \E a \in Admins : Answered(a)
      PROVE  Types'
  <2>1. /\ request' \in [Admins -> [pc : {"ready", "publish", "mark"}, record : 0 .. Len(records)]]
        /\ \A b \in Admins : request'[b].pc = "ready" <=> request'[b].record = NoRecord
    <3>1. /\ request \in [Admins -> [pc : {"ready", "publish", "mark"}, record : 0 .. Len(records)]]
          /\ \A b \in Admins : request[b].pc = "ready" <=> request[b].record = NoRecord
      BY Zenon DEF DeadLetterTypeOK
    <3>2. 0 \in 0 .. Len(records)
      BY DEF DeadLetterTypeOK
    <3>3. CASE UNCHANGED request
      BY <3>1, <3>3, Zenon
    <3>4. ASSUME NEW a \in Admins, request' = [request EXCEPT ![a] = [pc |-> "ready", record |-> 0]]
          PROVE  /\ request' \in [Admins -> [pc : {"ready", "publish", "mark"}, record : 0 .. Len(records)]]
                 /\ \A b \in Admins : request'[b].pc = "ready" <=> request'[b].record = NoRecord
      <4> HIDE DEF Types
      <4>1. [pc |-> "ready", record |-> 0]
              \in [pc : {"ready", "publish", "mark"}, record : 0 .. Len(records)]
        BY <3>2, Zenon
      <4>2. ASSUME NEW b \in Admins
            PROVE  request'[b].pc = "ready" <=> request'[b].record = 0
        <5>1. CASE b = a
          BY <3>1, <3>4, <5>1, Zenon
        <5>2. CASE b # a
          BY <3>1, <3>4, <5>2, Zenon DEF NoRecord
        <5> QED
          BY <5>1, <5>2, Zenon
      <4> QED
        BY <3>1, <3>4, <4>1, <4>2, Zenon DEF NoRecord
    <3> QED
      BY <1>4, <3>3, <3>4, Zenon DEF Answered, NoRecord
  <2>2. /\ records' \in Seq(Record) /\ Len(records') = Len(records)
        /\ \A q \in 1 .. Len(records) : records'[q].entry = records[q].entry
    BY <1>4, StateSet, Zenon DEF DeadLetterTypeOK
  <2>3. StoreTypeOK' /\ UNCHANGED dlqTopic
    BY <1>4, Zenon DEF storeVars, StoreTypeOK
  <2> QED
    BY <1>4, <2>1, <2>2, <2>3, Zenon DEF DeadLetterTypeOK, consumerVars
<1>5. ASSUME NEW a \in Admins, ReplayMark(a) PROVE Types'
  BY <1>4, <1>5, Zenon DEF ReplayMark, MarkDeadLetterReplayed, GetDeadLetterByID
<1>6. ASSUME NEW r \in 1 .. Len(records), DeleteRecord(r) PROVE Types'
  BY <1>4, <1>6, Zenon DEF DeleteRecord, DeleteDeadLetter, adminVars
<1> QED
  BY <1>1, <1>2, <1>5, <1>6, Zenon DEF AdminStep

(* Every step keeps the types.                                               *)
LEMMA TypesNext == Types /\ [DeadLetterNext]_letterVars => Types'
<1> SUFFICES ASSUME Types, [DeadLetterNext]_letterVars PROVE Types'
  BY Zenon
<1>1. CASE DeadLettered
  <2>1. StoreTypeOK' /\ Len(dlqTopic') = Len(dlqTopic) + 1 /\ Len(dlqTopic) \in Nat
    <3>1. PICK m \in Message : PublishDLQ(m)
      BY <1>1, Zenon DEF DeadLettered
    <3>2. /\ dlqTopic' \in Seq(Message) /\ Len(dlqTopic') <= MaxLog
          /\ Len(dlqTopic') = Len(dlqTopic) + 1 /\ Len(dlqTopic) \in Nat
      BY <3>1, Extended, StoreAssumption DEF PublishDLQ, Types, LetterTypeOK, StoreTypeOK
    <3>3. UNCHANGED <<status, columns, topic>>
      BY <3>1, Zenon DEF PublishDLQ
    <3> QED
      BY <3>2, <3>3, Zenon DEF Types, LetterTypeOK, StoreTypeOK, columns
  <2>2. DeadLetterTypeOK /\ (stored => held \notin Garbled) /\ UNCHANGED deadLetterVars
    BY <1>1, Zenon DEF DeadLettered, Types, LetterTypeOK
  <2>3. DeadLetterTypeOK'
    <3>1. ASSUME NEW r \in 1 .. Len(records) PROVE records[r].entry <= Len(dlqTopic')
      <4>1. records[r] \in Record /\ records[r].entry <= Len(dlqTopic)
        BY <2>2 DEF DeadLetterTypeOK
      <4>2. records[r].entry \in Int
        BY <4>1 DEF Record
      <4> QED
        BY <2>1, <4>1, <4>2
    <3>2. /\ offset \in 1 .. Len(dlqTopic') + 1 /\ reading \in 1 .. Len(dlqTopic') + 1
          /\ held \in 0 .. Len(dlqTopic')
      BY <2>1, <2>2 DEF DeadLetterTypeOK
    <3> QED
      BY <2>2, <3>1, <3>2, Zenon DEF DeadLetterTypeOK, deadLetterVars, consumerVars, adminVars
  <2> QED
    BY <2>1, <2>2, <2>3, Zenon DEF Types, LetterTypeOK, deadLetterVars, consumerVars
<1>2. CASE UNCHANGED letterVars
  BY <1>2, Zenon DEF letterVars, storeVars, deadLetterVars, consumerVars, adminVars, Types,
              LetterTypeOK, StoreTypeOK, DeadLetterTypeOK
<1> QED
  BY <1>1, <1>2, ConsumerTypes, AdminTypes, Zenon DEF DeadLetterNext

(* The dead-letter consumer and the administration keep their state well     *)
(* typed, whatever the restarts, rebalances and races of requests.           *)
THEOREM LettersAreTyped == DeadLetterSpec => []LetterTypeOK
<1>1. Types => LetterTypeOK
  BY Zenon DEF Types
<1> QED
  BY <1>1, TypesInit, TypesNext, PTL DEF DeadLetterSpec

-----------------------------------------------------------------------------
(* The consumer. *)

(* Rows keep their number and their entry, and nothing is forgotten: what    *)
(* has been accounted for stays so.                                          *)
LEMMA RowsStay ==
  ASSUME Types, [DeadLetterNext]_letterVars
  PROVE  /\ Len(records) \in Nat /\ Len(records') \in Nat /\ Len(records) <= Len(records')
         /\ \A r \in 1 .. Len(records) : records'[r].entry = records[r].entry
         /\ refused \subseteq refused'
<1>0. records \in Seq(Record) /\ Len(records) \in Nat
  BY DEF Types, LetterTypeOK, DeadLetterTypeOK
<1>1. CASE UNCHANGED records
  <2>1. refused \subseteq refused'
    BY Zenon DEF DeadLetterNext, DeadLettered, DLQRun, DLQFetch, DLQSkip, DLQPersist, DLQCommit,
           DLQRestart, DLQRebalance, AdminStep, ReplayRead, ReplayPublish, ReplayMark,
           DeleteRecord, letterVars, deadLetterVars, consumerVars
  <2> QED
    BY <1>0, <1>1, <2>1
<1>2. CASE DLQPersist /\ CreateDeadLetter(held) /\ UNCHANGED refused
  <2> DEFINE e == [entry |-> held, state |-> "unreplayed"]
  <2>1. e \in Record
    BY <1>2, StoreAssumption
    DEF DLQPersist, Record, Types, LetterTypeOK, StoreTypeOK, DeadLetterTypeOK, NoEntry
  <2>2. records' = Append(records, e) /\ refused' = refused
    BY <1>2, Zenon DEF CreateDeadLetter
  <2> HIDE DEF e
  <2> QED
    BY <1>0, <2>1, <2>2, Extended
<1>3. CASE \E r \in 1 .. Len(records), st \in {"replayed", "deleted"} :
             records' = [records EXCEPT ![r].state = st] /\ UNCHANGED refused
  <2>1. PICK r \in 1 .. Len(records), st \in {"replayed", "deleted"} :
               records' = [records EXCEPT ![r].state = st] /\ UNCHANGED refused
    BY <1>3, Zenon
  <2> QED
    BY <1>0, <2>1, StateSet
<1>4. CASE DLQPersist
  BY <1>1, <1>2, <1>4, Zenon DEF DLQPersist
<1>5. CASE AdminStep
  <2>1. UNCHANGED refused
    BY <1>5, Zenon DEF AdminStep, ReplayRead, ReplayPublish, ReplayMark, DeleteRecord, consumerVars
  <2>2. \/ UNCHANGED records
        \/ \E r \in 1 .. Len(records), st \in {"replayed", "deleted"} :
             records' = [records EXCEPT ![r].state = st]
    BY <1>5, Zenon DEF AdminStep, ReplayRead, ReplayPublish, ReplayMark, DeleteRecord,
                MarkDeadLetterReplayed, GetDeadLetterByID, DeleteDeadLetter
  <2> QED
    BY <1>1, <1>3, <2>1, <2>2, Zenon
<1>6. CASE DeadLettered \/ DLQFetch \/ DLQSkip \/ DLQCommit \/ DLQRestart \/ DLQRebalance
           \/ UNCHANGED letterVars
  BY <1>1, <1>6, Zenon DEF DeadLettered, DLQFetch, DLQSkip, DLQCommit, DLQRestart, DLQRebalance,
                    letterVars, deadLetterVars
<1> QED
  BY <1>4, <1>5, <1>6, Zenon DEF DeadLetterNext, DLQRun

(* A letter that has its row, or its reason to have none, keeps it.          *)
LEMMA AccountedStays ==
  ASSUME Types, [DeadLetterNext]_letterVars, NEW i, Accounted(i)
  PROVE  Accounted(i)'
<1>1. CASE Persisted(i)
  <2>1. PICK r \in 1 .. Len(records) : records[r].entry = i
    BY <1>1, Zenon DEF Persisted
  <2>2. r \in 1 .. Len(records') /\ records'[r].entry = i
    BY <2>1, RowsStay
  <2> QED
    BY <2>2, Zenon DEF Accounted, Persisted
<1>2. CASE i \in Garbled \/ i \in refused
  BY <1>2, RowsStay, Zenon DEF Accounted
<1> QED
  BY <1>1, <1>2, Zenon DEF Accounted

(* Nothing is read before the first fetch.                                   *)
LEMMA ConsumerInit == LetterInit => ConsumerInv
<1> SUFFICES ASSUME LetterInit PROVE ConsumerInv
  BY Zenon
<1>1. offset = 1 /\ reading = 1 /\ held = 0
  BY Zenon DEF LetterInit, DeadLetterInit, NoEntry
<1>2. ~stored
  BY Zenon DEF LetterInit, DeadLetterInit
<1> QED
  BY <1>1, <1>2 DEF ConsumerInv

(* Only the consumer moves its offsets, and never past a letter it has not   *)
(* accounted for.                                                            *)
LEMMA ConsumerNext == Types /\ ConsumerInv /\ [DeadLetterNext]_letterVars => ConsumerInv'
<1> SUFFICES ASSUME Types, ConsumerInv, [DeadLetterNext]_letterVars PROVE ConsumerInv'
  BY Zenon
<1>0. /\ offset \in Nat \ {0} /\ reading \in Nat \ {0} /\ held \in Nat
      /\ Len(records) \in Nat /\ (held = NoEntry => ~stored)
  BY DEF Types, LetterTypeOK, StoreTypeOK, DeadLetterTypeOK
<1>1. \A i : Accounted(i) => Accounted(i)'
  BY AccountedStays, Zenon
<1>2. CASE DLQFetch
  <2>1. held = 0 /\ held' = reading /\ reading' = reading + 1 /\ UNCHANGED <<offset, stored>>
    BY <1>2, Zenon DEF DLQFetch, NoEntry
  <2>2. ~stored'
    BY <1>0, <2>1, Zenon DEF NoEntry
  <2> QED
    BY <1>0, <1>1, <2>1, <2>2 DEF ConsumerInv
<1>a. PICK h : h = held
  BY Zenon
<1>3. ASSUME Accounted(h)', offset' \in {offset, h + 1}, held' = 0, ~stored', UNCHANGED reading
      PROVE  ConsumerInv'
  <2>1. \A i \in 1 .. offset' - 1 : Accounted(i)'
    <3>1. CASE offset' = offset
      BY <1>1, <3>1, Zenon DEF ConsumerInv
    <3>2. CASE offset' = h + 1
      <4>1. ASSUME NEW i \in 1 .. offset' - 1 PROVE i = h \/ i \in 1 .. held - 1
        BY <1>0, <1>a, <3>2
      <4> QED
        BY <1>1, <1>3, <4>1, Zenon DEF ConsumerInv
    <3> QED
      BY <1>3, <3>1, <3>2, Zenon
  <2>2. \A i \in 1 .. reading' - 1 : Accounted(i)'
    BY <1>1, <1>a, <1>3, Zenon DEF ConsumerInv
  <2>3. \A i \in 1 .. held' - 1 : Accounted(i)'
    BY <1>3
  <2> QED
    BY <1>3, <2>1, <2>2, <2>3, Zenon DEF ConsumerInv
<1>4. CASE DLQSkip
  <2>1. Accounted(h) /\ held' = 0 /\ offset' \in {offset, h + 1} /\ UNCHANGED reading
    BY <1>4, <1>a, Zenon DEF DLQSkip, Accounted, NoEntry
  <2>2. ~stored'
    BY <1>4, Zenon DEF DLQSkip, Types
  <2> QED
    BY <1>1, <1>3, <2>1, <2>2, Zenon
<1>5. CASE DLQCommit
  <2>1. held' = 0 /\ offset' \in {offset, h + 1} /\ UNCHANGED reading
    BY <1>5, <1>a, Zenon DEF DLQCommit, NoEntry
  <2>2. ~stored' /\ stored
    BY <1>5, Zenon DEF DLQCommit
  <2>3. Accounted(h)
    BY <1>a, <2>2, Zenon DEF ConsumerInv, Accounted
  <2> QED
    BY <1>1, <1>3, <2>1, <2>2, <2>3, Zenon
<1>6. CASE DLQPersist
  <2>1. CASE CreateDeadLetter(held) /\ UNCHANGED held
    <3>1. UNCHANGED <<offset, reading, held>>
      BY <1>6, <2>1, Zenon DEF DLQPersist
    <3>2. Persisted(h)'
      <4> DEFINE e == [entry |-> h, state |-> "unreplayed"]
      <4>1. e \in Record /\ records \in Seq(Record)
        BY <1>6, <1>a, StoreAssumption
        DEF DLQPersist, Record, Types, LetterTypeOK, StoreTypeOK, DeadLetterTypeOK, NoEntry
      <4>2. records' = Append(records, e) /\ e.entry = h
        BY <1>a, <2>1, Zenon DEF CreateDeadLetter
      <4> HIDE DEF e
      <4>3. Len(records) + 1 \in 1 .. Len(records') /\ records'[Len(records) + 1].entry = h
        BY <4>1, <4>2, Extended
      <4> QED
        BY <4>3, Zenon DEF Persisted
    <3> QED
      BY <1>0, <1>1, <1>a, <3>1, <3>2, Zenon DEF ConsumerInv
  <2>2. CASE refused' = refused \cup {held} /\ held' = NoEntry /\ UNCHANGED <<records, stored>>
    <3>1. Accounted(h)' /\ held' = 0 /\ UNCHANGED <<offset, reading>>
      BY <1>6, <1>a, <2>2, Zenon DEF DLQPersist, Accounted, NoEntry
    <3>2. ~stored'
      BY <1>6, <2>2, Zenon DEF DLQPersist
    <3> QED
      BY <1>3, <3>1, <3>2, Zenon
  <2> QED
    BY <1>6, <2>1, <2>2, Zenon DEF DLQPersist
<1>7. ASSUME UNCHANGED <<offset, held, stored>>, reading' \in {offset, reading}
      PROVE  ConsumerInv'
  <2>1. stored' => Persisted(held)'
    BY <1>7, RowsStay DEF ConsumerInv, Persisted
  <2>2. \A i \in 1 .. reading' - 1 : i = held' \/ Accounted(i)'
    BY <1>1, <1>7, Zenon DEF ConsumerInv
  <2>3. (\A i \in 1 .. offset' - 1 : Accounted(i)') /\ (\A i \in 1 .. held' - 1 : Accounted(i)')
    BY <1>1, <1>7, Zenon DEF ConsumerInv
  <2> QED
    BY <2>1, <2>2, <2>3, Zenon DEF ConsumerInv
<1>8. CASE DLQRestart
  <2>1. offset' = offset /\ reading' = offset /\ held' = 0
    BY <1>8, Zenon DEF DLQRestart, NoEntry
  <2>2. ~stored'
    BY <1>8, Zenon DEF DLQRestart
  <2> QED
    BY <1>0, <1>1, <2>1, <2>2 DEF ConsumerInv
<1>9. CASE DLQRebalance
  BY <1>7, <1>9, Zenon DEF DLQRebalance
<1>10. CASE AdminStep \/ DeadLettered \/ UNCHANGED letterVars
  <2>1. UNCHANGED consumerVars
    BY <1>10, Zenon DEF AdminStep, ReplayRead, ReplayPublish, ReplayMark, DeleteRecord, DeadLettered,
                 letterVars, deadLetterVars
  <2> QED
    BY <1>7, <2>1, Zenon DEF consumerVars
<1> QED
  BY <1>2, <1>4, <1>5, <1>6, <1>8, <1>9, <1>10, Zenon DEF DeadLetterNext, DLQRun

(* The dead-letter consumer skips over nothing without a recorded reason: a  *)
(* dead letter below the group's offset has a row, does not decode, or its   *)
(* INSERT failed.                                                            *)
THEOREM NothingIsSkipped == DeadLetterSpec => []PersistedOrRefused
<1>1. ConsumerInv => PersistedOrRefused
  BY Zenon DEF ConsumerInv, PersistedOrRefused, Accounted
<1> QED
  BY <1>1, TypesInit, TypesNext, ConsumerInit, ConsumerNext, PTL DEF DeadLetterSpec

-----------------------------------------------------------------------------
(* Replay. *)

(* A row is about an entry of the dead-letter topic.                         *)
LEMMA RecordTypes ==
  ASSUME Types
  PROVE  /\ records \in Seq(Record) /\ Len(records) \in Nat
         /\ \A r \in 1 .. Len(records) :
              records[r] \in Record /\ records[r].entry \in 1 .. Len(dlqTopic)
<1>1. /\ records \in Seq(Record)
      /\ \A r \in 1 .. Len(records) : records[r].entry <= Len(dlqTopic)
  BY Zenon DEF Types, LetterTypeOK, DeadLetterTypeOK
<1>2. Len(records) \in Nat /\ \A r \in 1 .. Len(records) : records[r] \in Record
  BY <1>1
<1>3. Len(dlqTopic) \in Nat
  BY DEF Types, LetterTypeOK, StoreTypeOK
<1>4. ASSUME NEW r \in 1 .. Len(records) PROVE records[r].entry \in 1 .. Len(dlqTopic)
  <2>1. records[r].entry \in Nat \ {0}
    BY <1>2, StoreAssumption DEF Record
  <2> QED
    BY <1>1, <1>3, <2>1
<1> QED
  BY <1>1, <1>2, <1>4, Zenon

(* Topics only grow, and so does the record of what Replay published.        *)
LEMMA TopicsGrow ==
  ASSUME Types, [DeadLetterNext]_letterVars
  PROVE  /\ Len(topic) \in Nat /\ Len(topic') \in Nat /\ Len(topic) <= Len(topic')
         /\ \A i \in 1 .. Len(topic) : topic'[i] = topic[i]
         /\ \A i \in 1 .. Len(dlqTopic) : dlqTopic'[i] = dlqTopic[i]
         /\ reissues \subseteq reissues'
<1>0. topic \in Seq(Message) /\ dlqTopic \in Seq(Message) /\ Len(topic) \in Nat
  BY DEF Types, LetterTypeOK, StoreTypeOK
<1>1. CASE DeadLettered
  <2>1. PICK m \in Message : dlqTopic' = Append(dlqTopic, m) /\ UNCHANGED <<topic, reissues>>
    BY <1>1, Zenon DEF DeadLettered, PublishDLQ, deadLetterVars, adminVars
  <2> QED
    BY <1>0, <2>1, Extended
<1>2. ASSUME NEW a \in Admins, ReplayPublish(a)
      PROVE  /\ UNCHANGED dlqTopic /\ reissues \subseteq reissues'
             /\ UNCHANGED topic \/ \E m \in Message : topic' = Append(topic, m)
  <2>1. dlqTopic[records[request[a].record].entry] \in Message
    BY <1>2, RequestTypes, Zenon DEF ReplayPublish
  <2> QED
    BY <1>2, <2>1, Zenon DEF ReplayPublish, Publish, storeVars
<1>3. CASE \E a \in Admins : ReplayPublish(a)
  <2>1. /\ UNCHANGED dlqTopic /\ reissues \subseteq reissues'
        /\ UNCHANGED topic \/ \E m \in Message : topic' = Append(topic, m)
    BY <1>2, <1>3, Zenon
  <2>2. CASE UNCHANGED topic
    BY <1>0, <2>1, <2>2
  <2>3. CASE \E m \in Message : topic' = Append(topic, m)
    BY <1>0, <2>1, <2>3, Extended
  <2> QED
    BY <2>1, <2>2, <2>3, Zenon
<1>4. CASE DLQRun \/ DLQRestart \/ DLQRebalance \/ UNCHANGED letterVars
           \/ (AdminStep /\ ~\E a \in Admins : ReplayPublish(a))
  <2>1. UNCHANGED <<storeVars, reissues>>
    BY <1>4, Zenon DEF DLQRun, DLQFetch, DLQSkip, DLQPersist, DLQCommit, DLQRestart, DLQRebalance,
                AdminStep, ReplayRead, ReplayMark, DeleteRecord, letterVars, deadLetterVars,
                adminVars
  <2> QED
    BY <1>0, <2>1 DEF storeVars
<1> QED
  BY <1>1, <1>3, <1>4, Zenon DEF DeadLetterNext

(* A message that Replay put back into the channel topic stays there.        *)
LEMMA ReissuedStays ==
  ASSUME Types, [DeadLetterNext]_letterVars, NEW r \in 1 .. Len(records), Reissued(r)
  PROVE  Reissued(r)'
<1>1. PICK x \in reissues :
        x.record = r /\ x.index \in 1 .. Len(topic) /\ topic[x.index] = dlqTopic[records[r].entry]
  BY Zenon DEF Reissued
<1>2. records[r].entry \in 1 .. Len(dlqTopic)
  BY RecordTypes, Zenon
<1>3. /\ x \in reissues' /\ x.index \in 1 .. Len(topic')
      /\ topic'[x.index] = dlqTopic'[records'[r].entry]
  <2>1. x \in reissues'
    BY <1>1, TopicsGrow, Zenon
  <2>2. x.index \in 1 .. Len(topic') /\ topic'[x.index] = topic[x.index]
    BY <1>1, TopicsGrow
  <2>3. records'[r].entry = records[r].entry
    BY RowsStay, Zenon
  <2>4. dlqTopic'[records[r].entry] = dlqTopic[records[r].entry]
    BY <1>2, TopicsGrow, Zenon
  <2> QED
    BY <1>1, <2>1, <2>2, <2>3, <2>4, Zenon
<1> QED
  BY <1>1, <1>3, Zenon DEF Reissued

(* No row is marked replayed at the start.                                   *)
LEMMA ReplayInit == LetterInit => ReplayInv
  BY DEF LetterInit, DeadLetterInit, ReplayInv

(* A row is marked replayed only by a request that has published it.         *)
LEMMA ReplayNext == Types /\ ReplayInv /\ [DeadLetterNext]_letterVars => ReplayInv'
<1> SUFFICES ASSUME Types, ReplayInv, [DeadLetterNext]_letterVars PROVE ReplayInv'
  BY Zenon
<1>0. /\ records \in Seq(Record) /\ Len(records) \in Nat
      /\ \A r \in 1 .. Len(records) : Reissued(r) => Reissued(r)'
      /\ \A a \in Admins : request[a].pc # "ready" => request[a].record \in 1 .. Len(records)
  BY RecordTypes, RequestTypes, ReissuedStays, Zenon
<1>a. request \in [Admins -> [pc : {"ready", "publish", "mark"}, record : 0 .. Len(records)]]
  BY Zenon DEF Types, LetterTypeOK, DeadLetterTypeOK
(* The first conjunct, for a step that marks no row replayed; and the second, *)
(* for one that brings no request to its mark.                                *)
<1>1. ASSUME \A r \in 1 .. Len(records') : records'[r].state = "replayed" =>
               r \in 1 .. Len(records) /\ records[r].state = "replayed"
      PROVE  \A r \in 1 .. Len(records') : records'[r].state = "replayed" => Reissued(r)'
  BY <1>0, <1>1, Zenon DEF ReplayInv
<1>2. ASSUME \A a \in Admins : request'[a].pc = "mark" => request'[a] = request[a]
      PROVE  \A a \in Admins : (request[a].pc = "mark" => Reissued(request[a].record))'
  <2> SUFFICES ASSUME NEW a \in Admins, request'[a].pc = "mark"
               PROVE  Reissued(request[a].record)'
    BY Zenon
  <2>1. PICK r \in 1 .. Len(records) : r = request[a].record /\ r = request'[a].record
    BY <1>0, <1>2, Zenon
  <2>2. Reissued(r)
    BY <1>2, <2>1, Zenon DEF ReplayInv
  <2>3. Reissued(r)'
    BY <1>0, <2>2, Zenon
  <2> QED
    BY <2>1, <2>3, Zenon DEF Reissued
<1>3. CASE DLQPersist /\ CreateDeadLetter(held)
  <2> DEFINE e == [entry |-> held, state |-> "unreplayed"]
  <2>1. e \in Record /\ e.state = "unreplayed" /\ records' = Append(records, e)
    BY <1>3, StoreAssumption
    DEF DLQPersist, CreateDeadLetter, Record, Types, LetterTypeOK, StoreTypeOK,
        DeadLetterTypeOK, NoEntry
  <2> HIDE DEF e
  <2>2. /\ Len(records') = Len(records) + 1 /\ records'[Len(records) + 1] = e
        /\ \A r \in 1 .. Len(records) : records'[r] = records[r]
    BY <1>0, <2>1, Extended
  <2>3. \A r \in 1 .. Len(records') : records'[r].state = "replayed" =>
          r \in 1 .. Len(records) /\ records[r].state = "replayed"
    BY <1>0, <2>1, <2>2
  <2>4. UNCHANGED request
    BY <1>3, Zenon DEF DLQPersist, adminVars
  <2> QED
    BY <1>1, <1>2, <2>3, <2>4, Zenon DEF ReplayInv
<1>4. ASSUME NEW a \in Admins, ReplayMark(a) PROVE ReplayInv'
  <2>1. \A b \in Admins : request'[b].pc = "mark" => request'[b] = request[b]
    BY <1>4, <1>a, Zenon DEF ReplayMark, Answered
  <2>2. PICK r \in 1 .. Len(records) : r = request[a].record
    BY <1>0, <1>4, Zenon DEF ReplayMark
  <2>3. Reissued(r)'
    BY <1>0, <1>4, <2>2, Zenon DEF ReplayMark, ReplayInv
  <2>4. CASE records' = [records EXCEPT ![r].state = "replayed"]
    <3>1. /\ Len(records') = Len(records)
          /\ \A q \in 1 .. Len(records) : q # r => records'[q].state = records[q].state
      BY <2>4, StateSet
    <3>2. \A q \in 1 .. Len(records') : records'[q].state = "replayed" => Reissued(q)'
      BY <1>0, <2>3, <3>1, Zenon DEF ReplayInv
    <3> QED
      BY <1>2, <2>1, <3>2, Zenon DEF ReplayInv
  <2>5. CASE UNCHANGED records
    BY <1>1, <1>2, <2>1, <2>5, Zenon DEF ReplayInv
  <2> QED
    BY <1>4, <2>2, <2>4, <2>5, Zenon DEF ReplayMark, MarkDeadLetterReplayed
<1>5. ASSUME NEW a \in Admins, ReplayPublish(a) PROVE ReplayInv'
  <2>1. UNCHANGED records
    BY <1>5, Zenon DEF ReplayPublish
  <2>2. CASE Answered(a)
    <3>1. \A b \in Admins : request'[b].pc = "mark" => request'[b] = request[b]
      BY <1>a, <2>2, Zenon DEF Answered
    <3> QED
      BY <1>1, <1>2, <2>1, <3>1, Zenon DEF ReplayInv
  <2>3. CASE request' = [request EXCEPT ![a].pc = "mark"] /\ ~Answered(a)
    <3>1. PICK r \in 1 .. Len(records) : r = request[a].record
      BY <1>0, <1>5, Zenon DEF ReplayPublish
    <3> DEFINE x == [record |-> r, index |-> Len(topic) + 1]
               m == dlqTopic[records[r].entry]
    <3>2. topic' = Append(topic, m) /\ x \in reissues' /\ UNCHANGED dlqTopic
      BY <1>5, <2>3, <3>1, Zenon DEF ReplayPublish, Publish
    <3>3. m \in Message /\ topic \in Seq(Message)
      BY <1>5, <3>1, RequestTypes, Zenon DEF ReplayPublish, Types, LetterTypeOK, StoreTypeOK
    <3>4. Len(topic) + 1 \in 1 .. Len(topic') /\ topic'[Len(topic) + 1] = m
      <4> HIDE DEF m
      <4> QED
        BY <3>2, <3>3, Extended
    <3>5. Reissued(r)'
      <4>1. x.record = r /\ x.index = Len(topic) + 1
        BY Zenon
      <4> HIDE DEF x
      <4> QED
        BY <2>1, <3>2, <3>4, <4>1, Zenon DEF Reissued
    <3>6. /\ request'[a].record = r
          /\ \A b \in Admins : b # a => request'[b] = request[b]
      BY <1>a, <2>3, <3>1, Zenon
    <3>7. \A b \in Admins : (request[b].pc = "mark" => Reissued(request[b].record))'
      <4> SUFFICES ASSUME NEW b \in Admins, request'[b].pc = "mark", b # a
                   PROVE  Reissued(request[b].record)'
        BY <3>5, <3>6, Zenon DEF Reissued
      <4>1. PICK q \in 1 .. Len(records) : q = request[b].record /\ q = request'[b].record
        BY <1>0, <3>6, Zenon
      <4>2. Reissued(q)'
        BY <1>0, <3>6, <4>1, Zenon DEF ReplayInv
      <4> QED
        BY <4>1, <4>2, Zenon DEF Reissued
    <3> QED
      BY <1>1, <2>1, <3>7, Zenon DEF ReplayInv
  <2> QED
    BY <1>5, <2>2, <2>3, Zenon DEF ReplayPublish
<1>6. ASSUME NEW a \in Admins, NEW r \in 1 .. Len(records), ReplayRead(a, r) PROVE ReplayInv'
  <2>1. UNCHANGED records /\ \A b \in Admins : request'[b].pc = "mark" => request'[b] = request[b]
    BY <1>6, <1>a, Zenon DEF ReplayRead
  <2> QED
    BY <1>1, <1>2, <2>1, Zenon DEF ReplayInv
<1>7. ASSUME NEW r \in 1 .. Len(records), DeleteRecord(r) PROVE ReplayInv'
  <2>1. /\ Len(records') = Len(records)
        /\ \A q \in 1 .. Len(records) :
             records'[q].state = IF q = r THEN "deleted" ELSE records[q].state
    BY <1>7, StateSet, Zenon DEF DeleteRecord, DeleteDeadLetter
  <2>2. \A q \in 1 .. Len(records') : records'[q].state = "replayed" =>
          q \in 1 .. Len(records) /\ records[q].state = "replayed"
    BY <2>1, Zenon
  <2>3. UNCHANGED request
    BY <1>7, Zenon DEF DeleteRecord, adminVars
  <2> QED
    BY <1>1, <1>2, <2>2, <2>3, Zenon DEF ReplayInv
<1>8. CASE UNCHANGED <<records, request>>
  BY <1>1, <1>2, <1>8, Zenon DEF ReplayInv
<1>9. CASE DeadLettered \/ DLQRestart \/ DLQRebalance \/ UNCHANGED letterVars
  BY <1>8, <1>9, Zenon DEF DeadLettered, DLQRestart, DLQRebalance, letterVars, deadLetterVars, adminVars
<1>10. CASE DLQRun
  BY <1>3, <1>8, <1>10, Zenon DEF DLQRun, DLQFetch, DLQSkip, DLQPersist, DLQCommit, adminVars
<1> QED
  BY <1>4, <1>5, <1>6, <1>7, <1>9, <1>10, Zenon DEF DeadLetterNext, AdminStep

(* A replayed row names its message in the channel topic.                    *)
LEMMA ReplayedStays == ReplayInv => ReplayedWasPublished
  BY SMTT(30) DEF ReplayInv, Reissued, ReplayedWasPublished

(* A row that says it was replayed has put its own message back into the     *)
(* channel topic, whatever other replays and deletes of it run meanwhile.    *)
THEOREM ReplayIsHonest == DeadLetterSpec => []ReplayedWasPublished
  BY TypesInit, TypesNext, ReplayInit, ReplayNext, ReplayedStays, PTL DEF DeadLetterSpec

-----------------------------------------------------------------------------
(* Whoever else writes to the topics. *)

(* The consumer and the administration keep their invariants while others    *)
(* publish to both topics, since a topic only grows.                         *)
LEMMA GrowthKeeps ==
  ASSUME Types, ConsumerInv, ReplayInv, UNCHANGED deadLetterVars, StoreTypeOK',
         Len(topic) <= Len(topic'), \A i \in 1 .. Len(topic) : topic'[i] = topic[i],
         Len(dlqTopic) <= Len(dlqTopic'),
         \A i \in 1 .. Len(dlqTopic) : dlqTopic'[i] = dlqTopic[i]
  PROVE  Types' /\ ConsumerInv' /\ ReplayInv'
<1>0. /\ UNCHANGED <<offset, reading, held, stored, restarts, refused>>
      /\ UNCHANGED <<records, request, reissues>>
  BY Zenon DEF deadLetterVars, consumerVars, adminVars
<1>1. /\ Len(topic) \in Nat /\ Len(topic') \in Nat
      /\ Len(dlqTopic) \in Nat /\ Len(dlqTopic') \in Nat
  BY DEF Types, LetterTypeOK, StoreTypeOK
<1>2. Types'
  <2>1. /\ offset \in 1 .. Len(dlqTopic') + 1 /\ reading \in 1 .. Len(dlqTopic') + 1
        /\ held \in 0 .. Len(dlqTopic')
    BY <1>1 DEF Types, LetterTypeOK, DeadLetterTypeOK
  <2>2. ASSUME NEW r \in 1 .. Len(records) PROVE records[r].entry <= Len(dlqTopic')
    <3>1. records[r].entry \in 1 .. Len(dlqTopic)
      BY RecordTypes, Zenon
    <3> QED
      BY <1>1, <3>1
  <2>3. DeadLetterTypeOK /\ (stored => held \notin Garbled)
    BY Zenon DEF Types, LetterTypeOK
  <2>4. DeadLetterTypeOK'
    BY <1>0, <2>1, <2>2, <2>3, Zenon DEF DeadLetterTypeOK
  <2> QED
    BY <1>0, <2>3, <2>4, Zenon DEF Types, LetterTypeOK
<1>3. ConsumerInv'
  <2>1. \A i : Accounted(i)' <=> Accounted(i)
    BY <1>0, Zenon DEF Accounted, Persisted
  <2>2. Persisted(held)' <=> Persisted(held)
    BY <1>0, Zenon DEF Persisted
  <2> QED
    BY <1>0, <2>1, <2>2, Zenon DEF ConsumerInv
<1>4. ASSUME NEW r \in 1 .. Len(records), Reissued(r) PROVE Reissued(r)'
  <2>1. PICK x \in reissues :
          x.record = r /\ x.index \in 1 .. Len(topic) /\ topic[x.index] = dlqTopic[records[r].entry]
    BY <1>4, Zenon DEF Reissued
  <2>2. x.index \in 1 .. Len(topic') /\ topic'[x.index] = topic[x.index]
    BY <1>1, <2>1
  <2>3. dlqTopic'[records[r].entry] = dlqTopic[records[r].entry]
    BY RecordTypes, Zenon
  <2> QED
    BY <1>0, <2>1, <2>2, <2>3, Zenon DEF Reissued
<1>5. \A r \in 1 .. Len(records') : records'[r].state = "replayed" => Reissued(r)'
  BY <1>0, <1>4, Zenon DEF ReplayInv
<1>6. ASSUME NEW a \in Admins, request'[a].pc = "mark" PROVE Reissued(request[a].record)'
  <2>1. PICK r \in 1 .. Len(records) : r = request[a].record
    BY <1>0, <1>6, RequestTypes, Zenon
  <2>2. Reissued(r)'
    BY <1>0, <1>4, <1>6, <2>1, Zenon DEF ReplayInv
  <2> QED
    BY <1>0, <2>1, <2>2, Zenon DEF Reissued
<1>7. ReplayInv'
  BY <1>5, <1>6, Zenon DEF ReplayInv
<1> QED
  BY <1>2, <1>3, <1>7, Zenon
=============================================================================
