---------------------------- MODULE RecoveryProofs ----------------------------
(***************************************************************************)
(* Proofs about the parts together: requests, schedulers, workers and      *)
(* their crashes (NotifyHub), the consumer of the dead-letter topic and    *)
(* operators who replay and delete (DeadLetter).  What each part promises  *)
(* on its own holds in the whole, in which replays put messages back that  *)
(* workers gave up; and what the provider gets of a notification is paid   *)
(* for by the times a worker started on it.                                *)
(***************************************************************************)
EXTENDS Recovery, NotifyHubProofs, DeadLetterProofs, FiniteSetTheorems

-----------------------------------------------------------------------------
(* Sends and starts of Process. *)

\* Runs of Process that may still send n.
ToSend(n) == {h \in Handlers : step[h] \in Sending /\ Target(h) = n}

\* The sends of n that these runs may still make: the a-th of run h.
ToTry(n) ==
  {x \in Handlers \X (1 .. Bound) :
     step[x[1]] \in Sending /\ Target(x[1]) = n /\ tried[x[1]] < x[2]}

\* The sends that the starts of Process on n allow.
Tries(n) == Handouts(n) \X (1 .. Bound)

\* A start of Process pays for one send that succeeds, and for Bound sends, made or
\* still to come.
SendInv ==
  /\ handed \in [Indexes -> 0 .. MaxHandouts] /\ doubtful \in [Ids -> Nat]
  /\ \A n \in Ids : sent[n] + Cardinality(ToSend(n)) <= Cardinality(Handouts(n))
  /\ \A n \in Ids : Copies(n) + Cardinality(ToTry(n)) <= Cardinality(Tries(n))

(* Finitely many starts are possible on finitely many messages.              *)
LEMMA StartsFinite ==
  ASSUME NEW k \in Nat, NEW S, S \subseteq (1 .. k) \X (1 .. MaxHandouts)
  PROVE  IsFiniteSet(S)
<1>1. IsFiniteSet(1 .. k) /\ IsFiniteSet(1 .. MaxHandouts)
  BY FS_Interval, ProcessorAssumption
<1>2. IsFiniteSet((1 .. k) \X (1 .. MaxHandouts))
  BY <1>1, FS_Product, Zenon
<1> QED
  BY <1>2, FS_Subset, Zenon

(* Fewer runs that may send, and more starts.                                *)
LEMMA KeepsCount ==
  ASSUME NEW S, NEW T, NEW H, NEW J, IsFiniteSet(S), IsFiniteSet(J),
         T \subseteq S, H \subseteq J, NEW k \in Nat, k + Cardinality(S) <= Cardinality(H)
  PROVE  k + Cardinality(T) <= Cardinality(J)
<1>1. /\ IsFiniteSet(T) /\ Cardinality(T) <= Cardinality(S)
      /\ IsFiniteSet(H) /\ Cardinality(H) <= Cardinality(J)
  BY FS_Subset, Zenon
<1>2. /\ Cardinality(S) \in Nat /\ Cardinality(T) \in Nat
      /\ Cardinality(H) \in Nat /\ Cardinality(J) \in Nat
  BY <1>1, FS_CardinalityType, Zenon
<1> QED
  BY <1>1, <1>2

(* A run that sends will not send again.                                     *)
LEMMA CountsSend ==
  ASSUME NEW S, NEW T, NEW H, IsFiniteSet(S), IsFiniteSet(H), NEW h \in S,
         T \subseteq S \ {h}, NEW k \in Nat, k + Cardinality(S) <= Cardinality(H)
  PROVE  k + 1 + Cardinality(T) <= Cardinality(H)
<1>1. IsFiniteSet(S \ {h}) /\ Cardinality(S \ {h}) = Cardinality(S) - 1
  BY FS_RemoveElement
<1>2. IsFiniteSet(T) /\ Cardinality(T) <= Cardinality(S \ {h})
  BY <1>1, FS_Subset, Zenon
<1>3. Cardinality(S) \in Nat /\ Cardinality(T) \in Nat /\ Cardinality(H) \in Nat
  BY <1>2, FS_CardinalityType, Zenon
<1> QED
  BY <1>1, <1>2, <1>3

(* What a new run may send comes with what its start allows.                 *)
LEMMA CountsStart ==
  ASSUME NEW S, NEW T, NEW H, NEW J, NEW A, NEW B,
         IsFiniteSet(S), IsFiniteSet(J), IsFiniteSet(A), IsFiniteSet(B),
         Cardinality(A) = Cardinality(B), T \subseteq S \cup A,
         H \subseteq J, B \subseteq J, H \cap B = {},
         NEW k \in Nat, k + Cardinality(S) <= Cardinality(H)
  PROVE  k + Cardinality(T) <= Cardinality(J)
<1>1. IsFiniteSet(H) /\ H \cup B \subseteq J
  BY FS_Subset, Zenon
<1>2. /\ IsFiniteSet(S \cup A) /\ IsFiniteSet(S \cap A)
      /\ Cardinality(S \cup A) = Cardinality(S) + Cardinality(A) - Cardinality(S \cap A)
      /\ IsFiniteSet(H \cup B)
      /\ Cardinality(H \cup B) = Cardinality(H) + Cardinality(B) - Cardinality(H \cap B)
  <2>1. IsFiniteSet(S \cap A)
    BY FS_Intersection, Zenon
  <2> QED
    BY <1>1, <2>1, FS_Union, Zenon
<1>3. Cardinality({}) = 0
  BY FS_EmptySet, Zenon
<1>4. /\ IsFiniteSet(T) /\ Cardinality(T) <= Cardinality(S \cup A)
      /\ Cardinality(H \cup B) <= Cardinality(J)
  BY <1>1, <1>2, FS_Subset, Zenon
<1>5. /\ Cardinality(S) \in Nat /\ Cardinality(T) \in Nat /\ Cardinality(A) \in Nat
      /\ Cardinality(S \cap A) \in Nat /\ Cardinality(H) \in Nat /\ Cardinality(J) \in Nat
  BY <1>1, <1>2, <1>4, FS_CardinalityType, Zenon
<1>6. Cardinality(H \cup B) = Cardinality(H) + Cardinality(A)
  BY <1>2, <1>3, <1>5
<1>7. Cardinality(S \cup A) <= Cardinality(S) + Cardinality(A)
  BY <1>2, <1>5
<1>8. Cardinality(S \cup A) \in Nat /\ Cardinality(H \cup B) \in Nat
  BY <1>2, FS_CardinalityType, Zenon
<1> QED
  BY <1>4, <1>5, <1>6, <1>7, <1>8

(* A sequence that may have been appended to begins as it did.               *)
LEMMA Prefix ==
  ASSUME NEW S, NEW s \in Seq(S), NEW t, t = s \/ \E e \in S : t = Append(s, e)
  PROVE  /\ Len(s) \in Nat /\ Len(t) \in Nat /\ Len(s) <= Len(t)
         /\ \A i \in 1 .. Len(s) : t[i] = s[i]
<1>1. CASE t = s
  BY <1>1
<1>2. CASE \E e \in S : t = Append(s, e)
  BY <1>2, Appended
<1> QED
  BY <1>1, <1>2, Zenon

(* What is counted is finite.                                                *)
LEMMA CountedFinite ==
  ASSUME HubTypes, HubTypes', NEW n
  PROVE  /\ IsFiniteSet(Handouts(n)) /\ IsFiniteSet(Handouts(n)') /\ IsFiniteSet(ToSend(n))
         /\ IsFiniteSet(Tries(n)) /\ IsFiniteSet(Tries(n)') /\ IsFiniteSet(ToTry(n))
<1>1. Len(topic) \in Nat /\ Len(topic') \in Nat
  BY DEF HubTypes
<1>2. /\ Handouts(n) \subseteq (1 .. Len(topic)) \X (1 .. MaxHandouts)
      /\ Handouts(n)' \subseteq (1 .. Len(topic')) \X (1 .. MaxHandouts)
      /\ ToSend(n) \subseteq Handlers /\ ToTry(n) \subseteq Handlers \X (1 .. Bound)
  BY Zenon DEF Handouts, ToSend, ToTry
<1>3. IsFiniteSet(Handlers) /\ IsFiniteSet(1 .. Bound)
  BY ProcessorAssumption, BoundType, FS_Interval
<1>4. IsFiniteSet(Handouts(n)) /\ IsFiniteSet(Handouts(n)') /\ IsFiniteSet(ToSend(n))
  BY <1>1, <1>2, <1>3, StartsFinite, FS_Subset, Zenon
<1>5. IsFiniteSet(Handlers \X (1 .. Bound)) /\ IsFiniteSet(Handouts(n) \X (1 .. Bound))
  BY <1>3, <1>4, FS_Product, Zenon
<1>6. IsFiniteSet(Tries(n)')
  <2>1. PICK H : H = Handouts(n)'
    OBVIOUS
  <2>2. IsFiniteSet(H \X (1 .. Bound))
    BY <1>3, <1>4, <2>1, FS_Product, Zenon
  <2> QED
    BY <2>1, <2>2, Zenon DEF Tries
<1> QED
  BY <1>2, <1>4, <1>5, <1>6, FS_Subset, Zenon DEF Tries

(* Starts on messages that were there before are counted as before.          *)
LEMMA HandoutsStay ==
  ASSUME HubTypes, Len(topic) \in Nat, Len(topic') \in Nat, Len(topic) <= Len(topic'),
         \A i \in 1 .. Len(topic) : topic'[i] = topic[i], UNCHANGED handed, NEW n
  PROVE  Handouts(n) \subseteq Handouts(n)'
<1> SUFFICES ASSUME NEW i \in 1 .. Len(topic), NEW j \in 1 .. MaxHandouts,
                    topic[i].id = n, j <= handed[i]
             PROVE  <<i, j>> \in Handouts(n)'
  BY DEF Handouts
<1>1. i \in 1 .. Len(topic') /\ topic'[i].id = n
  OBVIOUS
<1> QED
  BY <1>1 DEF Handouts

(* A step that neither sends nor starts a run.                               *)
LEMMA NoSendKeeps ==
  ASSUME HubTypes, HubTypes', SendInv, UNCHANGED <<handed, sent, doubtful>>,
         \A n \in Ids : /\ Handouts(n) \subseteq Handouts(n)'
                        /\ ToSend(n)' \subseteq ToSend(n) /\ ToTry(n)' \subseteq ToTry(n)
  PROVE  SendInv'
<1>1. ASSUME NEW n \in Ids
      PROVE  /\ sent'[n] + Cardinality(ToSend(n)') <= Cardinality(Handouts(n)')
             /\ Copies(n)' + Cardinality(ToTry(n)') <= Cardinality(Tries(n)')
  <2>1. /\ sent[n] \in Nat /\ sent'[n] = sent[n] /\ Copies(n)' = Copies(n)
        /\ doubtful[n] \in Nat
        /\ sent[n] + Cardinality(ToSend(n)) <= Cardinality(Handouts(n))
        /\ Copies(n) + Cardinality(ToTry(n)) <= Cardinality(Tries(n))
    BY Zenon DEF HubTypes, SendInv, Copies
  <2>2. /\ IsFiniteSet(Handouts(n)') /\ IsFiniteSet(ToSend(n))
        /\ IsFiniteSet(Tries(n)') /\ IsFiniteSet(ToTry(n))
    BY CountedFinite, Zenon
  <2>3. sent[n] + Cardinality(ToSend(n)') <= Cardinality(Handouts(n)')
    BY <2>1, <2>2, KeepsCount, Zenon
  <2>4. Copies(n) \in Nat
    BY <2>1 DEF Copies
  <2>5. Tries(n) \subseteq Tries(n)'
    BY Zenon DEF Tries
  <2>6. Copies(n) + Cardinality(ToTry(n)') <= Cardinality(Tries(n)')
    BY <2>1, <2>2, <2>4, <2>5, KeepsCount, Zenon
  <2> QED
    BY <2>1, <2>3, <2>6, Zenon
<1> QED
  BY <1>1, Zenon DEF SendInv

(* A step outside Process.                                                   *)
LEMMA OutsideSends ==
  ASSUME HubInv, HubTypes', SendInv, UNCHANGED processorVars,
         UNCHANGED topic \/ \E m \in Message : topic' = Append(topic, m)
  PROVE  SendInv'
<1>0. /\ HubTypes /\ topic \in Seq(Message)
      /\ UNCHANGED <<handed, sent, doubtful, tried, step, current>>
  BY Zenon DEF HubInv, HubTypes, processorVars
<1>1. /\ Len(topic) \in Nat /\ Len(topic') \in Nat /\ Len(topic) <= Len(topic')
      /\ \A i \in 1 .. Len(topic) : topic'[i] = topic[i]
  <2>1. PICK t : t = topic'
    BY Zenon
  <2>2. t = topic \/ \E m \in Message : t = Append(topic, m)
    BY <2>1, Zenon
  <2>3. /\ Len(topic) \in Nat /\ Len(t) \in Nat /\ Len(topic) <= Len(t)
        /\ \A i \in 1 .. Len(topic) : t[i] = topic[i]
    BY <1>0, <2>2, Prefix
  <2> QED
    BY <2>1, <2>3, Zenon
<1>2. \A n \in Ids : Handouts(n) \subseteq Handouts(n)'
  BY <1>0, <1>1, HandoutsStay, Zenon
<1>3. \A h \in Handlers : step[h] \in Sending => current[h] \in 1 .. Len(topic)
  BY Zenon DEF HubInv, HandlerInv, Sending
<1>4. \A n \in Ids : ToSend(n)' \subseteq ToSend(n) /\ ToTry(n)' \subseteq ToTry(n)
  <2>1. \A h \in Handlers : step[h] \in Sending => Target(h)' = Target(h)
    BY <1>0, <1>1, <1>3, Zenon DEF Target
  <2>2. \A n \in Ids : ToSend(n)' \subseteq ToSend(n)
    BY <1>0, <2>1, Zenon DEF ToSend
  <2>3. ASSUME NEW n \in Ids, NEW x \in ToTry(n)' PROVE x \in ToTry(n)
    <3>1. /\ x \in Handlers \X (1 .. Bound) /\ x[1] \in Handlers /\ tried[x[1]] < x[2]
          /\ step[x[1]] \in Sending /\ Target(x[1])' = n
      BY <1>0 DEF ToTry
    <3>2. Target(x[1]) = n
      BY <2>1, <3>1, Zenon
    <3> QED
      BY <3>1, <3>2, Zenon DEF ToTry
  <2> QED
    BY <2>2, <2>3, Zenon
<1> QED
  BY <1>0, <1>2, <1>4, NoSendKeeps, Zenon

(* The pool starts a run.                                                    *)
LEMMA BeginSends ==
  ASSUME HubInv, HubTypes', RunInv, SendInv, NEW h \in Handlers, NEW i \in 1 .. Len(topic),
         Begin(h, i)
  PROVE  SendInv'
<1>0. /\ HubTypes /\ UNCHANGED <<topic, sent, doubtful, tried>> /\ step[h] = "idle"
      /\ handed[i] < MaxHandouts
      /\ step' = [step EXCEPT ![h] = "fetch"] /\ current' = [current EXCEPT ![h] = i]
      /\ handed' = [handed EXCEPT ![i] = handed[i] + 1]
      /\ handed \in [Indexes -> 0 .. MaxHandouts]
  BY Zenon DEF HubInv, SendInv, Begin, storeVars
<1>1. i \in Indexes /\ Len(topic) \in Nat /\ Len(topic) <= MaxLog
  <2>1. Len(topic) \in Nat /\ Len(topic) <= MaxLog
    BY <1>0 DEF HubTypes, RunInv
  <2> QED
    BY <2>1, StoreAssumption DEF Indexes
<1>2. /\ handed[i] \in Nat /\ handed[i] + 1 \in 1 .. MaxHandouts
      /\ handed[i] + 1 \in 0 .. MaxHandouts /\ ~(handed[i] + 1 <= handed[i])
  BY <1>0, <1>1, ProcessorAssumption
<1>3. handed' \in [Indexes -> 0 .. MaxHandouts] /\ handed'[i] = handed[i] + 1
  BY <1>0, <1>1, <1>2, Zenon
<1>4. \A k \in 1 .. Len(topic), j \in 1 .. MaxHandouts : j <= handed[k] => j <= handed'[k]
  <2> SUFFICES ASSUME NEW k \in 1 .. Len(topic), NEW j \in 1 .. MaxHandouts, j <= handed[k]
               PROVE  j <= handed'[k]
    BY Zenon
  <2>1. k \in Indexes
    BY <1>1, StoreAssumption DEF Indexes
  <2>2. CASE k = i
    BY <1>2, <1>3, <2>2
  <2>3. CASE k # i
    BY <1>0, <2>1, <2>3, Zenon
  <2> QED
    BY <2>2, <2>3, Zenon
<1>5. \A n \in Ids : Handouts(n) \subseteq Handouts(n)'
  BY <1>0, <1>4, Zenon DEF Handouts
<1>6. \A g \in Handlers : g # h => step'[g] = step[g] /\ current'[g] = current[g]
  BY <1>0, Zenon DEF HubTypes
<1>7. current'[h] = i /\ Target(h)' = topic[i].id
  BY <1>0, Zenon DEF HubTypes, Target
<1>8. ASSUME NEW n \in Ids
      PROVE  /\ sent'[n] + Cardinality(ToSend(n)') <= Cardinality(Handouts(n)')
             /\ Copies(n)' + Cardinality(ToTry(n)') <= Cardinality(Tries(n)')
  <2>1. /\ sent[n] \in Nat /\ sent'[n] = sent[n] /\ Copies(n)' = Copies(n) /\ doubtful[n] \in Nat
        /\ sent[n] + Cardinality(ToSend(n)) <= Cardinality(Handouts(n))
        /\ Copies(n) + Cardinality(ToTry(n)) <= Cardinality(Tries(n))
    BY <1>0, Zenon DEF HubTypes, SendInv, Copies
  <2>2. /\ IsFiniteSet(Handouts(n)') /\ IsFiniteSet(ToSend(n))
        /\ IsFiniteSet(Tries(n)') /\ IsFiniteSet(ToTry(n))
    BY <1>0, CountedFinite, Zenon
  <2>c. Copies(n) \in Nat /\ Tries(n) \subseteq Tries(n)'
    <3>1. Copies(n) \in Nat
      BY <2>1 DEF Copies
    <3> QED
      BY <1>5, <3>1, Zenon DEF Tries
  <2>3. CASE n = topic[i].id
    <3> DEFINE y == <<i, handed[i] + 1>>
    <3>1. y \in Handouts(n)'
      <4>1. handed[i] + 1 <= handed'[i]
        BY <1>2, <1>3
      <4> QED
        BY <1>0, <1>2, <2>3, <4>1 DEF Handouts
    <3>2. y \notin Handouts(n)
      BY <1>2 DEF Handouts
    <3> HIDE DEF y
    <3>3. ToSend(n)' \subseteq ToSend(n) \cup {h}
      BY <1>0, <1>6, Zenon DEF ToSend, Target
    <3>4. sent[n] + Cardinality(ToSend(n)') <= Cardinality(Handouts(n)')
      <4>1. IsFiniteSet({h}) /\ IsFiniteSet({y}) /\ Cardinality({h}) = Cardinality({y})
        BY FS_Singleton, Zenon
      <4>2. Handouts(n) \cap {y} = {} /\ {y} \subseteq Handouts(n)'
        BY <3>1, <3>2, Zenon
      <4> QED
        BY <1>5, <2>1, <2>2, <3>3, <4>1, <4>2, CountsStart, Zenon
    <3>5. ToTry(n)' \subseteq ToTry(n) \cup ({h} \X (1 .. Bound))
      <4> SUFFICES ASSUME NEW x \in ToTry(n)', x[1] # h PROVE x \in ToTry(n)
        <5>1. \A x \in ToTry(n)' : x[1] = h => x \in {h} \X (1 .. Bound)
          BY DEF ToTry
        <5> QED
          BY <5>1, Zenon
      <4>1. /\ x \in Handlers \X (1 .. Bound) /\ x[1] \in Handlers /\ tried'[x[1]] < x[2]
            /\ step'[x[1]] \in Sending /\ topic'[current'[x[1]]].id = n
        BY DEF ToTry, Target
      <4>2. step[x[1]] \in Sending /\ topic[current[x[1]]].id = n /\ tried[x[1]] < x[2]
        BY <1>0, <1>6, <4>1, Zenon
      <4> QED
        BY <4>1, <4>2, Zenon DEF ToTry, Target
    <3>6. Copies(n) + Cardinality(ToTry(n)') <= Cardinality(Tries(n)')
      <4> DEFINE A == {h} \X (1 .. Bound)
                 B == {y} \X (1 .. Bound)
      <4>1. IsFiniteSet(A) /\ IsFiniteSet(B) /\ Cardinality(A) = Cardinality(B)
        <5>1. /\ IsFiniteSet({h}) /\ IsFiniteSet({y}) /\ Cardinality({h}) = Cardinality({y})
          BY FS_Singleton, Zenon
        <5>2. IsFiniteSet(1 .. Bound)
          BY BoundType, FS_Interval
        <5>3. IsFiniteSet(A) /\ Cardinality(A) = Cardinality({h}) * Cardinality(1 .. Bound)
          BY <5>1, <5>2, FS_Product, Zenon
        <5>4. IsFiniteSet(B) /\ Cardinality(B) = Cardinality({y}) * Cardinality(1 .. Bound)
          BY <5>1, <5>2, FS_Product, Zenon
        <5> HIDE DEF A, B
        <5> QED
          BY <5>1, <5>3, <5>4, Zenon
      <4>2. Tries(n) \cap B = {} /\ B \subseteq Tries(n)'
        <5>1. \A x \in B : x[1] = y
          OBVIOUS
        <5>2. \A x \in Tries(n) : x[1] \in Handouts(n)
          BY DEF Tries
        <5>3. B \subseteq Tries(n)'
          BY <3>1, Zenon DEF Tries
        <5> HIDE DEF B
        <5> QED
          BY <3>2, <5>1, <5>2, <5>3, Zenon
      <4> HIDE DEF A, B
      <4>3. ToTry(n)' \subseteq ToTry(n) \cup A
        BY <3>5, Zenon DEF A
      <4> QED
        BY <2>1, <2>2, <2>c, <4>1, <4>2, <4>3, CountsStart, Zenon
    <3> QED
      BY <2>1, <3>4, <3>6, Zenon
  <2>4. CASE n # topic[i].id
    <3>1. ToSend(n)' \subseteq ToSend(n)
      BY <1>0, <1>6, <1>7, <2>4, Zenon DEF ToSend, Target
    <3>2. sent[n] + Cardinality(ToSend(n)') <= Cardinality(Handouts(n)')
      BY <1>5, <2>1, <2>2, <3>1, KeepsCount, Zenon
    <3>3. ASSUME NEW x \in ToTry(n)' PROVE x \in ToTry(n)
      <4>1. /\ x \in Handlers \X (1 .. Bound) /\ x[1] \in Handlers /\ tried'[x[1]] < x[2]
            /\ step'[x[1]] \in Sending /\ topic'[current'[x[1]]].id = n
        BY DEF ToTry, Target
      <4>2. x[1] # h
        BY <1>0, <1>7, <2>4, <4>1, Zenon
      <4>3. step[x[1]] \in Sending /\ Target(x[1]) = n /\ tried[x[1]] < x[2]
        BY <1>0, <1>6, <4>1, <4>2, Zenon DEF Target
      <4> QED
        BY <4>1, <4>3, Zenon DEF ToTry
    <3>4. Copies(n) + Cardinality(ToTry(n)') <= Cardinality(Tries(n)')
      <4>1. ToTry(n)' \subseteq ToTry(n)
        BY <3>3, Zenon
      <4> QED
        BY <2>1, <2>2, <2>c, <4>1, KeepsCount, Zenon
    <3> QED
      BY <2>1, <3>2, <3>4, Zenon
  <2> QED
    BY <2>3, <2>4, Zenon
<1> QED
  BY <1>0, <1>3, <1>8, Zenon DEF SendInv

(* A run goes on: it may send, and then it may not send again, or one time   *)
(* less.                                                                     *)
LEMMA RunSends ==
  ASSUME HubInv, HubTypes', SendInv, NEW h \in Handlers, Process(h), ProcStep(h)
  PROVE  SendInv'
<1>0. /\ HubTypes /\ UNCHANGED <<topic, handed>> /\ step[h] # "idle"
      /\ \A g \in Handlers : g # h =>
           step'[g] = step[g] /\ current'[g] = current[g] /\ tried'[g] = tried[g]
  <2>1. Within(h) /\ HubTypes
    BY StepsWithin, Zenon DEF HubInv
  <2>2. UNCHANGED tried \/ \E k : tried' = [tried EXCEPT ![h] = k]
    BY Zenon DEF ProcStep, ProcFetch, ProcMark, ProcCheck, ProcRender, ReturnError, Leave, ProcSend,
       Sent, SendFails, TryAgain, ProcLog, ProcDeadLetter, ProcStatus, ProcWebhook
  <2> QED
    BY <2>1, <2>2, Zenon DEF HubTypes, Within
<1>t. tried \in [Handlers -> Nat] /\ tried' \in [Handlers -> Nat] /\ doubtful \in [Ids -> Nat]
  BY <1>0, Zenon DEF HubTypes, SendInv
<1>1. step'[h] \in Sending =>
        step[h] \in Sending /\ current'[h] = current[h] /\ tried[h] <= tried'[h]
  BY SendsOnce, Zenon
<1>a. \A x, y, z \in Nat : x <= y /\ y < z => x < z
  OBVIOUS
<1>2. ASSUME NEW n
      PROVE  /\ ToSend(n)' \subseteq ToSend(n) /\ Handouts(n)' = Handouts(n)
             /\ Tries(n)' = Tries(n)
             /\ \A x \in ToTry(n)' :
                  /\ x \in ToTry(n) /\ x[1] \in Handlers /\ x[2] \in Nat
                  /\ step'[x[1]] \in Sending /\ tried'[x[1]] < x[2]
  <2>1. ToSend(n)' \subseteq ToSend(n) /\ Handouts(n)' = Handouts(n)
    BY <1>0, <1>1, Zenon DEF ToSend, Target, Handouts
  <2>2. ASSUME NEW x \in ToTry(n)'
        PROVE  /\ x \in ToTry(n) /\ x[1] \in Handlers /\ x[2] \in Nat
               /\ step'[x[1]] \in Sending /\ tried'[x[1]] < x[2]
    <3>1. /\ x \in Handlers \X (1 .. Bound) /\ x[1] \in Handlers /\ x[2] \in Nat
          /\ step'[x[1]] \in Sending /\ Target(x[1])' = n /\ tried'[x[1]] < x[2]
      BY BoundType DEF ToTry
    <3>2. step[x[1]] \in Sending /\ Target(x[1]) = n
      BY <1>0, <1>1, <3>1, Zenon DEF Target
    <3>3. tried[x[1]] < x[2]
      BY <1>0, <1>1, <1>a, <1>t, <3>1, Zenon
    <3> QED
      BY <3>1, <3>2, <3>3, Zenon DEF ToTry
  <2> QED
    BY <2>1, <2>2, Zenon DEF Tries
<1>3. CASE UNCHANGED <<sent, doubtful>>
  <2>1. \A n \in Ids : Handouts(n) \subseteq Handouts(n)' /\ ToTry(n)' \subseteq ToTry(n)
    BY <1>2, Zenon
  <2> QED
    BY <1>0, <1>2, <1>3, <2>1, NoSendKeeps, Zenon
<1>4. ASSUME NEW t \in Ids, t = Target(h), step[h] = "send",
             step'[h] \notin Sending \/ tried'[h] = tried[h] + 1,
             doubtful' \in [Ids -> Nat],
             \A n \in Ids \ {t} : sent'[n] = sent[n] /\ doubtful'[n] = doubtful[n],
             sent'[t] = sent[t] \/ (sent'[t] = sent[t] + 1 /\ step'[h] \notin Sending),
             Copies(t)' = Copies(t) + 1
      PROVE  SendInv'
  <2>1. ASSUME NEW n \in Ids
        PROVE  /\ sent'[n] + Cardinality(ToSend(n)') <= Cardinality(Handouts(n)')
               /\ Copies(n)' + Cardinality(ToTry(n)') <= Cardinality(Tries(n)')
    <3>1. /\ sent[n] \in Nat /\ doubtful[n] \in Nat
          /\ sent[n] + Cardinality(ToSend(n)) <= Cardinality(Handouts(n))
          /\ Copies(n) + Cardinality(ToTry(n)) <= Cardinality(Tries(n))
      BY <1>0, Zenon DEF HubTypes, SendInv
    <3>2. /\ IsFiniteSet(Handouts(n)) /\ IsFiniteSet(ToSend(n))
          /\ IsFiniteSet(Tries(n)) /\ IsFiniteSet(ToTry(n))
      BY <1>0, CountedFinite, Zenon
    <3>c. Copies(n) \in Nat
      BY <3>1 DEF Copies
    <3>w. ToTry(n)' \subseteq ToTry(n)
      BY <1>2, Zenon
    <3>3. sent[n] + Cardinality(ToSend(n)') <= Cardinality(Handouts(n))
      BY <1>2, <3>1, <3>2, KeepsCount, Zenon
    <3>4. CASE n # t
      <4>1. sent'[n] = sent[n] /\ Copies(n)' = Copies(n)
        BY <1>4, <3>4, Zenon DEF Copies
      <4>2. Copies(n) + Cardinality(ToTry(n)') <= Cardinality(Tries(n))
        BY <3>1, <3>2, <3>c, <3>w, KeepsCount, Zenon
      <4> QED
        BY <1>2, <3>3, <4>1, <4>2, Zenon
    <3>5. CASE n = t
      <4>1. sent'[n] + Cardinality(ToSend(n)') <= Cardinality(Handouts(n))
        <5>1. CASE sent'[n] = sent[n]
          BY <3>3, <5>1, Zenon
        <5>2. CASE sent'[n] = sent[n] + 1 /\ step'[h] \notin Sending
          <6>2. h \in ToSend(n) /\ ToSend(n)' \subseteq ToSend(n) \ {h}
            BY <1>2, <1>4, <3>5, <5>2, Zenon DEF ToSend, Sending
          <6>3. sent[n] + 1 + Cardinality(ToSend(n)') <= Cardinality(Handouts(n))
            BY <3>1, <3>2, <6>2, CountsSend, Zenon
          <6> QED
            BY <5>2, <6>3, Zenon
        <5> QED
          BY <1>4, <3>5, <5>1, <5>2, Zenon
      <4> DEFINE e == <<h, tried[h] + 1>>
      <4>2. e \in ToTry(n)
        <5>1. HandlerInv(h) /\ step[h] \notin Concluding /\ step[h] \in Sending
          BY <1>4, Zenon DEF HubInv, Concluding, Sending
        <5>2. tried[h] + 1 <= Bound /\ tried[h] \in Nat
          BY <1>t, <5>1, Zenon DEF HandlerInv
        <5>3. tried[h] + 1 \in 1 .. Bound /\ tried[h] < tried[h] + 1
          BY <5>2, BoundType
        <5> QED
          BY <1>4, <3>5, <5>1, <5>3 DEF ToTry
      <4>3. e \notin ToTry(n)'
        <5>1. CASE step'[h] \notin Sending
          BY <5>1 DEF ToTry
        <5>2. CASE tried'[h] = tried[h] + 1
          BY <1>t, <5>2 DEF ToTry
        <5> QED
          BY <1>4, <5>1, <5>2, Zenon
      <4> HIDE DEF e
      <4>4. ToTry(n)' \subseteq ToTry(n) \ {e}
        BY <3>w, <4>3, Zenon
      <4>5. Copies(n) + 1 + Cardinality(ToTry(n)') <= Cardinality(Tries(n))
        BY <3>1, <3>2, <3>c, <4>2, <4>4, CountsSend, Zenon
      <4> QED
        BY <1>2, <1>4, <3>5, <4>1, <4>5, Zenon
    <3> QED
      BY <3>4, <3>5, Zenon
  <2> QED
    BY <1>0, <1>4, <2>1, Zenon DEF SendInv
<1>5. CASE step[h] = "send"
  <2>0. PICK t \in Ids : t = Target(h)
    BY <1>5, TargetType, Zenon
  <2>1. /\ sent \in [Ids -> Nat] /\ sent[t] \in Nat /\ doubtful[t] \in Nat
    BY <1>0, <1>t, Zenon DEF HubTypes
  <2>2. CASE /\ step'[h] \notin Sending /\ UNCHANGED doubtful
             /\ sent' = [sent EXCEPT ![t] = sent[t] + 1]
    <3>1. sent'[t] = sent[t] + 1 /\ \A n \in Ids \ {t} : sent'[n] = sent[n]
      BY <2>1, <2>2, Zenon
    <3>2. Copies(t)' = Copies(t) + 1
      BY <2>1, <2>2, <3>1 DEF Copies
    <3> QED
      BY <1>4, <1>5, <1>t, <2>0, <2>2, <3>1, <3>2, Zenon
  <2>3. CASE /\ tried'[h] = tried[h] + 1 /\ UNCHANGED sent
             /\ doubtful' = [doubtful EXCEPT ![t] = doubtful[t] + 1]
    <3>1. doubtful'[t] = doubtful[t] + 1 /\ \A n \in Ids \ {t} : doubtful'[n] = doubtful[n]
      BY <1>t, <2>3, Zenon
    <3>2. doubtful' \in [Ids -> Nat]
      BY <1>t, <2>1, <2>3
    <3>3. Copies(t)' = Copies(t) + 1
      BY <2>1, <2>3, <3>1 DEF Copies
    <3> QED
      BY <1>4, <1>5, <2>0, <2>3, <3>1, <3>2, <3>3, Zenon
  <2> QED
    BY <1>3, <2>0, <2>2, <2>3, SendsOnce, Zenon
<1> QED
  BY <1>3, <1>5, SendsOnce, Zenon

(* Nothing was sent at the start.                                            *)
LEMMA SendsStart == Init => SendInv
<1> SUFFICES ASSUME Init PROVE SendInv
  BY Zenon
<1>1. handed \in [Indexes -> 0 .. MaxHandouts] /\ doubtful \in [Ids -> Nat]
  BY ProcessorAssumption DEF Init, ProcessorInit
<1>2. ASSUME NEW n \in Ids
      PROVE  /\ sent[n] + Cardinality(ToSend(n)) <= Cardinality(Handouts(n))
             /\ Copies(n) + Cardinality(ToTry(n)) <= Cardinality(Tries(n))
  <2>1. sent[n] = 0 /\ doubtful[n] = 0 /\ ToSend(n) = {}
    BY Zenon DEF Init, ProcessorInit, ToSend, Sending
  <2>2. Handouts(n) = {}
    <3>1. 1 .. Len(topic) = {}
      BY DEF Init, StoreInit
    <3> QED
      BY <3>1, Zenon DEF Handouts
  <2>3. Cardinality({}) = 0
    BY FS_EmptySet, Zenon
  <2>4. ToTry(n) = {}
    BY DEF Init, ProcessorInit, ToTry, Sending
  <2>5. Tries(n) = {}
    BY <2>2 DEF Tries
  <2>6. Copies(n) = 0
    BY <2>1 DEF Copies
  <2> QED
    BY <2>1, <2>2, <2>3, <2>4, <2>5, <2>6
<1> QED
  BY <1>1, <1>2, Zenon DEF SendInv

(* Every step of requests, schedulers and workers keeps SendInv.             *)
LEMMA SendsNext == HubInv /\ RunInv /\ SendInv /\ [Next]_vars => SendInv'
<1> SUFFICES ASSUME HubInv, RunInv, SendInv, [Next]_vars PROVE SendInv'
  BY Zenon
<1>0. HubTypes /\ HubTypes'
  BY HubNext, Zenon DEF HubInv
<1>1. ASSUME NEW h \in Handlers, Process(h) PROVE SendInv'
  <2>1. CASE ProcStep(h)
    BY <1>0, <1>1, <2>1, RunSends, Zenon
  <2>2. CASE ProcBegin(h)
    BY <1>0, <2>2, BeginSends, Zenon DEF ProcBegin
  <2> QED
    BY <1>1, <2>1, <2>2, Zenon DEF Process
<1>2. CASE WorkerCrash
  <2>1. UNCHANGED <<topic, handed, sent, doubtful>> /\ \A h \in Handlers : step'[h] = "idle"
    BY <1>2, Zenon DEF WorkerCrash, ProcCrash, storeVars
  <2>2. \A n : ToSend(n)' \subseteq ToSend(n) /\ Handouts(n)' = Handouts(n)
    BY <2>1, Zenon DEF ToSend, Sending, Handouts
  <2>3. ASSUME NEW n, NEW x \in ToTry(n)' PROVE FALSE
    <3>1. x[1] \in Handlers /\ step'[x[1]] \in Sending
      BY <2>3 DEF ToTry
    <3> QED
      BY <2>1, <3>1, Zenon DEF Sending
  <2>4. \A n : ToTry(n)' \subseteq ToTry(n)
    BY <2>3, Zenon
  <2> QED
    BY <1>0, <2>1, <2>2, <2>4, NoSendKeeps, Zenon
<1>3. ASSUME Outside PROVE SendInv'
  BY <1>0, <1>3, OutsideSends, Zenon DEF Outside
<1> QED
  BY <1>0, <1>1, <1>2, <1>3, OthersOutside, Zenon DEF Next, CalmNext

(* The count implies the property.                                           *)
LEMMA SendsCounted == HubInv /\ SendInv => CopiesAreBounded
<1> SUFFICES ASSUME HubInv, SendInv, NEW n \in Ids
             PROVE  /\ sent[n] <= Cardinality(Handouts(n))
                    /\ Copies(n) <= Bound * Cardinality(Handouts(n))
  BY Zenon DEF CopiesAreBounded
<1>1. HubTypes /\ Len(topic) \in Nat
  BY DEF HubInv, HubTypes
<1>2. /\ Handouts(n) \subseteq (1 .. Len(topic)) \X (1 .. MaxHandouts)
      /\ ToSend(n) \subseteq Handlers /\ IsFiniteSet(Handlers)
      /\ ToTry(n) \subseteq Handlers \X (1 .. Bound)
  BY ProcessorAssumption, Zenon DEF Handouts, ToSend, ToTry
<1>3. IsFiniteSet(1 .. Bound) /\ Cardinality(1 .. Bound) = Bound
  BY BoundType, FS_Interval
<1>4. IsFiniteSet(Handouts(n)) /\ IsFiniteSet(ToSend(n)) /\ IsFiniteSet(ToTry(n))
  <2>1. IsFiniteSet(Handlers \X (1 .. Bound))
    BY <1>2, <1>3, FS_Product, Zenon
  <2> QED
    BY <1>1, <1>2, <2>1, StartsFinite, FS_Subset, Zenon
<1>5. /\ Cardinality(Handouts(n)) \in Nat /\ Cardinality(ToSend(n)) \in Nat
      /\ Cardinality(ToTry(n)) \in Nat
  BY <1>4, FS_CardinalityType, Zenon
<1>6. Cardinality(Tries(n)) = Cardinality(Handouts(n)) * Bound
  BY <1>3, <1>4, FS_Product, Zenon DEF Tries
<1>7. /\ sent[n] \in Nat /\ sent[n] + Cardinality(ToSend(n)) <= Cardinality(Handouts(n))
      /\ doubtful[n] \in Nat /\ Copies(n) + Cardinality(ToTry(n)) <= Cardinality(Tries(n))
  BY <1>1, Zenon DEF HubTypes, SendInv
<1>8. Copies(n) \in Nat
  BY <1>7 DEF Copies
<1>9. Cardinality(Handouts(n)) * Bound = Bound * Cardinality(Handouts(n))
  BY <1>5, BoundType
<1>10. Cardinality(Tries(n)) \in Nat
  BY <1>5, <1>6, BoundType
<1>11. Copies(n) <= Cardinality(Tries(n))
  BY <1>5, <1>7, <1>8, <1>10
<1>12. sent[n] <= Cardinality(Handouts(n))
  BY <1>5, <1>7
<1> QED
  BY <1>6, <1>9, <1>11, <1>12, Zenon

(* What a provider gets of a notification is paid for by starts of Process   *)
(* on a message of it, whatever errors, retries and crashes there are: one   *)
(* send that succeeds for each start, because a run leaves sendWithRetry     *)
(* with its first success, and as many sends as the attempts of one run,     *)
(* the ones included that failed after the provider had taken the message.   *)
THEOREM SendsArePaidFor == Spec => []CopiesAreBounded
  BY HubInit, HubNext, RunsStart, RunsNext, SendsStart, SendsNext, SendsCounted, PTL DEF Spec

-----------------------------------------------------------------------------
(* The parts together. *)

WholeInv ==
  /\ HubInv /\ RequestInv /\ RunInv /\ LetterInv /\ SendInv
  /\ Types /\ ConsumerInv /\ ReplayInv

(* Every part has its initial state.                                         *)
LEMMA WholeStart == RecoveryInit => WholeInv
<1>1. RecoveryInit => Init /\ LetterInit
  BY Zenon DEF RecoveryInit, Init, LetterInit
<1> QED
  BY <1>1, HubInit, RequestsStart, RunsStart, LettersStart, SendsStart, TypesInit, ConsumerInit,
     ReplayInit, Zenon DEF WholeInv

(* Requests, schedulers and workers only add to the topics that the consumer *)
(* and the operators know.                                                   *)
LEMMA HubStep ==
  ASSUME WholeInv, [Next]_vars, UNCHANGED deadLetterVars
  PROVE  WholeInv'
<1>1. HubInv /\ RequestInv /\ RunInv /\ LetterInv /\ SendInv /\ Types /\ ConsumerInv /\ ReplayInv
  BY Zenon DEF WholeInv
<1>2. HubInv' /\ RequestInv' /\ RunInv' /\ LetterInv' /\ SendInv'
  BY <1>1, HubNext, RequestsNext, RunsNext, LettersNext, SendsNext, Zenon
<1>3. StoreTypeOK'
  BY <1>2, Zenon DEF HubInv, HubTypes, RequestInv, RowTypes, RunInv, LetterInv, StoreTypeOK
<1>4. topic \in Seq(Message) /\ dlqTopic \in Seq(Message)
  BY <1>1, Zenon DEF HubInv, HubTypes
<1>5. Len(topic) <= Len(topic') /\ \A i \in 1 .. Len(topic) : topic'[i] = topic[i]
  <2>1. PICK t : t = topic'
    BY Zenon
  <2>2. t = topic \/ \E m \in Message : t = Append(topic, m)
    BY <1>1, <2>1, TopicGrows, Zenon
  <2>3. /\ Len(topic) \in Nat /\ Len(t) \in Nat /\ Len(topic) <= Len(t)
        /\ \A i \in 1 .. Len(topic) : t[i] = topic[i]
    BY <1>4, <2>2, Prefix
  <2> QED
    BY <2>1, <2>3, Zenon
<1>6. UNCHANGED dlqTopic \/ \E m \in Message : dlqTopic' = Append(dlqTopic, m)
  <2>1. \A h \in Handlers : step[h] = "deadletter" => topic[current[h]] \in Message
    BY <1>1, TargetType, Zenon
  <2> QED
    BY <1>1, <2>1, LettersGrow, Zenon
<1>7. Len(dlqTopic) <= Len(dlqTopic') /\ \A i \in 1 .. Len(dlqTopic) : dlqTopic'[i] = dlqTopic[i]
  <2>1. PICK t : t = dlqTopic'
    BY Zenon
  <2>2. t = dlqTopic \/ \E m \in Message : t = Append(dlqTopic, m)
    BY <1>6, <2>1, Zenon
  <2>3. /\ Len(dlqTopic) \in Nat /\ Len(t) \in Nat /\ Len(dlqTopic) <= Len(t)
        /\ \A i \in 1 .. Len(dlqTopic) : t[i] = dlqTopic[i]
    BY <1>4, <2>2, Prefix
  <2> QED
    BY <2>1, <2>3, Zenon
<1>8. Types' /\ ConsumerInv' /\ ReplayInv'
  BY <1>1, <1>3, <1>5, <1>7, GrowthKeeps, Zenon
<1> QED
  BY <1>2, <1>8, Zenon DEF WholeInv

(* A replay puts back a message that was in the channel topic before.        *)
LEMMA ReplayStep ==
  ASSUME WholeInv, NEW a \in Admins, ReplayPublish(a), ~UNCHANGED storeVars, UNCHANGED hubOnlyVars
  PROVE  HubInv' /\ RequestInv' /\ RunInv' /\ LetterInv' /\ SendInv'
<1>1. HubInv /\ RequestInv /\ RunInv /\ LetterInv /\ SendInv /\ Types
  BY Zenon DEF WholeInv
<1>2. request[a].pc = "publish" /\ Publish(dlqTopic[records[request[a].record].entry])
  BY Zenon DEF ReplayPublish
<1>3. /\ records[request[a].record].entry \in 1 .. Len(dlqTopic)
      /\ dlqTopic[records[request[a].record].entry] \in Message
  BY <1>1, <1>2, RequestTypes, Zenon
<1>4. PICK m \in Message : Publish(m) /\ Published(m.id)
  BY <1>1, <1>2, <1>3, Zenon DEF LetterInv
<1>5. /\ topic' = Append(topic, m) /\ Len(topic) < MaxLog
      /\ UNCHANGED <<status, columns, dlqTopic, serviceVars, schedulerVars, processorVars, recalled>>
  BY <1>4, Zenon DEF Publish, hubOnlyVars
<1>6. HubInv' /\ RequestInv' /\ RunInv'
  BY <1>1, <1>4, <1>5, RepublishKeeps, Zenon
<1>7. LetterInv'
  <2>1. topic \in Seq(Message)
    BY <1>1, Zenon DEF HubInv, HubTypes
  <2>2. \A n : Published(n) => Published(n)'
    BY <1>5, <2>1, PublishAdds, Zenon DEF MayPublish
  <2> QED
    BY <1>1, <1>5, <2>2, Zenon DEF LetterInv
<1>8. SendInv'
  BY <1>1, <1>5, <1>6, OutsideSends, Zenon DEF HubInv
<1> QED
  BY <1>6, <1>7, <1>8, Zenon

(* The consumer and the operators leave requests and workers alone, but for  *)
(* replays.                                                                  *)
LEMMA LetterStep ==
  ASSUME WholeInv, Consume \/ ConsumerFault \/ Administer
  PROVE  WholeInv'
<1>1. HubInv /\ RequestInv /\ RunInv /\ LetterInv /\ SendInv /\ Types /\ ConsumerInv /\ ReplayInv
  BY Zenon DEF WholeInv
<1>2. DeadLetterNext /\ UNCHANGED hubOnlyVars
  BY Zenon DEF Consume, ConsumerFault, Administer, DeadLetterNext
<1>3. Types' /\ ConsumerInv' /\ ReplayInv'
  BY <1>1, <1>2, TypesNext, ConsumerNext, ReplayNext, Zenon
<1>4. UNCHANGED storeVars \/ \E a \in Admins : ReplayPublish(a)
  BY Zenon DEF Consume, ConsumerFault, Administer, DLQRun, DLQFetch, DLQSkip, DLQPersist, DLQCommit,
               DLQRestart, DLQRebalance, AdminStep, ReplayRead, ReplayMark, DeleteRecord
<1>5. CASE UNCHANGED storeVars
  <2>1. [Next]_vars
    BY <1>2, <1>5, Zenon DEF vars, hubOnlyVars
  <2>2. HubInv' /\ RequestInv' /\ RunInv' /\ LetterInv' /\ SendInv'
    BY <1>1, <2>1, HubNext, RequestsNext, RunsNext, LettersNext, SendsNext, Zenon
  <2> QED
    BY <1>3, <2>2, Zenon DEF WholeInv
<1>6. CASE ~UNCHANGED storeVars
  BY <1>2, <1>3, <1>4, <1>6, ReplayStep, Zenon DEF WholeInv
<1> QED
  BY <1>5, <1>6, Zenon

(* Every step keeps WholeInv.                                                *)
LEMMA WholeStep == WholeInv /\ [WholeNext]_recoveryVars => WholeInv'
<1> SUFFICES ASSUME WholeInv, [WholeNext]_recoveryVars PROVE WholeInv'
  BY Zenon
<1>1. \/ [Next]_vars /\ UNCHANGED deadLetterVars
      \/ Consume \/ ConsumerFault \/ Administer
  BY Zenon DEF WholeNext, RecoveryNext, Operate, Next, recoveryVars
<1> QED
  BY <1>1, HubStep, LetterStep, Zenon

(* WholeInv holds in every state.                                            *)
LEMMA WholeCorrect == WholeSpec => []WholeInv
  BY WholeStart, WholeStep, PTL DEF WholeSpec

(* A run of Process sends at most once also when operators replay: every     *)
(* replay is one more message, and every send needs a start of its own       *)
(* (Replay, sendWithRetry).                                                  *)
THEOREM ReplaysArePaidFor == WholeSpec => []CopiesAreBounded
<1>1. WholeInv => CopiesAreBounded
  BY SendsCounted, Zenon DEF WholeInv
<1> QED
  BY <1>1, WholeCorrect, PTL

(* Replays, deletes, the consumer and crashes do not make the records of     *)
(* Process untrue: what is delivered was sent, what failed is in the         *)
(* dead-letter topic, and a run keeps to its attempts (deliver, Replay).     *)
THEOREM RecordsStayTrue == WholeSpec => [](DeliveredWasSent /\ FailedIsDeadLettered /\ RetryBounded)
<1>1. WholeInv => DeliveredWasSent /\ FailedIsDeadLettered /\ RetryBounded
  BY Zenon DEF WholeInv, HubInv, HandlerInv, RetryBounded, Bound
<1> QED
  BY <1>1, WholeCorrect, PTL

(* A replay never brings back what was recalled before it was due, and never *)
(* touches the answers: the dead-letter topic holds nothing of a             *)
(* notification that no worker has seen (Cancel, Replay, Send).              *)
THEOREM AnswersStayTrue ==
  WholeSpec => [](IdempotentAnswers /\ RecalledIsNotEnqueued /\ AnsweredIsEnqueued)
<1>1. WholeInv => IdempotentAnswers /\ RecalledIsNotEnqueued /\ AnsweredIsEnqueued
  BY OneAnswer, RecalledStays, AnsweredStays, Zenon DEF WholeInv
<1> QED
  BY <1>1, WholeCorrect, PTL

(* With replays too, an outcome on a row that was not cancelled is           *)
(* overwritten only by the queued mark of whoever published the row, or once *)
(* Process was started on the row a second time (Replay, Process).           *)
THEOREM OutcomesAreKeptInAll == WholeSpec => OutcomeIsKept
<1>1. WholeInv /\ [WholeNext]_recoveryVars => [KeepsOutcome]_vars
  <2> SUFFICES ASSUME WholeInv, [WholeNext]_recoveryVars PROVE [KeepsOutcome]_vars
    BY Zenon
  <2>1. \/ [Next]_vars
        \/ DLQRun \/ DLQRestart \/ DLQRebalance \/ AdminStep
    BY Zenon DEF WholeNext, RecoveryNext, Operate, Consume, ConsumerFault, Administer, Next, recoveryVars
  <2>2. CASE [Next]_vars
    BY <2>2, OutcomesStay, Zenon DEF WholeInv
  <2>3. CASE DLQRun \/ DLQRestart \/ DLQRebalance \/ AdminStep
    <3>1. UNCHANGED status
      BY <2>3, Zenon DEF DLQRun, DLQFetch, DLQSkip, DLQPersist, DLQCommit, DLQRestart, DLQRebalance,
           AdminStep, ReplayRead, ReplayPublish, ReplayMark, DeleteRecord, Publish, storeVars
    <3> QED
      BY <3>1, Zenon DEF KeepsOutcome
  <2> QED
    BY <2>1, <2>2, <2>3, Zenon
<1> QED
  BY <1>1, WholeCorrect, PTL DEF WholeSpec, OutcomeIsKept, KeepsOutcome

(* With the real producers of the dead-letter topic, and with others writing *)
(* to the channel topic at the same time, the consumer skips nothing and a   *)
(* row that says replayed has put its message back (DLQConsumer.Run,         *)
(* Replay).                                                                  *)
THEOREM LettersAreKeptInAll == WholeSpec => [](PersistedOrRefused /\ ReplayedWasPublished)
<1>1. WholeInv => PersistedOrRefused
  BY Zenon DEF WholeInv, ConsumerInv, PersistedOrRefused, Accounted
<1>2. WholeInv => ReplayedWasPublished
  BY ReplayedStays, Zenon DEF WholeInv
<1> QED
  BY <1>1, <1>2, WholeCorrect, PTL

(* Every message an operator can replay and every message a worker can get   *)
(* names a row that was inserted (Send, tick, deadLetter, Replay).           *)
THEOREM MessagesAreOfRowsInAll == WholeSpec => []MessagesHaveRows
<1>1. WholeInv => MessagesHaveRows
  BY RowsOfMessages, Zenon DEF WholeInv
<1> QED
  BY <1>1, WholeCorrect, PTL
=============================================================================
