---------------------------- MODULE WorkerProofs ----------------------------
(***************************************************************************)
(* Proofs about the worker program: about WorkerPool, for any set of       *)
(* workers and any number of messages and faults, and about Processes, for *)
(* every set of settings and any number of restarts, signals and crashes   *)
(* of both programs.                                                       *)
(***************************************************************************)
EXTENDS WorkerPool, Processes, FiniteSetTheorems, TLAPS

(* The capacity of the work channel.                                         *)
LEMMA ConcurrencyType == Concurrency \in Nat
  BY PoolAssumption, FS_CardinalityType, Zenon DEF Concurrency

(* What a channel of members of S holds.                                     *)
LEMMA Members == ASSUME NEW S, NEW s \in Seq(S) PROVE \A i \in 1 .. Len(s) : s[i] \in S
  OBVIOUS

-----------------------------------------------------------------------------
(* WorkerPool: the inductive invariant. *)

\* What each phase of Run means for its goroutines: nothing is fetched once
\* the loop has ended, a worker leaves only an empty closed channel, a stopped
\* pool has only workers that left, and a dead process holds nothing.
PhaseInv ==
  /\ phase # "running" => fetched = None
  /\ \A w \in Workers : stage[w] = "exited" => phase \in {"draining", "stopped"} /\ work = <<>>
  /\ phase = "stopped" => \A w \in Workers : stage[w] = "exited"
  /\ phase = "down" => work = <<>> /\ \A w \in Workers : stage[w] = "idle"

\* A worker commits only what Process returned nil for.
CommitInv == \A w \in Workers : stage[w] = "committing" => item[w] \in completed

\* Every offset below that of an accounted message is accounted for, and so is
\* every offset below the reader's position and below the group's offset.
AccountInv ==
  /\ \A a \in Accounted : \A o \in 0 .. a - 1 : o \in Accounted
  /\ \A o \in 0 .. position - 1 : o \in Accounted
  /\ NoUnexplainedLoss

IInv == TypeOK /\ PhaseInv /\ CommitInv /\ AccountInv

-----------------------------------------------------------------------------
(* Initially, and one step of the pool.  Each lemma has one case per action. *)

LEMMA InitInv == Init => IInv
<1> SUFFICES ASSUME Init PROVE IInv
  BY Zenon
<1>0. work \in Seq(0 .. logEnd - 1) /\ Len(work) <= Concurrency
  BY ConcurrencyType DEF Init
<1>1. TypeOK
  <2>1. item \in [Workers -> 0 .. logEnd - 1 \cup {None}]
    BY Zenon DEF Init
  <2>2. stage \in [Workers -> {"idle", "exited"} \cup Holding]
    BY Zenon DEF Init
  <2>3. \A w \in Workers : item[w] = None <=> stage[w] \notin Holding
    BY Zenon DEF Init, Holding
  <2>4. cancelled \in BOOLEAN
    BY Zenon DEF Init
  <2> QED
    BY <1>0, <2>1, <2>2, <2>3, <2>4, PoolAssumption DEF Init, TypeOK, None
<1>a. PhaseInv /\ CommitInv
  BY Zenon DEF Init, PhaseInv, CommitInv
<1>2. Accounted = {}
  BY DEF Init, Accounted, InFlight, None, Holding
<1>3. AccountInv
  BY <1>2 DEF Init, AccountInv, NoUnexplainedLoss
<1> QED
  BY <1>1, <1>a, <1>3, Zenon DEF IInv

LEMMA TypeStep == TypeOK /\ PhaseInv /\ [Next]_vars => TypeOK'
<1> SUFFICES ASSUME TypeOK, PhaseInv, [Next]_vars PROVE TypeOK'
  BY Zenon
<1> USE PoolAssumption, ConcurrencyType DEF None, Holding, TypeOK
<1>1. CASE Publish
  <2>1. work \in Seq(0 .. logEnd')
    BY <1>1 DEF Publish
  <2> QED
    BY <1>1, <2>1, SMTT(30) DEF Publish, historyVars
<1>2. CASE Fetch
  BY <1>2 DEF Fetch, historyVars
<1>3. CASE SkipPoison
  BY <1>3 DEF SkipPoison
<1>4. CASE Dispatch
  BY <1>4 DEF Dispatch, brokerVars, historyVars
<1>5. CASE FetchStop
  BY <1>5, Zenon DEF FetchStop, brokerVars, historyVars
<1>6. CASE Close
  BY <1>6, Zenon DEF Close, brokerVars, historyVars
<1>7. ASSUME NEW w \in Workers, Take(w) PROVE TypeOK'
  BY <1>7 DEF Take, brokerVars, historyVars
<1>8. ASSUME NEW w \in Workers, ProcessNil(w) PROVE TypeOK'
  BY <1>8, Zenon DEF ProcessNil, brokerVars
<1>9. ASSUME NEW w \in Workers, ProcessError(w) PROVE TypeOK'
  BY <1>9, Zenon DEF ProcessError, brokerVars
<1>10. ASSUME NEW w \in Workers, Commit(w) PROVE TypeOK'
  BY <1>10 DEF Commit, historyVars
<1>11. ASSUME NEW w \in Workers, Exit(w) PROVE TypeOK'
  BY <1>11, Zenon DEF Exit, brokerVars, historyVars
<1>12. CASE Stop
  BY <1>12 DEF Stop, brokerVars, historyVars
<1>13. CASE Crash
  <2>1. InFlight \subseteq 0 .. logEnd - 1
    <3>1. \A w \in Workers : stage[w] \in Holding => item[w] \in 0 .. logEnd - 1
      BY Zenon
    <3>2. \A i \in 1 .. Len(work) : work[i] \in 0 .. logEnd - 1
      OBVIOUS
    <3>3. fetched # None => fetched \in 0 .. logEnd - 1
      BY Zenon
    <3> HIDE DEF TypeOK, Holding, None
    <3> QED
      BY <3>1, <3>2, <3>3, Zenon DEF InFlight
  <2>2. /\ abandoned' = abandoned \cup InFlight /\ fetched' = None /\ work' = <<>>
        /\ phase' = "down" /\ faults < MaxFaults /\ faults' = faults + 1
        /\ stage' = [w \in Workers |-> "idle"] /\ item' = [w \in Workers |-> None]
        /\ UNCHANGED <<logEnd, committed, position, cancelled, completed, failed>>
    BY <1>13, Zenon DEF Crash, brokerVars
  <2>3. abandoned' \subseteq 0 .. logEnd - 1
    BY <2>1, <2>2, Zenon
  <2>4. work' \in Seq(0 .. logEnd - 1) /\ Len(work') <= Concurrency
    BY <2>2
  <2> QED
    BY <2>2, <2>3, <2>4
<1>14. CASE Restart
  BY <1>14, Zenon DEF Restart, PhaseInv, historyVars
<1>15. CASE Rebalance
  BY <1>15 DEF Rebalance, historyVars
<1>16. CASE UNCHANGED vars
  BY <1>16, Zenon DEF vars
<1> QED
  BY <1>1, <1>2, <1>3, <1>4, <1>5, <1>6, <1>7, <1>8, <1>9, <1>10, <1>11, <1>12,
     <1>13, <1>14, <1>15, <1>16, Zenon DEF Next, FetchLoop, RunWorker

LEMMA PhaseStep == TypeOK /\ PhaseInv /\ [Next]_vars => PhaseInv'
<1> SUFFICES ASSUME TypeOK, PhaseInv, [Next]_vars PROVE PhaseInv'
  BY Zenon
<1> USE PoolAssumption DEF None, Holding, PhaseInv, TypeOK
<1>1. CASE Publish
  BY <1>1, Zenon DEF Publish
<1>2. CASE Fetch
  BY <1>2, Zenon DEF Fetch
<1>3. CASE SkipPoison
  BY <1>3, Zenon DEF SkipPoison
<1>4. CASE Dispatch
  BY <1>4, Zenon DEF Dispatch
<1>5. CASE FetchStop
  BY <1>5, Zenon DEF FetchStop
<1>6. CASE Close
  BY <1>6, Zenon DEF Close
<1>7. ASSUME NEW w \in Workers, Take(w) PROVE PhaseInv'
  BY <1>7, Zenon DEF Take
<1>8. ASSUME NEW w \in Workers, ProcessNil(w) PROVE PhaseInv'
  BY <1>8, Zenon DEF ProcessNil
<1>9. ASSUME NEW w \in Workers, ProcessError(w) PROVE PhaseInv'
  BY <1>9, Zenon DEF ProcessError
<1>10. ASSUME NEW w \in Workers, Commit(w) PROVE PhaseInv'
  BY <1>10, Zenon DEF Commit
<1>11. ASSUME NEW w \in Workers, Exit(w) PROVE PhaseInv'
  BY <1>11, Zenon DEF Exit
<1>12. CASE Stop
  BY <1>12, Zenon DEF Stop
<1>13. CASE Crash
  BY <1>13, Zenon DEF Crash
<1>14. CASE Restart
  BY <1>14, Zenon DEF Restart
<1>15. CASE Rebalance
  BY <1>15, Zenon DEF Rebalance
<1>16. CASE UNCHANGED vars
  BY <1>16, Zenon DEF vars
<1> QED
  BY <1>1, <1>2, <1>3, <1>4, <1>5, <1>6, <1>7, <1>8, <1>9, <1>10, <1>11, <1>12,
     <1>13, <1>14, <1>15, <1>16 DEF Next, FetchLoop, RunWorker

LEMMA CommitStep == TypeOK /\ CommitInv /\ [Next]_vars => CommitInv'
<1> SUFFICES ASSUME TypeOK, CommitInv, [Next]_vars PROVE CommitInv'
  BY Zenon
<1> USE DEF CommitInv, TypeOK
<1>1. CASE Publish \/ Fetch \/ Dispatch \/ FetchStop \/ Close \/ Stop \/ Rebalance
  BY <1>1, Zenon DEF Publish, Fetch, Dispatch, FetchStop, Close, Stop, Rebalance, historyVars
<1>2. CASE SkipPoison
  BY <1>2, Zenon DEF SkipPoison
<1>3. ASSUME NEW w \in Workers, Take(w) PROVE CommitInv'
  BY <1>3, Zenon DEF Take, historyVars
<1>4. ASSUME NEW w \in Workers, ProcessNil(w) PROVE CommitInv'
  BY <1>4, Zenon DEF ProcessNil
<1>5. ASSUME NEW w \in Workers, ProcessError(w) PROVE CommitInv'
  BY <1>5, Zenon DEF ProcessError
<1>6. ASSUME NEW w \in Workers, Commit(w) PROVE CommitInv'
  BY <1>6, Zenon DEF Commit, historyVars
<1>7. ASSUME NEW w \in Workers, Exit(w) PROVE CommitInv'
  BY <1>7, Zenon DEF Exit, historyVars
<1>8. CASE Crash
  BY <1>8, Zenon DEF Crash
<1>9. CASE Restart
  BY <1>9, Zenon DEF Restart, historyVars
<1>10. CASE UNCHANGED vars
  BY <1>10, Zenon DEF vars
<1> QED
  BY <1>1, <1>2, <1>3, <1>4, <1>5, <1>6, <1>7, <1>8, <1>9, <1>10
  DEF Next, FetchLoop, RunWorker

\* Where a step puts messages: none of them loses its account, and only Fetch
\* adds one, the message at the reader's position.
LEMMA AccountedStep ==
  ASSUME TypeOK, PhaseInv, CommitInv, [Next]_vars
  PROVE  /\ Fetch => Accounted' = Accounted \cup {position}
         /\ ~Fetch => Accounted' = Accounted
<1> USE DEF Accounted, InFlight, TypeOK, Holding, None
<1>1. ASSUME Publish \/ FetchStop \/ Close \/ Stop \/ Rebalance PROVE Accounted' = Accounted
  BY <1>1 DEF Publish, FetchStop, Close, Stop, Rebalance, historyVars
<1>2. ASSUME Fetch PROVE Accounted' = Accounted \cup {position}
  BY <1>2 DEF Fetch, historyVars
<1>3. ASSUME SkipPoison PROVE Accounted' = Accounted
  BY <1>3, PoolAssumption DEF SkipPoison
<1>4. ASSUME Dispatch PROVE Accounted' = Accounted
  <2> DEFINE queue == {work[i] : i \in 1 .. Len(work)}
  <2>1. /\ Len(work) \in Nat /\ Len(work') = Len(work) + 1
        /\ work'[Len(work) + 1] = fetched
        /\ \A i \in 1 .. Len(work) : work'[i] = work[i]
    BY <1>4 DEF Dispatch
  <2>2. queue' = queue \cup {fetched}
    <3>1. ASSUME NEW x \in queue' PROVE x \in queue \cup {fetched}
      <4>1. PICK i \in 1 .. Len(work') : x = work'[i]
        BY <3>1, Zenon
      <4> HIDE DEF Accounted, InFlight, TypeOK, Holding, None
      <4>2. i \in 1 .. Len(work) \/ i = Len(work) + 1
        BY <2>1
      <4>3. CASE i \in 1 .. Len(work)
        BY <2>1, <4>1, <4>3, Zenon
      <4>4. CASE i = Len(work) + 1
        BY <2>1, <4>1, <4>4, Zenon
      <4> QED
        BY <4>2, <4>3, <4>4, Zenon
    <3>2. ASSUME NEW x \in queue PROVE x \in queue'
      <4>1. PICK i \in 1 .. Len(work) : x = work[i]
        BY <3>2, Zenon
      <4> HIDE DEF Accounted, InFlight, TypeOK, Holding, None
      <4>2. i \in 1 .. Len(work') /\ x = work'[i]
        BY <2>1, <4>1
      <4> QED
        BY <4>2, Zenon
    <3>3. fetched \in queue'
      BY <2>1
    <3> HIDE DEF queue
    <3> QED
      BY <3>1, <3>2, <3>3, Zenon
  <2> DEFINE held == {item[w] : w \in {v \in Workers : stage[v] \in Holding}}
             done == completed \cup failed \cup abandoned
  <2>3. done' = done /\ held' = held /\ fetched' = None /\ fetched # None
    BY <1>4 DEF Dispatch, historyVars
  <2>4. Accounted = done \cup held \cup queue \cup ({fetched} \ {None})
    BY Zenon
  <2>5. Accounted' = done' \cup held' \cup queue' \cup ({fetched'} \ {None})
    BY Zenon
  <2> HIDE DEF queue, held, done, Accounted, InFlight, TypeOK, Holding, None
  <2> QED
    BY <2>2, <2>3, <2>4, <2>5, Zenon
<1>5. ASSUME NEW w \in Workers, Take(w) PROVE Accounted' = Accounted
  <2> DEFINE queue == {work[i] : i \in 1 .. Len(work)}
             held == {item[v] : v \in {v \in Workers : stage[v] \in Holding}}
  <2>1. /\ Len(work) \in Nat \ {0} /\ Len(work') = Len(work) - 1
        /\ \A i \in 1 .. Len(work') : work'[i] = work[i + 1]
        /\ item'[w] = work[1] /\ stage'[w] \in Holding
        /\ \A v \in Workers \ {w} : item'[v] = item[v] /\ stage'[v] = stage[v]
    BY <1>5 DEF Take
  <2>2. queue = queue' \cup {work[1]}
    <3>1. \A i \in 1 .. Len(work) : i = 1 \/ (i - 1 \in 1 .. Len(work') /\ work[i] = work'[i - 1])
      <4> HIDE DEF queue, held, Accounted, InFlight, TypeOK, Holding, None
      <4> QED
        BY <2>1
    <3>2. \A i \in 1 .. Len(work') : i + 1 \in 1 .. Len(work) /\ work'[i] = work[i + 1]
      <4> HIDE DEF queue, held, Accounted, InFlight, TypeOK, Holding, None
      <4> QED
        BY <2>1
    <3>3. 1 \in 1 .. Len(work)
      BY <2>1
    <3>4. ASSUME NEW x \in queue PROVE x \in queue' \cup {work[1]}
      <4>1. PICK i \in 1 .. Len(work) : x = work[i]
        BY <3>4, Zenon
      <4>2. CASE i = 1
        BY <4>1, <4>2, Zenon
      <4>3. CASE i # 1
        <5>1. i - 1 \in 1 .. Len(work') /\ x = work'[i - 1]
          BY <3>1, <4>1, <4>3, Zenon
        <5> QED
          BY <5>1, Zenon
      <4> QED
        BY <4>2, <4>3, Zenon
    <3>5. ASSUME NEW x \in queue' PROVE x \in queue
      BY <3>2, Zenon
    <3>6. work[1] \in queue
      BY <3>3, Zenon
    <3> HIDE DEF queue
    <3> QED
      BY <3>4, <3>5, <3>6, Zenon
  <2>3. held' = held \cup {work[1]}
    BY <1>5, <2>1 DEF Take
  <2> HIDE DEF queue, held
  <2> QED
    BY <1>5, <2>2, <2>3, Zenon DEF Take, historyVars, queue, held
<1>6. ASSUME NEW w \in Workers, ProcessNil(w) PROVE Accounted' = Accounted
  BY <1>6 DEF ProcessNil
<1>7. ASSUME NEW w \in Workers, ProcessError(w) PROVE Accounted' = Accounted
  BY <1>7 DEF ProcessError
<1>8. ASSUME NEW w \in Workers, Commit(w) PROVE Accounted' = Accounted
  BY <1>8 DEF Commit, CommitInv, historyVars
<1>9. ASSUME NEW w \in Workers, Exit(w) PROVE Accounted' = Accounted
  BY <1>9 DEF Exit, historyVars
<1>10. ASSUME Crash PROVE Accounted' = Accounted
  BY <1>10 DEF Crash
<1>11. ASSUME Restart PROVE Accounted' = Accounted
  BY <1>11 DEF Restart, PhaseInv, historyVars
<1>12. ASSUME UNCHANGED vars PROVE Accounted' = Accounted
  BY <1>12 DEF vars
<1> QED
  BY <1>1, <1>2, <1>3, <1>4, <1>5, <1>6, <1>7, <1>8, <1>9, <1>10, <1>11, <1>12, Zenon
  DEF Next, FetchLoop, RunWorker

LEMMA AccountStep == IInv /\ TypeOK' /\ [Next]_vars => AccountInv'
<1> SUFFICES ASSUME IInv, TypeOK', [Next]_vars PROVE AccountInv'
  BY Zenon
<1> USE DEF IInv, AccountInv, NoUnexplainedLoss
<1>a. /\ Fetch => Accounted' = Accounted \cup {position}
      /\ ~Fetch => Accounted' = Accounted
  BY AccountedStep, Zenon
<1>b. Accounted \subseteq Nat
  <2>1. \A w \in Workers : stage[w] \in Holding => item[w] \in Nat
    BY DEF TypeOK, None
  <2>2. \A i \in 1 .. Len(work) : work[i] \in Nat
    <3>1. work \in Seq(0 .. logEnd - 1)
      BY Zenon DEF TypeOK
    <3>2. \A i \in 1 .. Len(work) : work[i] \in 0 .. logEnd - 1
      BY <3>1, Members, Zenon
    <3> QED
      BY <3>2
  <2>0. 0 .. logEnd - 1 \subseteq Nat
    OBVIOUS
  <2>3. {fetched} \ {None} \subseteq Nat
    BY <2>0, Zenon DEF TypeOK
  <2>4. InFlight \subseteq Nat
    BY <2>1, <2>2, <2>3, Zenon DEF InFlight
  <2>5. completed \subseteq Nat /\ failed \subseteq Nat /\ abandoned \subseteq Nat
    BY <2>0, Zenon DEF TypeOK
  <2> QED
    BY <2>4, <2>5, Zenon DEF Accounted
<1>1. /\ Accounted \subseteq Accounted' /\ Accounted \subseteq Nat
      /\ committed \in Nat /\ position \in Nat
  <2>1. logEnd \in Nat /\ committed \in Nat /\ position \in Nat
    BY PoolAssumption DEF TypeOK
  <2> QED
    BY <1>a, <1>b, <2>1, Zenon
<1>2. \A a \in Accounted' : \A o \in 0 .. a - 1 : o \in Accounted'
  BY <1>1, <1>a
<1>3. \A o \in 0 .. position' - 1 : o \in Accounted'
  <2>1. CASE Fetch
    <3>1. position' = position + 1 /\ Accounted' = Accounted \cup {position}
      BY <2>1, <1>a, <1>1, Zenon DEF Fetch
    <3> QED
      BY <1>1, <3>1
  <2>2. CASE position' = position \/ position' = committed
    BY <1>1, <2>2, Zenon
  <2>3. Fetch \/ position' = position \/ position' = committed
    BY Zenon DEF Next, FetchLoop, RunWorker, Publish, SkipPoison, Dispatch, FetchStop, Close,
           Take, ProcessNil, ProcessError, Commit, Exit, Stop, Crash, Restart, Rebalance,
           brokerVars, vars
  <2> QED
    BY <2>1, <2>2, <2>3, Zenon
<1>4. \A o \in 0 .. committed' - 1 : o \in Accounted'
  <2>1. \/ committed' = committed
        \/ committed' = fetched + 1 /\ fetched \in Poison
        \/ \E w \in Workers : committed' = item[w] + 1 /\ stage[w] = "committing"
    BY Zenon DEF Next, FetchLoop, RunWorker, Publish, Fetch, SkipPoison, Dispatch, FetchStop,
           Close, Take, ProcessNil, ProcessError, Commit, Exit, Stop, Crash, Restart,
           Rebalance, brokerVars, vars
  <2>2. CASE committed' = committed
    BY <1>1, <2>2, Zenon
  <2>3. ASSUME NEW a \in Accounted, committed' = a + 1
        PROVE  \A o \in 0 .. committed' - 1 : o \in Accounted'
    BY <1>1, <2>3
  <2>4. CASE committed' = fetched + 1 /\ fetched \in Poison
    <3>1. fetched \in Accounted
      <4>1. fetched # None
        BY <2>4, PoolAssumption DEF None
      <4>2. fetched \in InFlight
        BY <4>1, Zenon DEF InFlight
      <4> QED
        BY <4>2, Zenon DEF Accounted
    <3> QED
      BY <2>3, <2>4, <3>1, Zenon
  <2>5. ASSUME NEW w \in Workers, committed' = item[w] + 1, stage[w] = "committing"
        PROVE  \A o \in 0 .. committed' - 1 : o \in Accounted'
    <3>1. item[w] \in Accounted
      BY <2>5, Zenon DEF CommitInv, Accounted
    <3> QED
      BY <2>3, <2>5, <3>1, Zenon
  <2> QED
    BY <2>1, <2>2, <2>4, <2>5
<1> QED
  BY <1>2, <1>3, <1>4, Zenon

LEMMA InvStep == IInv /\ [Next]_vars => IInv'
  BY TypeStep, PhaseStep, CommitStep, AccountStep, Zenon DEF IInv

LEMMA Invariance == Spec => []IInv
  BY InitInv, InvStep, PTL DEF Spec

-----------------------------------------------------------------------------
(* WorkerPool: the theorems. *)

\* Offsets stay below the end of the log, the channel never holds more than
\* Concurrency items, and a worker holds a message exactly while it processes
\* or commits it (Pool.Run, fetchLoop, runWorker).
THEOREM TypeCorrect == Spec => []TypeOK
<1>1. IInv => TypeOK
  BY Zenon DEF IInv
<1> QED
  BY <1>1, Invariance, PTL

\* However the workers interleave, commit out of order, are rebalanced, stopped
\* or crash: a message below the group's offset was completed, refused, in the
\* pool at a crash, or is still in the pool (Pool.Run, fetchLoop, runWorker).
THEOREM LossIsExplained == Spec => []NoUnexplainedLoss
<1>1. IInv => NoUnexplainedLoss
  BY Zenon DEF IInv, AccountInv
<1> QED
  BY <1>1, Invariance, PTL

\* When Run has closed the consumer nothing is left in the channel or with a
\* worker (Pool.Run).
THEOREM StopDrains == Spec => []DrainedWhenStopped
<1>1. IInv => DrainedWhenStopped
  BY PoolAssumption
  DEF IInv, PhaseInv, DrainedWhenStopped, InFlight, TypeOK, Holding, None
<1> QED
  BY <1>1, Invariance, PTL

\* Every commit, of a worker or of the fetch loop, names a message whose Process
\* returned nil or that does not decode (Consumer.Commit).
THEOREM CommitsAreOfCompleted == Spec => CommitOnlyCompleted
<1>1. IInv /\ [Next]_vars => [committed' # committed => committed' - 1 \in completed']_vars
  <2> SUFFICES ASSUME IInv, Next, committed' # committed
               PROVE  committed' - 1 \in completed'
    BY Zenon DEF vars
  <2>1. CASE SkipPoison
    BY <2>1, PoolAssumption DEF SkipPoison
  <2>2. ASSUME NEW w \in Workers, Commit(w) PROVE committed' - 1 \in completed'
    BY <2>2 DEF Commit, IInv, CommitInv, TypeOK, historyVars, Holding, None
  <2> QED
    BY <2>1, <2>2, Zenon
    DEF Next, FetchLoop, RunWorker, Publish, Fetch, Dispatch, FetchStop, Close, Take,
        ProcessNil, ProcessError, Exit, Stop, Crash, Restart, Rebalance, brokerVars
<1> QED
  BY <1>1, Invariance, PTL DEF Spec, CommitOnlyCompleted

-----------------------------------------------------------------------------
(* The pool implements the abstract specification Delivery. *)

LEMMA ContractInit == Init => Contract!DeliveryInit
  BY Zenon DEF Init, Contract!DeliveryInit, Contract!Nothing, None

LEMMA ContractStep == IInv /\ [Next]_vars => [Contract!DeliveryNext]_(Contract!deliveryVars)
<1> SUFFICES ASSUME IInv, [Next]_vars
             PROVE  [Contract!DeliveryNext]_(Contract!deliveryVars)
  BY Zenon
<1> USE PoolAssumption DEF IInv, TypeOK, Holding, None, Contract!Nothing, Contract!deliveryVars
<1>1. CASE Publish
  BY <1>1, Zenon DEF Publish, Contract!DeliveryNext, Contract!Produce, historyVars
<1>2. CASE Fetch \/ Dispatch \/ FetchStop \/ Close \/ Stop \/ Rebalance
  BY <1>2, Zenon DEF Fetch, Dispatch, FetchStop, Close, Stop, Rebalance, historyVars, brokerVars
<1>3. CASE SkipPoison
  BY <1>3 DEF SkipPoison, Contract!DeliveryNext, Contract!Skip
<1>4. ASSUME NEW w \in Workers, Take(w) PROVE Contract!Begin(w)
  <2> DEFINE view == [v \in Workers |->
                        IF stage[v] \in {"processing", "doomed"} THEN item[v] ELSE None]
  <2>1. work[1] \in 0 .. logEnd - 1 /\ Head(work) = work[1]
    <3>1. work \in Seq(0 .. logEnd - 1) /\ work # <<>>
      BY <1>4, Zenon DEF Take
    <3> QED
      BY <3>1
  <2>2. view[w] = Contract!Nothing
    BY <1>4, Zenon DEF Take
  <2>3. view' = [view EXCEPT ![w] = work[1]]
    BY <1>4, <2>1, Zenon DEF Take
  <2>4. UNCHANGED <<logEnd, completed, committed>>
    BY <1>4, Zenon DEF Take, historyVars, brokerVars
  <2> QED
    BY <2>1, <2>2, <2>3, <2>4, Zenon DEF Contract!Begin
<1>5. ASSUME NEW w \in Workers, ProcessNil(w) PROVE Contract!EndNil(w)
  BY <1>5, Zenon DEF ProcessNil, Contract!EndNil, brokerVars
<1>6. ASSUME NEW w \in Workers, ProcessError(w) PROVE Contract!EndError(w)
  BY <1>6, Zenon DEF ProcessError, Contract!EndError, brokerVars
<1>7. ASSUME NEW w \in Workers, Commit(w)
      PROVE  Contract!Acknowledge \/ UNCHANGED Contract!deliveryVars
  BY <1>7, Zenon DEF Commit, CommitInv, Contract!Acknowledge, historyVars
<1>8. ASSUME NEW w \in Workers, Exit(w) PROVE UNCHANGED Contract!deliveryVars
  BY <1>8, Zenon DEF Exit, historyVars, brokerVars
<1>9. CASE Crash
  BY <1>9, Zenon DEF Crash, Contract!DeliveryNext, Contract!Lose, brokerVars
<1>10. CASE Restart
  BY <1>10, Zenon DEF Restart, PhaseInv, historyVars
<1>11. CASE UNCHANGED vars
  BY <1>11, Zenon DEF vars
<1> QED
  BY <1>1, <1>2, <1>3, <1>4, <1>5, <1>6, <1>7, <1>8, <1>9, <1>10, <1>11, Zenon
  DEF Next, FetchLoop, RunWorker, Contract!DeliveryNext

\* The pool of any number of workers gives its handlers what Delivery promises:
\* every step of the fetch loop and of the workers is a step of Delivery or
\* changes nothing a handler can see (fetchLoop, runWorker).
THEOREM PoolKeepsContract == Spec => KeepsContract
  BY ContractInit, ContractStep, Invariance, PTL DEF Spec, KeepsContract, Contract!DeliverySpec
-----------------------------------------------------------------------------
(* Processes: the inductive invariant. *)

Steps == StartSteps \cup {"down", "serve", "drain", "close"}

\* What main holds once it is at step s: the resources of the steps before.
Acquired(s) ==
  IF s \in {"down", "config", "postgres"} THEN {}
  ELSE IF s = "redis" THEN {"postgres"}
  ELSE IF s = "producer" THEN {"postgres", "redis"} ELSE Resources

Types ==
  /\ main \in [Programs -> Steps]
  /\ open \in [Programs -> SUBSET Resources]
  /\ part \in [Parts -> Working \cup {"off", "done"}]

\* Main holds what it has acquired so far until its deferred calls run.
MainInv == \A p \in Programs : main[p] # "close" => open[p] = Acquired(main[p])

\* Whatever works for a program does so while its main serves or drains.
WorkInv ==
  /\ (\E c \in Parts : part[c] \in Working) => main["worker"] \in {"serve", "drain"}
  /\ "http" \in requests /\ ~late => main["api"] \in {"serve", "drain"}

\* Main launches the consumers when their topics exist or the error is swallowed.
TopicInv ==
  /\ main["worker"] = "launch" => AllTopics \cap Enabled \subseteq topics \/ swallowed
  /\ ConsumersAreAssigned

ProcInv == Types /\ MainInv /\ WorkInv /\ TopicInv

-----------------------------------------------------------------------------
(* A process that ends holds nothing and runs nothing (os.Exit, a crash, the *)
(* return of main).                                                          *)
LEMMA GoneKeeps ==
  ASSUME ProcInv, NEW p \in Programs, Gone(p), UNCHANGED <<settings, topics, starts>>
  PROVE  ProcInv'
<1> USE DEF ProcInv
<1>1. Types'
  BY Zenon DEF Types, Gone, Programs, Steps, Resources
<1>2. MainInv'
  BY Zenon DEF Types, MainInv, Gone, Acquired, Programs
<1>3. WorkInv'
  <2>1. CASE p = "worker"
    <3>1. \A c \in Parts : part'[c] \notin Working
      BY <2>1, Zenon DEF Gone, Working
    <3>2. UNCHANGED <<requests, late>> /\ main'["api"] = main["api"]
      BY <2>1, Zenon DEF Gone, Types, Programs
    <3> QED
      BY <3>1, <3>2, Zenon DEF WorkInv
  <2>2. CASE p # "worker"
    <3>1. UNCHANGED part /\ main'["worker"] = main["worker"] /\ requests' = {}
      BY <2>2, Zenon DEF Gone, Types, Programs
    <3> QED
      BY <3>1, Zenon DEF WorkInv
  <2> QED
    BY <2>1, <2>2, Zenon
<1>4. TopicInv'
  <2>1. CASE p = "worker"
    <3>1. /\ \A c \in Parts : part'[c] \notin Working
          /\ main'["worker"] = "down"
      BY <2>1, Zenon DEF Gone, Working, Types, Programs
    <3> QED
      BY <3>1, Zenon DEF TopicInv, Enabled, ConsumersAreAssigned, Parts
  <2>2. CASE p # "worker"
    <3>1. UNCHANGED <<settings, part, topics, assigned, swallowed>> /\ main'["worker"] = main["worker"]
      BY <2>2, Zenon DEF Gone, Types, Programs
    <3> QED
      BY <3>1, Zenon DEF TopicInv, Enabled, ConsumersAreAssigned
  <2> QED
    BY <2>1, <2>2, Zenon
<1> QED
  BY <1>1, <1>2, <1>3, <1>4, Zenon

(* A start step: main goes on, with the resource the step opened.            *)
LEMMA StartKeeps ==
  ASSUME ProcInv, NEW p \in Programs, Start(p) \/ OpenStep(p)
  PROVE  ProcInv'
<1> USE DEF ProcInv
<1>0. UNCHANGED <<settings, topics, part, assigned, requests, swallowed, late>>
  BY Zenon DEF Start, OpenStep
<1>1. PICK s \in Steps, r \in SUBSET Resources :
        /\ main' = [main EXCEPT ![p] = s] /\ open' = [open EXCEPT ![p] = r]
        /\ s # "close" /\ r = Acquired(s)
        /\ main[p] \notin {"serve", "drain"}
        /\ s = "launch" => p = "api" 
  <2>1. CASE Start(p)
    <3>1. open[p] = {} /\ open \in [Programs -> SUBSET Resources]
      BY <2>1, Zenon DEF Start, MainInv, Acquired, Types
    <3>2. open' = [open EXCEPT ![p] = {}]
      BY <2>1, <3>1, Zenon DEF Start
    <3>3. main' = [main EXCEPT ![p] = "config"] /\ main[p] = "down"
      BY <2>1, Zenon DEF Start
    <3>4. Acquired("config") = {} /\ "config" \in Steps /\ "config" \notin {"serve", "drain"}
      BY Zenon DEF Acquired, Steps, StartSteps
    <3> QED
      BY <3>2, <3>3, <3>4, Zenon
  <2>2. CASE OpenStep(p)
    <3>1. main[p] \in {"config", "postgres", "redis", "producer"} /\ open[p] = Acquired(main[p])
      BY <2>2, Zenon DEF OpenStep, MainInv
    <3>2. After(p, main[p]) \in {"postgres", "redis", "producer", "topics", "launch"}
      BY <3>1 DEF After
    <3>3. open[p] \cup ({main[p]} \cap Resources) = Acquired(After(p, main[p]))
      <4>1. CASE main[p] = "config"
        BY <3>1, <4>1 DEF After, Acquired, Resources
      <4>2. CASE main[p] = "postgres"
        BY <3>1, <4>2 DEF After, Acquired, Resources
      <4>3. CASE main[p] = "redis"
        BY <3>1, <4>3 DEF After, Acquired, Resources
      <4>4. CASE main[p] = "producer"
        BY <3>1, <4>4 DEF After, Acquired, Resources
      <4> QED
        BY <3>1, <4>1, <4>2, <4>3, <4>4, Zenon
    <3>4. After(p, main[p]) = "launch" => p = "api"
      BY <3>1 DEF After, Programs
    <3>5. /\ main' = [main EXCEPT ![p] = After(p, main[p])]
          /\ open' = [open EXCEPT ![p] = Acquired(After(p, main[p]))]
      BY <2>2, <3>3, Zenon DEF OpenStep
    <3>6. Acquired(After(p, main[p])) \in SUBSET Resources
      BY <3>2, Zenon DEF Acquired, Resources
    <3> QED
      BY <3>1, <3>2, <3>4, <3>5, <3>6, Zenon DEF Steps, StartSteps
  <2> QED
    BY <2>1, <2>2, Zenon
<1>2. Types'
  BY <1>0, <1>1, Zenon DEF Types
<1>3. MainInv'
  BY <1>1, Zenon DEF MainInv, Types
<1>4. WorkInv'
  BY <1>0, <1>1 DEF WorkInv, Types
<1>5. TopicInv'
  BY <1>0, <1>1 DEF TopicInv, Enabled, ConsumersAreAssigned, Types
<1> QED
  BY <1>2, <1>3, <1>4, <1>5, Zenon

(* EnsureTopics leaves all topics behind, or an error that was swallowed.    *)
LEMMA TopicsKeep ==
  ASSUME ProcInv, EnsureTopics
  PROVE  ProcInv'
<1> USE DEF ProcInv
<1>1. /\ main["worker"] = "topics" /\ main' = [main EXCEPT !["worker"] = "launch"]
      /\ UNCHANGED <<settings, open, part, assigned, requests, late>>
      /\ AllTopics \cap Enabled \subseteq topics' \/ swallowed'
      /\ swallowed => swallowed'
  BY DEF EnsureTopics
<1>2. Types' /\ MainInv'
  BY <1>1, Zenon DEF Types, MainInv, Acquired, Steps, StartSteps, Programs
<1>3. WorkInv'
  BY <1>1, Zenon DEF Types, WorkInv, Programs
<1>4. TopicInv'
  BY <1>1, Zenon DEF TopicInv, Enabled, ConsumersAreAssigned
<1> QED
  BY <1>2, <1>3, <1>4, Zenon

(* Every consumer main launches joins the group of a topic that exists.      *)
LEMMA LaunchKeeps ==
  ASSUME ProcInv, Launch
  PROVE  ProcInv'
<1> USE DEF ProcInv
<1>1. /\ main["worker"] = "launch" /\ main' = [main EXCEPT !["worker"] = "serve"]
      /\ UNCHANGED <<settings, open, topics, requests, late, swallowed>> /\ assigned' = Joined
  BY Zenon DEF Launch
<1>2. /\ part' \in [Parts -> Working \cup {"off", "done"}]
      /\ \A c \in Parts : part'[c] \in Working => c \in Enabled
  BY Zenon DEF Launch, Working
<1>3. Types' /\ MainInv'
  BY <1>1, <1>2, Zenon DEF Types, MainInv, Acquired, Steps, Programs
<1>4. WorkInv'
  BY <1>1, Zenon DEF Types, WorkInv, Programs
<1>5. ConsumersAreAssigned'
  <2>1. AllTopics \cap Enabled \subseteq topics \/ swallowed
    BY <1>1, Zenon DEF TopicInv
  <2> QED
    BY <1>1, <1>2, <2>1, Zenon DEF ConsumersAreAssigned, Joined, AllTopics, Consumers, Parts
<1> QED
  BY <1>1, <1>3, <1>4, <1>5, Zenon DEF TopicInv, Types, Programs

(* A goroutine of the worker that goes from one place of its loop to another *)
(* was at work before.                                                       *)
LEMMA TurnKeeps ==
  ASSUME ProcInv, NEW c \in Parts, NEW s \in Working \cup {"done"},
         part[c] \in Working, Turn(c, s)
  PROVE  ProcInv'
<1> USE DEF ProcInv
<1>1. /\ part' = [part EXCEPT ![c] = s]
      /\ UNCHANGED <<settings, topics, main, open, assigned, requests, swallowed, late>>
  BY Zenon DEF Turn
<1>2. Types' /\ MainInv'
  BY <1>1, Zenon DEF Types, MainInv
<1>3. \A b \in Parts : part'[b] \in Working => part[b] \in Working
  BY <1>1, Zenon DEF Types
<1>4. WorkInv' /\ TopicInv'
  BY <1>1, <1>3, Zenon DEF WorkInv, TopicInv, Enabled, ConsumersAreAssigned, Parts
<1> QED
  BY <1>2, <1>4, Zenon

(* The steps of the worker's goroutines.                                     *)
LEMMA PartsKeep ==
  ASSUME ProcInv, NEW c \in Parts, PartStep(c) \/ StopPart(c)
  PROVE  ProcInv'
<1>1. CASE c = "pool" /\ PoolStart
  <2>1. CASE ~Gone("worker")
    <3>1. Turn("pool", "fetch") /\ part["pool"] = "start"
      BY <1>1, <2>1, Zenon DEF PoolStart, Turn
    <3> QED
      BY <1>1, <3>1, TurnKeeps, Zenon DEF Working
  <2>2. CASE Gone("worker")
    BY <1>1, <2>2, GoneKeeps, Zenon DEF PoolStart, Programs
  <2> QED
    BY <2>1, <2>2, Zenon
<1>2. CASE FetchNext(c) \/ Finish(c) \/ (c = "scheduler" /\ Tick) \/ StopPart(c)
  <2>1. PICK s \in Working \cup {"done"} : Turn(c, s) /\ part[c] \in Working
    BY <1>2, Zenon DEF FetchNext, Finish, Tick, StopPart, Working
  <2> QED
    BY <2>1, TurnKeeps, Zenon
<1> QED
  BY <1>1, <1>2, Zenon DEF PartStep, Proceed

(* Main goes from serving to draining, to its deferred calls and to the end: *)
(* it only gets to the calls when nothing works, or Shutdown timed out.      *)
LEMMA StopsKeep ==
  ASSUME ProcInv, NEW p \in Programs, Signal(p) \/ Drained(p) \/ CloseNext(p)
  PROVE  ProcInv'
<1> USE DEF ProcInv
<1>1. CASE Signal(p)
  <2>1. /\ main[p] = "serve" /\ main' = [main EXCEPT ![p] = "drain"]
        /\ UNCHANGED <<settings, open, topics, part, assigned, requests, swallowed, late>>
    BY <1>1, Zenon DEF Signal
  <2>2. Types' /\ MainInv'
    BY <2>1, Zenon DEF Types, MainInv, Acquired, Steps, Programs
  <2>3. WorkInv' /\ TopicInv'
    BY <2>1, Zenon DEF Types, WorkInv, TopicInv, Enabled, ConsumersAreAssigned, Programs
  <2> QED
    BY <2>2, <2>3, Zenon
<1>2. CASE Drained(p)
  <2>1. /\ main[p] = "drain" /\ main' = [main EXCEPT ![p] = "close"]
        /\ UNCHANGED <<settings, open, topics, part, assigned, requests, swallowed>>
    BY <1>2, Zenon DEF Drained
  <2>2. Types' /\ MainInv'
    BY <2>1, Zenon DEF Types, MainInv, Steps, Programs
  <2>3. TopicInv'
    BY <2>1, Zenon DEF Types, TopicInv, Enabled, ConsumersAreAssigned, Programs
  <2>4. CASE p = "worker"
    <3>1. Idle(p) /\ UNCHANGED late
      BY <1>2, <2>4, Zenon DEF Drained
    <3>2. \A c \in Parts : part'[c] \notin Working
      BY <2>1, <2>4, <3>1, Zenon DEF Idle, Working
    <3> QED
      BY <2>1, <2>2, <2>3, <2>4, <3>1, <3>2, Zenon DEF WorkInv, Types, Programs
  <2>5. CASE p = "api"
    <3>1. late' = TRUE \/ "http" \notin requests
      BY <1>2, <2>5, Zenon DEF Drained, Idle
    <3>2. ~("http" \in requests' /\ ~late')
      BY <2>1, <3>1, Zenon
    <3> QED
      BY <2>1, <2>2, <2>3, <2>5, <3>2, Zenon DEF WorkInv, Types, Programs
  <2> QED
    BY <2>4, <2>5, Zenon DEF Programs
<1>3. CASE CloseNext(p)
  <2>1. CASE open' = [open EXCEPT ![p] = open[p] \ {Newest(open[p])}] /\ open[p] # {}
    <3>1. /\ main[p] = "close" /\ UNCHANGED main
          /\ UNCHANGED <<settings, topics, part, assigned, requests, swallowed, late>>
      BY <1>3, <2>1, Zenon DEF CloseNext, Gone
    <3>2. Types' /\ MainInv'
      <4>1. open' \in [Programs -> SUBSET Resources]
        BY <2>1, Zenon DEF Types
      <4> QED
        BY <2>1, <3>1, <4>1, Zenon DEF Types, MainInv
    <3> QED
      BY <3>1, <3>2, Zenon DEF WorkInv, TopicInv, Enabled, ConsumersAreAssigned
  <2>2. CASE Gone(p)
    BY <1>3, <2>2, GoneKeeps, Zenon DEF CloseNext
  <2> QED
    BY <1>3, <2>1, <2>2, Zenon DEF CloseNext
<1> QED
  BY <1>1, <1>2, <1>3, Zenon

(* The API: it accepts requests while main serves.                           *)
LEMMA RequestsKeep ==
  ASSUME ProcInv, Listen \/ BeginRequest \/ Hijack \/ (\E k \in Kinds : EndRequest(k))
  PROVE  ProcInv'
<1> USE DEF ProcInv
<1>1. CASE Listen
  <2>1. CASE Gone("api")
    BY <1>1, <2>1, GoneKeeps, Zenon DEF Listen, Programs
  <2>2. CASE main' = [main EXCEPT !["api"] = "serve"]
    <3>1. /\ main["api"] = "launch"
          /\ UNCHANGED <<settings, open, part, assigned, topics, requests, swallowed, late>>
      BY <1>1, <2>2, Zenon DEF Listen, Gone, Types, Programs
    <3>2. Types' /\ MainInv'
      BY <2>2, <3>1, Zenon DEF Types, MainInv, Acquired, Steps, Programs
    <3>3. WorkInv' /\ TopicInv'
      BY <2>2, <3>1, Zenon DEF Types, WorkInv, TopicInv, Enabled, ConsumersAreAssigned, Programs
    <3> QED
      BY <3>2, <3>3, Zenon
  <2> QED
    BY <1>1, <2>1, <2>2, Zenon DEF Listen
<1>2. CASE BeginRequest \/ Hijack \/ \E k \in Kinds : EndRequest(k)
  <2>1. /\ UNCHANGED <<settings, topics, main, open, part, assigned, swallowed, late>>
        /\ "http" \in requests' => main["api"] = "serve" \/ "http" \in requests
    BY <1>2, Zenon DEF BeginRequest, Hijack, EndRequest, Request
  <2>2. Types' /\ MainInv' /\ TopicInv'
    BY <2>1, Zenon DEF Types, MainInv, TopicInv, Enabled, ConsumersAreAssigned
  <2>3. WorkInv'
    BY <2>1, Zenon DEF WorkInv
  <2> QED
    BY <2>2, <2>3, Zenon
<1> QED
  BY <1>1, <1>2, Zenon

(* ProcInv is inductive.                                                     *)
LEMMA ProcStep == ProcInv /\ [ProcNext]_procVars => ProcInv'
<1> SUFFICES ASSUME ProcInv, [ProcNext]_procVars PROVE ProcInv'
  BY Zenon
<1>1. ASSUME NEW p \in Programs, Start(p) \/ MainStep(p) \/ Signal(p) \/ Kill(p)
      PROVE  ProcInv'
  <2>1. CASE FailStep(p) \/ Kill(p)
    BY <2>1, GoneKeeps, Zenon DEF FailStep, Kill
  <2>2. CASE Start(p) \/ OpenStep(p)
    BY <2>2, StartKeeps, Zenon
  <2>3. CASE Signal(p) \/ Drained(p) \/ CloseNext(p)
    BY <2>3, StopsKeep, Zenon
  <2>4. CASE EnsureTopics \/ Launch \/ Listen
    BY <2>4, TopicsKeep, LaunchKeeps, RequestsKeep, Zenon
  <2> QED
    BY <1>1, <2>1, <2>2, <2>3, <2>4, Zenon DEF MainStep
<1>2. ASSUME NEW c \in Parts, PartStep(c) \/ StopPart(c) PROVE ProcInv'
  BY <1>2, PartsKeep, Zenon
<1>3. CASE BeginRequest \/ Hijack \/ \E k \in Kinds : EndRequest(k)
  BY <1>3, RequestsKeep, Zenon
<1>4. CASE UNCHANGED procVars
  BY <1>4, Zenon DEF procVars, ProcInv, Types, MainInv, WorkInv, TopicInv, Enabled, ConsumersAreAssigned
<1> QED
  BY <1>1, <1>2, <1>3, <1>4, Zenon DEF ProcNext

(* Both programs are down at first.                                          *)
LEMMA ProcStarts == ProcInit => ProcInv
  BY Zenon DEF ProcInit, ProcInv, Types, MainInv, WorkInv, TopicInv, Enabled, ConsumersAreAssigned, Acquired,
         Steps, Working, Programs, Parts

(* No goroutine of the worker and no request of the API works without        *)
(* Postgres, Redis and the producer, whenever signals, failures of a start   *)
(* step and crashes come: main of both programs opens them before it         *)
(* launches anything and waits before its deferred calls close them.  Not so *)
(* for a request that outlasts the 30 s of Shutdown, and for a stream, whose *)
(* connection the server no longer knows of.                                 *)
THEOREM NothingOutlivesInfra == ProcSpec => []InfraOutlivesWork
<1>1. ProcInv => InfraOutlivesWork
  BY Zenon DEF ProcInv, MainInv, WorkInv, InfraOutlivesWork, Acquired, Programs
<1> QED
  BY <1>1, ProcStarts, ProcStep, PTL DEF ProcSpec

(* A consumer of the worker that works has its topic, unless EnsureTopics    *)
(* went on after an error of CreateTopics.                                   *)
THEOREM ConsumersHaveTopics == ProcSpec => []ConsumersAreAssigned
<1>1. ProcInv => ConsumersAreAssigned
  BY Zenon DEF ProcInv, TopicInv
<1> QED
  BY <1>1, ProcStarts, ProcStep, PTL DEF ProcSpec
=============================================================================
