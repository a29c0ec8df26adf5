----------------------------- MODULE RateLimiter -----------------------------
(***************************************************************************)
(* service/ratelimit.go: the sliding-window log that AllowKey keeps in a   *)
(* Redis sorted set, for one key.  A caller first reads its own clock and  *)
(* then runs one MULTI/EXEC transaction; several callers may be between    *)
(* the two.  Redis is external: the transaction is atomic, and a key whose *)
(* TTL has passed is gone.                                                 *)
(***************************************************************************)
EXTENDS Integers, Sequences, FiniteSets

CONSTANTS Callers,     \* goroutines that ask
          Window,      \* AllowKey's window
          Slack,       \* how much longer than the window the TTL is
          Caps,        \* values of the cap parameter
          Quantum,     \* distance of two float64 near the nanoseconds of today
          MaxClock,    \* bound: how far time goes
          MaxCalls,    \* bound: calls ever made
          InfraErrors  \* may Redis and Postgres calls fail?

ASSUME RateLimiterAssumption ==
  /\ Window \in Nat \ {0} /\ Slack \in Nat \ {0} /\ Quantum \in Nat \ {0}
  /\ Caps \subseteq Nat
  /\ MaxClock \in Nat /\ MaxCalls \in Nat
  /\ InfraErrors \in BOOLEAN

VARIABLES
  clock,    \* the time
  cap,      \* configured cap
  zset,     \* the scores of the sorted set; a member is its own score
  expires,  \* when the key's TTL runs out
  stamp,    \* per caller, the time.Now of its AllowKey
  \* history
  log       \* transactions in the order Redis ran them

limiterVars == <<cap, zset, expires, stamp, log>>

NoStamp == -1
Verdicts == {"granted", "denied", "error"}
LogEntry == [stamp : 0 .. MaxClock, verdict : Verdicts, admit : BOOLEAN, late : BOOLEAN]

LimiterInit ==
  /\ clock = 0 /\ cap \in Caps
  /\ zset = {} /\ expires = 0
  /\ stamp = [c \in Callers |-> NoStamp]
  /\ log = <<>>

LimiterTypeOK ==
  /\ clock \in 0 .. MaxClock /\ cap \in Caps
  /\ zset \subseteq 0 .. MaxClock + Quantum
  /\ expires \in 0 .. MaxClock + Window + Slack
  /\ stamp \in [Callers -> {NoStamp} \cup 0 .. MaxClock]
  /\ log \in Seq(LogEntry) /\ Len(log) <= MaxCalls

\* float64(now.UnixNano()), and Redis' reading of an integer bound: to the
\* nearest multiple of Quantum, a tie to the even one.
Score(t) ==
  LET q == t \div Quantum
      r == t % Quantum
  IN  Quantum * (IF 2 * r < Quantum \/ (2 * r = Quantum /\ q % 2 = 0) THEN q ELSE q + 1)

AllowStamp(c) ==
  /\ stamp' = [stamp EXCEPT ![c] = clock]
  /\ UNCHANGED <<cap, zset, expires, log>>

\* The sorted set, unless its TTL has passed.
Stored == IF clock < expires THEN zset ELSE {}

\* Mutant: nothing is evicted.
KeepAll(now) == Stored

\* ZREMRANGEBYSCORE: what is left of the window that ends now.
Kept(now) == {s \in Stored : s > Score(now - Window)}

\* Mutant: the attempt itself is not counted, and cap attempts may precede it.
UnderCapOrAt(count) == count <= cap

UnderCap(count) == count < cap

\* A call is late when Redis has already run one that read its clock later, or
\* when it took so long that the TTL may have hidden its window.
IsLate(c) ==
  \/ \E i \in DOMAIN log : log[i].stamp > stamp[c]
  \/ clock >= stamp[c] + Slack

\* The transaction: evict, count, add, extend the TTL.
Record(now) ==
  /\ zset' = Kept(now) \cup {Score(now)}
  /\ expires' = clock + Window + Slack

(* The transaction of c's call ends with verdict v, upon which the caller    *)
(* admits or not.  On an error it does not know whether Redis ran it.        *)
AllowExec(c, v, admit) ==
  LET now == stamp[c] IN
  /\ now # NoStamp
  /\ \/ v = "granted" /\ UnderCap(Cardinality(Kept(now))) /\ Record(now)
     \/ v = "denied" /\ ~UnderCap(Cardinality(Kept(now))) /\ Record(now)
     \/ v = "error" /\ InfraErrors /\ (Record(now) \/ UNCHANGED <<zset, expires>>)
  /\ log' = Append(log, [stamp |-> now, verdict |-> v, admit |-> admit, late |-> IsLate(c)])
  /\ stamp' = [stamp EXCEPT ![c] = NoStamp]
  /\ UNCHANGED cap

Tick ==
  /\ clock < MaxClock
  /\ clock' = clock + 1
  /\ UNCHANGED limiterVars

-----------------------------------------------------------------------------
(* Properties. *)

\* The transactions of the window that ends with transaction i, as Redis sees
\* them: two stamps within one Quantum are one member of the set.
InWindow(i, js) ==
  {Score(log[j].stamp) : j \in {k \in js :
     log[k].stamp <= log[i].stamp /\ Score(log[k].stamp) > Score(log[i].stamp - Window)}}

\* A call is only denied when, within its own window, cap other calls had come
\* before it (AllowKey: "the attempt is still recorded"): whoever pauses for a
\* window is served again, also after Redis errors and an expired key.
DenialIsJustified ==
  \A i \in DOMAIN log : log[i].verdict = "denied" =>
    Cardinality({Score(log[j].stamp) : j \in {k \in 1 .. i - 1 :
      Score(log[k].stamp) > Score(log[i].stamp - Window)}}) >= cap
=============================================================================
