--------------------------- MODULE AdmissionProofs ---------------------------
(***************************************************************************)
(* Proofs about Admission: preferences are honoured for every number of    *)
(* callers and tenants, every length of the day, every table of time zones *)
(* and every sequence of changes to the rows; and the rate limiter neither *)
(* admits more than its cap in a window nor denies without cause, for      *)
(* every cap, window and spacing of float64 time stamps.                   *)
(***************************************************************************)
EXTENDS Admission, FiniteSetTheorems, TLAPS

(* Quiet hours are what one meets going round the clock from their start to  *)
(* their end: the two cases of inQuietHours, within a day and over midnight, *)
(* leave out nothing and overlap nowhere.                                    *)
LEMMA QuietHours ==
  ASSUME NEW s \in Times, NEW e \in Times, NEW now \in Times
  PROVE  InQuietHours(s, e, now) <=> QuietByTheClock(s, e, now)
<1> USE PreferencesAssumption DEF Times
<1>1. ASSUME InQuietHours(s, e, now) PROVE QuietByTheClock(s, e, now)
  <2> DEFINE k == IF s <= now THEN now - s ELSE now - s + Day
  <2>1. k \in Times
    OBVIOUS
  <2>2. Later(s, k) = now
    BY DEF Later
  <2>3. ASSUME NEW j \in 0 .. k PROVE Later(s, j) # e
    BY <1>1, <2>3 DEF Later, InQuietHours
  <2> QED
    BY <2>1, <2>2, <2>3, Zenon DEF QuietByTheClock
<1>2. ASSUME QuietByTheClock(s, e, now), ~InQuietHours(s, e, now) PROVE FALSE
  <2>1. PICK k \in Times : Later(s, k) = now /\ \A j \in 0 .. k : Later(s, j) # e
    BY <1>2, Zenon DEF QuietByTheClock
  <2> DEFINE j == IF s <= e THEN e - s ELSE e - s + Day
  <2>2. j \in 0 .. k
    BY <1>2, <2>1 DEF Later, InQuietHours
  <2>3. Later(s, j) = e
    BY DEF Later
  <2> QED
    BY <2>1, <2>2, <2>3, Zenon
<1> QED
  BY <1>1, <1>2, Zenon

(* A time of day in any zone, known or not, is a time of day.                *)
LEMMA LocalTimeType ==
  ASSUME NEW zone, NEW now \in Nat
  PROVE  LocalTime(zone, now) \in Times
<1> DEFINE shift == IF zone \in DOMAIN Offset THEN Offset[zone] ELSE 0
<1>1. shift \in 0 .. Day - 1
  BY PreferencesAssumption, Zenon
<1>2. now + shift \in Nat
  BY <1>1, PreferencesAssumption
<1> HIDE DEF shift
<1>3. (now + shift) % Day \in 0 .. Day - 1
  BY <1>2, PreferencesAssumption
<1> QED
  BY <1>3, Zenon DEF shift, LocalTime, Times

(* What IsAllowed decides about a row is what the row says.                  *)
LEMMA AllowedIsWanted ==
  ASSUME NEW p \in PrefRow, NEW now \in Nat
  PROVE  Allowed(p, now) <=> Wanted(p, now)
<1>1. CASE p.start = NullTime \/ p.end = NullTime
  BY <1>1, Zenon DEF Allowed, Wanted
<1>2. CASE p.start # NullTime /\ p.end # NullTime
  <2>1. p.start \in Times /\ p.end \in Times
    BY <1>2, Zenon DEF PrefRow
  <2>2. LocalTime(p.zone, now) \in Times
    BY <2>1, LocalTimeType, Zenon
  <2>3. InQuietHours(p.start, p.end, LocalTime(p.zone, now))
          <=> QuietByTheClock(p.start, p.end, LocalTime(p.zone, now))
    BY <2>1, <2>2, QuietHours, Zenon
  <2> QED
    BY <1>2, <2>3, Zenon DEF Allowed, Wanted
<1> QED
  BY <1>1, <1>2, Zenon

-----------------------------------------------------------------------------
(* The inductive invariant. *)

Call == [stage : Stages, tenant : Tenants \cup {NoTenant}, row : PrefRow, since : Nat,
         rows : SUBSET PrefRow]

\* What a call in step 3 knows: its tenant's row of this moment, and the row it
\* has read, are among those its tenant has had since it came.
CallInv(c) ==
  /\ call[c].since <= clock
  /\ call[c].stage \in {"get", "judge"} =>
       call[c].tenant \in Tenants /\ GetPref(call[c].tenant) \in call[c].rows
  /\ call[c].stage = "judge" => call[c].row \in call[c].rows

PrefInv ==
  /\ clock \in Nat
  /\ pref \in [Tenants -> PrefRow]
  /\ call \in [Callers -> Call]
  /\ \A c \in Callers : CallInv(c)

(* The default of Get for a recipient without a row is a row like others.    *)
LEMMA NoPrefType == NoPref \in PrefRow
<1>1. NoPref.zone \in ZoneNames
  BY Zenon DEF ZoneNames
<1> QED
  BY <1>1, Zenon DEF NoPref, PrefRow

(* A caller with nothing to do.                                              *)
LEMMA IdleType == Idle \in Call
  BY NoPrefType, Zenon DEF Idle, Call, Stages

(* dbPreferenceToDomain turns rows into rows: a zone of NULL becomes UTC.    *)
LEMMA ToDomainType == \A p \in PrefRow : ToDomain(p) \in PrefRow
<1> SUFFICES ASSUME NEW p \in PrefRow PROVE [p EXCEPT !.zone = "UTC"] \in PrefRow
  BY Zenon DEF ToDomain
<1>1. ASSUME NEW B, NEW S, NEW Z, NEW r \in [enabled : B, start : S, end : S, zone : Z],
             NEW z \in Z
      PROVE  [r EXCEPT !.zone = z] \in [enabled : B, start : S, end : S, zone : Z]
  BY Zenon
<1>2. "UTC" \in ZoneNames
  BY Zenon DEF ZoneNames
<1> QED
  BY <1>1, <1>2, Zenon DEF PrefRow

(* No call has begun, so that none knows anything.                           *)
LEMMA PrefInit == AdmissionInit => PrefInv
<1> SUFFICES ASSUME AdmissionInit PROVE PrefInv
  BY Zenon
<1>1. clock \in Nat /\ pref \in [Tenants -> PrefRow] /\ call \in [Callers -> Call]
  BY NoPrefType, IdleType, Zenon DEF AdmissionInit, LimiterInit, PreferencesInit
<1>2. ASSUME NEW c \in Callers PROVE CallInv(c)
  BY DEF AdmissionInit, LimiterInit, CallInv, Idle
<1> QED
  BY <1>1, <1>2, Zenon DEF PrefInv

(* A step that changes one call at most, and neither rows nor clock, keeps   *)
(* the invariant if it keeps what that call knows.                           *)
LEMMA OneCall ==
  ASSUME PrefInv, NEW c \in Callers, NEW r \in Call,
         call' = [call EXCEPT ![c] = r], UNCHANGED <<clock, pref>>,
         r.since <= clock,
         r.stage \in {"get", "judge"} => r.tenant \in Tenants /\ GetPref(r.tenant) \in r.rows,
         r.stage = "judge" => r.row \in r.rows
  PROVE  PrefInv'
<1>1. (clock \in Nat /\ pref \in [Tenants -> PrefRow])' /\ call' \in [Callers -> Call]
  BY Zenon DEF PrefInv
<1>2. ASSUME NEW d \in Callers PROVE CallInv(d)'
  <2>1. CASE d = c
    <3>1. call'[d] = r
      BY <2>1, Zenon DEF PrefInv
    <3> QED
      BY <3>1, Zenon DEF CallInv, GetPref
  <2>2. CASE d # c
    <3>1. call'[d] = call[d] /\ CallInv(d)
      BY <2>2, Zenon DEF PrefInv
    <3> QED
      BY <3>1, Zenon DEF CallInv, GetPref
  <2> QED
    BY <2>1, <2>2, Zenon
<1> QED
  BY <1>1, <1>2, Zenon DEF PrefInv

(* The steps of a call that go on to a stage behind step 3, or end it.       *)
LEMMA LeaveStep3 ==
  ASSUME PrefInv, NEW c \in Callers, UNCHANGED <<clock, pref>>,
         \/ Return(c)
         \/ \E st \in Stages \ {"get", "judge"} :
              call' = [call EXCEPT ![c].stage = st]
              \/ call' = [call EXCEPT ![c] = [Idle EXCEPT !.stage = st]]
  PROVE  PrefInv'
<1>0. call[c] \in Call /\ call[c].since <= clock /\ clock \in Nat
  BY Zenon DEF PrefInv, CallInv
<1>1. CASE Return(c)
  <2>1. Idle.since <= clock /\ Idle.stage = "idle"
    BY <1>0 DEF Idle
  <2> QED
    BY <1>1, <2>1, IdleType, OneCall, Zenon DEF Return
<1>2. CASE \E st \in Stages \ {"get", "judge"} : call' = [call EXCEPT ![c].stage = st]
  <2>1. PICK st \in Stages \ {"get", "judge"} : call' = [call EXCEPT ![c].stage = st]
    BY <1>2, Zenon
  <2> DEFINE r == [call[c] EXCEPT !.stage = st]
  <2>2. r \in Call /\ r.since <= clock /\ r.stage \notin {"get", "judge"}
    BY <1>0, Zenon DEF Call
  <2>3. call' = [call EXCEPT ![c] = r]
    BY <2>1, Zenon
  <2> HIDE DEF r
  <2> QED
    BY <2>2, <2>3, OneCall, Zenon
<1>3. CASE \E st \in Stages \ {"get", "judge"} :
             call' = [call EXCEPT ![c] = [Idle EXCEPT !.stage = st]]
  <2>1. PICK st \in Stages \ {"get", "judge"} :
               call' = [call EXCEPT ![c] = [Idle EXCEPT !.stage = st]]
    BY <1>3, Zenon
  <2> DEFINE r == [Idle EXCEPT !.stage = st]
  <2>2. r \in Call /\ r.since <= clock /\ r.stage \notin {"get", "judge"}
    <3>1. r \in Call /\ r.stage = st /\ r.since = Idle.since
      BY IdleType, Zenon DEF Call
    <3>2. Idle.since = 0
      BY Zenon DEF Idle
    <3> QED
      BY <1>0, <3>1, <3>2
  <2> HIDE DEF r
  <2> QED
    BY <2>1, <2>2, OneCall, Zenon DEF r
<1> QED
  BY <1>1, <1>2, <1>3, Zenon

(* Arrive: the call of a worker starts with the row of this moment.          *)
LEMMA ArriveKeeps ==
  ASSUME PrefInv, NEW c \in Callers, NEW t \in Tenants, Arrive(c, t)
  PROVE  PrefInv'
<1> DEFINE r == [Idle EXCEPT !.stage = "get", !.tenant = t, !.since = clock,
                             !.rows = {GetPref(t)}]
<1>0. UNCHANGED <<clock, pref>>
  BY Zenon DEF Arrive, preferenceVars
<1>1. CASE scope = "worker"
  <2>1. GetPref(t) \in PrefRow
    BY ToDomainType, Zenon DEF PrefInv, GetPref
  <2>2. r \in Call /\ r.since = clock /\ r.stage = "get" /\ r.tenant = t
          /\ r.rows = {GetPref(t)}
    BY <2>1, NoPrefType, Zenon DEF Idle, Call, Stages, PrefInv
  <2>3. call' = [call EXCEPT ![c] = r]
    BY <1>1, Zenon DEF Arrive
  <2>4. clock <= clock
    BY DEF PrefInv
  <2> HIDE DEF r
  <2> QED
    BY <1>0, <2>2, <2>3, <2>4, OneCall, Zenon
<1>2. CASE scope # "worker"
  <2>1. call' = [call EXCEPT ![c] = [Idle EXCEPT !.stage = "auth"]]
    BY <1>2, Zenon DEF Arrive
  <2>2. "auth" \in Stages \ {"get", "judge"}
    BY Zenon DEF Stages
  <2> QED
    BY <1>0, <2>1, <2>2, LeaveStep3, Zenon
<1> QED
  BY <1>1, <1>2, Zenon

(* PrefGet: the row it reads is that of this moment.                         *)
LEMMA PrefGetKeeps ==
  ASSUME PrefInv, NEW c \in Callers, PrefGet(c)
  PROVE  PrefInv'
<1> DEFINE g == GetPref(call[c].tenant)
           r == [call[c] EXCEPT !.stage = "judge", !.row = g]
<1>0. UNCHANGED <<clock, pref>>
  BY Zenon DEF PrefGet, preferenceVars
<1>1. CASE call' = [call EXCEPT ![c].stage = "judge", ![c].row = g]
  <2>1. /\ call[c] \in Call /\ call[c].since <= clock
        /\ call[c].tenant \in Tenants /\ g \in call[c].rows
    BY Zenon DEF PrefInv, CallInv, PrefGet
  <2>2. g \in PrefRow
    BY <2>1, ToDomainType, Zenon DEF PrefInv, GetPref
  <2> HIDE DEF g
  <2>3. r \in Call /\ r.since = call[c].since /\ r.stage = "judge" /\ r.row = g
          /\ r.tenant = call[c].tenant /\ r.rows = call[c].rows
    BY <2>1, <2>2, Zenon DEF Call, Stages
  <2>4. call' = [call EXCEPT ![c] = r]
    BY <1>1, Zenon
  <2>5. GetPref(r.tenant) \in r.rows
    BY <2>1, <2>3, Zenon DEF g
  <2> HIDE DEF r
  <2> QED
    BY <1>0, <2>1, <2>3, <2>4, <2>5, OneCall, Zenon
<1>2. CASE Return(c)
  BY <1>0, <1>2, LeaveStep3, Zenon
<1> QED
  BY <1>1, <1>2, Zenon DEF PrefGet

(* The other steps of a call leave step 3 or are behind it.                  *)
LEMMA LaterStepsKeep ==
  ASSUME PrefInv, NEW c \in Callers,
         PrefJudge(c) \/ Authenticate(c) \/ Limit(c) \/ Execute(c)
  PROVE  PrefInv'
<1>0. UNCHANGED <<clock, pref>>
  BY Zenon DEF PrefJudge, Authenticate, Limit, Execute, preferenceVars
<1>1. {"limit", "exec"} \subseteq Stages \ {"get", "judge"}
  BY Zenon DEF Stages
<1>2. CASE PrefJudge(c)
  <2>1. \/ Return(c)
        \/ call' = [call EXCEPT ![c] = [Idle EXCEPT !.stage = "limit"]]
    BY <1>2, Zenon DEF PrefJudge
  <2> QED
    BY <1>0, <1>1, <2>1, LeaveStep3, Zenon
<1>3. CASE Authenticate(c) \/ Limit(c) \/ Execute(c)
  <2>1. Return(c) \/ To(c, "limit") \/ To(c, "exec")
    BY <1>3, Zenon DEF Authenticate, Limit, Execute
  <2> QED
    BY <1>0, <1>1, <2>1, LeaveStep3, Zenon DEF To
<1> QED
  BY <1>2, <1>3, Zenon

(* ChangePreference: the new row joins those of every call in step 3.        *)
LEMMA ChangeKeeps ==
  ASSUME PrefInv, ChangePreference
  PROVE  PrefInv'
<1>1. pref' \in [Tenants -> PrefRow]
  BY NoPrefType, RequestsAssumption, Zenon DEF ChangePreference, DeletePref, Upsert, PrefInv
<1>2. UNCHANGED clock
  BY Zenon DEF ChangePreference
<1>3. ASSUME NEW c \in Callers PROVE call'[c] \in Call /\ CallInv(c)'
  <2>0. call[c] \in Call /\ CallInv(c) /\ call[c].since <= clock
    BY Zenon DEF PrefInv, CallInv
  <2>1. CASE call[c].stage \in {"get", "judge"}
    <3> DEFINE g == ToDomain(pref'[call[c].tenant])
               r == [call[c] EXCEPT !.rows = call[c].rows \cup {g}]
    <3>1. call'[c] = r
      BY <2>1, Zenon DEF ChangePreference
    <3>2. call[c].tenant \in Tenants
      BY <2>0, <2>1, Zenon DEF CallInv
    <3>3. g \in PrefRow
      BY <1>1, <3>2, ToDomainType, Zenon
    <3> HIDE DEF g
    <3>4. r \in Call /\ r.since = call[c].since /\ r.stage = call[c].stage
            /\ r.tenant = call[c].tenant /\ r.row = call[c].row
            /\ r.rows = call[c].rows \cup {g}
      BY <2>0, <3>3, Zenon DEF Call
    <3> HIDE DEF r
    <3>5. GetPref(call[c].tenant)' = g
      BY <3>1, <3>4, Zenon DEF GetPref, g
    <3> QED
      BY <1>2, <2>0, <3>1, <3>2, <3>4, <3>5, Zenon DEF CallInv
  <2>2. CASE call[c].stage \notin {"get", "judge"}
    <3>1. call'[c] = call[c]
      BY <2>2, Zenon DEF ChangePreference
    <3> QED
      BY <1>2, <2>0, <2>2, <3>1, Zenon DEF CallInv
  <2> QED
    BY <2>1, <2>2, Zenon
<1>4. call' \in [Callers -> Call]
  <2>1. call' = [c \in Callers |-> call'[c]]
    BY Zenon DEF ChangePreference
  <2> QED
    BY <1>3, <2>1, Zenon
<1> QED
  BY <1>1, <1>2, <1>3, <1>4, Zenon DEF PrefInv

(* Time passes, and a stuttering step.                                       *)
LEMMA TimeKeeps ==
  ASSUME PrefInv, Time \/ UNCHANGED admissionVars
  PROVE  PrefInv'
<1>1. UNCHANGED <<pref, call>> /\ clock' \in Nat /\ clock <= clock'
  BY DEF Time, Tick, admissionVars, preferenceVars, PrefInv
<1>2. ASSUME NEW c \in Callers PROVE CallInv(c)'
  <2>1. CallInv(c) /\ call[c].since \in Nat /\ clock \in Nat
    BY Zenon DEF PrefInv, Call
  <2>2. call[c].since <= clock'
    BY <1>1, <2>1 DEF CallInv
  <2> QED
    BY <1>1, <2>1, <2>2, Zenon DEF CallInv, GetPref
<1> QED
  BY <1>1, <1>2, Zenon DEF PrefInv

(* Every step of a call, of a request and of time keeps the invariant.       *)
LEMMA PrefNext == PrefInv /\ [AdmissionNext]_admissionVars => PrefInv'
  BY ArriveKeeps, PrefGetKeeps, LaterStepsKeep, ChangeKeeps, TimeKeeps, Zenon
  DEF AdmissionNext, CallStep

-----------------------------------------------------------------------------
(* The theorem. *)

(* A call that has been judged passed, or was dropped, by what one of its    *)
(* rows says at the moment of the judgement.                                 *)
LEMMA JudgedByARow ==
  ASSUME PrefInv, NEW c \in Callers, PrefJudge(c)
  PROVE  /\ call'[c].stage \in {"limit", "idle"}
         /\ Judged(c, call'[c].stage = "limit")
<1> DEFINE p == call[c].row
<1>1. p \in call[c].rows /\ p \in PrefRow /\ call[c].since \in Nat /\ clock \in Nat
        /\ call[c].since <= clock
  BY Zenon DEF PrefInv, CallInv, Call, PrefJudge
<1>2. clock \in call[c].since .. clock
  BY <1>1
<1>3. Allowed(p, clock) <=> Wanted(p, clock)
  BY <1>1, AllowedIsWanted, Zenon
<1>4. /\ Allowed(p, clock) => call'[c].stage = "limit"
      /\ ~Allowed(p, clock) => call'[c].stage = "idle"
  BY DEF PrefJudge, Return, Idle, PrefInv
<1>5. Wanted(p, clock) = (call'[c].stage = "limit")
  <2>1. Wanted(p, clock) \in BOOLEAN
    BY Zenon DEF Wanted
  <2>2. Wanted(p, clock) <=> call'[c].stage = "limit"
    BY <1>3, <1>4, Zenon
  <2> QED
    BY <2>1, <2>2, Zenon
<1> HIDE DEF p
<1> QED
  BY <1>1, <1>2, <1>4, <1>5, Zenon DEF Judged

(* Of the steps only PrefJudge(c) takes c out of the judgement.              *)
LEMMA OnlyJudgement ==
  ASSUME PrefInv, [AdmissionNext]_admissionVars, NEW c \in Callers,
         call[c].stage = "judge", call'[c].stage # "judge"
  PROVE  PrefJudge(c)
<1>0. call \in [Callers -> Call]
  BY Zenon DEF PrefInv
<1>1. ASSUME NEW d \in Callers, d # c, CallStep(d) \/ \E t \in Tenants : Arrive(d, t)
      PROVE  FALSE
  <2>1. call'[c] = call[c]
    BY <1>0, <1>1, Zenon DEF CallStep, PrefGet, PrefJudge, Authenticate, Limit, Execute, Arrive,
                      To, Return
  <2> QED
    BY <2>1, Zenon
<1>2. CASE ChangePreference
  <2>1. call'[c].stage = call[c].stage
    BY <1>0, <1>2, Zenon DEF ChangePreference, Call
  <2> QED
    BY <2>1, Zenon
<1>3. CASE Time \/ UNCHANGED admissionVars
  BY <1>3, Zenon DEF Time, admissionVars
<1>4. CASE CallStep(c) \/ \E t \in Tenants : Arrive(c, t)
  BY <1>4, Zenon DEF CallStep, PrefGet, Authenticate, Limit, Execute, Arrive
<1> QED
  BY <1>1, <1>2, <1>3, <1>4, Zenon DEF AdmissionNext

(* IsAllowed honours preferences: a notification passes the check only if    *)
(* its own tenant's row allowed it at some moment since it came, and is      *)
(* dropped only if the row forbade it at such a moment, whatever the zone,   *)
(* the hours and the changes made to the row between its SELECT and the      *)
(* judgement.                                                                *)
THEOREM PreferencesAreHonoured == AdmissionSpec => PreferenceHonoured
<1>1. ASSUME PrefInv, [AdmissionNext]_admissionVars
      PROVE  [\A c \in Callers : Honoured(c)]_admissionVars
  <2> SUFFICES ASSUME NEW c \in Callers, call[c].stage = "judge", call'[c].stage # "judge"
               PROVE  Honoured(c)
    BY Zenon DEF Honoured
  <2>1. PrefJudge(c)
    BY <1>1, OnlyJudgement, Zenon
  <2> QED
    BY <1>1, <2>1, JudgedByARow, Zenon DEF Honoured
<1> QED
  BY <1>1, PrefInit, PrefNext, PTL DEF AdmissionSpec, PreferenceHonoured

-----------------------------------------------------------------------------
(* The rate limiter. *)

Calls == [stamp : Nat, verdict : Verdicts, admit : BOOLEAN, late : BOOLEAN]

(* Types, and the bounds of time: a stamp is not ahead of the clock, and the *)
(* TTL not longer than a transaction that ran now would make it.             *)
RateTypes ==
  /\ clock \in Nat /\ cap \in Nat
  /\ expires \in Nat /\ expires <= clock + Window + Slack
  /\ stamp \in [Callers -> Nat \cup {NoStamp}]
  /\ \A c \in Callers : stamp[c] <= clock
  /\ log \in Seq(Calls)

(* Every member of the sorted set is a logged call.                          *)
ZsetInv == \A s \in zset : \E k \in DOMAIN log : s = Score(log[k].stamp)

(* A granted call is in the sorted set, or it has left the window of a call  *)
(* that evicted it, or so much time has passed that the key is gone.         *)
GrantInv ==
  \A k \in DOMAIN log : log[k].verdict = "granted" =>
    /\ expires >= log[k].stamp + Window + Slack
    /\ \/ Score(log[k].stamp) \in zset
       \/ \E j \in DOMAIN log : Score(log[k].stamp) <= Score(log[j].stamp - Window)
       \/ clock >= log[k].stamp + Window + Slack

AdmitInv ==
  \A k \in DOMAIN log : log[k].admit =>
    log[k].verdict = "granted" \/ (scope = "api" /\ log[k].verdict = "error")

RateInv ==
  /\ RateTypes /\ ZsetInv /\ GrantInv /\ AdmitInv
  /\ WindowBound /\ DenialIsJustified

(* A multiple of a larger number is larger.                                  *)
LEMMA Multiples ==
  ASSUME NEW a \in Int, NEW b \in Int, NEW n \in Nat, a <= b
  PROVE  n * a <= n * b /\ n * a \in Int
<1>1. b - a \in Nat /\ b = a + (b - a)
  OBVIOUS
<1>2. ASSUME NEW d \in Nat PROVE n * a <= n * (a + d)
  <2>1. n * (a + d) = n * a + n * d /\ n * d >= 0 /\ n * d \in Int /\ n * a \in Int
    OBVIOUS
  <2> QED
    BY <2>1
<1> QED
  BY <1>1, <1>2

(* Rounding down, and what it leaves.                                        *)
LEMMA Division ==
  ASSUME NEW t \in Int, NEW n \in Nat \ {0}
  PROVE  t \div n \in Int /\ t % n \in 0 .. n - 1 /\ t % n = t - n * (t \div n)
  OBVIOUS

(* A later time never has a lower score: rounding to a float64 keeps the      *)
(* order.                                                                    *)
LEMMA ScoreMonotone ==
  ASSUME NEW s \in Int, NEW t \in Int, s <= t
  PROVE  Score(s) \in Int /\ Score(t) \in Int /\ Score(s) <= Score(t)
<1> DEFINE Up(q, r) == IF 2 * r < Quantum \/ (2 * r = Quantum /\ q % 2 = 0) THEN q ELSE q + 1
           qs == s \div Quantum
           rs == s % Quantum
           qt == t \div Quantum
           rt == t % Quantum
<1>0. Quantum \in Nat \ {0}
  BY RateLimiterAssumption, Zenon
<1>1. /\ qs \in Int /\ qt \in Int /\ rs \in 0 .. Quantum - 1 /\ rt \in 0 .. Quantum - 1
      /\ rs = s - Quantum * qs /\ rt = t - Quantum * qt
  BY <1>0, Division, Zenon
<1>2. Score(s) = Quantum * Up(qs, rs) /\ Score(t) = Quantum * Up(qt, rt)
  BY Zenon DEF Score
<1> HIDE DEF qs, qt, rs, rt
<1>3. qs <= qt
  <2> SUFFICES ASSUME qt + 1 <= qs PROVE FALSE
    BY <1>1
  <2>1. Quantum * (qt + 1) <= Quantum * qs
    BY <1>0, <1>1, Multiples
  <2>2. Quantum * (qt + 1) = Quantum * qt + Quantum /\ Quantum * qt \in Int /\ Quantum * qs \in Int
    BY <1>0, <1>1
  <2> QED
    BY <1>0, <1>1, <2>1, <2>2
<1>4. qs = qt => rs <= rt
  BY <1>0, <1>1
<1>5. Up(qs, rs) \in Int /\ Up(qt, rt) \in Int /\ Up(qs, rs) <= Up(qt, rt)
  BY <1>0, <1>1, <1>3, <1>4
<1> HIDE DEF Up
<1> QED
  BY <1>0, <1>2, <1>5, Multiples
(* The scores of a finite set of calls are finitely many.                    *)
LEMMA FinitelyMany ==
  ASSUME NEW S, IsFiniteSet(S), NEW f
  PROVE  IsFiniteSet({f[x] : x \in S})
<1> DEFINE T == {f[x] : x \in S}
           g == [x \in S |-> f[x]]
<1>1. g \in Surjection(S, T)
  BY Zenon DEF Surjection
<1> HIDE DEF T, g
<1> QED
  BY <1>1, FS_Surjection, Zenon DEF T

(* A smaller set of scores does not count more, and a set with one score     *)
(* added counts at most one more.                                            *)
LEMMA Counting ==
  ASSUME NEW S, NEW T, IsFiniteSet(T), S \subseteq T
  PROVE  /\ IsFiniteSet(S) /\ Cardinality(S) \in Nat /\ Cardinality(T) \in Nat
         /\ Cardinality(S) <= Cardinality(T)
         /\ \A x : IsFiniteSet(T \cup {x}) /\ Cardinality(T \cup {x}) <= Cardinality(T) + 1
<1>1. IsFiniteSet(S) /\ Cardinality(S) <= Cardinality(T)
  BY FS_Subset, Zenon
<1>2. Cardinality(S) \in Nat /\ Cardinality(T) \in Nat
  BY <1>1, FS_CardinalityType, Zenon
<1>3. ASSUME NEW x
      PROVE  IsFiniteSet(T \cup {x}) /\ Cardinality(T \cup {x}) <= Cardinality(T) + 1
  <2>1. /\ IsFiniteSet(T \cup {x})
        /\ Cardinality(T \cup {x}) = IF x \in T THEN Cardinality(T) ELSE Cardinality(T) + 1
    BY FS_AddElement, Zenon
  <2>2. CASE x \in T
    <3>1. Cardinality(T \cup {x}) = Cardinality(T)
      BY <2>1, <2>2, Zenon
    <3> QED
      BY <1>2, <2>1, <3>1
  <2>3. CASE x \notin T
    <3>1. Cardinality(T \cup {x}) = Cardinality(T) + 1
      BY <2>1, <2>3, Zenon
    <3> QED
      BY <1>2, <2>1, <3>1
  <2> QED
    BY <2>2, <2>3, Zenon
<1> QED
  BY <1>1, <1>2, <1>3, Zenon

(* The sorted set is finite.                                                 *)
LEMMA ZsetFinite ==
  ASSUME RateTypes, ZsetInv
  PROVE  IsFiniteSet(zset)
<1> DEFINE f == [k \in DOMAIN log |-> Score(log[k].stamp)]
           T == {f[k] : k \in DOMAIN log}
<1>1. IsFiniteSet(DOMAIN log)
  <2>1. DOMAIN log = 1 .. Len(log) /\ Len(log) \in Int /\ 1 \in Int
    BY DEF RateTypes
  <2> QED
    BY <2>1, FS_Interval, Zenon
<1>2. IsFiniteSet(T)
  <2> HIDE DEF f
  <2> QED
    BY <1>1, FinitelyMany, Zenon
<1>3. zset \subseteq T
  BY Zenon DEF ZsetInv
<1> QED
  BY <1>2, <1>3, FS_Subset, Zenon

-----------------------------------------------------------------------------
(* A transaction of AllowKey. *)

ExecStep(c, v) == AllowExec(c, v, Admits(v)) /\ UNCHANGED <<clock, scope>>

Entry(c, v) ==
  [stamp |-> stamp[c], verdict |-> v, admit |-> Admits(v), late |-> IsLate(c)]

(* The fields of the new entry.                                              *)
LEMMA EntryFields ==
  ASSUME NEW c, NEW v, NEW n, log'[n] = Entry(c, v)
  PROVE  /\ log'[n].stamp = stamp[c] /\ log'[n].verdict = v
         /\ log'[n].admit <=> Admits(v)
         /\ log'[n].late <=> IsLate(c)
  BY DEF Entry

(* The log gets one entry at its end, and Redis has run the transaction      *)
(* unless it reported an error.                                              *)
LEMMA ExecLogs ==
  ASSUME RateTypes, NEW c \in Callers, NEW v \in Verdicts, ExecStep(c, v), NEW n, n = Len(log) + 1
  PROVE  /\ stamp[c] \in Nat /\ stamp[c] <= clock /\ Entry(c, v) \in Calls
         /\ DOMAIN log = 1 .. Len(log) /\ n \in Nat
         /\ log' \in Seq(Calls) /\ n \in DOMAIN log' /\ log'[n] = Entry(c, v)
         /\ \A k \in DOMAIN log : k \in DOMAIN log' /\ log'[k] = log[k] /\ log[k] \in Calls
         /\ \A k \in DOMAIN log' : k \in DOMAIN log \/ k = n
         /\ Record(stamp[c]) \/ (v = "error" /\ UNCHANGED <<zset, expires>>)
         /\ UNCHANGED <<cap, clock, scope>> /\ stamp' = [stamp EXCEPT ![c] = NoStamp]
<1>1. /\ stamp[c] # NoStamp /\ log' = Append(log, Entry(c, v))
      /\ Record(stamp[c]) \/ (v = "error" /\ UNCHANGED <<zset, expires>>)
      /\ UNCHANGED <<cap, clock, scope>> /\ stamp' = [stamp EXCEPT ![c] = NoStamp]
  BY Zenon DEF ExecStep, AllowExec, Entry
<1>2. stamp[c] \in Nat /\ stamp[c] <= clock
  BY <1>1, Zenon DEF RateTypes
<1>3. Admits(v) \in BOOLEAN /\ IsLate(c) \in BOOLEAN
  BY Zenon DEF Admits, IsLate
<1>4. Entry(c, v) \in Calls
  BY <1>2, <1>3, Zenon DEF Entry, Calls
<1>5. log \in Seq(Calls)
  BY Zenon DEF RateTypes
<1>6. ASSUME NEW C, NEW s \in Seq(C), NEW e \in C
      PROVE  /\ DOMAIN s = 1 .. Len(s) /\ Len(s) + 1 \in Nat
             /\ Append(s, e) \in Seq(C) /\ Len(s) + 1 \in DOMAIN Append(s, e)
             /\ Append(s, e)[Len(s) + 1] = e
             /\ \A k \in DOMAIN s :
                  k \in DOMAIN Append(s, e) /\ Append(s, e)[k] = s[k] /\ s[k] \in C
             /\ \A k \in DOMAIN Append(s, e) : k \in DOMAIN s \/ k = Len(s) + 1
  OBVIOUS
<1>7. /\ DOMAIN log = 1 .. Len(log) /\ n \in Nat
      /\ log' \in Seq(Calls) /\ n \in DOMAIN log' /\ log'[n] = Entry(c, v)
      /\ \A k \in DOMAIN log : k \in DOMAIN log' /\ log'[k] = log[k] /\ log[k] \in Calls
      /\ \A k \in DOMAIN log' : k \in DOMAIN log \/ k = n
  BY <1>1, <1>4, <1>5, <1>6
<1> QED
  BY <1>1, <1>2, <1>4, <1>7, Zenon

(* Types are kept, and the TTL only grows.                                   *)
LEMMA ExecTypes ==
  ASSUME RateTypes, NEW c \in Callers, NEW v \in Verdicts, ExecStep(c, v)
  PROVE  RateTypes' /\ expires <= expires'
<1>1. PICK n : n = Len(log) + 1
  BY Zenon
<1>2. /\ log' \in Seq(Calls) /\ UNCHANGED <<cap, clock>>
      /\ stamp' = [stamp EXCEPT ![c] = NoStamp]
      /\ Record(stamp[c]) \/ UNCHANGED expires
  BY <1>1, ExecLogs, Zenon
<1>3. expires' \in Nat /\ expires' <= clock + Window + Slack /\ expires <= expires'
  <2>1. /\ clock \in Nat /\ expires \in Nat /\ expires <= clock + Window + Slack
        /\ Window \in Nat /\ Slack \in Nat
    BY RateLimiterAssumption, Zenon DEF RateTypes
  <2>2. expires' = clock + Window + Slack \/ expires' = expires
    BY <1>2, Zenon DEF Record
  <2> QED
    BY <2>1, <2>2
<1>4. NoStamp <= clock
  <2>1. clock \in Nat
    BY Zenon DEF RateTypes
  <2> QED
    BY <2>1 DEF NoStamp
<1>5. stamp' \in [Callers -> Nat \cup {NoStamp}] /\ \A d \in Callers : stamp'[d] <= clock
  BY <1>2, <1>4, Zenon DEF RateTypes
<1> QED
  BY <1>2, <1>3, <1>5, Zenon DEF RateTypes

(* The sorted set keeps the calls of the window.                             *)
LEMMA ExecKeepsSet ==
  ASSUME RateTypes, ZsetInv, GrantInv, AdmitInv,
         NEW c \in Callers, NEW v \in Verdicts, ExecStep(c, v)
  PROVE  ZsetInv' /\ GrantInv' /\ AdmitInv'
<1>0. PICK n : n = Len(log) + 1
  BY Zenon
<1> DEFINE now == stamp[c]
<1>1. /\ now \in Nat /\ now <= clock
      /\ n \in DOMAIN log' /\ log'[n] = Entry(c, v)
      /\ \A k \in DOMAIN log : k \in DOMAIN log' /\ log'[k] = log[k] /\ log[k] \in Calls
      /\ \A k \in DOMAIN log' : k \in DOMAIN log \/ k = n
      /\ Record(now) \/ (v = "error" /\ UNCHANGED <<zset, expires>>)
      /\ UNCHANGED <<cap, clock, scope>>
  BY <1>0, ExecLogs, Zenon
<1>2. /\ log'[n].stamp = now /\ log'[n].verdict = v
      /\ (log'[n].admit <=> Admits(v)) /\ (log'[n].late <=> IsLate(c))
  BY <1>1, EntryFields, Zenon
<1>t. expires \in Nat /\ expires' \in Nat /\ expires <= expires' /\ clock \in Nat
      /\ Window \in Nat /\ Slack \in Nat
  BY ExecTypes, RateLimiterAssumption, Zenon DEF RateTypes
<1> HIDE DEF now
<1>3. Stored \subseteq zset
  BY Zenon DEF Stored
<1>4. ZsetInv'
  <2>1. ASSUME NEW s \in zset' PROVE s \in zset \/ s = Score(now)
    BY <1>1, <1>3, Zenon DEF Record, Kept
  <2> QED
    BY <1>1, <1>2, <2>1, Zenon DEF ZsetInv
<1>5. AdmitInv'
  BY <1>1, <1>2, Zenon DEF AdmitInv, Admits
<1>6. ASSUME NEW k \in DOMAIN log, log[k].verdict = "granted"
      PROVE  /\ expires' >= log[k].stamp + Window + Slack
             /\ \/ Score(log[k].stamp) \in zset'
                \/ \E j \in DOMAIN log' : Score(log[k].stamp) <= Score(log'[j].stamp - Window)
                \/ clock >= log[k].stamp + Window + Slack
  <2> DEFINE t == log[k].stamp
  <2>0. t \in Nat
    BY <1>1, Zenon DEF Calls
  <2>1. /\ expires >= t + Window + Slack
        /\ \/ Score(t) \in zset
           \/ \E j \in DOMAIN log : Score(t) <= Score(log[j].stamp - Window)
           \/ clock >= t + Window + Slack
    BY <1>6, Zenon DEF GrantInv
  <2> HIDE DEF t
  <2>2. expires' >= t + Window + Slack
    BY <1>t, <2>0, <2>1
  <2>3. CASE \E j \in DOMAIN log : Score(t) <= Score(log[j].stamp - Window)
    BY <1>1, <2>2, <2>3, Zenon DEF t
  <2>4. CASE clock >= t + Window + Slack
    BY <2>2, <2>4, Zenon DEF t
  <2>5. CASE Score(t) \in zset /\ Record(now)
    <3>1. CASE clock < expires
      <4>1. Score(t) \in Int /\ Score(now - Window) \in Int
        BY <1>1, <1>t, <2>0, ScoreMonotone
      <4>2. Score(t) > Score(now - Window) \/ Score(t) <= Score(now - Window)
        BY <4>1
      <4>3. Score(t) > Score(now - Window) => Score(t) \in zset'
        BY <2>5, <3>1, Zenon DEF Record, Kept, Stored
      <4> QED
        BY <1>1, <1>2, <2>2, <4>2, <4>3, Zenon DEF t
    <3>2. CASE ~(clock < expires)
      <4>1. clock >= t + Window + Slack
        BY <1>t, <2>0, <2>1, <3>2
      <4> QED
        BY <2>2, <4>1, Zenon DEF t
    <3> QED
      BY <3>1, <3>2, Zenon
  <2>6. CASE Score(t) \in zset /\ UNCHANGED zset
    BY <2>2, <2>6, Zenon DEF t
  <2> QED
    BY <1>1, <2>1, <2>3, <2>4, <2>5, <2>6, Zenon
<1>7. ASSUME v = "granted"
      PROVE  expires' >= now + Window + Slack /\ Score(now) \in zset'
  <2>1. Record(now)
    BY <1>1, <1>7, Zenon
  <2>2. expires' = clock + Window + Slack
    BY <2>1, Zenon DEF Record
  <2>3. expires' >= now + Window + Slack
    BY <1>1, <1>t, <2>2
  <2> QED
    BY <2>1, <2>3, Zenon DEF Record
<1>8. GrantInv'
  BY <1>1, <1>2, <1>6, <1>7, Zenon DEF GrantInv
<1> QED
  BY <1>4, <1>5, <1>8, Zenon

(* A denied call had cap calls before it in its window, since every member   *)
(* of the sorted set is one.                                                 *)
LEMMA ExecDenies ==
  ASSUME RateTypes, ZsetInv, DenialIsJustified,
         NEW c \in Callers, NEW v \in Verdicts, ExecStep(c, v)
  PROVE  DenialIsJustified'
<1>0. PICK n : n = Len(log) + 1
  BY Zenon
<1> DEFINE now == stamp[c]
           Earlier(i, t) == {Score(log[j].stamp) : j \in {k \in 1 .. i - 1 :
                               Score(log[k].stamp) > Score(t - Window)}}
           Then(i, t) == {Score(log'[j].stamp) : j \in {k \in 1 .. i - 1 :
                            Score(log'[k].stamp) > Score(t - Window)}}
<1>1. /\ DOMAIN log = 1 .. Len(log) /\ n \in Nat
      /\ n \in DOMAIN log' /\ log'[n] = Entry(c, v)
      /\ \A k \in DOMAIN log : k \in DOMAIN log' /\ log'[k] = log[k]
      /\ \A k \in DOMAIN log' : k \in DOMAIN log \/ k = n
      /\ UNCHANGED cap
  BY <1>0, ExecLogs, Zenon
<1>2. /\ log'[n].stamp = now /\ log'[n].verdict = v
      /\ (log'[n].admit <=> Admits(v)) /\ (log'[n].late <=> IsLate(c))
  BY <1>1, EntryFields, Zenon
<1>l. Len(log) \in Nat /\ 1 .. n - 1 = DOMAIN log
  BY <1>0, <1>1 DEF RateTypes
<1>3. \A i \in DOMAIN log' : \A k \in 1 .. i - 1 : k \in DOMAIN log
  <2>1. \A i \in 1 .. Len(log) : \A k \in 1 .. i - 1 : k \in 1 .. Len(log)
    BY <1>l
  <2> QED
    BY <1>1, <1>l, <2>1, Zenon
<1>4. ASSUME NEW i \in DOMAIN log', NEW t PROVE Then(i, t) = Earlier(i, t)
  BY <1>1, <1>3, Zenon
<1> HIDE DEF now
<1>5. ASSUME v = "denied" PROVE Cardinality(Earlier(n, now)) >= cap
  <2>1. ~UnderCap(Cardinality(Kept(now)))
    BY <1>5, Zenon DEF ExecStep, AllowExec, now
  <2>2. Kept(now) \subseteq Earlier(n, now)
    <3>1. \A s \in Kept(now) : s \in zset /\ s > Score(now - Window)
      BY Zenon DEF Kept, Stored
    <3> QED
      BY <1>l, <3>1, Zenon DEF ZsetInv
  <2>3. IsFiniteSet(Earlier(n, now))
    <3> DEFINE f == [k \in DOMAIN log |-> Score(log[k].stamp)]
               K == {k \in DOMAIN log : Score(log[k].stamp) > Score(now - Window)}
    <3>1. IsFiniteSet(DOMAIN log)
      <4>1. Len(log) \in Int /\ 1 \in Int
        BY <1>l
      <4> QED
        BY <1>1, <4>1, FS_Interval, Zenon
    <3>2. IsFiniteSet(K)
      BY <3>1, FS_Subset, Zenon
    <3>3. Earlier(n, now) = {f[k] : k \in K}
      BY <1>l, Zenon
    <3> HIDE DEF f, K
    <3>4. IsFiniteSet({f[k] : k \in K})
      BY <3>2, FinitelyMany, Zenon
    <3> QED
      BY <3>3, <3>4, Zenon
  <2> HIDE DEF Earlier
  <2>4. /\ Cardinality(Kept(now)) \in Nat /\ Cardinality(Earlier(n, now)) \in Nat
        /\ Cardinality(Kept(now)) <= Cardinality(Earlier(n, now))
    BY <2>2, <2>3, Counting, Zenon
  <2>5. cap \in Nat
    BY Zenon DEF RateTypes
  <2> QED
    BY <2>1, <2>4, <2>5 DEF UnderCap
<1>6. ASSUME NEW i \in DOMAIN log', log'[i].verdict = "denied"
      PROVE  Cardinality(Earlier(i, log'[i].stamp)) >= cap
  <2>1. CASE i = n
    BY <1>2, <1>5, <1>6, <2>1, Zenon
  <2>2. CASE i \in DOMAIN log
    BY <1>1, <1>6, <2>2, Zenon DEF DenialIsJustified
  <2> QED
    BY <1>1, <2>1, <2>2, Zenon
<1>7. ASSUME NEW i \in DOMAIN log', log'[i].verdict = "denied"
      PROVE  Cardinality(Then(i, log'[i].stamp)) >= cap'
  BY <1>1, <1>4, <1>6, <1>7, Zenon
<1> QED
  BY <1>7, Zenon DEF DenialIsJustified

Counted ==
  {j \in DOMAIN log : log[j].admit /\ ~log[j].late
                       /\ ~(scope = "api" /\ log[j].verdict = "error")}

(* A call that is granted in time finds in the sorted set every counted call *)
(* of its window.                                                            *)
LEMMA WindowIsKept ==
  ASSUME RateTypes, GrantInv, NEW c \in Callers, stamp[c] \in Nat, ~IsLate(c),
         NEW k \in DOMAIN log, log[k].verdict = "granted",
         Score(log[k].stamp) > Score(stamp[c] - Window)
  PROVE  Score(log[k].stamp) \in Kept(stamp[c])
<1> DEFINE t == log[k].stamp
           now == stamp[c]
<1>0. \A j \in DOMAIN log : log[j].stamp \in Nat
  <2>1. \A j \in DOMAIN log : log[j] \in Calls
    BY DEF RateTypes
  <2> QED
    BY <2>1, Zenon DEF Calls
<1>1. /\ expires >= t + Window + Slack
      /\ \/ Score(t) \in zset
         \/ \E j \in DOMAIN log : Score(t) <= Score(log[j].stamp - Window)
         \/ clock >= t + Window + Slack
  BY Zenon DEF GrantInv
<1>2. clock \in Nat /\ expires \in Nat /\ Window \in Nat /\ Slack \in Nat /\ t \in Nat
      /\ now \in Nat /\ now - Window \in Int
  <2>1. clock \in Nat /\ expires \in Nat /\ Window \in Nat /\ Slack \in Nat /\ t \in Nat
    BY <1>0, RateLimiterAssumption, Zenon DEF RateTypes
  <2> QED
    BY <2>1
<1>3. /\ ~(clock >= now + Slack)
      /\ \A j \in DOMAIN log : ~(log[j].stamp > now)
  BY Zenon DEF IsLate
<1>4. Score(t) > Score(now - Window)
  BY Zenon
<1> HIDE DEF t, now
<1>5. Score(t) \in Int /\ Score(now - Window) \in Int
  BY <1>2, ScoreMonotone
<1>6. t > now - Window
  <2> SUFFICES ASSUME t <= now - Window PROVE FALSE
    BY <1>2
  <2>1. Score(t) <= Score(now - Window)
    BY <1>2, ScoreMonotone
  <2> QED
    BY <1>4, <1>5, <2>1
<1>7. clock < t + Window + Slack /\ clock < expires
  BY <1>1, <1>2, <1>3, <1>6
<1>8. ASSUME NEW j \in DOMAIN log PROVE ~(Score(t) <= Score(log[j].stamp - Window))
  <2> DEFINE u == log[j].stamp
  <2>1. u \in Nat /\ ~(u > now)
    BY <1>0, <1>3, Zenon
  <2> HIDE DEF u
  <2>2. u - Window \in Int /\ u - Window <= now - Window
    BY <1>2, <2>1
  <2>3. Score(u - Window) \in Int /\ Score(u - Window) <= Score(now - Window)
    BY <1>2, <2>2, ScoreMonotone, Zenon
  <2>4. ~(Score(t) <= Score(u - Window))
    BY <1>4, <1>5, <2>3
  <2> QED
    BY <2>4, Zenon DEF u
<1>9. ~(clock >= t + Window + Slack)
  BY <1>2, <1>7
<1>10. Score(t) \in zset
  BY <1>1, <1>8, <1>9, Zenon
<1> QED
  BY <1>4, <1>7, <1>10, Zenon DEF Kept, Stored, t, now

(* The window of a counted call gains no score by a later call, because one  *)
(* with an older stamp is late and not counted; the window of a call that is *)
(* granted now is in the sorted set, which Redis has counted.                *)
LEMMA ExecCounts ==
  ASSUME RateTypes, ZsetInv, GrantInv, AdmitInv, WindowBound,
         NEW c \in Callers, NEW v \in Verdicts, ExecStep(c, v)
  PROVE  WindowBound'
<1>0. PICK n : n = Len(log) + 1
  BY Zenon
<1> DEFINE now == stamp[c]
<1>1. /\ now \in Nat /\ DOMAIN log = 1 .. Len(log) /\ n \in Nat
      /\ n \in DOMAIN log' /\ log'[n] = Entry(c, v)
      /\ \A k \in DOMAIN log : k \in DOMAIN log' /\ log'[k] = log[k] /\ log[k] \in Calls
      /\ \A k \in DOMAIN log' : k \in DOMAIN log \/ k = n
      /\ UNCHANGED <<cap, scope>>
  BY <1>0, ExecLogs, Zenon
<1>2. /\ log'[n].stamp = now /\ log'[n].verdict = v
      /\ (log'[n].admit <=> Admits(v)) /\ (log'[n].late <=> IsLate(c))
  BY <1>1, EntryFields, Zenon
<1>3. \A k \in DOMAIN log : k \in Counted' <=> k \in Counted
  BY <1>1, Zenon DEF Counted
<1>4. \A k \in Counted' : k \in Counted \/ k = n
  BY <1>1, <1>3, Zenon DEF Counted
<1>5. n \in Counted' => ~IsLate(c) /\ v = "granted"
  BY <1>1, <1>2, Zenon DEF Counted, Admits
<1>6. \A k \in Counted : k \in DOMAIN log /\ log[k].verdict = "granted"
  BY Zenon DEF Counted, AdmitInv
<1>7. \A k \in DOMAIN log : log[k].stamp \in Nat
  BY <1>1, Zenon DEF Calls
<1>8. n \in Counted' => \A k \in DOMAIN log : log[k].stamp <= now
  <2> SUFFICES ASSUME n \in Counted', NEW k \in DOMAIN log PROVE log[k].stamp <= now
    BY Zenon
  <2>1. ~(log[k].stamp > now)
    BY <1>5, Zenon DEF IsLate
  <2> QED
    BY <1>1, <1>7, <2>1
<1>9. \A i \in Counted : Cardinality(InWindow(i, Counted)) <= cap
  BY Zenon DEF WindowBound, Counted
<1> HIDE DEF now
<1>10. ASSUME NEW i \in Counted PROVE InWindow(i, Counted)' = InWindow(i, Counted)
  <2> DEFINE In(k) == /\ log[k].stamp <= log[i].stamp
                      /\ Score(log[k].stamp) > Score(log[i].stamp - Window)
  <2>0. log'[i] = log[i] /\ i \in DOMAIN log /\ i \in Counted'
    BY <1>1, <1>3, <1>6, Zenon
  <2>1. InWindow(i, Counted)' = {Score(log'[k].stamp) : k \in {j \in Counted' :
          log'[j].stamp <= log[i].stamp /\ Score(log'[j].stamp) > Score(log[i].stamp - Window)}}
    BY <2>0, Zenon DEF InWindow
  <2>2. ASSUME NEW s \in InWindow(i, Counted) PROVE s \in InWindow(i, Counted)'
    <3>1. PICK k \in Counted : In(k) /\ s = Score(log[k].stamp)
      BY <2>2, Zenon DEF InWindow
    <3>2. k \in Counted' /\ log'[k] = log[k]
      BY <1>1, <1>3, <1>6, Zenon
    <3> QED
      BY <2>1, <3>1, <3>2, Zenon
  <2>3. ASSUME NEW s \in InWindow(i, Counted)' PROVE s \in InWindow(i, Counted)
    <3>1. PICK k \in Counted' : /\ log'[k].stamp <= log[i].stamp
                                /\ Score(log'[k].stamp) > Score(log[i].stamp - Window)
                                /\ s = Score(log'[k].stamp)
      BY <2>1, <2>3, Zenon
    <3>2. CASE k \in Counted
      <4>1. log'[k] = log[k]
        BY <1>1, <1>6, <3>2, Zenon
      <4> QED
        BY <3>1, <3>2, <4>1, Zenon DEF InWindow
    <3>3. CASE k = n
      <4>1. log[i].stamp = now /\ log[i].stamp <= log[i].stamp
        <5>1. now <= log[i].stamp /\ log[i].stamp <= now
          BY <1>2, <1>8, <2>0, <3>1, <3>3, Zenon
        <5> QED
          BY <1>1, <1>7, <2>0, <5>1 DEF now
      <4>2. In(i) /\ s = Score(log[i].stamp)
        BY <1>2, <3>1, <3>3, <4>1, Zenon
      <4> QED
        BY <4>2, Zenon DEF InWindow
    <3> QED
      BY <1>4, <3>2, <3>3, Zenon
  <2> QED
    BY <2>2, <2>3, Zenon
<1>11. ASSUME n \in Counted' PROVE Cardinality(InWindow(n, Counted)') <= cap
  <2> DEFINE W == InWindow(n, Counted)'
  <2>1. W = {Score(log'[k].stamp) : k \in {j \in Counted' :
               log'[j].stamp <= now /\ Score(log'[j].stamp) > Score(now - Window)}}
    BY <1>2, Zenon DEF InWindow
  <2>2. W \subseteq Kept(now) \cup {Score(now)}
    <3> SUFFICES ASSUME NEW k \in Counted', Score(log'[k].stamp) > Score(now - Window)
                 PROVE  Score(log'[k].stamp) \in Kept(now) \cup {Score(now)}
      BY <2>1, Zenon
    <3>1. CASE k = n
      BY <1>2, <3>1, Zenon
    <3>2. CASE k \in Counted
      <4>1. log'[k] = log[k] /\ k \in DOMAIN log /\ log[k].verdict = "granted"
        BY <1>1, <1>6, <3>2, Zenon
      <4>2. Score(log[k].stamp) \in Kept(now)
        BY <1>1, <1>5, <1>11, <4>1, WindowIsKept, Zenon DEF now
      <4> QED
        BY <4>1, <4>2, Zenon
    <3> QED
      BY <1>4, <3>1, <3>2, Zenon
  <2>3. UnderCap(Cardinality(Kept(now)))
    BY <1>5, <1>11, Zenon DEF ExecStep, AllowExec, now
  <2>4. IsFiniteSet(Kept(now))
    <3>1. Kept(now) \subseteq zset
      BY Zenon DEF Kept, Stored
    <3> QED
      BY <3>1, ZsetFinite, FS_Subset, Zenon
  <2> HIDE DEF W
  <2> DEFINE T == Kept(now) \cup {Score(now)}
  <2>5. IsFiniteSet(T) /\ Cardinality(T) <= Cardinality(Kept(now)) + 1 /\ Cardinality(Kept(now)) \in Nat
    BY <2>4, Counting, Zenon
  <2>6. Cardinality(W) \in Nat /\ Cardinality(T) \in Nat /\ Cardinality(W) <= Cardinality(T)
    <3> HIDE DEF T
    <3>1. W \subseteq T
      BY <2>2, Zenon DEF T
    <3> QED
      BY <2>5, <3>1, Counting, Zenon
  <2>7. cap \in Nat
    BY Zenon DEF RateTypes
  <2>8. Cardinality(W) <= cap
    <3> HIDE DEF T
    <3> QED
      BY <2>3, <2>5, <2>6, <2>7 DEF UnderCap
  <2> QED
    BY <2>8, Zenon DEF W
<1>12. ASSUME NEW i \in Counted' PROVE Cardinality(InWindow(i, Counted)') <= cap'
  <2>1. CASE i = n
    BY <1>1, <1>11, <1>12, <2>1, Zenon
  <2>2. CASE i \in Counted
    BY <1>1, <1>9, <1>10, <2>2, Zenon
  <2> QED
    BY <1>4, <1>12, <2>1, <2>2, Zenon
<1> QED
  BY <1>12, Zenon DEF WindowBound, Counted

(* A step that runs no transaction keeps the invariant: time passes, or a    *)
(* caller reads its clock.                                                   *)
LEMMA QuietStep ==
  ASSUME RateInv, UNCHANGED <<cap, zset, expires, log, scope>>,
         clock' \in Nat, clock <= clock',
         stamp' = stamp \/ \E c \in Callers : stamp' = [stamp EXCEPT ![c] = clock]
  PROVE  RateInv'
<1>0. RateTypes /\ ZsetInv /\ GrantInv /\ AdmitInv /\ WindowBound /\ DenialIsJustified
  BY Zenon DEF RateInv
<1>1. /\ clock \in Nat /\ expires \in Nat /\ Window \in Nat /\ Slack \in Nat
      /\ expires <= clock + Window + Slack
      /\ stamp \in [Callers -> Nat \cup {NoStamp}] /\ \A d \in Callers : stamp[d] <= clock
  BY <1>0, RateLimiterAssumption, Zenon DEF RateTypes
<1>2. \A t \in Nat \cup {NoStamp} : t <= clock => t <= clock'
  BY <1>1 DEF NoStamp
<1>3. expires <= clock' + Window + Slack
  <2>1. \A a, b, d \in Nat : a <= b => a + Window + Slack <= b + Window + Slack
    BY RateLimiterAssumption
  <2>2. \A a, b, d \in Int : a <= b /\ b <= d => a <= d
    OBVIOUS
  <2>3. clock + Window + Slack \in Int /\ clock' + Window + Slack \in Int /\ expires \in Int
    BY <1>1
  <2> QED
    BY <1>1, <2>1, <2>2, <2>3, Zenon
<1>4. stamp' \in [Callers -> Nat \cup {NoStamp}] /\ \A d \in Callers : stamp'[d] <= clock'
  <2>1. CASE stamp' = stamp
    BY <1>1, <1>2, <2>1, Zenon
  <2>2. ASSUME NEW c \in Callers, stamp' = [stamp EXCEPT ![c] = clock]
        PROVE  stamp' \in [Callers -> Nat \cup {NoStamp}] /\ \A d \in Callers : stamp'[d] <= clock'
    BY <1>1, <1>2, <2>2, Zenon
  <2> QED
    BY <2>1, <2>2, Zenon
<1>5. RateTypes'
  BY <1>0, <1>3, <1>4, Zenon DEF RateTypes
<1>6. GrantInv'
  <2>1. \A k \in DOMAIN log : log[k].stamp \in Nat
    <3>1. \A k \in DOMAIN log : log[k] \in Calls
      BY <1>0 DEF RateTypes
    <3> QED
      BY <3>1, Zenon DEF Calls
  <2>2. \A t \in Nat : clock >= t + Window + Slack => clock' >= t + Window + Slack
    BY <1>1
  <2> QED
    BY <1>0, <2>1, <2>2, Zenon DEF GrantInv
<1>7. ZsetInv' /\ AdmitInv'
  BY <1>0, Zenon DEF ZsetInv, AdmitInv
<1>8. WindowBound'
  <2>1. /\ Counted' = Counted /\ \A i \in Counted : Cardinality(InWindow(i, Counted)) <= cap
        /\ \A i \in Counted : InWindow(i, Counted)' = InWindow(i, Counted)
    BY <1>0, Zenon DEF WindowBound, Counted, InWindow
  <2> QED
    BY <2>1, Zenon DEF WindowBound, Counted
<1>9. DenialIsJustified'
  <2> SUFFICES ASSUME NEW i \in DOMAIN log, log[i].verdict = "denied"
               PROVE  Cardinality({Score(log[j].stamp) : j \in {k \in 1 .. i - 1 :
                        Score(log[k].stamp) > Score(log[i].stamp - Window)}}) >= cap
    BY SMT DEF DenialIsJustified
  <2> QED
    BY <1>0, Zenon DEF DenialIsJustified
<1> QED
  BY <1>5, <1>6, <1>7, <1>8, <1>9, Zenon DEF RateInv

(* Nothing was asked yet.                                                    *)
LEMMA RateInit == AdmissionInit => RateInv
<1> SUFFICES ASSUME AdmissionInit PROVE RateInv
  BY Zenon
<1>0. /\ clock = 0 /\ cap \in Caps /\ zset = {} /\ expires = 0 /\ log = <<>>
      /\ stamp = [c \in Callers |-> NoStamp]
  BY Zenon DEF AdmissionInit, LimiterInit
<1>1. DOMAIN log = {} /\ log \in Seq(Calls)
  BY <1>0
<1>2. RateTypes
  <2>1. cap \in Nat /\ expires <= clock + Window + Slack /\ NoStamp <= clock
        /\ clock \in Nat /\ expires \in Nat
    BY <1>0, RateLimiterAssumption DEF NoStamp
  <2> QED
    BY <1>0, <1>1, <2>1, Zenon DEF RateTypes
<1>3. ZsetInv /\ GrantInv /\ AdmitInv /\ DenialIsJustified
  BY <1>0, <1>1, Zenon DEF ZsetInv, GrantInv, AdmitInv, DenialIsJustified
<1>4. WindowBound
  <2>1. Counted = {}
    BY <1>1, Zenon DEF Counted
  <2> QED
    BY <2>1, Zenon DEF WindowBound, Counted
<1> QED
  BY <1>2, <1>3, <1>4, Zenon DEF RateInv

(* Every step of a worker or of an API request, every change of a preference *)
(* and every tick keeps the invariant.                                       *)
LEMMA RateNext == RateInv /\ [AdmissionNext]_admissionVars => RateInv'
<1> SUFFICES ASSUME RateInv, [AdmissionNext]_admissionVars PROVE RateInv'
  BY Zenon
<1>0. clock \in Nat /\ clock <= clock
  <2>1. clock \in Nat
    BY Zenon DEF RateInv, RateTypes
  <2> QED
    BY <2>1
<1>1. ASSUME UNCHANGED <<clock, limiterVars, scope>> PROVE RateInv'
  BY <1>0, <1>1, QuietStep, Zenon DEF limiterVars
<1>2. ASSUME NEW c \in Callers, Limit(c) PROVE RateInv'
  <2>1. UNCHANGED <<clock, scope>> /\ (UNCHANGED limiterVars \/ AllowStamp(c))
    BY <1>2, Zenon DEF Limit
  <2>2. CASE AllowStamp(c)
    BY <1>0, <2>1, <2>2, QuietStep, Zenon DEF AllowStamp
  <2> QED
    BY <1>1, <2>1, <2>2, Zenon
<1>3. ASSUME NEW c \in Callers, Execute(c) PROVE RateInv'
  <2>1. PICK v \in Verdicts : ExecStep(c, v)
    BY <1>3, Zenon DEF Execute, ExecStep
  <2>2. RateTypes /\ ZsetInv /\ GrantInv /\ AdmitInv /\ WindowBound /\ DenialIsJustified
    BY Zenon DEF RateInv
  <2>3. RateTypes'
    BY <2>1, <2>2, ExecTypes, Zenon
  <2>4. ZsetInv' /\ GrantInv' /\ AdmitInv'
    BY <2>1, <2>2, ExecKeepsSet, Zenon
  <2>5. WindowBound'
    BY <2>1, <2>2, ExecCounts, Zenon
  <2>6. DenialIsJustified'
    BY <2>1, <2>2, ExecDenies, Zenon
  <2> QED
    BY <2>3, <2>4, <2>5, <2>6, Zenon DEF RateInv
<1>4. ASSUME NEW c \in Callers, PrefGet(c) \/ PrefJudge(c) \/ Authenticate(c)
      PROVE  RateInv'
  BY <1>1, <1>4, Zenon DEF PrefGet, PrefJudge, Authenticate
<1>5. ASSUME NEW c \in Callers, NEW t \in Tenants, Arrive(c, t) PROVE RateInv'
  BY <1>1, <1>5, Zenon DEF Arrive
<1>6. CASE ChangePreference
  BY <1>1, <1>6, Zenon DEF ChangePreference
<1>7. CASE Time
  <2>1. clock' = clock + 1 /\ UNCHANGED <<limiterVars, scope>>
    BY <1>7, Zenon DEF Time, Tick
  <2>2. clock' \in Nat /\ clock <= clock'
    BY <1>0, <2>1
  <2> QED
    BY <2>1, <2>2, QuietStep, Zenon DEF limiterVars
<1>8. CASE UNCHANGED admissionVars
  BY <1>1, <1>8, Zenon DEF admissionVars
<1> QED
  BY <1>2, <1>3, <1>4, <1>5, <1>6, <1>7, <1>8, Zenon DEF AdmissionNext, CallStep

(* WindowBound, for every cap, window, slack, float64 spacing and number of  *)
(* callers: AllowKey never admits more than cap calls within one window,     *)
(* whatever the order in which callers that have read the clock reach Redis. *)
THEOREM WindowsAreBounded == AdmissionSpec => []WindowBound
<1>1. RateInv => WindowBound
  BY Zenon DEF RateInv
<1> QED
  BY <1>1, RateInit, RateNext, PTL DEF AdmissionSpec

(* DenialIsJustified, for the same: a denied call has cap other calls before *)
(* it in its own window, also when Redis lost the key or failed.             *)
THEOREM DenialsAreJustified == AdmissionSpec => []DenialIsJustified
<1>1. RateInv => DenialIsJustified
  BY Zenon DEF RateInv
<1> QED
  BY <1>1, RateInit, RateNext, PTL DEF AdmissionSpec
=============================================================================
