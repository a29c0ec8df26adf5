------------------------------ MODULE Admission ------------------------------
(***************************************************************************)
(* The two places that admit or turn away by preference and rate: steps 3  *)
(* and 4 of Process (worker/processor.go) for the notifications to one     *)
(* user on one channel, and the API's middleware chain Auth and RateLimit  *)
(* (api/middleware) for the requests of one API client.  Their Redis keys  *)
(* differ, so that a behaviour is about one of the two.  The worker's key  *)
(* names user and channel and no tenant: tenants that know the user by one *)
(* id share it.                                                            *)
(***************************************************************************)
EXTENDS RateLimiter, Preferences

VARIABLES scope,  \* "worker" or "api"
          call,   \* per caller, where it is, what it has read, and as history
                  \* when it came and the rows its tenant has had since
          calls   \* calls begun

admissionVars == <<clock, limiterVars, preferenceVars, scope, call, calls>>

NoTenant == "none"
Stages == {"idle", "get", "judge", "auth", "limit", "exec"}
Idle == [stage |-> "idle", tenant |-> NoTenant, row |-> NoPref, since |-> 0, rows |-> {}]

AdmissionInit ==
  /\ LimiterInit /\ PreferencesInit
  /\ scope \in {"worker", "api"}
  /\ call = [c \in Callers |-> Idle]
  /\ calls = 0

\* Types, and what binds the parts: a call holds a time stamp exactly while its
\* transaction is on its way, and only a worker reads preferences.
AdmissionTypeOK ==
  /\ LimiterTypeOK /\ PreferencesTypeOK
  /\ scope \in {"worker", "api"} /\ calls \in 0 .. MaxCalls
  /\ \A c \in Callers :
       /\ call[c].stage \in Stages /\ call[c].row \in PrefRow
       /\ call[c].tenant \in Tenants \cup {NoTenant} /\ call[c].since \in 0 .. clock
       /\ call[c].stage = "exec" <=> stamp[c] # NoStamp
       /\ scope = "api" => call[c].stage \notin {"get", "judge"} /\ call[c].row = NoPref

To(c, s) == call' = [call EXCEPT ![c].stage = s]
Return(c) == call' = [call EXCEPT ![c] = Idle]

-----------------------------------------------------------------------------
(* A notification of tenant t comes to step 3, or a request to Auth. *)
Arrive(c, t) ==
  /\ call[c].stage = "idle" /\ calls < MaxCalls
  /\ calls' = calls + 1
  /\ call' = [call EXCEPT ![c] =
       IF scope = "worker"
       THEN [Idle EXCEPT !.stage = "get", !.tenant = t, !.since = clock, !.rows = {GetPref(t)}]
       ELSE [Idle EXCEPT !.stage = "auth"]]
  /\ UNCHANGED <<clock, limiterVars, preferenceVars, scope>>

(* Step 3: read the row; an error ends Process. *)
PrefGet(c) ==
  /\ call[c].stage = "get"
  /\ \/ call' = [call EXCEPT ![c].stage = "judge", ![c].row = GetPref(call[c].tenant)]
     \/ InfraErrors /\ Return(c)
  /\ UNCHANGED <<clock, limiterVars, preferenceVars, scope, calls>>

(* Step 3: judge what was read by the clock; drop, or go on to step 4. *)
PrefJudge(c) ==
  /\ call[c].stage = "judge"
  /\ IF Allowed(call[c].row, clock)
     THEN call' = [call EXCEPT ![c] = [Idle EXCEPT !.stage = "limit"]]
     ELSE Return(c)
  /\ UNCHANGED <<clock, limiterVars, preferenceVars, scope, calls>>

(* Auth: no key, an unknown or inactive one, or a failing lookup turn the    *)
(* request away.                                                             *)
Authenticate(c) ==
  /\ call[c].stage = "auth"
  /\ To(c, "limit") \/ Return(c)
  /\ UNCHANGED <<clock, limiterVars, preferenceVars, scope, calls>>

(* Step 4 and RateLimit: a worker's cap of 0 is no limit; the API's admits   *)
(* nothing.                                                                  *)
Limit(c) ==
  /\ call[c].stage = "limit"
  /\ \/ scope = "worker" /\ cap = 0 /\ Return(c) /\ UNCHANGED limiterVars
     \/ (scope = "worker" => cap > 0) /\ To(c, "exec") /\ AllowStamp(c)
  /\ UNCHANGED <<clock, preferenceVars, scope, calls>>

\* On a Redis error the API lets the request through, and Process returns it.
Admits(v) == v = "granted" \/ (v = "error" /\ scope = "api")

(* Process goes on to the template, and RateLimit to the handler, for a call *)
(* that is admitted.                                                         *)
Execute(c) ==
  /\ call[c].stage = "exec"
  /\ \E v \in Verdicts : AllowExec(c, v, Admits(v))
  /\ Return(c)
  /\ UNCHANGED <<clock, preferenceVars, scope, calls>>

ChangePreference ==
  /\ scope = "worker"
  /\ \E t \in Tenants : DeletePref(t) \/ \E req \in Requests : Upsert(t, req)
  /\ call' = [c \in Callers |->
       IF call[c].stage \in {"get", "judge"}
       THEN [call[c] EXCEPT !.rows = @ \cup {ToDomain(pref'[call[c].tenant])}] ELSE call[c]]
  /\ UNCHANGED <<clock, limiterVars, scope, calls>>

Time == Tick /\ UNCHANGED <<preferenceVars, scope, call, calls>>

CallStep(c) ==
  \/ PrefGet(c) \/ PrefJudge(c) \/ Authenticate(c) \/ Limit(c) \/ Execute(c)

AdmissionNext ==
  \/ \E c \in Callers : CallStep(c) \/ \E t \in Tenants : Arrive(c, t)
  \/ ChangePreference \/ Time

AdmissionSpec == AdmissionInit /\ [][AdmissionNext]_admissionVars

-----------------------------------------------------------------------------
(* Properties. *)

\* In no window are more than cap calls admitted, although callers read their
\* clock before they reach Redis, denied calls count as well and keys expire
\* (AllowKey).  The calls counted are those that reach Redis in the order of their
\* stamps: one that was overtaken by a later one is checked against a window from
\* which the later one has removed entries, and may be one too many; so may one
\* that was held up for longer than the TTL's slack, or that the API lets through
\* on a Redis error.  Two calls whose time stamps are the same float64 count once.
WindowBound ==
  LET counted == {j \in DOMAIN log : log[j].admit /\ ~log[j].late
                                      /\ ~(scope = "api" /\ log[j].verdict = "error")} IN
  \A i \in counted : Cardinality(InWindow(i, counted)) <= cap

\* What row p says at time now, with the hours counted round the clock.
Wanted(p, now) ==
  \/ p = NoPref
  \/ /\ p.enabled
     /\ p.start = NullTime \/ p.end = NullTime
          \/ ~QuietByTheClock(p.start, p.end, LocalTime(p.zone, now))

\* One of the rows c's tenant has had since c came says b at a moment since then.
Judged(c, b) == \E p \in call[c].rows, n \in call[c].since .. clock : Wanted(p, n) = b

Honoured(c) ==
  call[c].stage = "judge" =>
    /\ call'[c].stage = "limit" => Judged(c, TRUE)
    /\ call'[c].stage = "idle" => Judged(c, FALSE)

\* A notification passes the preference check only if its own tenant's row
\* allowed it at some moment since it came to the check, and is dropped there
\* only if the row forbade it at some such moment: disabled, or quiet hours,
\* also over midnight, of length 0, in another or an unknown time zone, and
\* while the row is replaced or deleted (IsAllowed, inQuietHours).
PreferenceHonoured == [][\A c \in Callers : Honoured(c)]_admissionVars
=============================================================================
