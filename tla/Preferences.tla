----------------------------- MODULE Preferences -----------------------------
(***************************************************************************)
(* The preferences of one user on one channel: the row each tenant may     *)
(* keep (repository/preference.go, api/handler/preference.go) and          *)
(* IsAllowed with its quiet hours (service/preference.go).  A time of day  *)
(* is a minute counted from midnight.  The frequency cap is stored and     *)
(* never read by the delivery path, and so is left out.                    *)
(***************************************************************************)
EXTENDS Integers

CONSTANTS Tenants,
          Day,        \* minutes of a day
          Offset,     \* zones of the IANA database, and what each is ahead of UTC
          Requests,   \* bodies of PUT requests that pass validation
          MaxUpserts  \* bound: PUT and DELETE requests

ASSUME PreferencesAssumption ==
  /\ Day \in Nat \ {0} /\ MaxUpserts \in Nat
  /\ "UTC" \in DOMAIN Offset /\ Offset["UTC"] = 0
  /\ \A z \in DOMAIN Offset : Offset[z] \in 0 .. Day - 1

VARIABLES pref,    \* per tenant, its row of preferences
          upserts  \* PUT and DELETE requests so far

preferenceVars == <<pref, upserts>>

NullTime == -1
NullZone == "null"
Times == 0 .. Day - 1
NoPref == [enabled |-> TRUE, start |-> NullTime, end |-> NullTime, zone |-> "no row"]
ZoneNames == {"UTC", NullZone, NoPref.zone} \cup {r.zone : r \in Requests}
PrefRow == [enabled : BOOLEAN, start : Times \cup {NullTime}, end : Times \cup {NullTime},
            zone : ZoneNames]

ASSUME RequestsAssumption == Requests \subseteq PrefRow

PreferencesInit == pref = [t \in Tenants |-> NoPref] /\ upserts = 0

PreferencesTypeOK ==
  /\ \A t \in Tenants : pref[t] \in PrefRow
  /\ upserts \in 0 .. MaxUpserts

-----------------------------------------------------------------------------
(* PUT replaces every column: what the request leaves out becomes NULL. *)
Upsert(t, req) ==
  /\ upserts < MaxUpserts /\ upserts' = upserts + 1
  /\ pref' = [pref EXCEPT ![t] = req]

DeletePref(t) ==
  /\ upserts < MaxUpserts /\ upserts' = upserts + 1
  /\ pref' = [pref EXCEPT ![t] = NoPref]

\* dbPreferenceToDomain: a zone of NULL is UTC.
ToDomain(p) == IF p.zone = NullZone THEN [p EXCEPT !.zone = "UTC"] ELSE p

GetPref(t) == ToDomain(pref[t])

-----------------------------------------------------------------------------
(* Quiet hours. *)

\* time.LoadLocation, or UTC when it fails.
LocalTime(zone, now) ==
  (now + IF zone \in DOMAIN Offset THEN Offset[zone] ELSE 0) % Day

\* Mutant: the window is taken to lie within one day.
QuietSameDay(s, e, now) == s <= now /\ now < e

InQuietHours(s, e, now) ==
  IF s <= e THEN s <= now /\ now < e ELSE s <= now \/ now < e

\* IsAllowed, for the row p it has read.
Allowed(p, now) ==
  \/ p = NoPref
  \/ /\ p.enabled
     /\ p.start # NullTime /\ p.end # NullTime =>
          ~InQuietHours(p.start, p.end, LocalTime(p.zone, now))

-----------------------------------------------------------------------------
(* What quiet hours mean: go round the clock from their start; the hours are *)
(* the times met before the end is.                                          *)
Later(s, k) == IF s + k < Day THEN s + k ELSE s + k - Day

QuietByTheClock(s, e, now) ==
  \E k \in Times : Later(s, k) = now /\ \A j \in 0 .. k : Later(s, j) # e
=============================================================================
