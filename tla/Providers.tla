------------------------------ MODULE Providers ------------------------------
(***************************************************************************)
(* internal/provider: what each backend takes from a notification's        *)
(* payload, and which answers of its service it calls permanent.  The      *)
(* services themselves (SES, FCM, Twilio, Postgres for in-app) are         *)
(* external: the answers below are the kinds of error that the code tells  *)
(* apart.                                                                  *)
(***************************************************************************)
EXTENDS Sequences

Channels == {"email", "push", "sms", "inapp"}
Backends == {"ses", "fcm", "twilio", "inapp", "mock"}
NoText == ""

\* What buildRegistry may register for a channel: the mock stands in where no
\* credentials are configured or the client cannot be built, so that every channel
\* has a provider.
Registered(ch) ==
  CASE ch = "email" -> {"ses", "mock"}
    [] ch = "push" -> {"fcm", "mock"}
    [] ch = "sms" -> {"twilio", "mock"}
    [] ch = "inapp" -> {"inapp"}

\* Mutant: the payload's own keys come first.
FirstRaw(rendered, raw) == IF raw # NoText THEN raw ELSE rendered

\* firstString, extractBody and extractTitleBody: the rendered text, or else the
\* first of the payload's own keys that holds one.
FirstString(rendered, raw) == IF rendered # NoText THEN rendered ELSE raw

\* What Send of a service finds missing in the notification; a push or a mail may
\* go out without a title.
SesRefuses(body, address) == NoText \in {body, address}
FcmRefuses(body, token) == NoText \in {body, token}
TwilioRefuses(body, number) == NoText \in {body, number}

\* An in-app message has no address, and needs a title.
InAppRefuses(title, body) == NoText \in {title, body}

\* Send fails for good without calling its service; the mock takes anything.
Incomplete(b, title, body, address) ==
  \/ b = "ses" /\ SesRefuses(body, address)
  \/ b = "fcm" /\ FcmRefuses(body, address)
  \/ b = "twilio" /\ TwilioRefuses(body, address)
  \/ b = "inapp" /\ InAppRefuses(title, body)

\* The errors that classify of a service calls permanent, and the others.  A
\* Twilio code of the list is permanent also where a later case would retry it.
SesPermanent == {"listed code", "client fault"}
SesTemporary == {"server fault", "no API error"}
FcmPermanent == {"unregistered", "invalid argument", "sender mismatch"}
FcmTemporary == {"unavailable", "internal", "quota exceeded", "other"}
TwilioPermanent == {"listed code", "code 4xx"}
TwilioTemporary == {"code 20429", "other code", "no REST error"}

\* In-app calls every failed INSERT temporary.
InAppTemporary == {"insert failed"}

\* The errors a backend may return when nothing is missing.
Errors(b) ==
  CASE b = "ses" -> SesPermanent \cup SesTemporary
    [] b = "fcm" -> FcmPermanent \cup FcmTemporary
    [] b = "twilio" -> TwilioPermanent \cup TwilioTemporary
    [] b = "inapp" -> InAppTemporary
    [] b = "mock" -> {}

IsPermanent(b, err) ==
  \/ b = "ses" /\ err \in SesPermanent
  \/ b = "fcm" /\ err \in FcmPermanent
  \/ b = "twilio" /\ err \in TwilioPermanent
=============================================================================
