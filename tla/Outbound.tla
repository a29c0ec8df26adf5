------------------------------ MODULE Outbound ------------------------------
(***************************************************************************)
(* Steps 5 and 6 of worker/processor.go in detail, where Processor only    *)
(* chooses a result: deliver renders the notification's template, which    *)
(* requests edit meanwhile (Templates), and sendWithRetry offers the       *)
(* result to the channel's provider (Providers) until it is accepted or    *)
(* the failure is final.  The dead letter records why.                     *)
(***************************************************************************)
EXTENDS Templates, Providers

CONSTANTS Workers,      \* worker goroutines
          Payloads,     \* the notifications' own title, body and address
          MaxRuns,      \* bound: runs of deliver
          MaxAttempts   \* queue.Message.MaxAttempts

ASSUME OutboundAssumption ==
  /\ MaxRuns \in Nat /\ MaxAttempts \in Nat
  /\ Payloads \subseteq [title : STRING, body : STRING, address : STRING]

VARIABLES
  job,      \* per worker, the notification and how far deliver has come
  runs,     \* runs of deliver so far
  \* history
  outbox,   \* what providers accepted
  letters   \* dead letters, with what happened in the run

outboundVars == <<templateVars, job, runs, outbox, letters>>

NoTemplate == 0
NoJob == [stage |-> "idle"]

OutboundInit ==
  /\ TemplatesInit
  /\ job = [w \in Workers |-> NoJob] /\ runs = 0
  /\ outbox = {} /\ letters = {}

\* Types; a run that goes on after a call has one more attempt.
OutboundTypeOK ==
  /\ TemplatesTypeOK
  /\ runs \in 0 .. MaxRuns
  /\ \A w \in Workers : job[w] # NoJob =>
       /\ job[w].stage \in {"render", "send", "backoff"}
       /\ job[w].template \in 0 .. Len(templates) /\ job[w].tenant \in Tenants
       /\ job[w].raw \in Payloads /\ job[w].backend \in Backends
       /\ job[w].calls = 0 \/ job[w].calls \in 1 .. MaxAttempts - 1

-----------------------------------------------------------------------------
(* deliver begins.  The foreign key of template_id does not mention the      *)
(* tenant, so that a notification may name another tenant's template.        *)
Deliver(w, t, i, b, raw) ==
  /\ job[w] = NoJob /\ runs < MaxRuns /\ b \in UNION {Registered(ch) : ch \in Channels}
  /\ runs' = runs + 1
  /\ job' = [job EXCEPT ![w] =
       [stage |-> "render", tenant |-> t, template |-> i, backend |-> b, raw |-> raw,
        title |-> NoText, body |-> NoText, attempt |-> 1, calls |-> 0, hopeless |-> FALSE,
        own |-> i # NoTemplate /\ templates[i].tenant = t]]
  /\ UNCHANGED <<templateVars, outbox, letters>>

\* The run of w ends in failure after j: delivery log, dead letter, status and
\* webhook follow.
Fail(w, j, reason, disturbed) ==
  /\ letters' = letters \cup
       {[reason |-> reason, template |-> j.template, own |-> j.own, calls |-> j.calls,
         hopeless |-> j.hopeless, disturbed |-> disturbed]}
  /\ job' = [job EXCEPT ![w] = NoJob]
  /\ UNCHANGED outbox

\* renderTemplate of a text that executes; without a subject template there is
\* no text.
RenderText(x) == IF x \in {BlankText, NullText} THEN NoText ELSE x

\* Render: one SELECT, by tenant and id, then body and subject.
Renders(j) ==
  /\ GetTemplate(j.tenant, j.template)
  /\ BadText \notin {templates[j.template].body, templates[j.template].subject}

\* The payload that the provider will look into.
Prepare(w, subject, body) ==
  /\ job' = [job EXCEPT ![w].stage = "send",
                        ![w].title = FirstString(subject, job[w].raw.title),
                        ![w].body = FirstString(body, job[w].raw.body)]
  /\ UNCHANGED <<outbox, letters>>

(* Step 5; an error of Render, whatever its cause, ends the run. *)
Render(w) ==
  LET j == job[w] IN
  /\ j.stage = "render"
  /\ \/ j.template = NoTemplate /\ Prepare(w, NoText, NoText)
     \/ /\ j.template # NoTemplate /\ Renders(j)
        /\ Prepare(w, RenderText(templates[j.template].subject),
                      RenderText(templates[j.template].body))
     \/ j.template # NoTemplate /\ ~Renders(j) /\ Fail(w, j, "template_render", FALSE)
     \/ j.template # NoTemplate /\ InfraErrors /\ Fail(w, j, "template_render", TRUE)
  /\ UNCHANGED <<templateVars, runs>>

\* sendWithRetry returns the error.
GivesUp(j, err) == IsPermanent(j.backend, err) \/ j.attempt >= MaxAttempts

ReasonFor(j, err) ==
  IF IsPermanent(j.backend, err) THEN "permanent" ELSE "retries_exhausted"

(* Step 6: one Send.  A notification that lacks something is refused by the  *)
(* backend itself.                                                           *)
Send(w) ==
  /\ job[w].stage = "send"
  /\ LET j == [job[w] EXCEPT !.calls = @ + 1]
         incomplete == Incomplete(j.backend, j.title, j.body, j.raw.address)
     IN
     \/ incomplete /\ Fail(w, [j EXCEPT !.hopeless = TRUE], "permanent", FALSE)
     \/ /\ ~incomplete
        /\ outbox' = outbox \cup {[tenant |-> j.tenant, template |-> j.template,
                                   raw |-> j.raw, title |-> j.title, body |-> j.body]}
        /\ job' = [job EXCEPT ![w] = NoJob] /\ UNCHANGED letters
     \/ /\ ~incomplete
        /\ \E err \in Errors(j.backend) :
             LET k == [j EXCEPT !.hopeless = @ \/ IsPermanent(j.backend, err)] IN
             \/ GivesUp(j, err) /\ Fail(w, k, ReasonFor(j, err), FALSE)
             \/ /\ ~GivesUp(j, err) /\ job' = [job EXCEPT ![w] = [k EXCEPT !.stage = "backoff"]]
                /\ UNCHANGED <<outbox, letters>>
  /\ UNCHANGED <<templateVars, runs>>

(* The delay passes, or the worker is stopped meanwhile. *)
Backoff(w) ==
  /\ job[w].stage = "backoff"
  /\ \/ /\ job' = [job EXCEPT ![w].stage = "send", ![w].attempt = @ + 1]
        /\ UNCHANGED <<outbox, letters>>
     \/ Fail(w, job[w], "retries_exhausted", TRUE)
  /\ UNCHANGED <<templateVars, runs>>

WorkerStep(w) == Render(w) \/ Send(w) \/ Backoff(w)

OutboundNext ==
  \/ TemplateStep /\ UNCHANGED <<job, runs, outbox, letters>>
  \/ \E w \in Workers : WorkerStep(w) \/
       \E t \in Tenants, i \in 0 .. Len(templates), b \in Backends, raw \in Payloads :
         Deliver(w, t, i, b, raw)

OutboundSpec == OutboundInit /\ [][OutboundNext]_outboundVars

-----------------------------------------------------------------------------
(* Properties. *)

\* The text that goes out where a template rendered to out and the payload has raw.
GoesOut(sent, out, raw) == (out # NoText /\ sent = out) \/ (out = NoText /\ sent = raw)

\* A templated notification goes out with a subject and a body that its own
\* tenant's template had at one moment, whatever edits overlap with its retries;
\* the payload's own keys fill in only what the template left empty (Render,
\* extractContent).
SentIsTemplate ==
  \A m \in outbox : m.template # NoTemplate =>
    /\ templates[m.template].tenant = m.tenant
    /\ \E v \in contents[m.template] :
         /\ GoesOut(m.title, RenderText(v[1]), m.raw.title)
         /\ GoesOut(m.body, RenderText(v[2]), m.raw.body)

\* The reason in a dead letter is what happened: "permanent" exactly when some
\* answer of the run was, after which the provider was not called again;
\* otherwise all attempts were made, unless a stop cut the backoff short
\* (deliver, sendWithRetry).  A notification that names its own tenant's
\* template fails to render only because of a text that does not execute or of a
\* database error: deleting a template does not take it from the notifications
\* on their way (Render, Delete).
ReasonIsTrue ==
  \A l \in letters :
    /\ l.reason = "permanent" <=> l.hopeless
    /\ l.reason = "retries_exhausted" /\ ~l.disturbed => l.calls = MaxAttempts \/ MaxAttempts = 0
    /\ l.reason = "template_render" <=> l.calls = 0
    /\ l.reason = "template_render" /\ l.own =>
         l.disturbed \/ \E v \in contents[l.template] : BadText \in {v[1], v[2]}
=============================================================================
