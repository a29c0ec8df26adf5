----------------------------- MODULE InboxClient -----------------------------
(***************************************************************************)
(* The two ways to an in-app message: the stream (Inbox) and the list      *)
(* (InboxPages).  They share the table only, and neither looks at what the *)
(* other changes in it: the stream never reads read_at, and the list is    *)
(* read without the hub.  So a behaviour is about one of the two.          *)
(***************************************************************************)
EXTENDS Inbox, InboxPages

VARIABLE way  \* "stream" or "list"

inboxClientVars == <<inboxVars, pageVars, way>>

InboxClientInit == InboxInit /\ PagesInit /\ way \in {"stream", "list"}

InboxClientNext ==
  \/ way = "stream" /\ InboxNext /\ UNCHANGED <<pageVars, way>>
  \/ way = "list" /\ PagesNext /\ UNCHANGED <<inboxVars, way>>

\* Hub.Run is a goroutine that runs whenever it can; no client has to read its
\* stream or to ask for a page.
InboxClientSpec ==
  /\ InboxClientInit /\ [][InboxClientNext]_inboxClientVars
  /\ WF_inboxVars(HubStep)
=============================================================================
