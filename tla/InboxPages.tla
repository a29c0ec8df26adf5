----------------------------- MODULE InboxPages -----------------------------
(***************************************************************************)
(* The inbox as a list (List, MarkRead and MarkAllRead of                  *)
(* api/handler/inbox.go): a client reads one recipient's messages page by  *)
(* page, by cursor (after_id) or by offset, while messages come in and are *)
(* marked read.  The client is external: it asks for the page after the    *)
(* last row it got, until a page is not full.  A row's created_at is the   *)
(* time its transaction began, so that rows may become visible in another  *)
(* order, and two may have the same; ids are random.                       *)
(***************************************************************************)
EXTENDS Integers, Sequences, FiniteSets

CONSTANTS RowIds,    \* ids of messages, integers that stand for uuids
          Stamps,    \* values of created_at
          Limits     \* values of the limit parameter

ASSUME InboxPagesAssumption ==
  RowIds \subseteq Nat /\ Stamps \subseteq Nat /\ Limits \subseteq Nat \ {0}

VARIABLES
  at,      \* per id, created_at, or NoRow
  read,    \* ids whose read_at is set
  reader,  \* the client: its query, whether it goes on, and the last page
  \* history
  seen,    \* every row of every page, in order; its length is the next offset
  due,     \* rows that matched the query at the first page and ever since
  came,    \* a row was inserted since the first page
  went     \* a row was marked read since the first page

pageVars == <<at, read, reader, seen, due, came, went>>

NoRow == -1
Query == [kind : {"cursor", "offset"}, unread : BOOLEAN, limit : Limits]
NoReader == [state |-> "new"]
Stored == {i \in RowIds : at[i] # NoRow}

PagesInit ==
  /\ at = [i \in RowIds |-> NoRow] /\ read = {}
  /\ reader = NoReader
  /\ seen = <<>> /\ due = {} /\ came = FALSE /\ went = FALSE

\* Types; a page has at most the rows that were asked for.
PagesTypeOK ==
  /\ at \in [RowIds -> Stamps \cup {NoRow}] /\ read \subseteq Stored
  /\ seen \in Seq(Stored) /\ due \subseteq Stored
  /\ came \in BOOLEAN /\ went \in BOOLEAN
  /\ reader # NoReader =>
       /\ reader.state \in {"reading", "done"} /\ reader.query \in Query
       /\ Len(reader.page) <= reader.query.limit

-----------------------------------------------------------------------------
(* Writers. *)

InsertMessage(i, t) ==
  /\ at[i] = NoRow
  /\ at' = [at EXCEPT ![i] = t]
  /\ came' = (reader # NoReader)
  /\ UNCHANGED <<read, reader, seen, due, went>>

\* The rows of S get their read_at; those that have one keep it.
SetRead(S) ==
  /\ read' = read \cup S
  /\ went' = (went \/ (reader # NoReader /\ S \ read # {}))
  /\ due' = IF reader # NoReader /\ reader.query.unread THEN due \ S ELSE due
  /\ UNCHANGED <<at, reader, seen, came>>

MarkRead(i) == i \in Stored /\ SetRead({i})

MarkAllRead == Stored # {} /\ SetRead(Stored)

-----------------------------------------------------------------------------
(* The queries. *)

Matching(q) == {i \in Stored : q.unread => i \notin read}

\* OFFSET and LIMIT.
Slice(rows, offset, limit) ==
  SubSeq(rows, offset + 1, IF offset + limit < Len(rows) THEN offset + limit ELSE Len(rows))

\* The rows of a SELECT, before its ORDER BY: in any order.
Selected(S) ==
  {s \in [1 .. Cardinality(S) -> S] : \A j, k \in DOMAIN s : j # k => s[j] # s[k]}

\* ORDER BY created_at DESC: Postgres returns rows of one time in any order.
ListInbox(q, offset) ==
  {Slice(s, offset, q.limit) : s \in {x \in Selected(Matching(q)) :
     \A j, k \in DOMAIN x : j < k => at[x[j]] >= at[x[k]]}}

\* Mutants: rows of the cursor's time are left out; the cursor's row is included.
AfterByTime(c, i) == at[i] < at[c]
AfterOrAt(c, i) == at[i] < at[c] \/ (at[i] = at[c] /\ i <= c)

\* Row i comes after the cursor's row c in the order created_at DESC, id DESC.
After(c, i) == at[i] < at[c] \/ (at[i] = at[c] /\ i < c)

\* ORDER BY created_at DESC, id DESC: row i comes before row j.
Precedes(i, j) == at[i] > at[j] \/ (at[i] = at[j] /\ i > j)

\* The SELECT of the cursor's row, which nothing changes or deletes, and of the
\* page after it.
ListInboxAfterCursor(q, c) ==
  {Slice(s, 0, q.limit) : s \in {x \in Selected({i \in Matching(q) : After(c, i)}) :
     \A j, k \in DOMAIN x : j < k => Precedes(x[j], x[k])}}

-----------------------------------------------------------------------------
(* The client. *)

\* It gets the page; one that is not full is the last.
Got(q, page) ==
  /\ reader' = [state |-> IF Len(page) < q.limit THEN "done" ELSE "reading",
                query |-> q, page |-> page]
  /\ seen' = seen \o page

FirstPage(q) ==
  /\ reader = NoReader
  /\ \E page \in ListInbox(q, 0) : Got(q, page)
  /\ due' = Matching(q)
  /\ UNCHANGED <<at, read, came, went>>

NextPage ==
  /\ reader.state = "reading"
  /\ LET q == reader.query IN
     \/ q.kind = "cursor"
        /\ \E page \in ListInboxAfterCursor(q, reader.page[Len(reader.page)]) : Got(q, page)
     \/ q.kind = "offset"
        /\ \E page \in ListInbox(q, Len(seen)) : Got(q, page)
  /\ UNCHANGED <<at, read, due, came, went>>

PagesNext ==
  \/ \E i \in RowIds : MarkRead(i) \/ \E t \in Stamps : InsertMessage(i, t)
  \/ MarkAllRead
  \/ \E q \in Query : FirstPage(q)
  \/ NextPage

PagesSpec == PagesInit /\ [][PagesNext]_pageVars

-----------------------------------------------------------------------------
(* Properties. *)

\* Row i has the created_at of another row, so that its place in a page that is
\* only ordered by time is open.  The pages after a cursor have a strict order;
\* for them only the end of the first page matters.
Tied(i) ==
  IF reader.query.kind = "cursor"
  THEN at[i] = at[seen[reader.query.limit]]
  ELSE \E j \in Stored \ {i} : at[j] = at[i]

\* A client that has read all pages got every message that was in its list all
\* the time, whatever came in or was read meanwhile; unless messages have the
\* same created_at, or it counted offsets and a message left the list before it
\* (List, ListInboxAfterCursor).
MissedForCause ==
  reader # NoReader /\ reader.state = "done" =>
    \A i \in due : \/ \E k \in DOMAIN seen : seen[k] = i
                   \/ Tied(i)
                   \/ reader.query.kind = "offset" /\ went

\* It got none twice, unless messages have the same created_at, or it counted
\* offsets and a message came in.
RepeatedForCause ==
  \A j, k \in DOMAIN seen : j < k /\ seen[j] = seen[k] =>
    Tied(seen[j]) \/ (reader.query.kind = "offset" /\ came)
=============================================================================
