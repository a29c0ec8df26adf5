------------------------------ MODULE Templates ------------------------------
(***************************************************************************)
(* The templates table, as repository/template.go writes it for the        *)
(* requests of api/handler/template.go, and as scripts/seed.go fills it.   *)
(* Update is a SELECT, a merge in Go and an UPDATE; every other request is *)
(* one statement.  A text is the name of a text/template: some render to   *)
(* nothing, and some do not parse.                                         *)
(***************************************************************************)
EXTENDS Integers, Sequences, FiniteSets

CONSTANTS Tenants,
          Names,         \* values of the name column
          Editors,       \* concurrent PUT requests
          Creations,     \* subject and body of POST requests and of seed files
          Updates,       \* bodies of PUT requests: records of the fields they name
          MaxTemplates,  \* bound: rows ever inserted
          MaxEdits,      \* bound: PUT, DELETE and seed operations
          InfraErrors    \* may Postgres calls fail?

ASSUME TemplatesAssumption ==
  /\ MaxTemplates \in Nat /\ MaxEdits \in Nat /\ InfraErrors \in BOOLEAN
  /\ Creations \subseteq [subject : STRING, body : STRING]
  /\ \A req \in Updates : /\ "subject" \in DOMAIN req => req.subject \in STRING
                          /\ "body" \in DOMAIN req => req.body \in STRING
                          /\ "active" \in DOMAIN req => req.active \in BOOLEAN

VARIABLES
  templates,  \* the rows, in the order of their INSERT
  edits,      \* PUT, DELETE and seed operations so far
  update,     \* per editor, what Update holds between SELECT and UPDATE
  \* history
  contents,   \* per row, every pair of subject and body it ever had
  writes      \* per row, updates that were answered with success

templateVars == <<templates, edits, update, contents, writes>>

NullText == "null"          \* a subject of NULL
BlankText == "blank"        \* renders to ""
BadText == "bad"            \* does not parse, or fails to execute
Fields == {"subject", "body", "active"}
NoUpdate == [id |-> 0]

TemplatesInit ==
  /\ templates = <<>> /\ edits = 0
  /\ update = [e \in Editors |-> NoUpdate]
  /\ contents = <<>> /\ writes = <<>>

TemplatesTypeOK ==
  /\ Len(templates) <= MaxTemplates /\ edits \in 0 .. MaxEdits
  /\ Len(contents) = Len(templates) /\ Len(writes) = Len(templates)
  /\ \A i \in DOMAIN templates :
       /\ templates[i].tenant \in Tenants /\ templates[i].name \in Names
       /\ templates[i].active \in BOOLEAN /\ templates[i].version \in 1 .. MaxEdits + 1
       /\ templates[i].body # NullText
       /\ <<templates[i].subject, templates[i].body>> \in contents[i]
  /\ \A i, j \in DOMAIN templates : templates[i].name = templates[j].name => i = j
  /\ \A e \in Editors : update[e].id \in 0 .. Len(templates)

\* Mutant: only while it is active, as GetTemplateByName has it.
GetActiveTemplate(t, i) ==
  i \in DOMAIN templates /\ templates[i].tenant = t /\ templates[i].active

\* GetTemplateByID: of this tenant, also when it is not active.
GetTemplate(t, i) == i \in DOMAIN templates /\ templates[i].tenant = t

\* Whoever holds an earlier SELECT of row i now holds a stale one.
Overtake(i) ==
  [e \in Editors |-> IF update[e].id = i THEN [update[e] EXCEPT !.stale = TRUE] ELSE update[e]]

\* Row i becomes r.
Put(i, r) ==
  /\ templates' = [templates EXCEPT ![i] = r]
  /\ contents' = [contents EXCEPT ![i] = @ \cup {<<r.subject, r.body>>}]

-----------------------------------------------------------------------------
\* InsertTemplate.
Insert(t, name, c) ==
  /\ Len(templates) < MaxTemplates
  /\ templates' = Append(templates,
       [tenant |-> t, name |-> name, subject |-> c.subject, body |-> c.body,
        active |-> TRUE, version |-> 1])
  /\ contents' = Append(contents, {<<c.subject, c.body>>})
  /\ writes' = Append(writes, 0)

NameTaken(name) == \E i \in DOMAIN templates : templates[i].name = name

(* Create: the UNIQUE constraint on name covers every tenant, and rows that  *)
(* were deleted.                                                             *)
CreateTemplate(t, name, c) ==
  /\ ~NameTaken(name)
  /\ Insert(t, name, c)
  /\ UNCHANGED <<edits, update>>

(* Update: the SELECT; without a row the request ends. *)
UpdateRead(e, t, i, req) ==
  /\ update[e] = NoUpdate /\ edits < MaxEdits /\ GetTemplate(t, i)
  /\ edits' = edits + 1
  /\ update' = [update EXCEPT ![e] =
       [id |-> i, row |-> templates[i], req |-> req, stale |-> FALSE]]
  /\ UNCHANGED <<templates, contents, writes>>

\* Mutant: a field that the request leaves out is set to its zero value.
MergedZero(u, f) ==
  IF f \in DOMAIN u.req THEN u.req[f] ELSE IF f = "active" THEN FALSE ELSE BlankText

\* The field as the UPDATE sets it: the request's, or else the SELECT's; for a
\* NULL, COALESCE keeps the column.
Merged(u, f) ==
  IF f \in DOMAIN u.req THEN u.req[f]
  ELSE IF f = "subject" /\ u.row.subject = NullText THEN templates[u.id].subject
  ELSE u.row[f]

\* Mutant: the version is counted up in Go.
NextVersionRead(u) == u.row.version + 1

NextVersion(u) == templates[u.id].version + 1

(* Update: the UPDATE. *)
UpdateWrite(e) ==
  LET u == update[e] IN
  /\ u # NoUpdate
  /\ \/ /\ Put(u.id, [templates[u.id] EXCEPT
                        !.subject = Merged(u, "subject"), !.body = Merged(u, "body"),
                        !.active = Merged(u, "active"), !.version = NextVersion(u)])
        /\ writes' = [writes EXCEPT ![u.id] = @ + 1]
        /\ update' = [Overtake(u.id) EXCEPT ![e] = NoUpdate]
     \/ /\ InfraErrors
        /\ update' = [update EXCEPT ![e] = NoUpdate]
        /\ UNCHANGED <<templates, contents, writes>>
  /\ UNCHANGED edits

(* Delete keeps the row and clears is_active. *)
DeleteTemplate(t, i) ==
  /\ edits < MaxEdits /\ GetTemplate(t, i)
  /\ edits' = edits + 1
  /\ templates' = [templates EXCEPT ![i].active = FALSE]
  /\ update' = Overtake(i)
  /\ UNCHANGED <<contents, writes>>

(* The seed script, for tenant t: an upsert by name alone, which neither     *)
(* counts the version nor looks at the tenant of the row it finds.           *)
SeedTemplate(t, name, c) ==
  /\ edits < MaxEdits /\ edits' = edits + 1
  /\ \/ ~NameTaken(name) /\ Insert(t, name, c) /\ UNCHANGED update
     \/ \E i \in DOMAIN templates :
          /\ templates[i].name = name
          /\ Put(i, [templates[i] EXCEPT !.subject = c.subject, !.body = c.body])
          /\ update' = Overtake(i) /\ UNCHANGED writes

TemplateStep ==
  \/ \E t \in Tenants, n \in Names, c \in Creations :
       CreateTemplate(t, n, c) \/ SeedTemplate(t, n, c)
  \/ \E t \in Tenants, i \in DOMAIN templates :
       \/ DeleteTemplate(t, i)
       \/ \E e \in Editors, req \in Updates : UpdateRead(e, t, i, req)
  \/ \E e \in Editors : UpdateWrite(e)

-----------------------------------------------------------------------------
(* Properties. *)

\* "Fields that are nil in req are left unchanged": an update changes a field
\* its request does not name, or brings back a deleted template, only if the
\* row was changed between its SELECT and its UPDATE (Update).
UpdateLeavesRest ==
  [][\A e \in Editors : \A f \in Fields :
       LET u == update[e] IN
       u # NoUpdate /\ update'[e] = NoUpdate /\ ~u.stale /\ f \notin DOMAIN u.req
         => templates'[u.id][f] = templates[u.id][f]]_templateVars

\* The version of a template counts its successful updates, however they
\* overlap: no two are answered with the same one (UpdateTemplate counts in the
\* statement).
VersionCountsUpdates ==
  \A i \in DOMAIN templates : templates[i].version = 1 + writes[i]
=============================================================================
