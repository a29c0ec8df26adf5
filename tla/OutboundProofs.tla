--------------------------- MODULE OutboundProofs ---------------------------
(***************************************************************************)
(* Proofs about Templates and Outbound: for any number of tenants, rows,   *)
(* overlapping edits and worker goroutines, versions count updates, an     *)
(* update changes only the fields it names unless it was overtaken, what   *)
(* goes out is a text its own tenant's template had, and a dead letter     *)
(* gives the true reason.                                                  *)
(***************************************************************************)
EXTENDS Outbound, TLAPS

-----------------------------------------------------------------------------
(* The inductive invariant. *)

Row == [tenant : Tenants, name : Names, subject : STRING, body : STRING,
        active : BOOLEAN, version : Nat]

\* Sets of subjects and bodies.
Pairs == SUBSET (STRING \X STRING)

TableTypes ==
  /\ templates \in Seq(Row) /\ contents \in Seq(Pairs)
  /\ writes \in Seq(Nat)
  /\ Len(contents) = Len(templates) /\ Len(writes) = Len(templates)

\* A row's version counts its updates, and its texts are remembered.
RowInv ==
  \A i \in 1 .. Len(templates) :
    /\ templates[i].version = 1 + writes[i]
    /\ <<templates[i].subject, templates[i].body>> \in contents[i]

Pending == [id : Nat \ {0}, row : Row, req : Updates, stale : BOOLEAN]

\* An update holds the row as it is, unless it was overtaken.
UpdateInv ==
  /\ update \in [Editors -> Pending \cup {NoUpdate}]
  /\ \A e \in Editors : update[e] # NoUpdate =>
       /\ update[e].id \in 1 .. Len(templates)
       /\ ~update[e].stale => update[e].row = templates[update[e].id]

TemplateInv == TableTypes /\ RowInv /\ UpdateInv

\* What goes out; NoText is a string too, which the provers are told here.
Texts == STRING \cup {NoText}

Job == [stage : {"render", "send", "backoff"}, tenant : Tenants, template : Nat,
        backend : Backends, raw : Payloads, title : Texts, body : Texts,
        attempt : Nat, calls : Nat, hopeless : BOOLEAN, own : BOOLEAN]

\* The texts came from one version of template i.
FromTemplate(i, title, body, raw) ==
  \E v \in contents[i] : /\ GoesOut(title, RenderText(v[1]), raw.title)
                         /\ GoesOut(body, RenderText(v[2]), raw.body)

\* The template of j, if it has one, is in the table.
Refers(j) ==
  /\ j.template \in 0 .. Len(templates)
  /\ j.own <=> j.template # NoTemplate /\ templates[j.template].tenant = j.tenant

\* How far a run of deliver is, and what it holds.
JobInv(j) ==
  /\ j \in Job /\ Refers(j) /\ ~j.hopeless
  /\ j.stage = "render" => j.calls = 0 /\ j.attempt = 1
  /\ j.stage = "send" => j.attempt = j.calls + 1 /\ (j.attempt = 1 \/ j.attempt <= MaxAttempts)
  /\ j.stage = "backoff" => j.attempt = j.calls /\ 1 <= j.attempt /\ j.attempt < MaxAttempts
  /\ j.stage # "render" /\ j.template # NoTemplate =>
       j.own /\ FromTemplate(j.template, j.title, j.body, j.raw)

JobsInv ==
  /\ job \in [Workers -> Job \cup {NoJob}]
  /\ \A w \in Workers : job[w] # NoJob => JobInv(job[w])

OutboxInv ==
  \A m \in outbox : m.template # NoTemplate =>
    /\ m.template \in 1 .. Len(templates) /\ templates[m.template].tenant = m.tenant
    /\ FromTemplate(m.template, m.title, m.body, m.raw)

LetterInv(l) ==
  /\ l.own => l.template \in 1 .. Len(templates)
  /\ l.reason = "permanent" <=> l.hopeless
  /\ l.reason = "retries_exhausted" /\ ~l.disturbed => l.calls = MaxAttempts \/ MaxAttempts = 0
  /\ l.reason = "template_render" <=> l.calls = 0
  /\ l.reason = "template_render" /\ l.own =>
       l.disturbed \/ \E v \in contents[l.template] : BadText \in {v[1], v[2]}

LettersInv == \A l \in letters : LetterInv(l)

OutboundInv == TemplateInv /\ JobsInv /\ OutboxInv /\ LettersInv

-----------------------------------------------------------------------------
(* Templates. *)

\* No step takes a row, its tenant or a remembered text away.
TableGrows ==
  /\ Len(templates) <= Len(templates')
  /\ \A i \in 1 .. Len(templates) :
       templates'[i].tenant = templates[i].tenant /\ contents[i] \subseteq contents'[i]

(* What the types say of the three sequences.                                *)
LEMMA Tables ==
  ASSUME TableTypes
  PROVE  /\ Len(templates) \in Nat
         /\ DOMAIN templates = 1 .. Len(templates)
         /\ DOMAIN contents = 1 .. Len(templates) /\ DOMAIN writes = 1 .. Len(templates)
         /\ \A i \in 1 .. Len(templates) :
              templates[i] \in Row /\ contents[i] \in Pairs /\ writes[i] \in Nat
<1>1. Len(templates) \in Nat /\ DOMAIN templates = 1 .. Len(templates)
  BY DEF TableTypes
<1>2. DOMAIN contents = 1 .. Len(templates) /\ DOMAIN writes = 1 .. Len(templates)
  BY DEF TableTypes
<1>3. \A i \in 1 .. Len(templates) : templates[i] \in Row
  BY DEF TableTypes
<1>4. \A i \in 1 .. Len(templates) : contents[i] \in Pairs
  BY DEF TableTypes
<1>5. \A i \in 1 .. Len(templates) : writes[i] \in Nat
  BY DEF TableTypes
<1> QED
  BY <1>1, <1>2, <1>3, <1>4, <1>5, Zenon

(* A sequence with one element replaced.                                     *)
LEMMA Replaced ==
  ASSUME NEW S, NEW s \in Seq(S), NEW i \in 1 .. Len(s), NEW e \in S
  PROVE  /\ [s EXCEPT ![i] = e] \in Seq(S) /\ Len([s EXCEPT ![i] = e]) = Len(s)
         /\ [s EXCEPT ![i] = e][i] = e
         /\ \A k \in 1 .. Len(s) : k # i => [s EXCEPT ![i] = e][k] = s[k]
  OBVIOUS

(* A sequence with one element more.                                         *)
LEMMA Extended ==
  ASSUME NEW S, NEW s \in Seq(S), NEW e \in S
  PROVE  /\ Append(s, e) \in Seq(S) /\ Len(Append(s, e)) = Len(s) + 1
         /\ Append(s, e)[Len(s) + 1] = e
         /\ \A k \in 1 .. Len(s) : Append(s, e)[k] = s[k]
  OBVIOUS

(* INSERT: the new row has version 1 and no updates.                         *)
LEMMA InsertKeeps ==
  ASSUME TemplateInv, NEW t \in Tenants, NEW name \in Names, NEW c \in Creations,
         Insert(t, name, c), UNCHANGED update
  PROVE  TemplateInv' /\ TableGrows
<1>1. PICK n \in Nat : n = Len(templates)
  BY Tables, Zenon DEF TemplateInv
<1>2. PICK r : r = [tenant |-> t, name |-> name, subject |-> c.subject, body |-> c.body,
                    active |-> TRUE, version |-> 1]
  BY Zenon
<1>3. PICK p : p = {<<c.subject, c.body>>}
  BY Zenon
<1>4. /\ templates' = Append(templates, r) /\ contents' = Append(contents, p)
      /\ writes' = Append(writes, 0)
  BY <1>2, <1>3, Zenon DEF Insert
<1>5. c.subject \in STRING /\ c.body \in STRING
  BY TemplatesAssumption, Zenon
<1>6. r \in Row /\ r.version = 1 /\ <<r.subject, r.body>> \in p
  BY <1>2, <1>3, <1>5, Zenon DEF Row
<1>7. p \in Pairs
  BY <1>3, <1>5 DEF Pairs
<1>8. /\ templates \in Seq(Row) /\ contents \in Seq(Pairs)
      /\ writes \in Seq(Nat) /\ Len(contents) = n /\ Len(writes) = n
  BY <1>1, Zenon DEF TemplateInv, TableTypes
<1>9. /\ templates' \in Seq(Row) /\ Len(templates') = n + 1 /\ templates'[n + 1] = r
      /\ \A k \in 1 .. n : templates'[k] = templates[k]
  BY <1>1, <1>4, <1>6, <1>8, Extended
<1>10. /\ contents' \in Seq(Pairs) /\ Len(contents') = n + 1
       /\ contents'[n + 1] = p
       /\ \A k \in 1 .. n : contents'[k] = contents[k]
  <2>1. contents \in Seq(Pairs) /\ Len(contents) = n /\ contents' = Append(contents, p)
    BY <1>4, <1>8, Zenon
  <2> QED
    BY <1>7, <2>1, Extended
<1>11. /\ writes' \in Seq(Nat) /\ Len(writes') = n + 1 /\ writes'[n + 1] = 0
       /\ \A k \in 1 .. n : writes'[k] = writes[k]
  BY <1>4, <1>8, Extended
<1>12. TableTypes'
  BY <1>9, <1>10, <1>11, Zenon DEF TableTypes
<1>13. RowInv'
  <2> SUFFICES ASSUME NEW i \in 1 .. n + 1
               PROVE  /\ templates'[i].version = 1 + writes'[i]
                      /\ <<templates'[i].subject, templates'[i].body>> \in contents'[i]
    BY <1>9, Zenon DEF RowInv
  <2>1. CASE i = n + 1
    <3>1. templates'[i] = r /\ contents'[i] = p /\ writes'[i] = 0
      BY <1>9, <1>10, <1>11, <2>1, Zenon
    <3>2. r.version = 1 + 0
      BY <1>6
    <3> QED
      BY <1>6, <3>1, <3>2, Zenon
  <2>2. CASE i \in 1 .. n
    <3>1. /\ templates[i].version = 1 + writes[i]
          /\ <<templates[i].subject, templates[i].body>> \in contents[i]
      BY <1>1, <2>2, Zenon DEF TemplateInv, RowInv
    <3> QED
      BY <1>9, <1>10, <1>11, <2>2, <3>1, Zenon
  <2> QED
    BY <2>1, <2>2
<1>14. UpdateInv'
  <2>1. \A i \in 1 .. n : i \in 1 .. n + 1
    OBVIOUS
  <2> QED
    BY <1>1, <1>9, <2>1, Zenon DEF TemplateInv, UpdateInv
<1>15. TableGrows
  BY <1>1, <1>9, <1>10 DEF TableGrows
<1> QED
  BY <1>12, <1>13, <1>14, <1>15, Zenon DEF TemplateInv

(* UPDATE of one row, with what is remembered of it.                         *)
LEMMA WriteRow ==
  ASSUME TemplateInv, NEW i \in 1 .. Len(templates), NEW r \in Row,
         NEW p \in Pairs, NEW n \in Nat,
         templates' = [templates EXCEPT ![i] = r], contents' = [contents EXCEPT ![i] = p],
         writes' = [writes EXCEPT ![i] = n],
         r.tenant = templates[i].tenant, r.version = 1 + n, contents[i] \subseteq p,
         <<r.subject, r.body>> \in p
  PROVE  /\ TableTypes' /\ RowInv' /\ TableGrows /\ Len(templates') = Len(templates)
         /\ templates'[i] = r
         /\ \A k \in 1 .. Len(templates) : k # i => templates'[k] = templates[k]
<1>1. PICK m \in Nat : m = Len(templates)
  BY Tables, Zenon DEF TemplateInv
<1>2. /\ templates \in Seq(Row) /\ contents \in Seq(Pairs)
      /\ writes \in Seq(Nat) /\ Len(contents) = m /\ Len(writes) = m
  BY <1>1, Zenon DEF TemplateInv, TableTypes
<1>3. /\ templates' \in Seq(Row) /\ Len(templates') = m /\ templates'[i] = r
      /\ \A k \in 1 .. m : k # i => templates'[k] = templates[k]
  BY <1>1, <1>2, Replaced
<1>4. /\ contents' \in Seq(Pairs) /\ Len(contents') = m /\ contents'[i] = p
      /\ \A k \in 1 .. m : k # i => contents'[k] = contents[k]
  BY <1>1, <1>2, Replaced
<1>5. /\ writes' \in Seq(Nat) /\ Len(writes') = m /\ writes'[i] = n
      /\ \A k \in 1 .. m : k # i => writes'[k] = writes[k]
  BY <1>1, <1>2, Replaced
<1>6. TableTypes'
  BY <1>3, <1>4, <1>5, Zenon DEF TableTypes
<1>7. RowInv'
  <2> SUFFICES ASSUME NEW k \in 1 .. m
               PROVE  /\ templates'[k].version = 1 + writes'[k]
                      /\ <<templates'[k].subject, templates'[k].body>> \in contents'[k]
    BY <1>3, Zenon DEF RowInv
  <2>1. CASE k = i
    BY <1>3, <1>4, <1>5, <2>1, Zenon
  <2>2. CASE k # i
    <3>1. /\ templates[k].version = 1 + writes[k]
          /\ <<templates[k].subject, templates[k].body>> \in contents[k]
      BY <1>1, Zenon DEF TemplateInv, RowInv
    <3> QED
      BY <1>3, <1>4, <1>5, <2>2, <3>1, Zenon
  <2> QED
    BY <2>1, <2>2, Zenon
<1>8. TableGrows
  <2>1. \A k \in 1 .. m :
          templates'[k].tenant = templates[k].tenant /\ contents[k] \subseteq contents'[k]
    BY <1>3, <1>4, Zenon
  <2>2. m <= m
    OBVIOUS
  <2> QED
    BY <1>1, <1>3, <2>1, <2>2, Zenon DEF TableGrows
<1> QED
  BY <1>1, <1>3, <1>6, <1>7, <1>8, Zenon

(* Whoever holds an earlier copy of the row that changes is told.            *)
LEMMA OvertakeTells ==
  ASSUME UpdateInv, NEW i \in 1 .. Len(templates), Len(templates') = Len(templates),
         \A k \in 1 .. Len(templates) : k # i => templates'[k] = templates[k]
  PROVE  /\ Overtake(i) \in [Editors -> Pending \cup {NoUpdate}]
         /\ \A e \in Editors : Overtake(i)[e] # NoUpdate =>
              /\ Overtake(i)[e].id \in 1 .. Len(templates')
              /\ ~Overtake(i)[e].stale => Overtake(i)[e].row = templates'[Overtake(i)[e].id]
         /\ \A e \in Editors : Overtake(i)[e] = NoUpdate => update[e] = NoUpdate
<1>1. PICK f : f = Overtake(i)
  BY Zenon
<1>2. /\ DOMAIN f = Editors
      /\ \A e \in Editors :
           f[e] = IF update[e].id = i THEN [update[e] EXCEPT !.stale = TRUE] ELSE update[e]
  BY <1>1, Zenon DEF Overtake
<1>3. ASSUME NEW e \in Editors
      PROVE  /\ f[e] \in Pending \cup {NoUpdate}
             /\ f[e] # NoUpdate =>
                  /\ f[e].id \in 1 .. Len(templates')
                  /\ ~f[e].stale => f[e].row = templates'[f[e].id]
             /\ f[e] = NoUpdate => update[e] = NoUpdate
  <2>1. update[e] \in Pending \/ update[e] = NoUpdate
    BY Zenon DEF UpdateInv
  <2>2. CASE update[e] = NoUpdate
    <3>1. update[e].id = 0 /\ i # 0
      BY <2>2 DEF NoUpdate
    <3> QED
      BY <1>2, <2>2, <3>1, Zenon
  <2>3. CASE update[e] \in Pending /\ update[e] # NoUpdate /\ update[e].id = i
    <3>1. PICK u : u = [update[e] EXCEPT !.stale = TRUE]
      BY Zenon
    <3>2. u \in Pending /\ u.stale = TRUE /\ u.id = i /\ u # NoUpdate
      BY <2>3, <3>1, Zenon DEF Pending, NoUpdate
    <3>3. f[e] = u
      BY <1>2, <2>3, <3>1, Zenon
    <3> QED
      BY <2>3, <3>2, <3>3, Zenon
  <2>4. CASE update[e] \in Pending /\ update[e] # NoUpdate /\ update[e].id # i
    <3>1. f[e] = update[e]
      BY <1>2, <2>4, Zenon
    <3>2. /\ update[e].id \in 1 .. Len(templates)
          /\ ~update[e].stale => update[e].row = templates[update[e].id]
      BY <2>4, Zenon DEF UpdateInv
    <3> QED
      BY <2>4, <3>1, <3>2, Zenon
  <2> QED
    BY <2>1, <2>2, <2>3, <2>4, Zenon
<1>4. f = [e \in Editors |-> f[e]]
  BY <1>1, Zenon DEF Overtake
<1>5. f \in [Editors -> Pending \cup {NoUpdate}]
  BY <1>3, <1>4, Zenon
<1> QED
  BY <1>1, <1>3, <1>5, Zenon

(* The field that the UPDATE sets for a request that does not name it is the *)
(* row's own, if the request was not overtaken.                              *)
LEMMA MergedType ==
  ASSUME TemplateInv, NEW e \in Editors, update[e] # NoUpdate
  PROVE  /\ Merged(update[e], "subject") \in STRING /\ Merged(update[e], "body") \in STRING
         /\ Merged(update[e], "active") \in BOOLEAN
         /\ ~update[e].stale =>
              /\ "subject" \notin DOMAIN update[e].req =>
                   Merged(update[e], "subject") = templates[update[e].id].subject
              /\ "body" \notin DOMAIN update[e].req =>
                   Merged(update[e], "body") = templates[update[e].id].body
              /\ "active" \notin DOMAIN update[e].req =>
                   Merged(update[e], "active") = templates[update[e].id].active
<1>1. PICK u : u = update[e]
  BY Zenon
<1>2. /\ u \in Pending /\ u.id \in 1 .. Len(templates)
      /\ ~u.stale => u.row = templates[u.id]
  BY <1>1, Zenon DEF TemplateInv, UpdateInv
<1>3. PICK q : q = templates[u.id]
  BY Zenon
<1>4. q \in Row
  BY <1>2, <1>3, Tables, Zenon DEF TemplateInv
<1>5. u.row \in Row /\ u.req \in Updates
  BY <1>2, Zenon DEF Pending
<1>6. /\ "subject" \in DOMAIN u.req => u.req.subject \in STRING
      /\ "body" \in DOMAIN u.req => u.req.body \in STRING
      /\ "active" \in DOMAIN u.req => u.req.active \in BOOLEAN
  BY <1>5, TemplatesAssumption, Zenon
<1>7. /\ q.subject \in STRING /\ u.row.subject \in STRING
      /\ u.row.body \in STRING /\ u.row.active \in BOOLEAN
  BY <1>4, <1>5, Zenon DEF Row
<1>8. /\ Merged(u, "subject") \in STRING
      /\ ~u.stale /\ "subject" \notin DOMAIN u.req => Merged(u, "subject") = q.subject
  BY <1>2, <1>3, <1>6, <1>7, Zenon DEF Merged
<1>9. /\ Merged(u, "body") \in STRING
      /\ ~u.stale /\ "body" \notin DOMAIN u.req => Merged(u, "body") = q.body
  BY <1>2, <1>3, <1>6, <1>7, Zenon DEF Merged
<1>10. /\ Merged(u, "active") \in BOOLEAN
       /\ ~u.stale /\ "active" \notin DOMAIN u.req => Merged(u, "active") = q.active
  BY <1>2, <1>3, <1>6, <1>7, Zenon DEF Merged
<1> QED
  BY <1>1, <1>3, <1>8, <1>9, <1>10, Zenon

\* What UpdateLeavesRest says of editor e.
LeavesRest(e) ==
  \A f \in Fields :
    update[e] # NoUpdate /\ update'[e] = NoUpdate /\ ~update[e].stale
      /\ f \notin DOMAIN update[e].req
    => templates'[update[e].id][f] = templates[update[e].id][f]

\* Nobody's update ends.
NoneEnds == \A e \in Editors : update'[e] = NoUpdate => update[e] = NoUpdate

(* The UPDATE of Update.                                                     *)
LEMMA UpdateWriteKeeps ==
  ASSUME TemplateInv, NEW e \in Editors, UpdateWrite(e)
  PROVE  TemplateInv' /\ TableGrows /\ \A d \in Editors : LeavesRest(d)
<1>1. PICK u : u = update[e]
  BY Zenon
<1>2. u # NoUpdate /\ u \in Pending /\ u.id \in 1 .. Len(templates)
  BY <1>1, Zenon DEF UpdateWrite, TemplateInv, UpdateInv
<1>3. PICK i \in 1 .. Len(templates) : i = u.id
  BY <1>2, Zenon
<1>4. PICK q : q = templates[i]
  BY Zenon
<1>5. q \in Row /\ writes[i] \in Nat /\ contents[i] \in Pairs
  BY <1>3, <1>4, Tables, Zenon DEF TemplateInv
<1>6. CASE UNCHANGED <<templates, contents, writes>> /\ update' = [update EXCEPT ![e] = NoUpdate]
  <2>1. TableTypes' /\ RowInv'
    BY <1>6, Zenon DEF TemplateInv, TableTypes, RowInv
  <2>2. UpdateInv'
    BY <1>6, Zenon DEF TemplateInv, UpdateInv
  <2>3. TableGrows
    <3>1. Len(templates) \in Nat
      BY Tables, Zenon DEF TemplateInv
    <3> QED
      BY <1>6, <3>1 DEF TableGrows
  <2> QED
    BY <1>6, <2>1, <2>2, <2>3, Zenon DEF TemplateInv, LeavesRest
<1>7. CASE ~(UNCHANGED <<templates, contents, writes>> /\ update' = [update EXCEPT ![e] = NoUpdate])
  <2>1. PICK s \in STRING, b \in STRING, a \in BOOLEAN :
          /\ s = Merged(u, "subject") /\ b = Merged(u, "body") /\ a = Merged(u, "active")
    BY <1>1, <1>2, MergedType, Zenon
  <2>2. PICK r : r = [q EXCEPT !.subject = s, !.body = b, !.active = a, !.version = q.version + 1]
    BY Zenon
  <2>3. /\ r \in Row /\ r.tenant = q.tenant /\ r.version = q.version + 1
        /\ r.subject = s /\ r.body = b /\ r.active = a
    <3>1. PICK v \in Nat : v = q.version + 1
      BY <1>5 DEF Row
    <3>2. r = [q EXCEPT !.subject = s, !.body = b, !.active = a, !.version = v]
      BY <2>2, <3>1, Zenon
    <3>3. r.tenant = q.tenant /\ r.version = v /\ r.subject = s /\ r.body = b
      BY <1>5, <3>2, Zenon DEF Row
    <3>4. r.active = a
      BY <1>5, <3>2, Zenon DEF Row
    <3>5. r \in Row
      BY <1>5, <3>2, Zenon DEF Row
    <3> QED
      BY <3>1, <3>3, <3>4, <3>5, Zenon
  <2>4. PICK p : p = contents[i] \cup {<<r.subject, r.body>>}
    BY Zenon
  <2>5. p \in Pairs /\ contents[i] \subseteq p /\ <<r.subject, r.body>> \in p
    BY <1>5, <2>3, <2>4 DEF Pairs
  <2>6. /\ templates' = [templates EXCEPT ![i] = r] /\ contents' = [contents EXCEPT ![i] = p]
        /\ writes' = [writes EXCEPT ![i] = writes[i] + 1]
        /\ update' = [Overtake(i) EXCEPT ![e] = NoUpdate]
    BY <1>1, <1>3, <1>4, <1>7, <2>1, <2>2, <2>4, Zenon DEF UpdateWrite, Put, NextVersion
  <2>7. q.version = 1 + writes[i]
    BY <1>4, Zenon DEF TemplateInv, RowInv
  <2>8. writes[i] + 1 \in Nat /\ r.version = 1 + (writes[i] + 1)
    BY <1>5, <2>3, <2>7
  <2>9. /\ TableTypes' /\ RowInv' /\ TableGrows /\ Len(templates') = Len(templates)
        /\ templates'[i] = r
        /\ \A k \in 1 .. Len(templates) : k # i => templates'[k] = templates[k]
    BY <1>4, <2>3, <2>5, <2>6, <2>8, WriteRow, Zenon
  <2>10. PICK g \in [Editors -> Pending \cup {NoUpdate}] :
          /\ g = Overtake(i)
          /\ \A d \in Editors : g[d] # NoUpdate =>
               g[d].id \in 1 .. Len(templates') /\ (~g[d].stale => g[d].row = templates'[g[d].id])
          /\ \A d \in Editors : g[d] = NoUpdate => update[d] = NoUpdate
    BY <2>9, OvertakeTells, Zenon DEF TemplateInv
  <2>11. update' = [g EXCEPT ![e] = NoUpdate]
    BY <2>6, <2>10, Zenon
  <2>12. UpdateInv'
    BY <2>10, <2>11, Zenon DEF UpdateInv
  <2>13. ASSUME NEW d \in Editors PROVE LeavesRest(d)
    <3>1. CASE d # e
      BY <2>10, <2>11, <3>1, Zenon DEF LeavesRest
    <3>2. CASE d = e
      <4>1. ~u.stale =>
              /\ "subject" \notin DOMAIN u.req => s = q.subject
              /\ "body" \notin DOMAIN u.req => b = q.body
              /\ "active" \notin DOMAIN u.req => a = q.active
        BY <1>1, <1>2, <1>3, <1>4, <2>1, MergedType, Zenon
      <4>2. ASSUME NEW f \in Fields, ~u.stale, f \notin DOMAIN u.req
            PROVE  r[f] = q[f]
        <5>1. CASE f = "subject"
          BY <2>3, <4>1, <4>2, <5>1, Zenon
        <5>2. CASE f = "body"
          BY <2>3, <4>1, <4>2, <5>2, Zenon
        <5>3. CASE f = "active"
          BY <2>3, <4>1, <4>2, <5>3, Zenon
        <5> QED
          BY <5>1, <5>2, <5>3, Zenon DEF Fields
      <4> QED
        BY <1>1, <1>3, <1>4, <2>9, <3>2, <4>2, Zenon DEF LeavesRest
    <3> QED
      BY <3>1, <3>2, Zenon
  <2> QED
    BY <2>9, <2>12, <2>13, Zenon DEF TemplateInv
<1> QED
  BY <1>6, <1>7, Zenon

(* The SELECT of Update takes a copy of the row as it is.                    *)
LEMMA UpdateReadKeeps ==
  ASSUME TemplateInv, NEW e \in Editors, NEW t, NEW i \in 1 .. Len(templates),
         NEW req \in Updates, UpdateRead(e, t, i, req)
  PROVE  TemplateInv' /\ NoneEnds /\ UNCHANGED <<templates, contents>>
<1>1. PICK u : u = [id |-> i, row |-> templates[i], req |-> req, stale |-> FALSE]
  BY Zenon
<1>2. templates[i] \in Row /\ Len(templates) \in Nat
  BY Tables, Zenon DEF TemplateInv
<1>3. u \in Pending /\ u.id = i /\ u.row = templates[i] /\ u.stale = FALSE
  BY <1>1, <1>2 DEF Pending
<1>4. u # NoUpdate
  <2>1. u.id # NoUpdate.id
    BY <1>3 DEF NoUpdate
  <2> QED
    BY <2>1, Zenon
<1>5. update' = [update EXCEPT ![e] = u] /\ UNCHANGED <<templates, contents, writes>>
  BY <1>1, Zenon DEF UpdateRead
<1>6. update \in [Editors -> Pending \cup {NoUpdate}]
  BY Zenon DEF TemplateInv, UpdateInv
<1>7. /\ update'[e] = u /\ update' \in [Editors -> Pending \cup {NoUpdate}]
      /\ \A d \in Editors : d # e => update'[d] = update[d]
  BY <1>3, <1>5, <1>6, Zenon
<1>8. UpdateInv'
  <2> SUFFICES ASSUME NEW d \in Editors, update'[d] # NoUpdate
               PROVE  /\ update'[d].id \in 1 .. Len(templates)
                      /\ ~update'[d].stale => update'[d].row = templates[update'[d].id]
    BY <1>5, <1>7, Zenon DEF UpdateInv
  <2>1. CASE d = e
    BY <1>3, <1>7, <2>1, Zenon
  <2>2. CASE d # e
    BY <1>7, <2>2, Zenon DEF TemplateInv, UpdateInv
  <2> QED
    BY <2>1, <2>2, Zenon
<1>9. NoneEnds
  BY <1>4, <1>7, Zenon DEF NoneEnds
<1>10. TableTypes' /\ RowInv'
  BY <1>5, Zenon DEF TemplateInv, TableTypes, RowInv
<1> QED
  BY <1>5, <1>8, <1>9, <1>10, Zenon DEF TemplateInv

(* A statement other than the UPDATE of Update changes row i, and tells the  *)
(* updates that hold a copy of it.                                           *)
LEMMA RewriteKeeps ==
  ASSUME TemplateInv, NEW i \in 1 .. Len(templates), NEW r \in Row,
         NEW p \in Pairs,
         templates' = [templates EXCEPT ![i] = r], contents' = [contents EXCEPT ![i] = p],
         UNCHANGED writes, update' = Overtake(i),
         r.tenant = templates[i].tenant, r.version = templates[i].version, contents[i] \subseteq p,
         <<r.subject, r.body>> \in p
  PROVE  TemplateInv' /\ NoneEnds /\ TableGrows
<1>1. writes[i] \in Nat /\ r.version = 1 + writes[i]
  BY Tables, Zenon DEF TemplateInv, RowInv
<1>2. writes' = [writes EXCEPT ![i] = writes[i]]
  <2>1. writes \in [1 .. Len(templates) -> Nat]
    BY Tables DEF TemplateInv, TableTypes
  <2> QED
    BY <2>1, Zenon
<1>3. /\ TableTypes' /\ RowInv' /\ TableGrows /\ Len(templates') = Len(templates)
      /\ \A k \in 1 .. Len(templates) : k # i => templates'[k] = templates[k]
  <2>1. PICK n \in Nat : n = writes[i]
    BY <1>1, Zenon
  <2>2. writes' = [writes EXCEPT ![i] = n] /\ r.version = 1 + n
    BY <1>1, <1>2, <2>1, Zenon
  <2> QED
    BY <2>2, WriteRow, Zenon
<1>4. UpdateInv
  BY Zenon DEF TemplateInv
<1>5. UpdateInv' /\ NoneEnds
  <2>1. /\ update' \in [Editors -> Pending \cup {NoUpdate}]
        /\ \A e \in Editors : update'[e] # NoUpdate =>
             /\ update'[e].id \in 1 .. Len(templates')
             /\ ~update'[e].stale => update'[e].row = templates'[update'[e].id]
        /\ \A e \in Editors : update'[e] = NoUpdate => update[e] = NoUpdate
    BY <1>3, <1>4, OvertakeTells, Zenon
  <2> QED
    BY <2>1, Zenon DEF UpdateInv, NoneEnds
<1> QED
  BY <1>3, <1>5, Zenon DEF TemplateInv

(* Delete.                                                                   *)
LEMMA DeleteKeeps ==
  ASSUME TemplateInv, NEW t, NEW i \in 1 .. Len(templates), DeleteTemplate(t, i)
  PROVE  TemplateInv' /\ NoneEnds /\ TableGrows
<1>1. PICK q : q = templates[i]
  BY Zenon
<1>2. PICK r : r = [q EXCEPT !.active = FALSE]
  BY Zenon
<1>3. q \in Row /\ contents[i] \in Pairs
  BY <1>1, Tables, Zenon DEF TemplateInv
<1>4. /\ r \in Row /\ r.tenant = q.tenant /\ r.version = q.version
      /\ r.subject = q.subject /\ r.body = q.body
  BY <1>2, <1>3, Zenon DEF Row
<1>5. /\ templates' = [templates EXCEPT ![i] = r] /\ UNCHANGED <<contents, writes>>
      /\ update' = Overtake(i)
  BY <1>1, <1>2, Zenon DEF DeleteTemplate
<1>6. contents' = [contents EXCEPT ![i] = contents[i]]
  <2>1. contents \in [1 .. Len(templates) -> Pairs]
    BY Tables DEF TemplateInv, TableTypes
  <2> QED
    BY <1>5, <2>1, Zenon
<1>7. <<r.subject, r.body>> \in contents[i]
  <2>1. <<q.subject, q.body>> \in contents[i]
    BY <1>1, Zenon DEF TemplateInv, RowInv
  <2> QED
    BY <1>4, <2>1, Zenon
<1>8. contents[i] \subseteq contents[i]
  BY Zenon
<1> QED
  BY <1>1, <1>3, <1>4, <1>5, <1>6, <1>7, <1>8, RewriteKeeps, Zenon

(* The seed script finds a row of the name.                                  *)
LEMMA SeedKeeps ==
  ASSUME TemplateInv, NEW i \in 1 .. Len(templates), NEW c \in Creations,
         Put(i, [templates[i] EXCEPT !.subject = c.subject, !.body = c.body]),
         update' = Overtake(i), UNCHANGED writes
  PROVE  TemplateInv' /\ NoneEnds /\ TableGrows
<1>1. PICK q : q = templates[i]
  BY Zenon
<1>2. PICK s \in STRING, b \in STRING : s = c.subject /\ b = c.body
  BY TemplatesAssumption, Zenon
<1>3. PICK r : r = [q EXCEPT !.subject = s, !.body = b]
  BY Zenon
<1>4. q \in Row /\ contents[i] \in Pairs
  BY <1>1, Tables, Zenon DEF TemplateInv
<1>5. /\ r \in Row /\ r.tenant = q.tenant /\ r.version = q.version
      /\ r.subject = s /\ r.body = b
  BY <1>3, <1>4, Zenon DEF Row
<1>6. PICK p : p = contents[i] \cup {<<r.subject, r.body>>}
  BY Zenon
<1>7. p \in Pairs /\ contents[i] \subseteq p /\ <<r.subject, r.body>> \in p
  BY <1>4, <1>5, <1>6 DEF Pairs
<1>8. templates' = [templates EXCEPT ![i] = r] /\ contents' = [contents EXCEPT ![i] = p]
  BY <1>1, <1>2, <1>3, <1>6, Zenon DEF Put
<1> QED
  BY <1>1, <1>5, <1>7, <1>8, RewriteKeeps, Zenon

(* Whatever requests and the seed script do to the table.                    *)
LEMMA TemplatesKeep ==
  ASSUME TemplateInv, TemplateStep
  PROVE  TemplateInv' /\ TableGrows /\ \A e \in Editors : LeavesRest(e)
<1>0. DOMAIN templates = 1 .. Len(templates) /\ Len(templates) \in Nat
  BY Tables, Zenon DEF TemplateInv
<1>1. ASSUME NoneEnds PROVE \A e \in Editors : LeavesRest(e)
  BY <1>1, Zenon DEF NoneEnds, LeavesRest
<1>2. ASSUME UNCHANGED update PROVE NoneEnds
  BY <1>2, Zenon DEF NoneEnds
<1>3. ASSUME NEW t \in Tenants, NEW n \in Names, NEW c \in Creations,
             CreateTemplate(t, n, c) \/ SeedTemplate(t, n, c)
      PROVE  TemplateInv' /\ TableGrows /\ NoneEnds
  <2>1. CASE Insert(t, n, c) /\ UNCHANGED update
    BY <1>2, <2>1, InsertKeeps, Zenon
  <2>2. CASE ~(Insert(t, n, c) /\ UNCHANGED update)
    <3>1. PICK i \in 1 .. Len(templates) :
            /\ Put(i, [templates[i] EXCEPT !.subject = c.subject, !.body = c.body])
            /\ update' = Overtake(i) /\ UNCHANGED writes
      BY <1>0, <1>3, <2>2, Zenon DEF CreateTemplate, SeedTemplate
    <3> QED
      BY <3>1, SeedKeeps, Zenon
  <2> QED
    BY <2>1, <2>2, Zenon
<1>4. ASSUME NEW t \in Tenants, NEW i \in 1 .. Len(templates), DeleteTemplate(t, i)
      PROVE  TemplateInv' /\ TableGrows /\ NoneEnds
  BY <1>4, DeleteKeeps, Zenon
<1>5. ASSUME NEW t \in Tenants, NEW i \in 1 .. Len(templates), NEW e \in Editors,
             NEW req \in Updates, UpdateRead(e, t, i, req)
      PROVE  TemplateInv' /\ TableGrows /\ NoneEnds
  <2>1. TemplateInv' /\ NoneEnds /\ UNCHANGED <<templates, contents>>
    BY <1>5, UpdateReadKeeps, Zenon
  <2>2. TableGrows
    BY <1>0, <2>1 DEF TableGrows
  <2> QED
    BY <2>1, <2>2, Zenon
<1> QED
  BY <1>0, <1>1, <1>3, <1>4, <1>5, UpdateWriteKeeps, Zenon DEF TemplateStep

-----------------------------------------------------------------------------
(* deliver. *)

(* A text that was the template's stays one.                                 *)
LEMMA TextsStay ==
  ASSUME TableGrows, TableTypes, NEW i \in 1 .. Len(templates), NEW x, NEW y, NEW z,
         FromTemplate(i, x, y, z)
  PROVE  FromTemplate(i, x, y, z)'
<1>1. contents[i] \subseteq contents'[i]
  BY Zenon DEF TableGrows
<1> QED
  BY <1>1, Zenon DEF FromTemplate

(* Indexes of rows stay indexes of rows, of the same tenant.                 *)
LEMMA RowsStay ==
  ASSUME TableGrows, TableTypes, TableTypes', NEW i
  PROVE  /\ i \in 1 .. Len(templates) => i \in 1 .. Len(templates')
         /\ i \in 0 .. Len(templates) => i \in 0 .. Len(templates')
         /\ i \in 0 .. Len(templates) /\ i # NoTemplate =>
              i \in 1 .. Len(templates) /\ templates'[i].tenant = templates[i].tenant
<1>1. Len(templates) \in Nat /\ Len(templates') \in Nat /\ Len(templates) <= Len(templates')
  BY DEF TableGrows, TableTypes
<1>2. i \in 0 .. Len(templates) /\ i # NoTemplate => i \in 1 .. Len(templates)
  BY <1>1 DEF NoTemplate
<1>3. /\ i \in 1 .. Len(templates) => i \in 1 .. Len(templates')
      /\ i \in 0 .. Len(templates) => i \in 0 .. Len(templates')
  BY <1>1
<1> QED
  BY <1>2, <1>3, Zenon DEF TableGrows

(* A run of deliver goes on while the table changes.                         *)
LEMMA JobStays ==
  ASSUME TableGrows, TableTypes, TableTypes', NEW j, JobInv(j)
  PROVE  JobInv(j)'
<1>1. Refers(j)'
  BY RowsStay, Zenon DEF JobInv, Refers
<1>2. ASSUME j.stage # "render", j.template # NoTemplate
      PROVE  FromTemplate(j.template, j.title, j.body, j.raw)'
  <2>1. j.template \in 1 .. Len(templates)
    BY <1>2, RowsStay, Zenon DEF JobInv, Refers
  <2> QED
    BY <1>2, <2>1, TextsStay, Zenon DEF JobInv
<1> QED
  BY <1>1, <1>2, Zenon DEF JobInv

(* So do the records of runs that ended.                                     *)
LEMMA RecordsStay ==
  ASSUME TableGrows, TableTypes, TableTypes', OutboxInv, LettersInv
  PROVE  /\ \A m \in outbox : m.template # NoTemplate =>
              /\ m.template \in 1 .. Len(templates') /\ templates'[m.template].tenant = m.tenant
              /\ FromTemplate(m.template, m.title, m.body, m.raw)'
         /\ \A l \in letters : LetterInv(l)'
<1>1. ASSUME NEW m \in outbox, m.template # NoTemplate
      PROVE  /\ m.template \in 1 .. Len(templates') /\ templates'[m.template].tenant = m.tenant
             /\ FromTemplate(m.template, m.title, m.body, m.raw)'
  <2>1. /\ m.template \in 1 .. Len(templates) /\ templates[m.template].tenant = m.tenant
        /\ FromTemplate(m.template, m.title, m.body, m.raw)
    BY <1>1, Zenon DEF OutboxInv
  <2>2. templates'[m.template].tenant = templates[m.template].tenant
    BY <2>1, Zenon DEF TableGrows
  <2> QED
    BY <2>1, <2>2, RowsStay, TextsStay, Zenon
<1>2. ASSUME NEW l \in letters PROVE LetterInv(l)'
  <2>1. LetterInv(l)
    BY Zenon DEF LettersInv
  <2>2. l.own => l.template \in 1 .. Len(templates)
    BY <2>1, Zenon DEF LetterInv
  <2>3. l.own => /\ l.template \in 1 .. Len(templates')
                 /\ contents[l.template] \subseteq contents'[l.template]
    BY <2>2, RowsStay, Zenon DEF TableGrows
  <2> QED
    BY <2>1, <2>3, Zenon DEF LetterInv
<1> QED
  BY <1>1, <1>2, Zenon

(* A step on the table keeps the whole invariant.                            *)
LEMMA EditsKeep ==
  ASSUME OutboundInv, TemplateStep, UNCHANGED <<job, runs, outbox, letters>>
  PROVE  OutboundInv'
<1>1. TableTypes /\ TemplateInv' /\ TableTypes' /\ TableGrows
  BY TemplatesKeep, Zenon DEF OutboundInv, TemplateInv
<1>2. JobsInv'
  <2>1. ASSUME NEW w \in Workers, job'[w] # NoJob PROVE JobInv(job[w])'
    <3>1. PICK j : j = job[w]
      BY Zenon
    <3>2. JobInv(j)
      BY <2>1, <3>1, Zenon DEF OutboundInv, JobsInv
    <3>3. JobInv(j)'
      BY <1>1, <3>2, JobStays, Zenon
    <3>4. job'[w] = j
      BY <3>1, Zenon
    <3> QED
      BY <3>3, <3>4, Zenon DEF JobInv, Refers
  <2> QED
    BY <2>1, Zenon DEF OutboundInv, JobsInv
<1>3. OutboxInv' /\ LettersInv'
  BY <1>1, RecordsStay, Zenon DEF OutboundInv, OutboxInv, LettersInv
<1> QED
  BY <1>1, <1>2, <1>3, Zenon DEF OutboundInv

(* Worker w goes on with j, and nothing is recorded.                         *)
LEMMA GoesOn ==
  ASSUME OutboundInv, NEW w \in Workers, NEW j, JobInv(j), job' = [job EXCEPT ![w] = j],
         UNCHANGED <<templateVars, outbox, letters>>
  PROVE  OutboundInv'
<1>1. UNCHANGED <<templates, contents, writes, update>>
  BY Zenon DEF templateVars
<1>2. TemplateInv' /\ OutboxInv' /\ LettersInv'
  BY <1>1, Zenon DEF OutboundInv, TemplateInv, TableTypes, RowInv, UpdateInv, OutboxInv, FromTemplate,
                     LettersInv, LetterInv
<1>3. \A k : JobInv(k)' <=> JobInv(k)
  BY <1>1, Zenon DEF JobInv, Refers, FromTemplate
<1>4. job \in [Workers -> Job \cup {NoJob}] /\ j \in Job
  BY Zenon DEF OutboundInv, JobsInv, JobInv
<1>5. JobsInv'
  <2>1. job' \in [Workers -> Job \cup {NoJob}]
    BY <1>4, Zenon
  <2>2. ASSUME NEW v \in Workers, job'[v] # NoJob PROVE JobInv(job[v])'
    <3>1. PICK k : k = job'[v]
      BY Zenon
    <3>2. JobInv(k)
      <4>1. CASE v = w
        BY <1>4, <3>1, <4>1, Zenon
      <4>2. CASE v # w
        <5>1. k = job[v] /\ k # NoJob
          BY <1>4, <2>2, <3>1, <4>2, Zenon
        <5> QED
          BY <5>1, Zenon DEF OutboundInv, JobsInv
      <4> QED
        BY <4>1, <4>2, Zenon
    <3>3. JobInv(k)'
      BY <1>3, <3>2, Zenon
    <3> QED
      BY <3>1, <3>3, Zenon DEF JobInv, Refers
  <2> QED
    BY <2>1, <2>2, Zenon DEF JobsInv
<1> QED
  BY <1>2, <1>5, Zenon DEF OutboundInv

(* The run of w ends, with m accepted or l written.                          *)
LEMMA Ends ==
  ASSUME OutboundInv, NEW w \in Workers, job' = [job EXCEPT ![w] = NoJob],
         UNCHANGED templateVars, OutboxInv', LettersInv'
  PROVE  OutboundInv'
<1>1. UNCHANGED <<templates, contents, writes, update>>
  BY Zenon DEF templateVars
<1>2. TemplateInv'
  BY <1>1, Zenon DEF OutboundInv, TemplateInv, TableTypes, RowInv, UpdateInv
<1>3. \A k : JobInv(k)' <=> JobInv(k)
  BY <1>1, Zenon DEF JobInv, Refers, FromTemplate
<1>4. job \in [Workers -> Job \cup {NoJob}]
  BY Zenon DEF OutboundInv, JobsInv
<1>5. JobsInv'
  <2>1. job' \in [Workers -> Job \cup {NoJob}]
    BY <1>4, Zenon
  <2>2. ASSUME NEW v \in Workers, job'[v] # NoJob PROVE JobInv(job[v])'
    <3>1. PICK k : k = job'[v]
      BY Zenon
    <3>2. k = job[v] /\ k # NoJob
      BY <1>4, <2>2, <3>1, Zenon
    <3>3. JobInv(k)
      BY <3>2, Zenon DEF OutboundInv, JobsInv
    <3>4. JobInv(k)'
      BY <1>3, <3>3, Zenon
    <3> QED
      BY <3>1, <3>4, Zenon DEF JobInv, Refers
  <2> QED
    BY <2>1, <2>2, Zenon DEF JobsInv
<1> QED
  BY <1>2, <1>5, Zenon DEF OutboundInv

(* A run of deliver that fails leaves one letter more.                       *)
LEMMA FailKeeps ==
  ASSUME OutboundInv, NEW w \in Workers, NEW j, NEW reason, NEW disturbed, Refers(j),
         UNCHANGED templateVars, Fail(w, j, reason, disturbed),
         reason = "permanent" <=> j.hopeless,
         reason = "retries_exhausted" /\ ~disturbed => j.calls = MaxAttempts \/ MaxAttempts = 0,
         reason = "template_render" <=> j.calls = 0,
         reason = "template_render" /\ j.own =>
           disturbed \/ \E v \in contents[j.template] : BadText \in {v[1], v[2]}
  PROVE  OutboundInv'
<1>1. PICK l : l = [reason |-> reason, template |-> j.template, own |-> j.own, calls |-> j.calls,
                    hopeless |-> j.hopeless, disturbed |-> disturbed]
  BY Zenon
<1>2. /\ l.reason = reason /\ l.template = j.template /\ l.own = j.own /\ l.calls = j.calls
      /\ l.hopeless = j.hopeless /\ l.disturbed = disturbed
  BY <1>1, Zenon
<1>3. letters' = letters \cup {l} /\ job' = [job EXCEPT ![w] = NoJob] /\ UNCHANGED outbox
  BY <1>1, Zenon DEF Fail
<1>4. j.own => j.template \in 1 .. Len(templates)
  <2>1. Len(templates) \in Nat
    BY Tables, Zenon DEF OutboundInv, TemplateInv
  <2> QED
    BY <2>1 DEF Refers, NoTemplate
<1>5. LetterInv(l)
  BY <1>2, <1>4, Zenon DEF LetterInv
<1>6. UNCHANGED <<templates, contents>>
  BY Zenon DEF templateVars
<1>7. LettersInv'
  <2> SUFFICES ASSUME NEW k \in letters' PROVE LetterInv(k)'
    BY Zenon DEF LettersInv
  <2>1. LetterInv(k)
    BY <1>3, <1>5, Zenon DEF OutboundInv, LettersInv
  <2> QED
    BY <1>6, <2>1, Zenon DEF LetterInv
<1>8. OutboxInv'
  BY <1>3, <1>6, Zenon DEF OutboundInv, OutboxInv, FromTemplate
<1> QED
  BY <1>3, <1>7, <1>8, Ends, Zenon

(* deliver begins.                                                           *)
LEMMA DeliverKeeps ==
  ASSUME OutboundInv, NEW w \in Workers, NEW t \in Tenants, NEW i \in 0 .. Len(templates),
         NEW b \in Backends, NEW raw \in Payloads, Deliver(w, t, i, b, raw)
  PROVE  OutboundInv'
<1>1. PICK own \in BOOLEAN : own = (i # NoTemplate /\ templates[i].tenant = t)
  BY Zenon
<1>2. PICK j : j = [stage |-> "render", tenant |-> t, template |-> i, backend |-> b, raw |-> raw,
                    title |-> NoText, body |-> NoText, attempt |-> 1, calls |-> 0,
                    hopeless |-> FALSE, own |-> own]
  BY Zenon
<1>3. job' = [job EXCEPT ![w] = j] /\ UNCHANGED <<templateVars, outbox, letters>>
  BY <1>1, <1>2, Zenon DEF Deliver
<1>4. /\ j.stage = "render" /\ j.tenant = t /\ j.template = i /\ j.calls = 0 /\ j.attempt = 1
      /\ j.hopeless = FALSE /\ j.own = own
  BY <1>2, Zenon
<1>5. j \in Job
  <2>1. i \in Nat /\ 0 \in Nat /\ 1 \in Nat
    OBVIOUS
  <2>2. NoText \in Texts /\ "render" \in {"render", "send", "backoff"}
    BY Zenon DEF Texts
  <2> QED
    BY <1>2, <2>1, <2>2, Zenon DEF Job
<1>6. JobInv(j)
  BY <1>1, <1>4, <1>5, Zenon DEF JobInv, Refers
<1> QED
  BY <1>3, <1>6, GoesOn, Zenon

(* The text that goes out is the rendered one, or else the payload's own.    *)
LEMMA FirstGoesOut ==
  ASSUME NEW x, NEW y
  PROVE  GoesOut(FirstString(x, y), x, y)
  BY Zenon DEF GoesOut, FirstString

(* What is prepared for the provider comes from the template as it is now.   *)
LEMMA PrepareKeeps ==
  ASSUME OutboundInv, NEW w \in Workers, job[w].stage = "render", JobInv(job[w]),
         NEW s \in Texts, NEW b \in Texts, Prepare(w, s, b), UNCHANGED templateVars,
         job[w].template # NoTemplate =>
           /\ templates[job[w].template].tenant = job[w].tenant
           /\ s = RenderText(templates[job[w].template].subject)
           /\ b = RenderText(templates[job[w].template].body)
  PROVE  OutboundInv'
<1>1. PICK j : j = job[w]
  BY Zenon
<1>2. PICK x, y : x = FirstString(s, j.raw.title) /\ y = FirstString(b, j.raw.body)
  BY Zenon
<1>3. PICK k : k = [j EXCEPT !.stage = "send", !.title = x, !.body = y]
  BY Zenon
<1>4. j \in Job /\ job \in [Workers -> Job \cup {NoJob}]
  BY <1>1, Zenon DEF JobInv, OutboundInv, JobsInv
<1>5. job' = [job EXCEPT ![w] = k] /\ UNCHANGED <<outbox, letters>>
  BY <1>1, <1>2, <1>3, <1>4, Zenon DEF Prepare
<1>6. j.raw.title \in STRING /\ j.raw.body \in STRING
  <2>1. j.raw \in Payloads
    BY <1>4, Zenon DEF Job
  <2> QED
    BY <2>1, OutboundAssumption, Zenon
<1>7. x \in Texts /\ y \in Texts
  BY <1>2, <1>6, Zenon DEF FirstString, Texts
<1>8. k \in Job
  BY <1>3, <1>4, <1>7, Zenon DEF Job
<1>9. /\ k.stage = "send" /\ k.title = x /\ k.body = y /\ k.template = j.template
      /\ k.tenant = j.tenant /\ k.raw = j.raw /\ k.calls = j.calls /\ k.attempt = j.attempt
      /\ k.own = j.own /\ k.hopeless = j.hopeless
  BY <1>3, <1>4, Zenon DEF Job
<1>10. k.calls = 0 /\ k.attempt = 1 /\ Refers(k) /\ ~k.hopeless
  BY <1>1, <1>9, Zenon DEF JobInv, Refers
<1>11. ASSUME j.template # NoTemplate
       PROVE  k.own /\ FromTemplate(k.template, k.title, k.body, k.raw)
  <2>1. PICK i \in 1 .. Len(templates) : i = j.template
    <3>1. Len(templates) \in Nat
      BY Tables, Zenon DEF OutboundInv, TemplateInv
    <3> QED
      BY <1>1, <1>11, <3>1 DEF JobInv, Refers, NoTemplate
  <2>2. PICK v : v = <<templates[i].subject, templates[i].body>>
    BY Zenon
  <2>3. v \in contents[i] /\ v[1] = templates[i].subject /\ v[2] = templates[i].body
    BY <2>2, Zenon DEF OutboundInv, TemplateInv, RowInv
  <2>4. s = RenderText(v[1]) /\ b = RenderText(v[2]) /\ k.own
    BY <1>1, <1>9, <1>11, <2>1, <2>3, Zenon DEF JobInv, Refers
  <2>5. GoesOut(x, s, j.raw.title) /\ GoesOut(y, b, j.raw.body)
    BY <1>2, FirstGoesOut, Zenon
  <2> QED
    BY <1>9, <2>1, <2>3, <2>4, <2>5, Zenon DEF FromTemplate
<1>12. 1 = 0 + 1
  OBVIOUS
<1>13. JobInv(k)
  BY <1>8, <1>9, <1>10, <1>11, <1>12, Zenon DEF JobInv
<1> QED
  BY <1>5, <1>13, GoesOn, Zenon

(* Step 5 of Process.                                                        *)
LEMMA RenderKeeps ==
  ASSUME OutboundInv, NEW w \in Workers, Render(w)
  PROVE  OutboundInv'
<1>1. PICK j : j = job[w]
  BY Zenon
<1>2. j.stage = "render" /\ UNCHANGED templateVars
  BY <1>1, Zenon DEF Render
<1>3. JobInv(j)
  <2>1. j # NoJob
    BY <1>2 DEF NoJob
  <2> QED
    BY <1>1, <2>1, Zenon DEF OutboundInv, JobsInv
<1>4. j.calls = 0 /\ ~j.hopeless /\ Refers(j) /\ j.template \in 0 .. Len(templates)
  BY <1>2, <1>3, Zenon DEF JobInv, Refers
<1>5. j.template # NoTemplate => j.template \in 1 .. Len(templates)
  <2>1. Len(templates) \in Nat
    BY Tables, Zenon DEF OutboundInv, TemplateInv
  <2> QED
    BY <1>4, <2>1 DEF NoTemplate
<1>6. CASE j.template = NoTemplate /\ Prepare(w, NoText, NoText)
  <2>1. NoText \in Texts
    BY Zenon DEF Texts
  <2> QED
    BY <1>1, <1>2, <1>3, <1>6, <2>1, PrepareKeeps, Zenon
<1>7. CASE /\ j.template # NoTemplate /\ Renders(j)
           /\ Prepare(w, RenderText(templates[j.template].subject),
                         RenderText(templates[j.template].body))
  <2>1. templates[j.template] \in Row
    BY <1>5, <1>7, Tables, Zenon DEF OutboundInv, TemplateInv
  <2>2. /\ RenderText(templates[j.template].subject) \in Texts
        /\ RenderText(templates[j.template].body) \in Texts
    BY <2>1, Zenon DEF Row, RenderText, Texts
  <2>3. templates[j.template].tenant = j.tenant
    BY <1>7, Zenon DEF Renders, GetTemplate
  <2> QED
    BY <1>1, <1>2, <1>3, <1>7, <2>2, <2>3, PrepareKeeps, Zenon
<1>8. ASSUME NEW d \in BOOLEAN, Fail(w, j, "template_render", d), j.template # NoTemplate,
             d \/ ~Renders(j)
      PROVE  OutboundInv'
  <2>1. ASSUME j.own, ~d PROVE \E v \in contents[j.template] : BadText \in {v[1], v[2]}
    <3>1. PICK i \in 1 .. Len(templates) : i = j.template
      BY <1>5, <1>8, Zenon
    <3>2. GetTemplate(j.tenant, j.template)
      <4>1. DOMAIN templates = 1 .. Len(templates)
        BY Tables, Zenon DEF OutboundInv, TemplateInv
      <4> QED
        BY <1>4, <2>1, <3>1, <4>1, Zenon DEF GetTemplate, Refers
    <3>3. BadText \in {templates[i].body, templates[i].subject}
      BY <1>8, <2>1, <3>1, <3>2, Zenon DEF Renders
    <3>4. PICK v : v = <<templates[i].subject, templates[i].body>>
      BY Zenon
    <3>5. v \in contents[i] /\ v[1] = templates[i].subject /\ v[2] = templates[i].body
      BY <3>4, Zenon DEF OutboundInv, TemplateInv, RowInv
    <3> QED
      BY <3>1, <3>3, <3>5, Zenon
  <2>2. "template_render" # "permanent" /\ "template_render" # "retries_exhausted"
    BY Zenon
  <2> QED
    BY <1>2, <1>4, <1>8, <2>1, <2>2, FailKeeps, Zenon
<1> QED
  BY <1>1, <1>6, <1>7, <1>8, Zenon DEF Render

(* One call of the provider.                                                 *)
LEMMA SendKeeps ==
  ASSUME OutboundInv, NEW w \in Workers, Send(w)
  PROVE  OutboundInv'
<1>1. PICK q : q = job[w]
  BY Zenon
<1>2. q.stage = "send" /\ UNCHANGED templateVars
  BY <1>1, Zenon DEF Send
<1>3. JobInv(q)
  <2>1. q # NoJob
    BY <1>2 DEF NoJob
  <2> QED
    BY <1>1, <2>1, Zenon DEF OutboundInv, JobsInv
<1>4. /\ q \in Job /\ q.calls \in Nat /\ q.attempt = q.calls + 1
      /\ q.attempt = 1 \/ q.attempt <= MaxAttempts
  <2>1. q \in Job /\ q.attempt = q.calls + 1 /\ (q.attempt = 1 \/ q.attempt <= MaxAttempts)
    BY <1>2, <1>3, Zenon DEF JobInv
  <2>2. q.calls \in Nat
    BY <2>1, Zenon DEF Job
  <2> QED
    BY <2>1, <2>2, Zenon
<1>5. PICK n \in Nat : n = q.calls + 1
  BY <1>4
<1>6. PICK j : j = [q EXCEPT !.calls = n]
  BY Zenon
<1>7. /\ j \in Job /\ j.calls = n /\ j.attempt = n
      /\ j.stage = q.stage /\ j.tenant = q.tenant /\ j.template = q.template /\ j.raw = q.raw
      /\ j.title = q.title /\ j.body = q.body /\ j.own = q.own /\ j.hopeless = q.hopeless
      /\ j.backend = q.backend
  BY <1>4, <1>5, <1>6, Zenon DEF Job
<1>8. /\ Refers(j) /\ ~j.hopeless
      /\ j.template # NoTemplate => j.own /\ FromTemplate(j.template, j.title, j.body, j.raw)
  <2>1. q.stage # "render"
    BY <1>2, Zenon
  <2> QED
    BY <1>3, <1>7, <2>1, Zenon DEF JobInv, Refers
<1>9. j.calls # 0 /\ 1 <= j.attempt /\ (j.attempt = 1 \/ j.attempt <= MaxAttempts)
  BY <1>4, <1>5, <1>7
<1>a. /\ "permanent" # "template_render" /\ "permanent" # "retries_exhausted"
      /\ "retries_exhausted" # "template_render"
  BY Zenon
<1>b. ASSUME NEW k, k = [j EXCEPT !.hopeless = TRUE], Fail(w, k, "permanent", FALSE)
      PROVE  OutboundInv'
  <2>1. /\ k.hopeless = TRUE /\ k.calls = j.calls /\ k.own = j.own /\ k.template = j.template
        /\ k.tenant = j.tenant
    BY <1>7, <1>b, Zenon DEF Job
  <2>2. Refers(k)
    BY <1>8, <2>1, Zenon DEF Refers
  <2> QED
    BY <1>2, <1>9, <1>a, <1>b, <2>1, <2>2, FailKeeps, Zenon
<1>c. ASSUME NEW m, outbox' = outbox \cup {m}, UNCHANGED letters, job' = [job EXCEPT ![w] = NoJob],
             m = [tenant |-> j.tenant, template |-> j.template, raw |-> j.raw,
                  title |-> j.title, body |-> j.body]
      PROVE  OutboundInv'
  <2>1. /\ m.tenant = j.tenant /\ m.template = j.template /\ m.raw = j.raw
        /\ m.title = j.title /\ m.body = j.body
    BY <1>c, Zenon
  <2>2. m.template # NoTemplate =>
          /\ m.template \in 1 .. Len(templates) /\ templates[m.template].tenant = m.tenant
          /\ FromTemplate(m.template, m.title, m.body, m.raw)
    <3>1. Len(templates) \in Nat
      BY Tables, Zenon DEF OutboundInv, TemplateInv
    <3>2. j.template \in 0 .. Len(templates) /\ j.template # NoTemplate
            => j.template \in 1 .. Len(templates)
      BY <3>1 DEF NoTemplate
    <3> QED
      BY <1>8, <2>1, <3>2, Zenon DEF Refers
  <2>3. UNCHANGED <<templates, contents>>
    BY <1>2, Zenon DEF templateVars
  <2>4. OutboxInv'
    BY <1>c, <2>2, <2>3, Zenon DEF OutboundInv, OutboxInv, FromTemplate
  <2>5. LettersInv'
    BY <1>c, <2>3, Zenon DEF OutboundInv, LettersInv, LetterInv
  <2> QED
    BY <1>2, <1>c, <2>4, <2>5, Ends, Zenon
<1>d. ASSUME NEW err, NEW k, k = [j EXCEPT !.hopeless = j.hopeless \/ IsPermanent(j.backend, err)],
             \/ GivesUp(j, err) /\ Fail(w, k, ReasonFor(j, err), FALSE)
             \/ /\ ~GivesUp(j, err) /\ job' = [job EXCEPT ![w] = [k EXCEPT !.stage = "backoff"]]
                /\ UNCHANGED <<outbox, letters>>
      PROVE  OutboundInv'
  <2>1. PICK p \in BOOLEAN : p = IsPermanent(j.backend, err)
    BY Zenon DEF IsPermanent
  <2>2. (j.hopeless \/ IsPermanent(j.backend, err)) = p
    <3>1. j.hopeless \in BOOLEAN
      BY <1>7, Zenon DEF Job
    <3> QED
      BY <1>8, <2>1, <3>1, Zenon
  <2>3. k = [j EXCEPT !.hopeless = p]
    BY <1>d, <2>2, Zenon
  <2>4. /\ k \in Job /\ k.hopeless = p /\ k.calls = n /\ k.attempt = n
        /\ k.own = j.own /\ k.template = j.template
        /\ k.tenant = j.tenant /\ k.raw = j.raw /\ k.title = j.title /\ k.body = j.body
    BY <1>7, <2>3, Zenon DEF Job
  <2>5. Refers(k)
    BY <1>8, <2>4, Zenon DEF Refers
  <2>6. CASE p /\ Fail(w, k, ReasonFor(j, err), FALSE)
    <3>1. ReasonFor(j, err) = "permanent"
      BY <2>1, <2>6, Zenon DEF ReasonFor
    <3> QED
      BY <1>2, <1>7, <1>9, <1>a, <2>4, <2>5, <2>6, <3>1, FailKeeps, Zenon
  <2>7. CASE ~p /\ n >= MaxAttempts /\ Fail(w, k, ReasonFor(j, err), FALSE)
    <3>1. ReasonFor(j, err) = "retries_exhausted"
      BY <2>1, <2>7, Zenon DEF ReasonFor
    <3>2. n = MaxAttempts \/ MaxAttempts = 0
      BY <1>7, <1>9, <2>7, OutboundAssumption
    <3> QED
      BY <1>2, <1>7, <1>9, <1>a, <2>4, <2>5, <2>7, <3>1, <3>2, FailKeeps, Zenon
  <2>8. CASE /\ ~p /\ ~(n >= MaxAttempts) /\ UNCHANGED <<outbox, letters>>
             /\ job' = [job EXCEPT ![w] = [k EXCEPT !.stage = "backoff"]]
    <3>1. PICK r : r = [k EXCEPT !.stage = "backoff"]
      BY Zenon
    <3>2. /\ r \in Job /\ r.stage = "backoff" /\ r.hopeless = p /\ r.calls = n /\ r.attempt = n
          /\ r.own = j.own /\ r.template = j.template
          /\ r.tenant = j.tenant /\ r.raw = j.raw /\ r.title = j.title /\ r.body = j.body
      BY <2>4, <3>1, Zenon DEF Job
    <3>3. Refers(r)
      BY <1>8, <3>2, Zenon DEF Refers
    <3>4. 1 <= n /\ n < MaxAttempts
      BY <1>7, <1>9, <2>8, OutboundAssumption
    <3>5. r.stage # "render" /\ r.stage # "send"
      BY <3>2, Zenon
    <3>6. JobInv(r)
      BY <1>8, <2>8, <3>2, <3>3, <3>4, <3>5, Zenon DEF JobInv
    <3> QED
      BY <1>2, <2>8, <3>1, <3>6, GoesOn, Zenon
  <2>9. GivesUp(j, err) <=> p \/ n >= MaxAttempts
    BY <1>7, <2>1, Zenon DEF GivesUp
  <2> QED
    BY <1>d, <2>6, <2>7, <2>8, <2>9, Zenon
<1> QED
  BY <1>1, <1>5, <1>6, <1>b, <1>c, <1>d, Zenon DEF Send

(* The delay between two calls.                                              *)
LEMMA BackoffKeeps ==
  ASSUME OutboundInv, NEW w \in Workers, Backoff(w)
  PROVE  OutboundInv'
<1>1. PICK j : j = job[w]
  BY Zenon
<1>2. j.stage = "backoff" /\ UNCHANGED templateVars
  BY <1>1, Zenon DEF Backoff
<1>3. JobInv(j)
  <2>1. j # NoJob
    BY <1>2 DEF NoJob
  <2> QED
    BY <1>1, <2>1, Zenon DEF OutboundInv, JobsInv
<1>4. /\ j \in Job /\ Refers(j) /\ ~j.hopeless /\ job \in [Workers -> Job \cup {NoJob}]
      /\ j.attempt = j.calls /\ 1 <= j.attempt /\ j.attempt < MaxAttempts
  BY <1>2, <1>3, Zenon DEF JobInv, OutboundInv, JobsInv
<1>5. j.template # NoTemplate => j.own /\ FromTemplate(j.template, j.title, j.body, j.raw)
  <2>1. j.stage # "render"
    BY <1>2, Zenon
  <2> QED
    BY <1>3, <2>1, Zenon DEF JobInv
<1>6. j.attempt \in Nat /\ j.calls # 0
  <2>1. j.attempt \in Nat
    BY <1>4, Zenon DEF Job
  <2> QED
    BY <1>4, <2>1
<1>7. CASE /\ job' = [job EXCEPT ![w].stage = "send", ![w].attempt = @ + 1]
           /\ UNCHANGED <<outbox, letters>>
  <2>1. PICK n \in Nat : n = j.attempt + 1
    BY <1>6
  <2>2. PICK k : k = [j EXCEPT !.stage = "send", !.attempt = n]
    BY Zenon
  <2>3. job' = [job EXCEPT ![w] = k]
    BY <1>1, <1>4, <1>7, <2>1, <2>2, Zenon
  <2>4. /\ k \in Job /\ k.stage = "send" /\ k.attempt = n /\ k.calls = j.calls
        /\ k.hopeless = j.hopeless /\ k.own = j.own /\ k.template = j.template
        /\ k.tenant = j.tenant /\ k.raw = j.raw /\ k.title = j.title /\ k.body = j.body
    BY <1>4, <2>2, Zenon DEF Job
  <2>5. n = k.calls + 1 /\ n <= MaxAttempts
    BY <1>4, <1>6, <2>1, <2>4, OutboundAssumption
  <2>6. Refers(k)
    BY <1>4, <2>4, Zenon DEF Refers
  <2>7. k.stage # "render" /\ k.stage # "backoff"
    BY <2>4, Zenon
  <2>8. JobInv(k)
    BY <1>4, <1>5, <2>4, <2>5, <2>6, <2>7, Zenon DEF JobInv
  <2> QED
    BY <1>2, <1>7, <2>3, <2>8, GoesOn, Zenon
<1>8. CASE Fail(w, j, "retries_exhausted", TRUE)
  <2>1. "permanent" # "retries_exhausted" /\ "retries_exhausted" # "template_render"
    BY Zenon
  <2> QED
    BY <1>2, <1>4, <1>6, <1>8, <2>1, FailKeeps, Zenon
<1> QED
  BY <1>1, <1>7, <1>8, Zenon DEF Backoff

-----------------------------------------------------------------------------
(* The whole. *)

(* OutboundInv holds initially.                                              *)
LEMMA OutboundStart == OutboundInit => OutboundInv
<1> SUFFICES ASSUME OutboundInit PROVE OutboundInv
  BY Zenon
<1>1. /\ templates = <<>> /\ contents = <<>> /\ writes = <<>>
      /\ update = [e \in Editors |-> NoUpdate] /\ job = [w \in Workers |-> NoJob]
      /\ outbox = {} /\ letters = {}
  BY Zenon DEF OutboundInit, TemplatesInit
<1>2. TableTypes
  BY <1>1 DEF TableTypes
<1>3. RowInv
  BY <1>1 DEF RowInv
<1>4. UpdateInv
  BY <1>1, Zenon DEF UpdateInv
<1>5. JobsInv
  BY <1>1, Zenon DEF JobsInv
<1> QED
  BY <1>1, <1>2, <1>3, <1>4, <1>5, Zenon DEF OutboundInv, TemplateInv, OutboxInv, LettersInv

(* Every step keeps OutboundInv.                                             *)
LEMMA OutboundStep == OutboundInv /\ [OutboundNext]_outboundVars => OutboundInv'
<1> SUFFICES ASSUME OutboundInv, [OutboundNext]_outboundVars PROVE OutboundInv'
  BY Zenon
<1>1. CASE UNCHANGED outboundVars
  <2>1. UNCHANGED <<templates, contents, writes, update, job, outbox, letters>>
    BY <1>1, Zenon DEF outboundVars, templateVars
  <2>2. TemplateInv' /\ OutboxInv' /\ LettersInv'
    BY <2>1, Zenon DEF OutboundInv, TemplateInv, TableTypes, RowInv, UpdateInv, OutboxInv,
                       FromTemplate, LettersInv, LetterInv
  <2>3. JobsInv'
    BY <2>1, Zenon DEF OutboundInv, JobsInv, JobInv, Refers, FromTemplate
  <2> QED
    BY <2>2, <2>3, Zenon DEF OutboundInv
<1>2. CASE OutboundNext
  BY <1>2, EditsKeep, DeliverKeeps, RenderKeeps, SendKeeps, BackoffKeeps, Zenon
  DEF OutboundNext, WorkerStep
<1> QED
  BY <1>1, <1>2, Zenon

(* However updates of a template overlap, its version counts those that were *)
(* answered with success, so that no two are answered with one version       *)
(* (UpdateTemplate).                                                         *)
THEOREM VersionsCount == OutboundSpec => []VersionCountsUpdates
<1>1. OutboundInv => VersionCountsUpdates
  <2>1. OutboundInv => DOMAIN templates = 1 .. Len(templates)
    BY Tables, Zenon DEF OutboundInv, TemplateInv
  <2> QED
    BY <2>1, Zenon DEF OutboundInv, TemplateInv, RowInv, VersionCountsUpdates
<1> QED
  BY <1>1, OutboundStart, OutboundStep, PTL DEF OutboundSpec

\* What UpdateLeavesRest says of one step.
AllLeaveRest ==
  \A e \in Editors : \A f \in Fields :
    LET u == update[e] IN
    u # NoUpdate /\ update'[e] = NoUpdate /\ ~u.stale /\ f \notin DOMAIN u.req
      => templates'[u.id][f] = templates[u.id][f]

(* An update that was not overtaken between its SELECT and its UPDATE leaves *)
(* every field that its request does not name as it is (Update).             *)
THEOREM UpdatesLeaveRest == OutboundSpec => UpdateLeavesRest
<1>1. OutboundInv /\ [OutboundNext]_outboundVars => [AllLeaveRest]_templateVars
  <2> SUFFICES ASSUME OutboundInv, [OutboundNext]_outboundVars, ~UNCHANGED templateVars
               PROVE  AllLeaveRest
    BY Zenon
  <2>1. TemplateStep
    BY Zenon DEF OutboundNext, outboundVars, WorkerStep, Render, Send, Backoff, Deliver
  <2>2. \A e \in Editors : LeavesRest(e)
    BY <2>1, TemplatesKeep, Zenon DEF OutboundInv
  <2> QED
    BY <2>2, Zenon DEF LeavesRest, AllLeaveRest
<1> QED
  BY <1>1, OutboundStart, OutboundStep, PTL DEF OutboundSpec, UpdateLeavesRest, AllLeaveRest

(* What a provider accepts for a templated notification is the rendering of  *)
(* a subject and a body that its own tenant's template had together          *)
(* (Render, extractContent).                                                 *)
THEOREM SendsAreTemplates == OutboundSpec => []SentIsTemplate
<1>1. OutboundInv => SentIsTemplate
  BY Zenon DEF OutboundInv, OutboxInv, FromTemplate, SentIsTemplate
<1> QED
  BY <1>1, OutboundStart, OutboundStep, PTL DEF OutboundSpec

(* A dead letter gives the reason for which the run failed (deliver,         *)
(* sendWithRetry, Render).                                                   *)
THEOREM ReasonsAreTrue == OutboundSpec => []ReasonIsTrue
<1>1. OutboundInv => ReasonIsTrue
  BY Zenon DEF OutboundInv, LettersInv, LetterInv, ReasonIsTrue
<1> QED
  BY <1>1, OutboundStart, OutboundStep, PTL DEF OutboundSpec
=============================================================================
