-------------------------- MODULE MemoryStoreProofs --------------------------
(***************************************************************************)
(* Theorems of MemoryStore for every set of scopes, sources, contents and  *)
(* models, and every number of records and restarts.                       *)
(*                                                                         *)
(* What the connection sees (db) and what was last committed (disk) go     *)
(* through the same few changes: a row is inserted, the rows of a document *)
(* are retired, vectors are made anew.  The invariant is one of tables,    *)
(* and says of every table that any of these leaves what it says of db and *)
(* disk.                                                                   *)
(***************************************************************************)
EXTENDS MemoryStore, FiniteSetTheorems, FunctionTheorems, TLAPS

RowKinds == {"fact", "policy", "audit", "document_chunk"}
RowStatuses == {"current", "superseded"}

Rows == [kind : RowKinds, scope : Scopes, status : RowStatuses,
         doc : [source : Sources \cup {"none"}, version : Nat],
         supersedes : Nat, about : Nat, model : Models]

Versioned == [scope : Scopes, source : Sources, version : Nat, content : Contents,
              state : {"active", "superseded"}]

(* Tables whose ids are among the first n.                                 *)
IsTable(t, n) ==
  /\ t = [records |-> t.records, documents |-> t.documents]
  /\ Ids(t) \subseteq 1 .. n
  /\ t.records = [i \in Ids(t) |-> t.records[i]]
  /\ \A i \in Ids(t) : t.records[i] \in Rows
  /\ t.documents \subseteq Versioned

(* What a record supersedes is earlier, alike and marked; no two supersede *)
(* the same; and of those without a document only these are marked.        *)
Chains(t) ==
  /\ \A j \in Ids(t) :
       LET i == t.records[j].supersedes
       IN i # 0 => /\ i \in Ids(t) /\ i < j
                   /\ t.records[i].kind = t.records[j].kind
                   /\ t.records[i].scope = t.records[j].scope
                   /\ t.records[i].status = "superseded"
  /\ \A j, k \in Ids(t) :
       t.records[j].supersedes = t.records[k].supersedes /\ t.records[j].supersedes # 0 => j = k
  /\ \A i \in Ids(t) : t.records[i].doc = NoDoc /\ t.records[i].status = "superseded" =>
       \E j \in Ids(t) : t.records[j].supersedes = i

(* Each of the ids has its audit record in the table.                      *)
Audited(t, ids) ==
  \A i \in ids :
    /\ i \in Ids(t)
    /\ t.records[i].kind # "audit" => \E a \in Ids(t) : IsAuditOf(a, i, t)

ChunksOf(t, s, u) ==
  {i \in Current(t) : /\ t.records[i].kind = "document_chunk"
                      /\ t.records[i].scope = s /\ t.records[i].doc.source = u}

(* Document (s, u) was ingested n times; the chunks that are current, and  *)
(* the version that is active, are those of the last.                      *)
Numbered(t, s, u, n) ==
  /\ {d.version : d \in Versions(t, s, u)} = 1 .. n
  /\ \A d, e \in Versions(t, s, u) : d.version = e.version => d = e
  /\ \A d \in Versions(t, s, u) : d.state = "active" <=> d.version = n
  /\ {t.records[i].doc.version : i \in ChunksOf(t, s, u)} = (IF n = 0 THEN {} ELSE {n})

Documented(t) == \A s \in Scopes, u \in Sources : \E n \in Nat : Numbered(t, s, u, n)

TableInv(t, n, ids) == IsTable(t, n) /\ Chains(t) /\ Audited(t, ids) /\ Documented(t)

MemInv ==
  /\ used \in Nat /\ embedder \in Models
  /\ TableInv(db, used, returned) /\ TableInv(disk, used, returned)

-----------------------------------------------------------------------------
(* Inserting a row.                                                        *)

(* A row that supersedes nothing, or a current one before it that is alike.*)
Insertable(t, row) ==
  /\ row \in Rows /\ row.status = "current"
  /\ row.supersedes # 0 =>
       /\ row.supersedes \in Ids(t)
       /\ t.records[row.supersedes].kind = row.kind
       /\ t.records[row.supersedes].scope = row.scope
       /\ t.records[row.supersedes].status = "current"

(* i is in q what it was in t, but for its status and its vector.          *)
SameRow(t, q, i) ==
  /\ q.records[i].kind = t.records[i].kind /\ q.records[i].scope = t.records[i].scope
  /\ q.records[i].doc = t.records[i].doc
  /\ q.records[i].supersedes = t.records[i].supersedes
  /\ q.records[i].about = t.records[i].about

LEMMA Inserted ==
  ASSUME NEW n \in Nat, NEW t, IsTable(t, n), NEW row, Insertable(t, row)
  PROVE  LET q == Insert(t, n + 1, row)
         IN /\ IsTable(q, n + 1) /\ q.documents = t.documents
            /\ Ids(q) = Ids(t) \cup {n + 1} /\ n + 1 \notin Ids(t)
            /\ q.records[n + 1] = row
            /\ \A i \in Ids(t) :
                 /\ SameRow(t, q, i)
                 /\ q.records[i].status =
                      IF i = row.supersedes THEN "superseded" ELSE t.records[i].status
<1> DEFINE q == Insert(t, n + 1, row)
           After(i) == IF i = n + 1 THEN row
                       ELSE IF i = row.supersedes THEN [t.records[i] EXCEPT !.status = "superseded"]
                       ELSE t.records[i]
<1>1. q = [records |-> [i \in Ids(t) \cup {n + 1} |-> After(i)], documents |-> t.documents]
  <2>1. \A X : [t EXCEPT !.records = X] = [records |-> X, documents |-> t.documents]
    <3>1. PICK f, D : t = [records |-> f, documents |-> D]
      BY DEF IsTable
    <3>2. QED
      BY <3>1
  <2>2. QED
    BY <2>1, Zenon DEF Insert
<1>2. /\ Ids(q) = Ids(t) \cup {n + 1} /\ q.documents = t.documents
      /\ q.records = [i \in Ids(t) \cup {n + 1} |-> After(i)]
  BY <1>1 DEF Ids
<1>3. n + 1 \notin Ids(t)
  BY DEF IsTable
<1>4. q.records[n + 1] = row
  BY <1>2
<1>5. ASSUME NEW i \in Ids(t)
      PROVE  /\ q.records[i] \in Rows
             /\ SameRow(t, q, i)
             /\ q.records[i].status =
                  IF i = row.supersedes THEN "superseded" ELSE t.records[i].status
  <2>1. t.records[i] \in Rows /\ q.records[i] = After(i) /\ i # n + 1
    BY <1>2, <1>3 DEF IsTable
  <2>2. CASE i = row.supersedes
    BY <2>1, <2>2 DEF SameRow, Rows, RowStatuses
  <2>3. CASE i # row.supersedes
    BY <2>1, <2>3 DEF SameRow
  <2>4. QED
    BY <2>2, <2>3
<1>6. IsTable(q, n + 1)
  <2>1. Ids(q) \subseteq 1 .. n + 1
    BY <1>2 DEF IsTable
  <2>2. \A i \in Ids(q) : q.records[i] \in Rows
    BY <1>2, <1>4, <1>5 DEF Insertable
  <2>3. q.records = [i \in Ids(q) |-> q.records[i]] /\ q = [records |-> q.records, documents |-> q.documents]
    BY <1>1, <1>2
  <2>4. QED
    BY <1>2, <2>1, <2>2, <2>3 DEF IsTable
<1>7. QED
  BY <1>2, <1>3, <1>4, <1>5, <1>6

(* It keeps the chains.                                                    *)
LEMMA InsertKeepsChains ==
  ASSUME NEW n \in Nat, NEW t, IsTable(t, n), Chains(t), NEW row, Insertable(t, row)
  PROVE  Chains(Insert(t, n + 1, row))
<1> DEFINE q == Insert(t, n + 1, row)
<1>1. /\ Ids(q) = Ids(t) \cup {n + 1} /\ n + 1 \notin Ids(t)
      /\ q.records[n + 1] = row
      /\ \A i \in Ids(t) :
           /\ SameRow(t, q, i)
           /\ q.records[i].status =
                IF i = row.supersedes THEN "superseded" ELSE t.records[i].status
  BY Inserted
<1>2. \A i \in Ids(t) : i \in Nat /\ i < n + 1
  BY DEF IsTable
<1> HIDE DEF q
<1>3. ASSUME NEW j \in Ids(q), q.records[j].supersedes # 0
      PROVE  LET i == q.records[j].supersedes
             IN /\ i \in Ids(q) /\ i < j
                /\ q.records[i].kind = q.records[j].kind
                /\ q.records[i].scope = q.records[j].scope
                /\ q.records[i].status = "superseded"
  <2>1. CASE j = n + 1
    BY <1>1, <1>2, <1>3, <2>1 DEF Insertable, SameRow
  <2>2. CASE j \in Ids(t)
    <3>1. q.records[j].supersedes = t.records[j].supersedes
      BY <1>1, <2>2 DEF SameRow
    <3>2. LET i == t.records[j].supersedes
          IN /\ i \in Ids(t) /\ i < j
             /\ t.records[i].kind = t.records[j].kind
             /\ t.records[i].scope = t.records[j].scope
             /\ t.records[i].status = "superseded"
      BY <1>3, <2>2, <3>1 DEF Chains
    <3>3. QED
      BY <1>1, <2>2, <3>1, <3>2 DEF SameRow
  <2>3. QED
    BY <1>1, <2>1, <2>2
<1>4. ASSUME NEW j \in Ids(q), NEW k \in Ids(q),
             q.records[j].supersedes = q.records[k].supersedes, q.records[j].supersedes # 0
      PROVE  j = k
  <2>1. \A i \in Ids(t) : q.records[i].supersedes = t.records[i].supersedes
    BY <1>1 DEF SameRow
  <2>2. \A i \in Ids(t) : q.records[i].supersedes # 0 => q.records[i].supersedes # row.supersedes
    <3>1. TAKE i \in Ids(t)
    <3>2. HAVE q.records[i].supersedes # 0
    <3>3. t.records[t.records[i].supersedes].status = "superseded"
      BY <2>1, <3>2 DEF Chains
    <3>4. QED
      BY <2>1, <3>2, <3>3 DEF Insertable
  <2>3. CASE j \in Ids(t) /\ k \in Ids(t)
    BY <1>4, <2>1, <2>3 DEF Chains
  <2>4. CASE j = n + 1 \/ k = n + 1
    BY <1>1, <1>4, <2>2, <2>4
  <2>5. QED
    BY <1>1, <2>3, <2>4
<1>5. ASSUME NEW i \in Ids(q), q.records[i].doc = NoDoc, q.records[i].status = "superseded"
      PROVE  \E j \in Ids(q) : q.records[j].supersedes = i
  <2>1. i \in Ids(t)
    BY <1>1, <1>5 DEF Insertable
  <2>2. CASE i = row.supersedes
    BY <1>1, <2>2
  <2>3. CASE i # row.supersedes
    <3>1. t.records[i].doc = NoDoc /\ t.records[i].status = "superseded"
      BY <1>1, <1>5, <2>1, <2>3 DEF SameRow
    <3>2. PICK j \in Ids(t) : t.records[j].supersedes = i
      BY <2>1, <3>1 DEF Chains
    <3>3. QED
      BY <1>1, <3>2 DEF SameRow
  <2>4. QED
    BY <2>2, <2>3
<1>6. QED
  BY <1>3, <1>4, <1>5 DEF Chains, q

(* It keeps every audit record.                                            *)
LEMMA InsertKeepsAudits ==
  ASSUME NEW n \in Nat, NEW t, IsTable(t, n), NEW ids, Audited(t, ids),
         NEW row, Insertable(t, row)
  PROVE  Audited(Insert(t, n + 1, row), ids)
<1> DEFINE q == Insert(t, n + 1, row)
<1>1. Ids(q) = Ids(t) \cup {n + 1} /\ \A i \in Ids(t) : SameRow(t, q, i)
  BY Inserted
<1> HIDE DEF q
<1>2. QED
  BY <1>1 DEF Audited, IsAuditOf, SameRow, q

(* A row that is no chunk leaves the documents as they are.                *)
LEMMA InsertKeepsDocuments ==
  ASSUME NEW n \in Nat, NEW t, IsTable(t, n), NEW row, Insertable(t, row),
         row.kind # "document_chunk", NEW s, NEW u, NEW m, Numbered(t, s, u, m)
  PROVE  Numbered(Insert(t, n + 1, row), s, u, m)
<1> DEFINE q == Insert(t, n + 1, row)
<1>1. /\ q.documents = t.documents
      /\ Ids(q) = Ids(t) \cup {n + 1} /\ n + 1 \notin Ids(t)
      /\ q.records[n + 1] = row
      /\ \A i \in Ids(t) :
           /\ SameRow(t, q, i)
           /\ q.records[i].status =
                IF i = row.supersedes THEN "superseded" ELSE t.records[i].status
  BY Inserted
<1> HIDE DEF q
<1>2. Versions(q, s, u) = Versions(t, s, u)
  BY <1>1 DEF Versions
<1>3. ChunksOf(q, s, u) = ChunksOf(t, s, u)
  <2>1. ASSUME NEW i \in Ids(t), t.records[i].kind = "document_chunk"
        PROVE  q.records[i].status = t.records[i].status
    BY <1>1, <2>1 DEF Insertable, IsTable, Rows
  <2>2. QED
    BY <1>1, <2>1 DEF ChunksOf, Current, SameRow
<1>4. \A i \in ChunksOf(t, s, u) : q.records[i].doc = t.records[i].doc
  BY <1>1 DEF ChunksOf, Current, SameRow
<1>5. QED
  BY <1>2, <1>3, <1>4 DEF Numbered, q

(* So does a table keep the whole invariant.                               *)
LEMMA InsertKeepsTable ==
  ASSUME NEW n \in Nat, NEW t, NEW ids, TableInv(t, n, ids),
         NEW row, Insertable(t, row), row.kind # "document_chunk"
  PROVE  TableInv(Insert(t, n + 1, row), n + 1, ids)
<1>1. IsTable(t, n) /\ Chains(t) /\ Audited(t, ids) /\ Documented(t)
  BY DEF TableInv
<1>2. IsTable(Insert(t, n + 1, row), n + 1)
  BY <1>1, Inserted
<1>3. Chains(Insert(t, n + 1, row))
  BY <1>1, InsertKeepsChains
<1>4. Audited(Insert(t, n + 1, row), ids)
  BY <1>1, InsertKeepsAudits
<1>5. Documented(Insert(t, n + 1, row))
  <2>1. SUFFICES ASSUME NEW s \in Scopes, NEW u \in Sources
                 PROVE  \E m \in Nat : Numbered(Insert(t, n + 1, row), s, u, m)
    BY DEF Documented
  <2>2. PICK m \in Nat : Numbered(t, s, u, m)
    BY <1>1 DEF Documented
  <2>3. QED
    BY <1>1, <2>2, InsertKeepsDocuments
<1>6. QED
  BY <1>2, <1>3, <1>4, <1>5 DEF TableInv

(* A record and then its audit record: the two ids of a write.             *)
LEMMA AuditAdded ==
  ASSUME NEW n \in Nat, NEW t, NEW ids, TableInv(t, n, ids), embedder \in Models,
         NEW id \in Ids(t), NEW doc \in [source : Sources \cup {"none"}, version : Nat]
  PROVE  LET audit == Row("audit", t.records[id].scope, doc, 0, id)
         IN TableInv(Insert(t, n + 1, audit), n + 1, ids \cup {id})
<1> DEFINE audit == Row("audit", t.records[id].scope, doc, 0, id)
           q == Insert(t, n + 1, audit)
<1>1. IsTable(t, n) /\ id \in Nat /\ t.records[id].scope \in Scopes
  BY DEF TableInv, IsTable, Rows
<1>2. Insertable(t, audit) /\ audit.kind = "audit"
  BY <1>1 DEF Insertable, Row, Rows, RowKinds, RowStatuses
<1>3. TableInv(q, n + 1, ids)
  BY <1>2, InsertKeepsTable
<1>4. /\ Ids(q) = Ids(t) \cup {n + 1} /\ q.records[n + 1] = audit
      /\ SameRow(t, q, id)
  BY <1>1, <1>2, Inserted
<1>5. IsAuditOf(n + 1, id, q)
  BY <1>4 DEF IsAuditOf, SameRow, Row
<1>6. Audited(q, ids \cup {id})
  BY <1>3, <1>4, <1>5 DEF TableInv, Audited
<1>7. QED
  BY <1>3, <1>6 DEF TableInv

LEMMA MoreIds ==
  ASSUME NEW n \in Nat, NEW m \in Nat, n <= m, NEW t, NEW ids, TableInv(t, n, ids)
  PROVE  TableInv(t, m, ids)
BY DEF TableInv, IsTable

-----------------------------------------------------------------------------
(* Making vectors anew.                                                    *)

LEMMA SameRowsSameTable ==
  ASSUME NEW n \in Nat, NEW t, NEW q, NEW ids, TableInv(t, n, ids), IsTable(q, n),
         Ids(q) = Ids(t), q.documents = t.documents,
         \A i \in Ids(t) : SameRow(t, q, i) /\ q.records[i].status = t.records[i].status
  PROVE  TableInv(q, n, ids)
<1>1. Chains(t) /\ Audited(t, ids) /\ Documented(t)
  BY DEF TableInv
<1>2. Chains(q)
  BY <1>1 DEF Chains, SameRow
<1>3. Audited(q, ids)
  BY <1>1 DEF Audited, IsAuditOf, SameRow
<1>4. ASSUME NEW s, NEW u, NEW m, Numbered(t, s, u, m)
      PROVE  Numbered(q, s, u, m)
  <2>1. Versions(q, s, u) = Versions(t, s, u)
    BY DEF Versions
  <2>2. ChunksOf(q, s, u) = ChunksOf(t, s, u)
    BY DEF ChunksOf, Current, SameRow
  <2>3. \A i \in ChunksOf(t, s, u) : q.records[i].doc = t.records[i].doc
    BY DEF ChunksOf, Current, SameRow
  <2>4. QED
    BY <1>4, <2>1, <2>2, <2>3 DEF Numbered
<1>5. Documented(q)
  BY <1>1, <1>4 DEF Documented
<1>6. QED
  BY <1>2, <1>3, <1>5 DEF TableInv

LEMMA ReembeddedTable ==
  ASSUME NEW n \in Nat, NEW ids, TableInv(db, n, ids), embedder \in Models, NEW S
  PROVE  TableInv(Reembedded(S), n, ids)
<1> DEFINE q == Reembedded(S)
           After(i) == IF i \in S THEN [db.records[i] EXCEPT !.model = embedder]
                       ELSE db.records[i]
<1>1. IsTable(db, n)
  BY DEF TableInv
<1>2. q = [records |-> [i \in Ids(db) |-> After(i)], documents |-> db.documents]
  <2>1. PICK f, D : db = [records |-> f, documents |-> D]
    BY <1>1 DEF IsTable
  <2>2. QED
    BY <2>1 DEF Reembedded, Ids
<1>3. /\ Ids(q) = Ids(db) /\ q.documents = db.documents
      /\ q.records = [i \in Ids(db) |-> After(i)]
  BY <1>2 DEF Ids
<1>4. ASSUME NEW i \in Ids(db)
      PROVE  /\ q.records[i] \in Rows /\ SameRow(db, q, i)
             /\ q.records[i].status = db.records[i].status
  <2>1. db.records[i] \in Rows /\ q.records[i] = After(i)
    BY <1>1, <1>3 DEF IsTable
  <2>2. CASE i \in S
    BY <2>1, <2>2 DEF SameRow, Rows
  <2>3. CASE i \notin S
    BY <2>1, <2>3 DEF SameRow
  <2>4. QED
    BY <2>2, <2>3
<1>5. q.records = [i \in Ids(q) |-> q.records[i]] /\ q = [records |-> q.records, documents |-> q.documents]
  BY <1>2, <1>3
<1>6. IsTable(q, n)
  BY <1>1, <1>3, <1>4, <1>5 DEF IsTable
<1>7. QED
  BY <1>3, <1>4, <1>6, SameRowsSameTable

-----------------------------------------------------------------------------
(* Ingesting a version.                                                    *)

LEMMA Retired ==
  ASSUME NEW n \in Nat, IsTable(db, n), NEW s, NEW u
  PROVE  LET q == Retire(s, u)
         IN /\ IsTable(q, n) /\ Ids(q) = Ids(db)
            /\ \A i \in Ids(db) :
                 /\ SameRow(db, q, i)
                 /\ q.records[i].status =
                      IF db.records[i].scope = s /\ db.records[i].doc.source = u
                      THEN "superseded" ELSE db.records[i].status
            /\ q.documents = {IF d \in Active(db, s, u) THEN [d EXCEPT !.state = "superseded"] ELSE d :
                                d \in db.documents}
<1> DEFINE q == Retire(s, u)
           Theirs(i) == db.records[i].scope = s /\ db.records[i].doc.source = u
           After(i) == IF Theirs(i) THEN [db.records[i] EXCEPT !.status = "superseded"]
                       ELSE db.records[i]
           D == {IF d \in Active(db, s, u) THEN [d EXCEPT !.state = "superseded"] ELSE d :
                   d \in db.documents}
<1>1. q = [records |-> [i \in Ids(db) |-> After(i)], documents |-> D]
  BY DEF Retire
<1>2. Ids(q) = Ids(db) /\ q.documents = D /\ q.records = [i \in Ids(db) |-> After(i)]
  BY <1>1 DEF Ids
<1>3. ASSUME NEW i \in Ids(db)
      PROVE  /\ q.records[i] \in Rows /\ SameRow(db, q, i)
             /\ q.records[i].status = IF Theirs(i) THEN "superseded" ELSE db.records[i].status
  <2>1. db.records[i] \in Rows /\ q.records[i] = After(i)
    BY <1>2 DEF IsTable
  <2>2. CASE Theirs(i)
    BY <2>1, <2>2 DEF SameRow, Rows, RowStatuses
  <2>3. CASE ~ Theirs(i)
    BY <2>1, <2>3 DEF SameRow
  <2>4. QED
    BY <2>2, <2>3
<1>4. D \subseteq Versioned
  BY DEF IsTable, Versioned, Active, Versions
<1>5. q.records = [i \in Ids(q) |-> q.records[i]] /\ q = [records |-> q.records, documents |-> q.documents]
  BY <1>1, <1>2
<1>6. IsTable(q, n)
  BY <1>2, <1>3, <1>4, <1>5 DEF IsTable
<1>7. QED
  BY <1>2, <1>3, <1>6

(* The number of the next version is one more than the ingestions before.  *)
LEMMA NextNumber ==
  ASSUME NEW s, NEW u, NEW m \in Nat, Numbered(db, s, u, m), db.documents \subseteq Versioned
  PROVE  NextVersion(s, u) = m + 1
<1>1. CASE Active(db, s, u) = {}
  <2>1. m = 0
    <3>1. SUFFICES ASSUME m # 0 PROVE FALSE
      OBVIOUS
    <3>2. m \in {d.version : d \in Versions(db, s, u)}
      BY <3>1 DEF Numbered
    <3>3. PICK d \in Versions(db, s, u) : d.version = m
      BY <3>2
    <3>4. QED
      BY <1>1, <3>3 DEF Numbered, Active
  <2>2. QED
    BY <1>1, <2>1 DEF NextVersion
<1>2. CASE Active(db, s, u) # {}
  <2>1. \A d \in Active(db, s, u) : d.version = m
    BY DEF Numbered, Active
  <2>2. (CHOOSE d \in Active(db, s, u) : TRUE) \in Active(db, s, u)
    BY <1>2
  <2>3. QED
    BY <1>2, <2>1, <2>2 DEF NextVersion
<1>3. QED
  BY <1>1, <1>2

(* The table when the new version is entered and before its chunk is.      *)
NewVersion(s, u, c) ==
  [Retire(s, u) EXCEPT !.documents = @ \cup
    {[scope |-> s, source |-> u, version |-> NextVersion(s, u), content |-> c, state |-> "active"]}]

Chunk(s, u) == Row("document_chunk", s, Document(u, NextVersion(s, u)), 0, 0)

LEMMA VersionEntered ==
  ASSUME NEW n \in Nat, NEW ids, TableInv(db, n, ids),
         NEW s \in Scopes, NEW u \in Sources, NEW c \in Contents
  PROVE  LET q == NewVersion(s, u, c)
             v == NextVersion(s, u)
         IN /\ v \in Nat \ {0}
            /\ IsTable(q, n) /\ Chains(q) /\ Audited(q, ids)
            /\ \A s2 \in Scopes, u2 \in Sources, m \in Nat :
                 <<s2, u2>> # <<s, u>> /\ Numbered(db, s2, u2, m) => Numbered(q, s2, u2, m)
            /\ {d.version : d \in Versions(q, s, u)} = 1 .. v
            /\ \A d, e \in Versions(q, s, u) : d.version = e.version => d = e
            /\ \A d \in Versions(q, s, u) : d.state = "active" <=> d.version = v
            /\ ChunksOf(q, s, u) = {}
<1> DEFINE q == NewVersion(s, u, c)
           v == NextVersion(s, u)
           new == [scope |-> s, source |-> u, version |-> v, content |-> c, state |-> "active"]
           Old(d) == IF d \in Active(db, s, u) THEN [d EXCEPT !.state = "superseded"] ELSE d
<1>1. /\ IsTable(db, n) /\ Chains(db) /\ Audited(db, ids) /\ Documented(db)
      /\ db.documents \subseteq Versioned
  BY DEF TableInv, IsTable
<1>2. PICK m \in Nat : Numbered(db, s, u, m)
  BY <1>1 DEF Documented
<1>3. v = m + 1
  BY <1>1, <1>2, NextNumber
<1>4. /\ IsTable(Retire(s, u), n) /\ Ids(Retire(s, u)) = Ids(db)
      /\ Retire(s, u).documents = {Old(d) : d \in db.documents}
      /\ \A i \in Ids(db) :
           /\ SameRow(db, Retire(s, u), i)
           /\ Retire(s, u).records[i].status =
                IF db.records[i].scope = s /\ db.records[i].doc.source = u
                THEN "superseded" ELSE db.records[i].status
  BY <1>1, Retired
<1>5. /\ q = [records |-> Retire(s, u).records, documents |-> Retire(s, u).documents \cup {new}]
      /\ Ids(q) = Ids(db)
      /\ q.documents = {Old(d) : d \in db.documents} \cup {new}
      /\ \A i \in Ids(db) :
           /\ SameRow(db, q, i)
           /\ q.records[i].status =
                IF db.records[i].scope = s /\ db.records[i].doc.source = u
                THEN "superseded" ELSE db.records[i].status
  <2>1. PICK f, D : Retire(s, u) = [records |-> f, documents |-> D]
    BY <1>4 DEF IsTable
  <2>2. q = [records |-> f, documents |-> D \cup {new}]
    BY <2>1 DEF NewVersion
  <2>3. f = Retire(s, u).records /\ D = Retire(s, u).documents /\ q.records = Retire(s, u).records
    BY <2>1, <2>2
  <2>4. QED
    BY <1>4, <2>2, <2>3 DEF Ids, SameRow
<1>6. IsTable(q, n)
  <2>1. new \in Versioned
    BY <1>3 DEF Versioned
  <2>2. q.documents \subseteq Versioned
    BY <1>4, <1>5, <2>1 DEF IsTable
  <2>3. q.records = Retire(s, u).records /\ q = [records |-> q.records, documents |-> q.documents]
    BY <1>5
  <2>4. QED
    BY <1>4, <1>5, <2>2, <2>3 DEF IsTable
<1> HIDE DEF q, v
<1>7. Chains(q)
  <2>1. \A i \in Ids(db) : db.records[i].status = "superseded" => q.records[i].status = "superseded"
    BY <1>5
  <2>2. \A i \in Ids(db) : q.records[i].doc = NoDoc => q.records[i].status = db.records[i].status
    BY <1>5, MemoryAssumption DEF SameRow, NoDoc
  <2>3. ASSUME NEW j \in Ids(q), q.records[j].supersedes # 0
        PROVE  LET i == q.records[j].supersedes
               IN /\ i \in Ids(q) /\ i < j
                  /\ q.records[i].kind = q.records[j].kind
                  /\ q.records[i].scope = q.records[j].scope
                  /\ q.records[i].status = "superseded"
    BY <1>1, <1>5, <2>1, <2>3 DEF Chains, SameRow
  <2>4. \A j, k \in Ids(q) :
          q.records[j].supersedes = q.records[k].supersedes /\ q.records[j].supersedes # 0 => j = k
    BY <1>1, <1>5 DEF Chains, SameRow
  <2>5. \A i \in Ids(q) : q.records[i].doc = NoDoc /\ q.records[i].status = "superseded" =>
          \E j \in Ids(q) : q.records[j].supersedes = i
    BY <1>1, <1>5, <2>2 DEF Chains, SameRow
  <2>6. QED
    BY <2>3, <2>4, <2>5 DEF Chains
<1>8. Audited(q, ids)
  <2>1. SUFFICES ASSUME NEW i \in ids
                 PROVE  /\ i \in Ids(q)
                        /\ q.records[i].kind # "audit" => \E a \in Ids(q) : IsAuditOf(a, i, q)
    BY DEF Audited
  <2>2. i \in Ids(db) /\ q.records[i].kind = db.records[i].kind
    BY <1>1, <1>5 DEF Audited, SameRow
  <2>3. \A a \in Ids(db) : IsAuditOf(a, i, db) => IsAuditOf(a, i, q)
    BY <1>5, <2>2 DEF IsAuditOf, SameRow
  <2>4. QED
    BY <1>1, <1>5, <2>2, <2>3 DEF Audited
<1>9. ASSUME NEW s2 \in Scopes, NEW u2 \in Sources, NEW k \in Nat,
             <<s2, u2>> # <<s, u>>, Numbered(db, s2, u2, k)
      PROVE  Numbered(q, s2, u2, k)
  <2>1. Versions(q, s2, u2) = Versions(db, s2, u2)
    BY <1>1, <1>5, <1>9 DEF Versions, Active, Versioned
  <2>2. ChunksOf(q, s2, u2) = ChunksOf(db, s2, u2)
    BY <1>5, <1>9 DEF ChunksOf, Current, SameRow
  <2>3. \A i \in ChunksOf(db, s2, u2) : q.records[i].doc = db.records[i].doc
    BY <1>5 DEF ChunksOf, Current, SameRow
  <2>4. QED
    BY <1>9, <2>1, <2>2, <2>3 DEF Numbered
<1>10. Versions(q, s, u) = {Old(d) : d \in Versions(db, s, u)} \cup {new}
  BY <1>1, <1>5 DEF Versions, Active, Versioned
<1>11. \A d \in Versions(db, s, u) :
         /\ Old(d).version = d.version /\ d.version \in 1 .. m /\ Old(d).state = "superseded"
         /\ d \in Versioned
  <2>1. TAKE d \in Versions(db, s, u)
  <2>2. d \in Versioned /\ d.version \in 1 .. m
    BY <1>1, <1>2 DEF Versions, Numbered
  <2>3. CASE d \in Active(db, s, u)
    BY <2>2, <2>3 DEF Versioned
  <2>4. CASE d \notin Active(db, s, u)
    BY <2>2, <2>4 DEF Versioned, Active
  <2>5. QED
    BY <2>2, <2>3, <2>4
<1>12. new.version = v /\ new.state = "active"
  OBVIOUS
<1>13. \A d \in Versions(q, s, u) :
         d = new \/ \E d0 \in Versions(db, s, u) : d = Old(d0)
  BY <1>10
<1>14. new \in Versions(q, s, u) /\ \A d \in Versions(db, s, u) : Old(d) \in Versions(q, s, u)
  BY <1>10
<1> HIDE DEF Old, new
<1>15. {d.version : d \in Versions(q, s, u)} = 1 .. v
  <2>1. {d.version : d \in Versions(q, s, u)} = {d.version : d \in Versions(db, s, u)} \cup {v}
    BY <1>11, <1>12, <1>13, <1>14
  <2>2. QED
    BY <1>2, <1>3, <2>1 DEF Numbered
<1>16. ASSUME NEW d \in Versions(q, s, u), NEW e \in Versions(q, s, u), d.version = e.version
       PROVE  d = e
  <2>1. CASE d = new \/ e = new
    BY <1>3, <1>11, <1>16, <1>12, <1>13, <2>1
  <2>2. CASE d # new /\ e # new
    <3>1. PICK d0 \in Versions(db, s, u) : d = Old(d0)
      BY <1>13, <2>2
    <3>2. PICK e0 \in Versions(db, s, u) : e = Old(e0)
      BY <1>13, <2>2
    <3>3. d0 = e0
      BY <1>2, <1>11, <1>16, <3>1, <3>2 DEF Numbered
    <3>4. QED
      BY <3>1, <3>2, <3>3
  <2>3. QED
    BY <2>1, <2>2
<1>17. \A d \in Versions(q, s, u) : d.state = "active" <=> d.version = v
  BY <1>3, <1>11, <1>12, <1>13
<1>18. ChunksOf(q, s, u) = {}
  BY <1>5 DEF ChunksOf, Current, SameRow
<1>19. QED
  BY <1>3, <1>6, <1>7, <1>8, <1>9, <1>15, <1>16, <1>17, <1>18 DEF q, v

(* Its chunk completes it.                                                 *)
LEMMA ChunkEntered ==
  ASSUME NEW n \in Nat, NEW ids, TableInv(db, n, ids), embedder \in Models,
         NEW s \in Scopes, NEW u \in Sources, NEW c \in Contents
  PROVE  LET q == Insert(NewVersion(s, u, c), n + 1, Chunk(s, u))
         IN /\ TableInv(q, n + 1, ids)
            /\ n + 1 \in Ids(q) /\ q.records[n + 1].scope = s
<1> DEFINE t == NewVersion(s, u, c)
           v == NextVersion(s, u)
           row == Chunk(s, u)
           q == Insert(t, n + 1, row)
<1>1. /\ v \in Nat \ {0}
      /\ IsTable(t, n) /\ Chains(t) /\ Audited(t, ids)
      /\ \A s2 \in Scopes, u2 \in Sources, m \in Nat :
           <<s2, u2>> # <<s, u>> /\ Numbered(db, s2, u2, m) => Numbered(t, s2, u2, m)
      /\ {d.version : d \in Versions(t, s, u)} = 1 .. v
      /\ \A d, e \in Versions(t, s, u) : d.version = e.version => d = e
      /\ \A d \in Versions(t, s, u) : d.state = "active" <=> d.version = v
      /\ ChunksOf(t, s, u) = {}
  BY VersionEntered
<1>2. /\ row = [kind |-> "document_chunk", scope |-> s, status |-> "current",
                doc |-> [source |-> u, version |-> v], supersedes |-> 0, about |-> 0,
                model |-> embedder]
  BY DEF Chunk, Row, Document
<1>3. Insertable(t, row)
  BY <1>1, <1>2 DEF Insertable, Rows, RowKinds, RowStatuses
<1>4. /\ IsTable(q, n + 1) /\ q.documents = t.documents
      /\ Ids(q) = Ids(t) \cup {n + 1} /\ n + 1 \notin Ids(t)
      /\ q.records[n + 1] = row
      /\ \A i \in Ids(t) : SameRow(t, q, i) /\ q.records[i].status = t.records[i].status
  <2>1. \A i \in Ids(t) : i # 0
    BY <1>1 DEF IsTable
  <2>2. QED
    BY <1>1, <1>2, <1>3, <2>1, Inserted
<1>5. Chains(q) /\ Audited(q, ids)
  BY <1>1, <1>3, InsertKeepsChains, InsertKeepsAudits
<1> HIDE DEF t, row, q, v
<1>6. \A s2, u2 : Versions(q, s2, u2) = Versions(t, s2, u2)
  BY <1>4 DEF Versions
<1>7. Numbered(q, s, u, v)
  <2>1. ChunksOf(q, s, u) = {n + 1}
    <3>1. \A i \in Ids(t) : i \notin ChunksOf(q, s, u)
      BY <1>1, <1>4 DEF ChunksOf, Current, SameRow
    <3>2. n + 1 \in ChunksOf(q, s, u)
      BY <1>2, <1>4 DEF ChunksOf, Current
    <3>3. ChunksOf(q, s, u) \subseteq Ids(q)
      BY DEF ChunksOf, Current
    <3>4. QED
      BY <1>4, <3>1, <3>2, <3>3
  <2>2. {q.records[i].doc.version : i \in ChunksOf(q, s, u)} = {v}
    BY <1>2, <1>4, <2>1
  <2>3. QED
    BY <1>1, <1>6, <2>2 DEF Numbered
<1>8. ASSUME NEW s2 \in Scopes, NEW u2 \in Sources, NEW m \in Nat,
             <<s2, u2>> # <<s, u>>, Numbered(t, s2, u2, m)
      PROVE  Numbered(q, s2, u2, m)
  <2>1. ChunksOf(q, s2, u2) = ChunksOf(t, s2, u2)
    <3>1. n + 1 \notin ChunksOf(q, s2, u2)
      BY <1>2, <1>4, <1>8 DEF ChunksOf
    <3>2. QED
      BY <1>4, <3>1 DEF ChunksOf, Current, SameRow
  <2>2. \A i \in ChunksOf(t, s2, u2) : q.records[i].doc = t.records[i].doc
    BY <1>4 DEF ChunksOf, Current, SameRow
  <2>3. QED
    BY <1>6, <1>8, <2>1, <2>2 DEF Numbered
<1>9. Documented(q)
  <2>1. SUFFICES ASSUME NEW s2 \in Scopes, NEW u2 \in Sources
                 PROVE  \E m \in Nat : Numbered(q, s2, u2, m)
    BY DEF Documented
  <2>2. CASE <<s2, u2>> = <<s, u>>
    BY <1>1, <1>7, <2>2
  <2>3. CASE <<s2, u2>> # <<s, u>>
    <3>1. PICK m \in Nat : Numbered(db, s2, u2, m)
      BY DEF TableInv, Documented
    <3>2. QED
      BY <1>1, <1>8, <2>3, <3>1
  <2>4. QED
    BY <2>2, <2>3
<1>10. QED
  BY <1>2, <1>4, <1>5, <1>9 DEF TableInv, t, row, q

-----------------------------------------------------------------------------
(* The calls.                                                              *)

LEMMA RecordEntered ==
  ASSUME MemInv, NEW r \in Requests, MaySupersede(r)
  PROVE  LET q == Recorded(r)
         IN /\ TableInv(q, used + 1, returned)
            /\ used + 1 \in Ids(q)
            /\ q.records[used + 1].kind = r.kind /\ q.records[used + 1].scope = r.scope
<1> DEFINE row == Row(r.kind, r.scope, NoDoc, r.supersedes, 0)
<1>1. r.kind \in {"fact", "policy", "audit"} /\ r.scope \in Scopes /\ r.supersedes \in Nat
  BY MemoryAssumption DEF Requests
<1>2. row = [kind |-> r.kind, scope |-> r.scope, status |-> "current",
             doc |-> [source |-> "none", version |-> 0], supersedes |-> r.supersedes,
             about |-> 0, model |-> embedder]
  BY DEF Row, NoDoc
<1>3. used \in Nat /\ embedder \in Models /\ TableInv(db, used, returned) /\ IsTable(db, used)
  BY DEF MemInv, TableInv
<1>4. Insertable(db, row) /\ row.kind # "document_chunk"
  BY <1>1, <1>2, <1>3 DEF Insertable, MaySupersede, Rows, RowKinds, RowStatuses
<1>5. Recorded(r) = Insert(db, used + 1, row)
  BY DEF Recorded
<1> HIDE DEF row
<1>6. TableInv(Recorded(r), used + 1, returned)
  BY <1>3, <1>4, <1>5, InsertKeepsTable
<1>7. used + 1 \in Ids(Recorded(r)) /\ Recorded(r).records[used + 1] = row
  <2>1. LET q == Insert(db, used + 1, row)
        IN Ids(q) = Ids(db) \cup {used + 1} /\ q.records[used + 1] = row
    BY <1>3, <1>4, Inserted
  <2>2. QED
    BY <1>5, <2>1
<1>8. QED
  BY <1>2, <1>6, <1>7

LEMMA WrittenTable ==
  ASSUME MemInv, NEW r \in Requests, MaySupersede(r)
  PROVE  TableInv(IF r.kind = "audit" THEN Recorded(r)
                  ELSE Insert(Recorded(r), used + 2, Row("audit", r.scope, NoDoc, 0, used + 1)),
                  used + 2, returned \cup {used + 1})
<1> DEFINE t == Recorded(r)
<1>1. /\ TableInv(t, used + 1, returned) /\ used + 1 \in Ids(t)
      /\ t.records[used + 1].kind = r.kind /\ t.records[used + 1].scope = r.scope
  BY RecordEntered
<1>2. used \in Nat /\ embedder \in Models
  BY DEF MemInv
<1> HIDE DEF t
<1>3. CASE r.kind = "audit"
  <2>1. TableInv(t, used + 1, returned \cup {used + 1})
    BY <1>1, <1>3 DEF TableInv, Audited
  <2>2. used + 1 \in Nat /\ used + 2 \in Nat /\ used + 1 <= used + 2
    BY <1>2
  <2>3. TableInv(t, used + 2, returned \cup {used + 1})
    BY <2>1, <2>2, MoreIds
  <2>4. QED
    BY <1>3, <2>3 DEF t
<1>4. CASE r.kind # "audit"
  <2>1. used + 1 \in Nat /\ (used + 1) + 1 = used + 2
    BY <1>2
  <2>2. NoDoc \in [source : Sources \cup {"none"}, version : Nat]
    BY DEF NoDoc
  <2>3. TableInv(Insert(t, used + 2, Row("audit", r.scope, NoDoc, 0, used + 1)),
                 used + 2, returned \cup {used + 1})
    BY <1>1, <1>2, <2>1, <2>2, AuditAdded
  <2>4. QED
    BY <1>4, <2>3 DEF t
<1>5. QED
  BY <1>3, <1>4

LEMMA IngestedTable ==
  ASSUME MemInv, NEW s \in Scopes, NEW u \in Sources, NEW c \in Contents
  PROVE  TableInv(Ingested(s, u, c), used + 2, returned \cup {used + 1})
<1> DEFINE t == Insert(NewVersion(s, u, c), used + 1, Chunk(s, u))
           doc == Document(u, NextVersion(s, u))
<1>1. used \in Nat /\ embedder \in Models /\ TableInv(db, used, returned)
  BY DEF MemInv
<1>2. TableInv(t, used + 1, returned) /\ used + 1 \in Ids(t) /\ t.records[used + 1].scope = s
  BY <1>1, ChunkEntered
<1>3. NextVersion(s, u) \in Nat
  BY <1>1, VersionEntered
<1>4. doc \in [source : Sources \cup {"none"}, version : Nat]
  BY <1>3 DEF Document
<1>5. Ingested(s, u, c) = Insert(t, used + 2, Row("audit", s, doc, 0, used + 1))
  BY DEF Ingested, NewVersion, Chunk, Document
<1> HIDE DEF t, doc
<1>6. used + 1 \in Nat /\ (used + 1) + 1 = used + 2
  BY <1>1
<1>7. TableInv(Insert(t, used + 2, Row("audit", t.records[used + 1].scope, doc, 0, used + 1)),
               used + 2, returned \cup {used + 1})
  BY <1>1, <1>2, <1>4, <1>6, AuditAdded
<1>8. QED
  BY <1>2, <1>5, <1>7

LEMMA MemInit == Init => MemInv
<1> SUFFICES ASSUME Init PROVE MemInv
  OBVIOUS
<1>1. /\ db = [records |-> [i \in {} |-> 0], documents |-> {}] /\ disk = db
      /\ used = 0 /\ embedder \in Models /\ returned = {}
  BY DEF Init
<1>2. Ids(db) = {} /\ db.documents = {}
  BY <1>1 DEF Ids
<1>3. IsTable(db, 0)
  BY <1>1, <1>2 DEF IsTable
<1>4. Chains(db) /\ Audited(db, {})
  BY <1>2 DEF Chains, Audited
<1>5. Documented(db)
  <2>1. \A s, u : Numbered(db, s, u, 0)
    BY <1>2 DEF Numbered, Versions, ChunksOf, Current
  <2>2. QED
    BY <2>1 DEF Documented
<1>6. QED
  BY <1>1, <1>3, <1>4, <1>5 DEF MemInv, TableInv

LEMMA MemStep == MemInv /\ [Next]_vars => MemInv'
<1> SUFFICES ASSUME MemInv, [Next]_vars PROVE MemInv'
  OBVIOUS
<1>1. /\ used \in Nat /\ used + 1 \in Nat /\ used + 2 \in Nat /\ embedder \in Models
      /\ used <= used + 1 /\ used <= used + 2 /\ used <= used
      /\ TableInv(db, used, returned) /\ TableInv(disk, used, returned)
  BY DEF MemInv
<1>2. TableInv(disk, used + 1, returned) /\ TableInv(disk, used + 2, returned)
  BY <1>1, MoreIds
<1>3. ASSUME NEW t, NEW id, CommitAndIndex(t, {id}),
             TableInv(t, used + 2, returned \cup {id})
      PROVE  TableInv(db', used + 2, returned') /\ TableInv(disk', used + 2, returned')
  <2>1. db' = t /\ disk' = t /\ (returned' = returned \cup {id} \/ returned' = returned)
    BY <1>3 DEF CommitAndIndex
  <2>2. TableInv(t, used + 2, returned)
    BY <1>3 DEF TableInv, Audited
  <2>3. QED
    BY <1>3, <2>1, <2>2
<1>4. ASSUME NEW r \in Requests, Write(r)
      PROVE  MemInv'
  <2>1. MaySupersede(r) /\ used' = used + 2 /\ embedder' = embedder
    BY <1>4 DEF Write
  <2>2. TableInv(db', used + 2, returned') /\ TableInv(disk', used + 2, returned')
    BY <1>3, <1>4, <2>1, WrittenTable DEF Write
  <2>3. QED
    BY <1>1, <2>1, <2>2 DEF MemInv
<1>5. ASSUME NEW r \in Requests, WriteRaises(r)
      PROVE  MemInv'
  <2>1. /\ MaySupersede(r) /\ used' = used + 1 /\ db' = Recorded(r)
        /\ UNCHANGED <<disk, embedder, returned>>
    BY <1>5 DEF WriteRaises
  <2>2. TableInv(Recorded(r), used + 1, returned)
    BY <2>1, RecordEntered
  <2>3. QED
    BY <1>1, <1>2, <2>1, <2>2 DEF MemInv
<1>6. ASSUME NEW s \in Scopes, NEW u \in Sources, NEW c \in Contents, Ingest(s, u, c)
      PROVE  MemInv'
  <2>1. used' = used + 2 /\ embedder' = embedder
    BY <1>6 DEF Ingest
  <2>2. TableInv(db', used + 2, returned') /\ TableInv(disk', used + 2, returned')
    BY <1>3, <1>6, IngestedTable DEF Ingest
  <2>3. QED
    BY <1>1, <2>1, <2>2 DEF MemInv
<1>7. ASSUME NEW s \in Scopes, NEW u \in Sources, NEW c \in Contents, IngestRaises(s, u, c)
      PROVE  MemInv'
  <2>1. used' = used + 2 /\ db' = disk /\ UNCHANGED <<disk, embedder, returned>>
    BY <1>7 DEF IngestRaises
  <2>2. QED
    BY <1>1, <1>2, <2>1 DEF MemInv
<1>8. ASSUME NEW s \in Scopes, Recall(s)
      PROVE  MemInv'
  <2>1. /\ db' = Reembedded(Stale(s)) /\ (disk' = disk \/ disk' = db')
        /\ UNCHANGED <<embedder, used, returned>>
    BY <1>8 DEF Recall
  <2>2. TableInv(Reembedded(Stale(s)), used, returned)
    BY <1>1, ReembeddedTable
  <2>3. QED
    BY <1>1, <2>1, <2>2 DEF MemInv
<1>9. ASSUME NEW s \in Scopes, RecallRaises(s)
      PROVE  MemInv'
  <2>1. PICK S : db' = Reembedded(S)
    BY <1>9 DEF RecallRaises
  <2>2. UNCHANGED <<disk, embedder, used, returned>>
    BY <1>9 DEF RecallRaises
  <2>3. TableInv(Reembedded(S), used, returned)
    BY <1>1, ReembeddedTable
  <2>4. QED
    BY <1>1, <2>1, <2>2, <2>3 DEF MemInv
<1>10. ASSUME NEW m \in Models, Restart(m)
       PROVE  MemInv'
  <2>1. db' = disk /\ embedder' = m /\ UNCHANGED <<disk, used, returned>>
    BY <1>10 DEF Restart
  <2>2. QED
    BY <1>1, <2>1 DEF MemInv
<1>11. CASE UNCHANGED vars
  BY <1>1, <1>11 DEF MemInv, vars
<1>12. QED
  BY <1>4, <1>5, <1>6, <1>7, <1>8, <1>9, <1>10, <1>11 DEF Next

THEOREM MemoryInvariant == Spec => []MemInv
<1>1. QED
  BY MemInit, MemStep, PTL DEF Spec

-----------------------------------------------------------------------------
(* Facts form chains with one head: what may be superseded is current, and *)
(* a call leaves no second heir behind, raise, roll back or die as it may  *)
(* (_write, ingest_document, recall).                                      *)
THEOREM MemoryChainHasOneHead == Spec => []ChainHasOneHead
<1>1. MemInv => ChainHasOneHead
  <2>1. SUFFICES ASSUME MemInv, NEW t \in {db, disk}, NEW i \in Ids(t), t.records[i].doc = NoDoc
                 PROVE  LET heirs == {j \in Ids(t) : t.records[j].supersedes = i}
                        IN /\ Cardinality(heirs) = (IF t.records[i].status = "superseded" THEN 1 ELSE 0)
                           /\ \A j \in heirs : /\ i < j /\ t.records[j].kind = t.records[i].kind
                                               /\ t.records[j].scope = t.records[i].scope
    BY DEF ChainHasOneHead
  <2> DEFINE heirs == {j \in Ids(t) : t.records[j].supersedes = i}
  <2>2. IsTable(t, used) /\ Chains(t) /\ used \in Nat
    <3>1. TableInv(t, used, returned) /\ used \in Nat
      BY <2>1 DEF MemInv
    <3>2. QED
      BY <3>1 DEF TableInv
  <2>3. i # 0 /\ t.records[i].status \in RowStatuses
    BY <2>2 DEF IsTable, Rows
  <2>4. \A j \in heirs : /\ i < j /\ t.records[j].kind = t.records[i].kind
                         /\ t.records[j].scope = t.records[i].scope
                         /\ t.records[i].status = "superseded"
    BY <2>2, <2>3 DEF Chains
  <2>5. CASE t.records[i].status = "superseded"
    <3>1. PICK j \in Ids(t) : t.records[j].supersedes = i
      BY <2>1, <2>2, <2>5 DEF Chains
    <3>2. heirs = {j}
      BY <2>2, <2>3, <3>1 DEF Chains
    <3>3. Cardinality(heirs) = 1
      BY <3>2, FS_Singleton
    <3>4. QED
      BY <2>4, <2>5, <3>3
  <2>6. CASE t.records[i].status # "superseded"
    <3>1. heirs = {}
      BY <2>4, <2>6
    <3>2. Cardinality(heirs) = 0
      BY <3>1, FS_EmptySet
    <3>3. QED
      BY <2>4, <2>6, <3>2
  <2>7. QED
    BY <2>5, <2>6
<1>2. QED
  BY <1>1, MemoryInvariant, PTL

(* A write or an ingestion that returned is on disk with its audit record, *)
(* whatever raises, is rolled back or restarts before or after it.         *)
THEOREM MemoryReturnedIsAudited == Spec => []ReturnedIsAudited
<1>1. MemInv => ReturnedIsAudited
  BY DEF MemInv, TableInv, Audited, ReturnedIsAudited
<1>2. QED
  BY <1>1, MemoryInvariant, PTL

(* A table of numbered versions gives out the last one.                    *)
LEMMA DocumentedIsEvidence == MemInv => LastVersionIsEvidence
<1>1. SUFFICES ASSUME MemInv, NEW t \in {db, disk}, NEW s \in Scopes, NEW u \in Sources
               PROVE  LET versions == Versions(t, s, u)
                      IN /\ {d.version : d \in versions} = 1 .. Cardinality(versions)
                         /\ {d.version : d \in Active(t, s, u)} =
                              {t.records[i].doc.version : i \in ChunksOf(t, s, u)}
                         /\ {d.version : d \in Active(t, s, u)} =
                              (IF versions = {} THEN {} ELSE {Cardinality(versions)})
  BY DEF LastVersionIsEvidence, ChunksOf
<1> DEFINE versions == Versions(t, s, u)
<1>2. PICK n \in Nat : Numbered(t, s, u, n)
  <2>1. TableInv(t, used, returned)
    BY <1>1 DEF MemInv
  <2>2. QED
    BY <2>1 DEF TableInv, Documented
<1>3. Cardinality(versions) = n
  <2> DEFINE f == [d \in versions |-> d.version]
  <2>1. f \in Bijection(versions, 1 .. n)
    <3>1. \A d \in versions : d.version \in 1 .. n
      BY <1>2 DEF Numbered
    <3>2. \A k \in 1 .. n : \E d \in versions : d.version = k
      BY <1>2 DEF Numbered
    <3>3. \A d, e \in versions : d.version = e.version => d = e
      BY <1>2 DEF Numbered
    <3>4. f \in Injection(versions, 1 .. n)
      BY <3>1, <3>3, Fun_IsInj
    <3>5. f \in Surjection(versions, 1 .. n)
      BY <3>1, <3>2, Fun_IsSurj
    <3>6. QED
      BY <3>4, <3>5, Fun_IsBij
  <2>2. ExistsBijection(1 .. n, versions)
    BY <2>1, Fun_ExistsBijSymmetric DEF ExistsBijection
  <2>3. QED
    BY <2>2, FS_CountingElements
<1>4. versions = {} <=> n = 0
  BY <1>2 DEF Numbered
<1>5. {d.version : d \in Active(t, s, u)} = IF n = 0 THEN {} ELSE {n}
  <2>1. CASE n = 0
    BY <1>4, <2>1 DEF Active
  <2>2. CASE n # 0
    <3>1. n \in {d.version : d \in versions}
      BY <1>2, <2>2 DEF Numbered
    <3>2. PICK d \in versions : d.version = n
      BY <3>1
    <3>3. QED
      BY <1>2, <2>2, <3>2 DEF Numbered, Active
  <2>3. QED
    BY <2>1, <2>2
<1>6. QED
  BY <1>2, <1>3, <1>4, <1>5 DEF Numbered

(* Of a document that was ever ingested exactly the last version is active *)
(* and exactly its chunks are evidence (ingest_document).                  *)
THEOREM MemoryLastVersionIsEvidence == Spec => []LastVersionIsEvidence
BY MemoryInvariant, DocumentedIsEvidence, PTL
=============================================================================
