----------------------------- MODULE MemoryStore -----------------------------
(***************************************************************************)
(* The agent's memory (s13code/core/memory/store.py, vector_index.py):     *)
(* records and document versions in SQLite, an audit record per write, and *)
(* a vector index kept in files beside the database.                       *)
(*                                                                         *)
(* All methods run to their end on one connection, so that an action is a  *)
(* whole call.  What interleaves is failure: making an embedding is a      *)
(* request that may raise; statements executed before it stay in the       *)
(* connection's open transaction (db) until a later commit makes them      *)
(* durable (disk), or a rollback or a restart forgets them.  Of a record's *)
(* vector only the model that made it is kept, its text is left out, and   *)
(* ids, which are random in the code, are numbers never used twice.        *)
(***************************************************************************)
EXTENDS Naturals, FiniteSets

CONSTANTS Scopes,      \* ownership paths: [tenant, user], user maybe "none"
          Sources,     \* source documents; a document id is a scope and a source
          Contents,    \* prepared contents
          Models,      \* embedding models an operator may configure
          MaxRecords,  \* bound: ids used
          MaxRestarts  \* bound: restarts of the process

ASSUME MemoryAssumption ==
  /\ MaxRecords \in Nat /\ MaxRestarts \in Nat /\ Models # {}
  /\ "none" \notin Sources   \* it stands for "no document"

VARIABLES db,        \* the tables as the connection sees them
          disk,      \* the tables as last committed
          index,     \* the vector index: record id -> model of its vector
          embedder,  \* the model in use
          up,        \* FALSE: the process died between a commit and the index
          used,      \* the last id used
          returned,  \* ids whose write or ingestion returned
          restarts

vars == <<db, disk, index, embedder, up, used, returned, restarts>>

NoDoc == [source |-> "none", version |-> 0]
Document(u, v) == [source |-> u, version |-> v]

(* supersedes and about (what an audit record audits) are ids, 0 for none. *)
Row(kind, scope, doc, supersedes, about) ==
  [kind |-> kind, scope |-> scope, status |-> "current", doc |-> doc,
   supersedes |-> supersedes, about |-> about, model |-> embedder]

Ids(t) == DOMAIN t.records
Current(t) == {i \in Ids(t) : t.records[i].status = "current"}

(* The rows of the document table for one document id, and the active one. *)
Versions(t, s, u) == {d \in t.documents : d.scope = s /\ d.source = u}
Active(t, s, u) == {d \in Versions(t, s, u) : d.state = "active"}

Init ==
  /\ db = [records |-> [i \in {} |-> 0], documents |-> {}]
  /\ disk = db
  /\ index = [i \in {} |-> 0]
  /\ embedder \in Models
  /\ up = TRUE
  /\ used = 0
  /\ returned = {}
  /\ restarts = 0

-----------------------------------------------------------------------------
(* Commit and index.                                                       *)

(* What _ensure_vector_index leaves: when the ids agree, the index as it   *)
(* is; else one built anew from the vectors of the model in use.           *)
Indexable(t) == {i \in Current(t) : t.records[i].kind \notin {"audit", "policy"}}
EnsureIndex(t, model) ==
  IF Indexable(t) = DOMAIN index THEN index
  ELSE [i \in {j \in Indexable(t) : t.records[j].model = model} |-> model]

(* A call commits t, brings the index up to date and returns for the ids,  *)
(* unless the process dies between the two.                                *)
CommitAndIndex(t, ids) ==
  /\ db' = t /\ disk' = t
  /\ \/ up' = TRUE /\ index' = EnsureIndex(t, embedder) /\ returned' = returned \cup ids
     \/ up' = FALSE /\ UNCHANGED <<index, returned>>

-----------------------------------------------------------------------------
(* write.                                                                  *)

(* The gate refuses the other requests before anything changes.            *)
WriteAllowed(r) ==
  /\ r.sourced \/ r.kind = "audit"
  /\ r.kind = "policy" => r.role = "operator"
  /\ r.kind = "audit" => r.role = "gateway"

Requests ==
  {r \in [kind : {"fact", "policy", "audit"}, scope : Scopes,
           role : {"agent", "operator", "gateway"}, sourced : BOOLEAN,
           supersedes : 0 .. MaxRecords] : WriteAllowed(r)}

(* Mutant: what was superseded may be superseded again.                    *)
MaySupersedeOld(r) ==
  r.supersedes # 0 =>
    /\ r.supersedes \in Ids(db)
    /\ db.records[r.supersedes].scope = r.scope /\ db.records[r.supersedes].kind = r.kind

MaySupersede(r) ==
  r.supersedes # 0 =>
    /\ r.supersedes \in Ids(db)
    /\ db.records[r.supersedes].scope = r.scope /\ db.records[r.supersedes].kind = r.kind
    /\ db.records[r.supersedes].status = "current"

(* The statements of _write without its audit record.                      *)
Insert(t, id, row) ==
  [t EXCEPT !.records = [i \in Ids(t) \cup {id} |->
     IF i = id THEN row
     ELSE IF i = row.supersedes THEN [t.records[i] EXCEPT !.status = "superseded"]
     ELSE t.records[i]]]

Recorded(r) == Insert(db, used + 1, Row(r.kind, r.scope, NoDoc, r.supersedes, 0))

(* Mutant: the audit record follows the commit.                            *)
WriteAuditsLater(r) ==
  /\ up /\ MaySupersede(r)
  /\ used + 2 <= MaxRecords
  /\ used' = used + 2
  /\ db' = Insert(Recorded(r), used + 2, Row("audit", r.scope, NoDoc, 0, used + 1))
  /\ disk' = Recorded(r)
  /\ index' = EnsureIndex(db', embedder) /\ returned' = returned \cup {used + 1}
  /\ UNCHANGED <<embedder, up, restarts>>

Write(r) ==
  /\ up /\ MaySupersede(r)
  /\ used + 2 <= MaxRecords
  /\ used' = used + 2
  /\ CommitAndIndex(IF r.kind = "audit" THEN Recorded(r)
                    ELSE Insert(Recorded(r), used + 2, Row("audit", r.scope, NoDoc, 0, used + 1)),
                    {used + 1})
  /\ UNCHANGED <<embedder, restarts>>

(* Embedding the audit text raises: the statements for the record itself   *)
(* stay in the open transaction.  (Embedding the record comes before them.)*)
WriteRaises(r) ==
  /\ up /\ MaySupersede(r) /\ r.kind # "audit"
  /\ used + 1 <= MaxRecords
  /\ used' = used + 1
  /\ db' = Recorded(r)
  /\ UNCHANGED <<disk, index, embedder, up, returned, restarts>>

-----------------------------------------------------------------------------
(* ingest_document; a version has one chunk.                               *)

(* The active version, its chunks and the audit record of its ingestion,   *)
(* which carries the same document id, make room.                          *)
Retire(s, u) ==
  [records |-> [i \in Ids(db) |->
      IF db.records[i].scope = s /\ db.records[i].doc.source = u
      THEN [db.records[i] EXCEPT !.status = "superseded"] ELSE db.records[i]],
   documents |->
     {IF d \in Active(db, s, u) THEN [d EXCEPT !.state = "superseded"] ELSE d :
        d \in db.documents}]

NextVersion(s, u) ==
  IF Active(db, s, u) = {} THEN 1 ELSE (CHOOSE d \in Active(db, s, u) : TRUE).version + 1

Ingested(s, u, c) ==
  LET doc == Document(u, NextVersion(s, u))
      versioned == [Retire(s, u) EXCEPT !.documents = @ \cup
        {[scope |-> s, source |-> u, version |-> doc.version, content |-> c, state |-> "active"]}]
      chunked == Insert(versioned, used + 1, Row("document_chunk", s, doc, 0, 0))
  IN Insert(chunked, used + 2, Row("audit", s, doc, 0, used + 1))

(* The same content again changes nothing.                                 *)
IsNews(s, u, c) == \A d \in Active(db, s, u) : d.content # c

Ingest(s, u, c) ==
  /\ up /\ IsNews(s, u, c)
  /\ used + 2 <= MaxRecords
  /\ used' = used + 2
  /\ CommitAndIndex(Ingested(s, u, c), {used + 1})
  /\ UNCHANGED <<embedder, restarts>>

(* Mutant: the exception does not roll back.                               *)
IngestKeepsOpen(s, u, c) ==
  /\ up /\ IsNews(s, u, c) /\ used + 2 <= MaxRecords
  /\ used' = used + 2
  /\ db' = [Ingested(s, u, c) EXCEPT !.records =
              [i \in {j \in DOMAIN @ : j <= used} |-> @[i]]]
  /\ UNCHANGED <<disk, index, embedder, up, returned, restarts>>

(* An embedding raises: the whole transaction is rolled back, and with it  *)
(* what an earlier write left open.                                        *)
IngestRaises(s, u, c) ==
  /\ up /\ IsNews(s, u, c) /\ used + 2 <= MaxRecords
  /\ used' = used + 2
  /\ db' = disk
  /\ UNCHANGED <<disk, index, embedder, up, returned, restarts>>

-----------------------------------------------------------------------------
(* recall.                                                                 *)

(* A record of a wider scope may be read in a narrower one.                *)
Readable(s, r) == r.tenant = s.tenant /\ r.user \in {"none", s.user}

Evidence(t, s) == {i \in Indexable(t) : Readable(s, t.records[i].scope)}
Stale(s) == {i \in Evidence(db, s) : db.records[i].model # embedder}

Reembedded(S) ==
  [db EXCEPT !.records =
     [i \in DOMAIN @ |-> IF i \in S THEN [@[i] EXCEPT !.model = embedder] ELSE @[i]]]

(* The index is brought up to date first; then the vectors of other models *)
(* are made anew, and committed with all that is open.                     *)
Recall(s) ==
  /\ up /\ Evidence(db, s) # {}
  /\ index' = EnsureIndex(db, embedder)
  /\ db' = Reembedded(Stale(s))
  /\ disk' = IF Stale(s) = {} THEN disk ELSE db'
  /\ UNCHANGED <<embedder, up, used, returned, restarts>>

(* An embedding raises when some of them are done.                         *)
RecallRaises(s) ==
  /\ up /\ \E S \in SUBSET Stale(s) : S # Stale(s) /\ db' = Reembedded(S)
  /\ index' = EnsureIndex(db, embedder)
  /\ UNCHANGED <<disk, embedder, up, used, returned, restarts>>

(* The process stops, or is dead, and starts again with a configured model.*)
Restart(m) ==
  /\ restarts < MaxRestarts
  /\ restarts' = restarts + 1
  /\ up' = TRUE
  /\ db' = disk
  /\ embedder' = m
  /\ index' = EnsureIndex(disk, m)
  /\ UNCHANGED <<disk, used, returned>>

Next ==
  \/ \E r \in Requests : Write(r) \/ WriteRaises(r)
  \/ \E s \in Scopes, u \in Sources, c \in Contents : Ingest(s, u, c) \/ IngestRaises(s, u, c)
  \/ \E s \in Scopes : Recall(s) \/ RecallRaises(s)
  \/ \E m \in Models : Restart(m)

Spec == Init /\ [][Next]_vars
-----------------------------------------------------------------------------
(***************************************************************************)
(* Properties.                                                             *)
(***************************************************************************)

IsAuditOf(a, i, t) ==
  t.records[a].kind = "audit" /\ t.records[a].about = i /\ t.records[a].scope = t.records[i].scope

(* A write or an ingestion that returned is durable and so is its audit    *)
(* record, whatever raises, is rolled back or restarts before or after it. *)
ReturnedIsAudited ==
  \A i \in returned :
    /\ i \in Ids(disk)
    /\ disk.records[i].kind # "audit" => \E a \in Ids(disk) : IsAuditOf(a, i, disk)

(* Facts form chains with one head: a record is superseded exactly when    *)
(* one record, later and of the same kind and scope, supersedes it.  This  *)
(* holds of what is committed and of what the connection sees, including   *)
(* the leftovers of writes that raised.                                    *)
ChainHasOneHead ==
  \A t \in {db, disk} : \A i \in Ids(t) :
    LET heirs == {j \in Ids(t) : t.records[j].supersedes = i}
    IN t.records[i].doc = NoDoc =>
         /\ Cardinality(heirs) = (IF t.records[i].status = "superseded" THEN 1 ELSE 0)
         /\ \A j \in heirs : /\ i < j /\ t.records[j].kind = t.records[i].kind
                             /\ t.records[j].scope = t.records[i].scope

(* Ingestion replaces a source's chunks as a whole: of a document that was *)
(* ever ingested exactly the last version is active, exactly its chunks    *)
(* are evidence, and no other document lost any.                           *)
LastVersionIsEvidence ==
  \A t \in {db, disk}, s \in Scopes, u \in Sources :
    LET versions == Versions(t, s, u)
        chunks == {i \in Current(t) : /\ t.records[i].kind = "document_chunk"
                                      /\ t.records[i].scope = s /\ t.records[i].doc.source = u}
    IN /\ {d.version : d \in versions} = 1 .. Cardinality(versions)
       /\ {d.version : d \in Active(t, s, u)} = {t.records[i].doc.version : i \in chunks}
       /\ {d.version : d \in Active(t, s, u)} =
            (IF versions = {} THEN {} ELSE {Cardinality(versions)})

(* The comment in recall: incompatible vectors are never compared.  The    *)
(* index a recall searches holds vectors of the model that embeds the      *)
(* query.  Refuted: after a restart with another model the ids agree, so   *)
(* that the index keeps the old model's vectors, and recall prefers their  *)
(* scores even when it has made the records' own vectors anew.             *)
NeverCompareIncompatible ==
  \A i \in DOMAIN EnsureIndex(db, embedder) : EnsureIndex(db, embedder)[i] = embedder
=============================================================================
