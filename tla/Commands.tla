------------------------------ MODULE Commands ------------------------------
(***************************************************************************)
(* The data of timongo's TiDB store: documents, the commands a client      *)
(* sends, and for each command the program of SQL statements that          *)
(* handler.go and store.go run for it, one after the other, each in its    *)
(* own implicit transaction (only Insert opens an explicit one).           *)
(*                                                                         *)
(* Content is abstracted to what the properties tell apart.  A filter is   *)
(* the set of documents it matches, a validator the set it accepts, and an *)
(* update the function from a document to the set holding its new version: *)
(* empty when ApplyUpdate reports an error (an operator it does not know)  *)
(* or the row cannot be stored (it has no _id any more, or is too large).  *)
(***************************************************************************)
EXTENDS TableNames, FiniteSets

CONSTANTS Namespace,   \* the namespaces clients use: records [db, coll] of names
          Id,          \* canonical _id keys (bsonutil.ValueKey)
          Val,         \* the rest of a document
          IndexName

Doc == [id : Id, val : Val]

\* The columns bound them: id_key is VARBINARY(768) and a document a LONGBLOB,
\* names are VARBINARY(256) and VARCHAR(128).
ASSUME FiniteAssumption ==
  IsFiniteSet(Doc) /\ IsFiniteSet(Namespace) /\ IsFiniteSet(IndexName)

\* A namespace is a pair of names, and names are sequences of characters.
ASSUME NamesAssumption ==
  \A n \in Namespace : /\ n = [db |-> n.db, coll |-> n.coll]
                       /\ n.db \in Seq(Range(n.db)) /\ n.coll \in Seq(Range(n.coll))

\* No validator: everything is accepted.
AnyDoc == Doc

TableOf == [n \in Namespace |-> PhysicalTableName(n.db, n.coll)]
Table == {TableOf[n] : n \in Namespace}
Database == {n.db : n \in Namespace}

(***************************************************************************)
(* Commands.                                                               *)
(***************************************************************************)
UpdateModel == [matches : SUBSET Doc, apply : [Doc -> SUBSET Doc],
                multi : BOOLEAN, upsert : SUBSET Doc]
DeleteModel == [matches : SUBSET Doc, multi : BOOLEAN]

\* tag tells two commands with the same content apart; for findAndModify,
\* updates is empty or holds the one model made of query and update.
Command ==
       [kind : {"create"}, tag : Nat, ns : Namespace, validator : SUBSET Doc]
  \cup [kind : {"drop", "listIndexes"}, tag : Nat, ns : Namespace]
  \cup [kind : {"dropDatabase", "listCollections"}, tag : Nat, db : Database]
  \cup [kind : {"insert"}, tag : Nat, ns : Namespace, docs : Seq(Doc)]
  \cup [kind : {"find"}, tag : Nat, ns : Namespace, filter : SUBSET Doc, limit : Nat]
  \cup [kind : {"update"}, tag : Nat, ns : Namespace, updates : Seq(UpdateModel)]
  \cup [kind : {"delete"}, tag : Nat, ns : Namespace, deletes : Seq(DeleteModel)]
  \cup [kind : {"findAndModify"}, tag : Nat, ns : Namespace, filter : SUBSET Doc,
        remove : BOOLEAN, updates : Seq(UpdateModel), new : BOOLEAN]
  \cup [kind : {"createIndexes"}, tag : Nat, ns : Namespace, names : Seq(IndexName)]
  \cup [kind : {"renameCollection"}, tag : Nat, ns : Namespace, to : Namespace,
        dropTarget : BOOLEAN]

Idle == [kind |-> "idle"]

(***************************************************************************)
(* SQL statements.  A select carries what the code does with its result.   *)
(***************************************************************************)
OnTable == {"ensureTable", "dropTable"}
OnNamespace == {"readOptions", "deleteRow", "readValidator", "readCollectionID",
                "selectIndexes"}
OnDatabase == {"selectCollections", "showTables", "deleteRows"}
Use == {"reply", "update", "delete", "rename", "before", "after"}

Statement ==
       [op : OnTable, table : Table]
  \cup [op : OnNamespace, ns : Namespace]
  \cup [op : OnDatabase, db : Database]
  \cup [op : {"upsertRow"}, ns : Namespace, validator : SUBSET Doc]
  \cup [op : {"select"}, ns : Namespace, filter : SUBSET Doc, limit : Nat, use : Use]
  \cup [op : {"commit"}]

\* A faulty variant: the collection's own name for its table.
EnsureUnsafeName(n) == [op |-> "ensureTable", table |-> n.coll]

EnsureCollection(n) == [op |-> "ensureTable", table |-> TableOf[n]]
DropTableOf(t) == [op |-> "dropTable", table |-> t]
On(op, n) == [op |-> op, ns |-> n]

\* Store.CreateCollection
CreateCollection(n, validator) ==
  << EnsureCollection(n), On("readOptions", n),
     [op |-> "upsertRow", ns |-> n, validator |-> validator] >>

\* A faulty variant: the catalog first.
DropRowFirst(n) == << On("deleteRow", n), DropTableOf(TableOf[n]) >>

\* Store.DropCollection
DropCollection(n) == << DropTableOf(TableOf[n]), On("deleteRow", n) >>

\* Store.Insert; the rows of the batch are inserted between the last two.
Insert(n) ==
  CreateCollection(n, AnyDoc) \o << On("readValidator", n), [op |-> "commit"] >>

\* Store.Find
Find(n, filter, limit, use) ==
  << EnsureCollection(n),
     [op |-> "select", ns |-> n, filter |-> filter, limit |-> limit, use |-> use] >>

\* Store.Update and Store.Delete: the writes follow from the select's result.
Update(n) == CreateCollection(n, AnyDoc) \o Find(n, AnyDoc, 0, "update")
Delete(n) == Find(n, AnyDoc, 0, "delete")

\* Store.DropDatabase; the tables listed are dropped between the two.
DropDatabase(d) == << [op |-> "showTables", db |-> d], [op |-> "deleteRows", db |-> d] >>

\* What Handler.Handle runs for command m before the first result comes back.
Program(m) ==
  CASE m.kind = "create"           -> CreateCollection(m.ns, m.validator)
    [] m.kind = "drop"             -> DropCollection(m.ns)
    [] m.kind = "dropDatabase"     -> DropDatabase(m.db)
    [] m.kind = "listCollections"  -> << [op |-> "selectCollections", db |-> m.db] >>
    [] m.kind = "insert"           -> Insert(m.ns)
    [] m.kind = "find"             -> Find(m.ns, m.filter, m.limit, "reply")
    [] m.kind = "update"           -> Update(m.ns)
    [] m.kind = "delete"           -> Delete(m.ns)
    [] m.kind = "findAndModify"    -> Find(m.ns, m.filter, 1, "before")
    [] m.kind = "createIndexes"    -> CreateCollection(m.ns, AnyDoc)
                                        \o << On("readCollectionID", m.ns) >>
    [] m.kind = "listIndexes"      -> << On("readCollectionID", m.ns) >>
    [] m.kind = "renameCollection" -> Find(m.ns, AnyDoc, 0, "rename")

\* A faulty variant: the second find before the update.
FindNewTooEarly(m, docs) ==
  IF m.remove
  THEN IF docs = <<>> THEN <<>> ELSE Delete(m.ns)
  ELSE (IF m.new THEN Find(m.ns, m.filter, 1, "after") ELSE <<>>)
         \o (IF m.updates = <<>> THEN <<>> ELSE Update(m.ns))

\* The rest of findAndModify, once its first find returned docs.
AfterBefore(m, docs) ==
  IF m.remove
  THEN IF docs = <<>> THEN <<>> ELSE Delete(m.ns)
  ELSE (IF m.updates = <<>> THEN <<>> ELSE Update(m.ns))
         \o (IF m.new THEN Find(m.ns, m.filter, 1, "after") ELSE <<>>)

\* Faulty variants: the source is dropped before the copy; dropTarget is ignored.
DropSourceFirst(m, docs) ==
  (IF m.dropTarget THEN DropCollection(m.to) ELSE <<>>)
    \o DropCollection(m.ns)
    \o CreateCollection(m.to, AnyDoc)
    \o (IF docs = <<>> THEN <<>> ELSE Insert(m.to))
KeepTarget(m, docs) ==
  CreateCollection(m.to, AnyDoc)
    \o (IF docs = <<>> THEN <<>> ELSE Insert(m.to))
    \o DropCollection(m.ns)

\* The rest of renameCollection, once its find returned docs.
AfterRead(m, docs) ==
  (IF m.dropTarget THEN DropCollection(m.to) ELSE <<>>)
    \o CreateCollection(m.to, AnyDoc)
    \o (IF docs = <<>> THEN <<>> ELSE Insert(m.to))
    \o DropCollection(m.ns)

(***************************************************************************)
(* The nested loops of Update and Delete.  Both run over the snapshot docs *)
(* once per model; a write <<j, i>> is the j-th model applied to the i-th  *)
(* document, and <<j, 0>> the upsert of a model that matched nothing.      *)
(***************************************************************************)
\* Faulty variants: the loop always breaks at the first match; it never does.
BreakAlways(model, docs) ==
  {i \in DOMAIN docs : /\ docs[i] \in model.matches
                       /\ \A k \in 1..(i - 1) : docs[k] \notin model.matches}
BreakNever(model, docs) == {i \in DOMAIN docs : docs[i] \in model.matches}

Hits(model, docs) ==
  {i \in DOMAIN docs : /\ docs[i] \in model.matches
                       /\ model.multi \/ \A k \in 1..(i - 1) : docs[k] \notin model.matches}

UpdateWrites(models, docs) ==
  {w \in (DOMAIN models) \X (0..Len(docs)) :
     IF w[2] = 0 THEN Hits(models[w[1]], docs) = {} /\ models[w[1]].upsert # {}
                 ELSE w[2] \in Hits(models[w[1]], docs)}

DeleteWrites(models, docs) ==
  {w \in (DOMAIN models) \X (DOMAIN docs) : w[2] \in Hits(models[w[1]], docs)}

\* findAndModify with remove deletes with the query and limit 1.
DeletesOf(m) ==
  IF m.kind = "delete" THEN m.deletes ELSE << [matches |-> m.filter, multi |-> FALSE] >>

\* The order in which the loops run: by model, then by document.
Precedes(w, x) == w[1] < x[1] \/ (w[1] = x[1] /\ w[2] < x[2])
IsFirst(w, writes) == w \in writes /\ \A x \in writes \ {w} : Precedes(w, x)

\* ApplyFindOptions: limit 0 is no limit.
Limited(docs, limit) ==
  IF limit = 0 \/ limit > Len(docs) THEN docs ELSE SubSeq(docs, 1, limit)

\* A SELECT without ORDER BY returns its rows in any order.
Orderings(S) ==
  {s \in [1..Cardinality(S) -> S] : \A x \in S : \E i \in DOMAIN s : s[i] = x}
=============================================================================
