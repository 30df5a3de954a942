-------------------------------- MODULE SqlStore -------------------------------
(***************************************************************************)
(* The TiDB store (internal/backend/tidb) running one call at a time:      *)
(* what its SQL statements make of the document tables and of the catalog  *)
(* when nothing interferes.  TiDBStore.tla has the statements of           *)
(* concurrent calls.  Namespaces have tables of their own here: see        *)
(* TableNames.tla for those that share one.                                *)
(*                                                                         *)
(* A catalog row is << id, options >>, an index row << id, name >> with    *)
(* its definition.                                                         *)
(***************************************************************************)
EXTENDS Backend, Updates

NewStore == [tables |-> NoFields, catalog |-> NoFields, indexes |-> NoFields, issued |-> 0]

EnsureCollection(s, ns) ==
  [s EXCEPT !.tables = With(@, ns, FieldOr(@, ns, NoFields))]
CollectionOptions(s, ns) == IF ns \in DOMAIN s.catalog THEN s.catalog[ns][2] ELSE NoFields
CollectionValidator(s, ns) == AsMap(Field(CollectionOptions(s, ns), "validator"))

\* An upsert of the catalog row; a new row takes the next id.
CatalogRow(s, ns, options) ==
  IF ns \in DOMAIN s.catalog THEN [s EXCEPT !.catalog[ns][2] = options]
  ELSE [s EXCEPT !.catalog = With(@, ns, << s.issued + 1, options >>), !.issued = @ + 1]

\* A faulty variant: the options given replace those of the row.
CreatedAnew(s, ns, validator) ==
  CatalogRow(EnsureCollection(s, ns), ns,
             IF validator = NoFields THEN NoFields ELSE "validator" :> Obj(validator))

Created(s, ns, validator) ==
  LET options == CollectionOptions(s, ns)
  IN  CatalogRow(EnsureCollection(s, ns), ns,
                 IF validator = NoFields THEN options
                 ELSE With(options, "validator", Obj(validator)))

CreateCollection(s, ns, validator) == Done(Created(s, ns, validator), Nil)

\* ORDER BY collection_name: Texts has the names in byte order.
ListCollections(s, db, filter) ==
  LET wanted == Field(filter, "name")
      found == {ns \in DOMAIN s.catalog :
                  ns[1] = db /\ (Kind(wanted) = "str" => wanted[2] = ns[2])}
      order == SetToSortSeq(found, LAMBDA m, n : Rank(m[2]) < Rank(n[2]))
  IN  Done(s, [i \in DOMAIN order |-> << order[i][2], CollectionOptions(s, order[i]) >>])

Dropped(s, names) ==
  [s EXCEPT !.tables = Restrict(@, DOMAIN @ \ names), !.catalog = Restrict(@, DOMAIN @ \ names)]
DropCollection(s, ns) == Done(Dropped(s, {ns}), Nil)
DropDatabase(s, db) ==
  Done(Dropped(s, {ns \in DOMAIN s.tables \cup DOMAIN s.catalog : ns[1] = db}), Nil)

\* One transaction: a document that is refused takes the batch with it.
Insert(s, ns, docs) ==
  LET s1 == Created(s, ns, NoFields)
      keys == [i \in DOMAIN docs |-> DocumentIDKey(docs[i])]
      refused == \E i \in DOMAIN docs :
                   \/ ~Valid(CollectionValidator(s1, ns), docs[i])
                   \/ keys[i] = NoKey
                   \/ keys[i] \in DOMAIN s1.tables[ns] \cup {keys[j] : j \in 1..(i - 1)}
      batch == [key \in ToSet(keys) |-> docs[CHOOSE i \in DOMAIN keys : keys[i] = key]]
  IN  IF refused THEN Failed(s1)
      ELSE Done([s1 EXCEPT !.tables[ns] = batch @@ @], Len(docs))

\* canPushDownFilter, canPushDownFind
PushesDownFilter(filter) ==
  filter = NoFields \/ (DOMAIN filter = {"_id"} /\ Kind(filter["_id"]) # "obj")
PushesDown(req) ==
  req.opts = [NoOptions EXCEPT !.limit = req.opts.limit] /\ PushesDownFilter(req.filter)

\* A faulty variant: the id_key column is compared with the printed value.
SelectsPrinted(req, key, doc) ==
  PushesDown(req) /\ req.filter # NoFields => Printed(doc["_id"]) = Printed(req.filter["_id"])

\* BuildFindSQL: the row of the key, if the filter is pushed down.  A LIMIT
\* that is pushed down cuts what the one in Go would cut.
Selects(req, key, doc) ==
  PushesDown(req) /\ req.filter # NoFields => key = ValueKey(req.filter["_id"])

Find(s, ns, req) ==
  LET s1 == EnsureCollection(s, ns)
      table == s1.tables[ns]
      rows == Restrict(table, {key \in DOMAIN table : Selects(req, key, table[key])})
  IN  IF PushesDown(req) /\ req.filter # NoFields /\ ValueKey(req.filter["_id"]) = NoKey
      THEN Failed(s1)
      ELSE {Outcome("ok", s1, docs) : docs \in FoundIn(Scans(rows), req)}

\* REPLACE INTO: the row of the document's key, whichever row it came from.
Replaced(s, ns, doc) == [s EXCEPT !.tables[ns] = With(@, DocumentIDKey(doc), doc)]

\* One model of an update, over the documents read at the start.
RECURSIVE UpdateDocs(_, _, _, _, _)
UpdateDocs(s, ns, docs, model, n) ==
  IF docs = << >> \/ (n > 0 /\ ~model.multi) THEN Done(s, n)
  ELSE IF ~Matches(Head(docs), model.q) THEN UpdateDocs(s, ns, Tail(docs), model, n)
  ELSE UNION {IF a.ok /\ DocumentIDKey(a.doc) # NoKey
              THEN UpdateDocs(Replaced(s, ns, a.doc), ns, Tail(docs), model, n + 1)
              ELSE Failed(s) : a \in ApplyUpdate(Head(docs), model.u)}

Upsert(s, ns, model) ==
  LET Stored(doc) == IF DocumentIDKey(doc) = NoKey THEN Failed(s)
                     ELSE Done(Replaced(s, ns, doc), << doc["_id"] >>)
  IN  UNION {IF a.ok THEN Stored(Upserted(a.doc, FreshID(s.tables[ns]))) ELSE Failed(s) :
               a \in ApplyUpdate(model.q, model.u)}

RECURSIVE UpdateModels(_, _, _, _, _, _)
UpdateModels(s, ns, docs, models, matched, upserted) ==
  IF models = << >> THEN Done(s, [n |-> matched, upserted |-> upserted])
  ELSE UNION {After(o,
         IF o.res = 0 /\ Head(models).upsert
         THEN UNION {After(u, UpdateModels(u.store, ns, docs, Tail(models), matched + 1,
                                           upserted \o u.res)) :
                       u \in Upsert(o.store, ns, Head(models))}
         ELSE UpdateModels(o.store, ns, docs, Tail(models), matched + o.res, upserted)) :
           o \in UpdateDocs(s, ns, docs, Head(models), 0)}

Update(s, ns, models) ==
  UNION {UpdateModels(o.store, ns, o.res, models, 0, << >>) :
           o \in Find(Created(s, ns, NoFields), ns, FindAll)}

\* A faulty variant: limit 0 is taken for a limit of one.
RemovesOne(matching, model) == Limited(matching, 1)

\* What a model deletes of the documents read at the start.
Removes(matching, model) == IF model.limit = 1 THEN Limited(matching, 1) ELSE matching

Removals(docs, models) ==
  FlattenSeq([i \in DOMAIN models |->
    Removes(SelectSeq(docs, LAMBDA d : Matches(d, models[i].q)), models[i])])

\* A document that several models match is counted by each of them.
Deleted(s, ns, removals) ==
  Outcome("ok", [s EXCEPT !.tables[ns] =
                   Restrict(@, DOMAIN @ \ {DocumentIDKey(d) : d \in ToSet(removals)})],
          Len(removals))

Delete(s, ns, models) ==
  {Deleted(o.store, ns, Removals(o.res, models)) : o \in Find(s, ns, FindAll)}

\* ON DUPLICATE KEY UPDATE: an index of the name is redefined.
CreateIndexes(s, ns, models) ==
  LET s1 == Created(s, ns, NoFields)
      Row(model) == << s1.catalog[ns][1], IF model.name = "" THEN "unnamed_1" ELSE model.name >>
      Def(model) == model.opts @@ "key" :> Obj(model.key)
      indexes == FoldLeft(LAMBDA rows, model : With(rows, Row(model), Def(model)),
                          s1.indexes, models)
  IN  Done([s1 EXCEPT !.indexes = indexes], Len(models))

DefaultIndex == "name" :> Str("_id_") @@ "key" :> Obj("_id" :> Num("int32", 1))

ListIndexes(s, ns) ==
  LET rows == {row \in DOMAIN s.indexes : ns \in DOMAIN s.catalog /\ row[1] = s.catalog[ns][1]}
      order == SetToSortSeq(rows, LAMBDA m, n : Rank(m[2]) < Rank(n[2]))
  IN  Done(s, << DefaultIndex >> \o
              [i \in DOMAIN order |-> With(s.indexes[order[i]], "name", Str(order[i][2]))])
=============================================================================
