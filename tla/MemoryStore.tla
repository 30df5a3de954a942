------------------------------ MODULE MemoryStore -----------------------------
(***************************************************************************)
(* The in-memory store (internal/backend/memory): three maps over          *)
(* namespaces.  Every call runs under the store's lock, so that it is one  *)
(* step.                                                                   *)
(***************************************************************************)
EXTENDS Backend, Updates

NewStore == [collections |-> NoFields, options |-> NoFields, indexes |-> NoFields]

Namespace(ns) == ns[1] \o "." \o ns[2]
DefaultIndex == "name" :> Str("_id_") @@ "key" :> Obj("_id" :> Num("int32", 1))

\* The maps with the collection and its default index in them.
Collection(s, ns) == FieldOr(s.collections, Namespace(ns), NoFields)
Keep(s, ns, coll) ==
  [s EXCEPT !.collections = With(@, Namespace(ns), coll),
            !.indexes = With(@, Namespace(ns), FieldOr(@, Namespace(ns), << DefaultIndex >>))]
Open(s, ns) == Keep(s, ns, Collection(s, ns))
Drop(s, names) ==
  [part \in DOMAIN s |-> Restrict(s[part], DOMAIN s[part] \ names)]

OfDatabase(s, db) ==
  LET prefix == db \o "."
  IN  {n \in DOMAIN s.collections : Len(n) >= Len(prefix) /\ Prefix(n, Len(prefix)) = prefix}

CreateCollection(s, ns, validator) ==
  Done([Open(s, ns) EXCEPT !.options = With(@, Namespace(ns),
          IF validator = NoFields THEN NoFields ELSE "validator" :> Obj(validator))], Nil)

ListCollections(s, db, filter) ==
  LET NameOf(n) == SubSeq(n, Len(db) + 2, Len(n))
      wanted == Field(filter, "name")
      found == {n \in OfDatabase(s, db) : Kind(wanted) = "str" => wanted[2] = NameOf(n)}
  IN  UNION {Done(s, [i \in DOMAIN order |->
                        << NameOf(order[i]), FieldOr(s.options, order[i], NoFields) >>]) :
               order \in SetToSeqs(found)}

DropCollection(s, ns) == Done(Drop(s, {Namespace(ns)}), Nil)
DropDatabase(s, db) == Done(Drop(s, OfDatabase(s, db)), Nil)

\* The documents before one that is refused stay.
RECURSIVE InsertAll(_, _, _)
InsertAll(s, ns, docs) ==
  IF docs = << >> THEN s
  ELSE LET doc == Head(docs)
           key == DocumentIDKey(doc)
           coll == Collection(s, ns)
           options == FieldOr(s.options, Namespace(ns), NoFields)
       IN  IF ~Valid(AsMap(Field(options, "validator")), doc) \/ key = NoKey \/ key \in DOMAIN coll
           THEN s
           ELSE InsertAll(Keep(s, ns, With(coll, key, doc)), ns, Tail(docs))

Insert(s, ns, docs) ==
  LET s1 == InsertAll(Open(s, ns), ns, docs)
      added == Cardinality(DOMAIN Collection(s1, ns)) - Cardinality(DOMAIN Collection(s, ns))
  IN  IF added = Len(docs) THEN Done(s1, Len(docs)) ELSE Failed(s1)

Find(s, ns, req) == {Outcome("ok", s, docs) : docs \in FoundIn(Scans(Collection(s, ns)), req)}

\* One model of an update: the loop over the map stops after a match unless
\* it is multi; without a match an upsert stores the filter, updated.
RECURSIVE UpdateKeys(_, _, _, _, _)
UpdateKeys(s, ns, keys, model, n) ==
  IF keys = << >> \/ (n > 0 /\ ~model.multi) THEN Done(s, n)
  ELSE LET coll == Collection(s, ns)
           key == Head(keys)
       IN  IF ~Matches(coll[key], model.q) THEN UpdateKeys(s, ns, Tail(keys), model, n)
           ELSE UNION {IF a.ok
                       THEN UpdateKeys(Keep(s, ns, With(coll, key, a.doc)), ns, Tail(keys), model, n + 1)
                       ELSE Failed(s) : a \in ApplyUpdate(coll[key], model.u)}

Upsert(s, ns, model) ==
  LET coll == Collection(s, ns)
      Stored(doc) == IF DocumentIDKey(doc) = NoKey THEN Failed(s)
                     ELSE Done(Keep(s, ns, With(coll, DocumentIDKey(doc), doc)), << doc["_id"] >>)
  IN  UNION {IF a.ok THEN Stored(Upserted(a.doc, FreshID(coll))) ELSE Failed(s) :
               a \in ApplyUpdate(model.q, model.u)}

\* Matched and upserted documents of the models from the first one on.
RECURSIVE UpdateModels(_, _, _, _, _)
UpdateModels(s, ns, models, matched, upserted) ==
  IF models = << >> THEN Done(s, [n |-> matched, upserted |-> upserted])
  ELSE LET model == Head(models)
           orders == SetToSeqs(DOMAIN Collection(s, ns))
           replaced == UNION {UpdateKeys(s, ns, keys, model, 0) : keys \in orders}
       IN  UNION {After(o,
             IF o.res = 0 /\ model.upsert
             THEN UNION {After(u, UpdateModels(u.store, ns, Tail(models), matched + 1, upserted \o u.res)) :
                           u \in Upsert(o.store, ns, model)}
             ELSE UpdateModels(o.store, ns, Tail(models), matched + o.res, upserted)) :
               o \in replaced}

Update(s, ns, models) == UpdateModels(Open(s, ns), ns, models, 0, << >>)

\* The keys a model may delete.
Removals(matching, model) ==
  IF model.limit = 1 /\ matching # {} THEN {{key} : key \in matching} ELSE {matching}

\* A model sees what those before it have left.
RECURSIVE DeleteModels(_, _, _, _)
DeleteModels(s, ns, models, n) ==
  IF models = << >> THEN Done(s, n)
  ELSE LET coll == Collection(s, ns)
       IN  UNION {DeleteModels(IF keys = {} THEN s ELSE Keep(s, ns, Restrict(coll, DOMAIN coll \ keys)),
                               ns, Tail(models), n + Cardinality(keys)) :
                    keys \in Removals({k \in DOMAIN coll : Matches(coll[k], Head(models).q)},
                                      Head(models))}

Delete(s, ns, models) == DeleteModels(s, ns, models, 0)

\* An index without a name gets that of one of its fields.
IndexNames(model) ==
  IF model.name # "" THEN {model.name}
  ELSE IF model.key = NoFields THEN {"unnamed_1"}
  ELSE {f \o "_" \o Printed(model.key[f]) : f \in DOMAIN model.key}

RECURSIVE AddIndexes(_, _, _)
AddIndexes(s, ns, models) ==
  IF models = << >> THEN {s}
  ELSE LET model == Head(models)
           Def(name) == model.opts @@ "name" :> Str(name) @@ "key" :> Obj(model.key)
       IN  UNION {AddIndexes([s EXCEPT !.indexes[Namespace(ns)] = Append(@, Def(name))],
                             ns, Tail(models)) : name \in IndexNames(model)}

CreateIndexes(s, ns, models) ==
  {Outcome("ok", s1, Len(models)) : s1 \in AddIndexes(Open(s, ns), ns, models)}

ListIndexes(s, ns) == Done(s, FieldOr(s.indexes, Namespace(ns), << >>))
=============================================================================
