--------------------------------- MODULE Stores --------------------------------
(***************************************************************************)
(* The interface Store of internal/backend, and which of its two           *)
(* implementations a call reaches: the contents of a store tell its kind.  *)
(***************************************************************************)
EXTENDS Backend, Pipeline

T == INSTANCE SqlStore
M == INSTANCE MemoryStore

InMemory(s) == "collections" \in DOMAIN s

CreateCollection(s, ns, validator) ==
  IF InMemory(s) THEN M!CreateCollection(s, ns, validator)
  ELSE T!CreateCollection(s, ns, validator)
ListCollections(s, db, filter) ==
  IF InMemory(s) THEN M!ListCollections(s, db, filter) ELSE T!ListCollections(s, db, filter)
DropCollection(s, ns) ==
  IF InMemory(s) THEN M!DropCollection(s, ns) ELSE T!DropCollection(s, ns)
DropDatabase(s, db) == IF InMemory(s) THEN M!DropDatabase(s, db) ELSE T!DropDatabase(s, db)
Insert(s, ns, docs) == IF InMemory(s) THEN M!Insert(s, ns, docs) ELSE T!Insert(s, ns, docs)
Find(s, ns, req) == IF InMemory(s) THEN M!Find(s, ns, req) ELSE T!Find(s, ns, req)
Update(s, ns, models) == IF InMemory(s) THEN M!Update(s, ns, models) ELSE T!Update(s, ns, models)
Delete(s, ns, models) == IF InMemory(s) THEN M!Delete(s, ns, models) ELSE T!Delete(s, ns, models)
CreateIndexes(s, ns, models) ==
  IF InMemory(s) THEN M!CreateIndexes(s, ns, models) ELSE T!CreateIndexes(s, ns, models)
ListIndexes(s, ns) == IF InMemory(s) THEN M!ListIndexes(s, ns) ELSE T!ListIndexes(s, ns)

\* What both stores do with the documents of a find.  A panic ends the process
\* and what it holds in memory; the tables are in TiDB.
Count(s, ns, filter) ==
  {IF o.end = "ok" THEN [o EXCEPT !.res = Len(@)] ELSE o : o \in Find(s, ns, FindBy(filter, 0))}

Panicked(s) == Outcome("panic", IF InMemory(s) THEN M!NewStore ELSE s, Nil)

Distinct(s, ns, field, filter) ==
  {IF o.end # "ok" THEN o
   ELSE IF Unhashable(o.res, field) THEN Panicked(o.store)
   ELSE [o EXCEPT !.res = DistinctValues(@, field)] : o \in Find(s, ns, FindBy(filter, 0))}

Aggregated(s, outcomes) ==
  {CASE p.end = "docs"  -> Outcome("ok", s, p.docs)
     [] p.end = "error" -> Outcome("error", s, Nil)
     [] p.end = "panic" -> Panicked(s) : p \in outcomes}

Aggregate(s, ns, stages) ==
  UNION {Aggregated(o.store, ApplyPipeline(o.res, stages)) : o \in Find(s, ns, FindAll)}
=============================================================================
