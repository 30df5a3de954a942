-------------------------------- MODULE Backend -------------------------------
(***************************************************************************)
(* What the command handlers and the stores have in common                 *)
(* (internal/backend): the outcome of a call, which is an answer, an error *)
(* or a panic, together with the contents of the store after it.  A call   *)
(* that fails keeps what it has changed before.  Calls depend on the order *)
(* of Go's maps, of table scans and of update operators, so that each has  *)
(* a set of outcomes.                                                      *)
(*                                                                         *)
(* A collection is a function from _id keys to documents, and a namespace  *)
(* a pair of a database and a collection name.                             *)
(***************************************************************************)
EXTENDS Mql

Outcome(end, s, res) == [end |-> end, store |-> s, res |-> res]
Done(s, res) == {Outcome("ok", s, res)}
Failed(s) == {Outcome("error", s, Nil)}

\* What follows a call; it is not reached when the call fails.
After(o, outcomes) == IF o.end = "ok" THEN outcomes ELSE {o}

\* The answer of a call, as a field of the reply.
ReplyWith(field, outcomes) ==
  {IF o.end = "ok" THEN [o EXCEPT !.res = field :> @] ELSE o : o \in outcomes}

\* The documents of a collection in the orders a scan may find them.
Scans(coll) ==
  {[i \in DOMAIN keys |-> coll[keys[i]]] : keys \in SetToSeqs(DOMAIN coll)}

NoOptions == [sort |-> NoFields, skip |-> 0, limit |-> 0, projection |-> NoFields]
FindAll == [filter |-> NoFields, opts |-> NoOptions]
FindBy(filter, limit) == [filter |-> filter, opts |-> [NoOptions EXCEPT !.limit = limit]]

\* Find's answers to a request, given the scans of the collection.
FoundIn(scans, req) ==
  UNION {ApplyFindOptions(SelectSeq(scan, LAMBDA d : Matches(d, req.filter)), req.opts) :
           scan \in scans}

\* Values of a field: a slice or a map cannot be a key of Go's map "seen".
Unhashable(docs, field) ==
  \E i \in DOMAIN docs : Kind(Field(docs[i], field)) \in {"arr", "obj"}

DistinctValues(docs, field) ==
  LET having == SelectSeq(docs, LAMBDA d : field \in DOMAIN d)
      values == [i \in DOMAIN having |-> having[i][field]]
  IN  FoldLeft(LAMBDA seen, v : IF v \in ToSet(seen) THEN seen ELSE Append(seen, v),
               << >>, values)

\* A faulty variant: the _id of the filter is not used.
UpsertedAnew(doc, fresh) == With(doc, "_id", fresh)

Upserted(doc, fresh) == IF "_id" \in DOMAIN doc THEN doc ELSE With(doc, "_id", fresh)

\* "upsert-" and the time: a key that no document of the collection has.
FreshID(coll) ==
  LET ids == [n \in 0..Cardinality(DOMAIN coll) |-> Str("upsert-" \o ToString(n))]
  IN  ids[CHOOSE n \in DOMAIN ids : ValueKey(ids[n]) \notin DOMAIN coll]
=============================================================================
