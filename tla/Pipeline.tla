------------------------------- MODULE Pipeline -------------------------------
(***************************************************************************)
(* ApplyPipeline (internal/mql): the stages of an aggregation, one after   *)
(* the other.  A stage is a document with one field, its operator.  An     *)
(* outcome is a sequence of documents, an error, or a panic: a slice out   *)
(* of range, which ends the process.                                       *)
(***************************************************************************)
EXTENDS Mql

Yields(docs) == [end |-> "docs", docs |-> docs]
Error == [end |-> "error", docs |-> << >>]
Panic == [end |-> "panic", docs |-> << >>]

\* evalExpr: the value at a path, a document of such values, or a literal.
RECURSIVE EvalExpr(_, _)
EvalExpr(doc, expr) ==
  CASE Kind(expr) = "str" /\ Len(expr[2]) > 1 /\ IsOperator(expr[2]) ->
         Got(ValueByPath(doc, Tail(expr[2])))
    [] AsMap(expr) # NoFields -> Obj([k \in DOMAIN expr[2] |-> EvalExpr(doc, expr[2][k])])
    [] OTHER -> expr

-----------------------------------------------------------------------------
(* $group *)
\* A faulty variant: the printed form, which is the same for 1 and "1".
PrintedKey(v) == Printed(v)

\* fmt.Sprintf("%#v", id) tells all values apart but numbers of different types.
RECURSIVE GroupKey(_)
GroupKey(v) ==
  CASE Kind(v) = "num" -> << "num", v[2] >>
    [] Kind(v) = "arr" -> << "arr", [i \in DOMAIN v[2] |-> GroupKey(v[2][i])] >>
    [] Kind(v) = "obj" -> << "obj", [k \in DOMAIN v[2] |-> GroupKey(v[2][k])] >>
    [] OTHER -> v

Accumulators == {"$sum", "$avg", "$min", "$max", "$push", "$addToSet"}
Sum(values) == FoldLeft(LAMBDA n, v : n + ToFloat(v), 0, values)

Extreme(op, old, v) ==
  IF (op = "$min" /\ Below(v, old)) \/ (op = "$max" /\ Below(old, v)) THEN v ELSE old

\* $avg divides; the quotient is kept as such.
Accumulated(op, values) ==
  CASE op = "$sum" -> Num("double", Sum(values))
    [] op = "$avg" -> << "quotient", Sum(values), Len(values) >>
    [] op \in {"$min", "$max"} ->
         FoldLeft(LAMBDA old, v : Extreme(op, old, v), Head(values), Tail(values))
    [] op = "$push" -> Arr(values)
    [] op = "$addToSet" ->
         Arr(FoldLeft(LAMBDA arr, v : IF ArrayContains(Arr(arr), v) THEN arr ELSE Append(arr, v),
                      << >>, values))

OnlyField(doc) == CHOOSE name \in DOMAIN doc : TRUE
Values(docs, expr) == [i \in DOMAIN docs |-> EvalExpr(docs[i], expr)]
IDs(docs, spec) == Values(docs, FieldOr(spec, "_id", Nil))

\* The document of a group: what its members accumulate to.
GroupDoc(members, spec) ==
  [name \in {"_id"} \cup {f \in DOMAIN spec : AsMap(spec[f]) # NoFields} |->
     IF name = "_id" THEN IDs(members, spec)[1]
     ELSE Accumulated(OnlyField(AsMap(spec[name])),
                      Values(members, spec[name][2][OnlyField(spec[name][2])]))]

CountBy(expr) == "_id" :> expr @@ "count" :> Obj("$sum" :> Num("int32", 1))

\* The groups come out of a map, in any order.
Group(docs, spec, ids) ==
  IF docs # << >> /\ ~({OnlyField(AsMap(spec[f])) :
                         f \in {g \in DOMAIN spec \ {"_id"} : AsMap(spec[g]) # NoFields}}
                       \subseteq Accumulators)
  THEN {Error}
  ELSE {Yields([i \in DOMAIN keys |->
                  GroupDoc(SelectSeq(docs, LAMBDA d : GroupKey(EvalExpr(d, FieldOr(spec, "_id", Nil))) = keys[i]), spec)]) :
          keys \in SetToSeqs({GroupKey(ids[i]) : i \in DOMAIN ids})}

-----------------------------------------------------------------------------
(* The other stages. *)
\* A faulty variant: the first element is left out.
UnwoundTail(doc, path) ==
  LET arr == AsArray(FieldOr(doc, path, Nil))
  IN  [i \in 1..(Len(arr) - 1) |-> With(doc, path, arr[i + 1])]

Unwound(doc, path) ==
  LET arr == AsArray(FieldOr(doc, path, Nil))
  IN  [i \in DOMAIN arr |-> With(doc, path, arr[i])]

UnwindPath(arg) ==
  TrimDollar(CASE Kind(arg) = "str" -> arg[2]
               [] Kind(arg) = "obj" -> Printed(FieldOr(arg[2], "path", Nil))
               [] OTHER -> "")

Unwind(docs, arg) ==
  IF UnwindPath(arg) = "" THEN docs
  ELSE FlattenSeq([i \in DOMAIN docs |-> Unwound(docs[i], UnwindPath(arg))])

AddedFields(doc, spec) == [f \in DOMAIN spec |-> EvalExpr(doc, spec[f])] @@ doc

UnsetNames(arg) ==
  IF Kind(arg) = "str" THEN {arg[2]} ELSE {Printed(x) : x \in ToSet(AsArray(arg))}

Roots(docs, newRoot) ==
  SelectSeq([i \in DOMAIN docs |-> EvalExpr(docs[i], newRoot)], LAMBDA v : Kind(v) = "obj")

CountName(arg) == IF Kind(arg) = "str" /\ arg[2] # "" THEN arg[2] ELSE "count"

\* The outcomes of stage op with argument arg.
ApplyStage(docs, op, arg) ==
  LET n == ToFloat(arg)
      spec == AsMap(arg)
      size == ToFloat(FieldOr(spec, "size", Nil))
  IN
  CASE op = "$match" -> {Yields(SelectSeq(docs, LAMBDA d : Matches(d, spec)))}
    [] op = "$limit" ->
         {IF n >= Len(docs) THEN Yields(docs)
          ELSE IF n < 0 THEN Panic ELSE Yields(Prefix(docs, n))}
    [] op = "$skip"  ->
         {IF n < 0 THEN Panic ELSE Yields(SubSeq(docs, n + 1, Len(docs)))}
    [] op = "$sort"  -> {Yields(sorted) : sorted \in SortDocs(docs, spec)}
    [] op = "$project" -> {Yields(Project(docs, spec))}
    [] op \in {"$addFields", "$set"} ->
         {Yields([i \in DOMAIN docs |-> AddedFields(docs[i], spec)])}
    [] op = "$unset" ->
         {Yields([i \in DOMAIN docs |->
                    Restrict(docs[i], DOMAIN docs[i] \ UnsetNames(arg))])}
    [] op = "$unwind" -> {Yields(Unwind(docs, arg))}
    [] op = "$count" -> {Yields(<< CountName(arg) :> Num("int64", Len(docs)) >>)}
    [] op = "$group" -> Group(docs, spec, IDs(docs, spec))
    [] op = "$sortByCount" ->
         {Yields(SortedBy(g.docs, "count", Num("int32", -1))) :
            g \in Group(docs, CountBy(arg), IDs(docs, CountBy(arg)))}
    [] op = "$replaceRoot" ->
         LET roots == Roots(docs, FieldOr(spec, "newRoot", Nil))
         IN  {Yields([i \in DOMAIN roots |-> roots[i][2]])}
    [] op = "$sample" ->
         {Yields(IF size > 0 /\ size < Len(docs) THEN Prefix(docs, size) ELSE docs)}
    [] op = "$planCacheStats" ->
         {Yields(<< "createdFromQuery" :> Obj(NoFields) @@ "works" :> Num("int32", 0) >>)}
    [] OTHER -> {Error}

RECURSIVE ApplyPipeline(_, _)
ApplyPipeline(docs, pipeline) ==
  IF pipeline = << >> THEN {Yields(docs)}
  ELSE LET stage == Head(pipeline)
           op == CHOOSE o \in DOMAIN stage : TRUE
       IN  UNION {IF o.end = "docs" THEN ApplyPipeline(o.docs, Tail(pipeline)) ELSE {o} :
                    o \in ApplyStage(docs, op, stage[op])}
=============================================================================
