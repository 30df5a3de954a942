------------------------------- MODULE Updates --------------------------------
(***************************************************************************)
(* ApplyUpdate (internal/mql): what an update makes of one document.       *)
(***************************************************************************)
EXTENDS Mql

LOCAL INSTANCE Bitwise

\* An error instead of a document.
Refused == [ok |-> FALSE, doc |-> NoFields]
Made(doc) == [ok |-> TRUE, doc |-> doc]

UpdateOperators ==
  {"$set", "$inc", "$mul", "$min", "$max", "$rename", "$unset", "$currentDate",
   "$addToSet", "$push", "$pull", "$pop", "$bit"}

\* addNumbers: what is no number is replaced by the operand.
Added(left, right) ==
  IF IsNumber(left) THEN Num("double", ToFloat(left) + ToFloat(right)) ELSE right

\* $push: all of $each, sorted if $sort is there, then the first or last of them.
Sorted(arr, spec) ==
  IF "$sort" \notin DOMAIN spec THEN arr
  ELSE SliceStable([i \in DOMAIN arr |-> << arr[i], arr[i] >>], ToFloat(spec["$sort"]) < 0)

\* A faulty variant: the last ones kept are one too many.
SlicedByOne(arr, spec) ==
  IF "$slice" \notin DOMAIN spec THEN arr
  ELSE LET n == ToFloat(spec["$slice"])
       IN  CASE n >= 0 /\ n < Len(arr)  -> Prefix(arr, n)
             [] n < 0 /\ -n < Len(arr)  -> SubSeq(arr, Len(arr) + n, Len(arr))
             [] OTHER                   -> arr

Sliced(arr, spec) ==
  IF "$slice" \notin DOMAIN spec THEN arr
  ELSE LET n == ToFloat(spec["$slice"])
       IN  CASE n >= 0 /\ n < Len(arr)  -> Prefix(arr, n)
             [] n < 0 /\ -n < Len(arr)  -> SubSeq(arr, Len(arr) + n + 1, Len(arr))
             [] OTHER                   -> arr

Pushed(arr, v) ==
  LET spec == AsMap(v)
  IN  IF spec = NoFields THEN Append(arr, v)
      ELSE Sliced(Sorted(arr \o AsArray(FieldOr(spec, "$each", Nil)), spec), spec)

Popped(arr, v) == IF ToFloat(v) < 0 THEN Tail(arr) ELSE Front(arr)

Bits(n, spec) ==
  LET orred == IF "or" \in DOMAIN spec THEN n | ToFloat(spec["or"]) ELSE n
      anded == IF "and" \in DOMAIN spec THEN orred & ToFloat(spec["and"]) ELSE orred
  IN  IF "xor" \in DOMAIN spec THEN anded ^^ ToFloat(spec["xor"]) ELSE anded

\* One operator on one of its fields.  The field is a key, never a path.
Modified(doc, op, key, v) ==
  LET old == FieldOr(doc, key, Nil)
      arr == AsArray(old)
      has == key \in DOMAIN doc
  IN
  CASE op = "$set" -> With(doc, key, v)
    [] op = "$inc" -> With(doc, key, Added(old, v))
    [] op = "$mul" -> With(doc, key, Num("double", ToFloat(old) * ToFloat(v)))
    [] op = "$min" -> IF ~has \/ Below(v, old) THEN With(doc, key, v) ELSE doc
    [] op = "$max" -> IF ~has \/ Below(old, v) THEN With(doc, key, v) ELSE doc
    [] op = "$rename" -> IF has THEN Without(With(doc, Printed(v), old), key) ELSE doc
    [] op = "$unset" -> Without(doc, key)
    [] op = "$currentDate" -> With(doc, key, Now)
    [] op = "$addToSet" ->
         With(doc, key, Arr(IF ArrayContains(old, v) THEN arr ELSE Append(arr, v)))
    [] op = "$push" -> With(doc, key, Arr(Pushed(arr, v)))
    [] op = "$pull" -> With(doc, key, Arr(SelectSeq(arr, LAMBDA x : ~ValueEquals(x, v))))
    [] op = "$pop"  -> IF arr = << >> THEN doc ELSE With(doc, key, Arr(Popped(arr, v)))
    [] op = "$bit"  -> With(doc, key, Num("int32", Bits(ToFloat(old), AsMap(v))))

\* The two loops over maps: the operators in any order, and the fields of each
\* of them in any order.
RECURSIVE OnFields(_, _, _)
OnFields(doc, op, body) ==
  IF body = NoFields THEN {doc}
  ELSE UNION {OnFields(Modified(doc, op, key, body[key]), op, Without(body, key)) :
                key \in DOMAIN body}

RECURSIVE Operated(_, _)
Operated(doc, update) ==
  IF update = NoFields THEN {doc}
  ELSE UNION {UNION {Operated(d, Without(update, op)) : d \in OnFields(doc, op, AsMap(update[op]))} :
                op \in DOMAIN update}

IsOperatorStyle(update) == \E key \in DOMAIN update : IsOperator(key)

\* A replacement keeps the _id of the document unless it brings its own.
Replacement(doc, update) ==
  IF "_id" \in DOMAIN update \/ FieldOr(doc, "_id", Nil) = Nil THEN update
  ELSE With(update, "_id", doc["_id"])

ApplyUpdate(doc, update) ==
  CASE update = NoFields -> {Made(doc)}
    [] ~IsOperatorStyle(update) -> {Made(Replacement(doc, update))}
    [] OTHER -> IF DOMAIN update \subseteq UpdateOperators
                THEN {Made(d) : d \in Operated(doc, update)} ELSE {Refused}
=============================================================================
