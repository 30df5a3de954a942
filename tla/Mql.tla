-------------------------------- MODULE Mql ----------------------------------
(***************************************************************************)
(* The query language of timongo (internal/mql): paths, filters,           *)
(* validators, sorting, projections and find options; updates and          *)
(* pipelines have modules of their own.  Go iterates over maps in any      *)
(* order: an operator whose result depends on it gives the set of its      *)
(* possible results.                                                       *)
(***************************************************************************)
EXTENDS Bson

CONSTANT Language   \* for each regular expression the printed forms it matches

-----------------------------------------------------------------------------
(* valueByPath *)
Prefix(s, n) == SubSeq(s, 1, n)
IsOperator(key) == Len(key) > 0 /\ Prefix(key, 1) = "$"
TrimDollar(s) == IF IsOperator(s) THEN Tail(s) ELSE s

\* strings.Split(path, ".")
RECURSIVE Parts(_)
Parts(path) ==
  LET dots == {i \in 1..Len(path) : SubSeq(path, i, i) = "."}
  IN  IF dots = {} THEN << path >>
      ELSE << Prefix(path, Min(dots) - 1) >>
             \o Parts(SubSeq(path, Min(dots) + 1, Len(path)))

\* The values of one field in a document or in the documents of an array.
Members(v, part) ==
  LET docs == IF Kind(v) = "arr" THEN SelectSeq(v[2], LAMBDA x : Kind(x) = "obj")
              ELSE IF Kind(v) = "obj" THEN << v >> ELSE << >>
      having == SelectSeq(docs, LAMBDA x : part \in DOMAIN x[2])
  IN  [i \in DOMAIN having |-> having[i][2][part]]

Descend(values, part) == FlattenSeq([i \in DOMAIN values |-> Members(values[i], part)])

ValueByPath(doc, path) ==
  IF path \in DOMAIN doc THEN doc[path]
  ELSE LET found == FoldLeft(Descend, << Obj(doc) >>, Parts(path))
       IN  CASE found = << >>   -> Missing
             [] Len(found) = 1  -> found[1]
             [] OTHER           -> Arr(found)

Got(v) == IF v = Missing THEN Nil ELSE v

-----------------------------------------------------------------------------
(* Matches *)
HasType(v, name) ==
  CASE name = "string" -> Kind(v) = "str"
    [] name = "int"    -> IsNumber(v) /\ v[3] = "int32"
    [] name = "long"   -> IsNumber(v) /\ v[3] = "int64"
    [] name \in {"double", "decimal"} -> IsNumber(v) /\ v[3] = "double"
    [] name = "array"  -> Kind(v) = "arr"
    [] name = "object" -> AsMap(v) # NoFields
    [] name = "date"   -> Kind(v) = "date"
    [] OTHER           -> TRUE

MatchesBSONType(v, rawType) ==
  LET types == IF AsArray(rawType) = << >> THEN << rawType >> ELSE AsArray(rawType)
  IN  \E i \in DOMAIN types : HasType(v, Printed(types[i]))

\* Operators that put no condition on the value, and top-level ones that put
\* none on the document.
Unconditional == {"$bitsAllSet", "$bitsAnyClear", "$geoWithin", "$geoIntersects", "$near"}
Ignored == {"$expr", "$jsonSchema", "$text", "$where"}

RECURSIVE Matches(_, _)
RECURSIVE MatchValue(_, _)

\* Go's remainder has the sign of the dividend.
Abs(n) == IF n < 0 THEN -n ELSE n
Remainder(n, m) == LET r == Abs(n) % Abs(m) IN IF n < 0 THEN -r ELSE r

\* One operator of a condition, on a value that may be missing.
MatchOperator(v, op, arg) ==
  LET got == Got(v)
      exists == v # Missing
      items == ToSet(AsArray(arg))
  IN
  CASE op = "$eq"  -> exists /\ ValueEquals(got, arg)
    [] op = "$ne"  -> ~(exists /\ ValueEquals(got, arg))
    [] op = "$gt"  -> exists /\ Below(arg, got)
    [] op = "$gte" -> exists /\ ~Below(got, arg)
    [] op = "$lt"  -> exists /\ Below(got, arg)
    [] op = "$lte" -> exists /\ ~Below(arg, got)
    [] op = "$in"  -> \E item \in items : ValueEquals(got, item)
    [] op = "$nin" -> \A item \in items : ~ValueEquals(got, item)
    [] op = "$exists" -> exists = Truthy(arg)
    [] op = "$regex"  -> Printed(got) \in Language[Printed(arg)]
    [] op = "$all"    -> \A item \in items : ArrayContains(got, item)
    [] op = "$size"   -> Len(AsArray(got)) = ToFloat(arg)
    [] op = "$elemMatch" ->
         \E item \in ToSet(AsArray(got)) :
           AsMap(item) # NoFields /\ Matches(AsMap(item), AsMap(arg))
    [] op = "$not"  -> ~MatchValue(v, arg)
    [] op = "$mod"  ->
         LET args == AsArray(arg)
         IN  /\ Len(args) = 2 /\ ToFloat(args[1]) # 0
             /\ Remainder(ToFloat(got), ToFloat(args[1])) = ToFloat(args[2])
    [] op = "$type" -> MatchesBSONType(got, Str(Printed(arg)))
    [] OTHER -> op \in Unconditional

MatchValue(v, want) ==
  IF Kind(want) = "obj"
  THEN \A op \in DOMAIN want[2] : MatchOperator(v, op, want[2][op])
  ELSE v # Missing /\ ValueEquals(v, want)

Matches(doc, filter) ==
  \A key \in DOMAIN filter :
    LET filters == {AsMap(f) : f \in ToSet(AsArray(filter[key]))}
    IN  CASE key = "$and" -> \A f \in filters : Matches(doc, f)
          [] key = "$or"  -> \E f \in filters : Matches(doc, f)
          [] key = "$nor" -> \A f \in filters : ~Matches(doc, f)
          [] key \in Ignored -> TRUE
          [] OTHER -> MatchValue(ValueByPath(doc, key), filter[key])

-----------------------------------------------------------------------------
(* ValidateJSONSchema *)
Valid(validator, doc) ==
  LET schema == AsMap(FieldOr(validator, "$jsonSchema", Nil))
      required == {r[2] : r \in {x \in ToSet(AsArray(FieldOr(schema, "required", Nil))) :
                                   Kind(x) = "str"}}
      properties == AsMap(FieldOr(schema, "properties", Nil))
  IN  /\ required \ {""} \subseteq DOMAIN doc
      /\ \A name \in DOMAIN properties \cap DOMAIN doc :
           LET spec == AsMap(properties[name])
           IN  /\ "enum" \in DOMAIN spec => ArrayContains(spec["enum"], doc[name])
               /\ "bsonType" \in DOMAIN spec => MatchesBSONType(doc[name], spec["bsonType"])

-----------------------------------------------------------------------------
(* Sorting.  sort.SliceStable sorts by insertion, in blocks of 20: exactly *)
(* insertion sort for the lengths here, also for the orders of mixed       *)
(* values, which may have cycles.  An entry is << key, item >>.            *)
Before(a, b, desc) == LET low == IF desc THEN b ELSE a  high == IF desc THEN a ELSE b
                      IN  Below(low[1], high[1])

RECURSIVE Place(_, _, _)
Place(sorted, entry, desc) ==
  IF sorted = << >> \/ ~Before(entry, Last(sorted), desc)
  THEN Append(sorted, entry)
  ELSE Append(Place(Front(sorted), entry, desc), Last(sorted))

SliceStable(entries, desc) ==
  LET sorted == FoldLeft(LAMBDA s, e : Place(s, e, desc), << >>, entries)
  IN  [i \in DOMAIN sorted |-> sorted[i][2]]

SortedBy(docs, field, dir) ==
  SliceStable([i \in DOMAIN docs |-> << Got(ValueByPath(docs[i], field)), docs[i] >>],
              ToFloat(dir) < 0)

\* sortDocs sorts by the first field that Go's map iteration comes to.
SortDocs(docs, spec) ==
  IF spec = NoFields THEN {docs}
  ELSE {IF field = "$natural" THEN docs ELSE SortedBy(docs, field, spec[field]) :
          field \in DOMAIN spec}

-----------------------------------------------------------------------------
(* project *)
Included(spec) == {f \in DOMAIN spec : ToFloat(spec[f]) # 0}
Excluded(spec) == {f \in DOMAIN spec : ToFloat(spec[f]) = 0}

Projected(doc, spec) ==
  IF Included(spec) \ {"_id"} = {}
  THEN Restrict(doc, DOMAIN doc \ Excluded(spec))
  ELSE LET fields == {f \in Included(spec) : ValueByPath(doc, f) # Missing}
                       \cup (IF "_id" \in Excluded(spec) THEN {} ELSE {"_id"} \cap DOMAIN doc)
       IN  [f \in fields |-> ValueByPath(doc, f)]

Project(docs, spec) == [i \in DOMAIN docs |-> Projected(docs[i], spec)]

(* ApplyFindOptions, without and with the projection. *)
Skipped(docs, n) == IF n > 0 THEN SubSeq(docs, n + 1, Len(docs)) ELSE docs
Limited(docs, n) == IF n > 0 /\ n < Len(docs) THEN Prefix(docs, n) ELSE docs
\* A faulty variant: the limit before the skip.
LimitThenSkip(docs, opts) ==
  {Skipped(Limited(sorted, opts.limit), opts.skip) : sorted \in SortDocs(docs, opts.sort)}

Window(docs, opts) ==
  {Limited(Skipped(sorted, opts.skip), opts.limit) : sorted \in SortDocs(docs, opts.sort)}

ApplyFindOptions(docs, opts) ==
  {IF opts.projection = NoFields THEN window ELSE Project(window, opts.projection) :
     window \in Window(docs, opts)}
=============================================================================
