-------------------------------- MODULE Bson ---------------------------------
(***************************************************************************)
(* BSON values as timongo's Go code sees them, the key under which a       *)
(* document is stored (internal/bsonutil), and the comparisons of          *)
(* internal/mql, which are numerical between numbers and go by the printed *)
(* form between all other values.                                          *)
(*                                                                         *)
(* A value is a tuple that starts with its kind; a document is a function  *)
(* from field names to values.  Numbers are small integers, whatever their *)
(* BSON type, so that they print alike.                                    *)
(***************************************************************************)
EXTENDS Integers, SequencesExt

CONSTANT Texts    \* the printed forms that are put in order, in byte order

Nil == << "nil" >>
Num(type, n) == << "num", n, type >>
Str(s) == << "str", s >>
Bool(b) == << "bool", b >>
Arr(s) == << "arr", s >>
Obj(d) == << "obj", d >>
Now == << "date" >>

\* A field that is not there: Go's second result "exists" is v # Missing.
Missing == << "missing" >>
NoFields == << >>

Kind(v) == v[1]
IsNumber(v) == Kind(v) = "num"
ToFloat(v) == IF IsNumber(v) THEN v[2] ELSE 0
Truthy(v) == v = Bool(TRUE)
AsArray(v) == IF Kind(v) = "arr" THEN v[2] ELSE << >>
AsMap(v) == IF Kind(v) = "obj" THEN v[2] ELSE NoFields

Field(doc, name) == IF name \in DOMAIN doc THEN doc[name] ELSE Missing
FieldOr(doc, name, default) == IF name \in DOMAIN doc THEN doc[name] ELSE default
With(doc, name, v) == (name :> v) @@ doc
Without(doc, name) == Restrict(doc, DOMAIN doc \ {name})

-----------------------------------------------------------------------------
(* bsonutil.ValueKey; NoKey where it returns an error. *)
NoKey == ""
ValueKey(v) ==
  CASE Kind(v) = "str" -> "string:" \o v[2]
    [] Kind(v) = "num" -> v[3] \o ":" \o ToString(v[2])
    [] OTHER -> NoKey

DocumentIDKey(doc) == ValueKey(Field(doc, "_id"))

-----------------------------------------------------------------------------
(* fmt.Sprint, and strings in byte order. *)
Rank(text) == CHOOSE i \in DOMAIN Texts : Texts[i] = text

RECURSIVE Spaced(_)
Spaced(texts) ==
  IF Len(texts) < 2 THEN (IF texts = << >> THEN "" ELSE texts[1]) ELSE Head(texts) \o " " \o Spaced(Tail(texts))

SortedKeys(doc) == SetToSortSeq(DOMAIN doc, LAMBDA k, l : Rank(k) < Rank(l))

RECURSIVE Printed(_)
PrintedFields(doc, keys) == [i \in DOMAIN keys |-> keys[i] \o ":" \o Printed(doc[keys[i]])]
Printed(v) ==
  CASE Kind(v) = "num" -> ToString(v[2])
    [] Kind(v) = "str" -> v[2]
    [] Kind(v) = "bool" -> IF v[2] THEN "true" ELSE "false"
    [] Kind(v) = "arr" -> "[" \o Spaced([i \in DOMAIN v[2] |-> Printed(v[2][i])]) \o "]"
    [] Kind(v) = "obj" -> "map[" \o Spaced(PrintedFields(v[2], SortedKeys(v[2]))) \o "]"
    [] Kind(v) = "date" -> "now"
    [] OTHER -> "<nil>"

Equal(left, right) ==
  IF IsNumber(left) /\ IsNumber(right) THEN left[2] = right[2]
  ELSE Printed(left) = Printed(right)

\* compare(left, right) < 0
TextBelow(left, right) == left # right /\ Rank(left) < Rank(right)
Below(left, right) ==
  IF IsNumber(left) /\ IsNumber(right) THEN left[2] < right[2]
  ELSE TextBelow(Printed(left), Printed(right))

\* The array itself or one of its elements.
ValueEquals(got, want) == \E v \in {got} \cup ToSet(AsArray(got)) : Equal(v, want)

ArrayContains(array, item) ==
  \E v \in ToSet(AsArray(array)) : Equal(v, item)
=============================================================================
