------------------------------- MODULE MCGateway -------------------------------
(***************************************************************************)
(* Gateway.tla with two collections c and e, documents whose _ids and      *)
(* values are numbers of two types and strings that print like them, and a *)
(* client that sends MaxCommands commands from the menu.                   *)
(***************************************************************************)
EXTENDS Gateway

MCTexts == << "-1", "1", "2", "5", "[1]", "[]", "c", "e", "i", "n", "upsert-0", "upsert-1",
              "upsert-2", "x" >>
MCLanguage == [r \in {"x"} |-> {"x"}]

int(n) == Num("int32", n)
long(n) == Num("int64", n)
str(s) == Str(s)
doc(d) == Obj(d)
Items(s) == Arr(s)
On(name, coll) == name :> str(coll) @@ "$db" :> str("d")

Doc(id, a) == doc("_id" :> id @@ "a" :> a @@ "l" :> Items(<< >>))
InsertCmd(docs) == On("insert", "c") @@ "documents" :> Items(docs)
UpdateCmd(q, u, flags) ==
  On("update", "c") @@ "updates" :> Items(<< doc("q" :> doc(q) @@ "u" :> doc(u) @@
    [f \in flags |-> Bool(TRUE)]) >>)
DeleteCmd(models) ==
  On("delete", "c") @@ "deletes" :> Items([i \in DOMAIN models |->
    doc("q" :> doc(models[i][1]) @@ "limit" :> int(models[i][2]))])
ByID(id) == "_id" :> id
Set(field, v) == "$set" :> doc(field :> v)
Push(items) ==
  "$push" :> doc("l" :> doc("$each" :> Items(items) @@ "$slice" :> int(-2)))

Inserts ==
  { InsertCmd(<< Doc(int(1), int(1)) >>), InsertCmd(<< Doc(str("1"), str("1")) >>),
    InsertCmd(<< Doc(int(2), str("1")), Doc(int(1), int(2)) >>), InsertCmd(<< Doc(long(1), long(1)) >>) }
Updates ==
  { UpdateCmd(ByID(int(1)), Push(<< int(5), int(2) >>), {}),
    UpdateCmd(NoFields, Set("a", int(2)), {"multi"}),
    UpdateCmd(ByID(int(2)), Set("a", str("1")), {"upsert"}),
    UpdateCmd("a" :> int(5), "$max" :> doc("b" :> int(1)), {"upsert"}),
    UpdateCmd(ByID(int(1)), "a" :> str("x"), {}),
    UpdateCmd(ByID(int(1)), ByID(str("1")) @@ "a" :> int(2), {}),
    UpdateCmd(NoFields, "$rename" :> doc("a" :> str("_id")), {}),
    UpdateCmd(NoFields, "$inc" :> doc("a" :> int(1)), {"multi"}) }
Deletes ==
  { DeleteCmd(<< << "a" :> int(1), 1 >> >>), DeleteCmd(<< << NoFields, 0 >> >>),
    DeleteCmd(<< << ByID(int(1)), 1 >>, << "a" :> doc("$ne" :> int(1)), 0 >> >>) }
Modifies ==
  { On("findAndModify", "c") @@ "query" :> doc(ByID(int(2))) @@
      "update" :> doc(Set("a", int(1))) @@ "new" :> Bool(TRUE) @@ "upsert" :> Bool(TRUE),
    On("findAndModify", "c") @@ "query" :> doc("a" :> doc("$in" :> Items(<< int(1), str("x") >>)))
      @@ "remove" :> Bool(TRUE) }
Metadata ==
  { On("create", "c") @@ "validator" :> doc("$jsonSchema" :> doc("properties" :>
      doc("a" :> doc("bsonType" :> str("int"))))),
    On("create", "c"), On("drop", "c"), On("listCollections", ""),
    "dropDatabase" :> int(1) @@ "$db" :> str("d"),
    "renameCollection" :> str("d.c") @@ "to" :> str("d.e") @@ "$db" :> str("admin"),
    "renameCollection" :> str("d.e") @@ "to" :> str("c") @@ "$db" :> str("d") @@
      "dropTarget" :> Bool(TRUE),
    On("createIndexes", "c") @@ "indexes" :> Items(<< doc("name" :> str("n") @@
      "key" :> doc("a" :> int(1))) >>),
    On("listIndexes", "c") }
Reads ==
  { On("find", "c") @@ "filter" :> doc("a" :> int(1)) @@ "sort" :> doc("b" :> int(-1)) @@
      "projection" :> doc("a" :> int(1)) @@ "limit" :> int(1),
    On("find", "c") @@ "filter" :> doc(ByID(int(1))),
    On("count", "c") @@ "query" :> doc("l" :> int(2)),
    On("distinct", "c") @@ "key" :> str("a"),
    On("aggregate", "c") @@ "pipeline" :> Items(<<
      doc("$match" :> doc("a" :> doc("$gte" :> int(1)))), doc("$sortByCount" :> str("$a")) >>) }

MCMenu == Inserts \cup Updates \cup Deletes \cup Modifies \cup Metadata \cup Reads

\* Lists that grow only by $push with $slice -2 never have more than two
\* items, however many pushes, renames and upserts there are (mql.go:255-299).
ListsStayCapped ==
  \A ns \in DOMAIN tidb.tables : \A d \in Stored(ns) : Len(AsArray(Field(d, "l"))) <= 2
=============================================================================
