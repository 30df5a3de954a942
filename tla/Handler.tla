-------------------------------- MODULE Handler --------------------------------
(***************************************************************************)
(* Commands and their dispatch (internal/command, internal/handler).  The  *)
(* store s that serves them is one of those of Stores.tla.                 *)
(*                                                                         *)
(* A command is the document the client sent, a function of its fields,    *)
(* with "$db" among them.  Of a reply the fields that depend on the store  *)
(* are kept, of a cursor its first batch.                                  *)
(***************************************************************************)
EXTENDS Stores

-----------------------------------------------------------------------------
(* The name of a command: the first known name among its fields, whichever *)
(* of them came first.                                                     *)
Fixed == << "hello", "isMaster", "ismaster", "ping", "buildInfo", "serverStatus" >>
Ours == << "create", "listCollections", "createIndexes", "listIndexes", "dropIndexes", "drop",
           "dropDatabase", "insert", "find", "count", "distinct", "findAndModify", "update",
           "delete", "aggregate", "listDatabases", "renameCollection" >>
OthersKnown == << "dropTarget", "collMod", "connectionStatus", "dbStats", "collStats", "hostInfo",
             "getCmdLineOpts", "getParameter", "currentOp", "top", "profile", "listCommands",
             "usersInfo", "rolesInfo", "getDefaultRWConcern", "validate", "planCacheClear",
             "planCacheListPlans", "explain" >>

KnownNames == Fixed \o Ours \o OthersKnown

Names(cmd) ==
  LET known == SelectSeq(KnownNames, LAMBDA k : k \in DOMAIN cmd)
  IN  IF known # << >> THEN {Head(known)} ELSE {k \in DOMAIN cmd : k # "" /\ ~IsOperator(k)}

-----------------------------------------------------------------------------
(* Parameters.  A wrong type is an error before the store is called.       *)
NonEmpty(cmd, field) == field \in DOMAIN cmd /\ Kind(cmd[field]) = "str" /\ cmd[field][2] # ""
Optional(cmd, field, kind) == field \in DOMAIN cmd => Kind(cmd[field]) = kind
DocParam(cmd, field) == AsMap(Field(cmd, field))
AllDocs(v) == Kind(v) = "arr" /\ \A x \in ToSet(v[2]) : Kind(x) = "obj"
Docs(v) == [i \in DOMAIN v[2] |-> v[2][i][2]]
Flag(doc, field) == Truthy(Field(doc, field))
IntParam(doc, field) == ToFloat(Field(doc, field))

\* strings.Cut at the first dot
SplitNamespace(ns, db) ==
  LET dots == {i \in 1..Len(ns) : SubSeq(ns, i, i) = "."}
  IN  IF dots = {} THEN << db, ns >>
      ELSE << Prefix(ns, Min(dots) - 1), SubSeq(ns, Min(dots) + 1, Len(ns)) >>

Cursor(outcomes) == ReplyWith("firstBatch", outcomes)
Answer(outcomes) == {[o EXCEPT !.res = IF o.end = "ok" THEN NoFields ELSE @] : o \in outcomes}

-----------------------------------------------------------------------------
CreateHandler(s, ns, cmd) ==
  IF ~Optional(cmd, "validator", "obj") THEN Failed(s)
  ELSE Answer(CreateCollection(s, ns, DocParam(cmd, "validator")))

ListCollectionsHandler(s, cmd) ==
  IF ~NonEmpty(cmd, "$db") \/ ~Optional(cmd, "filter", "obj") THEN Failed(s)
  ELSE Cursor(ListCollections(s, cmd["$db"][2], DocParam(cmd, "filter")))

DropDatabaseHandler(s, cmd) ==
  IF ~NonEmpty(cmd, "$db") THEN Failed(s) ELSE Answer(DropDatabase(s, cmd["$db"][2]))

InsertHandler(s, ns, cmd) ==
  IF ~AllDocs(Field(cmd, "documents")) THEN Failed(s)
  ELSE ReplyWith("n", Insert(s, ns, Docs(cmd["documents"])))

FindHandler(s, ns, cmd) ==
  LET limit == Field(cmd, "limit")
      req == [filter |-> DocParam(cmd, "filter"),
              opts |-> [sort |-> DocParam(cmd, "sort"), skip |-> IntParam(cmd, "skip"),
                        limit |-> ToFloat(limit), projection |-> DocParam(cmd, "projection")]]
  IN  IF \/ \E f \in {"filter", "projection", "sort"} : ~Optional(cmd, f, "obj")
         \/ Kind(limit) \notin {"num", "nil", "missing"}
         \/ Kind(limit) = "num" /\ limit[3] = "double"
      THEN Failed(s)
      ELSE Cursor(Find(s, ns, req))

CountHandler(s, ns, cmd) ==
  IF ~Optional(cmd, "query", "obj") THEN Failed(s)
  ELSE ReplyWith("n", Count(s, ns, DocParam(cmd, "query")))

DistinctHandler(s, ns, cmd) ==
  IF ~NonEmpty(cmd, "key") \/ ~Optional(cmd, "query", "obj") THEN Failed(s)
  ELSE ReplyWith("values", Distinct(s, ns, cmd["key"][2], DocParam(cmd, "query")))

UpdateModel(doc) ==
  [q |-> DocParam(doc, "q"), u |-> DocParam(doc, "u"),
   multi |-> Flag(doc, "multi"), upsert |-> Flag(doc, "upsert")]

UpdateHandler(s, ns, cmd) ==
  LET docs == Docs(cmd["updates"])
  IN  IF ~AllDocs(Field(cmd, "updates")) THEN Failed(s)
      ELSE {IF o.end = "ok" THEN [o EXCEPT !.res = "n" :> @.n @@ "upserted" :> @.upserted] ELSE o :
              o \in Update(s, ns, [i \in DOMAIN docs |-> UpdateModel(docs[i])])}

DeleteModel(doc) == [q |-> DocParam(doc, "q"), limit |-> IntParam(doc, "limit")]

DeleteHandler(s, ns, cmd) ==
  LET docs == Docs(cmd["deletes"])
  IN  IF ~AllDocs(Field(cmd, "deletes")) THEN Failed(s)
      ELSE ReplyWith("n", Delete(s, ns, [i \in DOMAIN docs |-> DeleteModel(docs[i])]))

\* findAndModify: Find, then Delete or Update, then Find again for the new
\* version.  before and after are sequences of at most one document.
FindOne(s, ns, cmd) == Find(s, ns, FindBy(DocParam(cmd, "query"), 1))

Change(s, ns, cmd, before) ==
  LET query == DocParam(cmd, "query")
      update == DocParam(cmd, "update")
  IN  IF Flag(cmd, "remove")
      THEN IF before = << >> THEN Done(s, 0) ELSE Delete(s, ns, << [q |-> query, limit |-> 1] >>)
      ELSE IF update = NoFields THEN Done(s, 0)
      ELSE Update(s, ns, << [q |-> query, u |-> update, multi |-> FALSE,
                             upsert |-> Flag(cmd, "upsert")] >>)

WantsNew(cmd) ==
  ~Flag(cmd, "remove") /\ (Flag(cmd, "new") \/ Flag(cmd, "returnNewDocument"))

Changed(before, o) ==
  LET value == IF o.res # << >> THEN Obj(o.res[1]) ELSE IF before # << >> THEN Obj(before[1]) ELSE Nil
  IN  [o EXCEPT !.res = "n" :> Len(before) @@ "value" :> value]

FindAndModifyHandler(s, ns, cmd) ==
  UNION {IF b.end # "ok" THEN {b}
         ELSE UNION {IF c.end # "ok" THEN {c}
                     ELSE IF ~WantsNew(cmd) THEN {Changed(b.res, [c EXCEPT !.res = << >>])}
                     ELSE {Changed(b.res, a) : a \in FindOne(c.store, ns, cmd)} :
                       c \in Change(b.store, ns, cmd, b.res)} :
           b \in FindOne(s, ns, cmd)}

\* A stage is a document with its operator as the only field.
AggregateHandler(s, ns, cmd) ==
  IF ~Optional(cmd, "pipeline", "arr") THEN Failed(s)
  ELSE LET stages == AsArray(Field(cmd, "pipeline"))
       IN  Cursor(Aggregate(s, ns, [i \in DOMAIN stages |-> AsMap(stages[i])]))

IndexModel(doc) ==
  [name |-> IF Kind(Field(doc, "name")) = "str" THEN doc["name"][2] ELSE "",
   key |-> DocParam(doc, "key"),
   opts |-> Restrict(doc, DOMAIN doc \ {"name", "key"})]

CreateIndexesHandler(s, ns, cmd) ==
  LET docs == Docs(cmd["indexes"])
  IN  IF ~AllDocs(Field(cmd, "indexes")) THEN Failed(s)
      ELSE ReplyWith("numIndexes", CreateIndexes(s, ns, [i \in DOMAIN docs |-> IndexModel(docs[i])]))

\* Find the documents, drop the target if asked, create it, insert, drop the source.
RenameHandler(s, value, cmd) ==
  LET from == SplitNamespace(IF Kind(value) = "str" THEN value[2] ELSE "",
                             Printed(FieldOr(cmd, "$db", Str(""))))
      to == SplitNamespace(cmd["to"][2], from[1])
      Cleared(s1) == IF Flag(cmd, "dropTarget") THEN DropCollection(s1, to) ELSE Done(s1, Nil)
      Filled(s1, docs) == IF docs = << >> THEN Done(s1, 0) ELSE Insert(s1, to, docs)
      Refilled(s1) == UNION {CreateCollection(o.store, to, NoFields) : o \in Cleared(s1)}
  IN  IF ~NonEmpty(cmd, "to") THEN Failed(s)
      ELSE UNION {IF i.end # "ok" THEN {i} ELSE Answer(DropCollection(i.store, from)) :
                    i \in UNION {UNION {Filled(c.store, f.res) : c \in Refilled(f.store)} :
                                   f \in Find(s, from, FindAll)}}

-----------------------------------------------------------------------------
(* Handle.  The commands of OnCollection carry the collection in their own *)
(* field; those left over are answered from the text of the handler.       *)
OnCollection ==
  {"create", "drop", "createIndexes", "listIndexes", "dropIndexes", "insert", "find", "count",
   "distinct", "findAndModify", "update", "delete", "aggregate"}

\* Known names without a case, and names nobody knows.
NoCase == {"dropTarget", "planCacheListPlans"}

HandleOn(s, name, ns, cmd) ==
  CASE name = "create" -> CreateHandler(s, ns, cmd)
    [] name = "drop" -> Answer(DropCollection(s, ns))
    [] name = "createIndexes" -> CreateIndexesHandler(s, ns, cmd)
    [] name = "listIndexes" -> Cursor(ListIndexes(s, ns))
    [] name = "insert" -> InsertHandler(s, ns, cmd)
    [] name = "find" -> FindHandler(s, ns, cmd)
    [] name = "count" -> CountHandler(s, ns, cmd)
    [] name = "distinct" -> DistinctHandler(s, ns, cmd)
    [] name = "findAndModify" -> FindAndModifyHandler(s, ns, cmd)
    [] name = "update" -> UpdateHandler(s, ns, cmd)
    [] name = "delete" -> DeleteHandler(s, ns, cmd)
    [] name = "aggregate" -> AggregateHandler(s, ns, cmd)

HandleNamed(s, name, cmd) ==
  CASE name \in OnCollection ->
         IF ~NonEmpty(cmd, name) THEN Failed(s)
         ELSE IF name = "dropIndexes" THEN Done(s, "nIndexesWas" :> 1)
         ELSE IF ~NonEmpty(cmd, "$db") THEN Failed(s)
         ELSE HandleOn(s, name, << cmd["$db"][2], cmd[name][2] >>, cmd)
    [] name = "listCollections" -> ListCollectionsHandler(s, cmd)
    [] name = "dropDatabase" -> DropDatabaseHandler(s, cmd)
    [] name = "renameCollection" -> RenameHandler(s, cmd[name], cmd)
    [] name \in ToSet(KnownNames) \ NoCase -> Done(s, NoFields)
    [] OTHER -> Failed(s)

Handle(s, cmd) ==
  IF Names(cmd) = {} THEN Failed(s) ELSE UNION {HandleNamed(s, name, cmd) : name \in Names(cmd)}
=============================================================================
