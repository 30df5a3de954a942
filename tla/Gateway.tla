-------------------------------- MODULE Gateway --------------------------------
(***************************************************************************)
(* One client, and the gateway serving its commands one after the other    *)
(* from the TiDB store; beside it the memory store, which the repository's *)
(* tests put in the place of TiDB, is given the same commands.             *)
(*                                                                         *)
(* Scans, Go's maps and update operators of the TiDB store come in any     *)
(* order; the memory store follows as long as it has an outcome with the   *)
(* same reply and the same documents.                                      *)
(***************************************************************************)
EXTENDS Handler, Updates

CONSTANTS Menu,          \* the commands the client may send
          MaxCommands    \* how many it sends

VARIABLES tidb,       \* the contents of the TiDB store
          memory,     \* those of the memory store, or Apart
          portable,   \* all commands so far are to be served alike by both
          sent,       \* the number of commands
          last        \* the last command and its outcome

vars == << tidb, memory, portable, sent, last >>

Apart == [collections |-> "apart"]
Nothing == [cmd |-> NoFields, end |-> "ok", res |-> Nil]

\* The documents of the namespaces that have some.
SqlDocuments(s) ==
  {<< ns[1] \o "." \o ns[2], s.tables[ns] >> :
     ns \in {n \in DOMAIN s.tables : s.tables[n] # NoFields}}
MemoryDocuments(s) ==
  {<< n, s.collections[n] >> : n \in {m \in DOMAIN s.collections : s.collections[m] # NoFields}}

\* Outcomes of the memory store that o of the TiDB store is like.
Followers(o, outcomes) ==
  {m \in outcomes :
     /\ m.end = o.end
     /\ m.end # "panic" => m.res = o.res /\ MemoryDocuments(m.store) = SqlDocuments(o.store)}

(***************************************************************************)
(* Commands that the two stores serve alike.  The others differ by what    *)
(* the code does: a batch that is refused keeps its first documents in     *)
(* memory; several updates or deletes of one command see each other's      *)
(* changes in memory alone; a document whose _id changes keeps its key in  *)
(* memory and gets a second row in TiDB; a find by _id goes by its type in *)
(* TiDB; a collection created again loses its validator in memory alone;   *)
(* indexes of the same name are all kept in memory, and in their order.    *)
(***************************************************************************)
Name(cmd) == CHOOSE name \in Names(cmd) : TRUE
NS(cmd) == << cmd["$db"][2], cmd[Name(cmd)][2] >>
StoredIn(s, ns) ==
  UNION {{s.tables[n][key] : key \in DOMAIN s.tables[n]} : n \in DOMAIN s.tables \cap {ns}}
Stored(ns) == StoredIn(tidb, ns)

KeepsIds(ns, q, u) ==
  \A doc \in Stored(ns) : \A a \in ApplyUpdate(doc, u) :
    a.ok /\ Matches(doc, q) => Field(a.doc, "_id") = doc["_id"]

\* No stored _id is equal to that of the filter but of another type.
TypedFilter(ns, filter) ==
  "_id" \in DOMAIN filter =>
    /\ ValueKey(filter["_id"]) # NoKey
    /\ \A doc \in Stored(ns) :
         Equal(doc["_id"], filter["_id"]) => doc["_id"] = filter["_id"]

SingleModel(cmd, field) == Len(cmd[field][2]) = 1
Model(cmd) == Docs(cmd["updates"])[1]
HasValidator(ns) == T!CollectionValidator(tidb, ns) # NoFields

Portable(cmd) ==
  LET Doc(field) == DocParam(cmd, field)
  IN
  CASE Name(cmd) = "insert" -> SingleModel(cmd, "documents")
    [] Name(cmd) = "update" ->
         SingleModel(cmd, "updates") /\ KeepsIds(NS(cmd), DocParam(Model(cmd), "q"),
                                                 DocParam(Model(cmd), "u"))
    [] Name(cmd) = "delete" -> SingleModel(cmd, "deletes")
    [] Name(cmd) = "findAndModify" ->
         TypedFilter(NS(cmd), Doc("query")) /\ KeepsIds(NS(cmd), Doc("query"), Doc("update"))
    [] Name(cmd) = "find" -> TypedFilter(NS(cmd), Doc("filter"))
    [] Name(cmd) \in {"count", "distinct"} -> TypedFilter(NS(cmd), Doc("query"))
    [] Name(cmd) = "create" -> "validator" \in DOMAIN cmd \/ ~HasValidator(NS(cmd))
    [] Name(cmd) = "renameCollection" ->
         LET to == SplitNamespace(cmd["to"][2], cmd["$db"][2])
         IN  Flag(cmd, "dropTarget") \/ to \notin DOMAIN tidb.catalog
    [] Name(cmd) = "createIndexes" -> M!Namespace(NS(cmd)) \notin DOMAIN memory.indexes
    [] Name(cmd) = "listIndexes" -> NS(cmd) \in DOMAIN tidb.catalog
    [] OTHER -> TRUE

-----------------------------------------------------------------------------
Init ==
  /\ tidb = T!NewStore /\ memory = M!NewStore
  /\ portable = TRUE
  /\ sent = 0 /\ last = Nothing

Following(followers) ==
  IF followers = {} THEN {Apart} ELSE {m.store : m \in followers}

ServeBoth(cmd, outcomes) ==
  /\ portable' = (portable /\ Portable(cmd))
  /\ \E o \in outcomes[tidb] :
       /\ tidb' = o.store
       /\ last' = [cmd |-> cmd, end |-> o.end, res |-> o.res]
       /\ memory' \in IF portable' THEN Following(Followers(o, outcomes[memory])) ELSE {Apart}

Serve(cmd) ==
  /\ sent < MaxCommands /\ sent' = sent + 1
  /\ ServeBoth(cmd, [s \in {tidb, memory} |-> Handle(s, cmd)])

Next == \E cmd \in Menu : Serve(cmd)

Spec == Init /\ [][Next]_vars

-----------------------------------------------------------------------------
(* Properties. *)

\* Whatever the TiDB store answers to a sequence of commands, and whatever
\* documents it then holds, the memory store that stands in for it in the
\* tests can answer and hold as well (memory.go, store.go).
StoresAgree == portable => memory # Apart

\* A find by the _id of a stored document returns this document alone, whatever
\* other _ids print like it: rows are selected by their typed key before the
\* untyped filter runs (bsonutil.go, store.go:520-546).
FoundByID ==
  \A ns \in DOMAIN tidb.tables : \A doc \in Stored(ns) :
    T!Find(tidb, ns, FindBy("_id" :> doc["_id"], 0)) = Done(tidb, << doc >>)

\* The _ids of a collection are all numbers or all strings, and no two are equal.
Comparable(s, ns) ==
  \A d, e \in StoredIn(s, ns) :
    /\ Kind(d["_id"]) = Kind(e["_id"])
    /\ d # e => ~Equal(d["_id"], e["_id"])

\* A client that reads a collection by pages, sorted by an _id of one kind,
\* gets every document once, in order, although each page is a scan of its own
\* in an order of its own (mql.go:94-114, 657-690).
Page(ns, dir, skip, limit) ==
  {o.res : o \in T!Find(tidb, ns,
     [filter |-> NoFields,
      opts |-> [NoOptions EXCEPT !.sort = "_id" :> Num("int32", dir),
                                   !.skip = skip, !.limit = limit]])}
PagesCoverAll ==
  \A ns \in DOMAIN tidb.tables : Comparable(tidb, ns) =>
    \A dir \in {1, -1} :
      \A first \in Page(ns, dir, 0, 1), second \in Page(ns, dir, 1, 1), rest \in Page(ns, dir, 2, 0) :
        LET pages == first \o second \o rest
        IN  /\ ToSet(pages) = Stored(ns) /\ Len(pages) = Cardinality(Stored(ns))
            /\ \A i, j \in DOMAIN pages :
                 i < j => ~Below(pages[IF dir = 1 THEN j ELSE i]["_id"],
                                 pages[IF dir = 1 THEN i ELSE j]["_id"])

\* Commands a client may send again when it missed the answer: those that
\* name their documents, and updates with operators that set a state.
Setting == {"$set", "$unset", "$min", "$max", "$addToSet", "$pull"}
SettingUpdate(u) ==
  \A op \in DOMAIN u : IsOperator(op) => op \in Setting
Touched(u) == UNION {IF IsOperator(op) THEN DOMAIN AsMap(u[op]) ELSE {op} : op \in DOMAIN u}
Retryable(cmd) ==
  CASE Name(cmd) = "update" ->
         LET q == DocParam(Model(cmd), "q")
             u == DocParam(Model(cmd), "u")
         IN  /\ SingleModel(cmd, "updates")
             /\ SettingUpdate(u) /\ Touched(u) \cap DOMAIN q = {}
             /\ DOMAIN q = {"_id"} \/ Flag(Model(cmd), "multi")
    [] Name(cmd) = "delete" ->
         \A i \in DOMAIN cmd["deletes"][2] : IntParam(cmd["deletes"][2][i][2], "limit") = 0
    [] OTHER -> Name(cmd) \in {"insert", "create", "drop", "dropDatabase", "createIndexes"}

\* Such a command can be sent again: the second time it changes no document,
\* whether it is refused or answered, an upsert included (store.go:256-305).
RetryChangesNothing ==
  [][last'.cmd = last.cmd /\ last.end = "ok" /\ Retryable(last.cmd)
       /\ (\A ns \in DOMAIN tidb.tables : Comparable(tidb, ns))
       => SqlDocuments(tidb') = SqlDocuments(tidb)]_vars

\* A delete removes what it reports and nothing else: documents that match,
\* one of them for limit 1 and otherwise all (handler.go:322-345, store.go:308-335).
DeleteIsExact ==
  [][Name(last'.cmd) = "delete" /\ last'.end = "ok" /\ SingleModel(last'.cmd, "deletes")
       => LET ns == NS(last'.cmd)
              model == Docs(last'.cmd["deletes"])[1]
              matching == {d \in Stored(ns) : Matches(d, DocParam(model, "q"))}
              gone == Stored(ns) \ StoredIn(tidb', ns)
          IN  /\ gone \subseteq matching /\ StoredIn(tidb', ns) \subseteq Stored(ns)
              /\ last'.res["n"] = Cardinality(gone)
              /\ IF IntParam(model, "limit") = 1 THEN Cardinality(gone) <= 1 /\ (matching # {} => gone # {})
                 ELSE gone = matching]_vars

\* $group puts every document into exactly one group, that of the documents
\* with an equal value of the same kind, and $sum counts it there (mql.go:116-183).
GroupReply(ns, stages) == Aggregate(tidb, ns, stages)
GroupsPartition ==
  \A ns \in DOMAIN tidb.tables :
    \A o \in GroupReply(ns, << "$group" :> Obj("_id" :> Str("$a") @@
                                 "n" :> Obj("$sum" :> Num("int32", 1))) >>) :
      /\ Sum([i \in DOMAIN o.res |-> o.res[i]["n"]]) = Cardinality(Stored(ns))
      /\ \A i \in DOMAIN o.res :
           ToFloat(o.res[i]["n"]) =
             Cardinality({d \in Stored(ns) :
                            LET a == FieldOr(d, "a", Nil) IN
                            /\ Kind(a) = Kind(o.res[i]["_id"])
                            /\ Equal(a, o.res[i]["_id"])})

\* $unwind takes the arrays of a collection apart and $group with $push puts
\* them together again: no element is lost, doubled or moved (mql.go).
UnwoundIsRegrouped ==
  \A ns \in DOMAIN tidb.tables :
    \A o \in GroupReply(ns, << "$unwind" :> Str("$l"),
                               "$group" :> Obj("_id" :> Str("$_id") @@
                                 "l" :> Obj("$push" :> Str("$l"))) >>) :
      Comparable(tidb, ns) =>
        {<< g["_id"], g["l"] >> : g \in Range(o.res)}
          = {<< d["_id"], d["l"] >> :
               d \in {e \in Stored(ns) : AsArray(Field(e, "l")) # << >>}}
=============================================================================
