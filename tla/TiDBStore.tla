----------------------------- MODULE TiDBStore ------------------------------
(***************************************************************************)
(* timongo's store on TiDB (internal/backend/tidb/store.go) under the      *)
(* commands of internal/handler/handler.go.  A connection is a client      *)
(* served by one goroutine of some timongo-server; it handles one command  *)
(* at a time, and a command is a program of SQL statements.  Connections,  *)
(* on the same gateway or on different ones, meet only in TiDB, so a step  *)
(* of this specification is one SQL statement of one connection with the   *)
(* Go code up to the next statement.                                       *)
(*                                                                         *)
(* Of TiDB the model takes: every statement is atomic; a transaction's     *)
(* rows are invisible until it commits and their keys locked; a set of     *)
(* transactions waiting for each other loses one of them; DROP TABLE waits *)
(* for the transactions that wrote to the table (metadata lock).           *)
(***************************************************************************)
EXTENDS Commands

CONSTANTS Conn,       \* client connections
          Menus,      \* for each connection the commands its client may send: several
                      \* such menus, one of which the clients have in a behaviour
          Loaded,     \* for each collection present at the start its documents
          MaxFaults   \* bound: statements that fail, gateways that die

ASSUME MenusAssumption == Menus \subseteq [Conn -> SUBSET Command]
ASSUME LoadedAssumption == /\ DOMAIN Loaded \subseteq Namespace
                           /\ \A n \in DOMAIN Loaded : Loaded[n] \subseteq Doc
\* id_key is the primary key of every table.
ASSUME LoadedKeysAssumption ==
  \A n, m \in DOMAIN Loaded : \A d \in Loaded[n], e \in Loaded[m] :
    TableOf[n] = TableOf[m] /\ d.id = e.id => d = e
ASSUME FaultsAssumption == MaxFaults \in Nat

VARIABLES
  tables,   \* document tables that exist
  rows,     \* their committed documents, at most one for each id_key
  catalog,  \* rows of _timongo.collections, id 0 where there is none
  issued,   \* AUTO_INCREMENT of that table: issued[k] is the namespace given id k
  indexes,  \* rows of _timongo.indexes, with the namespace they were asked for
  cmd,      \* the command a connection executes
  todo,     \* the statements left of its program
  pending,  \* the writes left of the loop it is in
  tx,       \* the documents its open transaction has inserted
  local,    \* its Go variables
  reply,    \* the last answer its client received
  unsent,   \* the commands its client has not sent yet
  acked,    \* all commands answered with ok
  faults    \* faults so far

database == << tables, rows, catalog, issued, indexes >>
clients == << reply, unsent, acked, faults >>
vars == << tables, rows, catalog, issued, indexes,
           cmd, todo, pending, tx, local, reply, unsent, acked, faults >>

CatalogRow == [id : Nat, validator : SUBSET Doc]
NoRow == [id |-> 0, validator |-> AnyDoc]

\* found: documents a find returned or an insert carries; opts: the validator
\* last read; cid: collection_id last read; count and value: parts of the reply.
Local == [found : Seq(Doc), opts : SUBSET Doc, cid : Nat, count : Nat, value : SUBSET Doc]
Blank == [found |-> <<>>, opts |-> AnyDoc, cid |-> 0, count |-> 0, value |-> {}]

Sendable == UNION {menu[c] : menu \in Menus, c \in Conn}
Reply == [to : Sendable \cup {Idle}, ok : BOOLEAN, n : Nat, value : SUBSET Doc]

TypeOK ==
  /\ tables \subseteq Table
  /\ rows \in [Table -> SUBSET Doc]
  /\ catalog \in [Namespace -> CatalogRow]
  /\ issued \in Seq(Namespace)
  /\ indexes \subseteq [cid : Nat, name : IndexName, asked : Namespace]
  /\ cmd \in [Conn -> Sendable \cup {Idle}]
  /\ todo \in [Conn -> Seq(Statement)]
  /\ pending \in [Conn -> SUBSET (Nat \X Nat)]
  /\ tx \in [Conn -> SUBSET Doc]
  /\ local \in [Conn -> Local]
  /\ reply \in [Conn -> Reply]
  /\ unsent \in [Conn -> SUBSET Sendable]
  /\ acked \subseteq Sendable
  /\ faults \in 0..MaxFaults

-----------------------------------------------------------------------------
Init ==
  /\ tables = {TableOf[n] : n \in DOMAIN Loaded}
  /\ rows = [t \in Table |->
               UNION {Loaded[n] : n \in {m \in DOMAIN Loaded : TableOf[m] = t}}]
  /\ issued \in Orderings(DOMAIN Loaded)
  /\ catalog = [n \in Namespace |->
                  IF n \in DOMAIN Loaded
                  THEN [id |-> CHOOSE i \in DOMAIN issued : issued[i] = n,
                        validator |-> AnyDoc]
                  ELSE NoRow]
  /\ indexes = {}
  /\ cmd = [c \in Conn |-> Idle]
  /\ todo = [c \in Conn |-> <<>>]
  /\ pending = [c \in Conn |-> {}]
  /\ tx = [c \in Conn |-> {}]
  /\ local = [c \in Conn |-> Blank]
  /\ reply = [c \in Conn |-> [to |-> Idle, ok |-> FALSE, n |-> 0, value |-> {}]]
  /\ unsent \in Menus
  /\ acked = {}
  /\ faults = 0

-----------------------------------------------------------------------------
(* The namespace whose documents the command writes, and its table. *)
Target(m) == IF m.kind = "renameCollection" THEN m.to ELSE m.ns
TargetTable(c) == TableOf[Target(cmd[c])]

(* The loop a command with pending writes is in. *)
Inserts(m) == m.kind \in {"insert", "renameCollection"}
Replaces(m) == m.kind = "update" \/ (m.kind = "findAndModify" /\ ~m.remove)
Deletes(m) == m.kind = "delete" \/ (m.kind = "findAndModify" /\ m.remove)

(* The next statement of c is op; a loop runs to its end before the program goes on. *)
At(c, op) == pending[c] = {} /\ todo[c] # <<>> /\ Head(todo[c]).op = op
Stmt(c) == Head(todo[c])

Goto(c, program) == todo' = [todo EXCEPT ![c] = program]
Advance(c) == Goto(c, Tail(todo[c]))

(* The command ends: its open transaction, if any, is rolled back. *)
End(c, ok) ==
  /\ cmd' = [cmd EXCEPT ![c] = Idle]
  /\ todo' = [todo EXCEPT ![c] = <<>>]
  /\ pending' = [pending EXCEPT ![c] = {}]
  /\ tx' = [tx EXCEPT ![c] = {}]
  /\ reply' = [reply EXCEPT ![c] = [to |-> cmd[c], ok |-> ok,
                                    n |-> local[c].count, value |-> local[c].value]]
  /\ local' = [local EXCEPT ![c] = Blank]
  /\ UNCHANGED unsent

Fail(c) == End(c, FALSE) /\ UNCHANGED << database, acked, faults >>

(* Key id of table t is locked by another connection's open transaction. *)
Holds(o, t, id) == \E d \in tx[o] : TargetTable(o) = t /\ d.id = id
Locked(c, t, id) == \E o \in Conn \ {c} : Holds(o, t, id)
-----------------------------------------------------------------------------
(* The client of c sends its next command; the handler decodes it and starts. *)
Issue(c) ==
  \E m \in unsent[c] :
    /\ cmd[c] = Idle
    /\ cmd' = [cmd EXCEPT ![c] = m]
    /\ unsent' = [unsent EXCEPT ![c] = @ \ {m}]
    /\ Goto(c, Program(m))
    /\ local' = [local EXCEPT ![c].found = IF m.kind = "insert" THEN m.docs ELSE <<>>]
    /\ UNCHANGED << database, pending, tx, reply, acked, faults >>

(* Nothing is left to do: the reply is written to the client. *)
Answer(c) ==
  /\ cmd[c] # Idle /\ todo[c] = <<>> /\ pending[c] = {}
  /\ End(c, TRUE)
  /\ acked' = acked \cup {cmd[c]}
  /\ UNCHANGED << database, faults >>

-----------------------------------------------------------------------------
(* The catalog. *)

\* CREATE TABLE IF NOT EXISTS
EnsureTable(c) ==
  /\ At(c, "ensureTable")
  /\ tables' = tables \cup {Stmt(c).table}
  /\ Advance(c)
  /\ UNCHANGED << rows, catalog, issued, indexes, cmd, pending, tx, local, clients >>

\* collectionOptions, in CreateCollection: the options to merge with.
ReadOptions(c) ==
  /\ At(c, "readOptions")
  /\ local' = [local EXCEPT ![c].opts = catalog[Stmt(c).ns].validator]
  /\ Advance(c)
  /\ UNCHANGED << database, cmd, pending, tx, clients >>

\* A faulty variant: the options that are there are not looked at.
AskedValidator(asked, existing) == asked

\* The validator CreateCollection writes: the one asked for, else the one it read.
MergedValidator(asked, existing) == IF asked = AnyDoc THEN existing ELSE asked

\* A faulty variant: ids by counting the rows.
NextByCount == Cardinality({n \in Namespace : catalog[n].id # 0}) + 1

\* The id AUTO_INCREMENT gives to a new row: one that no row ever had.
NextId == Len(issued) + 1

\* INSERT ... ON DUPLICATE KEY UPDATE options_json: a row keeps its id.
UpsertRow(c) ==
  LET n == Stmt(c).ns
      validator == MergedValidator(Stmt(c).validator, local[c].opts)
  IN  /\ At(c, "upsertRow")
      /\ \/ /\ catalog[n].id = 0
            /\ catalog' = [catalog EXCEPT ![n] = [id |-> NextId, validator |-> validator]]
            /\ issued' = Append(issued, n)
         \/ /\ catalog[n].id # 0
            /\ catalog' = [catalog EXCEPT ![n].validator = validator]
            /\ UNCHANGED issued
      /\ Advance(c)
      /\ UNCHANGED << tables, rows, indexes, cmd, pending, tx, local, clients >>

\* DROP TABLE IF EXISTS, once no transaction holds rows of the table.
DropTable(c) ==
  LET t == Stmt(c).table
  IN  /\ At(c, "dropTable")
      /\ \A o \in Conn : tx[o] # {} => TargetTable(o) # t
      /\ tables' = tables \ {t}
      /\ rows' = [rows EXCEPT ![t] = {}]
      /\ Advance(c)
      /\ UNCHANGED << catalog, issued, indexes, cmd, pending, tx, local, clients >>

\* DELETE FROM collections: the rows of _timongo.indexes stay behind.
DeleteRow(c) ==
  /\ At(c, "deleteRow")
  /\ catalog' = [catalog EXCEPT ![Stmt(c).ns] = NoRow]
  /\ Advance(c)
  /\ UNCHANGED << tables, rows, issued, indexes, cmd, pending, tx, local, clients >>

\* SHOW TABLES LIKE: the tables found are dropped one by one.
ShowTables(c) ==
  /\ At(c, "showTables")
  /\ \E listed \in Orderings({t \in tables : LikeDatabase(t, Stmt(c).db)}) :
       Goto(c, [i \in DOMAIN listed |-> DropTableOf(listed[i])] \o Tail(todo[c]))
  /\ UNCHANGED << database, cmd, pending, tx, local, clients >>

DeleteRows(c) ==
  /\ At(c, "deleteRows")
  /\ catalog' = [n \in Namespace |-> IF n.db = Stmt(c).db THEN NoRow ELSE catalog[n]]
  /\ Advance(c)
  /\ UNCHANGED << tables, rows, issued, indexes, cmd, pending, tx, local, clients >>

\* ListCollections
SelectCollections(c) ==
  /\ At(c, "selectCollections")
  /\ local' = [local EXCEPT ![c].count =
                 Cardinality({n \in Namespace : n.db = Stmt(c).db /\ catalog[n].id # 0})]
  /\ Advance(c)
  /\ UNCHANGED << database, cmd, pending, tx, clients >>

-----------------------------------------------------------------------------
(* Index metadata. *)

\* A faulty variant: the id last issued for the id of the collection.
UseLastInsertID(c) ==
  /\ At(c, "readCollectionID")
  /\ catalog[Stmt(c).ns].id # 0
  /\ local' = [local EXCEPT ![c].cid = Len(issued)]
  /\ \/ /\ cmd[c].kind = "createIndexes"
        /\ pending' = [pending EXCEPT ![c] = {1} \X (DOMAIN cmd[c].names)]
        /\ Advance(c)
     \/ /\ cmd[c].kind = "listIndexes"
        /\ Goto(c, << On("selectIndexes", cmd[c].ns) >>)
        /\ UNCHANGED pending
  /\ UNCHANGED << database, cmd, tx, clients >>

\* collectionID found the row: createIndexes inserts its indexes, listIndexes
\* selects them.
ReadCollectionID(c) ==
  /\ At(c, "readCollectionID")
  /\ catalog[Stmt(c).ns].id # 0
  /\ local' = [local EXCEPT ![c].cid = catalog[Stmt(c).ns].id]
  /\ \/ /\ cmd[c].kind = "createIndexes"
        /\ pending' = [pending EXCEPT ![c] = {1} \X (DOMAIN cmd[c].names)]
        /\ Advance(c)
     \/ /\ cmd[c].kind = "listIndexes"
        /\ Goto(c, << On("selectIndexes", cmd[c].ns) >>)
        /\ UNCHANGED pending
  /\ UNCHANGED << database, cmd, tx, clients >>

\* sql.ErrNoRows: an error to createIndexes; listIndexes answers with _id_ alone.
NoCollectionID(c) ==
  /\ At(c, "readCollectionID")
  /\ catalog[Stmt(c).ns].id = 0
  /\ \/ cmd[c].kind = "createIndexes" /\ Fail(c)
     \/ /\ cmd[c].kind = "listIndexes"
        /\ local' = [local EXCEPT ![c].count = 1]
        /\ Advance(c)
        /\ UNCHANGED << database, cmd, pending, tx, clients >>

\* INSERT INTO indexes ... ON DUPLICATE KEY UPDATE
InsertIndex(c) ==
  \E w \in pending[c] :
    LET name == cmd[c].names[w[2]]
    IN  /\ cmd[c].kind = "createIndexes"
        /\ IsFirst(w, pending[c])
        /\ indexes' = {x \in indexes : x.cid # local[c].cid \/ x.name # name}
                        \cup {[cid |-> local[c].cid, name |-> name, asked |-> cmd[c].ns]}
        /\ pending' = [pending EXCEPT ![c] = @ \ {w}]
        /\ UNCHANGED << tables, rows, catalog, issued, cmd, todo, tx, local, clients >>

SelectIndexes(c) ==
  /\ At(c, "selectIndexes")
  /\ local' = [local EXCEPT ![c].count = 1 +
                 Cardinality({i \in IndexName :
                                \E x \in indexes : x.cid = local[c].cid /\ x.name = i})]
  /\ Advance(c)
  /\ UNCHANGED << database, cmd, pending, tx, clients >>

-----------------------------------------------------------------------------
(* Insert: one transaction for the whole batch. *)

\* collectionValidator, then BEGIN.
ReadValidator(c) ==
  /\ At(c, "readValidator") /\ Inserts(cmd[c])
  /\ local' = [local EXCEPT ![c].opts = catalog[Stmt(c).ns].validator,
                            ![c].count = Len(local[c].found)]
  /\ pending' = [pending EXCEPT ![c] = {1} \X (DOMAIN local[c].found)]
  /\ Advance(c)
  /\ UNCHANGED << database, cmd, tx, clients >>

\* A faulty variant: a table without its primary key.
RefusedWithoutKey(c, d) == d \notin local[c].opts \/ TargetTable(c) \notin tables

\* A faulty variant: the validator is read, and not applied.
RefusedUnvalidated(c, d) ==
  LET t == TargetTable(c)
  IN  \/ t \notin tables
      \/ ~Locked(c, t, d.id) /\ d.id \in {e.id : e \in rows[t] \cup tx[c]}

\* The insert of document d is refused: it fails the validator, the table is
\* gone, or its key is taken.
Refused(c, d) ==
  LET t == TargetTable(c)
  IN  \/ d \notin local[c].opts
      \/ t \notin tables
      \/ ~Locked(c, t, d.id) /\ d.id \in {e.id : e \in rows[t] \cup tx[c]}

\* A faulty variant: every row is committed at once.
InsertAutocommit(c) ==
  \E w \in pending[c] :
    LET d == local[c].found[w[2]]
    IN  /\ Inserts(cmd[c])
        /\ IsFirst(w, pending[c])
        /\ ~Refused(c, d) /\ ~Locked(c, TargetTable(c), d.id)
        /\ rows' = [rows EXCEPT ![TargetTable(c)] = @ \cup {d}]
        /\ pending' = [pending EXCEPT ![c] = @ \ {w}]
        /\ UNCHANGED << tables, catalog, issued, indexes, cmd, todo, tx, local, clients >>

InsertDocument(c) ==
  \E w \in pending[c] :
    LET d == local[c].found[w[2]]
    IN  /\ Inserts(cmd[c])
        /\ IsFirst(w, pending[c])
        /\ ~Refused(c, d) /\ ~Locked(c, TargetTable(c), d.id)
        /\ tx' = [tx EXCEPT ![c] = @ \cup {d}]
        /\ pending' = [pending EXCEPT ![c] = @ \ {w}]
        /\ UNCHANGED << database, cmd, todo, local, clients >>

\* A faulty variant: a duplicate key is tried again instead of reported.
RetryDuplicateKey(c) ==
  \E w \in pending[c] :
    /\ Inserts(cmd[c])
    /\ IsFirst(w, pending[c])
    /\ RefusedWithoutKey(c, local[c].found[w[2]])
    /\ Fail(c)

RefuseDocument(c) ==
  \E w \in pending[c] :
    /\ Inserts(cmd[c])
    /\ IsFirst(w, pending[c])
    /\ Refused(c, local[c].found[w[2]])
    /\ Fail(c)

\* A faulty variant: the deferred rollback is all that ends the transaction.
CommitForgotten(c) ==
  /\ At(c, "commit") /\ Inserts(cmd[c])
  /\ tx' = [tx EXCEPT ![c] = {}]
  /\ Advance(c)
  /\ UNCHANGED << database, cmd, pending, local, clients >>

Commit(c) ==
  /\ At(c, "commit") /\ Inserts(cmd[c])
  /\ rows' = [rows EXCEPT ![TargetTable(c)] = @ \cup tx[c]]
  /\ tx' = [tx EXCEPT ![c] = {}]
  /\ Advance(c)
  /\ UNCHANGED << tables, catalog, issued, indexes, cmd, pending, local, clients >>

\* TiDB aborts one of a set of transactions that wait for each other's keys.
WaitsFor(c, o) ==
  /\ o # c
  /\ \E w \in pending[c] :
       /\ Inserts(cmd[c]) /\ IsFirst(w, pending[c])
       /\ Holds(o, TargetTable(c), local[c].found[w[2]].id)

DeadlockVictim(c) ==
  /\ \E S \in SUBSET Conn :
       c \in S /\ \A x \in S : (\E y \in S : WaitsFor(x, y)) /\ (\E y \in S : WaitsFor(y, x))
  /\ Fail(c)

-----------------------------------------------------------------------------
(* Reads.  The table is scanned, then filtered and cut in Go. *)
Selects(c, use) ==
  At(c, "select") /\ Stmt(c).use = use /\ TableOf[Stmt(c).ns] \in tables

Results(c) ==
  {Limited(scan, Stmt(c).limit) :
     scan \in Orderings(rows[TableOf[Stmt(c).ns]] \cap Stmt(c).filter)}

\* find, count, distinct, aggregate
SelectForReply(c) ==
  /\ Selects(c, "reply")
  /\ \E docs \in Results(c) :
       local' = [local EXCEPT ![c].found = docs, ![c].count = Len(docs)]
  /\ Advance(c)
  /\ UNCHANGED << database, cmd, pending, tx, clients >>

\* findAndModify: the document before the change, its value and its n.
SelectBefore(c) ==
  /\ Selects(c, "before") /\ cmd[c].kind = "findAndModify"
  /\ \E docs \in Results(c) :
       /\ local' = [local EXCEPT ![c].count = Len(docs), ![c].value = Range(docs)]
       /\ Goto(c, AfterBefore(cmd[c], docs))
  /\ UNCHANGED << database, cmd, pending, tx, clients >>

\* findAndModify with new: the value is replaced if the query still matches.
SelectAfter(c) ==
  /\ Selects(c, "after")
  /\ \E docs \in Results(c) :
       local' = [local EXCEPT ![c].value = IF docs = <<>> THEN @ ELSE Range(docs)]
  /\ Advance(c)
  /\ UNCHANGED << database, cmd, pending, tx, clients >>

\* renameCollection: the documents to copy.
SelectForRename(c) ==
  /\ Selects(c, "rename") /\ cmd[c].kind = "renameCollection"
  /\ \E docs \in Results(c) :
       /\ local' = [local EXCEPT ![c].found = docs]
       /\ Goto(c, AfterRead(cmd[c], docs))
  /\ UNCHANGED << database, cmd, pending, tx, clients >>

\* The snapshot both loops run over; the reply to update and delete counts
\* the writes of the loop, that to findAndModify the documents found before.
StartLoop(c, docs, writes) ==
  /\ local' = [local EXCEPT ![c].found = docs,
                            ![c].count = IF cmd[c].kind = "findAndModify" THEN @
                                         ELSE Cardinality(writes)]
  /\ pending' = [pending EXCEPT ![c] = writes]
  /\ Advance(c)
  /\ UNCHANGED << database, cmd, tx, clients >>

SelectForUpdate(c) ==
  /\ Selects(c, "update") /\ Replaces(cmd[c])
  /\ \E docs \in Results(c) : StartLoop(c, docs, UpdateWrites(cmd[c].updates, docs))

SelectForDelete(c) ==
  /\ Selects(c, "delete") /\ Deletes(cmd[c])
  /\ \E docs \in Results(c) : StartLoop(c, docs, DeleteWrites(DeletesOf(cmd[c]), docs))

-----------------------------------------------------------------------------
(* The loops of Update and Delete: every write is a transaction of its own. *)

\* What write w of an update stores; nothing when it cannot be made or stored.
NewVersion(c, w) ==
  LET model == cmd[c].updates[w[1]]
  IN  IF w[2] = 0 THEN model.upsert ELSE model.apply[local[c].found[w[2]]]

\* A faulty variant: the content is a unique key as well, and REPLACE removes
\* every row it collides with.
ReplacedByContent(docs, new) ==
  {d \in docs : d.id # new.id /\ d.val # new.val} \cup {new}

\* REPLACE INTO: the row with the document's key, if any, is overwritten.
Replaced(docs, new) == {d \in docs : d.id # new.id} \cup {new}

ReplaceDocument(c) ==
  \E w \in pending[c] :
    /\ Replaces(cmd[c]) /\ IsFirst(w, pending[c])
    /\ TargetTable(c) \in tables
    /\ \E new \in NewVersion(c, w) :
         /\ ~Locked(c, TargetTable(c), new.id)
         /\ rows' = [rows EXCEPT ![TargetTable(c)] = Replaced(@, new)]
    /\ pending' = [pending EXCEPT ![c] = @ \ {w}]
    /\ UNCHANGED << tables, catalog, issued, indexes, cmd, todo, tx, local, clients >>

\* ApplyUpdate or replaceDocument returns an error: what the loop has written so far stays.
FailUpdate(c) ==
  \E w \in pending[c] :
    /\ Replaces(cmd[c]) /\ IsFirst(w, pending[c])
    /\ NewVersion(c, w) = {}
    /\ Fail(c)

\* DELETE by key; a document another transaction is inserting is not there yet.
DeleteDocument(c) ==
  \E w \in pending[c] :
    /\ Deletes(cmd[c]) /\ IsFirst(w, pending[c])
    /\ TargetTable(c) \in tables
    /\ rows' = [rows EXCEPT ![TargetTable(c)] =
                  {d \in @ : d.id # local[c].found[w[2]].id}]
    /\ pending' = [pending EXCEPT ![c] = @ \ {w}]
    /\ UNCHANGED << tables, catalog, issued, indexes, cmd, todo, tx, local, clients >>

\* The table of a find or of a write was dropped since the command ensured it.
TableMissing(c) ==
  /\ \/ At(c, "select") /\ TableOf[Stmt(c).ns] \notin tables
     \/ /\ pending[c] # {} /\ (Replaces(cmd[c]) \/ Deletes(cmd[c]))
        /\ TargetTable(c) \notin tables
  /\ Fail(c)

-----------------------------------------------------------------------------
(* A statement fails, its answer is lost, or the gateway dies: the client   *)
(* gets no ok, TiDB rolls back the transaction left open.                   *)
Abort(c) ==
  /\ cmd[c] # Idle
  /\ faults < MaxFaults
  /\ faults' = faults + 1
  /\ End(c, FALSE)
  /\ UNCHANGED << database, acked >>

CatalogStep(c) ==
  \/ EnsureTable(c) \/ ReadOptions(c) \/ UpsertRow(c) \/ DropTable(c) \/ DeleteRow(c)
  \/ ShowTables(c) \/ DeleteRows(c) \/ SelectCollections(c)

IndexStep(c) ==
  ReadCollectionID(c) \/ NoCollectionID(c) \/ InsertIndex(c) \/ SelectIndexes(c)

InsertStep(c) ==
  \/ ReadValidator(c) \/ InsertDocument(c) \/ RefuseDocument(c) \/ Commit(c)
  \/ DeadlockVictim(c)

ReadStep(c) ==
  \/ SelectForReply(c) \/ SelectBefore(c) \/ SelectAfter(c) \/ SelectForRename(c)
  \/ SelectForUpdate(c) \/ SelectForDelete(c)

WriteStep(c) ==
  ReplaceDocument(c) \/ FailUpdate(c) \/ DeleteDocument(c) \/ TableMissing(c)

\* The command of c takes a step.
Step(c) ==
  CatalogStep(c) \/ IndexStep(c) \/ InsertStep(c) \/ ReadStep(c) \/ WriteStep(c) \/ Answer(c)

\* All commands of all clients are answered: the system may stop.
Done ==
  /\ \A c \in Conn : cmd[c] = Idle /\ unsent[c] = {}
  /\ UNCHANGED vars

Next == Done \/ \E c \in Conn : Issue(c) \/ Step(c) \/ Abort(c)

\* A goroutine keeps running its command, and TiDB answers every statement;
\* no client has to send anything, and nothing has to fail.
Fairness == \A c \in Conn : WF_vars(Step(c))

Spec == Init /\ [][Next]_vars /\ Fairness

-----------------------------------------------------------------------------
(* Properties.  Those of clients that do not interfere name the tables the *)
(* commands of the menus write.                                            *)

\* The tables a command may drop, those it may take documents from, and those
\* whose documents it may change at all.
Droppable(m) ==
  {t \in Table :
     \/ m.kind = "drop" /\ t = TableOf[m.ns]
     \/ m.kind = "renameCollection" /\ t = TableOf[m.ns]
     \/ m.kind = "renameCollection" /\ m.dropTarget /\ t = TableOf[m.to]
     \/ m.kind = "dropDatabase" /\ LikeDatabase(t, m.db)}
Clobbers(m) ==
  Droppable(m) \cup {t \in Table : (Replaces(m) \/ Deletes(m)) /\ t = TableOf[m.ns]}
Writes(m) ==
  Clobbers(m) \cup {t \in Table : Inserts(m) /\ t = TableOf[Target(m)]}

\* The tables some client may take documents from, and who may write to a table.
Clobbered == UNION {Clobbers(m) : m \in Sendable}
Writers ==
  [t \in Table |-> {c \in Conn : \E menu \in Menus : \E m \in menu[c] : t \in Writes(m)}]

\* The documents of n are the business of command m: it is sent to n, to the
\* database of n or one whose name n's begins with (the underscores of LIKE),
\* or to a collection or database whose name is not proper.
About(m, n) ==
  IF m.kind = "dropDatabase"
  THEN Range(m.db) \subseteq Letters =>
         Len(m.db) <= Len(n.db) /\ m.db = SubSeq(n.db, 1, Len(m.db))
  ELSE \E k \in {m.ns, Target(m)} : k = n \/ ~Proper(k.db, k.coll)

\* The documents of a collection change only by commands about it: no two
\* collections with proper names share a table, however databases and
\* collections are called (schema.go:13-27, store.go:447-479).
CollectionsStayApart ==
  [][\A n \in Namespace :
       Proper(n.db, n.coll) /\ rows'[TableOf[n]] # rows[TableOf[n]] =>
         \E c \in Conn : /\ << todo[c], pending[c] >>' # << todo[c], pending[c] >>
                        /\ About(cmd[c], n)]_vars

\* No collection ever holds two documents with the same _id, whatever mix of
\* batches, replacements and retries writes to it (store.go:126-173, 386-401).
UniqueKeys ==
  \A t \in Table : \A d, e \in rows[t] : d.id = e.id => d = e

\* A collection lists only indexes that createIndexes was asked for by its own
\* name: dropping and re-creating collections between the statements of a
\* createIndexes never hands its indexes to another one (store.go:351-384).
NoIndexAdopted ==
  \A n \in Namespace : \A x \in indexes :
    catalog[n].id = x.cid => x.asked = n

\* A collection that is created starts without indexes, those of a dropped one
\* of its name and those a createIndexes is about to insert included: the rows
\* DropCollection leaves in _timongo.indexes are never seen again
\* (store.go:117-124, 350-384).
FreshCollectionHasNoIndexes ==
  [][\A n \in Namespace :
       catalog[n].id = 0 /\ catalog'[n].id # 0
         => /\ \A x \in indexes' : x.cid # catalog'[n].id
            /\ \A c \in Conn : local'[c].cid # catalog'[n].id]_vars

\* A batch that was acknowledged is stored, and stays stored as long as nobody
\* replaces, deletes or drops documents of the collection: the transaction is
\* committed before the answer (store.go:126-173).
AckedBatchStored ==
  \A m \in acked :
    m.kind = "insert" /\ TableOf[m.ns] \notin Clobbered
      => Range(m.docs) \subseteq rows[TableOf[m.ns]]

\* No update, whole or cut short, makes a document disappear, not even for the
\* time of a concurrent read: only deletes and drops do (store.go:386-401).
UpdatesKeepDocuments ==
  [][\A t \in tables \cap tables' :
       (\A c \in Conn : ~Deletes(cmd[c])) =>
         \A d \in rows[t] : \E e \in rows'[t] : e.id = d.id]_vars

\* c renames a collection, and nobody else writes to the two tables.
RenamesAlone(c) ==
  /\ cmd[c].kind = "renameCollection"
  /\ TableOf[cmd[c].ns] # TableOf[cmd[c].to]
  /\ \A n \in {cmd[c].ns, cmd[c].to} : Writers[TableOf[n]] \subseteq {c}

\* At every statement of a rename, and so wherever a fault cuts it, a document
\* of the source stays in the source or is in the target (handler.go:412-440).
RenameKeepsDocuments ==
  [][\A c \in Conn : RenamesAlone(c) =>
       rows[TableOf[cmd[c].ns]]
         \subseteq rows'[TableOf[cmd[c].ns]] \cup rows'[TableOf[cmd[c].to]]]_vars

\* When a rename is about to be acknowledged the source is empty and the target
\* has what the source held, and with dropTarget nothing else (handler.go:412-440).
RenameIsExact ==
  \A c \in Conn :
    RenamesAlone(c) /\ todo[c] = <<>> =>
      LET target == rows[TableOf[cmd[c].to]]
      IN  /\ rows[TableOf[cmd[c].ns]] = {}
          /\ Range(local[c].found) \subseteq target
          /\ cmd[c].dropTarget => target = Range(local[c].found)

\* At most one client writes to the table, and its name is made of plain ones.
OneWriter(t) == \A c, o \in Writers[t] : c = o
PlainTable(t) == \A n \in Namespace : TableOf[n] = t => Plain(n.db) /\ Plain(n.coll)

\* Documents are never in a table that no registered collection owns, where
\* listCollections does not show them: a command that dies half-way leaves at
\* most a registered collection without a table (store.go:53-79, 117-124, 447-479).
NoHiddenDocuments ==
  \A t \in Table :
    rows[t] # {} /\ OneWriter(t) /\ PlainTable(t)
      => \E n \in Namespace : TableOf[n] = t /\ catalog[n].id # 0

\* The collections command m registers, and a dropDatabase that no other client
\* registers collections or writes documents of the database beside.
Registers(m) ==
  {n \in Namespace : /\ m.kind \notin {"drop", "listIndexes", "dropDatabase", "listCollections",
                                      "find", "delete"}
                     /\ n = Target(m)}
DropsAlone(c) ==
  \A menu \in Menus, o \in Conn \ {c} : cmd[c] \in menu[c] =>
    \A m \in menu[o], n \in Namespace : n.db = cmd[c].db =>
      n \notin Registers(m) /\ TableOf[n] \notin Writes(m)

\* A dropDatabase about to be acknowledged, which nobody else's writes overlap,
\* has left no catalog row of the database, and no document in its collections
\* with plain names (store.go:447-479).
DropDatabaseLeavesNothing ==
  \A c \in Conn :
    cmd[c].kind = "dropDatabase" /\ todo[c] = <<>> /\ DropsAlone(c) =>
      \A n \in Namespace : n.db = cmd[c].db =>
        /\ catalog[n].id = 0
        /\ Plain(n.db) /\ Plain(n.coll) => rows[TableOf[n]] = {}

\* The catalog rows a command may write, and the clients that may write a row.
RowsOf(m) ==
  Registers(m) \cup {n \in Namespace : \/ m.kind \in {"drop", "renameCollection"} /\ n = m.ns
                                       \/ m.kind = "dropDatabase" /\ n.db = m.db}
Registrars ==
  [n \in Namespace |-> {c \in Conn : \E menu \in Menus : \E m \in menu[c] : n \in RowsOf(m)}]

\* A collection whose catalog row one client writes keeps its validator until it
\* is dropped or created with another one: the CreateCollection that inserts,
\* updates and createIndexes begin with writes back what it read (store.go:53-79).
ValidatorsSurvive ==
  [][\A n \in Namespace :
       (\A c, o \in Registrars[n] : c = o)
         /\ catalog'[n].validator # catalog[n].validator /\ catalog'[n] # NoRow =>
         \E c \in Conn : /\ cmd[c].kind = "create" /\ cmd[c].ns = n
                        /\ cmd[c].validator = catalog'[n].validator]_vars

\* No document that the collection's validator refuses is in an open transaction,
\* and so none is committed by an insert: the validator read before the BEGIN is
\* still the collection's, unless another client wrote it (store.go:126-173).
InsertsAreValidated ==
  \A c \in Conn :
    LET n == Target(cmd[c])
    IN  Inserts(cmd[c]) /\ Registrars[n] \subseteq {c} => tx[c] \subseteq catalog[n].validator

\* c is about to answer a command of this kind, and nobody else writes to its table.
FinishedAlone(c, kind) ==
  /\ cmd[c].kind = kind /\ todo[c] = <<>> /\ pending[c] = {}
  /\ Writers[TargetTable(c)] \subseteq {c}

\* What a model hits of the documents it matches: all of them, or one.
IsHit(hit, matched, multi) ==
  /\ hit \subseteq matched
  /\ IF multi \/ matched = {} THEN hit = matched ELSE Cardinality(hit) = 1

\* An update model makes at most one version of a document and one upsert, and
\* changes no _id if it may change several documents.
MakesOne(model) ==
  /\ \A d \in Doc : \A e, f \in model.apply[d] : e = f /\ (model.multi => e.id = d.id)
  /\ \A u, v \in model.upsert : u = v

\* What update models make of the documents S, and how many they count: every
\* model is given S as it was, and its versions replace those of earlier models.
IsUpdated(S, models, new, n) ==
  \E hit \in [DOMAIN models -> SUBSET S] :
    LET made(j) == IF S \cap models[j].matches = {} THEN models[j].upsert
                   ELSE UNION {models[j].apply[d] : d \in hit[j]}
    IN  /\ \A j \in DOMAIN models :
             IsHit(hit[j], S \cap models[j].matches, models[j].multi)
        /\ new = {d \in S : \A j \in DOMAIN models : \A e \in made(j) : e.id # d.id}
                   \cup UNION {{e \in made(j) : \A k \in DOMAIN models :
                                  k > j => \A f \in made(k) : f.id # e.id} :
                               j \in DOMAIN models}
        /\ n = Cardinality(UNION {{j} \X made(j) : j \in DOMAIN models})

\* An update that is acknowledged has changed, model by model, all documents the
\* model matched, or one of them, or inserted its upsert, has touched no other,
\* and reports the number of versions it made (store.go:256-305).
AckedUpdateIsExact ==
  \A c \in Conn :
    FinishedAlone(c, "update")
    /\ (\A j \in DOMAIN cmd[c].updates : MakesOne(cmd[c].updates[j])) =>
      IsUpdated(Range(local[c].found), cmd[c].updates, rows[TargetTable(c)], local[c].count)

\* The same for a delete; n counts a document once for every model that hits it,
\* as they all run over the same snapshot (store.go:308-335).
AckedDeleteIsExact ==
  \A c \in Conn :
    FinishedAlone(c, "delete") =>
      LET before == Range(local[c].found)
          models == cmd[c].deletes
      IN  \E hit \in [DOMAIN models -> SUBSET before] :
            /\ \A j \in DOMAIN models :
                 IsHit(hit[j], before \cap models[j].matches, models[j].multi)
            /\ rows[TargetTable(c)] = before \ UNION {hit[j] : j \in DOMAIN models}
            /\ local[c].count = Cardinality(UNION {{j} \X hit[j] : j \in DOMAIN models})

\* findAndModify by _id answers with the document as it is now stored when it
\* is asked for the new one, and with the removed one when it removes it
\* (handler.go:242-289).
FindAndModifyReturnsItsWrite ==
  \A c \in Conn : \A id \in Id :
    LET chosen == {d \in Doc : d.id = id}
        stored == rows[TargetTable(c)] \cap chosen
    IN  FinishedAlone(c, "findAndModify") /\ cmd[c].filter = chosen =>
          IF cmd[c].remove
          THEN stored = {} /\ local[c].value = Range(local[c].found) \cap chosen
          ELSE cmd[c].new => local[c].value = stored

\* Every command is answered, with ok or an error: no command waits for ever
\* for a key or a table that another one holds (store.go:137-170, 117-124).
EveryCommandAnswered == \A c \in Conn : cmd[c] # Idle ~> cmd[c] = Idle
=============================================================================
