----------------------------- MODULE TablesProofs -----------------------------
(***************************************************************************)
(* What the tables in TiDB hold: documents with keys of their own, updated *)
(* in place, and indexes of the collection they were created for.          *)
(***************************************************************************)
EXTENDS TiDBStoreProofs

(***************************************************************************)
(* No collection ever holds two documents with one _id.  The argument is   *)
(* that of the locks TiDB keeps for an open transaction: the documents a   *)
(* batch has inserted have keys that neither the table nor the batch of    *)
(* another connection has, so a commit adds none that is there already.    *)
(***************************************************************************)
LocksAt(c) ==
  /\ tx[c] # {} => Inserts(cmd[c])
  /\ \A d \in tx[c] :
       /\ \A e \in tx[c] : d.id = e.id => d = e
       /\ \A e \in rows[TargetTable(c)] : d.id # e.id
       /\ \A o \in Conn \ {c} : \A e \in tx[o] :
            TargetTable(o) = TargetTable(c) => d.id # e.id

KeysInv == UniqueKeys /\ \A c \in Conn : LocksAt(c)

-----------------------------------------------------------------------------
\* A step that writes no table and no transaction.
LEMMA KeysUnchanged ==
  ASSUME KeysInv, UNCHANGED << rows, cmd, tx >>
  PROVE  KeysInv'
BY DEF KeysInv, UniqueKeys, LocksAt, TargetTable

\* A step that only removes documents.
LEMMA RemovalKeepsKeys ==
  ASSUME TypeInv, KeysInv, UNCHANGED << cmd, tx >>,
         \A t \in Table : rows'[t] \subseteq rows[t]
  PROVE  KeysInv'
<1>1. UniqueKeys'
  BY DEF KeysInv, UniqueKeys
<1>2. ASSUME NEW c \in Conn PROVE LocksAt(c)'
  <2>1. CASE tx[c] = {}
    BY <2>1 DEF LocksAt
  <2>2. CASE tx[c] # {}
    <3>1. TargetTable(c) \in Table
      BY <2>2, TargetTableType DEF TypeInv, KeysInv, LocksAt
    <3> QED BY <3>1 DEF KeysInv, LocksAt, TargetTable
  <2> QED BY <2>1, <2>2
<1> QED BY <1>1, <1>2 DEF KeysInv

\* A command starts or ends: the connection has no transaction afterwards.
LEMMA BoundaryKeepsKeys ==
  ASSUME TypeInv, KeysInv, NEW c \in Conn, UNCHANGED rows, tx'[c] = {},
         \A o \in Conn \ {c} : cmd'[o] = cmd[o] /\ tx'[o] = tx[o]
  PROVE  KeysInv'
<1>1. UniqueKeys'
  BY DEF KeysInv, UniqueKeys
<1>2. ASSUME NEW o \in Conn PROVE LocksAt(o)'
  BY DEF KeysInv, LocksAt, TargetTable
<1> QED BY <1>1, <1>2 DEF KeysInv

LEMMA EndKeepsKeys ==
  ASSUME TypeInv, KeysInv, NEW c \in Conn, NEW ok, End(c, ok), UNCHANGED database
  PROVE  KeysInv'
<1>1. tx'[c] = {} /\ \A o \in Conn \ {c} : cmd'[o] = cmd[o] /\ tx'[o] = tx[o]
  BY DEF End, TypeInv, TypeOK
<1> QED BY <1>1, BoundaryKeepsKeys DEF database

LEMMA IssueKeepsKeys ==
  ASSUME TypeInv, KeysInv, NEW c \in Conn, Issue(c)
  PROVE  KeysInv'
<1>1. cmd[c] = Idle /\ UNCHANGED << database, tx >>
  BY DEF Issue
<1>2. tx'[c] = {}
  BY <1>1 DEF TypeInv, LoopInv, LoopAt
<1>3. \A o \in Conn \ {c} : cmd'[o] = cmd[o] /\ tx'[o] = tx[o]
  BY <1>1 DEF Issue, TypeInv, TypeOK
<1> QED BY <1>1, <1>2, <1>3, BoundaryKeepsKeys DEF database

-----------------------------------------------------------------------------
\* A document enters the transaction only under a key that is free.
LEMMA InsertDocumentKeepsKeys ==
  ASSUME TypeInv, KeysInv, NEW c \in Conn, InsertDocument(c)
  PROVE  KeysInv'
<1>1. PICK w \in pending[c] :
        /\ Inserts(cmd[c])
        /\ ~Refused(c, local[c].found[w[2]])
        /\ ~Locked(c, TargetTable(c), local[c].found[w[2]].id)
        /\ tx' = [tx EXCEPT ![c] = @ \cup {local[c].found[w[2]]}]
        /\ UNCHANGED << rows, cmd >>
  BY DEF InsertDocument, database
<1>2. PICK d : d = local[c].found[w[2]]
  OBVIOUS
<1>3. tx'[c] = tx[c] \cup {d} /\ \A o \in Conn \ {c} : tx'[o] = tx[o]
  BY <1>1, <1>2 DEF TypeInv, TypeOK
<1>4. \A e \in rows[TargetTable(c)] \cup tx[c] : d.id # e.id
  BY <1>1, <1>2 DEF Refused
<1>5. \A o \in Conn \ {c} : \A e \in tx[o] : TargetTable(o) = TargetTable(c) => d.id # e.id
  BY <1>1, <1>2 DEF Locked, Holds
<1>6. UniqueKeys'
  BY <1>1 DEF KeysInv, UniqueKeys
<1>7. \A o \in Conn : TargetTable(o)' = TargetTable(o)
  BY <1>1 DEF TargetTable
<1>8. LocksAt(c)'
  BY <1>1, <1>3, <1>4, <1>5, <1>7 DEF KeysInv, LocksAt
<1>9. ASSUME NEW o \in Conn \ {c} PROVE LocksAt(o)'
  BY <1>1, <1>3, <1>5, <1>7 DEF KeysInv, LocksAt
<1> QED BY <1>6, <1>8, <1>9 DEF KeysInv

\* The documents of a transaction join the table under keys nobody else has.
LEMMA CommitKeepsKeys ==
  ASSUME TypeInv, KeysInv, NEW c \in Conn, Commit(c)
  PROVE  KeysInv'
<1>1. PICK t \in Table : t = TargetTable(c)
  BY TargetTableType DEF Commit, TypeInv
<1>2. rows'[t] = rows[t] \cup tx[c] /\ \A u \in Table \ {t} : rows'[u] = rows[u]
  BY <1>1 DEF Commit, TypeInv, TypeOK
<1>3. tx'[c] = {} /\ \A o \in Conn \ {c} : tx'[o] = tx[o]
  BY DEF Commit, TypeInv, TypeOK
<1>4. \A o \in Conn : TargetTable(o)' = TargetTable(o) /\ cmd'[o] = cmd[o]
  BY DEF Commit, TargetTable
<1>5. UniqueKeys'
  BY <1>1, <1>2 DEF KeysInv, UniqueKeys, LocksAt
<1>6. ASSUME NEW o \in Conn PROVE LocksAt(o)'
  <2>1. CASE tx'[o] = {}
    BY <2>1 DEF LocksAt
  <2>2. CASE tx'[o] # {}
    <3>1. o # c /\ tx'[o] = tx[o]
      BY <1>3, <2>2
    <3>2. TargetTable(o) \in Table /\ Inserts(cmd[o])
      BY <2>2, <3>1, TargetTableType DEF TypeInv, KeysInv, LocksAt
    <3>3. \A d \in tx[o], e \in rows'[TargetTable(o)] : d.id # e.id
      BY <1>1, <1>2, <3>1, <3>2 DEF KeysInv, LocksAt
    <3>4. \A d \in tx[o] : \A p \in Conn \ {o} : \A e \in tx'[p] :
            TargetTable(p) = TargetTable(o) => d.id # e.id
      BY <1>3, <3>1 DEF KeysInv, LocksAt
    <3> QED BY <1>4, <3>1, <3>2, <3>3, <3>4 DEF KeysInv, LocksAt
  <2> QED BY <2>1, <2>2
<1> QED BY <1>5, <1>6 DEF KeysInv

\* REPLACE keeps one document for each key and waits for the keys of others.
LEMMA ReplaceDocumentKeepsKeys ==
  ASSUME TypeInv, KeysInv, NEW c \in Conn, ReplaceDocument(c)
  PROVE  KeysInv'
<1>1. PICK w \in pending[c] :
        /\ Replaces(cmd[c])
        /\ \E new \in NewVersion(c, w) :
             /\ ~Locked(c, TargetTable(c), new.id)
             /\ rows' = [rows EXCEPT ![TargetTable(c)] = Replaced(@, new)]
        /\ UNCHANGED << cmd, tx >>
  BY DEF ReplaceDocument
<1>2. PICK new \in NewVersion(c, w) :
        /\ ~Locked(c, TargetTable(c), new.id)
        /\ rows' = [rows EXCEPT ![TargetTable(c)] = Replaced(@, new)]
  BY <1>1
<1>3. PICK t \in Table : t = TargetTable(c)
  BY <1>1, TargetTableType DEF TypeInv
<1>4. rows'[t] = Replaced(rows[t], new) /\ \A u \in Table \ {t} : rows'[u] = rows[u]
  BY <1>2, <1>3 DEF TypeInv, TypeOK
<1>5. UniqueKeys'
  BY <1>4 DEF Replaced, KeysInv, UniqueKeys
<1>6. tx[c] = {}
  BY <1>1 DEF KeysInv, LocksAt, Inserts, Replaces
<1>7. ASSUME NEW o \in Conn PROVE LocksAt(o)'
  <2>1. CASE tx[o] = {}
    BY <1>1, <2>1 DEF LocksAt
  <2>2. CASE tx[o] # {}
    <3>1. TargetTable(o) \in Table /\ o # c
      BY <1>6, <2>2, TargetTableType DEF TypeInv, KeysInv, LocksAt
    <3>2. TargetTable(o) = t => \A d \in tx[o] : d.id # new.id
      BY <1>2, <1>3, <3>1 DEF Locked, Holds
    <3>3. \A d \in tx[o], e \in rows'[TargetTable(o)] : d.id # e.id
      BY <1>4, <3>1, <3>2 DEF Replaced, KeysInv, LocksAt
    <3> QED BY <1>1, <3>3 DEF KeysInv, LocksAt, TargetTable
  <2> QED BY <2>1, <2>2
<1> QED BY <1>5, <1>7 DEF KeysInv

LEMMA DeletionKeepsKeys ==
  ASSUME TypeInv, KeysInv, NEW c \in Conn, DropTable(c) \/ DeleteDocument(c)
  PROVE  KeysInv'
<1>1. UNCHANGED << cmd, tx >>
  BY DEF DropTable, DeleteDocument
<1>2. \A t \in Table : rows'[t] \subseteq rows[t]
  BY DEF DropTable, DeleteDocument, TypeInv, TypeOK
<1> QED BY <1>1, <1>2, RemovalKeepsKeys

-----------------------------------------------------------------------------
LEMMA InitKeys == Init => KeysInv
<1> SUFFICES ASSUME Init PROVE KeysInv
  OBVIOUS
<1>1. \A c \in Conn : tx[c] = {}
  BY DEF Init
<1>2. UniqueKeys
  BY LoadedKeysAssumption DEF Init, UniqueKeys
<1> QED BY <1>1, <1>2 DEF KeysInv, LocksAt

LEMMA NextKeys ==
  ASSUME TypeInv, KeysInv, [Next]_vars
  PROVE  KeysInv'
<1>1. CASE UNCHANGED vars \/ Done
  BY <1>1, KeysUnchanged DEF vars, Done
<1>2. ASSUME NEW c \in Conn, Issue(c) PROVE KeysInv'
  BY <1>2, IssueKeepsKeys
<1>3. ASSUME NEW c \in Conn, CatalogStep(c) PROVE KeysInv'
  <2>1. CASE DropTable(c)
    BY <2>1, DeletionKeepsKeys
  <2>2. CASE ~DropTable(c)
    BY <1>3, <2>2, KeysUnchanged
       DEF CatalogStep, EnsureTable, ReadOptions, UpsertRow, DeleteRow, ShowTables,
           DeleteRows, SelectCollections, database
  <2> QED BY <2>1, <2>2
<1>4. ASSUME NEW c \in Conn, End(c, TRUE) \/ End(c, FALSE), UNCHANGED database
      PROVE  KeysInv'
  BY <1>4, EndKeepsKeys
<1>5. ASSUME NEW c \in Conn, IndexStep(c) PROVE KeysInv'
  <2>1. CASE Fail(c)
    BY <1>4, <2>1 DEF Fail
  <2>2. CASE ~Fail(c)
    BY <1>5, <2>2, KeysUnchanged
       DEF IndexStep, ReadCollectionID, NoCollectionID, InsertIndex, SelectIndexes, database
  <2> QED BY <2>1, <2>2
<1>6. ASSUME NEW c \in Conn, InsertStep(c) PROVE KeysInv'
  <2>1. CASE ReadValidator(c)
    BY <2>1, KeysUnchanged DEF ReadValidator, database
  <2>2. CASE Fail(c)
    BY <1>4, <2>2 DEF Fail
  <2> QED BY <1>6, <2>1, <2>2, InsertDocumentKeepsKeys, CommitKeepsKeys
          DEF InsertStep, RefuseDocument, DeadlockVictim
<1>7. ASSUME NEW c \in Conn, ReadStep(c) PROVE KeysInv'
  BY <1>7, KeysUnchanged
     DEF ReadStep, SelectForReply, SelectBefore, SelectAfter, SelectForRename,
         SelectForUpdate, SelectForDelete, StartLoop, database
<1>8. ASSUME NEW c \in Conn, WriteStep(c) PROVE KeysInv'
  <2>1. CASE Fail(c)
    BY <1>4, <2>1 DEF Fail
  <2> QED BY <1>8, <2>1, ReplaceDocumentKeepsKeys, DeletionKeepsKeys
          DEF WriteStep, FailUpdate, TableMissing
<1>9. ASSUME NEW c \in Conn, Answer(c) \/ Abort(c) PROVE KeysInv'
  BY <1>4, <1>9 DEF Answer, Abort
<1> QED BY <1>1, <1>2, <1>3, <1>5, <1>6, <1>7, <1>8, <1>9 DEF Next, Step

\* No interleaving of batches, replacements, retries and faults stores two
\* documents with the same _id in one collection (store.go:126-173, 386-401).
THEOREM KeysAreUnique == Spec => []UniqueKeys
<1>1. Init => TypeInv /\ KeysInv
  BY InitType, InitKeys
<1>2. TypeInv /\ KeysInv /\ [Next]_vars => (TypeInv /\ KeysInv)'
  BY NextType, NextKeys
<1>3. KeysInv => UniqueKeys
  BY DEF KeysInv
<1> QED BY <1>1, <1>2, <1>3, PTL DEF Spec

-----------------------------------------------------------------------------
(* Which documents a step changes. *)

\* Four statements write to the tables of documents.
WritesRows(c) == DropTable(c) \/ Commit(c) \/ ReplaceDocument(c) \/ DeleteDocument(c)

LEMMA OthersKeepRows ==
  ASSUME NEW c \in Conn, Issue(c) \/ Step(c) \/ Abort(c), ~WritesRows(c)
  PROVE  rows' = rows
<1>1. CASE Issue(c) \/ Abort(c) \/ Fail(c) \/ Answer(c)
  BY <1>1 DEF Issue, Abort, Fail, Answer, database
<1>2. CASE CatalogStep(c) \/ IndexStep(c)
  BY <1>1, <1>2 DEF CatalogStep, EnsureTable, ReadOptions, UpsertRow, DeleteRow, ShowTables,
                    DeleteRows, SelectCollections, IndexStep, ReadCollectionID,
                    NoCollectionID, InsertIndex, SelectIndexes, WritesRows, database
<1>3. CASE InsertStep(c) \/ WriteStep(c)
  BY <1>1, <1>3 DEF InsertStep, ReadValidator, InsertDocument, RefuseDocument,
                    DeadlockVictim, WriteStep, FailUpdate, TableMissing, WritesRows, database
<1>4. CASE ReadStep(c)
  BY <1>4 DEF ReadStep, SelectForReply, SelectBefore, SelectAfter, SelectForRename,
              SelectForUpdate, SelectForDelete, StartLoop, database
<1> QED BY <1>1, <1>2, <1>3, <1>4 DEF Step

\* Only a DROP TABLE and a DELETE take a key out of a table.
LEMMA KeysStay ==
  ASSUME TypeInv, [Next]_vars, \A c \in Conn : ~Deletes(cmd[c]),
         NEW t \in tables \cap tables', NEW d \in rows[t]
  PROVE  \E e \in rows'[t] : e.id = d.id
<1>1. t \in Table
  BY DEF TypeInv, TypeOK
<1>2. CASE rows' = rows
  BY <1>2
<1>3. ASSUME NEW c \in Conn, WritesRows(c) PROVE \E e \in rows'[t] : e.id = d.id
  <2>1. CASE DropTable(c)
    BY <1>1, <2>1 DEF DropTable, TypeInv, TypeOK
  <2>2. CASE Commit(c)
    BY <1>1, <2>2 DEF Commit, TypeInv, TypeOK
  <2>3. CASE ReplaceDocument(c)
    <3>1. PICK new : rows' = [rows EXCEPT ![TargetTable(c)] = Replaced(@, new)]
      BY <2>3 DEF ReplaceDocument
    <3>2. rows'[t] = rows[t] \/ rows'[t] = Replaced(rows[t], new)
      BY <1>1, <3>1 DEF TypeInv, TypeOK
    <3>3. d \in Replaced(rows[t], new) \/ (new \in Replaced(rows[t], new) /\ d.id = new.id)
      BY DEF Replaced
    <3> QED BY <3>2, <3>3
  <2>4. ~DeleteDocument(c)
    BY DEF DeleteDocument
  <2> QED BY <1>3, <2>1, <2>2, <2>3, <2>4 DEF WritesRows
<1> QED BY <1>2, <1>3, OthersKeepRows DEF Next, Done, vars

\* Whatever statements of updates, inserts and reads interleave, every _id a
\* table holds is there after the step, unless the table is dropped or a delete
\* is at work (store.go:386-401).
THEOREM UpdatesLoseNoDocument == Spec => UpdatesKeepDocuments
<1>1. TypeInv /\ [Next]_vars =>
        [\A t \in tables \cap tables' :
           (\A c \in Conn : ~Deletes(cmd[c])) =>
             \A d \in rows[t] : \E e \in rows'[t] : e.id = d.id]_vars
  BY KeysStay
<1> QED BY <1>1, TypeInvariant, PTL DEF Spec, UpdatesKeepDocuments

(***************************************************************************)
(* Index metadata belongs to the collection it was created for, whatever   *)
(* is dropped and re-created meanwhile.  The argument is that the ids of   *)
(* the catalog are never reused: a row of the catalog, an index and a      *)
(* createIndexes on its way all have an id issued to their own namespace.  *)
(***************************************************************************)
\* id was issued to namespace n.
IssuedTo(id, n) == id \in 1..Len(issued) /\ issued[id] = n

IndexerAt(c) ==
  /\ local[c].cid \in 0..Len(issued)
  /\ cmd[c].kind = "createIndexes" =>
       /\ pending[c] # {} => IssuedTo(local[c].cid, cmd[c].ns)
       /\ \A i \in DOMAIN todo[c] :
            todo[c][i].op = "readCollectionID" => todo[c][i].ns = cmd[c].ns

IssuedInv ==
  /\ \A n \in Namespace : catalog[n].id # 0 => IssuedTo(catalog[n].id, n)
  /\ \A x \in indexes : IssuedTo(x.cid, x.asked)
  /\ \A c \in Conn : IndexerAt(c)

-----------------------------------------------------------------------------
\* A step of c that leaves the catalog alone.
LEMMA OnlyOneMoves ==
  ASSUME TypeInv, IssuedInv, NEW c \in Conn, UNCHANGED << catalog, issued, indexes >>,
         \A o \in Conn \ {c} : /\ cmd'[o] = cmd[o] /\ todo'[o] = todo[o]
                               /\ pending'[o] = pending[o] /\ local'[o] = local[o],
         IndexerAt(c)'
  PROVE  IssuedInv'
<1> SUFFICES ASSUME NEW o \in Conn, o # c PROVE IndexerAt(o)'
  BY DEF IssuedInv, IssuedTo
<1> QED BY DEF IssuedInv, IndexerAt, IssuedTo

\* The statements left are among those there were.
LEMMA TailElements ==
  ASSUME TypeOK, NEW c \in Conn, todo[c] # <<>>, NEW i \in DOMAIN Tail(todo[c])
  PROVE  \E j \in DOMAIN todo[c] : Tail(todo[c])[i] = todo[c][j]
<1>1. todo[c] \in Seq(Statement) /\ Len(todo[c]) \in Nat \ {0}
  BY EmptySeq, LenProperties DEF TypeOK
<1>2. /\ Tail(todo[c]) \in Seq(Statement)
      /\ Len(Tail(todo[c])) = Len(todo[c]) - 1
      /\ \A j \in 1..Len(Tail(todo[c])) : Tail(todo[c])[j] = todo[c][j + 1]
  BY <1>1, HeadTailProperties
<1>3. i + 1 \in DOMAIN todo[c] /\ i \in 1..Len(Tail(todo[c]))
  BY <1>1, <1>2, LenProperties
<1> QED BY <1>2, <1>3

\* A step to the next statement that keeps collection_id and the loop.
LEMMA AdvanceKeeps ==
  ASSUME TypeInv, IssuedInv, NEW c \in Conn, todo[c] # <<>>, Advance(c),
         UNCHANGED << catalog, issued, indexes, cmd, pending >>,
         local'[c].cid = local[c].cid,
         \A o \in Conn \ {c} : local'[o] = local[o]
  PROVE  IssuedInv'
<1>1. todo' = [todo EXCEPT ![c] = Tail(todo[c])] /\ todo'[c] = Tail(todo[c])
  BY DEF Advance, Goto, TypeInv, TypeOK
<1>2. \A i \in DOMAIN todo'[c] : \E j \in DOMAIN todo[c] : todo'[c][i] = todo[c][j]
  BY <1>1, TailElements DEF TypeInv
<1>3. IndexerAt(c)'
  BY <1>1, <1>2 DEF IssuedInv, IndexerAt, IssuedTo
<1>4. \A o \in Conn \ {c} : todo'[o] = todo[o]
  BY <1>1 DEF TypeInv, TypeOK
<1> QED BY <1>3, <1>4, OnlyOneMoves

\* A step of a command that is no createIndexes.
LEMMA OthersKeep ==
  ASSUME TypeInv, IssuedInv, NEW c \in Conn,
         UNCHANGED << catalog, issued, indexes, cmd >>,
         cmd[c].kind # "createIndexes",
         local'[c].cid = local[c].cid,
         \A o \in Conn \ {c} : /\ todo'[o] = todo[o]
                               /\ pending'[o] = pending[o] /\ local'[o] = local[o]
  PROVE  IssuedInv'
<1>1. IndexerAt(c)'
  BY DEF IssuedInv, IndexerAt
<1> QED BY <1>1, OnlyOneMoves

LEMMA EndKeeps ==
  ASSUME TypeInv, IssuedInv, NEW c \in Conn, NEW ok, End(c, ok), UNCHANGED database
  PROVE  IssuedInv'
<1>1. cmd'[c] = Idle /\ local'[c].cid = 0 /\ issued' = issued
  BY DEF End, TypeInv, TypeOK, Blank, database
<1>2. Len(issued) \in Nat
  BY LenProperties DEF TypeInv, TypeOK
<1>3. IndexerAt(c)'
  BY <1>1, <1>2 DEF IndexerAt, Idle
<1>4. \A o \in Conn \ {c} : /\ cmd'[o] = cmd[o] /\ todo'[o] = todo[o]
                            /\ pending'[o] = pending[o] /\ local'[o] = local[o]
  BY DEF End, TypeInv, TypeOK
<1> QED BY <1>3, <1>4, OnlyOneMoves DEF database

LEMMA IssueKeeps ==
  ASSUME TypeInv, IssuedInv, NEW c \in Conn, Issue(c)
  PROVE  IssuedInv'
<1>1. PICK m \in unsent[c] :
        /\ cmd[c] = Idle
        /\ cmd' = [cmd EXCEPT ![c] = m]
        /\ Goto(c, Program(m))
        /\ local' = [local EXCEPT ![c].found = IF m.kind = "insert" THEN m.docs ELSE <<>>]
        /\ UNCHANGED << database, pending >>
  BY DEF Issue
<1>2. /\ cmd'[c] = m /\ todo'[c] = Program(m) /\ local'[c].cid = local[c].cid
      /\ pending'[c] = {} /\ issued' = issued
  BY <1>1 DEF Goto, TypeInv, TypeOK, LoopInv, LoopAt, Local, database
<1>3. ASSUME m.kind = "createIndexes", NEW i \in DOMAIN Program(m),
             Program(m)[i].op = "readCollectionID"
      PROVE  Program(m)[i].ns = m.ns
  BY <1>3 DEF Program, CreateCollection, EnsureCollection, On
<1>4. IndexerAt(c)'
  BY <1>2, <1>3 DEF IssuedInv, IndexerAt
<1>5. \A o \in Conn \ {c} : /\ cmd'[o] = cmd[o] /\ todo'[o] = todo[o]
                            /\ pending'[o] = pending[o] /\ local'[o] = local[o]
  BY <1>1 DEF Goto, TypeInv, TypeOK
<1> QED BY <1>1, <1>4, <1>5, OnlyOneMoves DEF database

-----------------------------------------------------------------------------
(* The actions on the catalog. *)

\* Ids issued earlier stay with their namespaces.
LEMMA UpsertRowKeeps ==
  ASSUME TypeInv, IssuedInv, NEW c \in Conn, UpsertRow(c)
  PROVE  /\ IssuedInv'
         /\ \A n \in Namespace : catalog[n].id = 0 /\ catalog'[n].id # 0 =>
              catalog'[n].id = Len(issued) + 1
<1>0. PICK n \in Namespace : n = Stmt(c).ns
  BY AtType, StatementFields DEF UpsertRow, At, Stmt, TypeInv
<1> DEFINE validator == MergedValidator(Stmt(c).validator, local[c].opts)
<1>1. issued \in Seq(Namespace) /\ Len(issued) \in Nat
  BY LenProperties DEF TypeInv, TypeOK
<1>2. catalog \in [Namespace -> CatalogRow]
  BY DEF TypeInv, TypeOK
<1>3. /\ Advance(c) /\ todo[c] # <<>>
      /\ UNCHANGED << indexes, cmd, pending, local >>
  BY DEF UpsertRow, At
<1>4. \/ /\ catalog[n].id = 0
         /\ catalog' = [catalog EXCEPT ![n] = [id |-> NextId, validator |-> validator]]
         /\ issued' = Append(issued, n)
      \/ /\ catalog[n].id # 0
         /\ catalog' = [catalog EXCEPT ![n].validator = validator]
         /\ issued' = issued
  BY <1>0 DEF UpsertRow
<1> HIDE DEF validator
<1>5. CASE issued' = issued /\ catalog' = [catalog EXCEPT ![n].validator = validator]
  <2>1. \A m \in Namespace : catalog'[m].id = catalog[m].id
    BY <1>1, <1>2, <1>5 DEF CatalogRow
  <2>2. todo' = [todo EXCEPT ![c] = Tail(todo[c])] /\ todo'[c] = Tail(todo[c])
    BY <1>3 DEF Advance, Goto, TypeInv, TypeOK
  <2>3. \A i \in DOMAIN todo'[c] : \E j \in DOMAIN todo[c] : todo'[c][i] = todo[c][j]
    BY <1>3, <2>2, TailElements DEF TypeInv
  <2>4. \A o \in Conn : IndexerAt(o)'
    BY <1>3, <1>5, <2>2, <2>3 DEF IssuedInv, IndexerAt, IssuedTo, TypeInv, TypeOK
  <2> QED BY <1>3, <1>5, <2>1, <2>4 DEF IssuedInv, IssuedTo
<1>6. CASE /\ catalog' = [catalog EXCEPT ![n] = [id |-> NextId, validator |-> validator]]
           /\ issued' = Append(issued, n)
  <2>1. /\ Len(issued') = Len(issued) + 1
        /\ \A i \in 1..Len(issued) : issued'[i] = issued[i]
        /\ issued'[Len(issued) + 1] = n
    BY <1>1, <1>6, AppendProperties
  <2>2. \A id, m : IssuedTo(id, m) => IssuedTo(id, m)'
    BY <1>1, <2>1 DEF IssuedTo
  <2>3. catalog'[n].id = Len(issued) + 1
        /\ \A m \in Namespace \ {n} : catalog'[m] = catalog[m]
    BY <1>1, <1>2, <1>6 DEF NextId
  <2>4. IssuedTo(catalog[n].id, n)'
    BY <1>1, <2>1, <2>3 DEF IssuedTo
  <2>5. \A m \in Namespace : catalog'[m].id # 0 => IssuedTo(catalog[m].id, m)'
    BY <2>2, <2>3, <2>4 DEF IssuedInv, IssuedTo
  <2>6. \A x \in indexes' : IssuedTo(x.cid, x.asked)'
    BY <1>3, <2>2 DEF IssuedInv, IssuedTo
  <2>7. todo' = [todo EXCEPT ![c] = Tail(todo[c])] /\ todo'[c] = Tail(todo[c])
    BY <1>3 DEF Advance, Goto, TypeInv, TypeOK
  <2>8. \A i \in DOMAIN todo'[c] : \E j \in DOMAIN todo[c] : todo'[c][i] = todo[c][j]
    BY <1>3, <2>7, TailElements DEF TypeInv
  <2>9. \A o \in Conn : IndexerAt(o)'
    <3> SUFFICES ASSUME NEW o \in Conn PROVE IndexerAt(o)'
      OBVIOUS
    <3>1. local'[o].cid \in 0..Len(issued')
      BY <1>1, <1>3, <2>1 DEF IssuedInv, IndexerAt
    <3>2. \A i \in DOMAIN todo'[o] : \E j \in DOMAIN todo[o] : todo'[o][i] = todo[o][j]
      BY <2>7, <2>8 DEF TypeInv, TypeOK
    <3>3. pending'[o] # {} /\ cmd'[o].kind = "createIndexes" =>
            IssuedTo(local[o].cid, cmd[o].ns)'
      BY <1>3, <2>2 DEF IssuedInv, IndexerAt, IssuedTo
    <3> QED BY <1>3, <3>1, <3>2, <3>3 DEF IssuedInv, IndexerAt
  <2> QED BY <2>3, <2>5, <2>6, <2>9 DEF IssuedInv
<1> QED BY <1>4, <1>5, <1>6

\* A step that only removes rows of the catalog.
LEMMA RemovalKeeps ==
  ASSUME TypeInv, IssuedInv, NEW c \in Conn, todo[c] # <<>>, Advance(c),
         UNCHANGED << issued, indexes, cmd, pending, local >>,
         \A n \in Namespace : catalog'[n] \in {catalog[n], NoRow}
  PROVE  IssuedInv'
<1>1. \A n \in Namespace : catalog'[n].id # 0 => catalog'[n] = catalog[n]
  BY DEF NoRow
<1>2. todo' = [todo EXCEPT ![c] = Tail(todo[c])] /\ todo'[c] = Tail(todo[c])
  BY DEF Advance, Goto, TypeInv, TypeOK
<1>3. \A i \in DOMAIN todo'[c] : \E j \in DOMAIN todo[c] : todo'[c][i] = todo[c][j]
  BY <1>2, TailElements DEF TypeInv
<1>4. \A o \in Conn : IndexerAt(o)'
  BY <1>2, <1>3 DEF IssuedInv, IndexerAt, IssuedTo, TypeInv, TypeOK
<1> QED BY <1>1, <1>4 DEF IssuedInv, IssuedTo

LEMMA DeleteRowKeeps ==
  ASSUME TypeInv, IssuedInv, NEW c \in Conn, DeleteRow(c)
  PROVE  IssuedInv' /\ \A n \in Namespace : catalog'[n].id # 0 => catalog[n].id # 0
<1>1. \A n \in Namespace : catalog'[n] \in {catalog[n], NoRow}
  BY DEF DeleteRow, TypeInv, TypeOK
<1> QED BY <1>1, RemovalKeeps DEF DeleteRow, At, NoRow

LEMMA DeleteRowsKeeps ==
  ASSUME TypeInv, IssuedInv, NEW c \in Conn, DeleteRows(c)
  PROVE  IssuedInv' /\ \A n \in Namespace : catalog'[n].id # 0 => catalog[n].id # 0
<1>1. \A n \in Namespace : catalog'[n] \in {catalog[n], NoRow}
  BY DEF DeleteRows
<1> QED BY <1>1, RemovalKeeps DEF DeleteRows, At, NoRow

LEMMA ShowTablesKeeps ==
  ASSUME TypeInv, IssuedInv, NEW c \in Conn, ShowTables(c)
  PROVE  IssuedInv'
<1> DEFINE S == {t \in tables : LikeDatabase(t, Stmt(c).db)}
           drops(listed) == [i \in DOMAIN listed |-> DropTableOf(listed[i])]
<1>1. PICK listed \in Orderings(S) : Goto(c, drops(listed) \o Tail(todo[c]))
  BY DEF ShowTables
<1>2. drops(listed) \in Seq(Statement) /\ Tail(todo[c]) \in Seq(Statement)
  BY <1>1, DropTablesType, AtType DEF TypeInv, ShowTables, At
<1>3. \A i \in DOMAIN drops(listed) : drops(listed)[i].op = "dropTable"
  BY DEF DropTableOf
<1> HIDE DEF drops
<1>4. \A i \in DOMAIN (drops(listed) \o Tail(todo[c])) :
        \/ (drops(listed) \o Tail(todo[c]))[i].op = "dropTable"
        \/ \E j \in DOMAIN Tail(todo[c]) :
             (drops(listed) \o Tail(todo[c]))[i] = Tail(todo[c])[j]
  <2> DEFINE a == drops(listed)
             b == Tail(todo[c])
  <2>1. /\ Len(a) \in Nat /\ DOMAIN a = 1..Len(a)
        /\ Len(b) \in Nat /\ DOMAIN b = 1..Len(b)
    BY <1>2, LenProperties
  <2>2. /\ DOMAIN (a \o b) = 1..(Len(a) + Len(b))
        /\ \A i \in 1..(Len(a) + Len(b)) :
             (a \o b)[i] = IF i <= Len(a) THEN a[i] ELSE b[i - Len(a)]
    BY <1>2, ConcatProperties, LenProperties
  <2> HIDE DEF a, b
  <2>3. \A i \in DOMAIN (a \o b) : \/ i \in DOMAIN a /\ (a \o b)[i] = a[i]
                                   \/ i - Len(a) \in DOMAIN b /\ (a \o b)[i] = b[i - Len(a)]
    BY <2>1, <2>2
  <2> QED BY <1>3, <2>3 DEF a, b
<1>5. \A i \in DOMAIN todo'[c] : \/ todo'[c][i].op = "dropTable"
                                 \/ \E j \in DOMAIN todo[c] : todo'[c][i] = todo[c][j]
  <2>1. todo'[c] = drops(listed) \o Tail(todo[c])
    BY <1>1 DEF Goto, TypeInv, TypeOK
  <2>2. \A j \in DOMAIN Tail(todo[c]) : \E k \in DOMAIN todo[c] : Tail(todo[c])[j] = todo[c][k]
    BY TailElements DEF TypeInv, ShowTables, At
  <2> QED BY <1>4, <2>1, <2>2
<1>6. UNCHANGED << catalog, issued, indexes, cmd, pending, local >>
  BY DEF ShowTables, database
<1>7. IndexerAt(c)'
  BY <1>5, <1>6 DEF IssuedInv, IndexerAt, IssuedTo
<1>8. \A o \in Conn \ {c} : todo'[o] = todo[o]
  BY <1>1 DEF Goto, TypeInv, TypeOK
<1> QED BY <1>6, <1>7, <1>8, OnlyOneMoves

-----------------------------------------------------------------------------
(* Index metadata. *)

\* collection_id is read from the row of the collection createIndexes is for.
LEMMA ReadCollectionIDKeeps ==
  ASSUME TypeInv, IssuedInv, NEW c \in Conn, ReadCollectionID(c)
  PROVE  IssuedInv'
<1> DEFINE id == catalog[Stmt(c).ns].id
<1>1. Stmt(c).ns \in Namespace /\ Len(issued) \in Nat
  BY AtType, StatementFields, LenProperties
     DEF ReadCollectionID, At, Stmt, TypeInv, TypeOK, OnNamespace
<1>2. IssuedTo(id, Stmt(c).ns) /\ id \in 0..Len(issued)
  BY <1>1 DEF ReadCollectionID, IssuedInv, IssuedTo
<1>3. /\ local'[c].cid = id
      /\ \A o \in Conn \ {c} : local'[o] = local[o] /\ pending'[o] = pending[o]
                               /\ todo'[o] = todo[o]
      /\ UNCHANGED << catalog, issued, indexes, cmd >>
  BY DEF ReadCollectionID, TypeInv, TypeOK, Local, Advance, Goto, database
<1>4. CASE cmd[c].kind = "createIndexes"
  <2>1. Advance(c) /\ todo[c] # <<>> /\ Stmt(c) = Head(todo[c])
        /\ Stmt(c).op = "readCollectionID"
    BY <1>4 DEF ReadCollectionID, At, Stmt
  <2>2. Stmt(c).ns = cmd[c].ns
    <3>1. 1 \in DOMAIN todo[c] /\ Head(todo[c]) = todo[c][1]
      <4>1. todo[c] \in Seq(Statement)
        BY DEF TypeInv, TypeOK
      <4> QED BY <2>1, <4>1, HeadTailProperties, LenProperties, EmptySeq
    <3> QED BY <1>4, <2>1, <3>1 DEF IssuedInv, IndexerAt
  <2>3. todo'[c] = Tail(todo[c])
    BY <2>1 DEF Advance, Goto, TypeInv, TypeOK
  <2>4. \A i \in DOMAIN todo'[c] : \E j \in DOMAIN todo[c] : todo'[c][i] = todo[c][j]
    BY <2>1, <2>3, TailElements DEF TypeInv
  <2>5. local'[c].cid \in 0..Len(issued') /\ IssuedTo(local[c].cid, cmd[c].ns)'
    BY <1>2, <1>3, <2>2 DEF IssuedTo
  <2>6. IndexerAt(c)'
    BY <1>3, <2>4, <2>5 DEF IssuedInv, IndexerAt
  <2> QED BY <1>3, <2>6, OnlyOneMoves
<1>5. CASE cmd[c].kind = "listIndexes"
  <2>1. IndexerAt(c)'
    BY <1>2, <1>3, <1>5 DEF IndexerAt
  <2> QED BY <1>3, <2>1, OnlyOneMoves
<1> QED BY <1>4, <1>5 DEF ReadCollectionID

LEMMA NoCollectionIDKeeps ==
  ASSUME TypeInv, IssuedInv, NEW c \in Conn, NoCollectionID(c)
  PROVE  IssuedInv'
<1>1. CASE Fail(c)
  BY <1>1, EndKeeps DEF Fail
<1>2. CASE ~Fail(c)
  <2>1. /\ Advance(c) /\ todo[c] # <<>>
        /\ local' = [local EXCEPT ![c].count = 1]
        /\ UNCHANGED << catalog, issued, indexes, cmd, pending >>
    BY <1>2 DEF NoCollectionID, At, database
  <2>2. local'[c].cid = local[c].cid /\ \A o \in Conn \ {c} : local'[o] = local[o]
    BY <2>1 DEF TypeInv, TypeOK, Local
  <2> QED BY <2>1, <2>2, AdvanceKeeps
<1> QED BY <1>1, <1>2

LEMMA InsertIndexKeeps ==
  ASSUME TypeInv, IssuedInv, NEW c \in Conn, InsertIndex(c)
  PROVE  IssuedInv'
<1>1. PICK w \in pending[c] :
        /\ cmd[c].kind = "createIndexes"
        /\ indexes' = {x \in indexes : x.cid # local[c].cid \/ x.name # cmd[c].names[w[2]]}
                        \cup {[cid |-> local[c].cid, name |-> cmd[c].names[w[2]],
                               asked |-> cmd[c].ns]}
        /\ pending' = [pending EXCEPT ![c] = @ \ {w}]
        /\ UNCHANGED << catalog, issued, cmd, todo, local >>
  BY DEF InsertIndex
<1>2. IssuedTo(local[c].cid, cmd[c].ns)
  BY <1>1 DEF IssuedInv, IndexerAt
<1>3. \A x \in indexes' : IssuedTo(x.cid, x.asked)'
  BY <1>1, <1>2 DEF IssuedInv, IssuedTo
<1>4. \A o \in Conn : pending'[o] \subseteq pending[o]
  BY <1>1 DEF TypeInv, TypeOK
<1>5. \A o \in Conn : IndexerAt(o)'
  BY <1>1, <1>4 DEF IssuedInv, IndexerAt, IssuedTo
<1> QED BY <1>1, <1>3, <1>5 DEF IssuedInv, IssuedTo

-----------------------------------------------------------------------------
(* The other steps: most go to the next statement, the rest belong to      *)
(* commands that create no index.                                          *)

LEMMA AdvancingKeep ==
  ASSUME TypeInv, IssuedInv, NEW c \in Conn,
         \/ EnsureTable(c) \/ ReadOptions(c) \/ DropTable(c) \/ SelectCollections(c)
         \/ SelectIndexes(c) \/ Commit(c) \/ SelectForReply(c) \/ SelectAfter(c)
  PROVE  IssuedInv' /\ UNCHANGED << catalog, issued, indexes >>
<1>1. /\ Advance(c) /\ todo[c] # <<>>
      /\ UNCHANGED << catalog, issued, indexes, cmd, pending >>
  BY DEF EnsureTable, ReadOptions, DropTable, SelectCollections, SelectIndexes, Commit,
         SelectForReply, SelectAfter, Selects, At, database
<1>2. local'[c].cid = local[c].cid /\ \A o \in Conn \ {c} : local'[o] = local[o]
  <2>1. local \in [Conn -> Local]
    BY DEF TypeInv, TypeOK
  <2>2. CASE EnsureTable(c) \/ DropTable(c) \/ Commit(c)
    BY <2>2 DEF EnsureTable, DropTable, Commit
  <2>3. CASE ReadOptions(c) \/ SelectCollections(c) \/ SelectIndexes(c)
    BY <2>1, <2>3 DEF ReadOptions, SelectCollections, SelectIndexes, Local
  <2>4. CASE SelectForReply(c)
    BY <2>1, <2>4 DEF SelectForReply, Local
  <2>5. CASE SelectAfter(c)
    BY <2>1, <2>5 DEF SelectAfter, Local
  <2> QED BY <2>2, <2>3, <2>4, <2>5
<1> QED BY <1>1, <1>2, AdvanceKeeps

LEMMA NotCreateIndexes ==
  ASSUME NEW m, Inserts(m) \/ Replaces(m) \/ Deletes(m)
  PROVE  m.kind # "createIndexes"
BY DEF Inserts, Replaces, Deletes

LEMMA WritersKeep ==
  ASSUME TypeInv, IssuedInv, NEW c \in Conn,
         \/ ReadValidator(c) \/ InsertDocument(c) \/ SelectBefore(c) \/ SelectForRename(c)
         \/ SelectForUpdate(c) \/ SelectForDelete(c) \/ ReplaceDocument(c)
         \/ DeleteDocument(c)
  PROVE  IssuedInv' /\ UNCHANGED << catalog, issued, indexes >>
<1>1. cmd[c].kind # "createIndexes"
  BY NotCreateIndexes
     DEF ReadValidator, InsertDocument, SelectBefore, SelectForRename, SelectForUpdate,
         SelectForDelete, ReplaceDocument, DeleteDocument
<1>2. UNCHANGED << catalog, issued, indexes, cmd >>
  BY DEF ReadValidator, InsertDocument, SelectBefore, SelectForRename, SelectForUpdate,
         SelectForDelete, ReplaceDocument, DeleteDocument, StartLoop, database
<1>3. local'[c].cid = local[c].cid /\ \A o \in Conn \ {c} : local'[o] = local[o]
  <2>1. local \in [Conn -> Local]
    BY DEF TypeInv, TypeOK
  <2>2. CASE InsertDocument(c) \/ ReplaceDocument(c) \/ DeleteDocument(c)
    BY <2>2 DEF InsertDocument, ReplaceDocument, DeleteDocument
  <2>3. CASE ReadValidator(c)
    BY <2>1, <2>3 DEF ReadValidator, Local
  <2>4. CASE SelectBefore(c)
    BY <2>1, <2>4 DEF SelectBefore, Local
  <2>5. CASE SelectForRename(c)
    BY <2>1, <2>5 DEF SelectForRename, Local
  <2>6. CASE SelectForUpdate(c)
    BY <2>1, <2>6 DEF SelectForUpdate, StartLoop, Local
  <2>7. CASE SelectForDelete(c)
    BY <2>1, <2>7 DEF SelectForDelete, StartLoop, Local
  <2> QED BY <2>2, <2>3, <2>4, <2>5, <2>6, <2>7
<1>4. \A o \in Conn \ {c} : todo'[o] = todo[o] /\ pending'[o] = pending[o]
  BY DEF ReadValidator, InsertDocument, SelectBefore, SelectForRename, SelectForUpdate,
         SelectForDelete, ReplaceDocument, DeleteDocument, StartLoop, Advance, Goto,
         TypeInv, TypeOK
<1> QED BY <1>1, <1>2, <1>3, <1>4, OthersKeep

LEMMA EndingKeep ==
  ASSUME TypeInv, IssuedInv, NEW c \in Conn,
         \/ Answer(c) \/ Abort(c) \/ RefuseDocument(c) \/ DeadlockVictim(c)
         \/ FailUpdate(c) \/ TableMissing(c)
  PROVE  IssuedInv' /\ UNCHANGED << catalog, issued, indexes >>
<1>1. PICK ok \in BOOLEAN : End(c, ok) /\ UNCHANGED database
  BY DEF Answer, Abort, RefuseDocument, DeadlockVictim, FailUpdate, TableMissing, Fail
<1> QED BY <1>1, EndKeeps DEF database

-----------------------------------------------------------------------------
(* The invariant and what follows from it. *)

LEMMA InitIssued == Init => IssuedInv
<1> SUFFICES ASSUME Init PROVE IssuedInv
  OBVIOUS
<1>1. TypeInv
  BY InitType
<1>2. IsFiniteSet(DOMAIN Loaded)
  BY LoadedAssumption, FiniteAssumption, FS_Subset
<1>3. /\ DOMAIN issued = 1..Len(issued) /\ Len(issued) \in Nat
      /\ \A n \in DOMAIN Loaded : \E i \in DOMAIN issued : issued[i] = n
  BY <1>1, <1>2, OrderingsType, LenProperties DEF Init, TypeInv, TypeOK
<1>4. ASSUME NEW n \in Namespace, catalog[n].id # 0 PROVE IssuedTo(catalog[n].id, n)
  <2>1. n \in DOMAIN Loaded
    BY <1>4 DEF Init, NoRow
  <2>2. catalog[n].id = CHOOSE i \in DOMAIN issued : issued[i] = n
    BY <2>1 DEF Init
  <2> QED BY <1>3, <2>1, <2>2 DEF IssuedTo
<1>5. indexes = {} /\ \A c \in Conn : cmd[c] = Idle /\ local[c].cid = 0
  BY DEF Init, Blank
<1> QED BY <1>3, <1>4, <1>5 DEF IssuedInv, IndexerAt, Idle

\* A step keeps the invariant, and an id that a namespace gets is a new one.
LEMMA NextIssued ==
  ASSUME TypeInv, IssuedInv, [Next]_vars
  PROVE  /\ IssuedInv'
         /\ \A n \in Namespace : catalog[n].id = 0 /\ catalog'[n].id # 0 =>
              /\ catalog'[n].id = Len(issued) + 1
              /\ UNCHANGED << indexes, local >>
<1>1. CASE UNCHANGED vars
  BY <1>1 DEF vars, IssuedInv, IndexerAt, IssuedTo
<1>2. CASE Done
  BY <1>2 DEF Done, vars, IssuedInv, IndexerAt, IssuedTo
<1>3. ASSUME NEW c \in Conn, Issue(c) PROVE IssuedInv' /\ UNCHANGED catalog
  BY <1>3, IssueKeeps DEF Issue, database
<1>4. ASSUME NEW c \in Conn, UpsertRow(c)
      PROVE  /\ IssuedInv'
             /\ \A n \in Namespace : catalog[n].id = 0 /\ catalog'[n].id # 0 =>
                  /\ catalog'[n].id = Len(issued) + 1
                  /\ UNCHANGED << indexes, local >>
  BY <1>4, UpsertRowKeeps DEF UpsertRow
<1>5. ASSUME NEW c \in Conn, CatalogStep(c), ~UpsertRow(c)
      PROVE  IssuedInv' /\ \A n \in Namespace : catalog'[n].id # 0 => catalog[n].id # 0
  <2>1. CASE DeleteRow(c)
    BY <2>1, DeleteRowKeeps
  <2>2. CASE DeleteRows(c)
    BY <2>2, DeleteRowsKeeps
  <2>3. CASE ShowTables(c)
    BY <2>3, ShowTablesKeeps DEF ShowTables, database
  <2>4. CASE EnsureTable(c) \/ ReadOptions(c) \/ DropTable(c) \/ SelectCollections(c)
    BY <2>4, AdvancingKeep
  <2> QED BY <1>5, <2>1, <2>2, <2>3, <2>4 DEF CatalogStep
<1>6. ASSUME NEW c \in Conn, IndexStep(c) PROVE IssuedInv' /\ UNCHANGED catalog
  <2>1. CASE ReadCollectionID(c)
    BY <2>1, ReadCollectionIDKeeps DEF ReadCollectionID, database
  <2>2. CASE NoCollectionID(c)
    BY <2>2, NoCollectionIDKeeps DEF NoCollectionID, Fail, database
  <2>3. CASE InsertIndex(c)
    BY <2>3, InsertIndexKeeps DEF InsertIndex
  <2>4. CASE SelectIndexes(c)
    BY <2>4, AdvancingKeep
  <2> QED BY <1>6, <2>1, <2>2, <2>3, <2>4 DEF IndexStep
<1>7. ASSUME NEW c \in Conn,
             InsertStep(c) \/ ReadStep(c) \/ WriteStep(c) \/ Answer(c) \/ Abort(c)
      PROVE  IssuedInv' /\ UNCHANGED catalog
  BY <1>7, AdvancingKeep, WritersKeep, EndingKeep DEF InsertStep, ReadStep, WriteStep
<1> QED BY <1>1, <1>2, <1>3, <1>4, <1>5, <1>6, <1>7 DEF Next, Step

LEMMA IssuedInvariant == Spec => [](TypeInv /\ IssuedInv)
<1>1. Init => TypeInv /\ IssuedInv
  BY InitType, InitIssued
<1>2. TypeInv /\ IssuedInv /\ [Next]_vars => (TypeInv /\ IssuedInv)'
  BY NextType, NextIssued
<1> QED BY <1>1, <1>2, PTL DEF Spec

\* No collection ever lists an index that was created for another one, in any
\* interleaving of createIndexes with drops and creations (store.go:351-384).
THEOREM IndexesAreOwned == Spec => []NoIndexAdopted
<1>1. IssuedInv => NoIndexAdopted
  <2> SUFFICES ASSUME IssuedInv, NEW n \in Namespace, NEW x \in indexes,
                      catalog[n].id = x.cid
               PROVE  x.asked = n
    BY DEF NoIndexAdopted
  <2>1. IssuedTo(x.cid, x.asked) /\ x.cid # 0
    BY DEF IssuedInv, IssuedTo
  <2>2. IssuedTo(x.cid, n)
    BY <2>1 DEF IssuedInv
  <2> QED BY <2>1, <2>2 DEF IssuedTo
<1> QED BY <1>1, IssuedInvariant, PTL

\* A collection is created without indexes, and no createIndexes on its way is
\* about to give it some (store.go:53-79, 117-124).
THEOREM NewCollectionsAreBare == Spec => FreshCollectionHasNoIndexes
<1> DEFINE Bare == \A n \in Namespace :
                     catalog[n].id = 0 /\ catalog'[n].id # 0
                       => /\ \A x \in indexes' : x.cid # catalog'[n].id
                          /\ \A c \in Conn : local'[c].cid # catalog'[n].id
<1>1. ASSUME TypeInv, IssuedInv, [Next]_vars PROVE Bare
  <2> SUFFICES ASSUME NEW n \in Namespace, catalog[n].id = 0, catalog'[n].id # 0
               PROVE  /\ \A x \in indexes' : x.cid # catalog'[n].id
                      /\ \A c \in Conn : local'[c].cid # catalog'[n].id
    OBVIOUS
  <2>1. catalog'[n].id = Len(issued) + 1 /\ UNCHANGED << indexes, local >>
    BY <1>1, NextIssued
  <2>2. Len(issued) \in Nat
    BY <1>1, LenProperties DEF TypeInv, TypeOK
  <2> QED BY <1>1, <2>1, <2>2 DEF IssuedInv, IndexerAt, IssuedTo
<1>2. TypeInv /\ IssuedInv /\ [Next]_vars => [Bare]_vars
  BY <1>1
<1> QED BY <1>2, IssuedInvariant, PTL DEF Spec, FreshCollectionHasNoIndexes
=============================================================================
