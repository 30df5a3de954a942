---------------------------- MODULE ProgramsProofs ----------------------------
(***************************************************************************)
(* How far a command has come can be told from the statements it has left. *)
(* The programs of insert, find and drop are known statement by statement, *)
(* the other ones by the tables they may drop; and the loops write what    *)
(* the models of the command match.                                        *)
(***************************************************************************)
EXTENDS TiDBStoreProofs

Harmless == {s \in Statement : s.op \notin {"dropTable", "showTables"}}

Fitting(m) ==
  {s \in Statement :
     /\ s.op = "dropTable" => s.table \in Droppable(m)
     /\ s.op = "showTables" => m.kind = "dropDatabase" /\ s.db = m.db}

FitsAt(c) == todo[c] \in Seq(Fitting(cmd[c])) /\ (cmd[c] = Idle => todo[c] = <<>>)
FitsInv == \A c \in Conn : FitsAt(c)

-----------------------------------------------------------------------------
(* The programs. *)

LEMMA Joined ==
  ASSUME NEW S, NEW p \in Seq(S), NEW q \in Seq(S)
  PROVE  p \o q \in Seq(S) /\ (p # <<>> \/ q # <<>> => p \o q # <<>>)
BY ConcatProperties, ConcatEqualIffEmpty

LEMMA HarmlessFits ==
  ASSUME NEW m
  PROVE  /\ Harmless \subseteq Fitting(m)
         /\ \A s \in Seq(Harmless) : s \in Seq(Fitting(m))
<1>1. Harmless \subseteq Fitting(m)
  BY DEF Harmless, Fitting
<1>2. \A s \in Seq(Harmless) : s \in Seq(Fitting(m))
  BY <1>1, SeqMonotonic
<1> QED BY <1>1, <1>2

LEMMA CreateIsHarmless ==
  ASSUME NEW n \in Namespace, NEW v \in SUBSET Doc
  PROVE  CreateCollection(n, v) \in Seq(Harmless) /\ CreateCollection(n, v) # <<>>
<1>1. EnsureCollection(n) \in Harmless
  BY TableOfType DEF EnsureCollection, Statement, OnTable, Harmless
<1>2. On("readOptions", n) \in Harmless
  BY DEF On, Statement, OnNamespace, Harmless
<1>3. [op |-> "upsertRow", ns |-> n, validator |-> v] \in Harmless
  BY DEF Statement, Harmless
<1> QED BY <1>1, <1>2, <1>3 DEF CreateCollection

LEMMA OnIsHarmless ==
  ASSUME NEW n \in Namespace, NEW op \in OnNamespace
  PROVE  On(op, n) \in Harmless /\ << On(op, n) >> \in Seq(Harmless)
<1>1. On(op, n) \in Harmless
  BY DEF On, Statement, OnNamespace, Harmless
<1> QED BY <1>1

LEMMA FindIsHarmless ==
  ASSUME NEW n \in Namespace, NEW filter \in SUBSET Doc, NEW limit \in Nat, NEW use \in Use
  PROVE  Find(n, filter, limit, use) \in Seq(Harmless) /\ Find(n, filter, limit, use) # <<>>
<1>1. EnsureCollection(n) \in Harmless
  BY TableOfType DEF EnsureCollection, Statement, OnTable, Harmless
<1>2. [op |-> "select", ns |-> n, filter |-> filter, limit |-> limit, use |-> use]
        \in Harmless
  BY DEF Statement, Harmless
<1> QED BY <1>1, <1>2 DEF Find

LEMMA InsertIsHarmless ==
  ASSUME NEW n \in Namespace
  PROVE  Insert(n) \in Seq(Harmless) /\ Insert(n) # <<>>
<1>1. On("readValidator", n) \in Harmless /\ [op |-> "commit"] \in Harmless
  BY DEF On, Statement, OnNamespace, Harmless
<1>2. CreateCollection(n, AnyDoc) \in Seq(Harmless) /\ CreateCollection(n, AnyDoc) # <<>>
  BY CreateIsHarmless DEF AnyDoc
<1> DEFINE rest == << On("readValidator", n), [op |-> "commit"] >>
<1>3. rest \in Seq(Harmless) /\ rest # <<>>
  BY <1>1
<1> DEFINE made == CreateCollection(n, AnyDoc)
<1>4. Insert(n) = made \o rest
  BY DEF Insert
<1>5. made \in Seq(Harmless) /\ made # <<>>
  BY <1>2
<1> HIDE DEF rest, made
<1> QED BY <1>3, <1>4, <1>5, Joined

LEMMA UpdateIsHarmless ==
  ASSUME NEW n \in Namespace
  PROVE  /\ Update(n) \in Seq(Harmless) /\ Update(n) # <<>>
         /\ Delete(n) \in Seq(Harmless) /\ Delete(n) # <<>>
<1>1. CreateCollection(n, AnyDoc) \in Seq(Harmless) /\ CreateCollection(n, AnyDoc) # <<>>
  BY CreateIsHarmless DEF AnyDoc
<1>2. ASSUME NEW use \in Use
      PROVE  Find(n, AnyDoc, 0, use) \in Seq(Harmless) /\ Find(n, AnyDoc, 0, use) # <<>>
  BY FindIsHarmless DEF AnyDoc
<1>3. "update" \in Use /\ "delete" \in Use
  BY DEF Use
<1>4. Update(n) = CreateCollection(n, AnyDoc) \o Find(n, AnyDoc, 0, "update")
  BY DEF Update
<1> DEFINE made == CreateCollection(n, AnyDoc)
           read == Find(n, AnyDoc, 0, "update")
<1>5. Update(n) \in Seq(Harmless) /\ Update(n) # <<>>
  <2>1. made \in Seq(Harmless) /\ made # <<>> /\ read \in Seq(Harmless) /\ read # <<>>
    BY <1>1, <1>2, <1>3
  <2>2. Update(n) = made \o read
    BY <1>4
  <2> HIDE DEF made, read
  <2> QED BY <2>1, <2>2, Joined
<1> QED BY <1>2, <1>3, <1>5 DEF Delete

LEMMA DropFits ==
  ASSUME NEW m, NEW n \in Namespace, TableOf[n] \in Droppable(m)
  PROVE  DropCollection(n) \in Seq(Fitting(m))
<1>1. DropTableOf(TableOf[n]) \in Fitting(m)
  BY TableOfType DEF DropTableOf, Statement, OnTable, Fitting
<1>2. On("deleteRow", n) \in Fitting(m)
  BY DEF On, Statement, OnNamespace, Fitting
<1> QED BY <1>1, <1>2 DEF DropCollection

\* The programs of the commands that drop nothing.
LEMMA ProgramIsHarmless ==
  ASSUME NEW m \in Command, m.kind \notin {"drop", "dropDatabase"}
  PROVE  Program(m) \in Seq(Harmless) /\ Program(m) # <<>>
<1>1. CASE m.kind = "create"
  <2>1. Program(m) = CreateCollection(m.ns, m.validator)
    BY <1>1 DEF Program
  <2> QED BY <1>1, <2>1, CommandFields, CreateIsHarmless
<1>2. CASE m.kind \in {"insert", "update", "delete"}
  <2>1. \/ Program(m) = Insert(m.ns)
        \/ Program(m) = Update(m.ns)
        \/ Program(m) = Delete(m.ns)
    BY <1>2 DEF Program
  <2> QED BY <1>2, <2>1, CommandFields, InsertIsHarmless, UpdateIsHarmless
<1>3. CASE m.kind = "find"
  <2>1. /\ Find(m.ns, m.filter, m.limit, "reply") \in Seq(Harmless)
        /\ Find(m.ns, m.filter, m.limit, "reply") # <<>>
    BY <1>3, CommandFields, FindIsHarmless DEF Use
  <2>2. Program(m) = Find(m.ns, m.filter, m.limit, "reply")
    BY <1>3 DEF Program
  <2> QED BY <2>1, <2>2
<1>4. CASE m.kind = "findAndModify"
  <2>1. /\ Find(m.ns, m.filter, 1, "before") \in Seq(Harmless)
        /\ Find(m.ns, m.filter, 1, "before") # <<>>
    BY <1>4, CommandFields, FindIsHarmless DEF Use
  <2>2. Program(m) = Find(m.ns, m.filter, 1, "before")
    BY <1>4 DEF Program
  <2> QED BY <2>1, <2>2
<1>5. CASE m.kind = "renameCollection"
  <2>1. /\ Find(m.ns, AnyDoc, 0, "rename") \in Seq(Harmless)
        /\ Find(m.ns, AnyDoc, 0, "rename") # <<>>
    BY <1>5, CommandFields, FindIsHarmless DEF Use, AnyDoc
  <2>2. Program(m) = Find(m.ns, AnyDoc, 0, "rename")
    BY <1>5 DEF Program
  <2> QED BY <2>1, <2>2
<1>6. CASE m.kind = "createIndexes"
  <2>1. /\ CreateCollection(m.ns, AnyDoc) \in Seq(Harmless)
        /\ CreateCollection(m.ns, AnyDoc) # <<>>
    BY <1>6, CommandFields, CreateIsHarmless DEF AnyDoc
  <2>2. << On("readCollectionID", m.ns) >> \in Seq(Harmless)
    BY <1>6, CommandFields, OnIsHarmless DEF OnNamespace
  <2>3. Program(m) = CreateCollection(m.ns, AnyDoc) \o << On("readCollectionID", m.ns) >>
    BY <1>6 DEF Program
  <2> QED BY <2>1, <2>2, <2>3, Joined
<1>7. CASE m.kind = "listIndexes"
  <2>1. << On("readCollectionID", m.ns) >> \in Seq(Harmless)
    BY <1>7, CommandFields, OnIsHarmless DEF OnNamespace
  <2>2. Program(m) = << On("readCollectionID", m.ns) >>
    BY <1>7 DEF Program
  <2> QED BY <2>1, <2>2
<1>8. CASE m.kind = "listCollections"
  <2>1. << [op |-> "selectCollections", db |-> m.db] >> \in Seq(Harmless)
    <3>1. [op |-> "selectCollections", db |-> m.db] \in Harmless
      BY <1>8, CommandFields DEF Statement, OnDatabase, Harmless
    <3> QED BY <3>1
  <2>2. Program(m) = << [op |-> "selectCollections", db |-> m.db] >>
    BY <1>8 DEF Program
  <2> QED BY <2>1, <2>2
<1> QED BY <1>1, <1>2, <1>3, <1>4, <1>5, <1>6, <1>7, <1>8, CommandFields

LEMMA ProgramFits ==
  ASSUME NEW m \in Command
  PROVE  Program(m) \in Seq(Fitting(m)) /\ Program(m) # <<>>
<1>1. CASE m.kind \notin {"drop", "dropDatabase"}
  BY <1>1, ProgramIsHarmless, HarmlessFits
<1>2. CASE m.kind = "drop"
  <2>1. m.ns \in Namespace /\ TableOf[m.ns] \in Droppable(m)
    BY <1>2, CommandFields, TableOfType DEF Droppable
  <2>2. DropCollection(m.ns) \in Seq(Fitting(m)) /\ DropCollection(m.ns) # <<>>
    BY <2>1, DropFits DEF DropCollection
  <2> QED BY <1>2, <2>2 DEF Program
<1>3. CASE m.kind = "dropDatabase"
  <2>1. m.db \in Database
    BY <1>3, CommandFields
  <2>2. [op |-> "showTables", db |-> m.db] \in Fitting(m)
    BY <1>3, <2>1 DEF Fitting, Statement, OnDatabase
  <2>3. [op |-> "deleteRows", db |-> m.db] \in Fitting(m)
    BY <2>1 DEF Fitting, Statement, OnDatabase
  <2> QED BY <1>3, <2>2, <2>3 DEF Program, DropDatabase
<1> QED BY <1>1, <1>2, <1>3

LEMMA AfterBeforeFits ==
  ASSUME NEW m \in Command, m.kind = "findAndModify", NEW docs
  PROVE  AfterBefore(m, docs) \in Seq(Fitting(m))
<1> DEFINE change == IF m.updates = <<>> THEN <<>> ELSE Update(m.ns)
           again == IF m.new THEN Find(m.ns, m.filter, 1, "after") ELSE <<>>
<1>1. m.ns \in Namespace /\ m.filter \in SUBSET Doc
  BY CommandFields
<1>2. Delete(m.ns) \in Seq(Harmless) /\ Update(m.ns) \in Seq(Harmless)
  BY <1>1, UpdateIsHarmless
<1>3. Find(m.ns, m.filter, 1, "after") \in Seq(Harmless)
  BY <1>1, FindIsHarmless DEF Use
<1>4. << >> \in Seq(Harmless)
  BY EmptySeq
<1>5. change \in Seq(Harmless) /\ again \in Seq(Harmless)
  BY <1>2, <1>3, <1>4
<1>6. change \o again \in Seq(Harmless)
  <2> HIDE DEF change, again
  <2> QED BY <1>5, Joined
<1>7. AfterBefore(m, docs) \in Seq(Harmless)
  BY <1>2, <1>4, <1>6 DEF AfterBefore
<1> QED BY <1>7, HarmlessFits

LEMMA AfterReadFits ==
  ASSUME NEW m \in Command, m.kind = "renameCollection", NEW docs
  PROVE  AfterRead(m, docs) \in Seq(Fitting(m)) /\ AfterRead(m, docs) # <<>>
<1> DEFINE clear == IF m.dropTarget THEN DropCollection(m.to) ELSE <<>>
           make == CreateCollection(m.to, AnyDoc)
           copy == IF docs = <<>> THEN <<>> ELSE Insert(m.to)
           leave == DropCollection(m.ns)
<1>1. m.ns \in Namespace /\ m.to \in Namespace
  BY CommandFields
<1>2. << >> \in Seq(Fitting(m))
  BY EmptySeq
<1>3. clear \in Seq(Fitting(m))
  <2>1. CASE m.dropTarget
    <3>1. TableOf[m.to] \in Droppable(m)
      BY <1>1, <2>1, TableOfType DEF Droppable
    <3> QED BY <1>1, <2>1, <3>1, DropFits
  <2> QED BY <1>2, <2>1
<1>4. make \in Seq(Fitting(m))
  BY <1>1, CreateIsHarmless, HarmlessFits DEF AnyDoc
<1>5. copy \in Seq(Fitting(m))
  BY <1>1, <1>2, InsertIsHarmless, HarmlessFits
<1>6. leave \in Seq(Fitting(m)) /\ leave # <<>>
  <2>1. TableOf[m.ns] \in Droppable(m)
    BY <1>1, TableOfType DEF Droppable
  <2> QED BY <1>1, <2>1, DropFits DEF DropCollection
<1>7. AfterRead(m, docs) = ((clear \o make) \o copy) \o leave
  BY DEF AfterRead
<1> HIDE DEF clear, make, copy, leave
<1>8. (clear \o make) \o copy \in Seq(Fitting(m))
  BY <1>3, <1>4, <1>5, Joined
<1> QED BY <1>6, <1>7, <1>8, Joined

-----------------------------------------------------------------------------
(* Steps.  A step of c leaves the other connections alone. *)

KeepsOthers(c) ==
  \A o \in Conn \ {c} :
    /\ cmd'[o] = cmd[o] /\ todo'[o] = todo[o] /\ pending'[o] = pending[o]
    /\ tx'[o] = tx[o] /\ local'[o] = local[o] /\ reply'[o] = reply[o]

LEMMA EndKeepsOthers ==
  ASSUME TypeOK, NEW c \in Conn, NEW ok, End(c, ok)
  PROVE  /\ KeepsOthers(c)
         /\ cmd'[c] = Idle /\ todo'[c] = <<>> /\ pending'[c] = {} /\ tx'[c] = {}
BY DEF KeepsOthers, End, TypeOK

LEMMA FailKeepsOthers ==
  ASSUME TypeOK, NEW c \in Conn, Fail(c)
  PROVE  KeepsOthers(c)
BY EndKeepsOthers DEF Fail

LEMMA OthersKept ==
  ASSUME TypeOK, NEW c \in Conn, Issue(c) \/ Step(c) \/ Abort(c)
  PROVE  KeepsOthers(c)
<1>1. CASE Issue(c)
  BY <1>1 DEF Issue, KeepsOthers, Goto, TypeOK
<1>2. CASE Abort(c) \/ Answer(c)
  BY <1>2, EndKeepsOthers DEF Abort, Answer
<1>3. CASE CatalogStep(c)
  BY <1>3 DEF CatalogStep, EnsureTable, ReadOptions, UpsertRow, DropTable, DeleteRow,
              ShowTables, DeleteRows, SelectCollections,
              KeepsOthers, Goto, Advance, clients, TypeOK
<1>4. CASE IndexStep(c)
  <2>1. CASE ReadCollectionID(c) \/ InsertIndex(c) \/ SelectIndexes(c)
    BY <2>1 DEF ReadCollectionID, InsertIndex, SelectIndexes,
                KeepsOthers, Goto, Advance, clients, TypeOK
  <2>2. CASE NoCollectionID(c)
    BY <2>2, FailKeepsOthers DEF NoCollectionID, KeepsOthers, Goto, Advance, clients, TypeOK
  <2> QED BY <1>4, <2>1, <2>2 DEF IndexStep
<1>5. CASE InsertStep(c)
  <2>1. CASE ReadValidator(c) \/ InsertDocument(c) \/ Commit(c)
    BY <2>1 DEF ReadValidator, InsertDocument, Commit,
                KeepsOthers, Goto, Advance, clients, TypeOK
  <2>2. CASE RefuseDocument(c) \/ DeadlockVictim(c)
    BY <2>2, FailKeepsOthers DEF RefuseDocument, DeadlockVictim
  <2> QED BY <1>5, <2>1, <2>2 DEF InsertStep
<1>6. CASE ReadStep(c)
  <2>1. CASE SelectForReply(c) \/ SelectBefore(c) \/ SelectAfter(c) \/ SelectForRename(c)
    BY <2>1 DEF SelectForReply, SelectBefore, SelectAfter, SelectForRename,
                KeepsOthers, Goto, Advance, clients, TypeOK
  <2>2. CASE SelectForUpdate(c) \/ SelectForDelete(c)
    BY <2>2 DEF SelectForUpdate, SelectForDelete, StartLoop,
                KeepsOthers, Goto, Advance, clients, TypeOK
  <2> QED BY <1>6, <2>1, <2>2 DEF ReadStep
<1>7. CASE WriteStep(c)
  <2>1. CASE ReplaceDocument(c) \/ DeleteDocument(c)
    BY <2>1 DEF ReplaceDocument, DeleteDocument, KeepsOthers, clients, TypeOK
  <2>2. CASE FailUpdate(c) \/ TableMissing(c)
    BY <2>2, FailKeepsOthers DEF FailUpdate, TableMissing
  <2> QED BY <1>7, <2>1, <2>2 DEF WriteStep
<1> QED BY <1>1, <1>2, <1>3, <1>4, <1>5, <1>6, <1>7 DEF Step

\* The next statement decides the step.
LEMMA NextStatement ==
  ASSUME NEW c \in Conn, Step(c), pending[c] = {}, todo[c] # <<>>
  PROVE  LET op == Stmt(c).op
         IN  \/ Fail(c)
             \/ op = "ensureTable" /\ EnsureTable(c)
             \/ op = "readOptions" /\ ReadOptions(c)
             \/ op = "upsertRow" /\ UpsertRow(c)
             \/ op = "dropTable" /\ DropTable(c)
             \/ op = "deleteRow" /\ DeleteRow(c)
             \/ op = "showTables" /\ ShowTables(c)
             \/ op = "deleteRows" /\ DeleteRows(c)
             \/ op = "selectCollections" /\ SelectCollections(c)
             \/ op = "readCollectionID" /\ (ReadCollectionID(c) \/ NoCollectionID(c))
             \/ op = "selectIndexes" /\ SelectIndexes(c)
             \/ op = "readValidator" /\ ReadValidator(c)
             \/ op = "commit" /\ Commit(c)
             \/ op = "select" /\ ReadStep(c)
<1>1. ~Answer(c) /\ ~InsertIndex(c) /\ ~InsertDocument(c) /\ ~ReplaceDocument(c)
      /\ ~DeleteDocument(c)
  BY DEF Answer, InsertIndex, InsertDocument, ReplaceDocument, DeleteDocument
<1>2. CASE CatalogStep(c)
  <2>1. /\ EnsureTable(c) => Stmt(c).op = "ensureTable"
        /\ ReadOptions(c) => Stmt(c).op = "readOptions"
        /\ UpsertRow(c) => Stmt(c).op = "upsertRow"
    BY DEF EnsureTable, ReadOptions, UpsertRow, At, Stmt
  <2>2. /\ DropTable(c) => Stmt(c).op = "dropTable"
        /\ DeleteRow(c) => Stmt(c).op = "deleteRow"
        /\ ShowTables(c) => Stmt(c).op = "showTables"
    BY DEF DropTable, DeleteRow, ShowTables, At, Stmt
  <2>3. /\ DeleteRows(c) => Stmt(c).op = "deleteRows"
        /\ SelectCollections(c) => Stmt(c).op = "selectCollections"
    BY DEF DeleteRows, SelectCollections, At, Stmt
  <2> QED BY <1>2, <2>1, <2>2, <2>3 DEF CatalogStep
<1>3. CASE IndexStep(c)
  BY <1>1, <1>3 DEF IndexStep, ReadCollectionID, NoCollectionID, SelectIndexes, At, Stmt
<1>4. CASE InsertStep(c)
  BY <1>1, <1>4 DEF InsertStep, ReadValidator, RefuseDocument, Commit, DeadlockVictim, At, Stmt
<1>5. CASE ReadStep(c)
  BY <1>5 DEF ReadStep, SelectForReply, SelectBefore, SelectAfter, SelectForRename,
              SelectForUpdate, SelectForDelete, Selects, At, Stmt
<1>6. CASE WriteStep(c)
  BY <1>1, <1>6 DEF WriteStep, FailUpdate, TableMissing
<1> QED BY <1>1, <1>2, <1>3, <1>4, <1>5, <1>6 DEF Step

\* In a loop the kind of the command decides it.
LEMMA NextWrite ==
  ASSUME NEW c \in Conn, Step(c), pending[c] # {}
  PROVE  \/ Fail(c)
         \/ Inserts(cmd[c]) /\ InsertDocument(c)
         \/ Replaces(cmd[c]) /\ ReplaceDocument(c)
         \/ Deletes(cmd[c]) /\ DeleteDocument(c)
         \/ cmd[c].kind = "createIndexes" /\ InsertIndex(c)
<1>1. \A op : ~At(c, op)
  BY DEF At
<1>2. ~CatalogStep(c) /\ ~ReadStep(c) /\ ~Answer(c)
  BY <1>1 DEF CatalogStep, EnsureTable, ReadOptions, UpsertRow, DropTable, DeleteRow,
              ShowTables, DeleteRows, SelectCollections, Answer,
              ReadStep, SelectForReply, SelectBefore, SelectAfter, SelectForRename,
              SelectForUpdate, SelectForDelete, Selects
<1>3. CASE IndexStep(c)
  BY <1>1, <1>3 DEF IndexStep, ReadCollectionID, NoCollectionID, SelectIndexes, InsertIndex
<1>4. CASE InsertStep(c)
  BY <1>1, <1>4 DEF InsertStep, ReadValidator, RefuseDocument, Commit, DeadlockVictim,
                    InsertDocument
<1>5. CASE WriteStep(c)
  BY <1>5 DEF WriteStep, FailUpdate, TableMissing, ReplaceDocument, DeleteDocument
<1> QED BY <1>2, <1>3, <1>4, <1>5 DEF Step

LEMMA NothingLeft ==
  ASSUME NEW c \in Conn, Step(c), pending[c] = {}, todo[c] = <<>>
  PROVE  Answer(c)
<1>1. \A op : ~At(c, op)
  BY DEF At
<1>2. ~CatalogStep(c) /\ ~ReadStep(c)
  BY <1>1 DEF CatalogStep, EnsureTable, ReadOptions, UpsertRow, DropTable, DeleteRow,
              ShowTables, DeleteRows, SelectCollections,
              ReadStep, SelectForReply, SelectBefore, SelectAfter, SelectForRename,
              SelectForUpdate, SelectForDelete, Selects
<1>3. ~IndexStep(c) /\ ~InsertStep(c) /\ ~WriteStep(c)
  <2>1. ~IndexStep(c)
    BY <1>1 DEF IndexStep, ReadCollectionID, NoCollectionID, SelectIndexes, InsertIndex
  <2>2. ~(\E o \in Conn : WaitsFor(c, o))
    BY DEF WaitsFor
  <2>3. ~InsertStep(c)
    BY <1>1, <2>2 DEF InsertStep, ReadValidator, RefuseDocument, Commit, DeadlockVictim,
                      InsertDocument
  <2>4. ~WriteStep(c)
    BY <1>1 DEF WriteStep, FailUpdate, TableMissing, ReplaceDocument, DeleteDocument
  <2> QED BY <2>1, <2>3, <2>4
<1> QED BY <1>2, <1>3 DEF Step

-----------------------------------------------------------------------------
(* No command drops a table it was not asked to drop. *)

LEMMA EndFits ==
  ASSUME TypeOK, FitsInv, NEW c \in Conn, NEW ok, End(c, ok)
  PROVE  FitsInv'
<1>1. KeepsOthers(c) /\ cmd'[c] = Idle /\ todo'[c] = <<>>
  BY EndKeepsOthers
<1>2. FitsAt(c)'
  BY <1>1, EmptySeq DEF FitsAt
<1> QED BY <1>1, <1>2 DEF FitsInv, FitsAt, KeepsOthers

\* A step of c that leaves its command alone.
LEMMA MoveFits ==
  ASSUME FitsInv, NEW c \in Conn, KeepsOthers(c), cmd'[c] = cmd[c], cmd[c] # Idle,
         todo'[c] \in Seq(Fitting(cmd[c]))
  PROVE  FitsInv'
<1>1. FitsAt(c)'
  BY DEF FitsAt
<1> QED BY <1>1 DEF FitsInv, FitsAt, KeepsOthers

LEMMA AdvanceFits ==
  ASSUME TypeOK, FitsInv, NEW c \in Conn, KeepsOthers(c), cmd' = cmd,
         todo[c] # <<>>, Advance(c)
  PROVE  FitsInv'
<1>1. cmd[c] # Idle /\ todo[c] \in Seq(Fitting(cmd[c]))
  BY DEF FitsInv, FitsAt
<1>2. Tail(todo[c]) \in Seq(Fitting(cmd[c]))
  BY <1>1, HeadTailProperties
<1>3. todo'[c] = Tail(todo[c])
  BY DEF Advance, Goto, TypeOK
<1> QED BY <1>1, <1>2, <1>3, MoveFits

LEMMA StatementFits ==
  ASSUME TypeInv, FitsInv, NEW c \in Conn, Step(c), pending[c] = {}, todo[c] # <<>>
  PROVE  FitsInv'
<1>1. TypeOK /\ KeepsOthers(c)
  BY OthersKept DEF TypeInv
<1>2. cmd[c] # Idle /\ cmd[c] \in Command
        /\ todo[c] \in Seq(Fitting(cmd[c]))
  BY <1>1, SendableType DEF FitsInv, FitsAt, TypeOK
<1>3. Stmt(c) \in Fitting(cmd[c]) /\ Tail(todo[c]) \in Seq(Fitting(cmd[c]))
  BY <1>2, HeadTailProperties DEF Stmt
<1>4. CASE Fail(c)
  BY <1>1, <1>4, EndFits DEF Fail
<1>5. CASE Advance(c) /\ cmd' = cmd
  BY <1>1, <1>5, AdvanceFits
<1>6. CASE ShowTables(c) /\ Stmt(c).op = "showTables"
  <2> DEFINE S == {t \in tables : LikeDatabase(t, Stmt(c).db)}
             drops(listed) == [i \in DOMAIN listed |-> DropTableOf(listed[i])]
  <2>1. PICK listed \in Orderings(S) : Goto(c, drops(listed) \o Tail(todo[c]))
    BY <1>6 DEF ShowTables
  <2>2. S \subseteq Table /\ IsFiniteSet(S)
    BY <1>1, TableFinite, FS_Subset DEF TypeOK
  <2>3. listed \in Seq(S) /\ DOMAIN listed = 1..Len(listed) /\ Len(listed) \in Nat
    BY <2>2, OrderingsType, LenProperties
  <2>4. cmd[c].kind = "dropDatabase" /\ Stmt(c).db = cmd[c].db
    BY <1>3, <1>6 DEF Fitting
  <2>5. \A i \in DOMAIN listed : DropTableOf(listed[i]) \in Fitting(cmd[c])
    <3> SUFFICES ASSUME NEW i \in DOMAIN listed
                 PROVE  DropTableOf(listed[i]) \in Fitting(cmd[c])
      OBVIOUS
    <3>1. listed[i] \in S
      BY <2>3
    <3>2. listed[i] \in Droppable(cmd[c])
      BY <2>2, <2>4, <3>1 DEF Droppable
    <3> QED BY <2>2, <3>1, <3>2 DEF DropTableOf, Fitting, Statement, OnTable
  <2>6. drops(listed) \in [1..Len(listed) -> Fitting(cmd[c])]
    BY <2>3, <2>5
  <2>7. drops(listed) \in Seq(Fitting(cmd[c]))
    BY <2>3, <2>6, SeqDef
  <2> HIDE DEF drops
  <2>8. drops(listed) \o Tail(todo[c]) \in Seq(Fitting(cmd[c]))
    BY <1>3, <2>7, Joined
  <2>9. todo'[c] = drops(listed) \o Tail(todo[c]) /\ cmd' = cmd
    BY <1>1, <1>6, <2>1 DEF Goto, TypeOK, ShowTables
  <2> QED BY <1>1, <1>2, <2>8, <2>9, MoveFits
<1>7. CASE ReadCollectionID(c) \/ NoCollectionID(c)
  <2>1. CASE cmd[c].kind = "createIndexes"
    BY <1>4, <1>5, <1>7, <2>1 DEF ReadCollectionID, NoCollectionID
  <2>2. CASE cmd[c].kind = "listIndexes" /\ NoCollectionID(c)
    BY <1>5, <2>2 DEF NoCollectionID
  <2>3. CASE cmd[c].kind = "listIndexes" /\ ReadCollectionID(c)
    <3>1. << On("selectIndexes", cmd[c].ns) >> \in Seq(Fitting(cmd[c]))
      BY <1>2, <2>3, CommandFields, OnIsHarmless, HarmlessFits DEF OnNamespace
    <3>2. todo'[c] = << On("selectIndexes", cmd[c].ns) >> /\ cmd' = cmd
      BY <1>1, <2>3 DEF ReadCollectionID, Goto, TypeOK
    <3> QED BY <1>1, <1>2, <3>1, <3>2, MoveFits
  <2> QED BY <1>7, <2>1, <2>2, <2>3 DEF ReadCollectionID, NoCollectionID
<1>8. CASE SelectBefore(c)
  <2>1. PICK docs \in Results(c) : Goto(c, AfterBefore(cmd[c], docs))
    BY <1>8 DEF SelectBefore
  <2>2. AfterBefore(cmd[c], docs) \in Seq(Fitting(cmd[c]))
    BY <1>2, <1>8, AfterBeforeFits DEF SelectBefore
  <2>3. todo'[c] = AfterBefore(cmd[c], docs) /\ cmd' = cmd
    BY <1>1, <1>8, <2>1 DEF SelectBefore, Goto, TypeOK
  <2> QED BY <1>1, <1>2, <2>2, <2>3, MoveFits
<1>9. CASE SelectForRename(c)
  <2>1. PICK docs \in Results(c) : Goto(c, AfterRead(cmd[c], docs))
    BY <1>9 DEF SelectForRename
  <2>2. AfterRead(cmd[c], docs) \in Seq(Fitting(cmd[c]))
    BY <1>2, <1>9, AfterReadFits DEF SelectForRename
  <2>3. todo'[c] = AfterRead(cmd[c], docs) /\ cmd' = cmd
    BY <1>1, <1>9, <2>1 DEF SelectForRename, Goto, TypeOK
  <2> QED BY <1>1, <1>2, <2>2, <2>3, MoveFits
<1>10. CASE SelectForReply(c) \/ SelectAfter(c) \/ SelectForUpdate(c) \/ SelectForDelete(c)
  BY <1>5, <1>10
     DEF SelectForReply, SelectAfter, SelectForUpdate, SelectForDelete, StartLoop
<1>11. CASE \/ EnsureTable(c) \/ ReadOptions(c) \/ UpsertRow(c) \/ DropTable(c)
            \/ DeleteRow(c) \/ DeleteRows(c) \/ SelectCollections(c) \/ SelectIndexes(c)
            \/ ReadValidator(c) \/ Commit(c)
  BY <1>5, <1>11 DEF EnsureTable, ReadOptions, UpsertRow, DropTable, DeleteRow, DeleteRows,
                     SelectCollections, SelectIndexes, ReadValidator, Commit
<1> QED BY <1>4, <1>6, <1>7, <1>8, <1>9, <1>10, <1>11, NextStatement DEF ReadStep

LEMMA NextFits ==
  ASSUME TypeInv, FitsInv, [Next]_vars
  PROVE  FitsInv'
<1>1. CASE UNCHANGED vars \/ Done
  BY <1>1 DEF vars, Done, FitsInv, FitsAt
<1>2. ASSUME NEW c \in Conn, Issue(c) PROVE FitsInv'
  <2>1. PICK m \in unsent[c] : cmd' = [cmd EXCEPT ![c] = m] /\ Goto(c, Program(m))
    BY <1>2 DEF Issue
  <2>2. m \in Command
    BY SendableType DEF TypeInv, TypeOK
  <2>3. cmd'[c] = m /\ todo'[c] = Program(m)
    BY <2>1 DEF TypeInv, TypeOK, Goto
  <2>4. m # Idle
    BY <2>2, CommandFields DEF Idle
  <2>5. FitsAt(c)'
    BY <2>2, <2>3, <2>4, ProgramFits DEF FitsAt
  <2>6. KeepsOthers(c)
    BY <1>2, OthersKept DEF TypeInv
  <2> QED BY <2>5, <2>6 DEF FitsInv, FitsAt, KeepsOthers
<1>3. ASSUME NEW c \in Conn, Abort(c) \/ Fail(c) \/ Answer(c) PROVE FitsInv'
  BY <1>3, EndFits DEF Abort, Fail, Answer, TypeInv
<1>4. ASSUME NEW c \in Conn, Step(c) PROVE FitsInv'
  <2>1. CASE pending[c] # {}
    <3>1. CASE ~Fail(c)
      BY <1>4, <2>1, <3>1, NextWrite
         DEF InsertDocument, ReplaceDocument, DeleteDocument, InsertIndex, FitsInv, FitsAt
    <3> QED BY <1>3, <3>1
  <2>2. CASE pending[c] = {} /\ todo[c] = <<>>
    BY <1>3, <1>4, <2>2, NothingLeft
  <2>3. CASE pending[c] = {} /\ todo[c] # <<>>
    BY <1>4, <2>3, StatementFits
  <2> QED BY <2>1, <2>2, <2>3
<1> QED BY <1>1, <1>2, <1>3, <1>4 DEF Next

LEMMA InitFits == Init => FitsInv
BY EmptySeq DEF Init, FitsInv, FitsAt

-----------------------------------------------------------------------------
(* Where an insert, a find, a drop and the loops are. *)

ReadValidatorOf(n) == On("readValidator", n)
UpsertRowOf(n) == [op |-> "upsertRow", ns |-> n, validator |-> AnyDoc]
Committing == << [op |-> "commit"] >>

\* What an insert has left before it opens its transaction.
Preparing(n) ==
  { << EnsureCollection(n), On("readOptions", n), UpsertRowOf(n), ReadValidatorOf(n),
       [op |-> "commit"] >>,
    << On("readOptions", n), UpsertRowOf(n), ReadValidatorOf(n), [op |-> "commit"] >>,
    << UpsertRowOf(n), ReadValidatorOf(n), [op |-> "commit"] >>,
    << ReadValidatorOf(n), [op |-> "commit"] >> }

\* The documents of its batch that are in its transaction.
Inserted(c) == {i \in DOMAIN cmd[c].docs : << 1, i >> \notin pending[c]}

InsertAt(c) ==
  cmd[c].kind = "insert" =>
    \/ /\ todo[c] \in Preparing(cmd[c].ns)
       /\ pending[c] = {} /\ tx[c] = {} /\ local[c].found = cmd[c].docs
    \/ /\ todo[c] = Committing
       /\ local[c].found = cmd[c].docs /\ local[c].count = Len(cmd[c].docs)
       /\ \A w \in pending[c] : w[1] = 1
       /\ tx[c] = {cmd[c].docs[i] : i \in Inserted(c)}
       /\ \A i, j \in Inserted(c) : cmd[c].docs[i].id = cmd[c].docs[j].id => i = j
    \/ todo[c] = <<>> /\ pending[c] = {} /\ local[c].count = Len(cmd[c].docs)

SelectOf(m) ==
  [op |-> "select", ns |-> m.ns, filter |-> m.filter, limit |-> m.limit, use |-> "reply"]

FindAt(c) ==
  cmd[c].kind = "find" =>
    /\ pending[c] = {}
    /\ todo[c] \in { << EnsureCollection(cmd[c].ns), SelectOf(cmd[c]) >>,
                     << SelectOf(cmd[c]) >>, <<>> }

DropAt(c) ==
  cmd[c].kind = "drop" =>
    /\ pending[c] = {}
    /\ todo[c] \in {DropCollection(cmd[c].ns), << On("deleteRow", cmd[c].ns) >>, <<>>}

\* The loops write what the models match.
MatchAt(c) ==
  \A w \in pending[c] :
    /\ Replaces(cmd[c]) /\ w[2] # 0 =>
         local[c].found[w[2]] \in cmd[c].updates[w[1]].matches
    /\ Deletes(cmd[c]) => /\ w[1] \in DOMAIN DeletesOf(cmd[c])
                          /\ local[c].found[w[2]] \in DeletesOf(cmd[c])[w[1]].matches

ShapeAt(c) == InsertAt(c) /\ FindAt(c) /\ DropAt(c) /\ MatchAt(c)
ShapeInv == \A c \in Conn : ShapeAt(c)

LEMMA InsertIs ==
  ASSUME NEW n \in Namespace
  PROVE  Insert(n) = << EnsureCollection(n), On("readOptions", n), UpsertRowOf(n),
                        ReadValidatorOf(n), [op |-> "commit"] >>
<1> DEFINE first == << EnsureCollection(n), On("readOptions", n), UpsertRowOf(n) >>
           rest == << ReadValidatorOf(n), [op |-> "commit"] >>
           whole == << EnsureCollection(n), On("readOptions", n), UpsertRowOf(n),
                       ReadValidatorOf(n), [op |-> "commit"] >>
<1>1. Insert(n) = first \o rest
  BY DEF Insert, CreateCollection, UpsertRowOf, ReadValidatorOf
<1>2. /\ EnsureCollection(n) \in Harmless /\ On("readOptions", n) \in Harmless
      /\ UpsertRowOf(n) \in Harmless /\ ReadValidatorOf(n) \in Harmless
      /\ [op |-> "commit"] \in Harmless
  BY TableOfType DEF EnsureCollection, On, UpsertRowOf, ReadValidatorOf, AnyDoc, Harmless,
                     Statement, OnTable, OnNamespace
<1>3. /\ first \in Seq(Harmless) /\ rest \in Seq(Harmless) /\ whole \in Seq(Harmless)
      /\ Len(first) = 3 /\ Len(rest) = 2 /\ Len(whole) = 5
  BY <1>2
<1>4. /\ first[1] = whole[1] /\ first[2] = whole[2] /\ first[3] = whole[3]
      /\ rest[1] = whole[4] /\ rest[2] = whole[5]
  OBVIOUS
<1> HIDE DEF first, rest, whole
<1>5. first \o rest \in Seq(Harmless)
  BY <1>3, ConcatProperties
<1>6. Len(first \o rest) = Len(whole)
  <2>1. Len(first \o rest) = Len(first) + Len(rest)
    BY <1>3, ConcatProperties
  <2> QED BY <1>3, <2>1
<1>7. ASSUME NEW i \in 1..Len(first \o rest) PROVE (first \o rest)[i] = whole[i]
  <2>1. i \in 1..(Len(first) + Len(rest)) /\ i \in {1, 2, 3, 4, 5}
    BY <1>3, <1>6
  <2>2. (first \o rest)[i] = IF i <= Len(first) THEN first[i] ELSE rest[i - Len(first)]
    BY <1>3, <2>1, ConcatProperties
  <2> QED BY <1>3, <1>4, <2>1, <2>2
<1>8. first \o rest = whole
  BY <1>3, <1>5, <1>6, <1>7, SeqEqual
<1> QED BY <1>1, <1>8 DEF whole

LEMMA PreparingSteps ==
  ASSUME NEW n, NEW t \in Preparing(n)
  PROVE  /\ t # <<>>
         /\ Head(t).op \in {"ensureTable", "readOptions", "upsertRow", "readValidator"}
         /\ Head(t).op = "readValidator" => Tail(t) = Committing
         /\ Head(t).op # "readValidator" => Tail(t) \in Preparing(n)
<1> DEFINE E == EnsureCollection(n)
           O == On("readOptions", n)
           U == UpsertRowOf(n)
           V == ReadValidatorOf(n)
           C == [op |-> "commit"]
<1>1. /\ E.op = "ensureTable" /\ O.op = "readOptions" /\ U.op = "upsertRow"
      /\ V.op = "readValidator"
  BY DEF EnsureCollection, On, UpsertRowOf, ReadValidatorOf
<1>2. t \in {<< E, O, U, V, C >>, << O, U, V, C >>, << U, V, C >>, << V, C >>}
  BY DEF Preparing
<1>3. {<< O, U, V, C >>, << U, V, C >>, << V, C >>} \subseteq Preparing(n)
  BY DEF Preparing
<1>4. Committing = << C >>
  BY DEF Committing
<1> HIDE DEF E, O, U, V, C
<1>5. CASE t = << E, O, U, V, C >>
  BY <1>1, <1>3, <1>5
<1>6. CASE t = << O, U, V, C >>
  BY <1>1, <1>3, <1>6
<1>7. CASE t = << U, V, C >>
  BY <1>1, <1>3, <1>7
<1>8. CASE t = << V, C >>
  BY <1>1, <1>4, <1>8
<1> QED BY <1>2, <1>5, <1>6, <1>7, <1>8

\* A step of c changes its own shape only, and nothing is left of a command that ends.
LEMMA OthersKeepShape ==
  ASSUME ShapeInv, NEW c \in Conn, KeepsOthers(c), NEW o \in Conn \ {c}
  PROVE  ShapeAt(o)'
<1>1. /\ cmd'[o] = cmd[o] /\ todo'[o] = todo[o] /\ pending'[o] = pending[o]
      /\ tx'[o] = tx[o] /\ local'[o] = local[o]
  BY DEF KeepsOthers
<1>2. InsertAt(o) /\ FindAt(o) /\ DropAt(o) /\ MatchAt(o)
  BY DEF ShapeInv, ShapeAt
<1>3. InsertAt(o)'
  <2>1. Inserted(o)' = Inserted(o)
    BY <1>1 DEF Inserted
  <2> QED BY <1>1, <1>2, <2>1 DEF InsertAt
<1>4. FindAt(o)' /\ DropAt(o)'
  BY <1>1, <1>2 DEF FindAt, DropAt
<1>5. MatchAt(o)'
  BY <1>1, <1>2 DEF MatchAt, Replaces, Deletes
<1> QED BY <1>3, <1>4, <1>5 DEF ShapeAt

LEMMA EndShape ==
  ASSUME TypeOK, NEW c \in Conn, NEW ok, End(c, ok)
  PROVE  ShapeAt(c)'
<1>1. cmd'[c] = Idle /\ pending'[c] = {}
  BY EndKeepsOthers
<1>2. cmd'[c].kind = "idle"
  BY <1>1 DEF Idle
<1> QED BY <1>1, <1>2 DEF ShapeAt, InsertAt, FindAt, DropAt, MatchAt

LEMMA IssueShape ==
  ASSUME TypeInv, NEW c \in Conn, Issue(c)
  PROVE  ShapeAt(c)'
<1>1. PICK m \in unsent[c] :
        /\ cmd[c] = Idle
        /\ cmd' = [cmd EXCEPT ![c] = m]
        /\ Goto(c, Program(m))
        /\ local' = [local EXCEPT ![c].found = IF m.kind = "insert" THEN m.docs ELSE <<>>]
        /\ UNCHANGED << pending, tx >>
  BY DEF Issue
<1>2. m \in Command /\ cmd'[c] = m /\ todo'[c] = Program(m)
  BY <1>1, SendableType DEF TypeInv, TypeOK, Goto
<1>3. pending'[c] = {} /\ tx'[c] = {}
  BY <1>1 DEF TypeInv, LoopInv, LoopAt
<1>4. m.kind = "insert" => local'[c].found = m.docs
  BY <1>1 DEF TypeInv, TypeOK, Local
<1>5. InsertAt(c)'
  <2>1. ASSUME m.kind = "insert" PROVE Program(m) \in Preparing(m.ns)
    BY <1>2, <2>1, CommandFields, InsertIs DEF Program, Preparing
  <2> QED BY <1>2, <1>3, <1>4, <2>1 DEF InsertAt
<1>6. FindAt(c)'
  <2>1. ASSUME m.kind = "find"
        PROVE  Program(m) = << EnsureCollection(m.ns), SelectOf(m) >>
    BY <2>1 DEF Program, Find, SelectOf
  <2> QED BY <1>2, <1>3, <2>1 DEF FindAt
<1>7. DropAt(c)'
  <2>1. ASSUME m.kind = "drop" PROVE Program(m) = DropCollection(m.ns)
    BY <2>1 DEF Program
  <2> QED BY <1>2, <1>3, <2>1 DEF DropAt
<1>8. MatchAt(c)'
  BY <1>3 DEF MatchAt
<1> QED BY <1>5, <1>6, <1>7, <1>8 DEF ShapeAt

-----------------------------------------------------------------------------
LEMMA InsertMoves ==
  ASSUME TypeInv, NEW c \in Conn, InsertAt(c), Step(c), ~Fail(c), ~Answer(c),
         cmd[c].kind = "insert"
  PROVE  /\ InsertAt(c)'
         /\ \/ Commit(c) /\ todo[c] = Committing /\ todo'[c] = <<>>
            \/ rows' = rows /\ todo'[c] # <<>>
<1>1. cmd[c] \in Command /\ cmd[c].docs \in Seq(Doc)
  BY SendableType, CommandFields DEF TypeInv, TypeOK, Idle
<1>2. Inserts(cmd[c]) /\ ~Replaces(cmd[c]) /\ ~Deletes(cmd[c])
  BY DEF Inserts, Replaces, Deletes
<1>3. CASE todo[c] \in Preparing(cmd[c].ns) /\ pending[c] = {} /\ tx[c] = {}
             /\ local[c].found = cmd[c].docs
  <2>1. /\ todo[c] # <<>>
        /\ Stmt(c).op \in {"ensureTable", "readOptions", "upsertRow", "readValidator"}
        /\ Stmt(c).op = "readValidator" => Tail(todo[c]) = Committing
        /\ Stmt(c).op # "readValidator" => Tail(todo[c]) \in Preparing(cmd[c].ns)
    BY <1>3, PreparingSteps DEF Stmt
  <2>2. CASE Stmt(c).op = "readValidator"
    <3>1. ReadValidator(c)
      BY <1>3, <2>1, <2>2, NextStatement
    <3>2. /\ cmd' = cmd /\ tx' = tx
          /\ local' = [local EXCEPT ![c].opts = catalog[Stmt(c).ns].validator,
                                    ![c].count = Len(local[c].found)]
          /\ pending' = [pending EXCEPT ![c] = {1} \X (DOMAIN local[c].found)]
          /\ todo' = [todo EXCEPT ![c] = Tail(todo[c])]
      BY <3>1 DEF ReadValidator, Advance, Goto
    <3>3. todo'[c] = Committing /\ cmd'[c] = cmd[c] /\ tx'[c] = {}
      BY <1>3, <2>1, <2>2, <3>2 DEF TypeInv, TypeOK
    <3>4. local'[c].found = cmd[c].docs /\ local'[c].count = Len(cmd[c].docs)
      BY <1>3, <3>2 DEF TypeInv, TypeOK, Local
    <3>5. pending'[c] = {1} \X (DOMAIN cmd[c].docs)
      BY <1>3, <3>2 DEF TypeInv, TypeOK
    <3>6. Inserted(c)' = {}
      BY <3>3, <3>5 DEF Inserted
    <3>7. \A w \in pending'[c] : w[1] = 1
      BY <3>5
    <3>8. todo'[c] # <<>> /\ rows' = rows
      BY <3>1, <3>3 DEF Committing, ReadValidator, database
    <3> QED BY <3>3, <3>4, <3>6, <3>7, <3>8 DEF InsertAt
  <2>3. CASE Stmt(c).op # "readValidator"
    <3>1. EnsureTable(c) \/ ReadOptions(c) \/ UpsertRow(c)
      BY <1>3, <2>1, <2>3, NextStatement
    <3>2. /\ Advance(c) /\ cmd' = cmd /\ tx' = tx /\ pending' = pending
          /\ local'[c].found = local[c].found
      BY <3>1 DEF EnsureTable, ReadOptions, UpsertRow, TypeInv, TypeOK, Local
    <3>3. todo'[c] = Tail(todo[c])
      BY <3>2 DEF Advance, Goto, TypeInv, TypeOK
    <3>4. todo'[c] # <<>> /\ rows' = rows
      BY <2>1, <2>3, <3>1, <3>3, PreparingSteps DEF EnsureTable, ReadOptions, UpsertRow, database
    <3> QED BY <1>3, <2>1, <2>3, <3>2, <3>3, <3>4 DEF InsertAt
  <2> QED BY <2>2, <2>3
<1>4. CASE /\ todo[c] = Committing
           /\ local[c].found = cmd[c].docs /\ local[c].count = Len(cmd[c].docs)
           /\ \A w \in pending[c] : w[1] = 1
           /\ tx[c] = {cmd[c].docs[i] : i \in Inserted(c)}
           /\ \A i, j \in Inserted(c) : cmd[c].docs[i].id = cmd[c].docs[j].id => i = j
  <2>1. todo[c] # <<>> /\ Stmt(c).op = "commit" /\ Tail(todo[c]) = <<>>
    BY <1>4 DEF Committing, Stmt
  <2>2. CASE pending[c] = {}
    <3>1. Commit(c)
      BY <2>1, <2>2, NextStatement
    <3>2. /\ cmd' = cmd /\ local' = local /\ pending' = pending
          /\ todo'[c] = <<>>
      BY <2>1, <3>1 DEF Commit, Advance, Goto, TypeInv, TypeOK
    <3> QED BY <1>4, <2>2, <3>1, <3>2 DEF InsertAt
  <2>3. CASE pending[c] # {}
    <3>1. InsertDocument(c)
      BY <1>2, <2>3, NextWrite DEF Inserts
    <3>2. PICK w \in pending[c] :
            /\ ~Refused(c, local[c].found[w[2]])
            /\ ~Locked(c, TargetTable(c), local[c].found[w[2]].id)
            /\ tx' = [tx EXCEPT ![c] = @ \cup {local[c].found[w[2]]}]
            /\ pending' = [pending EXCEPT ![c] = @ \ {w}]
            /\ UNCHANGED << cmd, todo, local >>
      BY <3>1 DEF InsertDocument
    <3>3. PICK k \in DOMAIN cmd[c].docs : w = << 1, k >>
      <4>1. w \in Nat \X Nat /\ w[1] = 1 /\ w[2] \in DOMAIN local[c].found
        BY <1>2, <1>4 DEF TypeInv, TypeOK, LoopInv, LoopAt
      <4> QED BY <1>4, <4>1
    <3>4. PICK d : d = cmd[c].docs[k]
      OBVIOUS
    <3>5. tx'[c] = tx[c] \cup {d} /\ pending'[c] = pending[c] \ {w}
      BY <1>4, <3>2, <3>3, <3>4 DEF TypeInv, TypeOK
    <3>6. Inserted(c)' = Inserted(c) \cup {k} /\ k \notin Inserted(c)
      BY <3>2, <3>3, <3>5 DEF Inserted
    <3>7. \A e \in tx[c] : e.id # d.id
      <4>1. ~Locked(c, TargetTable(c), d.id) /\ ~Refused(c, d)
        BY <1>4, <3>2, <3>3, <3>4
      <4> QED BY <4>1 DEF Refused
    <3>8. tx'[c] = {cmd[c].docs[i] : i \in Inserted(c)'}
      BY <1>4, <3>4, <3>5, <3>6
    <3>9. \A i, j \in Inserted(c)' : cmd[c].docs[i].id = cmd[c].docs[j].id => i = j
      <4>1. \A i \in Inserted(c) : cmd[c].docs[i].id # cmd[c].docs[k].id
        BY <1>4, <3>4, <3>7
      <4> QED BY <1>4, <3>6, <4>1
    <3>10. \A x \in pending'[c] : x[1] = 1
      BY <1>4, <3>5
    <3>11. cmd'[c] = cmd[c] /\ todo'[c] = todo[c] /\ local'[c] = local[c]
      BY <3>2
    <3>12. todo'[c] # <<>> /\ rows' = rows
      BY <1>4, <3>1, <3>11 DEF Committing, InsertDocument, database
    <3> QED BY <1>4, <3>8, <3>9, <3>10, <3>11, <3>12 DEF InsertAt
  <2> QED BY <2>2, <2>3
<1>5. CASE todo[c] = <<>> /\ pending[c] = {}
  BY <1>5, NothingLeft
<1> QED BY <1>3, <1>4, <1>5 DEF InsertAt

LEMMA FindMoves ==
  ASSUME TypeInv, NEW c \in Conn, FindAt(c), Step(c), ~Fail(c), ~Answer(c),
         cmd[c].kind = "find"
  PROVE  /\ FindAt(c)'
         /\ \/ EnsureTable(c) /\ todo'[c] # <<>>
            \/ SelectForReply(c) /\ Stmt(c) = SelectOf(cmd[c]) /\ todo'[c] = <<>>
         /\ pending'[c] = {}
<1> DEFINE E == EnsureCollection(cmd[c].ns)
           S == SelectOf(cmd[c])
<1>1. E.op = "ensureTable" /\ S.op = "select" /\ S.use = "reply"
  BY DEF EnsureCollection, SelectOf
<1>2. pending[c] = {} /\ todo[c] \in {<< E, S >>, << S >>, <<>>}
  BY DEF FindAt
<1>3. /\ {<< E, S >>, << S >>} \subseteq Seq({E, S})
      /\ Tail(<< E, S >>) = << S >> /\ Tail(<< S >>) = <<>>
  OBVIOUS
<1>4. todo[c] # <<>>
  BY <1>2, NothingLeft
<1>5. CASE todo[c] = << E, S >>
  <2>1. Stmt(c).op = "ensureTable"
    BY <1>1, <1>5 DEF Stmt
  <2>2. EnsureTable(c)
    BY <1>2, <1>4, <2>1, NextStatement
  <2>3. cmd' = cmd /\ pending' = pending /\ todo'[c] = << S >>
    BY <1>3, <1>5, <2>2 DEF EnsureTable, Advance, Goto, TypeInv, TypeOK
  <2> QED BY <1>2, <2>2, <2>3 DEF FindAt
<1>6. CASE todo[c] = << S >>
  <2>1. Stmt(c) = S
    BY <1>6 DEF Stmt
  <2>2. ReadStep(c)
    BY <1>1, <1>2, <1>4, <2>1, NextStatement
  <2>3. SelectForReply(c)
    BY <1>1, <2>1, <2>2 DEF ReadStep, SelectBefore, SelectAfter, SelectForRename,
                            SelectForUpdate, SelectForDelete, Selects, At, Stmt
  <2>4. cmd' = cmd /\ pending' = pending /\ todo'[c] = <<>>
    BY <1>3, <1>6, <2>3 DEF SelectForReply, Advance, Goto, TypeInv, TypeOK
  <2> QED BY <1>2, <2>1, <2>3, <2>4 DEF FindAt
<1> QED BY <1>2, <1>4, <1>5, <1>6

LEMMA DropMoves ==
  ASSUME TypeInv, NEW c \in Conn, DropAt(c), Step(c), ~Fail(c), ~Answer(c),
         cmd[c].kind = "drop"
  PROVE  /\ DropAt(c)' /\ cmd' = cmd /\ pending' = pending
         /\ \/ /\ todo[c] = DropCollection(cmd[c].ns)
               /\ todo'[c] = << On("deleteRow", cmd[c].ns) >> /\ DropTable(c)
            \/ /\ todo[c] = << On("deleteRow", cmd[c].ns) >>
               /\ todo'[c] = <<>> /\ DeleteRow(c)
<1> DEFINE T == DropTableOf(TableOf[cmd[c].ns])
           D == On("deleteRow", cmd[c].ns)
<1>1. T.op = "dropTable" /\ D.op = "deleteRow"
  BY DEF DropTableOf, On
<1>2. DropCollection(cmd[c].ns) = << T, D >>
  BY DEF DropCollection
<1>3. pending[c] = {} /\ todo[c] \in {<< T, D >>, << D >>, <<>>}
  BY <1>2 DEF DropAt
<1>4. todo[c] # <<>>
  BY <1>3, NothingLeft
<1>5. Tail(<< T, D >>) = << D >> /\ Tail(<< D >>) = <<>>
  OBVIOUS
<1>6. CASE todo[c] = << T, D >>
  <2>1. Stmt(c).op = "dropTable"
    BY <1>1, <1>6 DEF Stmt
  <2>2. DropTable(c)
    BY <1>3, <1>4, <2>1, NextStatement
  <2>3. cmd' = cmd /\ pending' = pending /\ todo'[c] = << D >>
    BY <1>5, <1>6, <2>2 DEF DropTable, Advance, Goto, TypeInv, TypeOK
  <2>4. DropAt(c)'
    BY <1>3, <2>3 DEF DropAt
  <2> QED BY <1>2, <1>6, <2>2, <2>3, <2>4
<1>7. CASE todo[c] = << D >>
  <2>1. Stmt(c).op = "deleteRow"
    BY <1>1, <1>7 DEF Stmt
  <2>2. DeleteRow(c)
    BY <1>3, <1>4, <2>1, NextStatement
  <2>3. cmd' = cmd /\ pending' = pending /\ todo'[c] = <<>>
    BY <1>5, <1>7, <2>2 DEF DeleteRow, Advance, Goto, TypeInv, TypeOK
  <2>4. DropAt(c)'
    BY <1>3, <2>3 DEF DropAt
  <2> QED BY <1>7, <2>2, <2>3, <2>4
<1> QED BY <1>3, <1>4, <1>6, <1>7

\* A step that does not end the command keeps it, and answers nothing.
LEMMA CommandKept ==
  ASSUME NEW c \in Conn, Step(c), ~Fail(c), ~Answer(c)
  PROVE  cmd' = cmd /\ UNCHANGED clients
<1>1. CASE CatalogStep(c) \/ IndexStep(c)
  BY <1>1 DEF CatalogStep, EnsureTable, ReadOptions, UpsertRow, DropTable, DeleteRow,
              ShowTables, DeleteRows, SelectCollections, IndexStep, ReadCollectionID,
              NoCollectionID, InsertIndex, SelectIndexes, clients
<1>2. CASE InsertStep(c) \/ WriteStep(c)
  BY <1>2 DEF InsertStep, ReadValidator, InsertDocument, RefuseDocument, Commit,
              DeadlockVictim, WriteStep, ReplaceDocument, FailUpdate, DeleteDocument,
              TableMissing, clients
<1>3. CASE ReadStep(c)
  BY <1>3 DEF ReadStep, SelectForReply, SelectBefore, SelectAfter, SelectForRename,
              SelectForUpdate, SelectForDelete, StartLoop, clients
<1> QED BY <1>1, <1>2, <1>3 DEF Step

LEMMA LoopMoves ==
  ASSUME TypeInv, NEW c \in Conn, MatchAt(c), Step(c), ~Fail(c), ~Answer(c)
  PROVE  MatchAt(c)'
<1>1. cmd' = cmd
  BY CommandKept
<1>2. CASE pending[c] # {}
  <2>1. pending'[c] \subseteq pending[c] /\ local' = local
    BY <1>2, NextWrite
       DEF InsertDocument, ReplaceDocument, DeleteDocument, InsertIndex, TypeInv, TypeOK
  <2> QED BY <1>1, <2>1 DEF MatchAt, Replaces, Deletes
<1>3. CASE pending[c] = {}
  <2>1. todo[c] # <<>>
    BY <1>3, NothingLeft
  <2>2. CASE pending'[c] = {}
    BY <2>2 DEF MatchAt
  <2>3. CASE ReadValidator(c) \/ ReadCollectionID(c)
    <3>1. ~Replaces(cmd[c]) /\ ~Deletes(cmd[c])
      BY <2>3 DEF ReadValidator, ReadCollectionID, Inserts, Replaces, Deletes
    <3> QED BY <1>1, <3>1 DEF MatchAt, Replaces, Deletes
  <2>4. CASE SelectForUpdate(c)
    <3>1. PICK docs : StartLoop(c, docs, UpdateWrites(cmd[c].updates, docs))
      BY <2>4 DEF SelectForUpdate
    <3>2. /\ local'[c].found = docs
          /\ pending'[c] = UpdateWrites(cmd[c].updates, docs)
      BY <3>1 DEF StartLoop, TypeInv, TypeOK, Local
    <3>3. \A w \in UpdateWrites(cmd[c].updates, docs) :
            w[2] # 0 => docs[w[2]] \in cmd[c].updates[w[1]].matches
      BY DEF UpdateWrites, Hits
    <3>4. ~Deletes(cmd[c])
      BY <2>4 DEF SelectForUpdate, Replaces, Deletes
    <3> QED BY <1>1, <3>2, <3>3, <3>4 DEF MatchAt, Replaces, Deletes
  <2>5. CASE SelectForDelete(c)
    <3>1. PICK docs : StartLoop(c, docs, DeleteWrites(DeletesOf(cmd[c]), docs))
      BY <2>5 DEF SelectForDelete
    <3>2. /\ local'[c].found = docs
          /\ pending'[c] = DeleteWrites(DeletesOf(cmd[c]), docs)
      BY <3>1 DEF StartLoop, TypeInv, TypeOK, Local
    <3>3. \A w \in DeleteWrites(DeletesOf(cmd[c]), docs) :
            /\ w[1] \in DOMAIN DeletesOf(cmd[c])
            /\ docs[w[2]] \in DeletesOf(cmd[c])[w[1]].matches
      BY DEF DeleteWrites, Hits
    <3>4. ~Replaces(cmd[c])
      BY <2>5 DEF SelectForDelete, Replaces, Deletes
    <3> QED BY <1>1, <3>2, <3>3, <3>4 DEF MatchAt, Replaces, Deletes
  <2>6. CASE \/ EnsureTable(c) \/ ReadOptions(c) \/ UpsertRow(c) \/ DropTable(c)
             \/ DeleteRow(c) \/ ShowTables(c) \/ DeleteRows(c) \/ SelectCollections(c)
             \/ NoCollectionID(c) \/ SelectIndexes(c) \/ Commit(c) \/ SelectForReply(c)
             \/ SelectBefore(c) \/ SelectAfter(c) \/ SelectForRename(c)
    <3>1. pending' = pending
      BY <2>6 DEF EnsureTable, ReadOptions, UpsertRow, DropTable, DeleteRow, ShowTables,
                  DeleteRows, SelectCollections, NoCollectionID, SelectIndexes, Commit,
                  SelectForReply, SelectBefore, SelectAfter, SelectForRename
    <3> QED BY <1>3, <2>2, <3>1
  <2> QED BY <1>3, <2>1, <2>3, <2>4, <2>5, <2>6, NextStatement DEF ReadStep
<1> QED BY <1>2, <1>3

LEMMA NextShape ==
  ASSUME TypeInv, ShapeInv, [Next]_vars
  PROVE  ShapeInv'
<1>1. CASE UNCHANGED vars \/ Done
  <2>1. UNCHANGED << cmd, todo, pending, tx, local, reply >>
    BY <1>1 DEF vars, Done
  <2>2. ASSUME NEW c \in Conn PROVE ShapeAt(c)'
    <3>1. InsertAt(c) /\ FindAt(c) /\ DropAt(c) /\ MatchAt(c)
      BY DEF ShapeInv, ShapeAt
    <3>2. Inserted(c)' = Inserted(c)
      BY <2>1 DEF Inserted
    <3>3. InsertAt(c)'
      BY <2>1, <3>1, <3>2 DEF InsertAt
    <3>4. FindAt(c)' /\ DropAt(c)' /\ MatchAt(c)'
      BY <2>1, <3>1 DEF FindAt, DropAt, MatchAt, Replaces, Deletes
    <3> QED BY <3>3, <3>4 DEF ShapeAt
  <2> QED BY <2>2 DEF ShapeInv
<1>2. ASSUME NEW c \in Conn, Issue(c) \/ Step(c) \/ Abort(c), ShapeAt(c)'
      PROVE  ShapeInv'
  <2>1. KeepsOthers(c)
    BY <1>2, OthersKept DEF TypeInv
  <2> QED BY <1>2, <2>1, OthersKeepShape DEF ShapeInv
<1>3. ASSUME NEW c \in Conn, Issue(c) PROVE ShapeInv'
  BY <1>2, <1>3, IssueShape
<1>4. ASSUME NEW c \in Conn, Abort(c) PROVE ShapeInv'
  BY <1>2, <1>4, EndShape DEF Abort, TypeInv
<1>5. ASSUME NEW c \in Conn, Step(c) PROVE ShapeInv'
  <2>1. CASE Fail(c) \/ Answer(c)
    <3>1. ShapeAt(c)'
      BY <2>1, EndShape DEF Fail, Answer, TypeInv
    <3> QED BY <1>2, <1>5, <3>1
  <2>2. CASE ~Fail(c) /\ ~Answer(c)
    <3>1. cmd' = cmd
      BY <1>5, <2>2, CommandKept
    <3>2. InsertAt(c) /\ FindAt(c) /\ DropAt(c) /\ MatchAt(c)
      BY DEF ShapeInv, ShapeAt
    <3>3. InsertAt(c)'
      BY <1>5, <2>2, <3>1, <3>2, InsertMoves DEF InsertAt
    <3>4. FindAt(c)'
      BY <1>5, <2>2, <3>1, <3>2, FindMoves DEF FindAt
    <3>5. DropAt(c)'
      BY <1>5, <2>2, <3>1, <3>2, DropMoves DEF DropAt
    <3>6. MatchAt(c)'
      BY <1>5, <2>2, <3>2, LoopMoves
    <3>7. ShapeAt(c)'
      BY <3>3, <3>4, <3>5, <3>6 DEF ShapeAt
    <3> QED BY <1>2, <1>5, <3>7
  <2> QED BY <2>1, <2>2
<1> QED BY <1>1, <1>3, <1>4, <1>5 DEF Next

LEMMA InitShape == Init => ShapeInv
<1> SUFFICES ASSUME Init, NEW c \in Conn PROVE ShapeAt(c)
  BY DEF ShapeInv
<1>1. cmd[c] = Idle /\ pending[c] = {}
  BY DEF Init
<1>2. cmd[c].kind = "idle"
  BY <1>1 DEF Idle
<1> QED BY <1>1, <1>2 DEF ShapeAt, InsertAt, FindAt, DropAt, MatchAt

LEMMA ProgramsInvariant == Spec => [](TypeInv /\ FitsInv /\ ShapeInv)
<1>1. Init => TypeInv /\ FitsInv /\ ShapeInv
  BY InitType, InitFits, InitShape
<1>2. TypeInv /\ FitsInv /\ ShapeInv /\ [Next]_vars => (TypeInv /\ FitsInv /\ ShapeInv)'
  BY NextType, NextFits, NextShape
<1> QED BY <1>1, <1>2, PTL DEF Spec
=============================================================================
