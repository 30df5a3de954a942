--------------------------- MODULE TiDBStoreProofs ---------------------------
(***************************************************************************)
(* Type correctness of the store, for any clients, commands, documents and *)
(* number of faults.  There is one lemma for each action.                  *)
(***************************************************************************)
EXTENDS TiDBStore, CommandsProofs

\* The writes left of a loop are writes of the command the connection executes,
\* and an idle connection has neither writes nor a transaction.
LoopAt(c) ==
  /\ cmd[c] = Idle => pending[c] = {} /\ tx[c] = {}
  /\ \A w \in pending[c] :
       /\ Inserts(cmd[c]) => w[2] \in DOMAIN local[c].found
       /\ Deletes(cmd[c]) => w[2] \in DOMAIN local[c].found
       /\ Replaces(cmd[c]) => /\ w[1] \in DOMAIN cmd[c].updates
                              /\ w[2] \in 0..Len(local[c].found)
       /\ cmd[c].kind = "createIndexes" => w[2] \in DOMAIN cmd[c].names

LoopInv == \A c \in Conn : LoopAt(c)

TypeInv == TypeOK /\ LoopInv

-----------------------------------------------------------------------------
(* Statements and programs. *)

LEMMA StatementFields ==
  ASSUME NEW s \in Statement
  PROVE  /\ s.op \in OnNamespace \cup {"upsertRow", "select"} => s.ns \in Namespace
         /\ s.op = "upsertRow" => s.validator \in SUBSET Doc
         /\ s.op = "select" => s.filter \in SUBSET Doc /\ s.limit \in Nat
         /\ s.op \in OnTable => s.table \in Table
         /\ s.op \in OnDatabase => s.db \in Database
BY DEF Statement, OnTable, OnNamespace, OnDatabase

LEMMA SendableType == Sendable \subseteq Command
BY MenusAssumption DEF Sendable

\* The statement a connection is at, and the program after it.
LEMMA AtType ==
  ASSUME TypeOK, NEW c \in Conn, todo[c] # <<>>
  PROVE  /\ Stmt(c) \in Statement
         /\ Tail(todo[c]) \in Seq(Statement)
<1>1. todo[c] \in Seq(Statement)
  BY DEF TypeOK
<1> QED BY <1>1, HeadTailProperties DEF Stmt

LEMMA GotoType ==
  ASSUME TypeOK, NEW c \in Conn, NEW program \in Seq(Statement), Goto(c, program)
  PROVE  todo' \in [Conn -> Seq(Statement)]
BY DEF TypeOK, Goto

LEMMA AdvanceType ==
  ASSUME TypeOK, NEW c \in Conn, todo[c] # <<>>, Advance(c)
  PROVE  todo' \in [Conn -> Seq(Statement)]
BY AtType, GotoType DEF Advance

\* An idle connection has no kind of loop.
LEMMA IdleLoop ==
  ~Inserts(Idle) /\ ~Replaces(Idle) /\ ~Deletes(Idle)
BY DEF Inserts, Replaces, Deletes, Idle

\* A step that leaves the commands, the loops and the results alone.
LEMMA LoopUnchanged ==
  ASSUME LoopInv, UNCHANGED << cmd, pending, tx, local >>
  PROVE  LoopInv'
BY DEF LoopInv, LoopAt, Inserts, Replaces, Deletes

-----------------------------------------------------------------------------
(* The catalog. *)

LEMMA EnsureTableType ==
  ASSUME TypeInv, NEW c \in Conn, EnsureTable(c)
  PROVE  TypeInv'
<1>1. Stmt(c).table \in Table
  BY AtType, StatementFields DEF EnsureTable, At, Stmt, TypeInv, OnTable
<1>2. todo' \in [Conn -> Seq(Statement)]
  BY AdvanceType DEF EnsureTable, At, TypeInv
<1>3. TypeOK'
  BY <1>1, <1>2 DEF TypeInv, TypeOK, EnsureTable, clients
<1>4. LoopInv'
  BY LoopUnchanged DEF TypeInv, EnsureTable
<1> QED BY <1>3, <1>4 DEF TypeInv

LEMMA ReadOptionsType ==
  ASSUME TypeInv, NEW c \in Conn, ReadOptions(c)
  PROVE  TypeInv'
<1>1. Stmt(c).ns \in Namespace
  BY AtType, StatementFields DEF ReadOptions, At, Stmt, TypeInv, OnNamespace
<1>2. todo' \in [Conn -> Seq(Statement)]
  BY AdvanceType DEF ReadOptions, At, TypeInv
<1>3. local' \in [Conn -> Local]
  BY <1>1 DEF TypeInv, TypeOK, ReadOptions, Local, CatalogRow
<1>4. TypeOK'
  BY <1>2, <1>3 DEF TypeInv, TypeOK, ReadOptions, clients, database
<1>5. LoopInv'
  BY DEF TypeInv, TypeOK, LoopInv, LoopAt, ReadOptions, At, Local, Inserts, Replaces, Deletes
<1> QED BY <1>4, <1>5 DEF TypeInv

LEMMA UpsertRowType ==
  ASSUME TypeInv, NEW c \in Conn, UpsertRow(c)
  PROVE  TypeInv'
<1> DEFINE n == Stmt(c).ns
           validator == MergedValidator(Stmt(c).validator, local[c].opts)
<1>1. n \in Namespace /\ Stmt(c).validator \in SUBSET Doc /\ Stmt(c).op = "upsertRow"
  BY AtType, StatementFields DEF UpsertRow, At, Stmt, TypeInv
<1>2. todo' \in [Conn -> Seq(Statement)]
  BY AdvanceType DEF UpsertRow, At, TypeInv
<1>3. validator \in SUBSET Doc
  BY <1>1 DEF MergedValidator, TypeInv, TypeOK, Local
<1>4. NextId \in Nat /\ Append(issued, n) \in Seq(Namespace)
  BY <1>1, LenProperties, AppendProperties DEF NextId, TypeInv, TypeOK
<1>5. catalog' \in [Namespace -> CatalogRow] /\ issued' \in Seq(Namespace)
  <2>1. catalog \in [Namespace -> CatalogRow] /\ issued \in Seq(Namespace)
    BY DEF TypeInv, TypeOK
  <2>2. [id |-> NextId, validator |-> validator] \in CatalogRow
    BY <1>3, <1>4 DEF CatalogRow
  <2>3. [catalog[n] EXCEPT !.validator = validator] \in CatalogRow
    BY <1>1, <1>3, <2>1 DEF CatalogRow
  <2>4. \/ /\ catalog' = [catalog EXCEPT ![n] = [id |-> NextId, validator |-> validator]]
           /\ issued' = Append(issued, n)
        \/ /\ catalog' = [catalog EXCEPT ![n] = [catalog[n] EXCEPT !.validator = validator]]
           /\ issued' = issued
    BY DEF UpsertRow
  <2> HIDE DEF n, validator
  <2> QED BY <1>4, <2>1, <2>2, <2>3, <2>4
<1>6. TypeOK'
  BY <1>2, <1>5 DEF TypeInv, TypeOK, UpsertRow, clients
<1>7. LoopInv'
  BY LoopUnchanged DEF TypeInv, UpsertRow
<1> QED BY <1>6, <1>7 DEF TypeInv

LEMMA DropTableType ==
  ASSUME TypeInv, NEW c \in Conn, DropTable(c)
  PROVE  TypeInv'
<1>1. todo' \in [Conn -> Seq(Statement)]
  BY AdvanceType DEF DropTable, At, TypeInv
<1>2. TypeOK'
  BY <1>1 DEF TypeInv, TypeOK, DropTable, clients
<1>3. LoopInv'
  BY LoopUnchanged DEF TypeInv, DropTable
<1> QED BY <1>2, <1>3 DEF TypeInv

LEMMA NoRowType == NoRow \in CatalogRow
BY DEF NoRow, CatalogRow, AnyDoc

LEMMA DeleteRowType ==
  ASSUME TypeInv, NEW c \in Conn, DeleteRow(c)
  PROVE  TypeInv'
<1>1. todo' \in [Conn -> Seq(Statement)]
  BY AdvanceType DEF DeleteRow, At, TypeInv
<1>2. TypeOK'
  BY <1>1, NoRowType DEF TypeInv, TypeOK, DeleteRow, clients
<1>3. LoopInv'
  BY LoopUnchanged DEF TypeInv, DeleteRow
<1> QED BY <1>2, <1>3 DEF TypeInv

\* The statements that drop the tables listed.
LEMMA DropTablesType ==
  ASSUME TypeOK, NEW S \in SUBSET tables, NEW listed \in Orderings(S)
  PROVE  [i \in DOMAIN listed |-> DropTableOf(listed[i])] \in Seq(Statement)
<1>1. S \subseteq Table /\ IsFiniteSet(S)
  BY TableFinite, FS_Subset DEF TypeOK
<1>2. listed \in Seq(S) /\ DOMAIN listed = 1..Len(listed)
  BY <1>1, OrderingsType
<1>3. Len(listed) \in Nat
  BY <1>2, LenProperties
<1>4. \A i \in DOMAIN listed : DropTableOf(listed[i]) \in Statement
  BY <1>1, <1>2 DEF DropTableOf, Statement, OnTable
<1> DEFINE drops == [i \in DOMAIN listed |-> DropTableOf(listed[i])]
<1>5. drops \in [1..Len(listed) -> Statement]
  BY <1>2, <1>4
<1> QED BY <1>3, <1>5, SeqDef

LEMMA ShowTablesType ==
  ASSUME TypeInv, NEW c \in Conn, ShowTables(c)
  PROVE  TypeInv'
<1> DEFINE S == {t \in tables : LikeDatabase(t, Stmt(c).db)}
           drops(listed) == [i \in DOMAIN listed |-> DropTableOf(listed[i])]
<1>1. PICK listed \in Orderings(S) : Goto(c, drops(listed) \o Tail(todo[c]))
  BY DEF ShowTables
<1>2. drops(listed) \in Seq(Statement)
  BY <1>1, DropTablesType DEF TypeInv
<1>3. Tail(todo[c]) \in Seq(Statement)
  BY AtType DEF ShowTables, At, TypeInv
<1>4. drops(listed) \o Tail(todo[c]) \in Seq(Statement)
  BY <1>2, <1>3, ConcatProperties
<1>5. todo' \in [Conn -> Seq(Statement)]
  BY <1>1, <1>4, GotoType DEF TypeInv
<1>6. TypeOK'
  BY <1>5 DEF TypeInv, TypeOK, ShowTables, clients, database
<1>7. LoopInv'
  BY LoopUnchanged DEF TypeInv, ShowTables
<1> QED BY <1>6, <1>7 DEF TypeInv

LEMMA DeleteRowsType ==
  ASSUME TypeInv, NEW c \in Conn, DeleteRows(c)
  PROVE  TypeInv'
<1>1. todo' \in [Conn -> Seq(Statement)]
  BY AdvanceType DEF DeleteRows, At, TypeInv
<1>2. TypeOK'
  BY <1>1, NoRowType DEF TypeInv, TypeOK, DeleteRows, clients
<1>3. LoopInv'
  BY LoopUnchanged DEF TypeInv, DeleteRows
<1> QED BY <1>2, <1>3 DEF TypeInv

\* A step that only writes a count and the like into the Go variables of c,
\* while c is in no loop.
LEMMA LocalStep ==
  ASSUME TypeInv, NEW c \in Conn, NEW new \in Local, pending[c] = {},
         local' = [local EXCEPT ![c] = new],
         todo' \in [Conn -> Seq(Statement)],
         UNCHANGED << database, cmd, pending, tx, clients >>
  PROVE  TypeInv'
<1>1. TypeOK'
  BY DEF TypeInv, TypeOK, clients, database
<1>2. LoopInv'
  BY DEF TypeInv, TypeOK, LoopInv, LoopAt, Inserts, Replaces, Deletes
<1> QED BY <1>1, <1>2 DEF TypeInv

LEMMA SelectCollectionsType ==
  ASSUME TypeInv, NEW c \in Conn, SelectCollections(c)
  PROVE  TypeInv'
<1> DEFINE S == {n \in Namespace : n.db = Stmt(c).db /\ catalog[n].id # 0}
<1>1. todo' \in [Conn -> Seq(Statement)]
  BY AdvanceType DEF SelectCollections, At, TypeInv
<1>2. Cardinality(S) \in Nat
  BY FiniteAssumption, FS_Subset, FS_CardinalityType
<1>3. [local[c] EXCEPT !.count = Cardinality(S)] \in Local
  BY <1>2 DEF TypeInv, TypeOK, Local
<1>4. local' = [local EXCEPT ![c] = [local[c] EXCEPT !.count = Cardinality(S)]]
  BY DEF SelectCollections
<1> QED BY <1>1, <1>3, <1>4, LocalStep DEF SelectCollections, At

-----------------------------------------------------------------------------
(* The end of a command. *)

LEMMA EndType ==
  ASSUME TypeInv, NEW c \in Conn, NEW ok \in BOOLEAN, End(c, ok), UNCHANGED database,
         acked' \subseteq Sendable, faults' \in 0..MaxFaults
  PROVE  TypeInv'
<1>1. Blank \in Local
  BY EmptySeq DEF Blank, Local, AnyDoc
<1>2. [to |-> cmd[c], ok |-> ok, n |-> local[c].count, value |-> local[c].value] \in Reply
  BY DEF TypeInv, TypeOK, Reply, Local
<1>3. reply' \in [Conn -> Reply]
  BY <1>2 DEF End, TypeInv, TypeOK
<1>4. local' \in [Conn -> Local]
  BY <1>1 DEF End, TypeInv, TypeOK
<1>5. todo' \in [Conn -> Seq(Statement)]
  BY EmptySeq DEF End, TypeInv, TypeOK
<1>6. TypeOK'
  BY <1>3, <1>4, <1>5 DEF End, TypeInv, TypeOK, database
<1>7. LoopInv'
  <2> SUFFICES ASSUME NEW o \in Conn PROVE LoopAt(o)'
    BY DEF LoopInv
  <2>1. CASE o = c
    BY <2>1 DEF End, TypeInv, TypeOK, LoopAt
  <2>2. CASE o # c
    BY <2>2 DEF End, TypeInv, TypeOK, LoopInv, LoopAt, Inserts, Replaces, Deletes
  <2> QED BY <2>1, <2>2
<1> QED BY <1>6, <1>7 DEF TypeInv

LEMMA FailType ==
  ASSUME TypeInv, NEW c \in Conn, Fail(c)
  PROVE  TypeInv'
BY EndType DEF Fail, TypeInv, TypeOK

LEMMA AnswerType ==
  ASSUME TypeInv, NEW c \in Conn, Answer(c)
  PROVE  TypeInv'
<1>1. acked' \subseteq Sendable
  BY DEF Answer, TypeInv, TypeOK
<1> QED BY <1>1, EndType DEF Answer, TypeInv, TypeOK

LEMMA AbortType ==
  ASSUME TypeInv, NEW c \in Conn, Abort(c)
  PROVE  TypeInv'
<1>1. faults' \in 0..MaxFaults
  BY FaultsAssumption DEF Abort, TypeInv, TypeOK
<1> QED BY <1>1, EndType DEF Abort, TypeInv, TypeOK

LEMMA IssueType ==
  ASSUME TypeInv, NEW c \in Conn, Issue(c)
  PROVE  TypeInv'
<1>1. PICK m \in unsent[c] :
        /\ cmd[c] = Idle
        /\ cmd' = [cmd EXCEPT ![c] = m]
        /\ unsent' = [unsent EXCEPT ![c] = @ \ {m}]
        /\ Goto(c, Program(m))
        /\ local' = [local EXCEPT ![c].found = IF m.kind = "insert" THEN m.docs ELSE <<>>]
        /\ UNCHANGED << database, pending, tx, reply, acked, faults >>
  BY DEF Issue
<1>2. m \in Sendable /\ m \in Command
  BY SendableType DEF TypeInv, TypeOK
<1>3. todo' \in [Conn -> Seq(Statement)]
  BY <1>1, <1>2, ProgramType, GotoType DEF TypeInv
<1>4. (IF m.kind = "insert" THEN m.docs ELSE <<>>) \in Seq(Doc)
  BY <1>2, CommandFields, EmptySeq
<1>5. local' \in [Conn -> Local]
  BY <1>1, <1>4 DEF TypeInv, TypeOK, Local
<1>6. TypeOK'
  BY <1>1, <1>2, <1>3, <1>5 DEF TypeInv, TypeOK, database
<1>7. pending[c] = {} /\ tx[c] = {}
  BY <1>1 DEF TypeInv, LoopInv, LoopAt
<1>8. LoopInv'
  <2> SUFFICES ASSUME NEW o \in Conn PROVE LoopAt(o)'
    BY DEF LoopInv
  <2>1. CASE o = c
    BY <1>1, <1>7, <2>1 DEF LoopAt
  <2>2. CASE o # c
    BY <1>1, <2>2 DEF TypeInv, TypeOK, LoopInv, LoopAt, Inserts, Replaces, Deletes
  <2> QED BY <2>1, <2>2
<1> QED BY <1>6, <1>8 DEF TypeInv

-----------------------------------------------------------------------------
(* Index metadata. *)

LEMMA ReadCollectionIDType ==
  ASSUME TypeInv, NEW c \in Conn, ReadCollectionID(c)
  PROVE  TypeInv'
<1> DEFINE id == catalog[Stmt(c).ns].id
<1>1. Stmt(c).ns \in Namespace
  BY AtType, StatementFields DEF ReadCollectionID, At, Stmt, TypeInv, OnNamespace
<1>2. id \in Nat
  BY <1>1 DEF TypeInv, TypeOK, CatalogRow
<1>3. local' \in [Conn -> Local] /\ cmd' = cmd /\ tx' = tx
  BY <1>2 DEF TypeInv, TypeOK, Local, ReadCollectionID
<1>4. cmd[c].kind \in {"createIndexes", "listIndexes"}
  BY DEF ReadCollectionID
<1>5. cmd[c] \in Command /\ cmd[c] # Idle
  BY <1>4, SendableType DEF TypeInv, TypeOK, Idle
<1>6. CASE cmd[c].kind = "createIndexes"
  <2>1. pending' = [pending EXCEPT ![c] = {1} \X (DOMAIN cmd[c].names)] /\ Advance(c)
    BY <1>6 DEF ReadCollectionID
  <2>2. DOMAIN cmd[c].names \subseteq Nat
    BY <1>5, <1>6, CommandFields, LenProperties
  <2>3. pending' \in [Conn -> SUBSET (Nat \X Nat)]
    BY <2>1, <2>2 DEF TypeInv, TypeOK
  <2>4. todo' \in [Conn -> Seq(Statement)]
    BY <2>1, AdvanceType DEF ReadCollectionID, At, TypeInv
  <2>5. TypeOK'
    BY <1>3, <2>3, <2>4 DEF TypeInv, TypeOK, ReadCollectionID, clients, database
  <2>6. LoopInv'
    <3> SUFFICES ASSUME NEW o \in Conn PROVE LoopAt(o)'
      BY DEF LoopInv
    <3>1. CASE o = c
      BY <1>3, <1>5, <1>6, <2>1, <3>1
         DEF TypeInv, TypeOK, LoopAt, Inserts, Replaces, Deletes
    <3>2. CASE o # c
      BY <1>3, <2>1, <3>2 DEF ReadCollectionID, TypeInv, TypeOK, LoopInv, LoopAt,
                              Inserts, Replaces, Deletes
    <3> QED BY <3>1, <3>2
  <2> QED BY <2>5, <2>6 DEF TypeInv
<1>7. CASE cmd[c].kind = "listIndexes"
  <2>1. Goto(c, << On("selectIndexes", cmd[c].ns) >>) /\ pending' = pending
    BY <1>7 DEF ReadCollectionID
  <2>2. cmd[c].ns \in Namespace
    BY <1>5, <1>7, CommandFields
  <2>3. todo' \in [Conn -> Seq(Statement)]
    BY <2>1, <2>2, OnType, GotoType DEF TypeInv, OnNamespace
  <2>4. [local[c] EXCEPT !.cid = id] \in Local
    BY <1>2 DEF TypeInv, TypeOK, Local
  <2>5. local' = [local EXCEPT ![c] = [local[c] EXCEPT !.cid = id]]
    BY DEF ReadCollectionID
  <2> QED BY <1>3, <2>1, <2>3, <2>4, <2>5, LocalStep DEF ReadCollectionID, At
<1> QED BY <1>4, <1>6, <1>7

LEMMA NoCollectionIDType ==
  ASSUME TypeInv, NEW c \in Conn, NoCollectionID(c)
  PROVE  TypeInv'
<1>1. CASE Fail(c)
  BY <1>1, FailType
<1>2. CASE ~Fail(c)
  <2>1. todo' \in [Conn -> Seq(Statement)]
    BY <1>2, AdvanceType DEF NoCollectionID, At, TypeInv
  <2>2. [local[c] EXCEPT !.count = 1] \in Local
    BY DEF TypeInv, TypeOK, Local
  <2>3. local' = [local EXCEPT ![c] = [local[c] EXCEPT !.count = 1]]
    BY <1>2 DEF NoCollectionID
  <2> QED BY <1>2, <2>1, <2>2, <2>3, LocalStep DEF NoCollectionID, At
<1> QED BY <1>1, <1>2

\* One write of the loop of c is done.
LEMMA PendingStep ==
  ASSUME TypeInv, NEW c \in Conn, NEW w, pending' = [pending EXCEPT ![c] = @ \ {w}],
         tx' \in [Conn -> SUBSET Doc],
         \A o \in Conn : cmd[o] = Idle => tx'[o] = tx[o],
         UNCHANGED << cmd, local >>
  PROVE  pending' \in [Conn -> SUBSET (Nat \X Nat)] /\ LoopInv'
<1>1. \A o \in Conn : pending'[o] \subseteq pending[o]
  BY DEF TypeInv, TypeOK
<1>2. LoopInv'
  BY <1>1 DEF TypeInv, TypeOK, LoopInv, LoopAt, Inserts, Replaces, Deletes
<1> QED BY <1>2 DEF TypeInv, TypeOK

LEMMA InsertIndexType ==
  ASSUME TypeInv, NEW c \in Conn, InsertIndex(c)
  PROVE  TypeInv'
<1>1. PICK w \in pending[c] :
        /\ cmd[c].kind = "createIndexes"
        /\ indexes' = {x \in indexes : x.cid # local[c].cid \/ x.name # cmd[c].names[w[2]]}
                        \cup {[cid |-> local[c].cid, name |-> cmd[c].names[w[2]],
                               asked |-> cmd[c].ns]}
        /\ pending' = [pending EXCEPT ![c] = @ \ {w}]
        /\ UNCHANGED << tables, rows, catalog, issued, cmd, todo, tx, local, clients >>
  BY DEF InsertIndex
<1>2. cmd[c] \in Command
  BY <1>1, SendableType DEF TypeInv, TypeOK, Idle
<1>3. cmd[c].ns \in Namespace /\ cmd[c].names \in Seq(IndexName)
  BY <1>1, <1>2, CommandFields
<1>4. w[2] \in DOMAIN cmd[c].names
  BY <1>1 DEF TypeInv, LoopInv, LoopAt
<1>5. cmd[c].names[w[2]] \in IndexName
  BY <1>3, <1>4, ElementOfSeq, LenProperties
<1>6. indexes' \subseteq [cid : Nat, name : IndexName, asked : Namespace]
  BY <1>1, <1>3, <1>5 DEF TypeInv, TypeOK, Local
<1>7. pending' \in [Conn -> SUBSET (Nat \X Nat)] /\ LoopInv'
  BY <1>1, PendingStep DEF TypeInv, TypeOK
<1>8. TypeOK'
  BY <1>1, <1>6, <1>7 DEF TypeInv, TypeOK, clients
<1> QED BY <1>7, <1>8 DEF TypeInv

LEMMA SelectIndexesType ==
  ASSUME TypeInv, NEW c \in Conn, SelectIndexes(c)
  PROVE  TypeInv'
<1> DEFINE S == {i \in IndexName : \E x \in indexes : x.cid = local[c].cid /\ x.name = i}
<1>1. todo' \in [Conn -> Seq(Statement)]
  BY AdvanceType DEF SelectIndexes, At, TypeInv
<1>2. 1 + Cardinality(S) \in Nat
  <2>1. Cardinality(S) \in Nat
    BY FiniteAssumption, FS_Subset, FS_CardinalityType
  <2> QED BY <2>1
<1>3. [local[c] EXCEPT !.count = 1 + Cardinality(S)] \in Local
  BY <1>2 DEF TypeInv, TypeOK, Local
<1>4. local' = [local EXCEPT ![c] = [local[c] EXCEPT !.count = 1 + Cardinality(S)]]
  BY DEF SelectIndexes
<1> QED BY <1>1, <1>3, <1>4, LocalStep DEF SelectIndexes, At

-----------------------------------------------------------------------------
(* Insert. *)

LEMMA ReadValidatorType ==
  ASSUME TypeInv, NEW c \in Conn, ReadValidator(c)
  PROVE  TypeInv'
<1> DEFINE read == catalog[Stmt(c).ns].validator
           found == local[c].found
<1>1. Stmt(c).ns \in Namespace
  BY AtType, StatementFields DEF ReadValidator, At, Stmt, TypeInv, OnNamespace
<1>2. read \in SUBSET Doc
  BY <1>1 DEF TypeInv, TypeOK, CatalogRow
<1>3. found \in Seq(Doc) /\ Len(found) \in Nat /\ DOMAIN found = 1..Len(found)
  BY LenProperties DEF TypeInv, TypeOK, Local
<1>4. todo' \in [Conn -> Seq(Statement)]
  BY AdvanceType DEF ReadValidator, At, TypeInv
<1>5. /\ local' = [local EXCEPT ![c].opts = read, ![c].count = Len(found)]
      /\ pending' = [pending EXCEPT ![c] = {1} \X (DOMAIN found)]
      /\ Inserts(cmd[c]) /\ pending[c] = {}
      /\ UNCHANGED << database, cmd, tx, clients >>
  BY DEF ReadValidator, At
<1>6. pending' \in [Conn -> SUBSET (Nat \X Nat)]
  BY <1>3, <1>5 DEF TypeInv, TypeOK
<1>7. local' \in [Conn -> Local] /\ \A o \in Conn : local'[o].found = local[o].found
  <2> DEFINE next == [local[c] EXCEPT !.opts = read, !.count = Len(found)]
  <2>1. local \in [Conn -> Local]
    BY DEF TypeInv, TypeOK
  <2>2. next \in Local /\ next.found = local[c].found
    BY <1>2, <1>3, <2>1 DEF Local
  <2>3. local' = [local EXCEPT ![c] = next]
    BY <1>5, <2>1
  <2> HIDE DEF next
  <2> QED BY <2>1, <2>2, <2>3
<1>8. TypeOK'
  BY <1>4, <1>5, <1>6, <1>7 DEF TypeInv, TypeOK, clients, database
<1>9. LoopInv'
  <2> SUFFICES ASSUME NEW o \in Conn PROVE LoopAt(o)'
    BY DEF LoopInv
  <2>1. CASE o = c
    BY <1>5, <1>7, <2>1, IdleLoop
       DEF TypeInv, TypeOK, LoopAt, Inserts, Replaces, Deletes
  <2>2. CASE o # c
    BY <1>5, <1>7, <2>2 DEF TypeInv, TypeOK, LoopInv, LoopAt, Inserts, Replaces, Deletes
  <2> QED BY <2>1, <2>2
<1> QED BY <1>8, <1>9 DEF TypeInv

LEMMA InsertDocumentType ==
  ASSUME TypeInv, NEW c \in Conn, InsertDocument(c)
  PROVE  TypeInv'
<1>1. PICK w \in pending[c] :
        /\ Inserts(cmd[c])
        /\ tx' = [tx EXCEPT ![c] = @ \cup {local[c].found[w[2]]}]
        /\ pending' = [pending EXCEPT ![c] = @ \ {w}]
        /\ UNCHANGED << database, cmd, todo, local, clients >>
  BY DEF InsertDocument
<1>2. local[c].found[w[2]] \in Doc
  <2>1. local[c].found \in Seq(Doc) /\ w[2] \in DOMAIN local[c].found
    BY <1>1 DEF TypeInv, TypeOK, Local, LoopInv, LoopAt
  <2> QED BY <2>1, ElementOfSeq, LenProperties
<1>3. tx' \in [Conn -> SUBSET Doc]
  BY <1>1, <1>2 DEF TypeInv, TypeOK
<1>4. \A o \in Conn : cmd[o] = Idle => tx'[o] = tx[o]
  BY <1>1, IdleLoop DEF TypeInv, TypeOK
<1>5. pending' \in [Conn -> SUBSET (Nat \X Nat)] /\ LoopInv'
  BY <1>1, <1>3, <1>4, PendingStep
<1>6. TypeOK'
  BY <1>1, <1>3, <1>5 DEF TypeInv, TypeOK, clients, database
<1> QED BY <1>5, <1>6 DEF TypeInv

\* The collection a command writes documents to has a table.
LEMMA TargetTableType ==
  ASSUME TypeOK, NEW c \in Conn,
         Inserts(cmd[c]) \/ Replaces(cmd[c]) \/ Deletes(cmd[c])
  PROVE  cmd[c] \in Command /\ TargetTable(c) \in Table
<1>1. cmd[c] \in Command
  BY SendableType, IdleLoop DEF TypeOK
<1>2. Target(cmd[c]) \in Namespace
  BY <1>1, CommandFields DEF Target, Inserts, Replaces, Deletes
<1> QED BY <1>1, <1>2, TableOfType DEF TargetTable

LEMMA CommitType ==
  ASSUME TypeInv, NEW c \in Conn, Commit(c)
  PROVE  TypeInv'
<1>1. todo' \in [Conn -> Seq(Statement)]
  BY AdvanceType DEF Commit, At, TypeInv
<1>2. rows' \in [Table -> SUBSET Doc] /\ tx' \in [Conn -> SUBSET Doc]
  BY DEF Commit, TypeInv, TypeOK
<1>3. TypeOK'
  BY <1>1, <1>2 DEF TypeInv, TypeOK, Commit, clients
<1>4. LoopInv'
  BY DEF TypeInv, TypeOK, LoopInv, LoopAt, Commit, At, Inserts, Replaces, Deletes
<1> QED BY <1>3, <1>4 DEF TypeInv

-----------------------------------------------------------------------------
(* Reads. *)

LEMMA ResultsType ==
  ASSUME TypeOK, NEW c \in Conn, NEW use, Selects(c, use), NEW docs \in Results(c)
  PROVE  docs \in Seq(Doc)
<1> DEFINE S == rows[TableOf[Stmt(c).ns]] \cap Stmt(c).filter
<1>1. Stmt(c).ns \in Namespace /\ Stmt(c).limit \in Nat
  BY AtType, StatementFields DEF Selects, At, Stmt
<1>2. S \subseteq Doc
  BY <1>1, TableOfType DEF TypeOK
<1>3. IsFiniteSet(S)
  BY <1>2, FiniteAssumption, FS_Subset
<1>4. PICK scan \in Orderings(S) : docs = Limited(scan, Stmt(c).limit)
  BY DEF Results
<1>5. scan \in Seq(Doc)
  <2>1. scan \in Seq(S)
    BY <1>3, OrderingsType
  <2> QED BY <1>2, <2>1, SeqMonotonic
<1> QED BY <1>1, <1>4, <1>5, LimitedType

\* A select outside of any loop that keeps what it read.
LEMMA SelectStep ==
  ASSUME TypeInv, NEW c \in Conn, NEW new \in Local, NEW use, Selects(c, use),
         local' = [local EXCEPT ![c] = new],
         todo' \in [Conn -> Seq(Statement)],
         UNCHANGED << database, cmd, pending, tx, clients >>
  PROVE  TypeInv'
BY LocalStep DEF Selects, At

LEMMA RangeType ==
  ASSUME NEW docs \in Seq(Doc)
  PROVE  Range(docs) \in SUBSET Doc /\ Len(docs) \in Nat
<1>1. Len(docs) \in Nat /\ docs \in [1..Len(docs) -> Doc]
  BY LenProperties, SeqDef
<1> QED BY <1>1 DEF Range

LEMMA SelectForReplyType ==
  ASSUME TypeInv, NEW c \in Conn, SelectForReply(c)
  PROVE  TypeInv'
<1>1. PICK docs \in Results(c) :
        local' = [local EXCEPT ![c].found = docs, ![c].count = Len(docs)]
  BY DEF SelectForReply
<1>2. docs \in Seq(Doc) /\ Len(docs) \in Nat
  BY ResultsType, LenProperties DEF SelectForReply, TypeInv
<1>3. todo' \in [Conn -> Seq(Statement)]
  BY AdvanceType DEF SelectForReply, Selects, At, TypeInv
<1> DEFINE new == [local[c] EXCEPT !.found = docs, !.count = Len(docs)]
<1>4. new \in Local /\ local' = [local EXCEPT ![c] = new]
  BY <1>1, <1>2 DEF TypeInv, TypeOK, Local
<1> QED BY <1>3, <1>4, SelectStep DEF SelectForReply

LEMMA SelectBeforeType ==
  ASSUME TypeInv, NEW c \in Conn, SelectBefore(c)
  PROVE  TypeInv'
<1>1. PICK docs \in Results(c) :
        /\ local' = [local EXCEPT ![c].count = Len(docs), ![c].value = Range(docs)]
        /\ Goto(c, AfterBefore(cmd[c], docs))
  BY DEF SelectBefore
<1>2. docs \in Seq(Doc) /\ Len(docs) \in Nat /\ Range(docs) \in SUBSET Doc
  BY ResultsType, RangeType DEF SelectBefore, TypeInv
<1>3. cmd[c] \in Command
  BY SendableType DEF SelectBefore, TypeInv, TypeOK, Idle
<1>4. AfterBefore(cmd[c], docs) \in Seq(Statement)
  BY <1>3, AfterBeforeType DEF SelectBefore
<1>5. todo' \in [Conn -> Seq(Statement)]
  BY <1>1, <1>4, GotoType DEF TypeInv
<1> DEFINE new == [local[c] EXCEPT !.count = Len(docs), !.value = Range(docs)]
<1>6. new \in Local /\ local' = [local EXCEPT ![c] = new]
  BY <1>1, <1>2 DEF TypeInv, TypeOK, Local
<1> QED BY <1>5, <1>6, SelectStep DEF SelectBefore

LEMMA SelectAfterType ==
  ASSUME TypeInv, NEW c \in Conn, SelectAfter(c)
  PROVE  TypeInv'
<1>1. PICK docs \in Results(c) :
        local' = [local EXCEPT ![c].value = IF docs = <<>> THEN @ ELSE Range(docs)]
  BY DEF SelectAfter
<1>2. Range(docs) \in SUBSET Doc
  BY ResultsType, RangeType DEF SelectAfter, TypeInv
<1>3. todo' \in [Conn -> Seq(Statement)]
  BY AdvanceType DEF SelectAfter, Selects, At, TypeInv
<1> DEFINE new == [local[c] EXCEPT !.value = IF docs = <<>> THEN @ ELSE Range(docs)]
<1>4. new \in Local /\ local' = [local EXCEPT ![c] = new]
  BY <1>1, <1>2 DEF TypeInv, TypeOK, Local
<1> QED BY <1>3, <1>4, SelectStep DEF SelectAfter

LEMMA SelectForRenameType ==
  ASSUME TypeInv, NEW c \in Conn, SelectForRename(c)
  PROVE  TypeInv'
<1>1. PICK docs \in Results(c) :
        /\ local' = [local EXCEPT ![c].found = docs]
        /\ Goto(c, AfterRead(cmd[c], docs))
  BY DEF SelectForRename
<1>2. docs \in Seq(Doc)
  BY ResultsType DEF SelectForRename, TypeInv
<1>3. cmd[c] \in Command
  BY SendableType DEF SelectForRename, TypeInv, TypeOK, Idle
<1>4. AfterRead(cmd[c], docs) \in Seq(Statement)
  BY <1>3, AfterReadType DEF SelectForRename
<1>5. todo' \in [Conn -> Seq(Statement)]
  BY <1>1, <1>4, GotoType DEF TypeInv
<1> DEFINE new == [local[c] EXCEPT !.found = docs]
<1>6. new \in Local /\ local' = [local EXCEPT ![c] = new]
  BY <1>1, <1>2 DEF TypeInv, TypeOK, Local
<1> QED BY <1>5, <1>6, SelectStep DEF SelectForRename

-----------------------------------------------------------------------------
(* The loops of Update and Delete. *)

LEMMA StartLoopType ==
  ASSUME TypeInv, NEW c \in Conn, NEW use, Selects(c, use),
         NEW docs \in Seq(Doc), NEW writes \in SUBSET (Nat \X Nat),
         Cardinality(writes) \in Nat, StartLoop(c, docs, writes),
         ~Inserts(cmd[c]), cmd[c] # Idle, cmd[c].kind # "createIndexes",
         Deletes(cmd[c]) => \A w \in writes : w[2] \in DOMAIN docs,
         Replaces(cmd[c]) => \A w \in writes : /\ w[1] \in DOMAIN cmd[c].updates
                                               /\ w[2] \in 0..Len(docs)
  PROVE  TypeInv'
<1> DEFINE n == IF cmd[c].kind = "findAndModify" THEN local[c].count
                ELSE Cardinality(writes)
           new == [local[c] EXCEPT !.found = docs, !.count = n]
<1>1. new \in Local /\ local' = [local EXCEPT ![c] = new]
  BY DEF TypeInv, TypeOK, Local, StartLoop
<1>2. new.found = docs
  BY DEF TypeInv, TypeOK, Local
<1>3. todo' \in [Conn -> Seq(Statement)]
  BY AdvanceType DEF StartLoop, Selects, At, TypeInv
<1>4. /\ pending' = [pending EXCEPT ![c] = writes]
      /\ UNCHANGED << database, cmd, tx, clients >>
  BY DEF StartLoop
<1> HIDE DEF new
<1>5. TypeOK'
  BY <1>1, <1>3, <1>4 DEF TypeInv, TypeOK, clients, database
<1>6. LoopInv'
  <2> SUFFICES ASSUME NEW o \in Conn PROVE LoopAt(o)'
    BY DEF LoopInv
  <2>1. CASE o = c
    BY <1>1, <1>2, <1>4, <2>1 DEF TypeInv, TypeOK, LoopAt, Inserts, Replaces, Deletes
  <2>2. CASE o # c
    BY <1>1, <1>4, <2>2 DEF TypeInv, TypeOK, LoopInv, LoopAt, Inserts, Replaces, Deletes
  <2> QED BY <2>1, <2>2
<1> QED BY <1>5, <1>6 DEF TypeInv

LEMMA SelectForUpdateType ==
  ASSUME TypeInv, NEW c \in Conn, SelectForUpdate(c)
  PROVE  TypeInv'
<1>1. PICK docs \in Results(c) : StartLoop(c, docs, UpdateWrites(cmd[c].updates, docs))
  BY DEF SelectForUpdate
<1> DEFINE writes == UpdateWrites(cmd[c].updates, docs)
<1>2. docs \in Seq(Doc)
  BY ResultsType DEF SelectForUpdate, TypeInv
<1>3. cmd[c] \in Command /\ cmd[c].kind \in {"update", "findAndModify"}
  BY TargetTableType DEF SelectForUpdate, TypeInv, Replaces
<1>4. cmd[c].updates \in Seq(UpdateModel)
  BY <1>3, CommandFields
<1>5. /\ writes \subseteq (1..Len(cmd[c].updates)) \X (0..Len(docs))
      /\ writes \in SUBSET (Nat \X Nat)
      /\ Cardinality(writes) \in Nat
  BY <1>2, <1>4, UpdateWritesType
<1>6. \A w \in writes : w[1] \in DOMAIN cmd[c].updates /\ w[2] \in 0..Len(docs)
  BY <1>4, <1>5, LenProperties
<1>7. ~Inserts(cmd[c]) /\ ~Deletes(cmd[c]) /\ cmd[c] # Idle
      /\ cmd[c].kind # "createIndexes"
  BY <1>3 DEF SelectForUpdate, Inserts, Deletes, Replaces, Idle
<1> QED BY <1>1, <1>2, <1>5, <1>6, <1>7, StartLoopType DEF SelectForUpdate

LEMMA SelectForDeleteType ==
  ASSUME TypeInv, NEW c \in Conn, SelectForDelete(c)
  PROVE  TypeInv'
<1>1. PICK docs \in Results(c) : StartLoop(c, docs, DeleteWrites(DeletesOf(cmd[c]), docs))
  BY DEF SelectForDelete
<1> DEFINE writes == DeleteWrites(DeletesOf(cmd[c]), docs)
<1>2. docs \in Seq(Doc) /\ DOMAIN docs = 1..Len(docs)
  BY ResultsType, LenProperties DEF SelectForDelete, TypeInv
<1>3. cmd[c] \in Command /\ cmd[c].kind \in {"delete", "findAndModify"}
  BY TargetTableType DEF SelectForDelete, TypeInv, Deletes
<1>4. PICK n \in Nat : DOMAIN DeletesOf(cmd[c]) = 1..n
  BY <1>3, DeletesOfType
<1>5. /\ writes \subseteq (1..n) \X (1..Len(docs))
      /\ writes \in SUBSET (Nat \X Nat)
      /\ Cardinality(writes) \in Nat
  BY <1>2, <1>4, DeleteWritesType
<1>6. \A w \in writes : w[2] \in DOMAIN docs
  BY <1>2, <1>5
<1>7. ~Inserts(cmd[c]) /\ ~Replaces(cmd[c]) /\ cmd[c] # Idle
      /\ cmd[c].kind # "createIndexes"
  BY <1>3 DEF SelectForDelete, Inserts, Deletes, Replaces, Idle
<1> QED BY <1>1, <1>2, <1>5, <1>6, <1>7, StartLoopType DEF SelectForDelete

\* A write of a loop stores documents.
LEMMA NewVersionType ==
  ASSUME TypeInv, NEW c \in Conn, NEW w \in pending[c], Replaces(cmd[c])
  PROVE  NewVersion(c, w) \in SUBSET Doc
<1> DEFINE model == cmd[c].updates[w[1]]
<1>1. cmd[c] \in Command /\ cmd[c].kind \in {"update", "findAndModify"}
  BY TargetTableType DEF TypeInv, Replaces
<1>2. cmd[c].updates \in Seq(UpdateModel)
  BY <1>1, CommandFields
<1>3. w[1] \in DOMAIN cmd[c].updates /\ w[2] \in 0..Len(local[c].found)
  BY DEF TypeInv, LoopInv, LoopAt
<1>4. model \in UpdateModel
  BY <1>2, <1>3, ElementOfSeq, LenProperties
<1>5. local[c].found \in Seq(Doc)
  BY DEF TypeInv, TypeOK, Local
<1>6. CASE w[2] = 0
  BY <1>4, <1>6 DEF NewVersion, UpdateModel
<1>7. CASE w[2] # 0
  <2>1. w[2] \in 1..Len(local[c].found)
    BY <1>3, <1>5, <1>7, LenProperties
  <2>2. local[c].found[w[2]] \in Doc
    BY <1>5, <2>1, ElementOfSeq
  <2> QED BY <1>4, <1>7, <2>2 DEF NewVersion, UpdateModel
<1> QED BY <1>6, <1>7

LEMMA ReplaceDocumentType ==
  ASSUME TypeInv, NEW c \in Conn, ReplaceDocument(c)
  PROVE  TypeInv'
<1>1. PICK w \in pending[c] :
        /\ Replaces(cmd[c])
        /\ \E new \in NewVersion(c, w) :
             rows' = [rows EXCEPT ![TargetTable(c)] = Replaced(@, new)]
        /\ pending' = [pending EXCEPT ![c] = @ \ {w}]
        /\ UNCHANGED << tables, catalog, issued, indexes, cmd, todo, tx, local, clients >>
  BY DEF ReplaceDocument
<1>2. PICK new \in NewVersion(c, w) :
        rows' = [rows EXCEPT ![TargetTable(c)] = Replaced(@, new)]
  BY <1>1
<1>3. new \in Doc /\ TargetTable(c) \in Table
  BY <1>1, NewVersionType, TargetTableType DEF TypeInv
<1>4. rows' \in [Table -> SUBSET Doc]
  BY <1>2, <1>3 DEF Replaced, TypeInv, TypeOK
<1>5. pending' \in [Conn -> SUBSET (Nat \X Nat)] /\ LoopInv'
  BY <1>1, PendingStep DEF TypeInv, TypeOK
<1>6. TypeOK'
  BY <1>1, <1>4, <1>5 DEF TypeInv, TypeOK, clients
<1> QED BY <1>5, <1>6 DEF TypeInv

LEMMA DeleteDocumentType ==
  ASSUME TypeInv, NEW c \in Conn, DeleteDocument(c)
  PROVE  TypeInv'
<1>1. PICK w \in pending[c] :
        /\ rows' = [rows EXCEPT ![TargetTable(c)] =
                      {d \in @ : d.id # local[c].found[w[2]].id}]
        /\ pending' = [pending EXCEPT ![c] = @ \ {w}]
        /\ UNCHANGED << tables, catalog, issued, indexes, cmd, todo, tx, local, clients >>
  BY DEF DeleteDocument
<1>2. rows' \in [Table -> SUBSET Doc]
  BY <1>1 DEF TypeInv, TypeOK
<1>3. pending' \in [Conn -> SUBSET (Nat \X Nat)] /\ LoopInv'
  BY <1>1, PendingStep DEF TypeInv, TypeOK
<1>4. TypeOK'
  BY <1>1, <1>2, <1>3 DEF TypeInv, TypeOK, clients
<1> QED BY <1>3, <1>4 DEF TypeInv

-----------------------------------------------------------------------------
(* Type correctness. *)

LEMMA InitType == Init => TypeInv
<1> SUFFICES ASSUME Init PROVE TypeInv
  OBVIOUS
<1>1. DOMAIN Loaded \subseteq Namespace /\ IsFiniteSet(DOMAIN Loaded)
  BY LoadedAssumption, FiniteAssumption, FS_Subset
<1>2. /\ issued \in Seq(DOMAIN Loaded) /\ DOMAIN issued = 1..Len(issued)
      /\ \A n \in DOMAIN Loaded : \E i \in DOMAIN issued : issued[i] = n
  BY <1>1, OrderingsType DEF Init
<1>3. issued \in Seq(Namespace)
  BY <1>1, <1>2, SeqMonotonic
<1>4. \A n \in DOMAIN Loaded : (CHOOSE i \in DOMAIN issued : issued[i] = n) \in Nat
  <2> SUFFICES ASSUME NEW n \in DOMAIN Loaded
               PROVE  (CHOOSE i \in DOMAIN issued : issued[i] = n) \in DOMAIN issued
    BY <1>2, LenProperties
  <2> QED BY <1>2
<1>5. catalog \in [Namespace -> CatalogRow]
  BY <1>4, NoRowType DEF Init, CatalogRow, AnyDoc
<1>6. tables \subseteq Table
  BY <1>1, TableOfType DEF Init
<1>7. rows \in [Table -> SUBSET Doc]
  BY LoadedAssumption DEF Init
<1>8. Blank \in Local
  BY EmptySeq DEF Blank, Local, AnyDoc
<1>9. reply \in [Conn -> Reply]
  BY DEF Init, Reply
<1>10. unsent \in [Conn -> SUBSET Sendable]
  BY MenusAssumption DEF Init, Sendable
<1>11. todo \in [Conn -> Seq(Statement)]
  BY EmptySeq DEF Init
<1>12. TypeOK
  <2>1. /\ indexes = {} /\ acked = {} /\ faults = 0
        /\ cmd \in [Conn -> Sendable \cup {Idle}]
        /\ pending \in [Conn -> SUBSET (Nat \X Nat)]
        /\ tx \in [Conn -> SUBSET Doc]
        /\ local \in [Conn -> Local]
    BY <1>8 DEF Init
  <2> QED BY <1>3, <1>5, <1>6, <1>7, <1>9, <1>10, <1>11, <2>1, FaultsAssumption DEF TypeOK
<1>13. LoopInv
  BY DEF Init, LoopInv, LoopAt
<1> QED BY <1>12, <1>13 DEF TypeInv

LEMMA StutterType ==
  ASSUME TypeInv, UNCHANGED vars
  PROVE  TypeInv'
<1>1. TypeOK'
  BY DEF TypeInv, TypeOK, vars
<1>2. LoopInv'
  BY LoopUnchanged DEF TypeInv, vars
<1> QED BY <1>1, <1>2 DEF TypeInv

LEMMA NextType ==
  ASSUME TypeInv, [Next]_vars
  PROVE  TypeInv'
<1>1. CASE UNCHANGED vars
  BY <1>1, StutterType
<1>2. CASE Done
  BY <1>2, StutterType DEF Done
<1>3. ASSUME NEW c \in Conn, Issue(c) PROVE TypeInv'
  BY <1>3, IssueType
<1>4. ASSUME NEW c \in Conn, Abort(c) PROVE TypeInv'
  BY <1>4, AbortType
<1>5. ASSUME NEW c \in Conn, CatalogStep(c) PROVE TypeInv'
  BY <1>5, EnsureTableType, ReadOptionsType, UpsertRowType, DropTableType, DeleteRowType,
     ShowTablesType, DeleteRowsType, SelectCollectionsType DEF CatalogStep
<1>6. ASSUME NEW c \in Conn, IndexStep(c) PROVE TypeInv'
  BY <1>6, ReadCollectionIDType, NoCollectionIDType, InsertIndexType, SelectIndexesType
     DEF IndexStep
<1>7. ASSUME NEW c \in Conn, InsertStep(c) PROVE TypeInv'
  BY <1>7, ReadValidatorType, InsertDocumentType, CommitType, FailType
     DEF InsertStep, RefuseDocument, DeadlockVictim
<1>8. ASSUME NEW c \in Conn, ReadStep(c) PROVE TypeInv'
  BY <1>8, SelectForReplyType, SelectBeforeType, SelectAfterType, SelectForRenameType,
     SelectForUpdateType, SelectForDeleteType DEF ReadStep
<1>9. ASSUME NEW c \in Conn, WriteStep(c) PROVE TypeInv'
  BY <1>9, ReplaceDocumentType, DeleteDocumentType, FailType
     DEF WriteStep, FailUpdate, TableMissing
<1>10. ASSUME NEW c \in Conn, Answer(c) PROVE TypeInv'
  BY <1>10, AnswerType
<1> QED BY <1>1, <1>2, <1>3, <1>4, <1>5, <1>6, <1>7, <1>8, <1>9, <1>10 DEF Next, Step

LEMMA TypeInvariant == Spec => []TypeInv
<1>1. TypeInv /\ [Next]_vars => TypeInv'
  BY NextType
<1> QED BY <1>1, InitType, PTL DEF Spec

\* Every variable keeps its type, whatever clients send and whatever fails.
THEOREM TypeCorrect == Spec => []TypeOK
<1>1. TypeInv => TypeOK
  BY DEF TypeInv
<1> QED BY <1>1, TypeInvariant, PTL
=============================================================================
