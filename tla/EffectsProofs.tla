----------------------------- MODULE EffectsProofs -----------------------------
(***************************************************************************)
(* What a command has done to the documents when it is answered, what is   *)
(* registered where documents are stored, and what validators they obey.   *)
(***************************************************************************)
EXTENDS TablesProofs, ProgramsProofs

(* Only the commands that may take documents from a table do so. *)

LEMMA TablesGrow ==
  ASSUME TypeInv, FitsInv, [Next]_vars, NEW t \in Table, t \notin Clobbered
  PROVE  rows[t] \subseteq rows'[t]
<1>1. CASE rows' = rows
  BY <1>1
<1>2. ASSUME NEW c \in Conn, WritesRows(c) PROVE rows[t] \subseteq rows'[t]
  <2>1. cmd[c] # Idle => cmd[c] \in Sendable /\ t \notin Clobbers(cmd[c])
    BY DEF TypeInv, TypeOK, Clobbered
  <2>2. CASE DropTable(c)
    <3>1. todo[c] # <<>> /\ Stmt(c).op = "dropTable"
      BY <2>2 DEF DropTable, At, Stmt
    <3>2. cmd[c] # Idle /\ todo[c] \in Seq(Fitting(cmd[c]))
      BY <3>1 DEF FitsInv, FitsAt
    <3>3. Stmt(c) \in Fitting(cmd[c])
      BY <3>1, <3>2, HeadTailProperties DEF Stmt
    <3>4. Stmt(c).table # t
      BY <2>1, <3>1, <3>2, <3>3 DEF Fitting, Clobbers
    <3> QED BY <2>2, <3>4 DEF DropTable, TypeInv, TypeOK
  <2>3. CASE Commit(c)
    BY <2>3 DEF Commit, TypeInv, TypeOK
  <2>4. CASE ReplaceDocument(c) \/ DeleteDocument(c)
    <3>1. Replaces(cmd[c]) \/ Deletes(cmd[c])
      BY <2>4 DEF ReplaceDocument, DeleteDocument
    <3>2. cmd[c] # Idle /\ cmd[c].kind # "renameCollection"
      BY <3>1 DEF Replaces, Deletes, Idle
    <3>3. TargetTable(c) # t
      BY <2>1, <3>1, <3>2 DEF TargetTable, Target, Clobbers
    <3> QED BY <2>4, <3>3 DEF ReplaceDocument, DeleteDocument, TypeInv, TypeOK
  <2> QED BY <1>2, <2>2, <2>3, <2>4 DEF WritesRows
<1> QED BY <1>1, <1>2, OthersKeepRows DEF Next, Done, vars

-----------------------------------------------------------------------------
(* Collections with proper names. *)

\* The command whose statement changes the documents of a table names a
\* collection of this table, or drops a database whose pattern selects it.
WritesTo(m, t) ==
  IF m.kind = "dropDatabase" THEN m.db \in Database /\ LikeDatabase(t, m.db)
  ELSE \E k \in {m.ns, Target(m)} : k \in Namespace /\ TableOf[k] = t

LEMMA RowsNamed ==
  ASSUME TypeInv, FitsInv, NEW c \in Conn, WritesRows(c), NEW t \in Table, rows'[t] # rows[t]
  PROVE  cmd[c] \in Command /\ WritesTo(cmd[c], t)
<1>1. cmd[c] # Idle => cmd[c] \in Command
  BY SendableType DEF TypeInv, TypeOK
<1>2. CASE DropTable(c)
  <2>1. todo[c] # <<>> /\ Stmt(c).op = "dropTable"
    BY <1>2 DEF DropTable, At, Stmt
  <2>2. cmd[c] # Idle /\ todo[c] \in Seq(Fitting(cmd[c]))
    BY <2>1 DEF FitsInv, FitsAt
  <2>3. Stmt(c) \in Fitting(cmd[c])
    BY <2>1, <2>2, HeadTailProperties DEF Stmt
  <2>4. Stmt(c).table \in Droppable(cmd[c])
    BY <2>1, <2>2, <2>3 DEF Fitting
  <2>5. Stmt(c).table = t
    BY <1>2 DEF DropTable, TypeInv, TypeOK
  <2> QED BY <1>1, <2>2, <2>4, <2>5, CommandFields DEF Droppable, WritesTo, Target
<1>3. CASE Commit(c)
  <2>1. cmd[c] # Idle /\ cmd[c].kind \in {"insert", "renameCollection"}
    BY <1>3 DEF Commit, Inserts, Idle
  <2>2. TargetTable(c) = t
    BY <1>3 DEF Commit, TypeInv, TypeOK
  <2> QED BY <1>1, <2>1, <2>2, CommandFields DEF WritesTo, TargetTable, Target
<1>4. CASE ReplaceDocument(c) \/ DeleteDocument(c)
  <2>1. cmd[c] # Idle /\ cmd[c].kind \in {"update", "delete", "findAndModify"}
    BY <1>4 DEF ReplaceDocument, DeleteDocument, Replaces, Deletes, Idle
  <2>2. TargetTable(c) = t
    BY <1>4 DEF ReplaceDocument, DeleteDocument, TypeInv, TypeOK
  <2> QED BY <1>1, <2>1, <2>2, CommandFields DEF WritesTo, TargetTable, Target
<1> QED BY <1>2, <1>3, <1>4 DEF WritesRows

LEMMA NamedIsAbout ==
  ASSUME NEW m \in Command, NEW n \in Namespace, Proper(n.db, n.coll), WritesTo(m, TableOf[n])
  PROVE  About(m, n)
<1>1. CASE m.kind = "dropDatabase"
  BY <1>1, DropsPrefixed DEF WritesTo, About
<1>2. CASE m.kind # "dropDatabase"
  <2>1. PICK k \in {m.ns, Target(m)} : k \in Namespace /\ TableOf[k] = TableOf[n]
    BY <1>2 DEF WritesTo
  <2>2. k = n \/ ~Proper(k.db, k.coll)
    BY <2>1, ProperNamesApart
  <2> QED BY <1>2, <2>1, <2>2 DEF About
<1> QED BY <1>1, <1>2

\* The statement that writes is one step of the command's program or loop.
LEMMA WritersMove ==
  ASSUME TypeInv, NEW c \in Conn, WritesRows(c)
  PROVE  << todo[c], pending[c] >>' # << todo[c], pending[c] >>
<1>1. CASE DropTable(c) \/ Commit(c)
  <2>1. todo[c] \in Seq(Statement) /\ todo[c] # <<>>
    BY <1>1 DEF DropTable, Commit, At, TypeInv, TypeOK
  <2>2. todo'[c] = Tail(todo[c])
    BY <1>1 DEF DropTable, Commit, Advance, Goto, TypeInv, TypeOK
  <2>3. Len(Tail(todo[c])) = Len(todo[c]) - 1 /\ Len(todo[c]) \in Nat
    BY <2>1, HeadTailProperties, LenProperties
  <2>4. Len(Tail(todo[c])) # Len(todo[c])
    BY <2>3
  <2>5. Tail(todo[c]) # todo[c]
    BY <2>4, Zenon
  <2> QED BY <2>2, <2>5, Zenon
<1>2. CASE ReplaceDocument(c) \/ DeleteDocument(c)
  <2>1. PICK w \in pending[c] : pending' = [pending EXCEPT ![c] = @ \ {w}]
    BY <1>2 DEF ReplaceDocument, DeleteDocument
  <2>2. w \notin pending'[c]
    BY <2>1 DEF TypeInv, TypeOK
  <2> QED BY <2>1, <2>2
<1> QED BY <1>1, <1>2 DEF WritesRows

\* The documents of a collection with a proper name change only by commands about
\* it, whatever other collections and databases are called (schema.go:13-27,
\* store.go:447-479).
THEOREM CollectionsAreApart == Spec => CollectionsStayApart
<1>1. ASSUME TypeInv, FitsInv, [Next]_vars, NEW n \in Namespace, Proper(n.db, n.coll),
             rows'[TableOf[n]] # rows[TableOf[n]]
      PROVE  \E c \in Conn : /\ << todo[c], pending[c] >>' # << todo[c], pending[c] >>
                            /\ About(cmd[c], n)
  <2>1. PICK c \in Conn : WritesRows(c)
    BY <1>1, OthersKeepRows DEF Next, Done, vars
  <2>2. TableOf[n] \in Table
    BY TableOfType
  <2>3. cmd[c] \in Command /\ WritesTo(cmd[c], TableOf[n])
    BY <1>1, <2>1, <2>2, RowsNamed
  <2> QED BY <1>1, <2>1, <2>3, NamedIsAbout, WritersMove
<1>2. TypeInv /\ FitsInv /\ [Next]_vars =>
        [\A n \in Namespace :
           Proper(n.db, n.coll) /\ rows'[TableOf[n]] # rows[TableOf[n]] =>
             \E c \in Conn : /\ << todo[c], pending[c] >>' # << todo[c], pending[c] >>
                            /\ About(cmd[c], n)]_vars
  BY <1>1
<1> QED BY <1>2, ProgramsInvariant, PTL DEF Spec, CollectionsStayApart

-----------------------------------------------------------------------------
(* Batches. *)

\* An insert whose COMMIT is done has stored its batch.
StoredAt(c) ==
  cmd[c].kind = "insert" /\ todo[c] = <<>> /\ TableOf[cmd[c].ns] \notin Clobbered
    => Range(cmd[c].docs) \subseteq rows[TableOf[cmd[c].ns]]

StoredInv == AckedBatchStored /\ \A c \in Conn : StoredAt(c)

LEMMA InsertTable ==
  ASSUME NEW m \in Sendable, m.kind = "insert"
  PROVE  TableOf[m.ns] \in Table /\ m.docs \in Seq(Doc) /\ m # Idle
BY SendableType, CommandFields, TableOfType DEF Idle

\* Batches that are stored stay so.
LEMMA BatchesStay ==
  ASSUME TypeInv, FitsInv, [Next]_vars, NEW m \in Sendable, m.kind = "insert",
         TableOf[m.ns] \notin Clobbered, Range(m.docs) \subseteq rows[TableOf[m.ns]]
  PROVE  Range(m.docs) \subseteq rows'[TableOf[m.ns]]
BY InsertTable, TablesGrow

\* The last statement of an insert stores the batch.
LEMMA CommitStores ==
  ASSUME TypeInv, ShapeInv, FitsInv, NEW c \in Conn, StoredAt(c), Step(c), [Next]_vars,
         ~Fail(c), ~Answer(c)
  PROVE  StoredAt(c)'
<1> SUFFICES ASSUME cmd[c].kind = "insert", todo'[c] = <<>>,
                    TableOf[cmd[c].ns] \notin Clobbered
             PROVE  Range(cmd[c].docs) \subseteq rows'[TableOf[cmd[c].ns]]
  BY CommandKept DEF StoredAt
<1>1. cmd[c] \in Sendable
  BY DEF TypeInv, TypeOK, Idle
<1>2. InsertAt(c) /\ Commit(c) /\ todo[c] = Committing
  BY InsertMoves DEF ShapeInv, ShapeAt
<1>3. pending[c] = {} /\ Committing # <<>>
  BY <1>2 DEF Commit, At, Committing
<1>4. Committing \notin Preparing(cmd[c].ns)
  <2>1. Head(Committing).op = "commit"
    BY DEF Committing
  <2> QED BY <2>1, PreparingSteps
<1>5. tx[c] = {cmd[c].docs[i] : i \in Inserted(c)}
  BY <1>2, <1>3, <1>4 DEF InsertAt
<1>6. Range(cmd[c].docs) = tx[c]
  BY <1>3, <1>5 DEF Inserted, Range
<1>7. TargetTable(c) = TableOf[cmd[c].ns] /\ TargetTable(c) \in Table
  BY <1>1, InsertTable DEF TargetTable, Target
<1> QED BY <1>2, <1>6, <1>7 DEF Commit, TypeInv, TypeOK

LEMMA NextStored ==
  ASSUME TypeInv, FitsInv, ShapeInv, StoredInv, [Next]_vars
  PROVE  StoredInv'
<1>1. \A m \in acked : m.kind = "insert" /\ TableOf[m.ns] \notin Clobbered
        => Range(m.docs) \subseteq rows'[TableOf[m.ns]]
  BY BatchesStay DEF StoredInv, AckedBatchStored, TypeInv, TypeOK
<1>2. ASSUME NEW o \in Conn, cmd'[o] = cmd[o], todo'[o] = todo[o] PROVE StoredAt(o)'
  <2>1. cmd[o].kind = "insert" => cmd[o] \in Sendable
    BY DEF TypeInv, TypeOK, Idle
  <2> QED BY <1>2, <2>1, BatchesStay DEF StoredInv, StoredAt
<1>3. ASSUME NEW c \in Conn, KeepsOthers(c), acked' = acked, StoredAt(c)'
      PROVE  StoredInv'
  BY <1>1, <1>2, <1>3 DEF KeepsOthers, StoredInv, AckedBatchStored
<1>4. CASE UNCHANGED vars \/ Done
  BY <1>1, <1>2, <1>4 DEF vars, Done, StoredInv, AckedBatchStored
<1>5. ASSUME NEW c \in Conn, Issue(c) PROVE StoredInv'
  <2>1. KeepsOthers(c) /\ acked' = acked
    BY <1>5, OthersKept DEF TypeInv, Issue
  <2>2. PICK m \in unsent[c] : todo'[c] = Program(m)
    BY <1>5 DEF Issue, Goto, TypeInv, TypeOK
  <2>3. todo'[c] # <<>>
    BY <2>2, SendableType, ProgramFits DEF TypeInv, TypeOK
  <2> QED BY <1>3, <2>1, <2>3 DEF StoredAt
<1>6. ASSUME NEW c \in Conn, Abort(c) \/ Fail(c) PROVE StoredInv'
  <2>1. KeepsOthers(c) /\ acked' = acked /\ cmd'[c] = Idle
    BY <1>6, EndKeepsOthers DEF TypeInv, Abort, Fail
  <2> QED BY <1>3, <2>1 DEF StoredAt, Idle
<1>7. ASSUME NEW c \in Conn, Answer(c) PROVE StoredInv'
  <2>1. /\ KeepsOthers(c) /\ cmd'[c] = Idle
        /\ acked' = acked \cup {cmd[c]} /\ rows' = rows /\ todo[c] = <<>>
    BY <1>7, EndKeepsOthers DEF TypeInv, Answer, database
  <2>2. AckedBatchStored'
    BY <2>1 DEF AckedBatchStored, StoredInv, StoredAt
  <2>3. StoredAt(c)'
    BY <2>1 DEF StoredAt, Idle
  <2> QED BY <1>2, <2>1, <2>2, <2>3 DEF KeepsOthers, StoredInv
<1>8. ASSUME NEW c \in Conn, Step(c), ~Fail(c), ~Answer(c) PROVE StoredInv'
  <2>1. KeepsOthers(c)
    BY <1>8, OthersKept DEF TypeInv
  <2>2. acked' = acked
    BY <1>8, CommandKept DEF clients
  <2>3. StoredAt(c)'
    BY <1>8, CommitStores DEF StoredInv
  <2> QED BY <1>3, <2>1, <2>2, <2>3
<1> QED BY <1>4, <1>5, <1>6, <1>7, <1>8 DEF Next

LEMMA InitStored == Init => StoredInv
BY DEF Init, StoredInv, AckedBatchStored, StoredAt, Idle

\* A batch that was acknowledged is in its collection ever after, whatever else
\* clients insert, create, read or index, whatever fails, and however the batch
\* is sent again, as long as nobody replaces, deletes or drops (store.go:126-173).
THEOREM BatchesAreStored == Spec => []AckedBatchStored
<1>1. TypeInv /\ FitsInv /\ ShapeInv /\ StoredInv /\ [Next]_vars => StoredInv'
  BY NextStored
<1>2. StoredInv => AckedBatchStored
  BY DEF StoredInv
<1> QED BY <1>1, <1>2, InitStored, ProgramsInvariant, PTL DEF Spec
-----------------------------------------------------------------------------
(* How far a command has come: it has a suffix of a program left. *)

SuffixOf(s, p) == Len(s) <= Len(p) /\ \A i \in 1..Len(s) : s[i] = p[Len(p) - Len(s) + i]

LEMMA OneLeft ==
  ASSUME NEW s \in Seq(Statement), s # <<>>
  PROVE  Tail(s) = <<>> <=> Len(s) = 1
<1>1. PICK t \in Seq(Statement) : t = Tail(s) /\ Len(t) = Len(s) - 1
  BY HeadTailProperties
<1>2. Len(s) \in Nat /\ Len(t) \in Nat
  BY LenProperties
<1>3. t = <<>> => Len(t) = 0
  BY EmptySeq
<1>4. t # <<>> => Len(t) # 0
  BY EmptySeq
<1> QED BY <1>1, <1>2, <1>3, <1>4

LEMMA SuffixTail ==
  ASSUME NEW p \in Seq(Statement), NEW s \in Seq(Statement), s # <<>>, SuffixOf(s, p)
  PROVE  /\ Len(s) \in 1..Len(p) /\ Head(s) = p[Len(p) - Len(s) + 1]
         /\ Len(Tail(s)) = Len(s) - 1 /\ SuffixOf(Tail(s), p)
<1>1. Len(p) \in Nat /\ Len(s) \in Nat \ {0}
  BY LenProperties, EmptySeq
<1>2. /\ Len(Tail(s)) = Len(s) - 1
      /\ \A i \in 1..Len(Tail(s)) : Tail(s)[i] = s[i + 1]
  BY HeadTailProperties
<1>3. Head(s) = s[1]
  OBVIOUS
<1>4. \A i \in 1..Len(Tail(s)) : Tail(s)[i] = p[Len(p) - Len(Tail(s)) + i]
  <2> SUFFICES ASSUME NEW i \in 1..Len(Tail(s))
               PROVE  Tail(s)[i] = p[Len(p) - Len(Tail(s)) + i]
    OBVIOUS
  <2>1. i + 1 \in 1..Len(s) /\ Len(p) - Len(s) + (i + 1) = Len(p) - Len(Tail(s)) + i
    BY <1>1, <1>2
  <2> QED BY <1>2, <2>1 DEF SuffixOf
<1>5. Len(s) \in 1..Len(p) /\ 1 \in 1..Len(s)
  BY <1>1 DEF SuffixOf
<1>6. s[1] = p[Len(p) - Len(s) + 1]
  BY <1>5 DEF SuffixOf
<1>7. Len(Tail(s)) <= Len(p)
  BY <1>1, <1>2, <1>5
<1>8. SuffixOf(Tail(s), p)
  BY <1>4, <1>7, Zenon DEF SuffixOf
<1> QED BY <1>2, <1>3, <1>5, <1>6, <1>8

LEMMA SuffixSelf ==
  ASSUME NEW S, NEW p \in Seq(S)
  PROVE  SuffixOf(p, p)
BY LenProperties DEF SuffixOf

-----------------------------------------------------------------------------
(* The program of a rename, once its find returned docs. *)

QuietOps == {"ensureTable", "readOptions", "upsertRow", "deleteRow"}

RenamePlan(m, docs, p) ==
  LET n == Len(p)
  IN  /\ p \in Seq(Statement) /\ n \in Nat /\ n >= 5
      /\ p[n - 1] = DropTableOf(TableOf[m.ns]) /\ p[n].op = "deleteRow"
      /\ \A i \in 1..(n - 2) :
           \/ /\ p[i].op \in QuietOps
              /\ m.dropTarget => i # 1
              /\ docs # <<>> => i < n - 3
           \/ i = 1 /\ m.dropTarget /\ p[i] = DropTableOf(TableOf[m.to])
           \/ i = n - 3 /\ docs # <<>> /\ p[i].op = "readValidator"
           \/ i = n - 2 /\ docs # <<>> /\ p[i].op = "commit"

LEMMA RenameIsPlanned ==
  ASSUME NEW m \in Command, m.kind = "renameCollection", NEW docs
  PROVE  RenamePlan(m, docs, AfterRead(m, docs))
<1> DEFINE clear == IF m.dropTarget THEN DropCollection(m.to) ELSE <<>>
           make == CreateCollection(m.to, AnyDoc)
           copy == IF docs = <<>> THEN <<>> ELSE Insert(m.to)
           leave == DropCollection(m.ns)
           p == ((clear \o make) \o copy) \o leave
           a == IF m.dropTarget THEN 2 ELSE 0
           e == IF docs = <<>> THEN 0 ELSE 5
<1>1. m.ns \in Namespace /\ m.to \in Namespace
  BY CommandFields
<1>2. AfterRead(m, docs) = p
  BY DEF AfterRead
<1>3. /\ clear \in Seq(Statement) /\ Len(clear) = a
      /\ m.dropTarget => clear[1] = DropTableOf(TableOf[m.to]) /\ clear[2].op = "deleteRow"
  <2>1. << >> \in Seq(Statement) /\ Len(<< >>) = 0
    BY EmptySeq
  <2>2. CASE m.dropTarget
    <3> DEFINE T == DropTableOf(TableOf[m.to])
               R == On("deleteRow", m.to)
    <3>1. clear = << T, R >> /\ R.op = "deleteRow"
      BY <2>2 DEF DropCollection, On
    <3>2. clear \in Seq(Statement)
      BY <1>1, <2>2, DropCollectionType
    <3> HIDE DEF clear, T, R
    <3>3. Len(clear) = 2 /\ clear[1] = T /\ clear[2] = R
      BY <3>1
    <3> QED BY <2>2, <3>1, <3>2, <3>3 DEF T
  <2> QED BY <2>1, <2>2
<1>4. /\ make \in Seq(Statement) /\ Len(make) = 3
      /\ \A i \in 1..3 : make[i].op \in QuietOps
  <2>1. make \in Seq(Statement)
    BY <1>1, CreateCollectionType DEF AnyDoc
  <2>2. Len(make) = 3 /\ make[1].op = "ensureTable" /\ make[2].op = "readOptions"
        /\ make[3].op = "upsertRow"
    <3> DEFINE E == EnsureCollection(m.to)
               O == On("readOptions", m.to)
               U == UpsertRowOf(m.to)
    <3>1. make = << E, O, U >>
      BY DEF CreateCollection, UpsertRowOf
    <3>2. E.op = "ensureTable" /\ O.op = "readOptions" /\ U.op = "upsertRow"
      BY DEF EnsureCollection, On, UpsertRowOf
    <3> HIDE DEF make, E, O, U
    <3> QED BY <3>1, <3>2
  <2> HIDE DEF make
  <2> QED BY <2>1, <2>2 DEF QuietOps
<1>5. /\ copy \in Seq(Statement) /\ Len(copy) = e
      /\ docs # <<>> => /\ \A i \in 1..3 : copy[i].op \in QuietOps
                        /\ copy[4].op = "readValidator" /\ copy[5].op = "commit"
  <2>1. << >> \in Seq(Statement) /\ Len(<< >>) = 0
    BY EmptySeq
  <2>2. CASE docs # <<>>
    <3> DEFINE E == EnsureCollection(m.to)
               O == On("readOptions", m.to)
               U == UpsertRowOf(m.to)
               V == ReadValidatorOf(m.to)
               C == [op |-> "commit"]
    <3>1. copy = << E, O, U, V, C >>
      BY <1>1, <2>2, InsertIs
    <3>2. /\ E.op = "ensureTable" /\ O.op = "readOptions" /\ U.op = "upsertRow"
          /\ V.op = "readValidator" /\ C.op = "commit"
      BY DEF EnsureCollection, On, UpsertRowOf, ReadValidatorOf
    <3>3. copy \in Seq(Statement)
      BY <1>1, <2>1, InsertType
    <3> HIDE DEF copy, E, O, U, V, C
    <3>4. Len(copy) = 5 /\ copy[1] = E /\ copy[2] = O /\ copy[3] = U /\ copy[4] = V
          /\ copy[5] = C
      BY <3>1
    <3>5. \A i \in 1..3 : copy[i].op \in QuietOps
      <4> SUFFICES ASSUME NEW i \in 1..3 PROVE copy[i].op \in QuietOps
        OBVIOUS
      <4>1. i = 1 \/ i = 2 \/ i = 3
        OBVIOUS
      <4> QED BY <3>2, <3>4, <4>1 DEF QuietOps
    <3> QED BY <2>2, <3>2, <3>3, <3>4, <3>5
  <2> QED BY <2>1, <2>2
<1>6. /\ leave \in Seq(Statement) /\ Len(leave) = 2
      /\ leave[1] = DropTableOf(TableOf[m.ns]) /\ leave[2].op = "deleteRow"
  BY <1>1, DropCollectionType DEF DropCollection, On
<1> HIDE DEF clear, make, copy, leave
<1>7. a \in {0, 2} /\ (m.dropTarget <=> a = 2) /\ e \in {0, 5} /\ (docs # <<>> <=> e = 5)
  OBVIOUS
<1> HIDE DEF a, e
<1> DEFINE n == a + 3 + e + 2
<1>8. a \in Nat /\ e \in Nat
  BY <1>7
<1>9. /\ p \in Seq(Statement) /\ Len(p) = n
      /\ \A i \in 1..n :
           p[i] = IF i <= a THEN clear[i]
                  ELSE IF i <= a + 3 THEN make[i - a]
                  ELSE IF i <= a + 3 + e THEN copy[i - (a + 3)]
                  ELSE leave[i - (a + 3 + e)]
  <2> DEFINE begun == clear \o make
             front == begun \o copy
  <2>1. /\ begun \in Seq(Statement) /\ Len(begun) = a + 3
        /\ \A i \in 1..(a + 3) : i <= a => begun[i] = clear[i]
        /\ \A i \in 1..(a + 3) : a < i => begun[i] = make[i - a]
    <3>1. begun = clear \o make /\ a \in Nat /\ 3 \in Nat
      BY <1>8
    <3> HIDE DEF begun, n
    <3>2. clear \in Seq(Statement) /\ make \in Seq(Statement)
      BY <1>3, <1>4
    <3>3. /\ begun \in Seq(Statement) /\ Len(begun) = Len(clear) + Len(make)
          /\ \A i \in 1..(Len(clear) + Len(make)) :
               begun[i] = IF i <= Len(clear) THEN clear[i] ELSE make[i - Len(clear)]
      BY <3>1, <3>2, Concatenated
    <3> QED BY <1>3, <1>4, <3>1, <3>3
  <2> HIDE DEF begun
  <2>2. /\ front \in Seq(Statement) /\ Len(front) = (a + 3) + e
        /\ \A i \in 1..((a + 3) + e) : i <= (a + 3) => front[i] = begun[i]
        /\ \A i \in 1..((a + 3) + e) : (a + 3) < i => front[i] = copy[i - (a + 3)]
    <3>1. front = begun \o copy /\ (a + 3) \in Nat /\ e \in Nat
      BY <1>8
    <3> HIDE DEF front, n
    <3>2. begun \in Seq(Statement) /\ copy \in Seq(Statement)
      BY <2>1, <1>5
    <3>3. /\ front \in Seq(Statement) /\ Len(front) = Len(begun) + Len(copy)
          /\ \A i \in 1..(Len(begun) + Len(copy)) :
               front[i] = IF i <= Len(begun) THEN begun[i] ELSE copy[i - Len(begun)]
      BY <3>1, <3>2, Concatenated
    <3> QED BY <2>1, <1>5, <3>1, <3>3
  <2> HIDE DEF front
  <2>3. /\ p \in Seq(Statement) /\ Len(p) = (a + 3 + e) + 2
        /\ \A i \in 1..((a + 3 + e) + 2) : i <= (a + 3 + e) => p[i] = front[i]
        /\ \A i \in 1..((a + 3 + e) + 2) : (a + 3 + e) < i => p[i] = leave[i - (a + 3 + e)]
    <3>1. p = front \o leave
      BY DEF front, begun
    <3>2. p = front \o leave /\ (a + 3 + e) \in Nat
      BY <1>8, <3>1
    <3> HIDE DEF p, n
    <3>3. front \in Seq(Statement) /\ leave \in Seq(Statement)
      BY <2>2, <1>6
    <3>4. /\ p \in Seq(Statement) /\ Len(p) = Len(front) + Len(leave)
          /\ \A i \in 1..(Len(front) + Len(leave)) :
               p[i] = IF i <= Len(front) THEN front[i] ELSE leave[i - Len(front)]
      BY <3>2, <3>3, Concatenated
    <3> QED BY <2>2, <1>6, <3>2, <3>4
  <2> HIDE DEF p
  <2>4. \A i \in 1..n :
          p[i] = IF i <= a THEN clear[i]
                 ELSE IF i <= a + 3 THEN make[i - a]
                 ELSE IF i <= a + 3 + e THEN copy[i - (a + 3)]
                 ELSE leave[i - (a + 3 + e)]
    <3> SUFFICES ASSUME NEW i \in 1..n
                 PROVE  p[i] = IF i <= a THEN clear[i]
                               ELSE IF i <= a + 3 THEN make[i - a]
                               ELSE IF i <= a + 3 + e THEN copy[i - (a + 3)]
                               ELSE leave[i - (a + 3 + e)]
      OBVIOUS
    <3>1. CASE i > a + 3 + e
      BY <1>8, <2>3, <3>1
    <3>2. CASE i <= a + 3 + e
      <4>1. p[i] = front[i]
        BY <1>8, <2>3, <3>2
      <4>2. CASE i > a + 3
        BY <1>8, <2>2, <3>2, <4>1, <4>2
      <4>3. CASE i <= a + 3
        BY <1>8, <2>1, <2>2, <4>1, <4>3
      <4> QED BY <1>8, <4>2, <4>3
    <3> QED BY <1>8, <3>1, <3>2
  <2> QED BY <1>8, <2>3, <2>4
<1> HIDE DEF p
<1>10. p[n - 1] = DropTableOf(TableOf[m.ns]) /\ p[n].op = "deleteRow"
  <2>1. n - 1 \in 1..n /\ n \in 1..n
    BY <1>7
  <2>2. p[n - 1] = leave[1] /\ p[n] = leave[2]
    BY <1>7, <1>9, <2>1
  <2> QED BY <1>6, <2>2
<1>11. ASSUME NEW i \in 1..(n - 2)
       PROVE  \/ /\ p[i].op \in QuietOps
                 /\ m.dropTarget => i # 1
                 /\ docs # <<>> => i < n - 3
              \/ i = 1 /\ m.dropTarget /\ p[i] = DropTableOf(TableOf[m.to])
              \/ i = n - 3 /\ docs # <<>> /\ p[i].op = "readValidator"
              \/ i = n - 2 /\ docs # <<>> /\ p[i].op = "commit"
  <2> i \in 1..n
    BY <1>8
  <2>1. CASE i <= a
    <3>1. p[i] = clear[i]
      BY <1>9, <2>1
    <3>2. m.dropTarget /\ i \in {1, 2} /\ i < n - 3
      BY <1>7, <2>1
    <3>3. CASE i = 1
      BY <1>3, <3>1, <3>2, <3>3
    <3>4. CASE i = 2
      BY <1>3, <3>1, <3>2, <3>4 DEF QuietOps
    <3> QED BY <3>2, <3>3, <3>4
  <2>2. CASE a < i /\ i <= a + 3
    <3>1. p[i] = make[i - a]
      BY <1>7, <1>9, <2>2
    <3>2. i - a \in 1..3 /\ (docs # <<>> => i < n - 3) /\ (m.dropTarget => i # 1)
      BY <1>7, <2>2
    <3> QED BY <1>4, <3>1, <3>2
  <2>3. CASE a + 3 < i
    <3>1. docs # <<>> /\ e = 5 /\ i - (a + 3) \in 1..5 /\ i <= a + 3 + e
      BY <1>7, <2>3
    <3>2. p[i] = copy[i - (a + 3)]
      BY <1>7, <1>9, <2>3, <3>1
    <3>3. CASE i - (a + 3) \in 1..3
      <4>1. i < n - 3 /\ i # 1
        BY <1>7, <2>3, <3>1, <3>3
      <4> QED BY <1>5, <3>1, <3>2, <3>3, <4>1
    <3>4. CASE i - (a + 3) = 4
      BY <1>5, <1>7, <3>1, <3>2, <3>4
    <3>5. CASE i - (a + 3) = 5
      BY <1>5, <1>7, <3>1, <3>2, <3>5
    <3> QED BY <1>7, <3>1, <3>3, <3>4, <3>5
  <2> QED BY <1>7, <2>1, <2>2, <2>3
<1>12. n \in Nat /\ n >= 5
  BY <1>8
<1> HIDE DEF n
<1> QED BY <1>2, <1>9, <1>10, <1>11, <1>12 DEF RenamePlan

-----------------------------------------------------------------------------
(* Renames. *)

\* The commands the client of o may send.
Sends(o) == UNION {menu[o] : menu \in Menus}
SentInv == \A o \in Conn : unsent[o] \subseteq Sends(o) /\ cmd[o] \in Sends(o) \cup {Idle}

\* The find of a rename, and the way to it.
ReadOf(m) ==
  [op |-> "select", ns |-> m.ns, filter |-> AnyDoc, limit |-> 0, use |-> "rename"]
Reading(c) ==
  /\ todo[c] \in { << EnsureCollection(cmd[c].ns), ReadOf(cmd[c]) >>, << ReadOf(cmd[c]) >> }
  /\ pending[c] = {} /\ tx[c] = {}

\* The transaction of the copy: only the commit of the copy and the drop of the
\* source are left behind it.
CopyOf(docs, left, writes, held) ==
  IF docs # <<>> /\ left = 3
  THEN /\ \A w \in writes : w[1] = 1
       /\ held = {docs[i] : i \in {j \in DOMAIN docs : << 1, j >> \notin writes}}
  ELSE writes = {} /\ held = {}

\* Where the documents docs are when so many statements of the plan are left.
Moved(m, docs, left, r) ==
  LET source == r[TableOf[m.ns]]
      target == r[TableOf[m.to]]
  IN  /\ left >= 2 => source = Range(docs)
      /\ left <= 1 => source = {}
      /\ left <= 2 => Range(docs) \subseteq target
      /\ m.dropTarget /\ left < Len(AfterRead(m, docs)) =>
           target = IF left <= 2 THEN Range(docs) ELSE {}

Copying(c) ==
  /\ SuffixOf(todo[c], AfterRead(cmd[c], local[c].found))
  /\ CopyOf(local[c].found, Len(todo[c]), pending[c], tx[c])
  /\ RenamesAlone(c) => Moved(cmd[c], local[c].found, Len(todo[c]), rows)

RenameAt(c) == cmd[c].kind = "renameCollection" => Reading(c) \/ Copying(c)
RenameInv == \A c \in Conn : RenameAt(c)

LEMMA QuietStep ==
  ASSUME TypeInv, NEW c \in Conn, EnsureTable(c) \/ ReadOptions(c) \/ UpsertRow(c) \/ DeleteRow(c)
  PROVE  /\ UNCHANGED << rows, cmd, pending, tx >>
         /\ local'[c].found = local[c].found /\ todo'[c] = Tail(todo[c])
BY DEF EnsureTable, ReadOptions, UpsertRow, DeleteRow, Advance, Goto, database, TypeInv,
       TypeOK, Local

\* A quiet statement is another one by none of its effects.
LEMMA QuietStatement ==
  ASSUME NEW c \in Conn, Step(c), ~Fail(c), pending[c] = {}, todo[c] # <<>>,
         Stmt(c).op \in QuietOps
  PROVE  EnsureTable(c) \/ ReadOptions(c) \/ UpsertRow(c) \/ DeleteRow(c)
BY NextStatement DEF QuietOps

LEMMA RenameTables ==
  ASSUME TypeInv, NEW c \in Conn, cmd[c].kind = "renameCollection"
  PROVE  /\ cmd[c] \in Command /\ cmd[c] # Idle
         /\ TableOf[cmd[c].ns] \in Table /\ TableOf[cmd[c].to] \in Table
         /\ TargetTable(c) = TableOf[cmd[c].to]
         /\ cmd[c].ns \in Namespace /\ cmd[c].to \in Namespace
         /\ Inserts(cmd[c]) /\ ~Replaces(cmd[c]) /\ ~Deletes(cmd[c])
<1>1. cmd[c] \in Command /\ cmd[c] # Idle
  BY SendableType DEF TypeInv, TypeOK, Idle
<1>2. cmd[c].ns \in Namespace /\ cmd[c].to \in Namespace
  BY <1>1, CommandFields
<1> QED BY <1>1, <1>2, TableOfType
        DEF TargetTable, Target, Inserts, Replaces, Deletes

\* The source's documents stay in it or are in the target already.
NothingLost(c) ==
  rows[TableOf[cmd[c].ns]] \subseteq rows'[TableOf[cmd[c].ns]] \cup rows'[TableOf[cmd[c].to]]

\* What a find returns.
LEMMA FoundBy ==
  ASSUME NEW c \in Conn, NEW ns, NEW filter, NEW limit, NEW use,
         Stmt(c) = [op |-> "select", ns |-> ns, filter |-> filter, limit |-> limit, use |-> use],
         NEW docs \in Results(c)
  PROVE  \E scan \in Orderings(rows[TableOf[ns]] \cap filter) : docs = Limited(scan, limit)
<1>1. Stmt(c).ns = ns /\ Stmt(c).filter = filter /\ Stmt(c).limit = limit
  OBVIOUS
<1> QED BY <1>1 DEF Results

\* The find of the rename.
LEMMA ReadMoves ==
  ASSUME TypeInv, NEW c \in Conn, Step(c), ~Fail(c), Reading(c),
         cmd[c].kind = "renameCollection"
  PROVE  rows' = rows /\ RenameAt(c)'
<1> DEFINE E == EnsureCollection(cmd[c].ns)
           R == ReadOf(cmd[c])
<1>1. E.op = "ensureTable" /\ R.op = "select" /\ R.use = "rename" /\ E # R
  BY DEF EnsureCollection, ReadOf
<1>2. CASE todo[c] = << E, R >>
  <2>1. todo[c] # <<>> /\ Stmt(c).op = "ensureTable" /\ Tail(todo[c]) = << R >>
    <3> HIDE DEF E, R
    <3> QED BY <1>1, <1>2 DEF Stmt
  <2>2. EnsureTable(c)
    BY <2>1, NextStatement DEF Reading
  <2>3. UNCHANGED << rows, cmd, pending, tx >> /\ todo'[c] = << R >>
    BY <2>1, <2>2, QuietStep
  <2>4. Reading(c)'
    BY <2>3 DEF Reading
  <2> QED BY <2>3, <2>4 DEF RenameAt
<1>3. CASE todo[c] = << R >>
  <2>1. todo[c] # <<>> /\ Stmt(c) = R
    <3> HIDE DEF R
    <3> QED BY <1>3 DEF Stmt
  <2>2. SelectForRename(c)
    <3>1. \/ SelectForReply(c) \/ SelectBefore(c) \/ SelectAfter(c) \/ SelectForRename(c)
          \/ SelectForUpdate(c) \/ SelectForDelete(c)
      BY <1>1, <2>1, NextStatement DEF Reading, ReadStep
    <3> QED BY <1>1, <2>1, <3>1
            DEF SelectForReply, SelectBefore, SelectAfter, SelectForUpdate, SelectForDelete,
                Selects
  <2>3. PICK docs \in Results(c) :
          /\ local' = [local EXCEPT ![c].found = docs]
          /\ todo' = [todo EXCEPT ![c] = AfterRead(cmd[c], docs)]
          /\ UNCHANGED << rows, cmd, pending, tx >>
    BY <2>2 DEF SelectForRename, Goto, database
  <2>4. rows[TableOf[cmd[c].ns]] \subseteq Doc
    BY RenameTables DEF TypeInv, TypeOK
  <2>5. Range(docs) = rows[TableOf[cmd[c].ns]]
    <3>1. docs \in Orderings(rows[TableOf[cmd[c].ns]])
      <4>1. rows[TableOf[cmd[c].ns]] \cap Doc = rows[TableOf[cmd[c].ns]]
        BY <2>4
      <4>2. PICK scan \in Orderings(rows[TableOf[cmd[c].ns]] \cap AnyDoc) :
              docs = Limited(scan, 0)
        <5>1. Stmt(c) = ReadOf(cmd[c])
          BY <2>1
        <5> HIDE DEF R
        <5> QED BY <5>1, FoundBy DEF ReadOf
      <4> QED BY <4>1, <4>2 DEF Limited, AnyDoc
    <3> QED BY <3>1 DEF Orderings, Range
  <2>6. local'[c].found = docs /\ todo'[c] = AfterRead(cmd[c], docs)
    BY <2>3 DEF TypeInv, TypeOK, Local
  <2>7. PICK p : p = AfterRead(cmd[c], docs)
    OBVIOUS
  <2>8. p \in Seq(Statement) /\ Len(p) \in Nat /\ Len(p) >= 5
    BY <2>7, RenameTables, RenameIsPlanned DEF RenamePlan
  <2>9. Copying(c)'
    <3>1. SuffixOf(p, p)
      BY <2>8, SuffixSelf
    <3>2. CopyOf(docs, Len(p), pending'[c], tx'[c])
      <4>1. pending[c] = {} /\ tx[c] = {}
        BY DEF Reading
      <4>2. UNCHANGED << pending, tx >>
        BY <2>3
      <4>3. pending'[c] = {} /\ tx'[c] = {}
        BY <4>1, <4>2
      <4>4. Len(p) # 3
        <5>1. PICK k \in Nat : k = Len(p) /\ k >= 5
          BY <2>8
        <5>2. k # 3
          BY <5>1
        <5> QED BY <5>1, <5>2
      <4> QED BY <4>3, <4>4 DEF CopyOf
    <3>3. Moved(cmd[c], docs, Len(p), rows)
      BY <2>5, <2>7, <2>8 DEF Moved
    <3> QED BY <2>3, <2>6, <2>7, <3>1, <3>2, <3>3 DEF Copying
  <2> QED BY <2>3, <2>9 DEF RenameAt
<1> QED BY <1>2, <1>3 DEF Reading

\* The last statements of the plan, and the documents at each of them.
LEMMA CopyMoves ==
  ASSUME TypeInv, NEW c \in Conn, Step(c), ~Fail(c), ~Answer(c), Copying(c),
         cmd[c].kind = "renameCollection"
  PROVE  RenameAt(c)' /\ (RenamesAlone(c) => NothingLost(c))
<1> DEFINE m == cmd[c]
           docs == local[c].found
           p == AfterRead(m, docs)
           n == Len(p)
           l == Len(todo[c])
           source == TableOf[m.ns]
           target == TableOf[m.to]
<1>1. RenamePlan(m, docs, p)
  BY RenameTables, RenameIsPlanned
<1>2. /\ p \in Seq(Statement) /\ n \in Nat /\ n >= 5
      /\ p[n - 1] = DropTableOf(source) /\ p[n].op = "deleteRow"
  BY <1>1 DEF RenamePlan
<1>3. todo[c] \in Seq(Statement) /\ l \in Nat /\ docs \in Seq(Doc)
  BY LenProperties DEF TypeInv, TypeOK, Local
<1>4. /\ m \in Command /\ source \in Table /\ target \in Table /\ TargetTable(c) = target
      /\ Inserts(m) /\ ~Replaces(m) /\ ~Deletes(m) /\ m.kind = "renameCollection"
  BY RenameTables
<1>5. cmd' = cmd
  BY CommandKept
<1>6. SuffixOf(todo[c], p) /\ CopyOf(docs, l, pending[c], tx[c])
  BY DEF Copying
<1>7. RenamesAlone(c) => source # target /\ Moved(m, docs, l, rows)
  BY DEF Copying, RenamesAlone
<1>8. RenamesAlone(c)' <=> RenamesAlone(c)
  BY <1>5 DEF RenamesAlone
<1>9. ASSUME local'[c].found = docs, CopyOf(docs, Len(todo'[c]), pending'[c], tx'[c]),
             SuffixOf(todo'[c], p),
             RenamesAlone(c) => Moved(m, docs, Len(todo'[c]), rows')
      PROVE  RenameAt(c)'
  BY <1>5, <1>8, <1>9 DEF RenameAt, Copying
<1>10. rows' = rows => NothingLost(c)
  BY DEF NothingLost
<1>11. CASE pending[c] # {}
  <2>1. InsertDocument(c)
    BY <1>4, <1>11, NextWrite
  <2>2. docs # <<>> /\ l = 3
    BY <1>6, <1>11 DEF CopyOf
  <2>3. PICK w \in pending[c] :
          /\ tx' = [tx EXCEPT ![c] = @ \cup {docs[w[2]]}]
          /\ pending' = [pending EXCEPT ![c] = @ \ {w}]
          /\ UNCHANGED << rows, todo, local >>
    BY <2>1 DEF InsertDocument, database
  <2>4. PICK k \in DOMAIN docs : w = << 1, k >>
    <3>1. w \in Nat \X Nat /\ w[1] = 1 /\ w[2] \in DOMAIN docs
      BY <1>4, <1>6, <2>2 DEF CopyOf, TypeInv, TypeOK, LoopInv, LoopAt
    <3> QED BY <3>1
  <2>5. tx'[c] = tx[c] \cup {docs[k]} /\ pending'[c] = pending[c] \ {w}
    BY <2>3, <2>4 DEF TypeInv, TypeOK
  <2>6. {j \in DOMAIN docs : << 1, j >> \notin pending'[c]}
          = {j \in DOMAIN docs : << 1, j >> \notin pending[c]} \cup {k}
    BY <2>4, <2>5
  <2>7. CopyOf(docs, 3, pending'[c], tx'[c])
    BY <1>6, <2>2, <2>5, <2>6 DEF CopyOf
  <2> QED BY <1>6, <1>7, <1>9, <1>10, <2>2, <2>3, <2>7 DEF Moved
<1>12. CASE pending[c] = {} /\ todo[c] = <<>>
  BY <1>12, NothingLeft
<1>13. CASE pending[c] = {} /\ todo[c] # <<>>
  <2> DEFINE i == n - l + 1
  <2>1. /\ l \in 1..n /\ Stmt(c) = p[i] /\ Len(Tail(todo[c])) = l - 1
        /\ SuffixOf(Tail(todo[c]), p)
    <3>1. PICK s \in Seq(Statement) : s = todo[c] /\ s # <<>> /\ SuffixOf(s, p)
      BY <1>3, <1>6, <1>13
    <3>2. PICK q \in Seq(Statement) : q = p
      BY <1>2
    <3>3. /\ Len(s) \in 1..Len(q) /\ Head(s) = q[Len(q) - Len(s) + 1]
          /\ Len(Tail(s)) = Len(s) - 1 /\ SuffixOf(Tail(s), q)
      BY <3>1, <3>2, SuffixTail
    <3> QED BY <3>1, <3>2, <3>3 DEF Stmt
  <2>2. i \in 1..n
    BY <1>2, <2>1
  <2>3. tx[c] = {} \/ (docs # <<>> /\ l = 3)
    BY <1>6 DEF CopyOf
  <2> HIDE DEF m, docs, p, n, l, source, target
  <2>4. ASSUME Stmt(c).op \in QuietOps, l = 3 => docs = <<>>, l = 4 => docs = <<>>, l # 2,
               l = n => ~m.dropTarget
        PROVE  RenameAt(c)' /\ (RenamesAlone(c) => NothingLost(c))
    <3>1. /\ UNCHANGED << rows, cmd, pending, tx >>
          /\ local'[c].found = docs /\ todo'[c] = Tail(todo[c])
      BY <1>13, <2>4, QuietStatement, QuietStep DEF docs
    <3>2. CopyOf(docs, l - 1, pending'[c], tx'[c])
      BY <1>13, <2>1, <2>3, <2>4, <3>1 DEF CopyOf
    <3>3. Range(<< >>) = {}
      BY DEF Range
    <3>4. RenamesAlone(c) => Moved(m, docs, l - 1, rows)
      <4>1. l = 1 \/ l = 3 \/ l > 3
        BY <1>2, <2>1, <2>4
      <4>2. n = Len(AfterRead(m, docs))
        BY DEF n, p
      <4>3. CASE l = 1
        BY <1>2, <1>7, <4>2, <4>3 DEF Moved
      <4>4. CASE l = 3
        <5>1. l - 1 = 2 /\ Range(docs) = {}
          BY <2>4, <3>3, <4>4
        <5>2. Moved(m, docs, 3, rows) => Moved(m, docs, 2, rows)
          BY <1>2, <4>2, <5>1 DEF Moved
        <5> QED BY <1>7, <4>4, <5>1, <5>2
      <4>5. CASE l > 3
        BY <1>2, <1>7, <2>1, <2>4, <3>3, <4>2, <4>5 DEF Moved
      <4> QED BY <4>1, <4>3, <4>4, <4>5
    <3> QED BY <1>9, <1>10, <2>1, <3>1, <3>2, <3>4
  <2>5. CASE l = 1
    <3>1. Stmt(c).op \in QuietOps
      BY <1>2, <2>1, <2>5 DEF QuietOps
    <3> QED BY <1>2, <2>4, <2>5, <3>1
  <2>6. CASE l = 2
    <3>1. Stmt(c) = DropTableOf(source)
      BY <1>2, <2>1, <2>6
    <3>2. Stmt(c).op = "dropTable" /\ Stmt(c).table = source
      BY <3>1 DEF DropTableOf
    <3>3. DropTable(c)
      BY <1>13, <3>2, NextStatement
    <3>4. /\ rows' = [rows EXCEPT ![source] = {}] /\ UNCHANGED << pending, tx, local >>
          /\ todo'[c] = Tail(todo[c])
      BY <3>2, <3>3 DEF DropTable, Advance, Goto, TypeInv, TypeOK
    <3>5. CopyOf(docs, l - 1, pending'[c], tx'[c])
      BY <1>13, <2>3, <2>6, <3>4 DEF CopyOf
    <3>6. ASSUME RenamesAlone(c)
          PROVE  Moved(m, docs, l - 1, rows') /\ NothingLost(c)
      <4>1. rows'[source] = {} /\ rows'[target] = rows[target]
        BY <1>4, <1>7, <3>4, <3>6 DEF TypeInv, TypeOK
      <4>2. rows[source] = Range(docs) /\ Range(docs) \subseteq rows[target]
        BY <1>7, <2>6, <3>6 DEF Moved, source, target
      <4>3. m.dropTarget => rows[target] = Range(docs)
        BY <1>2, <1>7, <2>6, <3>6 DEF Moved, source, target, n, p
      <4>4. Moved(m, docs, 1, rows')
        BY <4>1, <4>2, <4>3 DEF Moved, source, target
      <4>5. NothingLost(c)
        BY <4>1, <4>2 DEF NothingLost, source, target, m
      <4> QED BY <2>6, <4>4, <4>5
    <3> QED BY <1>9, <2>1, <3>4, <3>5, <3>6 DEF docs
  <2>7. CASE l >= 3
    <3>1. i \in 1..(n - 2)
      BY <1>2, <2>1, <2>7
    <3>2. \/ /\ p[i].op \in QuietOps
             /\ m.dropTarget => i # 1
             /\ docs # <<>> => i < n - 3
          \/ i = 1 /\ m.dropTarget /\ p[i] = DropTableOf(target)
          \/ i = n - 3 /\ docs # <<>> /\ p[i].op = "readValidator"
          \/ i = n - 2 /\ docs # <<>> /\ p[i].op = "commit"
      <4> HIDE DEF i
      <4> QED BY <1>1, <3>1 DEF RenamePlan, n, target
    <3>3. CASE p[i].op \in QuietOps /\ (m.dropTarget => i # 1) /\ (docs # <<>> => i < n - 3)
      <4>1. Stmt(c).op \in QuietOps
        BY <2>1, <3>3
      <4>2. (l = 3 => docs = <<>>) /\ (l = 4 => docs = <<>>) /\ l # 2
            /\ (l = n => ~m.dropTarget)
        BY <1>2, <2>1, <2>7, <3>3
      <4> QED BY <2>4, <4>1, <4>2
    <3>4. CASE i = 1 /\ m.dropTarget /\ p[i] = DropTableOf(target)
      <4>1. Stmt(c).op = "dropTable" /\ Stmt(c).table = target /\ l = n
        BY <1>2, <2>1, <3>4 DEF DropTableOf
      <4>2. DropTable(c)
        BY <1>13, <4>1, NextStatement
      <4>3. /\ rows' = [rows EXCEPT ![target] = {}] /\ UNCHANGED << pending, tx, local >>
            /\ todo'[c] = Tail(todo[c])
        BY <4>1, <4>2 DEF DropTable, Advance, Goto, TypeInv, TypeOK
      <4>4. CopyOf(docs, l - 1, pending'[c], tx'[c])
        BY <1>2, <1>13, <2>3, <4>1, <4>3 DEF CopyOf
      <4>5. ASSUME RenamesAlone(c)
            PROVE  Moved(m, docs, l - 1, rows') /\ NothingLost(c)
        <5>1. rows'[target] = {} /\ rows'[source] = rows[source]
          BY <1>4, <1>7, <4>3, <4>5 DEF TypeInv, TypeOK
        <5>2. rows[source] = Range(docs)
          BY <1>2, <1>7, <4>1, <4>5 DEF Moved, source
        <5>3. Moved(m, docs, l - 1, rows')
          BY <1>2, <4>1, <5>1, <5>2 DEF Moved, source, target
        <5>4. NothingLost(c)
          BY <5>1 DEF NothingLost, source, target, m
        <5> QED BY <5>3, <5>4
      <4> QED BY <1>9, <2>1, <4>3, <4>4, <4>5 DEF docs
    <3>5. CASE i = n - 3 /\ docs # <<>> /\ p[i].op = "readValidator"
      <4>1. Stmt(c).op = "readValidator" /\ l = 4
        BY <1>2, <2>1, <3>5
      <4>2. ReadValidator(c)
        BY <1>13, <4>1, NextStatement
      <4>3. /\ rows' = rows /\ tx' = tx /\ local'[c].found = docs
            /\ pending'[c] = {1} \X (DOMAIN docs) /\ todo'[c] = Tail(todo[c])
        BY <4>2 DEF ReadValidator, Advance, Goto, database, TypeInv, TypeOK, Local, docs
      <4>4. CopyOf(docs, 3, pending'[c], tx'[c])
        <5>1. tx'[c] = {}
          BY <2>3, <4>1, <4>3
        <5>2. {j \in DOMAIN docs : << 1, j >> \notin pending'[c]} = {}
          BY <4>3
        <5> QED BY <3>5, <4>3, <5>1, <5>2 DEF CopyOf
      <4>5. RenamesAlone(c) => Moved(m, docs, 3, rows)
        BY <1>2, <1>7, <4>1 DEF Moved, n, p
      <4>6. l - 1 = 3
        BY <4>1
      <4> QED BY <1>9, <1>10, <2>1, <4>3, <4>4, <4>5, <4>6
    <3>6. CASE i = n - 2 /\ docs # <<>> /\ p[i].op = "commit"
      <4>1. Stmt(c).op = "commit" /\ l = 3
        BY <1>2, <2>1, <3>6
      <4>2. Commit(c)
        BY <1>13, <4>1, NextStatement
      <4>3. /\ rows' = [rows EXCEPT ![target] = @ \cup tx[c]] /\ tx'[c] = {}
            /\ pending' = pending /\ local' = local /\ todo'[c] = Tail(todo[c])
        BY <1>4, <4>2 DEF Commit, Advance, Goto, TypeInv, TypeOK
      <4>4. tx[c] = Range(docs)
        <5>1. {j \in DOMAIN docs : << 1, j >> \notin pending[c]} = DOMAIN docs
          BY <1>13
        <5> QED BY <1>6, <3>6, <4>1, <5>1 DEF CopyOf, Range, docs, l
      <4>5. CopyOf(docs, 2, pending'[c], tx'[c])
        BY <1>13, <4>3 DEF CopyOf
      <4>6. ASSUME RenamesAlone(c)
            PROVE  Moved(m, docs, 2, rows') /\ NothingLost(c)
        <5>1. /\ rows'[target] = rows[target] \cup Range(docs)
              /\ rows'[source] = rows[source]
          BY <1>4, <1>7, <4>3, <4>4, <4>6 DEF TypeInv, TypeOK
        <5>2. rows[source] = Range(docs) /\ (m.dropTarget => rows[target] = {})
          BY <1>2, <1>7, <4>1, <4>6 DEF Moved, source, target, n, p
        <5>3. Moved(m, docs, 2, rows')
          BY <5>1, <5>2 DEF Moved, source, target
        <5>4. NothingLost(c)
          BY <5>1 DEF NothingLost, source, target, m
        <5> QED BY <5>3, <5>4
      <4>7. l - 1 = 2
        BY <4>1
      <4> QED BY <1>9, <2>1, <4>3, <4>5, <4>6, <4>7 DEF docs
    <3> QED BY <3>2, <3>3, <3>4, <3>5, <3>6
  <2> QED BY <2>1, <2>5, <2>6, <2>7
<1> QED BY <1>11, <1>12, <1>13

\* What others leave alone.
LEMMA WritersOnly ==
  ASSUME TypeInv, FitsInv, SentInv, NEW c \in Conn, NEW o \in Conn, o # c,
         Issue(o) \/ Step(o) \/ Abort(o), NEW t \in Table, Writers[t] \subseteq {c}
  PROVE  rows'[t] = rows[t]
<1>1. CASE ~WritesRows(o)
  BY <1>1, OthersKeepRows
<1>2. CASE WritesRows(o)
  <2>1. cmd[o] # Idle => cmd[o] \in Sendable /\ t \notin Writes(cmd[o])
    <3>1. SUFFICES ASSUME cmd[o] # Idle, t \in Writes(cmd[o]) PROVE FALSE
      BY DEF TypeInv, TypeOK
    <3>2. PICK menu \in Menus : cmd[o] \in menu[o]
      BY <3>1 DEF SentInv, Sends
    <3> QED BY <3>1, <3>2 DEF Writers
  <2>2. CASE DropTable(o)
    <3>1. todo[o] # <<>> /\ Stmt(o).op = "dropTable"
      BY <2>2 DEF DropTable, At, Stmt
    <3>2. cmd[o] # Idle /\ todo[o] \in Seq(Fitting(cmd[o]))
      BY <3>1 DEF FitsInv, FitsAt
    <3>3. Stmt(o) \in Fitting(cmd[o])
      BY <3>1, <3>2, HeadTailProperties DEF Stmt
    <3>4. Stmt(o).table # t
      BY <2>1, <3>1, <3>2, <3>3 DEF Fitting, Writes, Clobbers
    <3> QED BY <2>2, <3>4 DEF DropTable, TypeInv, TypeOK
  <2>3. CASE Commit(o)
    <3>1. cmd[o] # Idle /\ Inserts(cmd[o])
      BY <2>3 DEF Commit, Inserts, Idle
    <3>2. TargetTable(o) # t
      BY <2>1, <3>1 DEF TargetTable, Writes
    <3> QED BY <2>3, <3>2 DEF Commit, TypeInv, TypeOK
  <2>4. CASE ReplaceDocument(o) \/ DeleteDocument(o)
    <3>1. Replaces(cmd[o]) \/ Deletes(cmd[o])
      BY <2>4 DEF ReplaceDocument, DeleteDocument
    <3>2. cmd[o] # Idle /\ cmd[o].kind # "renameCollection"
      BY <3>1 DEF Replaces, Deletes, Idle
    <3>3. TargetTable(o) # t
      BY <2>1, <3>1, <3>2 DEF TargetTable, Target, Clobbers, Writes
    <3> QED BY <2>4, <3>3 DEF ReplaceDocument, DeleteDocument, TypeInv, TypeOK
  <2> QED BY <1>2, <2>2, <2>3, <2>4 DEF WritesRows
<1> QED BY <1>1, <1>2

LEMMA NextSent ==
  ASSUME TypeInv, SentInv, [Next]_vars
  PROVE  SentInv'
<1>1. CASE UNCHANGED vars \/ Done
  BY <1>1 DEF vars, Done, SentInv
<1>2. ASSUME NEW c \in Conn, Issue(c) PROVE SentInv'
  BY <1>2 DEF Issue, SentInv, TypeInv, TypeOK
<1>3. ASSUME NEW c \in Conn, Step(c), ~Fail(c), ~Answer(c) PROVE SentInv'
  BY <1>3, CommandKept DEF SentInv, clients
<1>4. ASSUME NEW c \in Conn, Abort(c) \/ Fail(c) \/ Answer(c) PROVE SentInv'
  BY <1>4 DEF Abort, Fail, Answer, End, SentInv, TypeInv, TypeOK
<1> QED BY <1>1, <1>2, <1>3, <1>4 DEF Next

\* The other connections' renames while o takes a step.
LEMMA OthersKeepRenames ==
  ASSUME TypeInv, FitsInv, SentInv, RenameInv, NEW o \in Conn, KeepsOthers(o),
         Issue(o) \/ Step(o) \/ Abort(o), NEW c \in Conn \ {o}
  PROVE  /\ RenameAt(c)'
         /\ RenamesAlone(c) => NothingLost(c)
<1>1. /\ cmd'[c] = cmd[c] /\ todo'[c] = todo[c] /\ pending'[c] = pending[c]
      /\ tx'[c] = tx[c] /\ local'[c] = local[c]
  BY DEF KeepsOthers
<1>2. ASSUME RenamesAlone(c)
      PROVE  /\ rows'[TableOf[cmd[c].ns]] = rows[TableOf[cmd[c].ns]]
             /\ rows'[TableOf[cmd[c].to]] = rows[TableOf[cmd[c].to]]
  <2>1. TableOf[cmd[c].ns] \in Table /\ TableOf[cmd[c].to] \in Table
    BY <1>2, RenameTables DEF RenamesAlone
  <2> QED BY <1>2, <2>1, WritersOnly DEF RenamesAlone
<1>3. RenamesAlone(c)' <=> RenamesAlone(c)
  BY <1>1 DEF RenamesAlone
<1>4. Copying(c) => Copying(c)'
  BY <1>1, <1>2, <1>3 DEF Copying, Moved
<1>5. Reading(c) => Reading(c)'
  BY <1>1 DEF Reading
<1> QED BY <1>1, <1>2, <1>4, <1>5 DEF RenameInv, RenameAt, NothingLost

LEMMA NextRename ==
  ASSUME TypeInv, FitsInv, SentInv, RenameInv, [Next]_vars
  PROVE  RenameInv' /\ \A c \in Conn : RenamesAlone(c) => NothingLost(c)
<1>1. CASE UNCHANGED vars \/ Done
  BY <1>1 DEF vars, Done, RenameInv, RenameAt, Reading, Copying, Moved, RenamesAlone,
              NothingLost
<1>2. ASSUME NEW o \in Conn, Issue(o) \/ Step(o) \/ Abort(o),
             RenameAt(o)' /\ (RenamesAlone(o) => NothingLost(o))
      PROVE  RenameInv' /\ \A c \in Conn : RenamesAlone(c) => NothingLost(c)
  <2>1. KeepsOthers(o)
    BY <1>2, OthersKept DEF TypeInv
  <2> QED BY <1>2, <2>1, OthersKeepRenames DEF RenameInv
<1>3. ASSUME NEW o \in Conn, Issue(o) PROVE RenameAt(o)' /\ (RenamesAlone(o) => NothingLost(o))
  <2>1. PICK m \in unsent[o] :
          /\ cmd[o] = Idle /\ cmd' = [cmd EXCEPT ![o] = m] /\ Goto(o, Program(m))
          /\ UNCHANGED << rows, pending, tx >>
    BY <1>3 DEF Issue, database
  <2>2. m \in Command /\ cmd'[o] = m /\ todo'[o] = Program(m)
    BY <2>1, SendableType DEF Goto, TypeInv, TypeOK
  <2>3. pending[o] = {} /\ tx[o] = {}
    BY <2>1 DEF TypeInv, LoopInv, LoopAt
  <2>4. m.kind = "renameCollection" =>
          Program(m) = << EnsureCollection(m.ns), ReadOf(m) >>
    BY DEF Program, Find, ReadOf
  <2>5. RenameAt(o)'
    BY <2>1, <2>2, <2>3, <2>4 DEF RenameAt, Reading
  <2> QED BY <2>1, <2>5 DEF NothingLost
<1>4. ASSUME NEW o \in Conn, Abort(o) \/ Fail(o) \/ Answer(o)
      PROVE  RenameAt(o)' /\ (RenamesAlone(o) => NothingLost(o))
  <2>1. cmd'[o] = Idle /\ rows' = rows
    BY <1>4, EndKeepsOthers DEF Abort, Fail, Answer, database, TypeInv
  <2> QED BY <2>1 DEF RenameAt, Idle, NothingLost
<1>5. ASSUME NEW o \in Conn, Step(o), ~Fail(o), ~Answer(o)
      PROVE  RenameAt(o)' /\ (RenamesAlone(o) => NothingLost(o))
  <2>1. CASE cmd[o].kind # "renameCollection"
    BY <1>5, <2>1, CommandKept DEF RenameAt, RenamesAlone
  <2>2. CASE cmd[o].kind = "renameCollection"
    <3>1. CASE Reading(o)
      BY <1>5, <2>2, <3>1, ReadMoves DEF NothingLost
    <3>2. CASE Copying(o)
      BY <1>5, <2>2, <3>2, CopyMoves
    <3> QED BY <2>2, <3>1, <3>2 DEF RenameInv, RenameAt
  <2> QED BY <2>1, <2>2
<1> QED BY <1>1, <1>2, <1>3, <1>4, <1>5 DEF Next

LEMMA RenamesInvariant == Spec => [](TypeInv /\ FitsInv /\ SentInv /\ RenameInv)
<1>1. Init => SentInv /\ RenameInv
  BY MenusAssumption DEF Init, SentInv, Sends, RenameInv, RenameAt, Idle
<1>2. TypeInv /\ FitsInv /\ SentInv /\ RenameInv /\ [Next]_vars => SentInv' /\ RenameInv'
  BY NextSent, NextRename
<1> QED BY <1>1, <1>2, ProgramsInvariant, PTL DEF Spec

\* A rename that nobody disturbs keeps every document of its source in the
\* source or in the target at each of its statements (handler.go:412-440).
THEOREM RenamesKeepDocuments == Spec => RenameKeepsDocuments
<1>1. TypeInv /\ FitsInv /\ SentInv /\ RenameInv /\ [Next]_vars =>
        [\A c \in Conn : RenamesAlone(c) =>
           rows[TableOf[cmd[c].ns]]
             \subseteq rows'[TableOf[cmd[c].ns]] \cup rows'[TableOf[cmd[c].to]]]_vars
  BY NextRename DEF NothingLost
<1> QED BY <1>1, RenamesInvariant, PTL DEF Spec, RenameKeepsDocuments

\* When such a rename has run the source is empty, and the target has what the
\* source held, with dropTarget nothing else (handler.go:412-440).
THEOREM RenamesAreExact == Spec => []RenameIsExact
<1>1. TypeInv /\ RenameInv => RenameIsExact
  <2> SUFFICES ASSUME TypeInv, RenameInv, NEW c \in Conn, RenamesAlone(c), todo[c] = <<>>
               PROVE  /\ rows[TableOf[cmd[c].ns]] = {}
                      /\ Range(local[c].found) \subseteq rows[TableOf[cmd[c].to]]
                      /\ cmd[c].dropTarget =>
                           rows[TableOf[cmd[c].to]] = Range(local[c].found)
    BY DEF RenameIsExact
  <2>1. Copying(c) /\ cmd[c].kind = "renameCollection"
    BY DEF RenameInv, RenameAt, Reading, RenamesAlone
  <2>2. RenamePlan(cmd[c], local[c].found, AfterRead(cmd[c], local[c].found))
    BY <2>1, RenameTables, RenameIsPlanned
  <2>3. Moved(cmd[c], local[c].found, 0, rows)
    BY <2>1, EmptySeq DEF Copying
  <2>4. Len(AfterRead(cmd[c], local[c].found)) > 0
    BY <2>2 DEF RenamePlan
  <2> QED BY <2>3, <2>4 DEF Moved
<1> QED BY <1>1, RenamesInvariant, PTL

-----------------------------------------------------------------------------
(* Updates and deletes: the loops over a snapshot. *)

\* Only quiet statements, and those of more, are left before the last one.
Quiet == {s \in Statement : s.op \in QuietOps}
Reaches(s, last, more) ==
  /\ s # <<>> /\ s[Len(s)] = last
  /\ \A i \in 1..(Len(s) - 1) : s[i] \in Quiet \cup more

ScanFor(m, use) ==
  [op |-> "select", ns |-> m.ns, filter |-> AnyDoc, limit |-> 0, use |-> use]
FilterFor(m, use) ==
  [op |-> "select", ns |-> m.ns, filter |-> m.filter, limit |-> 1, use |-> use]

Alone(c) == Writers[TargetTable(c)] \subseteq {c}

\* A snapshot has one document for each _id.
Snapshot(docs) == \A i, j \in DOMAIN docs : docs[i].id = docs[j].id => i = j

\* The writes all of a delete on the snapshot docs are done but for those left.
Deleted(docs, all, left, stored) ==
  stored = {d \in Range(docs) : \A w \in all \ left : d.id # docs[w[2]].id}

Deleting(c) ==
  LET docs == local[c].found
      all == DeleteWrites(DeletesOf(cmd[c]), docs)
  IN  /\ pending[c] \subseteq all /\ Snapshot(docs) /\ local[c].count = Cardinality(all)
      /\ Alone(c) => Deleted(docs, all, pending[c], rows[TargetTable(c)])

DeleteAt(c) ==
  cmd[c].kind = "delete" =>
    \/ Reaches(todo[c], ScanFor(cmd[c], "delete"), {}) /\ pending[c] = {}
    \/ todo[c] = <<>> /\ Deleting(c)

\* What write w stores, what no write of done replaces, and what its writes store
\* that no later one replaces.
Version(models, docs, w) ==
  IF w[2] = 0 THEN models[w[1]].upsert ELSE models[w[1]].apply[docs[w[2]]]
Kept(models, docs, done) ==
  {d \in Range(docs) : \A w \in done : \A e \in Version(models, docs, w) : e.id # d.id}
Last(models, docs, done, w) ==
  {e \in Version(models, docs, w) :
     \A x \in done : Precedes(w, x) => \A f \in Version(models, docs, x) : f.id # e.id}
Result(models, docs, done) ==
  Kept(models, docs, done) \cup UNION {Last(models, docs, done, w) : w \in done}

\* The writes all of an update are done but for those left, which come after them.
Updated(models, docs, all, left, stored) ==
  /\ stored = Result(models, docs, all \ left)
  /\ \A w \in all \ left : /\ Version(models, docs, w) # {}
                          /\ \A x \in left : Precedes(w, x)

Updating(c) ==
  LET docs == local[c].found
      models == cmd[c].updates
      all == UpdateWrites(models, docs)
  IN  /\ pending[c] \subseteq all /\ Snapshot(docs) /\ local[c].count = Cardinality(all)
      /\ Alone(c) /\ (\A j \in DOMAIN models : MakesOne(models[j])) =>
           Updated(models, docs, all, pending[c], rows[TargetTable(c)])

UpdateAt(c) ==
  cmd[c].kind = "update" =>
    \/ Reaches(todo[c], ScanFor(cmd[c], "update"), {}) /\ pending[c] = {}
    \/ todo[c] = <<>> /\ Updating(c)

\* A findAndModify by _id: before its first find, then on its way to the value
\* it returns.
Chosen(id) == {d \in Doc : d.id = id}
Before(c) ==
  /\ Reaches(todo[c], FilterFor(cmd[c], "before"), {})
  /\ pending[c] = {} /\ local[c].found = <<>> /\ local[c].value = {}
Matching(c) == rows[TargetTable(c)] \cap cmd[c].filter
Removing(c) ==
  \/ /\ Reaches(todo[c], ScanFor(cmd[c], "delete"), {}) /\ pending[c] = {}
     /\ local[c].value = Matching(c)
  \/ /\ todo[c] = <<>> /\ (pending[c] = {} => Matching(c) = {})
     /\ local[c].value = Range(local[c].found) \cap cmd[c].filter
Replacing(c) ==
  \/ /\ Reaches(todo[c], FilterFor(cmd[c], "after"), {ScanFor(cmd[c], "update")})
     /\ local[c].value # {} => Matching(c) # {}
  \/ todo[c] = <<>> /\ pending[c] = {} /\ local[c].value = Matching(c)

ModifyAt(c) ==
  cmd[c].kind = "findAndModify" /\ Alone(c) /\ (\E id \in Id : cmd[c].filter = Chosen(id)) =>
    \/ Before(c)
    \/ cmd[c].remove /\ Removing(c)
    \/ ~cmd[c].remove /\ (cmd[c].new => Replacing(c))

\* An idle connection has no value to return.
BlankAt(c) == cmd[c] = Idle => local[c].value = {}

LoopsAt(c) == DeleteAt(c) /\ UpdateAt(c) /\ ModifyAt(c) /\ BlankAt(c)
LoopsInv == \A c \in Conn : LoopsAt(c)

\* A set of natural numbers has a least one.
LEMMA Least ==
  ASSUME NEW S \in SUBSET Nat, S # {}
  PROVE  \E m \in S : \A k \in S : m <= k
<1> DEFINE upto == [k \in S |-> S \cap (0..k)]
           T == {upto[k] : k \in S}
           R == StrictSubsetOrdering(Nat)
<1>1. \A k \in S : upto[k] \in SUBSET Nat /\ IsFiniteSet(upto[k])
  <2> SUFFICES ASSUME NEW k \in S PROVE upto[k] \in SUBSET Nat /\ IsFiniteSet(upto[k])
    OBVIOUS
  <2>1. upto[k] \in SUBSET Nat /\ k \in Nat /\ \A s \in upto[k] : s <= k
    OBVIOUS
  <2> HIDE DEF upto
  <2> QED BY <2>1, FS_BoundedSetOfNaturals
<1>2. T \subseteq FiniteSubsetsOf(Nat) /\ T # {}
  BY <1>1 DEF FiniteSubsetsOf
<1>3. \E U \in T : \A V \in T : << V, U >> \notin R
  <2> HIDE DEF T, R
  <2> QED BY <1>2, FS_StrictSubsetOrderingWellFounded, WFMin DEF R
<1>4. PICK m \in S : \A V \in T : << V, upto[m] >> \notin R
  BY <1>3
<1>5. \A k \in S : m <= k
  <2> SUFFICES ASSUME NEW k \in S, ~(m <= k) PROVE FALSE
    OBVIOUS
  <2>1. upto[k] \subseteq upto[m] /\ m \in upto[m] /\ m \notin upto[k]
    OBVIOUS
  <2>2. << upto[k], upto[m] >> \in R
    <3>1. upto[k] \in SUBSET Nat /\ upto[m] \in SUBSET Nat
      BY <1>1
    <3> HIDE DEF upto
    <3> QED BY <2>1, <3>1 DEF StrictSubsetOrdering
  <2> QED BY <1>4, <2>2
<1> QED BY <1>5

\* A model matches some document of the snapshot if there is a hit.
LEMMA SomeHit ==
  ASSUME NEW model, NEW docs \in Seq(Doc), Range(docs) \cap model.matches # {}
  PROVE  Hits(model, docs) # {}
<1> DEFINE S == {i \in DOMAIN docs : docs[i] \in model.matches}
<1>1. S \in SUBSET Nat /\ S # {}
  BY DEF Range
<1>2. PICK i \in S : \A k \in S : i <= k
  BY <1>1, Least
<1>3. \A k \in 1..(i - 1) : docs[k] \notin model.matches
  <2> SUFFICES ASSUME NEW k \in 1..(i - 1), docs[k] \in model.matches PROVE FALSE
    OBVIOUS
  <2>1. k \in S /\ k < i /\ i \in Nat /\ k \in Nat
    BY <1>1
  <2> QED BY <1>2, <2>1
<1> QED BY <1>3 DEF Hits

LEMMA ReachesMoves ==
  ASSUME NEW s \in Seq(Statement), NEW last, NEW more, Reaches(s, last, more)
  PROVE  \/ s[1] = Head(s) /\ Head(s) = last /\ Tail(s) = <<>>
         \/ Head(s) \in Quiet \cup more /\ Reaches(Tail(s), last, more)
<1>1. s # <<>> /\ Len(s) \in Nat /\ Len(s) >= 1
  BY LenProperties, EmptySeq DEF Reaches
<1>2. PICK n \in Nat : n = Len(s) /\ n >= 1
  BY <1>1
<1>3. /\ Tail(s) \in Seq(Statement) /\ Len(Tail(s)) = Len(s) - 1
      /\ \A i \in 1..Len(Tail(s)) : Tail(s)[i] = s[i + 1]
  BY <1>1, HeadTailProperties
<1>4. Head(s) = s[1]
  OBVIOUS
<1>5. CASE n = 1
  <2>1. Tail(s) = <<>>
    BY <1>1, <1>2, <1>5, OneLeft
  <2> QED BY <1>2, <1>4, <1>5, <2>1 DEF Reaches
<1>6. CASE n > 1
  <2>1. Head(s) \in Quiet \cup more
    BY <1>1, <1>2, <1>4, <1>6 DEF Reaches
  <2>2. Tail(s)[Len(Tail(s))] = last
    BY <1>1, <1>2, <1>3, <1>6 DEF Reaches
  <2>3. \A i \in 1..(Len(Tail(s)) - 1) : Tail(s)[i] \in Quiet \cup more
    <3> SUFFICES ASSUME NEW i \in 1..(Len(Tail(s)) - 1)
                 PROVE  Tail(s)[i] \in Quiet \cup more
      OBVIOUS
    <3>1. i + 1 \in 1..(Len(s) - 1) /\ i \in 1..Len(Tail(s))
      BY <1>1, <1>2, <1>3
    <3> QED BY <1>3, <3>1 DEF Reaches
  <2>4. Tail(s) # <<>>
    <3>1. n # 1
      BY <1>6
    <3> QED BY <1>1, <1>2, <3>1, OneLeft
  <2> QED BY <2>1, <2>2, <2>3, <2>4 DEF Reaches
<1>7. n = 1 \/ n > 1
  BY <1>2
<1> QED BY <1>5, <1>6, <1>7

LEMMA FindReaches ==
  ASSUME NEW n \in Namespace, NEW filter, NEW limit, NEW use, NEW more
  PROVE  Reaches(Find(n, filter, limit, use),
                 [op |-> "select", ns |-> n, filter |-> filter, limit |-> limit, use |-> use],
                 more)
<1> DEFINE E == EnsureCollection(n)
           S == [op |-> "select", ns |-> n, filter |-> filter, limit |-> limit, use |-> use]
           p == Find(n, filter, limit, use)
<1>1. p = << E, S >>
  BY DEF Find
<1>2. E \in Quiet
  BY TableOfType DEF EnsureCollection, Quiet, QuietOps, Statement, OnTable
<1> HIDE DEF E, S, p
<1>3. p # <<>> /\ Len(p) = 2 /\ p[1] = E /\ p[2] = S
  BY <1>1
<1>4. \A i \in 1..(2 - 1) : p[i] = E
  BY <1>3
<1> QED BY <1>2, <1>3, <1>4 DEF Reaches, S, p

LEMMA UpdateReaches ==
  ASSUME NEW n \in Namespace
  PROVE  /\ Len(Update(n)) = 5 /\ Update(n) \in Seq(Statement)
         /\ Update(n)[5] = [op |-> "select", ns |-> n, filter |-> AnyDoc, limit |-> 0,
                            use |-> "update"]
         /\ \A i \in 1..4 : Update(n)[i] \in Quiet
<1> DEFINE make == CreateCollection(n, AnyDoc)
           E == EnsureCollection(n)
           O == On("readOptions", n)
           U == UpsertRowOf(n)
           S == [op |-> "select", ns |-> n, filter |-> AnyDoc, limit |-> 0, use |-> "update"]
           find == << E, S >>
           p == make \o find
<1>1. make = << E, O, U >> /\ Update(n) = p
  BY DEF CreateCollection, UpsertRowOf, Update, Find
<1>2. make \in Seq(Statement) /\ p \in Seq(Statement)
  BY <1>1, CreateCollectionType, UpdateType DEF AnyDoc
<1>3. E \in Quiet /\ O \in Quiet /\ U \in Quiet /\ S \in Statement
  BY TableOfType DEF EnsureCollection, On, UpsertRowOf, Quiet, QuietOps, Statement, OnTable,
                     OnNamespace, AnyDoc, Use
<1>4. find \in Seq(Statement)
  <2>1. E \in Statement /\ S \in Statement
    BY <1>3 DEF Quiet
  <2> HIDE DEF E, S
  <2> QED BY <2>1
<1> HIDE DEF make, E, O, U, S
<1>5. Len(make) = 3 /\ make[1] = E /\ make[2] = O /\ make[3] = U
  BY <1>1
<1>6. Len(find) = 2 /\ find[1] = E /\ find[2] = S
  OBVIOUS
<1> HIDE DEF find
<1>7. p = make \o find
  OBVIOUS
<1> HIDE DEF p
<1>8. /\ Len(p) = Len(make) + Len(find)
      /\ \A i \in 1..(Len(make) + Len(find)) :
           p[i] = IF i <= Len(make) THEN make[i] ELSE find[i - Len(make)]
  BY <1>2, <1>4, <1>7, Concatenated
<1>9. Len(p) = 5 /\ p[1] = E /\ p[2] = O /\ p[3] = U /\ p[4] = E /\ p[5] = S
  BY <1>5, <1>6, <1>8
<1>10. \A i \in 1..4 : p[i] \in Quiet
  <2> SUFFICES ASSUME NEW i \in 1..4 PROVE p[i] \in Quiet
    OBVIOUS
  <2>1. i = 1 \/ i = 2 \/ i = 3 \/ i = 4
    OBVIOUS
  <2> QED BY <1>3, <1>9, <2>1
<1> QED BY <1>1, <1>2, <1>9, <1>10 DEF S

\* A findAndModify that returns the new document ends with its second find.
LEMMA AfterBeforeReaches ==
  ASSUME NEW m \in Command, m.kind = "findAndModify", ~m.remove, m.new, NEW docs
  PROVE  Reaches(AfterBefore(m, docs), FilterFor(m, "after"), {ScanFor(m, "update")})
<1> DEFINE change == IF m.updates = <<>> THEN <<>> ELSE Update(m.ns)
           again == Find(m.ns, m.filter, 1, "after")
           a == IF m.updates = <<>> THEN 0 ELSE 5
           p == change \o again
           E == EnsureCollection(m.ns)
           A == FilterFor(m, "after")
<1>1. m.ns \in Namespace /\ m.filter \in SUBSET Doc
  BY CommandFields
<1>2. AfterBefore(m, docs) = p
  BY DEF AfterBefore
<1>3. again = << E, A >> /\ again \in Seq(Statement) /\ E \in Quiet
  <2>1. E \in Quiet /\ A \in Statement
    BY <1>1, TableOfType DEF EnsureCollection, FilterFor, Quiet, QuietOps, Statement,
                             OnTable, Use
  <2>2. again = << E, A >>
    BY DEF Find, FilterFor
  <2>3. E \in Statement
    BY <2>1 DEF Quiet
  <2> HIDE DEF E, A, again
  <2> QED BY <2>1, <2>2, <2>3
<1>4. /\ change \in Seq(Statement) /\ Len(change) = a
      /\ \A i \in 1..a : change[i] \in Quiet \cup {ScanFor(m, "update")}
  <2>1. CASE m.updates = <<>>
    BY <2>1, EmptySeq
  <2>2. CASE m.updates # <<>>
    <3>1. change = Update(m.ns) /\ a = 5
      BY <2>2
    <3> HIDE DEF change, a
    <3>2. \A i \in 1..5 : i \in 1..4 \/ i = 5
      OBVIOUS
    <3> QED BY <1>1, <3>1, <3>2, UpdateReaches DEF ScanFor
  <2> QED BY <2>1, <2>2
<1>5. a = 0 \/ a = 5
  OBVIOUS
<1> HIDE DEF change, again, a, E, A
<1>6. Len(again) = 2 /\ again[1] = E /\ again[2] = A
  BY <1>3
<1>7. p = change \o again
  OBVIOUS
<1> HIDE DEF p
<1>8. /\ Len(p) = Len(change) + Len(again)
      /\ \A i \in 1..(Len(change) + Len(again)) :
           p[i] = IF i <= Len(change) THEN change[i] ELSE again[i - Len(change)]
      /\ p \in Seq(Statement)
  BY <1>3, <1>4, <1>7, Concatenated
<1>9. Len(p) = a + 2 /\ p[a + 2] = A /\ p[a + 1] = E /\ p # <<>>
  BY <1>4, <1>5, <1>6, <1>8, EmptySeq
<1>10. \A i \in 1..a : p[i] = change[i]
  BY <1>4, <1>5, <1>6, <1>8
<1>11. ASSUME NEW i \in 1..(Len(p) - 1) PROVE p[i] \in Quiet \cup {ScanFor(m, "update")}
  <2>1. i = a + 1 \/ i \in 1..a
    BY <1>5, <1>9
  <2> QED BY <1>3, <1>4, <1>9, <1>10, <2>1
<1> QED BY <1>2, <1>9, <1>11 DEF Reaches, A

\* A scan of a whole table returns each of its documents once.
LEMMA ScanIsSnapshot ==
  ASSUME TypeInv, UniqueKeys, NEW t \in Table, NEW docs \in Orderings(rows[t])
  PROVE  docs \in Seq(Doc) /\ Range(docs) = rows[t] /\ Snapshot(docs)
<1> DEFINE S == rows[t]
           n == Cardinality(S)
<1>1. S \subseteq Doc /\ IsFiniteSet(S)
  BY FiniteAssumption, FS_Subset DEF TypeInv, TypeOK
<1>2. n \in Nat /\ IsFiniteSet(1..n) /\ Cardinality(1..n) = n
  BY <1>1, FS_CardinalityType, FS_Interval
<1>3. docs \in [1..n -> S] /\ \A x \in S : \E i \in 1..n : docs[i] = x
  BY DEF Orderings
<1>4. docs \in Surjection(1..n, S)
  BY <1>3 DEF Surjection
<1>5. docs \in Injection(1..n, S)
  <2> HIDE DEF n, S
  <2>1. Cardinality(1..n) = Cardinality(S)
    BY <1>2 DEF n
  <2> QED BY <1>2, <1>4, <2>1, FS_SurjSameCardinalityImpliesInj
<1>6. docs \in Seq(Doc) /\ DOMAIN docs = 1..n
  BY <1>1, <1>2, <1>3
<1>7. Range(docs) = S
  BY <1>3 DEF Range
<1>8. \A i, j \in 1..n : docs[i].id = docs[j].id => i = j
  <2>1. \A i, j \in 1..n : docs[i] = docs[j] => i = j
    <3> HIDE DEF n, S
    <3> QED BY <1>5 DEF Injection, IsInjective
  <2>2. \A i \in 1..n : docs[i] \in rows[t]
    BY <1>3
  <2> HIDE DEF n
  <2> QED BY <2>1, <2>2 DEF UniqueKeys
<1> QED BY <1>6, <1>7, <1>8 DEF Snapshot

\* The loop's scan: the snapshot of the whole table.
LEMMA ScanResults ==
  ASSUME TypeInv, UniqueKeys, NEW c \in Conn, NEW use, Stmt(c) = ScanFor(cmd[c], use),
         cmd[c].ns \in Namespace, NEW docs \in Results(c)
  PROVE  docs \in Seq(Doc) /\ Range(docs) = rows[TableOf[cmd[c].ns]] /\ Snapshot(docs)
<1>1. TableOf[cmd[c].ns] \in Table
  BY TableOfType
<1>2. rows[TableOf[cmd[c].ns]] \cap Doc = rows[TableOf[cmd[c].ns]]
  BY <1>1 DEF TypeInv, TypeOK
<1>3. docs \in Orderings(rows[TableOf[cmd[c].ns]])
  <2>1. PICK scan \in Orderings(rows[TableOf[cmd[c].ns]] \cap AnyDoc) : docs = Limited(scan, 0)
    BY FoundBy DEF ScanFor
  <2> QED BY <1>2, <2>1 DEF Limited, AnyDoc
<1> QED BY <1>1, <1>3, ScanIsSnapshot

LEMMA StartedLoop ==
  ASSUME TypeInv, NEW c \in Conn, NEW docs, NEW writes, StartLoop(c, docs, writes)
  PROVE  /\ UNCHANGED << rows, cmd >> /\ todo'[c] = Tail(todo[c])
         /\ local'[c].found = docs /\ local'[c].value = local[c].value
         /\ cmd[c].kind # "findAndModify" => local'[c].count = Cardinality(writes)
         /\ pending'[c] = writes
BY DEF StartLoop, Advance, Goto, database, TypeInv, TypeOK, Local

LEMMA DeleteScan ==
  ASSUME TypeInv, UniqueKeys, NEW c \in Conn, Step(c), ~Fail(c), pending[c] = {},
         todo[c] # <<>>, Stmt(c) = ScanFor(cmd[c], "delete"), cmd[c].ns \in Namespace
  PROVE  \E docs \in Seq(Doc) :
           /\ Range(docs) = rows[TableOf[cmd[c].ns]] /\ Snapshot(docs)
           /\ StartLoop(c, docs, DeleteWrites(DeletesOf(cmd[c]), docs))
<1>1. Stmt(c).op = "select" /\ Stmt(c).use = "delete"
  BY DEF ScanFor
<1>2. \/ SelectForReply(c) \/ SelectBefore(c) \/ SelectAfter(c) \/ SelectForRename(c)
      \/ SelectForUpdate(c) \/ SelectForDelete(c)
  BY <1>1, NextStatement DEF ReadStep
<1>3. SelectForDelete(c)
  BY <1>1, <1>2 DEF SelectForReply, SelectBefore, SelectAfter, SelectForUpdate,
                    SelectForRename, Selects
<1>4. PICK docs \in Results(c) :
        StartLoop(c, docs, DeleteWrites(DeletesOf(cmd[c]), docs))
  BY <1>3 DEF SelectForDelete
<1> QED BY <1>4, ScanResults

LEMMA UpdateScan ==
  ASSUME TypeInv, UniqueKeys, NEW c \in Conn, Step(c), ~Fail(c), pending[c] = {},
         todo[c] # <<>>, Stmt(c) = ScanFor(cmd[c], "update"), cmd[c].ns \in Namespace
  PROVE  \E docs \in Seq(Doc) :
           /\ Range(docs) = rows[TableOf[cmd[c].ns]] /\ Snapshot(docs)
           /\ StartLoop(c, docs, UpdateWrites(cmd[c].updates, docs))
<1>1. Stmt(c).op = "select" /\ Stmt(c).use = "update"
  BY DEF ScanFor
<1>2. \/ SelectForReply(c) \/ SelectBefore(c) \/ SelectAfter(c) \/ SelectForRename(c)
      \/ SelectForUpdate(c) \/ SelectForDelete(c)
  BY <1>1, NextStatement DEF ReadStep
<1>3. SelectForUpdate(c)
  BY <1>1, <1>2 DEF SelectForReply, SelectBefore, SelectAfter, SelectForDelete,
                    SelectForRename, Selects
<1>4. PICK docs \in Results(c) : StartLoop(c, docs, UpdateWrites(cmd[c].updates, docs))
  BY <1>3 DEF SelectForUpdate
<1> QED BY <1>4, ScanResults

\* A quiet statement of c brings it one closer to its scan.
LEMMA QuietReaches ==
  ASSUME TypeInv, NEW c \in Conn, Step(c), ~Fail(c), pending[c] = {}, todo[c] # <<>>,
         Stmt(c) \in Quiet
  PROVE  /\ UNCHANGED << rows, cmd, pending, tx >> /\ todo'[c] = Tail(todo[c])
         /\ local'[c].found = local[c].found /\ local'[c].value = local[c].value
<1>1. EnsureTable(c) \/ ReadOptions(c) \/ UpsertRow(c) \/ DeleteRow(c)
  BY QuietStatement DEF Quiet
<1>2. local'[c].value = local[c].value
  BY <1>1 DEF EnsureTable, ReadOptions, UpsertRow, DeleteRow, TypeInv, TypeOK, Local
<1> QED BY <1>1, <1>2, QuietStep

\* The commands with a loop of updates or deletes.
LEMMA LoopCommand ==
  ASSUME TypeInv, NEW c \in Conn, cmd[c].kind \in {"update", "delete", "findAndModify"}
  PROVE  /\ cmd[c] \in Command /\ cmd[c].ns \in Namespace /\ ~Inserts(cmd[c])
         /\ TargetTable(c) = TableOf[cmd[c].ns] /\ TargetTable(c) \in Table
<1>1. cmd[c] \in Command
  BY SendableType DEF TypeInv, TypeOK, Idle
<1>2. cmd[c].ns \in Namespace
  BY <1>1, CommandFields
<1> QED BY <1>1, <1>2, TableOfType DEF TargetTable, Target, Inserts

\* One DELETE of the loop.
LEMMA OneDeleted ==
  ASSUME NEW docs, NEW all, NEW left, NEW stored, Deleted(docs, all, left, stored),
         left \subseteq all, NEW w \in left
  PROVE  Deleted(docs, all, left \ {w}, {d \in stored : d.id # docs[w[2]].id})
<1>1. all \ (left \ {w}) = (all \ left) \cup {w}
  OBVIOUS
<1> QED BY <1>1 DEF Deleted

LEMMA DeleteMoves ==
  ASSUME TypeInv, UniqueKeys, NEW c \in Conn, Step(c), ~Fail(c), ~Answer(c), DeleteAt(c)
  PROVE  DeleteAt(c)'
<1> SUFFICES ASSUME cmd[c].kind = "delete" PROVE DeleteAt(c)'
  BY CommandKept DEF DeleteAt
<1>1. cmd' = cmd
  BY CommandKept
<1>2. /\ cmd[c].ns \in Namespace /\ ~Inserts(cmd[c]) /\ ~Replaces(cmd[c])
      /\ TargetTable(c) = TableOf[cmd[c].ns] /\ TargetTable(c) \in Table
  BY LoopCommand DEF Replaces
<1>3. todo[c] \in Seq(Statement)
  BY DEF TypeInv, TypeOK
<1>4. Alone(c)' <=> Alone(c)
  BY <1>1 DEF Alone, TargetTable
<1>5. CASE Reaches(todo[c], ScanFor(cmd[c], "delete"), {}) /\ pending[c] = {}
  <2>1. todo[c] # <<>>
    BY <1>5 DEF Reaches
  <2>2. CASE Stmt(c) \in Quiet /\ Reaches(Tail(todo[c]), ScanFor(cmd[c], "delete"), {})
    BY <1>1, <1>5, <2>1, <2>2, QuietReaches DEF DeleteAt
  <2>3. CASE Stmt(c) = ScanFor(cmd[c], "delete") /\ Tail(todo[c]) = <<>>
    <3>1. PICK docs \in Seq(Doc) :
            /\ Range(docs) = rows[TableOf[cmd[c].ns]] /\ Snapshot(docs)
            /\ StartLoop(c, docs, DeleteWrites(DeletesOf(cmd[c]), docs))
      BY <1>2, <1>5, <2>1, <2>3, DeleteScan
    <3>2. PICK all : all = DeleteWrites(DeletesOf(cmd[c]), docs)
      OBVIOUS
    <3>3. /\ UNCHANGED << rows, cmd >> /\ todo'[c] = <<>> /\ local'[c].found = docs
          /\ local'[c].count = Cardinality(all) /\ pending'[c] = all
      <4>1. StartLoop(c, docs, all) /\ cmd[c].kind # "findAndModify"
        BY <3>1, <3>2
      <4> QED BY <2>3, <4>1, StartedLoop
    <3>4. Deleted(docs, all, all, rows[TargetTable(c)])
      BY <1>2, <3>1 DEF Deleted
    <3>5. Deleting(c)'
      BY <1>1, <3>1, <3>2, <3>3, <3>4 DEF Deleting, TargetTable
    <3> QED BY <3>3, <3>5 DEF DeleteAt
  <2> QED BY <1>3, <1>5, <2>2, <2>3, ReachesMoves DEF Stmt
<1>6. CASE todo[c] = <<>> /\ Deleting(c)
  <2> DEFINE docs == local[c].found
             all == DeleteWrites(DeletesOf(cmd[c]), docs)
  <2>1. pending[c] # {}
    BY <1>6, NothingLeft
  <2>2. DeleteDocument(c)
    BY <1>2, <2>1, NextWrite
  <2>3. PICK w \in pending[c] :
          /\ rows' = [rows EXCEPT ![TargetTable(c)] = {d \in @ : d.id # docs[w[2]].id}]
          /\ pending' = [pending EXCEPT ![c] = @ \ {w}]
          /\ UNCHANGED << todo, local >>
    BY <2>2 DEF DeleteDocument
  <2>4. /\ rows'[TargetTable(c)] = {d \in rows[TargetTable(c)] : d.id # docs[w[2]].id}
        /\ pending'[c] = pending[c] \ {w}
    BY <1>2, <2>3 DEF TypeInv, TypeOK
  <2>5. Alone(c) => Deleted(docs, all, pending[c] \ {w}, rows'[TargetTable(c)])
    BY <1>6, <2>4, OneDeleted DEF Deleting
  <2>6. Deleting(c)'
    <3>1. TargetTable(c)' = TargetTable(c)
      BY <1>1 DEF TargetTable
    <3> QED BY <1>1, <1>4, <1>6, <2>3, <2>4, <2>5, <3>1 DEF Deleting
  <2> QED BY <1>6, <2>3, <2>6 DEF DeleteAt
<1> QED BY <1>5, <1>6 DEF DeleteAt

\* The order of the writes of a loop.
LEMMA WritesOrder ==
  ASSUME NEW v \in Nat \X Nat, NEW w \in Nat \X Nat
  PROVE  /\ ~Precedes(w, w)
         /\ Precedes(v, w) => ~Precedes(w, v)
         /\ v = w \/ Precedes(v, w) \/ Precedes(w, v)
BY DEF Precedes

\* A model that makes one version of a document makes one with every write.
LEMMA OneVersion ==
  ASSUME NEW models \in Seq(UpdateModel), NEW docs \in Seq(Doc),
         \A j \in DOMAIN models : MakesOne(models[j]),
         NEW w \in UpdateWrites(models, docs)
  PROVE  /\ \A e, f \in Version(models, docs, w) : e = f
         /\ Version(models, docs, w) \subseteq Doc
         /\ w[1] \in DOMAIN models /\ w \in Nat \X Nat
         /\ w[2] = 0 => /\ Hits(models[w[1]], docs) = {}
                       /\ Version(models, docs, w) = models[w[1]].upsert
         /\ w[2] # 0 => /\ w[2] \in Hits(models[w[1]], docs)
                       /\ w[2] \in DOMAIN docs /\ docs[w[2]] \in Doc
                       /\ Version(models, docs, w) = models[w[1]].apply[docs[w[2]]]
<1>1. w[1] \in DOMAIN models /\ w[2] \in 0..Len(docs)
  BY DEF UpdateWrites
<1>2. w \in Nat \X Nat
  BY UpdateWritesType
<1>3. models[w[1]] \in UpdateModel /\ MakesOne(models[w[1]])
  BY <1>1
<1>4. CASE w[2] = 0
  <2>1. Version(models, docs, w) = models[w[1]].upsert
    BY <1>4 DEF Version
  <2>2. Hits(models[w[1]], docs) = {}
    BY <1>4 DEF UpdateWrites
  <2> QED BY <1>1, <1>2, <1>3, <1>4, <2>1, <2>2 DEF MakesOne, UpdateModel
<1>5. CASE w[2] # 0
  <2>1. w[2] \in Hits(models[w[1]], docs)
    BY <1>5 DEF UpdateWrites
  <2>2. w[2] \in DOMAIN docs /\ docs[w[2]] \in Doc
    BY <2>1 DEF Hits
  <2>3. Version(models, docs, w) = models[w[1]].apply[docs[w[2]]]
    BY <1>5 DEF Version
  <2> QED BY <1>1, <1>2, <1>3, <1>5, <2>1, <2>2, <2>3 DEF MakesOne, UpdateModel
<1> QED BY <1>4, <1>5

\* One REPLACE of the loop.
LEMMA OneUpdated ==
  ASSUME NEW models \in Seq(UpdateModel), NEW docs \in Seq(Doc),
         \A j \in DOMAIN models : MakesOne(models[j]),
         NEW all, all = UpdateWrites(models, docs), NEW left, left \subseteq all, NEW stored,
         Updated(models, docs, all, left, stored),
         NEW w, IsFirst(w, left), NEW new \in Version(models, docs, w)
  PROVE  Updated(models, docs, all, left \ {w}, Replaced(stored, new))
<1> DEFINE done == all \ left
           V(x) == Version(models, docs, x)
           more == done \cup {w}
<1>1. w \in left /\ w \in all /\ all \ (left \ {w}) = more
  BY DEF IsFirst
<1>2. \A x \in all : x \in Nat \X Nat
  BY OneVersion
<1>3. V(w) = {new}
  BY <1>1, OneVersion
<1>4. \A x \in done : Precedes(x, w) /\ ~Precedes(w, x) /\ V(x) # {}
  BY <1>1, <1>2, WritesOrder DEF Updated
<1>5. ~Precedes(w, w)
  BY <1>1, <1>2, WritesOrder
<1>6. \A x \in more : V(x) # {} /\ \A y \in left \ {w} : Precedes(x, y)
  BY <1>3, <1>4 DEF Updated, IsFirst
<1>7. stored = Result(models, docs, done)
  BY DEF Updated
<1>8. Kept(models, docs, more) = {d \in Kept(models, docs, done) : d.id # new.id}
  <2> HIDE DEF done
  <2> QED BY <1>3 DEF Kept
<1>9. \A x \in done : Last(models, docs, more, x)
                       = {e \in Last(models, docs, done, x) : e.id # new.id}
  <2> HIDE DEF done
  <2> QED BY <1>3, <1>4 DEF Last
<1>10. Last(models, docs, more, w) = {new}
  <2> HIDE DEF done
  <2> QED BY <1>3, <1>4, <1>5 DEF Last
<1>11. Result(models, docs, more) = Replaced(stored, new)
  <2> DEFINE K == Kept(models, docs, done)
             K1 == Kept(models, docs, more)
             L(x) == Last(models, docs, done, x)
             L1(x) == Last(models, docs, more, x)
  <2>1. UNION {L1(x) : x \in more} = {e \in UNION {L(x) : x \in done} : e.id # new.id} \cup {new}
    <3>1. UNION {L1(x) : x \in more} = (UNION {L1(x) : x \in done}) \cup L1(w)
      <4> HIDE DEF done, L1
      <4> QED BY DEF more
    <3>2. UNION {L1(x) : x \in done} = {e \in UNION {L(x) : x \in done} : e.id # new.id}
      <4>1. \A x \in done : L1(x) = {e \in L(x) : e.id # new.id}
        BY <1>9
      <4> HIDE DEF done, L1, L
      <4> QED BY <4>1
    <3> QED BY <1>10, <3>1, <3>2
  <2>2. K1 = {d \in K : d.id # new.id}
    BY <1>8
  <2>3. stored = K \cup UNION {L(x) : x \in done}
    BY <1>7 DEF Result
  <2>4. Result(models, docs, more) = K1 \cup UNION {L1(x) : x \in more}
    BY DEF Result
  <2> HIDE DEF K, K1, L, L1, done, more
  <2> QED BY <2>1, <2>2, <2>3, <2>4 DEF Replaced
<1> QED BY <1>1, <1>6, <1>11 DEF Updated

LEMMA UpdateMoves ==
  ASSUME TypeInv, UniqueKeys, NEW c \in Conn, Step(c), ~Fail(c), ~Answer(c), UpdateAt(c)
  PROVE  UpdateAt(c)'
<1> SUFFICES ASSUME cmd[c].kind = "update" PROVE UpdateAt(c)'
  BY CommandKept DEF UpdateAt
<1>1. cmd' = cmd
  BY CommandKept
<1>2. /\ cmd[c].ns \in Namespace /\ ~Inserts(cmd[c]) /\ ~Deletes(cmd[c])
      /\ TargetTable(c) = TableOf[cmd[c].ns] /\ TargetTable(c) \in Table
      /\ cmd[c].updates \in Seq(UpdateModel)
  BY LoopCommand, CommandFields DEF Deletes
<1>3. todo[c] \in Seq(Statement)
  BY DEF TypeInv, TypeOK
<1>4. (Alone(c)' <=> Alone(c)) /\ TargetTable(c)' = TargetTable(c)
  BY <1>1 DEF Alone, TargetTable
<1>5. CASE Reaches(todo[c], ScanFor(cmd[c], "update"), {}) /\ pending[c] = {}
  <2>1. todo[c] # <<>>
    BY <1>5 DEF Reaches
  <2>2. CASE Stmt(c) \in Quiet /\ Reaches(Tail(todo[c]), ScanFor(cmd[c], "update"), {})
    BY <1>1, <1>5, <2>1, <2>2, QuietReaches DEF UpdateAt
  <2>3. CASE Stmt(c) = ScanFor(cmd[c], "update") /\ Tail(todo[c]) = <<>>
    <3>1. PICK docs \in Seq(Doc) :
            /\ Range(docs) = rows[TableOf[cmd[c].ns]] /\ Snapshot(docs)
            /\ StartLoop(c, docs, UpdateWrites(cmd[c].updates, docs))
      BY <1>2, <1>5, <2>1, <2>3, UpdateScan
    <3>2. PICK all : all = UpdateWrites(cmd[c].updates, docs)
      OBVIOUS
    <3>3. /\ UNCHANGED << rows, cmd >> /\ todo'[c] = <<>> /\ local'[c].found = docs
          /\ local'[c].count = Cardinality(all) /\ pending'[c] = all
      <4>1. StartLoop(c, docs, all) /\ cmd[c].kind # "findAndModify"
        BY <3>1, <3>2
      <4> QED BY <2>3, <4>1, StartedLoop
    <3>4. Updated(cmd[c].updates, docs, all, all, rows[TargetTable(c)])
      <4>1. all \ all = {}
        OBVIOUS
      <4>2. Result(cmd[c].updates, docs, {}) = Range(docs)
        BY DEF Result, Kept
      <4> QED BY <1>2, <3>1, <4>1, <4>2 DEF Updated
    <3>5. Updating(c)'
      BY <1>1, <1>4, <3>1, <3>2, <3>3, <3>4 DEF Updating
    <3> QED BY <3>3, <3>5 DEF UpdateAt
  <2> QED BY <1>3, <1>5, <2>2, <2>3, ReachesMoves DEF Stmt
<1>6. CASE todo[c] = <<>> /\ Updating(c)
  <2> DEFINE docs == local[c].found
             models == cmd[c].updates
             all == UpdateWrites(models, docs)
  <2>1. pending[c] # {}
    BY <1>6, NothingLeft
  <2>2. ReplaceDocument(c)
    BY <1>2, <2>1, NextWrite DEF Replaces
  <2>3. PICK w \in pending[c] :
          /\ IsFirst(w, pending[c])
          /\ \E new \in NewVersion(c, w) :
               rows' = [rows EXCEPT ![TargetTable(c)] = Replaced(@, new)]
          /\ pending' = [pending EXCEPT ![c] = @ \ {w}]
          /\ UNCHANGED << todo, local >>
    BY <2>2 DEF ReplaceDocument
  <2>4. PICK new \in NewVersion(c, w) : rows'[TargetTable(c)] = Replaced(rows[TargetTable(c)], new)
    BY <1>2, <2>3 DEF TypeInv, TypeOK
  <2>5. pending'[c] = pending[c] \ {w} /\ todo'[c] = <<>> /\ local'[c] = local[c]
    BY <1>6, <2>3 DEF TypeInv, TypeOK
  <2>6. ASSUME Alone(c), \A j \in DOMAIN models : MakesOne(models[j])
        PROVE  Updated(models, docs, all, pending[c] \ {w}, rows'[TargetTable(c)])
    <3>1. new \in Version(models, docs, w)
      BY <2>4 DEF NewVersion, Version
    <3>2. /\ docs \in Seq(Doc) /\ pending[c] \subseteq all
          /\ Updated(models, docs, all, pending[c], rows[TargetTable(c)])
      BY <1>6, <2>6 DEF Updating, TypeInv, TypeOK, Local
    <3>3. models \in Seq(UpdateModel)
      BY <1>2
    <3>4. PICK left : left = pending[c]
      OBVIOUS
    <3>5. PICK every : every = all
      OBVIOUS
    <3> HIDE DEF docs, models
    <3>6. Updated(models, docs, every, left \ {w}, Replaced(rows[TargetTable(c)], new))
      BY <2>3, <2>6, <3>1, <3>2, <3>3, <3>4, <3>5, OneUpdated
    <3> QED BY <2>4, <3>4, <3>5, <3>6
  <2>7. Updating(c)'
    BY <1>1, <1>4, <1>6, <2>5, <2>6 DEF Updating
  <2> QED BY <2>5, <2>7 DEF UpdateAt
<1> QED BY <1>5, <1>6 DEF UpdateAt

\* A find of at most one document in a set of at most one.
LEMMA OneResult ==
  ASSUME NEW S \in SUBSET Doc, \A d, e \in S : d = e, NEW scan \in Orderings(S)
  PROVE  Range(Limited(scan, 1)) = S /\ (Limited(scan, 1) = <<>> <=> S = {})
<1>1. CASE S = {}
  <2>1. Cardinality(S) = 0
    BY <1>1, FS_EmptySet
  <2>2. scan \in [1..0 -> S]
    BY <2>1 DEF Orderings
  <2>3. scan = <<>>
    BY <2>2
  <2>4. Limited(scan, 1) = <<>>
    BY <2>3 DEF Limited
  <2> QED BY <1>1, <2>4 DEF Range
<1>2. CASE S # {}
  <2>1. PICK x \in S : S = {x}
    BY <1>2
  <2>2. Cardinality(S) = 1
    BY <2>1, FS_Singleton
  <2>3. scan \in [1..1 -> S]
    BY <2>2 DEF Orderings
  <2>4. scan \in Seq(S) /\ Len(scan) = 1 /\ scan[1] = x
    <3>1. DOMAIN scan = 1..1 /\ scan[1] \in S
      BY <2>3
    <3>2. scan \in Seq(S)
      <4>1. PICK k \in Nat : k = 1
        OBVIOUS
      <4>2. scan \in [1..k -> S]
        BY <2>3, <4>1
      <4> QED BY <4>2
    <3>3. Len(scan) = 1
      BY <3>1, <3>2, LenProperties
    <3> QED BY <2>1, <3>1, <3>2, <3>3
  <2>5. Limited(scan, 1) = SubSeq(scan, 1, 1)
    BY <2>4 DEF Limited
  <2>6. Len(SubSeq(scan, 1, 1)) = 1 /\ SubSeq(scan, 1, 1)[1] = x /\ SubSeq(scan, 1, 1) \in Seq(S)
    BY <2>4, SubSeqProperties
  <2>7. PICK one \in Seq(S) : one = SubSeq(scan, 1, 1) /\ Len(one) = 1 /\ one[1] = x
    BY <2>6
  <2>8. one # <<>> /\ Range(one) = {x}
    <3>1. DOMAIN one = 1..1
      BY <2>7, LenProperties
    <3>2. Range(one) = {one[i] : i \in 1..1}
      BY <3>1 DEF Range
    <3>3. \A i \in 1..1 : i = 1
      OBVIOUS
    <3>4. one # <<>>
      <4>1. PICK k \in Nat : k = Len(one) /\ k # 0
        BY <2>7
      <4>2. one = <<>> => Len(one) = 0
        BY EmptySeq
      <4> QED BY <4>1, <4>2
    <3> QED BY <2>7, <3>2, <3>3, <3>4
  <2> QED BY <2>1, <2>5, <2>7, <2>8
<1> QED BY <1>1, <1>2

\* The finds of a findAndModify by _id.
LEMMA ChosenResult ==
  ASSUME TypeInv, UniqueKeys, NEW c \in Conn, NEW use, Stmt(c) = FilterFor(cmd[c], use),
         cmd[c].ns \in Namespace, NEW id \in Id, cmd[c].filter = Chosen(id),
         NEW docs \in Results(c)
  PROVE  LET stored == rows[TableOf[cmd[c].ns]] \cap cmd[c].filter
         IN  Range(docs) = stored /\ (docs = <<>> <=> stored = {})
<1> DEFINE stored == rows[TableOf[cmd[c].ns]] \cap cmd[c].filter
<1>1. TableOf[cmd[c].ns] \in Table
  BY TableOfType
<1>2. stored \in SUBSET Doc /\ \A d, e \in stored : d = e
  BY <1>1 DEF TypeInv, TypeOK, UniqueKeys, Chosen
<1>3. PICK scan \in Orderings(stored) : docs = Limited(scan, 1)
  BY FoundBy DEF FilterFor
<1> QED BY <1>2, <1>3, OneResult

\* REPLACE leaves a document of every _id there was.
LEMMA ReplacedKeepsIds ==
  ASSUME NEW S \in SUBSET Doc, NEW new \in Doc, NEW id, S \cap Chosen(id) # {}
  PROVE  Replaced(S, new) \cap Chosen(id) # {}
<1>1. PICK d \in S : d \in Doc /\ d.id = id
  BY DEF Chosen
<1>2. CASE new.id = id
  BY <1>2 DEF Replaced, Chosen
<1>3. CASE new.id # id
  BY <1>1, <1>3 DEF Replaced, Chosen
<1> QED BY <1>2, <1>3

LEMMA BeforeMoves ==
  ASSUME TypeInv, UniqueKeys, NEW c \in Conn, Step(c), ~Fail(c), ~Answer(c), Before(c),
         cmd[c].kind = "findAndModify", NEW id \in Id, cmd[c].filter = Chosen(id)
  PROVE  \/ Before(c)'
         \/ cmd[c].remove /\ Removing(c)'
         \/ ~cmd[c].remove /\ (cmd[c].new => Replacing(c)')
<1>1. cmd' = cmd
  BY CommandKept
<1>2. /\ cmd[c].ns \in Namespace /\ cmd[c] \in Command
      /\ TargetTable(c) = TableOf[cmd[c].ns] /\ TargetTable(c) \in Table
  BY LoopCommand
<1>3. todo[c] \in Seq(Statement) /\ todo[c] # <<>> /\ pending[c] = {}
  BY DEF TypeInv, TypeOK, Before, Reaches
<1>4. CASE Stmt(c) \in Quiet /\ Reaches(Tail(todo[c]), FilterFor(cmd[c], "before"), {})
  BY <1>1, <1>3, <1>4, QuietReaches DEF Before
<1>5. CASE Stmt(c) = FilterFor(cmd[c], "before") /\ Tail(todo[c]) = <<>>
  <2>1. Stmt(c).op = "select" /\ Stmt(c).use = "before"
    BY <1>5 DEF FilterFor
  <2>2. \/ SelectForReply(c) \/ SelectBefore(c) \/ SelectAfter(c) \/ SelectForRename(c)
        \/ SelectForUpdate(c) \/ SelectForDelete(c)
    BY <1>3, <2>1, NextStatement DEF ReadStep
  <2>3. SelectBefore(c)
    BY <2>1, <2>2 DEF SelectForReply, SelectAfter, SelectForUpdate, SelectForDelete,
                      SelectForRename, Selects
  <2>4. PICK docs \in Results(c) :
          /\ local' = [local EXCEPT ![c].count = Len(docs), ![c].value = Range(docs)]
          /\ todo' = [todo EXCEPT ![c] = AfterBefore(cmd[c], docs)]
          /\ UNCHANGED << rows, pending >>
    BY <2>3 DEF SelectBefore, Goto, database
  <2>5. Matching(c)' = Matching(c)
    BY <1>1, <2>4 DEF Matching, TargetTable
  <2>6. Range(docs) = Matching(c) /\ (docs = <<>> <=> Matching(c) = {})
    BY <1>2, <1>5, ChosenResult DEF Matching
  <2>7. /\ local'[c].value = Matching(c) /\ local'[c].found = <<>> /\ pending'[c] = {}
        /\ todo'[c] = AfterBefore(cmd[c], docs)
    BY <2>4, <2>6 DEF Before, TypeInv, TypeOK, Local
  <2>8. CASE cmd[c].remove /\ docs = <<>>
    <3>1. todo'[c] = <<>> /\ Matching(c) = {}
      BY <2>6, <2>7, <2>8 DEF AfterBefore
    <3>2. Range(local'[c].found) = {}
      BY <2>7 DEF Range
    <3>3. Removing(c)'
      BY <2>5, <2>7, <3>1, <3>2 DEF Removing
    <3> QED BY <2>8, <3>3
  <2>9. CASE cmd[c].remove /\ docs # <<>>
    <3>1. todo'[c] = Find(cmd[c].ns, AnyDoc, 0, "delete")
      BY <2>7, <2>9 DEF AfterBefore, Delete
    <3>2. Reaches(todo'[c], ScanFor(cmd[c], "delete"), {})
      BY <1>2, <3>1, FindReaches DEF ScanFor
    <3> QED BY <1>1, <2>5, <2>7, <2>9, <3>2 DEF Removing
  <2>10. CASE ~cmd[c].remove
    <3>1. cmd[c].new => Reaches(todo'[c], FilterFor(cmd[c], "after"), {ScanFor(cmd[c], "update")})
      BY <1>2, <2>7, <2>10, AfterBeforeReaches
    <3> QED BY <1>1, <2>5, <2>7, <2>10, <3>1 DEF Replacing
  <2> QED BY <2>8, <2>9, <2>10
<1> QED BY <1>3, <1>4, <1>5, ReachesMoves DEF Before, Stmt

LEMMA RemovingMoves ==
  ASSUME TypeInv, UniqueKeys, NEW c \in Conn, MatchAt(c), Step(c), ~Fail(c), ~Answer(c),
         cmd[c].kind = "findAndModify", cmd[c].remove,
         NEW id \in Id, cmd[c].filter = Chosen(id), Removing(c)
  PROVE  Removing(c)'
<1>1. cmd' = cmd
  BY CommandKept
<1>2. /\ cmd[c].ns \in Namespace /\ ~Inserts(cmd[c]) /\ ~Replaces(cmd[c]) /\ Deletes(cmd[c])
      /\ TargetTable(c) = TableOf[cmd[c].ns] /\ TargetTable(c) \in Table
  BY LoopCommand DEF Replaces, Deletes
<1>3. DeletesOf(cmd[c]) = << [matches |-> cmd[c].filter, multi |-> FALSE] >>
  BY DEF DeletesOf
<1>4. todo[c] \in Seq(Statement)
  BY DEF TypeInv, TypeOK
<1>5. CASE /\ Reaches(todo[c], ScanFor(cmd[c], "delete"), {}) /\ pending[c] = {}
           /\ local[c].value = Matching(c)
  <2>1. todo[c] # <<>>
    BY <1>5 DEF Reaches
  <2>2. CASE Stmt(c) \in Quiet /\ Reaches(Tail(todo[c]), ScanFor(cmd[c], "delete"), {})
    BY <1>1, <1>5, <2>1, <2>2, QuietReaches DEF Removing, Matching, TargetTable
  <2>3. CASE Stmt(c) = ScanFor(cmd[c], "delete") /\ Tail(todo[c]) = <<>>
    <3>1. PICK docs \in Seq(Doc) :
            /\ Range(docs) = rows[TableOf[cmd[c].ns]] /\ Snapshot(docs)
            /\ StartLoop(c, docs, DeleteWrites(DeletesOf(cmd[c]), docs))
      BY <1>2, <1>5, <2>1, <2>3, DeleteScan
    <3>2. PICK all : all = DeleteWrites(DeletesOf(cmd[c]), docs)
      OBVIOUS
    <3>3. /\ UNCHANGED << rows, cmd >> /\ todo'[c] = <<>> /\ local'[c].found = docs
          /\ local'[c].value = local[c].value /\ pending'[c] = all
      BY <2>3, <3>1, <3>2, StartedLoop
    <3>4. all = {} => Matching(c) = {}
      <4> DEFINE model == [matches |-> cmd[c].filter, multi |-> FALSE]
      <4>1. model.matches = cmd[c].filter
        OBVIOUS
      <4>2. /\ Len(DeletesOf(cmd[c])) = 1 /\ DeletesOf(cmd[c])[1] = model
            /\ 1 \in DOMAIN DeletesOf(cmd[c])
        BY <1>3
      <4> HIDE DEF model
      <4>3. ASSUME Matching(c) # {} PROVE all # {}
        <5>1. Range(docs) \cap model.matches # {}
          BY <1>2, <3>1, <4>1, <4>3 DEF Matching
        <5>2. PICK i \in Hits(model, docs) : TRUE
          BY <5>1, SomeHit
        <5>3. << 1, i >> \in all
          BY <3>2, <4>2, <5>2 DEF DeleteWrites, Hits
        <5> QED BY <5>3
      <4> QED BY <4>3
    <3>5. Matching(c)' = Matching(c) /\ Matching(c) = Range(docs) \cap cmd[c].filter
      BY <1>1, <1>2, <3>1, <3>3 DEF Matching, TargetTable
    <3> QED BY <1>1, <1>5, <3>3, <3>4, <3>5 DEF Removing
  <2> QED BY <1>4, <1>5, <2>2, <2>3, ReachesMoves DEF Stmt
<1>6. CASE /\ todo[c] = <<>> /\ (pending[c] = {} => Matching(c) = {})
           /\ local[c].value = Range(local[c].found) \cap cmd[c].filter
  <2>1. pending[c] # {}
    BY <1>6, NothingLeft
  <2>2. DeleteDocument(c)
    BY <1>2, <2>1, NextWrite
  <2>3. PICK w \in pending[c] :
          /\ rows' = [rows EXCEPT ![TargetTable(c)] =
                        {d \in @ : d.id # local[c].found[w[2]].id}]
          /\ UNCHANGED << todo, local >>
    BY <2>2 DEF DeleteDocument
  <2>4. /\ w[1] \in DOMAIN DeletesOf(cmd[c])
        /\ local[c].found[w[2]] \in DeletesOf(cmd[c])[w[1]].matches
    BY <1>2, <2>3 DEF MatchAt
  <2>5. local[c].found[w[2]].id = id
    <3>1. \A i \in DOMAIN DeletesOf(cmd[c]) : DeletesOf(cmd[c])[i].matches = cmd[c].filter
      BY <1>3
    <3> QED BY <2>4, <3>1 DEF Chosen
  <2>6. Matching(c)' = {}
    <3>1. rows'[TargetTable(c)] = {d \in rows[TargetTable(c)] : d.id # id}
      BY <1>2, <2>3, <2>5 DEF TypeInv, TypeOK
    <3> QED BY <1>1, <3>1 DEF Chosen, Matching, TargetTable
  <2> QED BY <1>1, <1>6, <2>3, <2>6 DEF Removing
<1> QED BY <1>5, <1>6 DEF Removing

LEMMA ReplacingMoves ==
  ASSUME TypeInv, UniqueKeys, NEW c \in Conn, Step(c), ~Fail(c), ~Answer(c),
         cmd[c].kind = "findAndModify", ~cmd[c].remove,
         NEW id \in Id, cmd[c].filter = Chosen(id), Replacing(c)
  PROVE  Replacing(c)'
<1>1. cmd' = cmd
  BY CommandKept
<1>2. /\ cmd[c].ns \in Namespace /\ cmd[c] \in Command
      /\ ~Inserts(cmd[c]) /\ ~Deletes(cmd[c]) /\ Replaces(cmd[c])
      /\ TargetTable(c) = TableOf[cmd[c].ns] /\ TargetTable(c) \in Table
  BY LoopCommand DEF Replaces, Deletes
<1>3. todo[c] \in Seq(Statement)
  BY DEF TypeInv, TypeOK
<1>4. CASE todo[c] = <<>> /\ pending[c] = {}
  BY <1>4, NothingLeft
<1>5. CASE /\ Reaches(todo[c], FilterFor(cmd[c], "after"), {ScanFor(cmd[c], "update")})
           /\ local[c].value # {} => Matching(c) # {}
  <2>1. todo[c] # <<>>
    BY <1>5 DEF Reaches
  <2>2. CASE pending[c] # {}
    <3>1. ReplaceDocument(c)
      BY <1>2, <2>2, NextWrite
    <3>2. PICK w \in pending[c] : \E new \in NewVersion(c, w) :
            /\ rows' = [rows EXCEPT ![TargetTable(c)] = Replaced(@, new)]
            /\ UNCHANGED << todo, local >>
      BY <3>1 DEF ReplaceDocument
    <3>3. PICK new \in NewVersion(c, w) :
            rows'[TargetTable(c)] = Replaced(rows[TargetTable(c)], new)
      BY <1>2, <3>2 DEF TypeInv, TypeOK
    <3>4. new \in Doc
      BY <1>2, <2>2, NewVersionType
    <3>5. Matching(c) # {} => Matching(c)' # {}
      <4>1. rows[TargetTable(c)] \in SUBSET Doc
        BY <1>2 DEF TypeInv, TypeOK
      <4> QED BY <1>1, <3>3, <3>4, <4>1, ReplacedKeepsIds DEF Matching, TargetTable
    <3> QED BY <1>1, <1>5, <3>2, <3>5 DEF Replacing
  <2>3. CASE pending[c] = {} /\ Stmt(c) \in Quiet
    <3>1. /\ UNCHANGED << rows, cmd, pending >> /\ todo'[c] = Tail(todo[c])
          /\ local'[c].value = local[c].value
      BY <2>1, <2>3, QuietReaches
    <3>2. Matching(c)' = Matching(c)
      BY <3>1 DEF Matching, TargetTable
    <3>3. Reaches(Tail(todo[c]), FilterFor(cmd[c], "after"), {ScanFor(cmd[c], "update")})
      <4>1. Stmt(c) # FilterFor(cmd[c], "after")
        BY <2>3 DEF Quiet, QuietOps, FilterFor
      <4> QED BY <1>3, <1>5, <4>1, ReachesMoves DEF Stmt
    <3> QED BY <1>5, <3>1, <3>2, <3>3 DEF Replacing
  <2>4. CASE pending[c] = {} /\ Stmt(c) = ScanFor(cmd[c], "update")
    <3>1. PICK docs \in Seq(Doc) :
            StartLoop(c, docs, UpdateWrites(cmd[c].updates, docs))
      BY <1>2, <2>1, <2>4, UpdateScan
    <3>2. /\ UNCHANGED << rows, cmd >> /\ todo'[c] = Tail(todo[c])
          /\ local'[c].value = local[c].value
      BY <3>1, StartedLoop
    <3>3. Matching(c)' = Matching(c)
      BY <3>2 DEF Matching, TargetTable
    <3>4. Reaches(Tail(todo[c]), FilterFor(cmd[c], "after"), {ScanFor(cmd[c], "update")})
      <4>1. Stmt(c) # FilterFor(cmd[c], "after")
        BY <2>4 DEF ScanFor, FilterFor
      <4> QED BY <1>3, <1>5, <4>1, ReachesMoves DEF Stmt
    <3> QED BY <1>5, <3>2, <3>3, <3>4 DEF Replacing
  <2>5. CASE pending[c] = {} /\ Stmt(c) = FilterFor(cmd[c], "after") /\ Tail(todo[c]) = <<>>
    <3>1. Stmt(c).op = "select" /\ Stmt(c).use = "after"
      BY <2>5 DEF FilterFor
    <3>2. \/ SelectForReply(c) \/ SelectBefore(c) \/ SelectAfter(c) \/ SelectForRename(c)
          \/ SelectForUpdate(c) \/ SelectForDelete(c)
      BY <2>1, <2>5, <3>1, NextStatement DEF ReadStep
    <3>3. SelectAfter(c)
      BY <3>1, <3>2 DEF SelectForReply, SelectBefore, SelectForUpdate, SelectForDelete,
                        SelectForRename, Selects
    <3>4. PICK docs \in Results(c) :
            /\ local' = [local EXCEPT ![c].value = IF docs = <<>> THEN @ ELSE Range(docs)]
            /\ todo' = [todo EXCEPT ![c] = Tail(todo[c])]
            /\ UNCHANGED << rows, pending >>
      BY <3>3 DEF SelectAfter, Advance, Goto, database
    <3>5. Matching(c)' = Matching(c)
      BY <1>1, <3>4 DEF Matching, TargetTable
    <3>6. Range(docs) = Matching(c) /\ (docs = <<>> <=> Matching(c) = {})
      BY <1>2, <2>5, ChosenResult DEF Matching
    <3>7. /\ local'[c].value = IF docs = <<>> THEN local[c].value ELSE Range(docs)
          /\ todo'[c] = <<>> /\ pending'[c] = {}
      BY <2>5, <3>4 DEF TypeInv, TypeOK, Local
    <3> QED BY <1>5, <3>5, <3>6, <3>7 DEF Replacing
  <2> QED BY <1>3, <1>5, <2>2, <2>3, <2>4, <2>5, ReachesMoves DEF Stmt
<1> QED BY <1>4, <1>5 DEF Replacing

LEMMA ModifyMoves ==
  ASSUME TypeInv, UniqueKeys, NEW c \in Conn, MatchAt(c), Step(c), ~Fail(c), ~Answer(c),
         ModifyAt(c)
  PROVE  ModifyAt(c)'
<1>1. cmd' = cmd
  BY CommandKept
<1>2. Alone(c)' <=> Alone(c)
  BY <1>1 DEF Alone, TargetTable
<1> SUFFICES ASSUME cmd[c].kind = "findAndModify", Alone(c),
                    NEW id \in Id, cmd[c].filter = Chosen(id)
             PROVE  \/ Before(c)'
                    \/ cmd[c].remove /\ Removing(c)'
                    \/ ~cmd[c].remove /\ (cmd[c].new => Replacing(c)')
  BY <1>1, <1>2 DEF ModifyAt
<1>3. CASE Before(c)
  BY <1>3, BeforeMoves
<1>4. CASE cmd[c].remove /\ Removing(c)
  BY <1>4, RemovingMoves
<1>5. CASE ~cmd[c].remove /\ (cmd[c].new => Replacing(c))
  BY <1>5, ReplacingMoves
<1> QED BY <1>3, <1>4, <1>5 DEF ModifyAt

\* The other connections' loops while o takes a step.
LEMMA OthersKeepLoops ==
  ASSUME TypeInv, FitsInv, SentInv, NEW o \in Conn, KeepsOthers(o),
         Issue(o) \/ Step(o) \/ Abort(o), NEW c \in Conn \ {o}, LoopsAt(c)
  PROVE  LoopsAt(c)'
<1>1. /\ cmd'[c] = cmd[c] /\ todo'[c] = todo[c] /\ pending'[c] = pending[c]
      /\ local'[c] = local[c]
  BY DEF KeepsOthers
<1>2. TargetTable(c)' = TargetTable(c) /\ (Alone(c)' <=> Alone(c))
  BY <1>1 DEF TargetTable, Alone
<1>3. cmd[c].kind \in {"update", "delete", "findAndModify"} /\ Alone(c) =>
        rows'[TargetTable(c)] = rows[TargetTable(c)]
  BY LoopCommand, WritersOnly DEF Alone
<1>4. DeleteAt(c)'
  BY <1>1, <1>2, <1>3 DEF LoopsAt, DeleteAt, Deleting
<1>5. UpdateAt(c)'
  BY <1>1, <1>2, <1>3 DEF LoopsAt, UpdateAt, Updating
<1>6. ModifyAt(c)'
  <2>1. cmd[c].kind = "findAndModify" /\ Alone(c) => Matching(c)' = Matching(c)
    BY <1>1, <1>2, <1>3 DEF Matching
  <2>2. (Before(c) => Before(c)')
    BY <1>1 DEF Before
  <2>3. cmd[c].kind = "findAndModify" /\ Alone(c) =>
          (Removing(c) => Removing(c)') /\ (Replacing(c) => Replacing(c)')
    BY <1>1, <2>1 DEF Removing, Replacing
  <2> QED BY <1>1, <1>2, <2>2, <2>3 DEF LoopsAt, ModifyAt
<1>7. BlankAt(c)'
  BY <1>1 DEF LoopsAt, BlankAt
<1> QED BY <1>4, <1>5, <1>6, <1>7 DEF LoopsAt

\* A command starts on its way to its scan or find.
LEMMA IssueStartsLoops ==
  ASSUME TypeInv, NEW c \in Conn, BlankAt(c), Issue(c)
  PROVE  LoopsAt(c)'
<1>1. PICK m \in unsent[c] :
        /\ cmd[c] = Idle /\ cmd' = [cmd EXCEPT ![c] = m] /\ Goto(c, Program(m))
        /\ local' = [local EXCEPT ![c].found = IF m.kind = "insert" THEN m.docs ELSE <<>>]
        /\ UNCHANGED pending
  BY DEF Issue
<1>2. m \in Command /\ cmd'[c] = m /\ todo'[c] = Program(m)
  BY <1>1, SendableType DEF Goto, TypeInv, TypeOK
<1>3. pending'[c] = {}
  BY <1>1 DEF TypeInv, LoopInv, LoopAt
<1>4. /\ m.kind # "insert" => local'[c].found = <<>>
      /\ local'[c].value = {}
  BY <1>1 DEF BlankAt, TypeInv, TypeOK, Local
<1>5. ASSUME m.kind = "delete"
      PROVE  Reaches(Program(m), ScanFor(m, "delete"), {})
  <2>1. m.ns \in Namespace
    BY <1>2, <1>5, CommandFields
  <2>2. Program(m) = Find(m.ns, AnyDoc, 0, "delete")
    BY <1>5 DEF Program, Delete
  <2> QED BY <2>1, <2>2, FindReaches DEF ScanFor
<1>6. ASSUME m.kind = "findAndModify"
      PROVE  Reaches(Program(m), FilterFor(m, "before"), {})
  <2>1. m.ns \in Namespace
    BY <1>2, <1>6, CommandFields
  <2>2. Program(m) = Find(m.ns, m.filter, 1, "before")
    BY <1>6 DEF Program
  <2> QED BY <2>1, <2>2, FindReaches DEF FilterFor
<1>7. ASSUME m.kind = "update"
      PROVE  Reaches(Program(m), ScanFor(m, "update"), {})
  <2>1. m.ns \in Namespace
    BY <1>2, <1>7, CommandFields
  <2>2. PICK p : p = Program(m)
    OBVIOUS
  <2>3. p = Update(m.ns)
    BY <1>7, <2>2 DEF Program
  <2>4. /\ Len(p) = 5 /\ p[5] = ScanFor(m, "update")
        /\ \A i \in 1..4 : p[i] \in Quiet
    BY <2>1, <2>3, UpdateReaches DEF ScanFor
  <2>5. p # <<>>
    <3>1. PICK k \in Nat : k = Len(p) /\ k # 0
      BY <2>4
    <3>2. p = <<>> => Len(p) = 0
      BY EmptySeq
    <3> QED BY <3>1, <3>2
  <2> QED BY <2>2, <2>4, <2>5 DEF Reaches
<1>8. DeleteAt(c)' /\ UpdateAt(c)'
  BY <1>2, <1>3, <1>5, <1>7 DEF DeleteAt, UpdateAt
<1>9. ModifyAt(c)'
  <2>1. m.kind = "findAndModify" => Before(c)'
    BY <1>2, <1>3, <1>4, <1>6 DEF Before
  <2> QED BY <1>2, <2>1 DEF ModifyAt
<1>10. BlankAt(c)'
  BY <1>4 DEF BlankAt
<1> QED BY <1>8, <1>9, <1>10 DEF LoopsAt

LEMMA NextLoops ==
  ASSUME TypeInv, FitsInv, ShapeInv, UniqueKeys, SentInv, LoopsInv, [Next]_vars
  PROVE  LoopsInv'
<1>1. CASE UNCHANGED vars \/ Done
  <2>1. UNCHANGED << rows, cmd, todo, pending, local >>
    BY <1>1 DEF vars, Done
  <2> SUFFICES ASSUME NEW c \in Conn PROVE LoopsAt(c)'
    BY DEF LoopsInv
  <2>2. LoopsAt(c)
    BY DEF LoopsInv
  <2>3. /\ (Alone(c)' <=> Alone(c)) /\ TargetTable(c)' = TargetTable(c)
        /\ Matching(c)' = Matching(c)
    BY <2>1 DEF Alone, TargetTable, Matching
  <2>4. DeleteAt(c)'
    BY <2>1, <2>2, <2>3 DEF LoopsAt, DeleteAt, Deleting
  <2>5. UpdateAt(c)'
    BY <2>1, <2>2, <2>3 DEF LoopsAt, UpdateAt, Updating
  <2>6. ModifyAt(c)'
    BY <2>1, <2>2, <2>3 DEF LoopsAt, ModifyAt, Before, Removing, Replacing
  <2> QED BY <2>1, <2>2, <2>4, <2>5, <2>6 DEF LoopsAt, BlankAt
<1>2. ASSUME NEW o \in Conn, Issue(o) \/ Step(o) \/ Abort(o), LoopsAt(o)'
      PROVE  LoopsInv'
  <2>1. KeepsOthers(o)
    BY <1>2, OthersKept DEF TypeInv
  <2> QED BY <1>2, <2>1, OthersKeepLoops DEF LoopsInv
<1>3. ASSUME NEW o \in Conn, Issue(o) PROVE LoopsAt(o)'
  BY <1>3, IssueStartsLoops DEF LoopsInv, LoopsAt
<1>4. ASSUME NEW o \in Conn, Abort(o) \/ Fail(o) \/ Answer(o) PROVE LoopsAt(o)'
  <2>1. PICK ok : End(o, ok)
    BY <1>4 DEF Abort, Fail, Answer
  <2>2. cmd'[o] = Idle /\ local'[o].value = {}
    BY <2>1 DEF End, Blank, TypeInv, TypeOK
  <2> QED BY <2>2 DEF LoopsAt, DeleteAt, UpdateAt, ModifyAt, BlankAt, Idle
<1>5. ASSUME NEW o \in Conn, Step(o), ~Fail(o), ~Answer(o) PROVE LoopsAt(o)'
  <2>1. LoopsAt(o) /\ MatchAt(o)
    BY DEF LoopsInv, ShapeInv, ShapeAt
  <2>2. cmd[o] # Idle
    <3>1. cmd[o] = Idle => pending[o] = {} /\ todo[o] = <<>>
      BY DEF TypeInv, LoopInv, LoopAt, FitsInv, FitsAt
    <3> QED BY <1>5, <3>1, NothingLeft
  <2>3. BlankAt(o)'
    BY <1>5, <2>2, CommandKept DEF BlankAt
  <2> QED BY <1>5, <2>1, <2>3, DeleteMoves, UpdateMoves, ModifyMoves DEF LoopsAt
<1> QED BY <1>1, <1>2, <1>3, <1>4, <1>5 DEF Next

LEMMA LoopsInvariant == Spec => [](TypeInv /\ LoopsInv)
<1>1. Init => SentInv /\ LoopsInv
  <2>1. Init => SentInv
    BY MenusAssumption DEF Init, SentInv, Sends
  <2>2. ASSUME Init, NEW c \in Conn PROVE LoopsAt(c)
    <3>1. cmd[c] = Idle /\ cmd[c].kind = "idle" /\ local[c].value = {}
      BY <2>2 DEF Init, Blank, Idle
    <3> QED BY <3>1 DEF LoopsAt, DeleteAt, UpdateAt, ModifyAt, BlankAt
  <2> QED BY <2>1, <2>2 DEF LoopsInv
<1>2. TypeInv /\ FitsInv /\ ShapeInv /\ UniqueKeys /\ SentInv /\ LoopsInv /\ [Next]_vars =>
        SentInv' /\ LoopsInv'
  BY NextSent, NextLoops
<1> QED BY <1>1, <1>2, ProgramsInvariant, KeysAreUnique, PTL DEF Spec

-----------------------------------------------------------------------------
(* What the loops have done when they are through. *)

HitDocuments(model, docs) == {docs[i] : i \in Hits(model, docs)}

\* A model with multi hits all it matches, one without it hits one of them.
LEMMA HitsCount ==
  ASSUME NEW model, NEW docs \in Seq(Doc)
  PROVE  LET matched == Range(docs) \cap model.matches
             hit == HitDocuments(model, docs)
         IN  /\ hit \subseteq matched
             /\ IF model.multi \/ matched = {} THEN hit = matched ELSE Cardinality(hit) = 1
<1> DEFINE matched == Range(docs) \cap model.matches
           hits == Hits(model, docs)
           hit == HitDocuments(model, docs)
<1>1. hit \subseteq matched
  BY DEF HitDocuments, Hits, Range
<1>2. CASE model.multi
  <2>1. hits = {i \in DOMAIN docs : docs[i] \in model.matches}
    BY <1>2 DEF Hits
  <2>2. matched \subseteq hit
    BY <2>1 DEF HitDocuments, Range
  <2> QED BY <1>1, <1>2, <2>2
<1>3. CASE matched = {}
  BY <1>1, <1>3
<1>4. CASE ~model.multi /\ matched # {}
  <2>1. PICK i \in hits : TRUE
    BY <1>4, SomeHit
  <2>2. \A k \in hits : k = i
    <3> SUFFICES ASSUME NEW k \in hits, k # i PROVE FALSE
      OBVIOUS
    <3>1. /\ i \in Nat /\ i >= 1 /\ docs[i] \in model.matches
          /\ \A j \in 1..(i - 1) : docs[j] \notin model.matches
      BY <1>4, LenProperties DEF Hits
    <3>2. /\ k \in Nat /\ k >= 1 /\ docs[k] \in model.matches
          /\ \A j \in 1..(k - 1) : docs[j] \notin model.matches
      BY <1>4, LenProperties DEF Hits
    <3>3. i \in 1..(k - 1) \/ k \in 1..(i - 1)
      BY <3>1, <3>2
    <3> QED BY <3>1, <3>2, <3>3
  <2>3. hit = {docs[i]}
    BY <2>1, <2>2 DEF HitDocuments
  <2> QED BY <1>1, <1>4, <2>3, FS_Singleton
<1> QED BY <1>1, <1>2, <1>3, <1>4

\* A model without multi has one hit.
LEMMA OneHit ==
  ASSUME NEW model, NEW docs \in Seq(Doc), NEW i \in Hits(model, docs), NEW k \in Hits(model, docs),
         i # k
  PROVE  model.multi
<1> SUFFICES ASSUME ~model.multi PROVE FALSE
  OBVIOUS
<1>1. /\ i \in Nat /\ i >= 1 /\ docs[i] \in model.matches
      /\ \A j \in 1..(i - 1) : docs[j] \notin model.matches
  BY LenProperties DEF Hits
<1>2. /\ k \in Nat /\ k >= 1 /\ docs[k] \in model.matches
      /\ \A j \in 1..(k - 1) : docs[j] \notin model.matches
  BY LenProperties DEF Hits
<1>3. i \in 1..(k - 1) \/ k \in 1..(i - 1)
  BY <1>1, <1>2
<1> QED BY <1>1, <1>2, <1>3

\* A list with an entry of its own for each write is as long as the loop.
LEMMA OneEach ==
  ASSUME NEW all, IsFiniteSet(all), NEW list, NEW f \in [all -> list],
         \A w, x \in all : f[w] = f[x] => w = x, \A y \in list : \E w \in all : f[w] = y
  PROVE  Cardinality(all) = Cardinality(list)
<1>1. f \in Injection(all, list) /\ f \in Surjection(all, list)
  BY DEF Injection, IsInjective, Surjection
<1> QED BY <1>1, FS_Surjection

\* A delete that is acknowledged has deleted, model by model, what the model
\* matches or one of the documents it matches, nothing else, and counts them
\* (store.go:308-335).
LEMMA DeleteIsDone ==
  ASSUME NEW models \in Seq(DeleteModel), NEW docs \in Seq(Doc), Snapshot(docs), NEW stored,
         Deleted(docs, DeleteWrites(models, docs), {}, stored),
         NEW hit, hit = [j \in DOMAIN models |-> HitDocuments(models[j], docs)]
  PROVE  /\ stored = Range(docs) \ UNION {hit[j] : j \in DOMAIN models}
         /\ Cardinality(DeleteWrites(models, docs))
              = Cardinality(UNION {{j} \X hit[j] : j \in DOMAIN models})
<1> DEFINE all == DeleteWrites(models, docs)
           list == UNION {{j} \X hit[j] : j \in DOMAIN models}
           f == [w \in all |-> << w[1], docs[w[2]] >>]
<1>1. \A w \in all : /\ w = << w[1], w[2] >> /\ w[1] \in DOMAIN models
                     /\ w[2] \in Hits(models[w[1]], docs) /\ w[2] \in DOMAIN docs
                     /\ docs[w[2]] \in hit[w[1]]
  BY DEF DeleteWrites, HitDocuments
<1>2. \A j \in DOMAIN models : \A d \in hit[j] :
        d \in Range(docs) /\ \E w \in all : w[1] = j /\ docs[w[2]] = d
  <2> SUFFICES ASSUME NEW j \in DOMAIN models, NEW d \in hit[j]
               PROVE  d \in Range(docs) /\ \E w \in all : w[1] = j /\ docs[w[2]] = d
    OBVIOUS
  <2>1. PICK i \in Hits(models[j], docs) : d = docs[i]
    BY DEF HitDocuments
  <2>2. i \in DOMAIN docs
    BY DEF Hits
  <2>3. PICK w : w = << j, i >>
    OBVIOUS
  <2>4. w \in all /\ w[1] = j /\ w[2] = i
    BY <2>2, <2>3 DEF DeleteWrites
  <2> QED BY <2>1, <2>2, <2>4 DEF Range
<1>3. \A d \in Range(docs), i \in DOMAIN docs : d.id = docs[i].id => d = docs[i]
  BY DEF Range, Snapshot
<1>4. stored = Range(docs) \ UNION {hit[j] : j \in DOMAIN models}
  <2>1. stored = {d \in Range(docs) : \A w \in all : d.id # docs[w[2]].id}
    BY DEF Deleted
  <2>2. \A d \in Range(docs) : (\A w \in all : d.id # docs[w[2]].id)
                                <=> d \notin UNION {hit[j] : j \in DOMAIN models}
    <3> HIDE DEF all
    <3>1. ASSUME NEW d \in Range(docs), NEW w \in all, d.id = docs[w[2]].id
          PROVE  d \in UNION {hit[j] : j \in DOMAIN models}
      <4>1. d = docs[w[2]]
        BY <1>1, <1>3, <3>1
      <4> QED BY <1>1, <4>1
    <3>2. ASSUME NEW d \in Range(docs), NEW j \in DOMAIN models, d \in hit[j]
          PROVE  \E w \in all : d.id = docs[w[2]].id
      BY <1>2, <3>2
    <3> QED BY <3>1, <3>2
  <2> HIDE DEF all
  <2> QED BY <2>1, <2>2
<1>5. IsFiniteSet(all)
  <2>1. PICK n \in Nat : n = Len(models) /\ DOMAIN models = 1..n
    BY LenProperties
  <2>2. all \subseteq (1..n) \X (1..Len(docs))
    BY <2>1, DeleteWritesType
  <2>3. IsFiniteSet(1..n) /\ IsFiniteSet(1..Len(docs))
    BY LenProperties, FS_Interval
  <2> QED BY <2>2, <2>3, FS_Product, FS_Subset
<1>6. f \in [all -> list]
  <2>1. \A w \in all : << w[1], docs[w[2]] >> \in list
    <3> HIDE DEF all
    <3> QED BY <1>1
  <2> QED BY <2>1
<1>7. \A w, x \in all : f[w] = f[x] => w = x
  <2> SUFFICES ASSUME NEW w \in all, NEW x \in all, f[w] = f[x] PROVE w = x
    OBVIOUS
  <2>1. w[1] = x[1] /\ docs[w[2]] = docs[x[2]]
    OBVIOUS
  <2>2. w[2] = x[2]
    BY <1>1, <2>1 DEF Snapshot
  <2> HIDE DEF all
  <2> QED BY <1>1, <2>1, <2>2
<1>8. \A y \in list : \E w \in all : f[w] = y
  <2> SUFFICES ASSUME NEW y \in list PROVE \E w \in all : f[w] = y
    OBVIOUS
  <2>1. PICK j \in DOMAIN models : \E d \in hit[j] : y = << j, d >>
    OBVIOUS
  <2>2. PICK w \in all : y = << j, docs[w[2]] >> /\ w[1] = j
    BY <1>2, <2>1
  <2>3. f[w] = << w[1], docs[w[2]] >>
    OBVIOUS
  <2> QED BY <2>2, <2>3
<1> HIDE DEF all, list, f
<1>9. Cardinality(all) = Cardinality(list)
  BY <1>5, <1>6, <1>7, <1>8, OneEach
<1> QED BY <1>4, <1>9 DEF all, list

THEOREM DeletesAreExact == Spec => []AckedDeleteIsExact
<1>1. TypeInv /\ LoopsInv => AckedDeleteIsExact
  <2> SUFFICES ASSUME TypeInv, LoopsInv, NEW c \in Conn, FinishedAlone(c, "delete")
               PROVE  LET before == Range(local[c].found)
                          models == cmd[c].deletes
                      IN  \E hit \in [DOMAIN models -> SUBSET before] :
                            /\ \A j \in DOMAIN models :
                                 IsHit(hit[j], before \cap models[j].matches, models[j].multi)
                            /\ rows[TargetTable(c)] = before \ UNION {hit[j] : j \in DOMAIN models}
                            /\ local[c].count
                                 = Cardinality(UNION {{j} \X hit[j] : j \in DOMAIN models})
    BY DEF AckedDeleteIsExact
  <2>1. /\ cmd[c].kind = "delete" /\ todo[c] = <<>> /\ pending[c] = {} /\ Alone(c)
        /\ Deleting(c)
    BY DEF FinishedAlone, Alone, LoopsInv, LoopsAt, DeleteAt, Reaches
  <2>2. PICK docs \in Seq(Doc) : docs = local[c].found
    BY DEF TypeInv, TypeOK, Local
  <2>3. PICK models \in Seq(DeleteModel) : models = cmd[c].deletes
    BY <2>1, LoopCommand, CommandFields
  <2>4. /\ Snapshot(docs) /\ local[c].count = Cardinality(DeleteWrites(models, docs))
        /\ Deleted(docs, DeleteWrites(models, docs), {}, rows[TargetTable(c)])
    BY <2>1, <2>2, <2>3 DEF Deleting, DeletesOf
  <2>5. PICK hit : hit = [j \in DOMAIN models |-> HitDocuments(models[j], docs)]
    OBVIOUS
  <2>6. \A j \in DOMAIN models :
          /\ hit[j] \subseteq Range(docs)
          /\ IsHit(hit[j], Range(docs) \cap models[j].matches, models[j].multi)
    BY <2>5, HitsCount DEF IsHit
  <2>7. hit \in [DOMAIN models -> SUBSET Range(docs)]
    BY <2>5, <2>6
  <2>8. /\ rows[TargetTable(c)] = Range(docs) \ UNION {hit[j] : j \in DOMAIN models}
        /\ local[c].count = Cardinality(UNION {{j} \X hit[j] : j \in DOMAIN models})
    BY <2>4, <2>5, DeleteIsDone
  <2> QED BY <2>2, <2>3, <2>6, <2>7, <2>8
<1> QED BY <1>1, LoopsInvariant, PTL

\* What the writes of one model make.
MadeBy(model, docs, hit) ==
  IF Range(docs) \cap model.matches = {} THEN model.upsert
  ELSE UNION {model.apply[d] : d \in hit}

LEMMA WritesMake ==
  ASSUME NEW models \in Seq(UpdateModel), NEW docs \in Seq(Doc), NEW j \in DOMAIN models,
         \A k \in DOMAIN models : MakesOne(models[k]), NEW e
  PROVE  e \in MadeBy(models[j], docs, HitDocuments(models[j], docs))
           <=> \E w \in UpdateWrites(models, docs) : w[1] = j /\ e \in Version(models, docs, w)
<1> DEFINE model == models[j]
           all == UpdateWrites(models, docs)
           matched == Range(docs) \cap model.matches
           made == MadeBy(model, docs, HitDocuments(model, docs))
<1>1. /\ HitDocuments(model, docs) \subseteq matched
      /\ matched # {} => Hits(model, docs) # {}
  BY HitsCount, SomeHit
<1>2. matched = {} <=> Hits(model, docs) = {}
  BY <1>1 DEF HitDocuments
<1>3. ASSUME NEW w \in all, w[1] = j, e \in Version(models, docs, w) PROVE e \in made
  <2>1. CASE w[2] = 0
    BY <1>2, <1>3, <2>1, OneVersion DEF MadeBy
  <2>2. CASE w[2] # 0
    <3>1. w[2] \in Hits(model, docs) /\ e \in model.apply[docs[w[2]]]
      BY <1>3, <2>2, OneVersion
    <3>2. docs[w[2]] \in HitDocuments(model, docs)
      BY <3>1 DEF HitDocuments
    <3> HIDE DEF model
    <3> QED BY <1>2, <3>1, <3>2 DEF MadeBy
  <2> QED BY <2>1, <2>2
<1>4. ASSUME e \in made PROVE \E w \in all : w[1] = j /\ e \in Version(models, docs, w)
  <2>1. CASE matched = {}
    <3>1. e \in model.upsert
      BY <1>4, <2>1 DEF MadeBy
    <3>2. PICK w : w = << j, 0 >>
      OBVIOUS
    <3>3. 0 \in 0..Len(docs) /\ w[1] = j /\ w[2] = 0
      BY <3>2, LenProperties
    <3>4. w \in all
      BY <1>2, <2>1, <3>1, <3>2, <3>3 DEF UpdateWrites
    <3>5. e \in Version(models, docs, w)
      BY <3>1, <3>3 DEF Version
    <3> QED BY <3>3, <3>4, <3>5
  <2>2. CASE matched # {}
    <3>1. PICK i \in Hits(model, docs) : e \in model.apply[docs[i]]
      <4> HIDE DEF model
      <4> QED BY <1>4, <2>2 DEF MadeBy, HitDocuments
    <3>2. PICK w : w = << j, i >>
      OBVIOUS
    <3>3. i \in 0..Len(docs) /\ i # 0 /\ w[1] = j /\ w[2] = i
      BY <3>2, LenProperties DEF Hits
    <3>4. w \in all
      BY <3>2, <3>3 DEF UpdateWrites
    <3>5. e \in Version(models, docs, w)
      BY <3>1, <3>3 DEF Version
    <3> QED BY <3>3, <3>4, <3>5
  <2> QED BY <2>1, <2>2
<1> QED BY <1>3, <1>4

\* Two writes of one model store documents with different _ids.
LEMMA VersionsDiffer ==
  ASSUME NEW models \in Seq(UpdateModel), NEW docs \in Seq(Doc), Snapshot(docs),
         \A k \in DOMAIN models : MakesOne(models[k]),
         NEW w \in UpdateWrites(models, docs), NEW x \in UpdateWrites(models, docs), w[1] = x[1],
         NEW e \in Version(models, docs, w), NEW f \in Version(models, docs, x), e.id = f.id
  PROVE  w = x
<1>1. w \in Nat \X Nat /\ x \in Nat \X Nat /\ w[1] \in DOMAIN models
  BY OneVersion
<1>2. SUFFICES w[2] = x[2]
  BY <1>1
<1>3. CASE w[2] = 0
  <2>1. Hits(models[w[1]], docs) = {}
    BY <1>3, OneVersion
  <2> QED BY <1>3, <2>1, OneVersion
<1>4. CASE x[2] = 0
  <2>1. Hits(models[w[1]], docs) = {}
    BY <1>4, OneVersion
  <2> QED BY <1>4, <2>1, OneVersion
<1>5. CASE w[2] # 0 /\ x[2] # 0
  <2>1. /\ w[2] \in Hits(models[w[1]], docs) /\ w[2] \in DOMAIN docs /\ docs[w[2]] \in Doc
        /\ e \in models[w[1]].apply[docs[w[2]]]
    BY <1>5, OneVersion
  <2>2. /\ x[2] \in Hits(models[w[1]], docs) /\ x[2] \in DOMAIN docs /\ docs[x[2]] \in Doc
        /\ f \in models[w[1]].apply[docs[x[2]]]
    BY <1>5, OneVersion
  <2>3. SUFFICES ASSUME w[2] # x[2] PROVE FALSE
    OBVIOUS
  <2>4. models[w[1]].multi
    BY <2>1, <2>2, <2>3, OneHit
  <2>5. MakesOne(models[w[1]])
    BY <1>1
  <2>6. e.id = docs[w[2]].id /\ f.id = docs[x[2]].id
    BY <2>1, <2>2, <2>4, <2>5 DEF MakesOne
  <2> QED BY <2>1, <2>2, <2>3, <2>6 DEF Snapshot
<1> QED BY <1>3, <1>4, <1>5

LEMMA UpdateIsDone ==
  ASSUME NEW models \in Seq(UpdateModel), NEW docs \in Seq(Doc), Snapshot(docs),
         \A k \in DOMAIN models : MakesOne(models[k]), NEW stored,
         Updated(models, docs, UpdateWrites(models, docs), {}, stored)
  PROVE  IsUpdated(Range(docs), models, stored, Cardinality(UpdateWrites(models, docs)))
<1> DEFINE all == UpdateWrites(models, docs)
           V(w) == Version(models, docs, w)
           hit == [j \in DOMAIN models |-> HitDocuments(models[j], docs)]
           made(j) == MadeBy(models[j], docs, hit[j])
           final(j) == {e \in made(j) : \A k \in DOMAIN models :
                                          k > j => \A f \in made(k) : f.id # e.id}
           list == UNION {{j} \X made(j) : j \in DOMAIN models}
           g == [w \in all |-> << w[1], CHOOSE e \in V(w) : TRUE >>]
<1>1. \A j \in DOMAIN models :
        /\ hit[j] \subseteq Range(docs)
        /\ IsHit(hit[j], Range(docs) \cap models[j].matches, models[j].multi)
  BY HitsCount DEF IsHit
<1>2. hit \in [DOMAIN models -> SUBSET Range(docs)]
  BY <1>1
<1>3. \A j \in DOMAIN models : \A e : e \in made(j) <=> \E w \in all : w[1] = j /\ e \in V(w)
  BY WritesMake
<1>4. \A w \in all : /\ w[1] \in DOMAIN models /\ w[1] \in Nat /\ w[2] \in Nat
                     /\ V(w) # {} /\ \A e, f \in V(w) : e = f
  <2>1. \A w \in all : /\ w[1] \in DOMAIN models /\ w \in Nat \X Nat
                       /\ \A e, f \in V(w) : e = f
    BY OneVersion
  <2>2. \A w \in all : V(w) # {}
    BY DEF Updated
  <2> HIDE DEF all, V
  <2> QED BY <2>1, <2>2
<1>5. \A w, x \in all : w[1] = x[1] /\ (\E e \in V(w), f \in V(x) : e.id = f.id) => w = x
  BY VersionsDiffer
<1>6. stored = {d \in Range(docs) : \A w \in all : \A e \in V(w) : e.id # d.id}
                 \cup UNION {Last(models, docs, all, w) : w \in all}
  BY DEF Updated, Result, Kept
<1>7. {d \in Range(docs) : \A w \in all : \A e \in V(w) : e.id # d.id}
        = {d \in Range(docs) : \A j \in DOMAIN models : \A e \in made(j) : e.id # d.id}
  <2> HIDE DEF all, V, made
  <2> QED BY <1>3, <1>4
<1>8. UNION {Last(models, docs, all, w) : w \in all} = UNION {final(j) : j \in DOMAIN models}
  <2>1. ASSUME NEW w \in all, NEW e \in Last(models, docs, all, w) PROVE e \in final(w[1])
    <3>1. e \in V(w) /\ \A x \in all : Precedes(w, x) => \A f \in V(x) : f.id # e.id
      BY <2>1 DEF Last
    <3>2. e \in made(w[1])
      BY <1>3, <1>4, <3>1
    <3>3. ASSUME NEW k \in DOMAIN models, k > w[1], NEW f \in made(k) PROVE f.id # e.id
      <4>1. PICK x \in all : x[1] = k /\ f \in V(x)
        BY <1>3, <3>3
      <4>2. Precedes(w, x)
        BY <3>3, <4>1 DEF Precedes
      <4> QED BY <3>1, <4>1, <4>2
    <3> QED BY <3>2, <3>3
  <2>2. ASSUME NEW j \in DOMAIN models, NEW e \in final(j)
        PROVE  \E w \in all : e \in Last(models, docs, all, w)
    <3>1. /\ e \in made(j)
          /\ \A k \in DOMAIN models : k > j => \A f \in made(k) : f.id # e.id
      BY <2>2
    <3>2. PICK w \in all : w[1] = j /\ e \in V(w)
      BY <1>3, <3>1
    <3>3. ASSUME NEW x \in all, Precedes(w, x), NEW f \in V(x), f.id = e.id PROVE FALSE
      <4>1. x[1] \in DOMAIN models /\ f \in made(x[1])
        BY <1>3, <1>4
      <4>2. ~(x[1] > j)
        BY <3>1, <3>3, <4>1
      <4>3. x[1] = w[1]
        BY <1>4, <3>2, <3>3, <4>2 DEF Precedes
      <4>4. x = w
        BY <1>5, <3>2, <3>3, <4>3
      <4> QED BY <1>4, <3>3, <4>4 DEF Precedes
    <3>4. e \in Last(models, docs, all, w)
      BY <3>2, <3>3 DEF Last
    <3> QED BY <3>4
  <2>3. \A w \in all : w[1] \in DOMAIN models
    BY <1>4
  <2> HIDE DEF all, final
  <2> QED BY <2>1, <2>2, <2>3
<1>9. Cardinality(all) = Cardinality(list)
  <2>1. IsFiniteSet(all)
    <3>1. all \subseteq (1..Len(models)) \X (0..Len(docs))
      BY UpdateWritesType
    <3>2. IsFiniteSet(1..Len(models)) /\ IsFiniteSet(0..Len(docs))
      BY LenProperties, FS_Interval
    <3> QED BY <3>1, <3>2, FS_Product, FS_Subset
  <2>2. \A w \in all : \A e \in V(w) : g[w] = << w[1], e >>
    BY <1>4
  <2>3. g \in [all -> list]
    <3>1. \A w \in all : g[w] \in list
      <4> SUFFICES ASSUME NEW w \in all PROVE g[w] \in list
        OBVIOUS
      <4>1. PICK e \in V(w) : TRUE
        BY <1>4
      <4>2. w[1] \in DOMAIN models /\ e \in made(w[1])
        BY <1>3, <1>4
      <4>3. << w[1], e >> \in list
        <5> HIDE DEF made
        <5> QED BY <4>2
      <4> QED BY <2>2, <4>3
    <3> QED BY <3>1
  <2>4. \A w, x \in all : g[w] = g[x] => w = x
    <3> SUFFICES ASSUME NEW w \in all, NEW x \in all, g[w] = g[x] PROVE w = x
      OBVIOUS
    <3>1. PICK e \in V(w) : g[w] = << w[1], e >>
      BY <1>4, <2>2
    <3>2. PICK f \in V(x) : g[x] = << x[1], f >>
      BY <1>4, <2>2
    <3>3. << w[1], e >> = << x[1], f >>
      <4> HIDE DEF g
      <4> QED BY <3>1, <3>2
    <3>4. w[1] = x[1] /\ e = f
      BY <3>3
    <3> QED BY <1>5, <3>4
  <2>5. \A y \in list : \E w \in all : g[w] = y
    <3> SUFFICES ASSUME NEW y \in list PROVE \E w \in all : g[w] = y
      OBVIOUS
    <3>1. PICK j \in DOMAIN models : \E e \in made(j) : y = << j, e >>
      <4> HIDE DEF made
      <4> QED OBVIOUS
    <3>2. PICK e \in made(j) : y = << j, e >>
      BY <3>1
    <3>3. PICK w \in all : w[1] = j /\ e \in V(w)
      BY <1>3
    <3> HIDE DEF g
    <3> QED BY <2>2, <3>2, <3>3
  <2> HIDE DEF all, list, g
  <2> QED BY <2>1, <2>3, <2>4, <2>5, OneEach
<1>10. stored = {d \in Range(docs) : \A j \in DOMAIN models : \A e \in made(j) : e.id # d.id}
                  \cup UNION {final(j) : j \in DOMAIN models}
  BY <1>6, <1>7, <1>8
<1> HIDE DEF all, hit
<1> QED BY <1>1, <1>2, <1>9, <1>10 DEF IsUpdated, MadeBy, all

\* An update that is acknowledged has changed, model by model, what the model
\* matches, or one of the documents it matches, or inserted its upsert, nothing
\* else, and counts them (store.go:256-305).
THEOREM UpdatesAreExact == Spec => []AckedUpdateIsExact
<1>1. TypeInv /\ LoopsInv => AckedUpdateIsExact
  <2> SUFFICES ASSUME TypeInv, LoopsInv, NEW c \in Conn, FinishedAlone(c, "update"),
                      \A j \in DOMAIN cmd[c].updates : MakesOne(cmd[c].updates[j])
               PROVE  IsUpdated(Range(local[c].found), cmd[c].updates,
                                rows[TargetTable(c)], local[c].count)
    BY DEF AckedUpdateIsExact
  <2>1. /\ cmd[c].kind = "update" /\ todo[c] = <<>> /\ pending[c] = {} /\ Alone(c)
        /\ Updating(c)
    BY DEF FinishedAlone, Alone, LoopsInv, LoopsAt, UpdateAt, Reaches
  <2>2. PICK docs \in Seq(Doc) : docs = local[c].found
    BY DEF TypeInv, TypeOK, Local
  <2>3. PICK models \in Seq(UpdateModel) : models = cmd[c].updates
    BY <2>1, LoopCommand, CommandFields
  <2>4. /\ Snapshot(docs) /\ local[c].count = Cardinality(UpdateWrites(models, docs))
        /\ Updated(models, docs, UpdateWrites(models, docs), {}, rows[TargetTable(c)])
    BY <2>1, <2>2, <2>3 DEF Updating
  <2> QED BY <2>2, <2>3, <2>4, UpdateIsDone
<1> QED BY <1>1, LoopsInvariant, PTL

\* A findAndModify by _id answers with the document as it is stored when it is
\* asked for the new one, with the removed one when it removes it
\* (handler.go:242-289).
THEOREM ModifiesReturnTheirWrites == Spec => []FindAndModifyReturnsItsWrite
<1>1. LoopsInv => FindAndModifyReturnsItsWrite
  <2> SUFFICES ASSUME LoopsInv, NEW c \in Conn, NEW id \in Id,
                      FinishedAlone(c, "findAndModify"), cmd[c].filter = Chosen(id)
               PROVE  IF cmd[c].remove
                      THEN /\ Matching(c) = {}
                           /\ local[c].value = Range(local[c].found) \cap cmd[c].filter
                      ELSE cmd[c].new => local[c].value = Matching(c)
    BY DEF FindAndModifyReturnsItsWrite, Chosen, Matching
  <2>1. /\ cmd[c].kind = "findAndModify" /\ Alone(c)
        /\ todo[c] = <<>> /\ pending[c] = {}
    BY DEF FinishedAlone, Alone
  <2>2. \A last, more : ~Reaches(todo[c], last, more)
    BY <2>1 DEF Reaches
  <2>3. \/ cmd[c].remove /\ Removing(c)
        \/ ~cmd[c].remove /\ (cmd[c].new => Replacing(c))
    BY <2>1, <2>2 DEF LoopsInv, LoopsAt, ModifyAt, Before
  <2> QED BY <2>1, <2>2, <2>3 DEF Removing, Replacing
<1> QED BY <1>1, LoopsInvariant, PTL

-----------------------------------------------------------------------------
(* Documents and the catalog: what is stored is registered. *)

\* The statements documents are stored with, and by which a collection is
\* registered before them.
Storing(s) == s.op \in {"readValidator", "commit"} \/ (s.op = "select" /\ s.use = "update")
Prepared(s, i) ==
  \A j \in (i + 1)..Len(s) :
    Storing(s[j]) => \E k \in (i + 1)..(j - 1) : s[k].op = "upsertRow"

\* The order of the statements of command m, from any of them on: a catalog row
\* is deleted right after its table is dropped.
Tidy(s, m) ==
  \A i \in 1..Len(s) :
    /\ s[i].op = "deleteRow" =>
         /\ TableOf[s[i].ns] \in Droppable(m) /\ Prepared(s, i)
         /\ i > 1 => s[i - 1] = DropTableOf(TableOf[s[i].ns])
    /\ s[i].op = "upsertRow" => s[i].ns \in Registers(m)
    /\ s[i].op = "readValidator" => i < Len(s) /\ s[i + 1].op = "commit"
    /\ s[i].op = "deleteRows" => m.kind = "dropDatabase"
    /\ m.kind = "dropDatabase" =>
         \/ s[i].op \in {"showTables", "dropTable"}
         \/ i = Len(s) /\ s[i] = [op |-> "deleteRows", db |-> m.db]

\* A program of m as it is begun.
Whole(s, m) ==
  /\ s \in Seq(Statement) /\ Tidy(s, m) /\ Prepared(s, 0)
  /\ s # <<>> => s[1].op # "deleteRow"

LEMMA TidyTail ==
  ASSUME NEW s \in Seq(Statement), s # <<>>, NEW m, Tidy(s, m)
  PROVE  /\ Tidy(Tail(s), m)
         /\ Prepared(s, 0) => ~Storing(Head(s))
         /\ Prepared(s, 0) /\ Head(s).op # "upsertRow" => Prepared(Tail(s), 0)
         /\ Head(s).op = "deleteRow" => Prepared(Tail(s), 0)
         /\ Head(s).op = "readValidator" => Tail(s) # <<>> /\ Head(Tail(s)).op = "commit"
         /\ Tail(s) # <<>> /\ Head(Tail(s)).op = "deleteRow" =>
              Head(s) = DropTableOf(TableOf[Head(Tail(s)).ns])
<1>1. PICK t \in Seq(Statement) : t = Tail(s)
  BY HeadTailProperties
<1>2. PICK n \in Nat : n = Len(s) /\ n >= 1
  BY LenProperties, EmptySeq
<1>3. Len(t) = n - 1 /\ \A i \in 1..(n - 1) : t[i] = s[i + 1]
  BY <1>1, <1>2, HeadTailProperties
<1>4. Head(s) = s[1] /\ 1 \in 1..n
  BY <1>2
<1>5. t # <<>> => n >= 2 /\ Head(t) = t[1] /\ t[1] = s[2] /\ 2 \in 1..n
  <2>1. t # <<>> => Len(t) \in Nat \ {0}
    BY LenProperties, EmptySeq
  <2> QED BY <1>2, <1>3, <2>1
<1>6. ASSUME NEW i \in 0..(n - 1), Prepared(s, i + 1) PROVE Prepared(t, i)
  <2> SUFFICES ASSUME NEW j \in (i + 1)..(n - 1), Storing(t[j])
               PROVE  \E k \in (i + 1)..(j - 1) : t[k].op = "upsertRow"
    BY <1>3 DEF Prepared
  <2>1. j + 1 \in (i + 1 + 1)..n /\ t[j] = s[j + 1]
    BY <1>2, <1>3
  <2>2. PICK k \in (i + 1 + 1)..(j + 1 - 1) : s[k].op = "upsertRow"
    BY <1>2, <1>6, <2>1 DEF Prepared
  <2>3. k - 1 \in (i + 1)..(j - 1) /\ k - 1 \in 1..(n - 1) /\ (k - 1) + 1 = k
    BY <2>1, <2>2
  <2>4. t[k - 1] = s[k]
    BY <1>3, <2>3
  <2> QED BY <2>2, <2>3, <2>4
<1>7. Tidy(t, m)
  <2> SUFFICES ASSUME NEW i \in 1..(n - 1)
               PROVE  /\ t[i].op = "deleteRow" =>
                           /\ TableOf[t[i].ns] \in Droppable(m) /\ Prepared(t, i)
                           /\ i > 1 => t[i - 1] = DropTableOf(TableOf[t[i].ns])
                      /\ t[i].op = "upsertRow" => t[i].ns \in Registers(m)
                      /\ t[i].op = "readValidator" => i < n - 1 /\ t[i + 1].op = "commit"
                      /\ t[i].op = "deleteRows" => m.kind = "dropDatabase"
                      /\ m.kind = "dropDatabase" =>
                           \/ t[i].op \in {"showTables", "dropTable"}
                           \/ i = n - 1 /\ t[i] = [op |-> "deleteRows", db |-> m.db]
    BY <1>3 DEF Tidy
  <2>1. i + 1 \in 1..n /\ t[i] = s[i + 1]
    BY <1>2, <1>3
  <2>2. CASE t[i].op = "deleteRow"
    <3>1. /\ TableOf[t[i].ns] \in Droppable(m) /\ Prepared(s, i + 1)
          /\ s[i + 1 - 1] = DropTableOf(TableOf[t[i].ns])
      BY <1>2, <2>1, <2>2 DEF Tidy
    <3>2. i > 1 => t[i - 1] = s[i]
      <4>1. i > 1 => i - 1 \in 1..(n - 1) /\ (i - 1) + 1 = i
        BY <1>2
      <4> QED BY <1>3, <4>1
    <3>3. Prepared(t, i)
      BY <1>2, <1>6, <3>1
    <3>4. i + 1 - 1 = i
      OBVIOUS
    <3>5. m.kind # "dropDatabase"
      BY <1>2, <2>1, <2>2 DEF Tidy
    <3> QED BY <2>2, <3>1, <3>2, <3>3, <3>4, <3>5
  <2>3. CASE t[i].op = "readValidator"
    <3>1. i + 1 < n /\ s[(i + 1) + 1].op = "commit"
      BY <1>2, <2>1, <2>3 DEF Tidy
    <3>2. i + 1 \in 1..(n - 1) /\ i < n - 1
      BY <1>2, <3>1
    <3>3. t[i + 1] = s[(i + 1) + 1]
      BY <1>3, <3>2
    <3>4. m.kind # "dropDatabase"
      BY <1>2, <2>1, <2>3 DEF Tidy
    <3> QED BY <2>3, <3>1, <3>2, <3>3, <3>4
  <2>4. CASE t[i].op \notin {"deleteRow", "readValidator"}
    <3>1. /\ t[i].op = "upsertRow" => t[i].ns \in Registers(m)
          /\ t[i].op = "deleteRows" => m.kind = "dropDatabase"
          /\ m.kind = "dropDatabase" =>
               \/ t[i].op \in {"showTables", "dropTable"}
               \/ i + 1 = n /\ t[i] = [op |-> "deleteRows", db |-> m.db]
      BY <1>2, <2>1 DEF Tidy
    <3> QED BY <1>2, <2>4, <3>1
  <2> QED BY <2>2, <2>3, <2>4
<1>8. Prepared(s, 0) => ~Storing(s[1])
  BY <1>2, <1>4 DEF Prepared
<1>9. Prepared(s, 0) /\ s[1].op # "upsertRow" => Prepared(s, 1)
  <2> SUFFICES ASSUME Prepared(s, 0), s[1].op # "upsertRow", NEW j \in (1 + 1)..n, Storing(s[j])
               PROVE  \E k \in (1 + 1)..(j - 1) : s[k].op = "upsertRow"
    BY <1>2 DEF Prepared
  <2>1. j \in (0 + 1)..n
    OBVIOUS
  <2>2. PICK k \in (0 + 1)..(j - 1) : s[k].op = "upsertRow"
    BY <1>2, <2>1 DEF Prepared
  <2>3. k # 1
    BY <2>2
  <2> QED BY <2>2, <2>3
<1>10. s[1].op = "deleteRow" => Prepared(s, 1)
  BY <1>2, <1>4 DEF Tidy
<1>11. Prepared(s, 1) => Prepared(t, 0)
  BY <1>2, <1>6
<1>12. s[1].op = "readValidator" => n > 1 /\ s[2].op = "commit"
  BY <1>2, <1>4 DEF Tidy
<1>13. n > 1 => t # <<>>
  BY <1>2, <1>3
<1>14. t # <<>> /\ s[2].op = "deleteRow" => s[1] = DropTableOf(TableOf[s[2].ns])
  BY <1>2, <1>5 DEF Tidy
<1> QED BY <1>1, <1>4, <1>5, <1>7, <1>8, <1>9, <1>10, <1>11, <1>12, <1>13, <1>14

\* Programs put one after the other.
LEMMA WholeJoined ==
  ASSUME NEW m, m.kind # "dropDatabase", NEW p, Whole(p, m), NEW q, Whole(q, m)
  PROVE  Whole(p \o q, m)
<1>1. PICK w : w = p \o q
  OBVIOUS
<1>2. PICK a \in Nat : a = Len(p)
  BY LenProperties DEF Whole
<1>3. PICK b \in Nat : b = Len(q)
  BY LenProperties DEF Whole
<1>4. /\ w \in Seq(Statement) /\ Len(w) = a + b
      /\ \A i \in 1..(a + b) : w[i] = IF i <= a THEN p[i] ELSE q[i - a]
  <2>1. p \in Seq(Statement) /\ q \in Seq(Statement)
    BY DEF Whole
  <2> QED BY <1>1, <1>2, <1>3, <2>1, Concatenated
<1>5. \A i \in 1..a : w[i] = p[i]
  BY <1>2, <1>3, <1>4
<1>6. \A i \in 1..b : w[a + i] = q[i]
  BY <1>2, <1>3, <1>4
<1>7. ASSUME NEW i \in 0..b, Prepared(q, i) PROVE Prepared(w, a + i)
  <2> SUFFICES ASSUME NEW j \in (a + i + 1)..(a + b), Storing(w[j])
               PROVE  \E k \in (a + i + 1)..(j - 1) : w[k].op = "upsertRow"
    BY <1>4 DEF Prepared
  <2>1. j - a \in (i + 1)..b /\ j - a \in 1..b /\ a + (j - a) = j
    BY <1>2, <1>3
  <2>2. Storing(q[j - a])
    BY <1>6, <2>1
  <2>3. PICK k \in (i + 1)..(j - a - 1) : q[k].op = "upsertRow"
    BY <1>3, <1>7, <2>1, <2>2 DEF Prepared
  <2>4. k \in 1..b /\ a + k \in (a + i + 1)..(j - 1)
    BY <1>2, <1>3, <2>1, <2>3
  <2> QED BY <1>6, <2>3, <2>4
<1>8. ASSUME NEW i \in 0..a, Prepared(p, i) PROVE Prepared(w, i)
  <2> SUFFICES ASSUME NEW j \in (i + 1)..(a + b), Storing(w[j])
               PROVE  \E k \in (i + 1)..(j - 1) : w[k].op = "upsertRow"
    BY <1>4 DEF Prepared
  <2>1. CASE j <= a
    <3>1. j \in (i + 1)..a /\ j \in 1..a
      BY <1>2, <2>1
    <3>2. PICK k \in (i + 1)..(j - 1) : p[k].op = "upsertRow"
      BY <1>2, <1>5, <1>8, <3>1 DEF Prepared
    <3>3. k \in 1..a
      BY <1>2, <3>1, <3>2
    <3> QED BY <1>5, <3>2, <3>3
  <2>2. CASE j > a
    <3>1. j \in (a + 0 + 1)..(a + b)
      BY <1>2, <1>3, <2>2
    <3>2. Prepared(q, 0)
      BY DEF Whole
    <3>3. Prepared(w, a + 0)
      BY <1>3, <1>7, <3>2
    <3>4. PICK k \in (a + 0 + 1)..(j - 1) : w[k].op = "upsertRow"
      BY <1>4, <3>1, <3>3 DEF Prepared
    <3>5. k \in (i + 1)..(j - 1)
      BY <1>2, <3>4
    <3> QED BY <3>4, <3>5
  <2> QED BY <1>2, <2>1, <2>2
<1>9. Tidy(w, m)
  <2> SUFFICES ASSUME NEW i \in 1..(a + b)
               PROVE  /\ w[i].op = "deleteRow" =>
                           /\ TableOf[w[i].ns] \in Droppable(m) /\ Prepared(w, i)
                           /\ i > 1 => w[i - 1] = DropTableOf(TableOf[w[i].ns])
                      /\ w[i].op = "upsertRow" => w[i].ns \in Registers(m)
                      /\ w[i].op = "readValidator" => i < a + b /\ w[i + 1].op = "commit"
                      /\ w[i].op # "deleteRows"
    BY <1>4 DEF Tidy
  <2>1. CASE i <= a
    <3>1. i \in 1..a /\ w[i] = p[i]
      BY <1>5, <2>1
    <3>2. Tidy(p, m)
      BY DEF Whole
    <3>3. /\ p[i].op = "deleteRow" =>
               /\ TableOf[p[i].ns] \in Droppable(m) /\ Prepared(p, i)
               /\ i > 1 => p[i - 1] = DropTableOf(TableOf[p[i].ns])
          /\ p[i].op = "upsertRow" => p[i].ns \in Registers(m)
          /\ p[i].op = "readValidator" => i < a /\ p[i + 1].op = "commit"
          /\ p[i].op # "deleteRows"
      BY <1>2, <3>1, <3>2 DEF Tidy
    <3>4. i > 1 => w[i - 1] = p[i - 1]
      <4>1. i > 1 => i - 1 \in 1..a
        BY <1>2, <3>1
      <4> QED BY <1>5, <4>1
    <3>5. i < a => w[i + 1] = p[i + 1] /\ i < a + b
      <4>1. i < a => i + 1 \in 1..a
        BY <1>2, <3>1
      <4> QED BY <1>2, <1>3, <1>5, <4>1
    <3>6. Prepared(p, i) => Prepared(w, i)
      BY <1>8, <3>1
    <3> QED BY <3>1, <3>3, <3>4, <3>5, <3>6
  <2>2. CASE i > a
    <3>1. PICK j \in 1..b : i = a + j
      <4>1. i - a \in 1..b /\ i = a + (i - a)
        BY <1>2, <1>3, <2>2
      <4> QED BY <4>1
    <3>2. w[i] = q[j]
      BY <1>6, <3>1
    <3>3. Tidy(q, m)
      BY DEF Whole
    <3>4. /\ q[j].op = "deleteRow" =>
               /\ TableOf[q[j].ns] \in Droppable(m) /\ Prepared(q, j)
               /\ j > 1 => q[j - 1] = DropTableOf(TableOf[q[j].ns])
          /\ q[j].op = "upsertRow" => q[j].ns \in Registers(m)
          /\ q[j].op = "readValidator" => j < b /\ q[j + 1].op = "commit"
          /\ q[j].op # "deleteRows"
      BY <1>3, <3>1, <3>3 DEF Tidy
    <3>5. j > 1 => w[i - 1] = q[j - 1]
      <4>1. j > 1 => j - 1 \in 1..b /\ i - 1 = a + (j - 1)
        BY <1>2, <1>3, <3>1
      <4> QED BY <1>6, <4>1
    <3>6. j < b => w[i + 1] = q[j + 1] /\ i < a + b
      <4>1. j < b => j + 1 \in 1..b /\ i + 1 = a + (j + 1)
        BY <1>2, <1>3, <3>1
      <4> QED BY <1>2, <1>3, <1>6, <3>1, <4>1
    <3>7. Prepared(q, j) => Prepared(w, i)
      BY <1>7, <3>1
    <3>8. q[j].op = "deleteRow" => j # 1
      <4>1. q # <<>>
        BY <1>3, <3>1
      <4> QED BY <4>1 DEF Whole
    <3> QED BY <3>1, <3>2, <3>4, <3>5, <3>6, <3>7, <3>8
  <2> QED BY <1>2, <1>3, <2>1, <2>2
<1>10. Prepared(w, 0)
  BY <1>8 DEF Whole
<1>11. w # <<>> => w[1].op # "deleteRow"
  <2>1. w # <<>> => a + b \in Nat \ {0}
    BY <1>4, EmptySeq
  <2>2. a # 0 => p # <<>> /\ w[1] = p[1]
    BY <1>2, <1>5
  <2>3. a = 0 /\ b # 0 => q # <<>> /\ w[1] = q[1]
    <3>1. a = 0 /\ b # 0 => a + 1 = 1 /\ 1 \in 1..b
      BY <1>3
    <3> QED BY <1>3, <1>6, <3>1
  <2> QED BY <1>2, <1>3, <2>1, <2>2, <2>3 DEF Whole
<1> QED BY <1>1, <1>4, <1>9, <1>10, <1>11 DEF Whole

\* The pieces programs are made of.
LEMMA PlainIsWhole ==
  ASSUME NEW m, m.kind # "dropDatabase", NEW s \in Seq(Statement),
         \A i \in 1..Len(s) :
           /\ s[i].op \notin {"deleteRow", "deleteRows"} /\ ~Storing(s[i])
           /\ s[i].op = "upsertRow" => s[i].ns \in Registers(m)
  PROVE  Whole(s, m)
<1>1. PICK n \in Nat : n = Len(s)
  BY LenProperties
<1>2. \A i \in 1..n : s[i].op \notin {"deleteRow", "deleteRows", "readValidator"}
  BY <1>1 DEF Storing
<1>3. Prepared(s, 0)
  BY <1>1 DEF Prepared
<1>4. Tidy(s, m)
  BY <1>1, <1>2 DEF Tidy
<1>5. s # <<>> => s[1].op # "deleteRow"
  <2>1. s # <<>> => 1 \in 1..n
    BY <1>1, EmptySeq
  <2> QED BY <1>2, <2>1
<1> QED BY <1>3, <1>4, <1>5 DEF Whole

LEMMA NothingIsWhole ==
  ASSUME NEW m, m.kind # "dropDatabase"
  PROVE  Whole(<<>>, m)
<1>1. PICK s \in Seq(Statement) : s = <<>>
  BY EmptySeq
<1>2. Len(s) = 0
  BY <1>1
<1>3. \A i \in 1..Len(s) :
        /\ s[i].op \notin {"deleteRow", "deleteRows"} /\ ~Storing(s[i])
        /\ s[i].op = "upsertRow" => s[i].ns \in Registers(m)
  BY <1>2
<1>4. Whole(s, m)
  BY <1>3, PlainIsWhole
<1> QED BY <1>1, <1>4

LEMMA CreateIsWhole ==
  ASSUME NEW m, m.kind # "dropDatabase", NEW n \in Namespace, n \in Registers(m),
         NEW v \in SUBSET Doc
  PROVE  Whole(CreateCollection(n, v), m)
<1>1. CreateCollection(n, v) \in Seq(Statement)
  BY CreateCollectionType
<1>2. PICK s \in Seq(Statement) : s = CreateCollection(n, v)
  BY <1>1
<1>3. /\ Len(s) = 3 /\ s[1].op = "ensureTable" /\ s[2].op = "readOptions"
      /\ s[3].op = "upsertRow" /\ s[3].ns = n
  BY <1>2 DEF CreateCollection, EnsureCollection, On
<1>4. \A i \in 1..Len(s) :
           /\ s[i].op \notin {"deleteRow", "deleteRows"} /\ ~Storing(s[i])
           /\ s[i].op = "upsertRow" => s[i].ns \in Registers(m)
  <2>1. \A i \in 1..3 : i = 1 \/ i = 2 \/ i = 3
    OBVIOUS
  <2> QED BY <1>3, <2>1 DEF Storing
<1>5. Whole(s, m)
  BY <1>4, PlainIsWhole
<1> QED BY <1>2, <1>5

LEMMA FindIsWhole ==
  ASSUME NEW m, m.kind # "dropDatabase", NEW n \in Namespace, NEW filter \in SUBSET Doc,
         NEW limit \in Nat, NEW use \in Use, use # "update"
  PROVE  Whole(Find(n, filter, limit, use), m)
<1>1. Find(n, filter, limit, use) \in Seq(Statement)
  BY FindType
<1>2. PICK s \in Seq(Statement) : s = Find(n, filter, limit, use)
  BY <1>1
<1>3. Len(s) = 2 /\ s[1].op = "ensureTable" /\ s[2].op = "select" /\ s[2].use = use
  BY <1>2 DEF Find, EnsureCollection
<1>4. \A i \in 1..Len(s) :
           /\ s[i].op \notin {"deleteRow", "deleteRows"} /\ ~Storing(s[i])
           /\ s[i].op = "upsertRow" => s[i].ns \in Registers(m)
  <2>1. \A i \in 1..2 : i = 1 \/ i = 2
    OBVIOUS
  <2> QED BY <1>3, <2>1 DEF Storing
<1>5. Whole(s, m)
  BY <1>4, PlainIsWhole
<1> QED BY <1>2, <1>5

LEMMA OneIsWhole ==
  ASSUME NEW m, m.kind # "dropDatabase", NEW x \in Statement,
         x.op \in {"readCollectionID", "selectCollections", "selectIndexes"}
  PROVE  Whole(<< x >>, m)
<1>1. << x >> \in Seq(Statement)
  OBVIOUS
<1>2. PICK s \in Seq(Statement) : s = << x >>
  BY <1>1
<1>3. Len(s) = 1 /\ s[1] = x
  BY <1>2
<1>4. \A i \in 1..Len(s) :
           /\ s[i].op \notin {"deleteRow", "deleteRows"} /\ ~Storing(s[i])
           /\ s[i].op = "upsertRow" => s[i].ns \in Registers(m)
  <2>1. \A i \in 1..1 : i = 1
    OBVIOUS
  <2> QED BY <1>3, <2>1 DEF Storing
<1>5. Whole(s, m)
  BY <1>4, PlainIsWhole
<1> QED BY <1>2, <1>5

\* Insert and Update: the collection is registered, then documents are stored.
LEMMA RegisteringIsWhole ==
  ASSUME NEW m, m.kind # "dropDatabase", NEW s \in Seq(Statement), Len(s) = 5,
         s[1].op = "ensureTable", s[2].op = "readOptions",
         s[3].op = "upsertRow", s[3].ns \in Registers(m),
         s[4].op \in {"ensureTable", "readValidator"}, s[5].op \in {"commit", "select"},
         s[4].op = "readValidator" => s[5].op = "commit"
  PROVE  Whole(s, m)
<1>1. \A i \in 1..5 : i = 1 \/ i = 2 \/ i = 3 \/ i = 4 \/ i = 5
  OBVIOUS
<1>2. Prepared(s, 0)
  <2> SUFFICES ASSUME NEW j \in 1..5, Storing(s[j])
               PROVE  \E k \in 1..(j - 1) : s[k].op = "upsertRow"
    BY DEF Prepared
  <2>1. j = 4 \/ j = 5
    BY <1>1 DEF Storing
  <2>2. 3 \in 1..(j - 1)
    BY <2>1
  <2> QED BY <2>2
<1>3. Tidy(s, m)
  <2> SUFFICES ASSUME NEW i \in 1..5
               PROVE  /\ s[i].op \notin {"deleteRow", "deleteRows"}
                      /\ s[i].op = "upsertRow" => s[i].ns \in Registers(m)
                      /\ s[i].op = "readValidator" => i < 5 /\ s[i + 1].op = "commit"
    BY DEF Tidy
  <2>1. s[i].op = "readValidator" => i = 4
    BY <1>1
  <2>2. i = 4 => i + 1 = 5 /\ i < 5
    OBVIOUS
  <2> QED BY <1>1, <2>1, <2>2
<1> QED BY <1>2, <1>3 DEF Whole

LEMMA InsertIsWhole ==
  ASSUME NEW m, m.kind # "dropDatabase", NEW n \in Namespace, n \in Registers(m)
  PROVE  Whole(Insert(n), m)
<1>1. PICK s \in Seq(Statement) : s = Insert(n)
  BY InsertType
<1>2. /\ Len(s) = 5 /\ s[1].op = "ensureTable" /\ s[2].op = "readOptions"
      /\ s[3].op = "upsertRow" /\ s[3].ns = n /\ s[4].op = "readValidator"
      /\ s[5].op = "commit"
  BY <1>1, InsertIs DEF EnsureCollection, On, UpsertRowOf, ReadValidatorOf
<1>3. Whole(s, m)
  BY <1>2, RegisteringIsWhole
<1> QED BY <1>1, <1>3

LEMMA UpdateIsWhole ==
  ASSUME NEW m, m.kind # "dropDatabase", NEW n \in Namespace, n \in Registers(m)
  PROVE  Whole(Update(n), m)
<1>1. PICK s \in Seq(Statement) : s = Update(n)
  BY UpdateType
<1>2. /\ Len(s) = 5 /\ s[1].op = "ensureTable" /\ s[2].op = "readOptions"
      /\ s[3].op = "upsertRow" /\ s[3].ns = n /\ s[4].op = "ensureTable"
      /\ s[5].op = "select"
  BY <1>1 DEF Update, CreateCollection, Find, EnsureCollection, On
<1>3. Whole(s, m)
  BY <1>2, RegisteringIsWhole
<1> QED BY <1>1, <1>3

LEMMA DropIsWhole ==
  ASSUME NEW m, m.kind # "dropDatabase", NEW n \in Namespace, TableOf[n] \in Droppable(m)
  PROVE  Whole(DropCollection(n), m)
<1>1. PICK s \in Seq(Statement) : s = DropCollection(n)
  BY DropCollectionType
<1>2. /\ Len(s) = 2 /\ s[1] = DropTableOf(TableOf[n])
      /\ s[2].op = "deleteRow" /\ s[2].ns = n
  BY <1>1 DEF DropCollection, On
<1>3. s[1].op = "dropTable"
  BY <1>2 DEF DropTableOf
<1>4. \A i \in 1..2 : i = 1 \/ i = 2
  OBVIOUS
<1>5. Prepared(s, 0) /\ Prepared(s, 2)
  BY <1>2, <1>3, <1>4 DEF Prepared, Storing
<1>6. Tidy(s, m)
  BY <1>2, <1>3, <1>4, <1>5 DEF Tidy
<1> QED BY <1>1, <1>3, <1>5, <1>6 DEF Whole

LEMMA ProgramIsWhole ==
  ASSUME NEW m \in Command, m.kind # "dropDatabase"
  PROVE  Whole(Program(m), m)
<1>1. CASE m.kind \in {"create", "createIndexes", "insert", "update"}
  <2>1. m.ns \in Namespace /\ m.ns \in Registers(m) /\ AnyDoc \in SUBSET Doc
    BY <1>1, CommandFields DEF Registers, Target, AnyDoc
  <2>2. CASE m.kind = "create"
    BY <2>1, <2>2, CommandFields, CreateIsWhole DEF Program
  <2>3. CASE m.kind = "insert"
    BY <2>1, <2>3, InsertIsWhole DEF Program
  <2>4. CASE m.kind = "update"
    BY <2>1, <2>4, UpdateIsWhole DEF Program
  <2>5. CASE m.kind = "createIndexes"
    <3>1. On("readCollectionID", m.ns) \in Statement
      BY <2>1 DEF On, Statement, OnNamespace
    <3>2. Whole(<< On("readCollectionID", m.ns) >>, m)
      BY <3>1, OneIsWhole DEF On
    <3>3. Program(m) = CreateCollection(m.ns, AnyDoc) \o << On("readCollectionID", m.ns) >>
      BY <2>5 DEF Program
    <3> QED BY <2>1, <3>2, <3>3, CreateIsWhole, WholeJoined
  <2> QED BY <1>1, <2>2, <2>3, <2>4, <2>5
<1>2. CASE m.kind \in {"find", "delete", "findAndModify", "renameCollection"}
  <2>1. m.ns \in Namespace /\ AnyDoc \in SUBSET Doc
    BY <1>2, CommandFields DEF AnyDoc
  <2>2. CASE m.kind = "find"
    <3>1. Program(m) = Find(m.ns, m.filter, m.limit, "reply")
      BY <2>2 DEF Program
    <3> QED BY <2>1, <2>2, <3>1, CommandFields, FindIsWhole DEF Use
  <2>3. CASE m.kind = "delete"
    <3>1. Program(m) = Find(m.ns, AnyDoc, 0, "delete")
      BY <2>3 DEF Program, Delete
    <3> QED BY <2>1, <3>1, FindIsWhole DEF Use
  <2>4. CASE m.kind = "findAndModify"
    <3>1. Program(m) = Find(m.ns, m.filter, 1, "before")
      BY <2>4 DEF Program
    <3> QED BY <2>1, <2>4, <3>1, CommandFields, FindIsWhole DEF Use
  <2>5. CASE m.kind = "renameCollection"
    <3>1. Program(m) = Find(m.ns, AnyDoc, 0, "rename")
      BY <2>5 DEF Program
    <3> QED BY <2>1, <3>1, FindIsWhole DEF Use
  <2> QED BY <1>2, <2>2, <2>3, <2>4, <2>5
<1>3. CASE m.kind = "drop"
  <2>1. m.ns \in Namespace /\ TableOf[m.ns] \in Droppable(m)
    BY <1>3, CommandFields, TableOfType DEF Droppable
  <2>2. Program(m) = DropCollection(m.ns)
    BY <1>3 DEF Program
  <2> QED BY <2>1, <2>2, DropIsWhole
<1>4. CASE m.kind = "listIndexes"
  <2>1. On("readCollectionID", m.ns) \in Statement
    BY <1>4, CommandFields DEF On, Statement, OnNamespace
  <2>2. Program(m) = << On("readCollectionID", m.ns) >>
    BY <1>4 DEF Program
  <2> QED BY <2>1, <2>2, OneIsWhole DEF On
<1>5. CASE m.kind = "listCollections"
  <2>1. [op |-> "selectCollections", db |-> m.db] \in Statement
    BY <1>5, CommandFields DEF Statement, OnDatabase
  <2>2. Program(m) = << [op |-> "selectCollections", db |-> m.db] >>
    BY <1>5 DEF Program
  <2> QED BY <2>1, <2>2, OneIsWhole
<1> QED BY <1>1, <1>2, <1>3, <1>4, <1>5, CommandFields

LEMMA AfterBeforeIsWhole ==
  ASSUME NEW m \in Command, m.kind = "findAndModify", NEW docs
  PROVE  Whole(AfterBefore(m, docs), m)
<1>1. m.ns \in Namespace /\ m.ns \in Registers(m) /\ m.filter \in SUBSET Doc
  BY CommandFields DEF Registers, Target
<1>2. Whole(Delete(m.ns), m)
  BY <1>1, FindIsWhole DEF Delete, Use, AnyDoc
<1>3. PICK change : change = IF m.updates = <<>> THEN <<>> ELSE Update(m.ns)
  OBVIOUS
<1>4. PICK again : again = IF m.new THEN Find(m.ns, m.filter, 1, "after") ELSE <<>>
  OBVIOUS
<1>5. Whole(change, m)
  BY <1>1, <1>3, UpdateIsWhole, NothingIsWhole
<1>6. Whole(again, m)
  BY <1>1, <1>4, FindIsWhole, NothingIsWhole DEF Use
<1>7. Whole(change \o again, m)
  BY <1>5, <1>6, WholeJoined
<1>8. AfterBefore(m, docs) \in {<<>>, Delete(m.ns), change \o again}
  BY <1>3, <1>4 DEF AfterBefore
<1> QED BY <1>2, <1>7, <1>8, NothingIsWhole

LEMMA AfterReadIsWhole ==
  ASSUME NEW m \in Command, m.kind = "renameCollection", NEW docs
  PROVE  Whole(AfterRead(m, docs), m)
<1>1. m.ns \in Namespace /\ m.to \in Namespace /\ m.to \in Registers(m)
  BY CommandFields DEF Registers, Target
<1>2. PICK clear : clear = IF m.dropTarget THEN DropCollection(m.to) ELSE <<>>
  OBVIOUS
<1>3. PICK make : make = CreateCollection(m.to, AnyDoc)
  OBVIOUS
<1>4. PICK copy : copy = IF docs = <<>> THEN <<>> ELSE Insert(m.to)
  OBVIOUS
<1>5. PICK leave : leave = DropCollection(m.ns)
  OBVIOUS
<1>6. Whole(clear, m)
  <2>1. m.dropTarget => TableOf[m.to] \in Droppable(m)
    BY <1>1, TableOfType DEF Droppable
  <2> QED BY <1>1, <1>2, <2>1, DropIsWhole, NothingIsWhole
<1>7. Whole(make, m) /\ Whole(copy, m)
  BY <1>1, <1>3, <1>4, CreateIsWhole, InsertIsWhole, NothingIsWhole DEF AnyDoc
<1>8. Whole(leave, m)
  <2>1. TableOf[m.ns] \in Droppable(m)
    BY <1>1, TableOfType DEF Droppable
  <2> QED BY <1>1, <1>5, <2>1, DropIsWhole
<1>9. AfterRead(m, docs) = ((clear \o make) \o copy) \o leave
  BY <1>2, <1>3, <1>4, <1>5 DEF AfterRead
<1>10. Whole(clear \o make, m)
  BY <1>6, <1>7, WholeJoined
<1>11. Whole((clear \o make) \o copy, m)
  BY <1>7, <1>10, WholeJoined
<1> QED BY <1>8, <1>9, <1>11, WholeJoined

LEMMA DropsAreTidy ==
  ASSUME NEW m, m.kind = "dropDatabase", NEW p \in Seq(Statement),
         \A i \in 1..Len(p) : p[i].op = "dropTable",
         NEW q \in Seq(Statement), Tidy(q, m)
  PROVE  Tidy(p \o q, m)
<1>1. PICK w : w = p \o q
  OBVIOUS
<1>2. PICK a \in Nat : a = Len(p)
  BY LenProperties
<1>3. PICK b \in Nat : b = Len(q)
  BY LenProperties
<1>4. /\ Len(w) = a + b
      /\ \A i \in 1..(a + b) : w[i] = IF i <= a THEN p[i] ELSE q[i - a]
  BY <1>1, <1>2, <1>3, Concatenated
<1>5. ASSUME NEW i \in 1..(a + b)
      PROVE  \/ w[i].op \in {"showTables", "dropTable"}
             \/ i = a + b /\ w[i] = [op |-> "deleteRows", db |-> m.db]
  <2>1. CASE i <= a
    BY <1>2, <1>4, <2>1
  <2>2. CASE i > a
    <3>1. i - a \in 1..b /\ w[i] = q[i - a]
      BY <1>2, <1>3, <1>4, <2>2
    <3>2. \/ q[i - a].op \in {"showTables", "dropTable"}
          \/ i - a = b /\ q[i - a] = [op |-> "deleteRows", db |-> m.db]
      BY <1>3, <3>1 DEF Tidy
    <3> QED BY <3>1, <3>2, <1>2, <1>3
  <2> QED BY <1>2, <2>1, <2>2
<1>6. \A i \in 1..(a + b) : w[i].op \notin {"deleteRow", "upsertRow", "readValidator"}
  BY <1>5
<1>7. Tidy(w, m)
  BY <1>4, <1>5, <1>6 DEF Tidy
<1> QED BY <1>1, <1>7

LEMMA DroppingIsTidy ==
  ASSUME NEW m \in Command, m.kind = "dropDatabase"
  PROVE  Tidy(Program(m), m) /\ Program(m)[1].op = "showTables"
<1>1. PICK s : s = Program(m)
  OBVIOUS
<1>2. s = << [op |-> "showTables", db |-> m.db], [op |-> "deleteRows", db |-> m.db] >>
  BY <1>1 DEF Program, DropDatabase
<1>3. /\ Len(s) = 2 /\ s[1].op = "showTables"
      /\ s[2] = [op |-> "deleteRows", db |-> m.db] /\ s[2].op = "deleteRows"
  BY <1>2
<1>4. \A i \in 1..2 : i = 1 \/ i = 2
  OBVIOUS
<1>5. Tidy(s, m)
  BY <1>3, <1>4 DEF Tidy
<1> QED BY <1>1, <1>3, <1>5

\* The statements left after SHOW TABLES: a DROP TABLE for each table found.
LEMMA TablesListed ==
  ASSUME TypeInv, FitsInv, NEW c \in Conn, ShowTables(c)
  PROVE  /\ cmd[c].kind = "dropDatabase" /\ cmd[c] \in Command
         /\ \E p \in Seq(Statement) :
              /\ \A i \in 1..Len(p) : p[i].op = "dropTable"
              /\ \A t \in tables : LikeDatabase(t, cmd[c].db) =>
                   \E i \in 1..Len(p) : p[i] = DropTableOf(t)
              /\ todo'[c] = p \o Tail(todo[c])
<1>1. todo[c] # <<>> /\ Stmt(c).op = "showTables"
  BY DEF ShowTables, At, Stmt
<1>2. cmd[c] # Idle /\ todo[c] \in Seq(Fitting(cmd[c]))
  BY <1>1 DEF FitsInv, FitsAt
<1>3. Stmt(c) \in Fitting(cmd[c])
  BY <1>1, <1>2, HeadTailProperties DEF Stmt
<1>4. cmd[c].kind = "dropDatabase" /\ Stmt(c).db = cmd[c].db
  BY <1>1, <1>3 DEF Fitting
<1>5. cmd[c] \in Command
  BY <1>2, SendableType DEF TypeInv, TypeOK
<1> DEFINE S == {t \in tables : LikeDatabase(t, Stmt(c).db)}
           drops(listed) == [i \in DOMAIN listed |-> DropTableOf(listed[i])]
<1>6. PICK listed \in Orderings(S) : Goto(c, drops(listed) \o Tail(todo[c]))
  BY DEF ShowTables
<1>7. drops(listed) \in Seq(Statement)
  BY <1>6, DropTablesType DEF TypeInv
<1>8. IsFiniteSet(S)
  BY TableFinite, FS_Subset DEF TypeInv, TypeOK
<1>9. /\ DOMAIN listed = 1..Len(listed) /\ Len(listed) \in Nat
      /\ \A x \in S : \E i \in DOMAIN listed : listed[i] = x
  BY <1>6, <1>8, OrderingsType, LenProperties
<1>10. PICK p : p = drops(listed)
  OBVIOUS
<1>11. DOMAIN p = 1..Len(listed) /\ \A i \in 1..Len(listed) : p[i] = DropTableOf(listed[i])
  BY <1>9, <1>10
<1>12. p \in Seq(Statement) /\ Len(p) = Len(listed)
  BY <1>7, <1>9, <1>10, <1>11, LenProperties
<1>13. todo'[c] = p \o Tail(todo[c])
  BY <1>6, <1>10 DEF Goto, TypeInv, TypeOK
<1>14. \A i \in 1..Len(p) : p[i].op = "dropTable"
  BY <1>11, <1>12 DEF DropTableOf
<1>15. \A t \in tables : LikeDatabase(t, cmd[c].db) => \E i \in 1..Len(p) : p[i] = DropTableOf(t)
  BY <1>4, <1>9, <1>11, <1>12
<1> QED BY <1>4, <1>5, <1>12, <1>13, <1>14, <1>15

\* What is left of the program after a statement.
LEMMA ProgramMoves ==
  ASSUME TypeInv, FitsInv, NEW c \in Conn, Step(c), ~Fail(c), pending[c] = {}, todo[c] # <<>>
  PROVE  /\ cmd[c] \in Command /\ cmd' = cmd
         /\ \/ todo'[c] = Tail(todo[c])
            \/ Whole(todo'[c], cmd[c]) /\ Stmt(c).op \in {"select", "readCollectionID"}
            \/ ShowTables(c) /\ Stmt(c).op = "showTables"
<1>1. cmd[c] # Idle
  BY DEF FitsInv, FitsAt
<1>2. cmd[c] \in Command
  BY <1>1, SendableType DEF TypeInv, TypeOK
<1>3. ~Answer(c)
  BY DEF Answer
<1>4. cmd' = cmd
  BY <1>3, CommandKept
<1>5. CASE ReadStep(c) /\ Stmt(c).op = "select"
  <2>1. CASE SelectBefore(c)
    <3>1. PICK docs : Goto(c, AfterBefore(cmd[c], docs)) /\ cmd[c].kind = "findAndModify"
      BY <2>1 DEF SelectBefore
    <3>2. todo'[c] = AfterBefore(cmd[c], docs)
      BY <3>1 DEF Goto, TypeInv, TypeOK
    <3> QED BY <1>2, <1>4, <1>5, <3>1, <3>2, AfterBeforeIsWhole
  <2>2. CASE SelectForRename(c)
    <3>1. PICK docs : Goto(c, AfterRead(cmd[c], docs)) /\ cmd[c].kind = "renameCollection"
      BY <2>2 DEF SelectForRename
    <3>2. todo'[c] = AfterRead(cmd[c], docs)
      BY <3>1 DEF Goto, TypeInv, TypeOK
    <3> QED BY <1>2, <1>4, <1>5, <3>1, <3>2, AfterReadIsWhole
  <2>3. CASE \/ SelectForReply(c) \/ SelectAfter(c) \/ SelectForUpdate(c) \/ SelectForDelete(c)
    BY <1>2, <1>4, <2>3 DEF SelectForReply, SelectAfter, SelectForUpdate, SelectForDelete,
                            StartLoop, Advance, Goto, TypeInv, TypeOK
  <2> QED BY <1>5, <2>1, <2>2, <2>3 DEF ReadStep
<1>6. CASE ReadCollectionID(c) /\ Stmt(c).op = "readCollectionID"
  <2>1. CASE Advance(c)
    BY <1>2, <1>4, <2>1 DEF Advance, Goto, TypeInv, TypeOK
  <2>2. CASE cmd[c].kind = "listIndexes" /\ Goto(c, << On("selectIndexes", cmd[c].ns) >>)
    <3>1. /\ On("selectIndexes", cmd[c].ns) \in Statement
          /\ On("selectIndexes", cmd[c].ns).op = "selectIndexes"
      BY <1>2, <2>2, CommandFields DEF On, Statement, OnNamespace
    <3>2. Whole(<< On("selectIndexes", cmd[c].ns) >>, cmd[c])
      BY <2>2, <3>1, OneIsWhole
    <3> QED BY <1>2, <1>4, <1>6, <2>2, <3>2 DEF Goto, TypeInv, TypeOK
  <2> QED BY <1>6, <2>1, <2>2 DEF ReadCollectionID
<1>7. CASE NoCollectionID(c)
  BY <1>2, <1>4, <1>7 DEF NoCollectionID, Advance, Goto, TypeInv, TypeOK
<1>8. CASE \/ EnsureTable(c) \/ ReadOptions(c) \/ UpsertRow(c) \/ DropTable(c) \/ DeleteRow(c)
           \/ DeleteRows(c) \/ SelectCollections(c)
  BY <1>2, <1>4, <1>8 DEF EnsureTable, ReadOptions, UpsertRow, DropTable, DeleteRow,
                          DeleteRows, SelectCollections, Advance, Goto, TypeInv, TypeOK
<1>9. CASE SelectIndexes(c) \/ ReadValidator(c) \/ Commit(c)
  BY <1>2, <1>4, <1>9 DEF SelectIndexes, ReadValidator, Commit, Advance, Goto, TypeInv, TypeOK
<1> QED BY <1>2, <1>4, <1>5, <1>6, <1>7, <1>8, <1>9, NextStatement

\* Its order stays tidy.
LEMMA TidyMoves ==
  ASSUME TypeInv, FitsInv, NEW c \in Conn, Step(c), ~Fail(c), ~Answer(c),
         Tidy(todo[c], cmd[c])
  PROVE  Tidy(todo'[c], cmd'[c])
<1>1. todo[c] \in Seq(Statement)
  BY DEF TypeInv, TypeOK
<1>2. CASE pending[c] # {}
  BY <1>2, NextWrite DEF InsertDocument, ReplaceDocument, DeleteDocument, InsertIndex
<1>3. CASE pending[c] = {}
  <2>1. todo[c] # <<>>
    BY <1>3, NothingLeft
  <2>2. Tidy(Tail(todo[c]), cmd[c]) /\ Tail(todo[c]) \in Seq(Statement)
    BY <1>1, <2>1, TidyTail, HeadTailProperties
  <2>3. CASE ShowTables(c)
    <3>1. cmd' = cmd
      BY <1>3, <2>1, ProgramMoves
    <3>2. PICK p \in Seq(Statement) : /\ \A i \in 1..Len(p) : p[i].op = "dropTable"
                                      /\ todo'[c] = p \o Tail(todo[c])
      BY <2>3, TablesListed
    <3>3. cmd[c].kind = "dropDatabase"
      BY <2>3, TablesListed
    <3> QED BY <2>2, <3>1, <3>2, <3>3, DropsAreTidy
  <2> QED BY <1>3, <2>1, <2>2, <2>3, ProgramMoves DEF Whole
<1> QED BY <1>2, <1>3

LEMMA IssueIsTidy ==
  ASSUME TypeInv, NEW c \in Conn, Issue(c)
  PROVE  /\ cmd'[c] \in Command /\ todo'[c] = Program(cmd'[c]) /\ Tidy(todo'[c], cmd'[c])
         /\ cmd'[c].kind # "dropDatabase" => Whole(todo'[c], cmd'[c])
         /\ pending'[c] = {} /\ tx'[c] = {}
<1>1. PICK m \in unsent[c] :
        /\ cmd[c] = Idle /\ cmd' = [cmd EXCEPT ![c] = m] /\ Goto(c, Program(m))
        /\ UNCHANGED << pending, tx >>
  BY DEF Issue
<1>2. m \in Command /\ cmd'[c] = m /\ todo'[c] = Program(m)
  BY <1>1, SendableType DEF Goto, TypeInv, TypeOK
<1>3. pending'[c] = {} /\ tx'[c] = {}
  BY <1>1 DEF TypeInv, LoopInv, LoopAt
<1> QED BY <1>2, <1>3, DroppingIsTidy, ProgramIsWhole DEF Whole

\* The documents of a batch are inserted just before its COMMIT.
BatchAt(c) ==
  Inserts(cmd[c]) /\ (pending[c] # {} \/ tx[c] # {})
    => todo[c] # <<>> /\ Head(todo[c]).op = "commit"

\* Before c stores documents of a collection it has registered the collection.
RegisteredAt(c) ==
  LET t == TargetTable(c)
  IN  (Inserts(cmd[c]) \/ Replaces(cmd[c])) /\ OneWriter(t) /\ PlainTable(t) =>
        \/ catalog[Target(cmd[c])].id # 0
        \/ Prepared(todo[c], 0) /\ (Replaces(cmd[c]) => pending[c] = {})

\* Before c deletes the row of a collection it has dropped its table.
ClearedAt(c) ==
  LET t == TableOf[Head(todo[c]).ns]
  IN  todo[c] # <<>> /\ Head(todo[c]).op = "deleteRow" /\ OneWriter(t) => rows[t] = {}

\* The table t is empty, or what is left of c's program drops it.
Sweeps(c, t) ==
  rows[t] # {} =>
    \E i \in 1..Len(todo[c]) : todo[c][i].op = "showTables" \/ todo[c][i] = DropTableOf(t)
SweptAt(c) ==
  cmd[c].kind = "dropDatabase" =>
    \A t \in Table : LikeDatabase(t, cmd[c].db) /\ OneWriter(t) => Sweeps(c, t)

HiddenAt(c) ==
  /\ Tidy(todo[c], cmd[c]) /\ BatchAt(c) /\ RegisteredAt(c) /\ ClearedAt(c) /\ SweptAt(c)

\* Documents are in tables that exist.
PlacedInv ==
  /\ \A t \in Table : rows[t] # {} => t \in tables
  /\ \A c \in Conn : tx[c] # {} => Inserts(cmd[c]) /\ TargetTable(c) \in tables

HiddenInv == PlacedInv /\ (\A c \in Conn : HiddenAt(c)) /\ NoHiddenDocuments

\* What a statement does to the loop and the transaction of its connection.
LEMMA LoopBegins ==
  ASSUME TypeInv, NEW c \in Conn, Step(c), ~Fail(c), pending[c] = {}, todo[c] # <<>>
  PROVE  /\ pending'[c] # {} =>
              /\ Storing(Stmt(c)) \/ Deletes(cmd[c]) \/ cmd[c].kind = "createIndexes"
              /\ Inserts(cmd[c]) => Stmt(c).op = "readValidator"
         /\ tx'[c] = IF Stmt(c).op = "commit" THEN {} ELSE tx[c]
<1>1. CASE ReadStep(c) /\ Stmt(c).op = "select"
  <2>1. CASE SelectForUpdate(c) \/ SelectForDelete(c)
    BY <1>1, <2>1 DEF SelectForUpdate, SelectForDelete, Selects, StartLoop, Storing,
                      Replaces, Deletes, Inserts
  <2>2. CASE SelectForReply(c) \/ SelectBefore(c) \/ SelectAfter(c) \/ SelectForRename(c)
    BY <1>1, <2>2 DEF SelectForReply, SelectBefore, SelectAfter, SelectForRename
  <2> QED BY <1>1, <2>1, <2>2 DEF ReadStep
<1>2. CASE ReadCollectionID(c) /\ Stmt(c).op = "readCollectionID"
  BY <1>2 DEF ReadCollectionID, Inserts
<1>3. CASE NoCollectionID(c) /\ Stmt(c).op = "readCollectionID"
  BY <1>3 DEF NoCollectionID
<1>4. CASE /\ Stmt(c).op # "commit"
           /\ \/ EnsureTable(c) \/ ReadOptions(c) \/ UpsertRow(c) \/ DropTable(c) \/ DeleteRow(c)
              \/ ShowTables(c) \/ DeleteRows(c) \/ SelectCollections(c) \/ SelectIndexes(c)
  BY <1>4 DEF EnsureTable, ReadOptions, UpsertRow, DropTable, DeleteRow, ShowTables,
              DeleteRows, SelectCollections, SelectIndexes
<1>5. CASE ReadValidator(c) /\ Stmt(c).op = "readValidator"
  BY <1>5 DEF ReadValidator, Storing
<1>6. CASE Commit(c) /\ Stmt(c).op = "commit"
  BY <1>6 DEF Commit, TypeInv, TypeOK
<1> QED BY <1>1, <1>2, <1>3, <1>4, <1>5, <1>6, NextStatement

\* In a loop the program stays, and only documents and indexes change.
LEMMA LoopStep ==
  ASSUME TypeInv, NEW c \in Conn, Step(c), ~Fail(c), pending[c] # {}
  PROVE  /\ UNCHANGED << tables, catalog, cmd, todo >>
         /\ ~InsertDocument(c) => tx' = tx
         /\ ~Replaces(cmd[c]) => \A t \in Table : rows'[t] \subseteq rows[t]
<1>1. CASE InsertDocument(c)
  BY <1>1 DEF InsertDocument, database
<1>2. CASE ReplaceDocument(c)
  BY <1>2 DEF ReplaceDocument
<1>3. CASE DeleteDocument(c)
  BY <1>3 DEF DeleteDocument, TypeInv, TypeOK
<1>4. CASE InsertIndex(c)
  BY <1>4 DEF InsertIndex
<1> QED BY <1>1, <1>2, <1>3, <1>4, NextWrite

LEMMA CatalogKept ==
  ASSUME NEW c \in Conn, Issue(c) \/ Step(c) \/ Abort(c)
  PROVE  UpsertRow(c) \/ DeleteRow(c) \/ DeleteRows(c) \/ catalog' = catalog
<1>1. CASE Issue(c) \/ Abort(c) \/ Fail(c) \/ Answer(c)
  BY <1>1 DEF Issue, Abort, Fail, Answer, database
<1>2. CASE CatalogStep(c) \/ IndexStep(c)
  BY <1>1, <1>2 DEF CatalogStep, EnsureTable, ReadOptions, DropTable, ShowTables,
                    SelectCollections, IndexStep, ReadCollectionID,
                    NoCollectionID, InsertIndex, SelectIndexes, database
<1>3. CASE InsertStep(c) \/ WriteStep(c)
  BY <1>1, <1>3 DEF InsertStep, ReadValidator, InsertDocument, RefuseDocument, Commit,
                    DeadlockVictim, WriteStep, ReplaceDocument, FailUpdate, DeleteDocument,
                    TableMissing, database
<1>4. CASE ReadStep(c)
  BY <1>4 DEF ReadStep, SelectForReply, SelectBefore, SelectAfter, SelectForRename,
              SelectForUpdate, SelectForDelete, StartLoop, database
<1> QED BY <1>1, <1>2, <1>3, <1>4 DEF Step

LEMMA TablesKept ==
  ASSUME NEW c \in Conn, Issue(c) \/ Step(c) \/ Abort(c)
  PROVE  DropTable(c) \/ tables \subseteq tables'
<1>1. CASE Issue(c) \/ Abort(c) \/ Fail(c) \/ Answer(c)
  BY <1>1 DEF Issue, Abort, Fail, Answer, database
<1>2. CASE CatalogStep(c) \/ IndexStep(c)
  BY <1>1, <1>2 DEF CatalogStep, EnsureTable, ReadOptions, UpsertRow, DeleteRow, ShowTables,
                    DeleteRows, SelectCollections, IndexStep, ReadCollectionID,
                    NoCollectionID, InsertIndex, SelectIndexes, database
<1>3. CASE InsertStep(c) \/ WriteStep(c)
  BY <1>1, <1>3 DEF InsertStep, ReadValidator, InsertDocument, RefuseDocument, Commit,
                    DeadlockVictim, WriteStep, ReplaceDocument, FailUpdate, DeleteDocument,
                    TableMissing, database
<1>4. CASE ReadStep(c)
  BY <1>4 DEF ReadStep, SelectForReply, SelectBefore, SelectAfter, SelectForRename,
              SelectForUpdate, SelectForDelete, StartLoop, database
<1> QED BY <1>1, <1>2, <1>3, <1>4 DEF Step

\* Documents are only stored by a COMMIT and a REPLACE, in a table that exists.
LEMMA RowsGrow ==
  ASSUME TypeInv, PlacedInv, NEW c \in Conn, Issue(c) \/ Step(c) \/ Abort(c),
         NEW t \in Table, ~(rows'[t] \subseteq rows[t])
  PROVE  /\ t = TargetTable(c) /\ t \in tables /\ tables' = tables
         /\ catalog' = catalog
         /\ \/ Commit(c) /\ Inserts(cmd[c]) /\ tx[c] # {} /\ pending[c] = {} /\ todo[c] # <<>>
               /\ Head(todo[c]).op = "commit"
            \/ ReplaceDocument(c) /\ Replaces(cmd[c]) /\ pending[c] # {}
<1>1. WritesRows(c)
  BY OthersKeepRows
<1>2. ~DropTable(c) /\ ~DeleteDocument(c)
  BY DEF DropTable, DeleteDocument, TypeInv, TypeOK
<1>3. CASE Commit(c)
  <2>1. /\ Inserts(cmd[c]) /\ pending[c] = {} /\ todo[c] # <<>> /\ Head(todo[c]).op = "commit"
        /\ tables' = tables /\ catalog' = catalog
        /\ rows' = [rows EXCEPT ![TargetTable(c)] = @ \cup tx[c]]
    BY <1>3 DEF Commit, At, Stmt
  <2>2. t = TargetTable(c) /\ tx[c] # {}
    BY <2>1 DEF TypeInv, TypeOK
  <2> QED BY <1>3, <2>1, <2>2 DEF PlacedInv
<1>4. CASE ReplaceDocument(c)
  BY <1>4 DEF ReplaceDocument, TypeInv, TypeOK
<1> QED BY <1>1, <1>2, <1>3, <1>4 DEF WritesRows

LEMMA NextPlaced ==
  ASSUME TypeInv, PlacedInv, NEW c \in Conn, Issue(c) \/ Step(c) \/ Abort(c)
  PROVE  PlacedInv'
<1>1. KeepsOthers(c)
  BY OthersKept DEF TypeInv
<1>2. ASSUME NEW t \in Table, rows'[t] # {} PROVE t \in tables'
  <2>1. CASE rows'[t] \subseteq rows[t]
    <3>1. t \in tables
      BY <1>2, <2>1 DEF PlacedInv
    <3>2. CASE DropTable(c)
      <4>1. t # Stmt(c).table
        BY <1>2, <3>2 DEF DropTable, TypeInv, TypeOK
      <4> QED BY <3>1, <3>2, <4>1 DEF DropTable
    <3> QED BY <3>1, <3>2, TablesKept
  <2>2. CASE ~(rows'[t] \subseteq rows[t])
    BY <2>2, RowsGrow
  <2> QED BY <2>1, <2>2
<1>3. ASSUME NEW o \in Conn, tx[o] # {}, tx'[o] # {}, cmd'[o] = cmd[o]
      PROVE  Inserts(cmd'[o]) /\ TargetTable(o)' \in tables'
  <2>1. Inserts(cmd[o]) /\ TargetTable(o) \in tables /\ TargetTable(o)' = TargetTable(o)
    BY <1>3 DEF PlacedInv, TargetTable
  <2>2. DropTable(c) => TargetTable(o) # Stmt(c).table /\ tables' = tables \ {Stmt(c).table}
    BY <1>3 DEF DropTable
  <2> QED BY <1>3, <2>1, <2>2, TablesKept
<1>4. ASSUME tx'[c] # {} PROVE Inserts(cmd'[c]) /\ TargetTable(c)' \in tables'
  <2>1. CASE Issue(c)
    BY <1>4, <2>1, IssueIsTidy
  <2>2. CASE Abort(c) \/ Fail(c) \/ Answer(c)
    BY <1>4, <2>2, EndKeepsOthers DEF Abort, Fail, Answer, TypeInv
  <2>3. CASE Step(c) /\ ~Fail(c) /\ ~Answer(c)
    <3>1. cmd'[c] = cmd[c]
      BY <2>3, CommandKept
    <3>2. CASE pending[c] = {}
      <4>1. tx[c] # {}
        BY <1>4, <2>3, <3>2, LoopBegins, NothingLeft
      <4> QED BY <1>3, <1>4, <3>1, <4>1
    <3>3. CASE pending[c] # {} /\ InsertDocument(c)
      <4>1. Inserts(cmd[c]) /\ TargetTable(c) \in tables /\ tables' = tables
        BY <3>3 DEF InsertDocument, Refused, database
      <4> QED BY <3>1, <4>1 DEF TargetTable
    <3>4. CASE pending[c] # {} /\ ~InsertDocument(c)
      BY <1>3, <1>4, <2>3, <3>1, <3>4, LoopStep
    <3> QED BY <3>2, <3>3, <3>4
  <2> QED BY <2>1, <2>2, <2>3
<1>5. ASSUME NEW o \in Conn, o # c, tx'[o] # {}
      PROVE  Inserts(cmd'[o]) /\ TargetTable(o)' \in tables'
  BY <1>1, <1>3, <1>5 DEF KeepsOthers
<1> QED BY <1>2, <1>4, <1>5 DEF PlacedInv

\* Who may write to a table of a command writes to it.
LEMMA WriterOf ==
  ASSUME TypeInv, SentInv, NEW c \in Conn, cmd[c] # Idle, NEW t \in Writes(cmd[c])
  PROVE  t \in Table /\ c \in Writers[t] /\ (OneWriter(t) => Writers[t] \subseteq {c})
<1>1. PICK menu \in Menus : cmd[c] \in menu[c]
  BY DEF SentInv, Sends
<1>2. t \in Table
  BY DEF Writes, Clobbers, Droppable
<1>3. c \in Writers[t]
  BY <1>1, <1>2 DEF Writers
<1> QED BY <1>2, <1>3 DEF OneWriter

LEMMA StoresInto ==
  ASSUME TypeInv, NEW c \in Conn, Inserts(cmd[c]) \/ Replaces(cmd[c])
  PROVE  /\ cmd[c] \in Command /\ cmd[c] # Idle
         /\ Target(cmd[c]) \in Namespace /\ TargetTable(c) \in Table
         /\ TargetTable(c) = TableOf[Target(cmd[c])]
         /\ TargetTable(c) \in Writes(cmd[c])
         /\ ~Deletes(cmd[c])
         /\ cmd[c].kind \notin {"dropDatabase", "createIndexes"}
<1>1. cmd[c] \in Command /\ TargetTable(c) \in Table
  BY TargetTableType DEF TypeInv
<1>2. Target(cmd[c]) \in Namespace
  BY <1>1, CommandFields DEF Target, Inserts, Replaces
<1>3. Replaces(cmd[c]) => Target(cmd[c]) = cmd[c].ns
  BY DEF Replaces, Target
<1>4. TargetTable(c) \in Writes(cmd[c])
  BY <1>1, <1>3 DEF TargetTable, Writes, Clobbers
<1>5. cmd[c] # Idle
  BY IdleLoop
<1> QED BY <1>1, <1>2, <1>4, <1>5, CommandFields DEF TargetTable, Inserts, Replaces, Deletes

\* The statement that deletes catalog rows, and what it may delete.
LEMMA RowDropped ==
  ASSUME TypeInv, NEW c \in Conn, cmd[c] # Idle, Tidy(todo[c], cmd[c]), DeleteRow(c)
  PROVE  /\ todo[c] # <<>> /\ pending[c] = {} /\ pending' = pending /\ cmd' = cmd /\ rows' = rows
         /\ Head(todo[c]).op = "deleteRow" /\ Stmt(c).ns \in Namespace
         /\ todo'[c] = Tail(todo[c]) /\ Prepared(Tail(todo[c]), 0)
         /\ TableOf[Stmt(c).ns] \in Droppable(cmd[c])
         /\ TableOf[Stmt(c).ns] \in Writes(cmd[c])
         /\ \A n \in Namespace \ {Stmt(c).ns} : catalog'[n] = catalog[n]
<1>1. /\ todo[c] # <<>> /\ todo[c] \in Seq(Statement)
      /\ pending[c] = {} /\ Head(todo[c]).op = "deleteRow"
      /\ pending' = pending /\ cmd' = cmd /\ rows' = rows
  BY DEF DeleteRow, At, Stmt, TypeInv, TypeOK
<1>2. todo'[c] = Tail(todo[c])
  BY DEF DeleteRow, Advance, Goto, TypeInv, TypeOK
<1>3. Stmt(c).ns \in Namespace
  BY <1>1, AtType, StatementFields DEF Stmt, OnNamespace, TypeInv
<1>4. Prepared(Tail(todo[c]), 0)
  BY <1>1, TidyTail
<1>5. TableOf[Stmt(c).ns] \in Droppable(cmd[c])
  <2>1. 1 \in 1..Len(todo[c]) /\ todo[c][1] = Head(todo[c])
    BY <1>1, LenProperties, EmptySeq
  <2> QED BY <1>1, <2>1 DEF Tidy, Stmt
<1>6. \A n \in Namespace \ {Stmt(c).ns} : catalog'[n] = catalog[n]
  BY DEF DeleteRow, TypeInv, TypeOK
<1> QED BY <1>1, <1>2, <1>3, <1>4, <1>5, <1>6 DEF Writes, Clobbers

LEMMA RowsDropped ==
  ASSUME TypeInv, NEW c \in Conn, cmd[c] # Idle, Tidy(todo[c], cmd[c]), DeleteRows(c)
  PROVE  /\ cmd[c].kind = "dropDatabase" /\ cmd' = cmd /\ rows' = rows
         /\ todo[c] # <<>> /\ Len(todo[c]) = 1 /\ todo[c][1].op = "deleteRows"
         /\ catalog' = [n \in Namespace |-> IF n.db = cmd[c].db THEN NoRow ELSE catalog[n]]
         /\ \A n \in Namespace : n.db = cmd[c].db /\ Plain(n.db) /\ Plain(n.coll) =>
              /\ LikeDatabase(TableOf[n], cmd[c].db)
              /\ TableOf[n] \in Writes(cmd[c])
<1>1. /\ todo[c] # <<>> /\ Head(todo[c]).op = "deleteRows" /\ todo[c] \in Seq(Statement)
      /\ cmd' = cmd /\ rows' = rows
      /\ catalog' = [n \in Namespace |-> IF n.db = Head(todo[c]).db THEN NoRow ELSE catalog[n]]
  BY DEF DeleteRows, At, Stmt, TypeInv, TypeOK
<1>2. PICK l \in Nat : l = Len(todo[c]) /\ l >= 1
  BY <1>1, LenProperties, EmptySeq
<1>3. 1 \in 1..l /\ todo[c][1] = Head(todo[c])
  BY <1>1, <1>2
<1>4. cmd[c].kind = "dropDatabase"
  BY <1>1, <1>2, <1>3 DEF Tidy
<1>5. l = 1 /\ todo[c][1] = [op |-> "deleteRows", db |-> cmd[c].db]
  <2>1. todo[c][1].op \notin {"showTables", "dropTable"}
    BY <1>1, <1>3
  <2> QED BY <1>2, <1>3, <1>4, <2>1 DEF Tidy
<1>6. Head(todo[c]).db = cmd[c].db
  BY <1>3, <1>5
<1>7. ASSUME NEW n \in Namespace, n.db = cmd[c].db, Plain(n.db), Plain(n.coll)
      PROVE  LikeDatabase(TableOf[n], cmd[c].db) /\ TableOf[n] \in Writes(cmd[c])
  <2>1. LikeDatabase(TableOf[n], cmd[c].db)
    BY <1>7, PlainNamesAreSelected
  <2> QED BY <1>4, <2>1, TableOfType DEF Writes, Clobbers, Droppable
<1> QED BY <1>1, <1>2, <1>3, <1>4, <1>5, <1>6, <1>7

LEMMA RowKept ==
  ASSUME TypeInv, NEW c \in Conn, UpsertRow(c), NEW n \in Namespace, catalog[n].id # 0
  PROVE  catalog'[n].id # 0
<1>1. Len(issued) \in Nat /\ catalog \in [Namespace -> CatalogRow]
  BY LenProperties DEF TypeInv, TypeOK
<1>2. Stmt(c).ns \in Namespace
  BY AtType, StatementFields DEF UpsertRow, At, Stmt, OnNamespace, TypeInv
<1> QED BY <1>1, <1>2 DEF UpsertRow, CatalogRow, NextId

LEMMA RowUpserted ==
  ASSUME TypeInv, NEW c \in Conn, Tidy(todo[c], cmd[c]), UpsertRow(c)
  PROVE  /\ Stmt(c).ns \in Registers(cmd[c]) /\ Stmt(c).ns \in Namespace
         /\ catalog'[Stmt(c).ns].id # 0
         /\ \A n \in Namespace \ {Stmt(c).ns} : catalog'[n] = catalog[n]
<1>1. todo[c] # <<>> /\ Head(todo[c]).op = "upsertRow" /\ todo[c] \in Seq(Statement)
  BY DEF UpsertRow, At, Stmt, TypeInv, TypeOK
<1>2. 1 \in 1..Len(todo[c]) /\ todo[c][1] = Head(todo[c])
  BY <1>1, LenProperties, EmptySeq
<1>3. Stmt(c).ns \in Registers(cmd[c])
  BY <1>1, <1>2 DEF Tidy, Stmt
<1>4. Stmt(c).ns \in Namespace
  BY <1>3 DEF Registers
<1>5. Len(issued) \in Nat /\ catalog \in [Namespace -> CatalogRow]
  BY LenProperties DEF TypeInv, TypeOK
<1>6. catalog'[Stmt(c).ns].id # 0
  BY <1>4, <1>5 DEF UpsertRow, CatalogRow, NextId
<1>7. \A n \in Namespace \ {Stmt(c).ns} : catalog'[n] = catalog[n]
  BY <1>4, <1>5 DEF UpsertRow
<1> QED BY <1>3, <1>4, <1>6, <1>7

\* Own steps.
LEMMA BatchMoves ==
  ASSUME TypeInv, FitsInv, NEW c \in Conn, Tidy(todo[c], cmd[c]), BatchAt(c),
         Step(c), ~Fail(c), ~Answer(c)
  PROVE  BatchAt(c)'
<1>1. cmd'[c] = cmd[c]
  BY CommandKept
<1> SUFFICES ASSUME Inserts(cmd[c]), pending'[c] # {} \/ tx'[c] # {}
             PROVE  todo'[c] # <<>> /\ Head(todo'[c]).op = "commit"
  BY <1>1 DEF BatchAt
<1>2. CASE pending[c] # {}
  <2>1. todo' = todo
    BY <1>2, LoopStep
  <2> QED BY <1>2, <2>1 DEF BatchAt
<1>3. CASE pending[c] = {}
  <2>1. todo[c] # <<>> /\ todo[c] \in Seq(Statement)
    BY <1>3, NothingLeft DEF TypeInv, TypeOK
  <2>2. pending'[c] # {} => Stmt(c).op = "readValidator"
    BY <1>3, <2>1, LoopBegins
  <2>3. tx'[c] = IF Stmt(c).op = "commit" THEN {} ELSE tx[c]
    BY <1>3, <2>1, LoopBegins
  <2>4. tx'[c] = {}
    BY <2>3 DEF BatchAt, Stmt
  <2>5. Stmt(c).op = "readValidator"
    BY <2>2, <2>4
  <2>6. todo'[c] = Tail(todo[c])
    BY <1>3, <2>1, <2>5, ProgramMoves
  <2> QED BY <2>1, <2>5, <2>6, TidyTail DEF Stmt
<1> QED BY <1>2, <1>3

LEMMA RegisteredMoves ==
  ASSUME TypeInv, FitsInv, NEW c \in Conn, Tidy(todo[c], cmd[c]), BatchAt(c), RegisteredAt(c),
         Step(c), ~Fail(c), ~Answer(c)
  PROVE  RegisteredAt(c)'
<1>1. cmd'[c] = cmd[c]
  BY CommandKept
<1> DEFINE n == Target(cmd[c])
           t == TargetTable(c)
<1> SUFFICES ASSUME Inserts(cmd[c]) \/ Replaces(cmd[c]), OneWriter(t), PlainTable(t)
             PROVE  \/ catalog'[n].id # 0
                    \/ Prepared(todo'[c], 0) /\ (Replaces(cmd[c]) => pending'[c] = {})
  BY <1>1 DEF RegisteredAt, TargetTable
<1>2. /\ cmd[c] \in Command /\ cmd[c] # Idle /\ n \in Namespace /\ ~Deletes(cmd[c])
      /\ cmd[c].kind \notin {"dropDatabase", "createIndexes"}
  BY StoresInto
<1>3. todo[c] \in Seq(Statement)
  BY DEF TypeInv, TypeOK
<1>4. CASE catalog[n].id # 0
  <2>1. CASE UpsertRow(c)
    BY <1>2, <1>4, <2>1, RowKept
  <2>2. CASE DeleteRow(c)
    BY <1>2, <2>2, RowDropped
  <2>3. CASE DeleteRows(c)
    BY <1>2, <2>3, RowsDropped
  <2>4. CASE catalog' = catalog
    BY <1>4, <2>4
  <2> QED BY <2>1, <2>2, <2>3, <2>4, CatalogKept
<1>5. CASE catalog[n].id = 0
  <2>1. Prepared(todo[c], 0) /\ (Replaces(cmd[c]) => pending[c] = {})
    BY <1>5 DEF RegisteredAt
  <2>2. pending[c] = {}
    <3>1. pending[c] # {} => todo[c] # <<>> /\ Storing(Head(todo[c]))
      BY <2>1 DEF BatchAt, Storing
    <3> QED BY <1>3, <2>1, <3>1, TidyTail
  <2>3. todo[c] # <<>>
    BY <2>2, NothingLeft
  <2>4. ~Storing(Stmt(c))
    BY <1>3, <2>1, <2>3, TidyTail DEF Stmt
  <2>5. Replaces(cmd[c]) => pending'[c] = {}
    BY <1>2, <2>2, <2>3, <2>4, LoopBegins
  <2>6. CASE todo'[c] = Tail(todo[c])
    <3>1. CASE Stmt(c).op = "upsertRow"
      <4>1. UpsertRow(c)
        BY <2>2, <2>3, <3>1, NextStatement
      <4>2. Stmt(c).ns = n
        BY <4>1, RowUpserted DEF Registers
      <4> QED BY <4>1, <4>2, RowUpserted
    <3>2. CASE Stmt(c).op # "upsertRow"
      BY <1>3, <2>1, <2>3, <2>5, <2>6, <3>2, TidyTail DEF Stmt
    <3> QED BY <3>1, <3>2
  <2>7. CASE Whole(todo'[c], cmd[c])
    BY <2>5, <2>7 DEF Whole
  <2>8. ~ShowTables(c)
    BY <1>2, TablesListed
  <2> QED BY <2>2, <2>3, <2>6, <2>7, <2>8, ProgramMoves
<1> QED BY <1>4, <1>5

LEMMA ClearedMoves ==
  ASSUME TypeInv, FitsInv, NEW c \in Conn, Tidy(todo[c], cmd[c]), ClearedAt(c),
         Step(c), ~Fail(c), ~Answer(c)
  PROVE  ClearedAt(c)'
<1>1. todo[c] \in Seq(Statement) /\ todo' \in [Conn -> Seq(Statement)]
  BY NextType DEF TypeInv, TypeOK, Next
<1> DEFINE t == TableOf[Head(todo'[c]).ns]
<1> SUFFICES ASSUME todo'[c] # <<>>, Head(todo'[c]).op = "deleteRow", OneWriter(t)
             PROVE  rows'[t] = {}
  BY DEF ClearedAt
<1>2. Tidy(todo'[c], cmd[c])
  BY TidyMoves, CommandKept
<1>3. todo'[c][1] = Head(todo'[c]) /\ 1 \in 1..Len(todo'[c])
  BY <1>1, LenProperties, EmptySeq
<1>4. t \in Droppable(cmd[c])
  BY <1>2, <1>3 DEF Tidy
<1>5. t \in Table
  BY <1>4 DEF Droppable
<1>6. CASE pending[c] # {}
  <2>1. todo' = todo
    BY <1>6, LoopStep
  <2>2. ~Replaces(cmd[c])
    BY <1>4 DEF Droppable, Replaces
  <2>3. rows'[t] \subseteq rows[t]
    BY <1>5, <1>6, <2>2, LoopStep
  <2> QED BY <2>1, <2>3 DEF ClearedAt
<1>7. CASE pending[c] = {}
  <2>1. todo[c] # <<>>
    BY <1>7, NothingLeft
  <2>2. CASE todo'[c] = Tail(todo[c])
    <3>1. Head(todo[c]) = DropTableOf(t)
      BY <1>1, <2>1, <2>2, TidyTail
    <3>2. Stmt(c).op = "dropTable" /\ Stmt(c).table = t
      BY <3>1 DEF Stmt, DropTableOf
    <3>3. DropTable(c)
      BY <1>7, <2>1, <3>2, NextStatement
    <3> QED BY <1>5, <3>2, <3>3 DEF DropTable, TypeInv, TypeOK
  <2>3. CASE Whole(todo'[c], cmd[c])
    BY <1>3, <2>3 DEF Whole
  <2>4. CASE ShowTables(c)
    <3>1. cmd[c].kind = "dropDatabase"
      BY <2>4, TablesListed
    <3>2. todo'[c][1].op # "deleteRow"
      BY <1>2, <1>3, <3>1 DEF Tidy
    <3> QED BY <1>3, <3>2
  <2> QED BY <1>7, <2>1, <2>2, <2>3, <2>4, ProgramMoves
<1> QED BY <1>6, <1>7

\* A dropDatabase empties the tables it selects.
LEMMA SweepMoves ==
  ASSUME TypeInv, FitsInv, PlacedInv, NEW c \in Conn, Tidy(todo[c], cmd[c]),
         cmd[c].kind = "dropDatabase", Step(c), ~Fail(c), ~Answer(c),
         NEW t \in Table, LikeDatabase(t, cmd[c].db), Sweeps(c, t)
  PROVE  Sweeps(c, t)'
<1>1. todo[c] \in Seq(Statement)
  BY DEF TypeInv, TypeOK
<1> SUFFICES ASSUME rows'[t] # {}
             PROVE  \E i \in 1..Len(todo'[c]) :
                      todo'[c][i].op = "showTables" \/ todo'[c][i] = DropTableOf(t)
  BY DEF Sweeps
<1>2. ~Inserts(cmd[c]) /\ ~Replaces(cmd[c]) /\ ~Deletes(cmd[c])
  BY DEF Inserts, Replaces, Deletes
<1>3. rows[t] # {} /\ t \in tables
  BY <1>2, RowsGrow DEF PlacedInv
<1>4. pending[c] = {}
  BY <1>2, NextWrite
<1>5. todo[c] # <<>>
  BY <1>4, NothingLeft
<1>6. PICK l \in Nat : l = Len(todo[c]) /\ l >= 1 /\ 1 \in 1..l /\ todo[c][1] = Stmt(c)
  BY <1>1, <1>5, LenProperties, EmptySeq DEF Stmt
<1>7. Stmt(c).op \in {"showTables", "dropTable", "deleteRows"}
  BY <1>6 DEF Tidy
<1>8. PICK i \in 1..l : todo[c][i].op = "showTables" \/ todo[c][i] = DropTableOf(t)
  BY <1>3, <1>6 DEF Sweeps
<1>9. CASE Stmt(c).op = "showTables"
  <2>1. ShowTables(c)
    BY <1>4, <1>5, <1>9, NextStatement
  <2>2. PICK p \in Seq(Statement) : /\ \E j \in 1..Len(p) : p[j] = DropTableOf(t)
                                    /\ todo'[c] = p \o Tail(todo[c])
    BY <1>3, <2>1, TablesListed
  <2>3. PICK j \in 1..Len(p) : p[j] = DropTableOf(t)
    BY <2>2
  <2>4. PICK q \in Seq(Statement) : q = Tail(todo[c])
    BY <1>1, <1>5, HeadTailProperties
  <2>5. PICK w : w = p \o q
    OBVIOUS
  <2>6. /\ Len(w) = Len(p) + Len(q)
        /\ \A k \in 1..(Len(p) + Len(q)) : w[k] = IF k <= Len(p) THEN p[k] ELSE q[k - Len(p)]
    BY <2>5, Concatenated
  <2>7. j \in 1..Len(w) /\ w[j] = p[j]
    <3>1. Len(p) \in Nat /\ Len(q) \in Nat
      BY LenProperties
    <3> QED BY <2>6, <3>1
  <2> QED BY <2>2, <2>3, <2>4, <2>5, <2>7
<1>10. CASE Stmt(c).op # "showTables"
  <2>1. todo'[c] = Tail(todo[c])
    BY <1>4, <1>5, <1>7, <1>10, ProgramMoves
  <2>2. i # 1
    <3> SUFFICES ASSUME i = 1 PROVE FALSE
      OBVIOUS
    <3>1. Stmt(c) = DropTableOf(t)
      BY <1>6, <1>8, <1>10
    <3>2. Stmt(c).op = "dropTable" /\ Stmt(c).table = t
      BY <3>1 DEF DropTableOf
    <3>3. DropTable(c)
      BY <1>4, <1>5, <3>2, NextStatement
    <3> QED BY <3>2, <3>3 DEF DropTable, TypeInv, TypeOK
  <2>3. PICK q \in Seq(Statement) : q = Tail(todo[c])
    BY <1>1, <1>5, HeadTailProperties
  <2>4. Len(q) = l - 1 /\ \A k \in 1..(l - 1) : q[k] = todo[c][k + 1]
    BY <1>1, <1>5, <1>6, <2>3, HeadTailProperties
  <2>5. i - 1 \in 1..(l - 1) /\ i - 1 + 1 = i
    BY <2>2
  <2>6. i - 1 \in 1..Len(q) /\ q[i - 1] = todo[c][i]
    BY <2>4, <2>5
  <2> QED BY <1>8, <2>1, <2>3, <2>6
<1> QED BY <1>9, <1>10

\* While o takes a step the others' statements stay where they are.
LEMMA OthersStayHidden ==
  ASSUME TypeInv, FitsInv, SentInv, NEW o \in Conn, Tidy(todo[o], cmd[o]), KeepsOthers(o),
         Issue(o) \/ Step(o) \/ Abort(o), NEW c \in Conn \ {o}, HiddenAt(c)
  PROVE  HiddenAt(c)'
<1>1. cmd'[c] = cmd[c] /\ todo'[c] = todo[c] /\ pending'[c] = pending[c] /\ tx'[c] = tx[c]
  BY DEF KeepsOthers
<1>2. Tidy(todo'[c], cmd'[c]) /\ BatchAt(c)'
  BY <1>1 DEF HiddenAt, BatchAt
<1>3. RegisteredAt(c)'
  <2> DEFINE n == Target(cmd[c])
             t == TargetTable(c)
  <2> SUFFICES ASSUME Inserts(cmd[c]) \/ Replaces(cmd[c]), OneWriter(t), PlainTable(t),
                      catalog[n].id # 0
               PROVE  catalog'[n].id # 0
    BY <1>1 DEF HiddenAt, RegisteredAt, TargetTable
  <2>1. /\ cmd[c] # Idle /\ n \in Namespace /\ t \in Table /\ t = TableOf[n]
        /\ t \in Writes(cmd[c])
    BY StoresInto
  <2>2. Writers[t] \subseteq {c}
    BY <2>1, WriterOf
  <2>3. cmd[o] # Idle => t \notin Writes(cmd[o])
    BY <2>2, WriterOf
  <2>4. CASE UpsertRow(o)
    BY <2>1, <2>4, RowKept
  <2>5. CASE DeleteRow(o)
    <3>1. cmd[o] # Idle
      BY <2>5 DEF DeleteRow, At, FitsInv, FitsAt
    <3>2. Stmt(o).ns # n
      BY <2>1, <2>3, <2>5, <3>1, RowDropped
    <3> QED BY <2>1, <2>5, <3>1, <3>2, RowDropped
  <2>6. CASE DeleteRows(o)
    <3>1. cmd[o] # Idle
      BY <2>6 DEF DeleteRows, At, FitsInv, FitsAt
    <3>2. Plain(n.db) /\ Plain(n.coll)
      BY <2>1 DEF PlainTable
    <3>3. n.db # cmd[o].db
      BY <2>1, <2>3, <2>6, <3>1, <3>2, RowsDropped
    <3> QED BY <2>1, <2>6, <3>1, <3>3, RowsDropped
  <2>7. CASE catalog' = catalog
    BY <2>7
  <2> QED BY <2>4, <2>5, <2>6, <2>7, CatalogKept
<1>4. ASSUME NEW t \in Droppable(cmd[c]), cmd[c] # Idle, OneWriter(t) PROVE rows'[t] = rows[t]
  <2>1. t \in Table /\ t \in Writes(cmd[c])
    BY DEF Droppable, Writes, Clobbers
  <2>2. Writers[t] \subseteq {c}
    BY <1>4, <2>1, WriterOf
  <2> QED BY <2>1, <2>2, WritersOnly
<1>5. ClearedAt(c)'
  <2> DEFINE t == TableOf[Head(todo[c]).ns]
  <2> SUFFICES ASSUME todo[c] # <<>>, Head(todo[c]).op = "deleteRow", OneWriter(t)
               PROVE  rows'[t] = {}
    BY <1>1 DEF ClearedAt
  <2>1. cmd[c] # Idle
    BY DEF FitsInv, FitsAt
  <2>2. todo[c][1] = Head(todo[c]) /\ 1 \in 1..Len(todo[c])
    BY LenProperties, EmptySeq DEF TypeInv, TypeOK
  <2>3. t \in Droppable(cmd[c])
    BY <2>2 DEF HiddenAt, Tidy
  <2>4. rows[t] = {}
    BY DEF HiddenAt, ClearedAt
  <2> QED BY <1>4, <2>1, <2>3, <2>4
<1>6. SweptAt(c)'
  <2> SUFFICES ASSUME cmd[c].kind = "dropDatabase", NEW t \in Table,
                      LikeDatabase(t, cmd[c].db), OneWriter(t)
               PROVE  Sweeps(c, t)'
    BY <1>1 DEF SweptAt
  <2>1. t \in Droppable(cmd[c]) /\ cmd[c] # Idle
    BY DEF Droppable, Idle
  <2>2. rows'[t] = rows[t]
    BY <1>4, <2>1
  <2>3. Sweeps(c, t)
    BY DEF HiddenAt, SweptAt
  <2> QED BY <1>1, <2>2, <2>3 DEF Sweeps
<1> QED BY <1>2, <1>3, <1>5, <1>6 DEF HiddenAt

LEMMA EndIsHidden ==
  ASSUME NEW c \in Conn, cmd'[c] = Idle, todo'[c] = <<>>
  PROVE  HiddenAt(c)'
<1>1. ~Inserts(cmd'[c]) /\ ~Replaces(cmd'[c]) /\ cmd'[c].kind # "dropDatabase"
  BY IdleLoop DEF Idle
<1>2. Len(todo'[c]) = 0
  BY EmptySeq
<1> QED BY <1>1, <1>2 DEF HiddenAt, Tidy, BatchAt, RegisteredAt, ClearedAt, SweptAt

LEMMA IssueIsHidden ==
  ASSUME TypeInv, NEW c \in Conn, Issue(c)
  PROVE  HiddenAt(c)'
<1>1. /\ cmd'[c] \in Command /\ todo'[c] = Program(cmd'[c]) /\ Tidy(todo'[c], cmd'[c])
      /\ cmd'[c].kind # "dropDatabase" => Whole(todo'[c], cmd'[c])
      /\ pending'[c] = {} /\ tx'[c] = {}
  BY IssueIsTidy
<1>2. BatchAt(c)'
  BY <1>1 DEF BatchAt
<1>3. RegisteredAt(c)'
  BY <1>1 DEF RegisteredAt, Whole, Inserts, Replaces
<1>4. todo'[c] # <<>> => 1 \in 1..Len(todo'[c]) /\ Head(todo'[c]) = todo'[c][1]
  BY <1>1, ProgramType, LenProperties, EmptySeq
<1>5. todo'[c] # <<>>
  BY <1>1, ProgramFits
<1>6. todo'[c][1].op # "deleteRow"
  BY <1>1, <1>5, DroppingIsTidy DEF Whole
<1>7. ClearedAt(c)'
  BY <1>4, <1>6 DEF ClearedAt
<1>8. SweptAt(c)'
  BY <1>1, <1>4, <1>5, DroppingIsTidy DEF SweptAt, Sweeps
<1> QED BY <1>1, <1>2, <1>3, <1>7, <1>8 DEF HiddenAt

\* No statement hides documents.
LEMMA NothingHidden ==
  ASSUME TypeInv, FitsInv, HiddenInv, NEW c \in Conn, Issue(c) \/ Step(c) \/ Abort(c)
  PROVE  NoHiddenDocuments'
<1> SUFFICES ASSUME NEW t \in Table, rows'[t] # {}, OneWriter(t), PlainTable(t)
             PROVE  \E n \in Namespace : TableOf[n] = t /\ catalog'[n].id # 0
  BY DEF NoHiddenDocuments
<1>1. HiddenAt(c) /\ todo[c] \in Seq(Statement)
  BY DEF HiddenInv, TypeInv, TypeOK
<1>2. CASE ~(rows'[t] \subseteq rows[t])
  <2>1. /\ t = TargetTable(c) /\ catalog' = catalog /\ (Inserts(cmd[c]) \/ Replaces(cmd[c]))
        /\ \/ pending[c] = {} /\ todo[c] # <<>> /\ Head(todo[c]).op = "commit"
           \/ Replaces(cmd[c]) /\ pending[c] # {}
    BY <1>2, RowsGrow DEF HiddenInv
  <2>2. Prepared(todo[c], 0) /\ todo[c] # <<>> => Head(todo[c]).op # "commit"
    BY <1>1, TidyTail DEF HiddenAt, Storing
  <2>3. catalog[Target(cmd[c])].id # 0
    BY <1>1, <2>1, <2>2 DEF HiddenAt, RegisteredAt
  <2>4. Target(cmd[c]) \in Namespace /\ TableOf[Target(cmd[c])] = t
    BY <2>1, StoresInto
  <2> QED BY <2>1, <2>3, <2>4
<1>3. CASE rows'[t] \subseteq rows[t]
  <2>1. PICK n \in Namespace : TableOf[n] = t /\ catalog[n].id # 0
    BY <1>3 DEF HiddenInv, NoHiddenDocuments
  <2>2. CASE UpsertRow(c)
    BY <2>1, <2>2, RowKept
  <2>3. CASE DeleteRow(c)
    <3>1. cmd[c] # Idle
      BY <2>3 DEF DeleteRow, At, FitsInv, FitsAt
    <3>2. Stmt(c).ns # n
      BY <1>1, <1>3, <2>1, <2>3, <3>1, RowDropped DEF HiddenAt, ClearedAt, Stmt
    <3> QED BY <1>1, <2>1, <2>3, <3>1, <3>2, RowDropped DEF HiddenAt
  <2>4. CASE DeleteRows(c)
    <3>1. cmd[c] # Idle
      BY <2>4 DEF DeleteRows, At, FitsInv, FitsAt
    <3>2. Plain(n.db) /\ Plain(n.coll)
      BY <2>1 DEF PlainTable
    <3>3. cmd[c].kind = "dropDatabase" /\ Len(todo[c]) = 1 /\ todo[c][1].op = "deleteRows"
      BY <1>1, <2>4, <3>1, RowsDropped DEF HiddenAt
    <3>4. n.db # cmd[c].db
      <4> SUFFICES ASSUME n.db = cmd[c].db PROVE FALSE
        OBVIOUS
      <4>1. LikeDatabase(t, cmd[c].db)
        BY <1>1, <2>1, <2>4, <3>1, <3>2, RowsDropped DEF HiddenAt
      <4>2. PICK i \in 1..1 : todo[c][i].op = "showTables" \/ todo[c][i] = DropTableOf(t)
        BY <1>1, <1>3, <3>3, <4>1 DEF HiddenAt, SweptAt, Sweeps
      <4>3. i = 1
        BY <4>2
      <4> QED BY <3>3, <4>2, <4>3 DEF DropTableOf
    <3> QED BY <1>1, <2>1, <2>4, <3>1, <3>4, RowsDropped DEF HiddenAt
  <2>5. CASE catalog' = catalog
    BY <2>1, <2>5
  <2> QED BY <2>2, <2>3, <2>4, <2>5, CatalogKept
<1> QED BY <1>2, <1>3

LEMMA NextHidden ==
  ASSUME TypeInv, FitsInv, SentInv, HiddenInv, [Next]_vars
  PROVE  HiddenInv'
<1>1. CASE UNCHANGED vars \/ Done
  BY <1>1 DEF vars, Done, HiddenInv, PlacedInv, HiddenAt, BatchAt, RegisteredAt, ClearedAt,
              SweptAt, Sweeps, NoHiddenDocuments, TargetTable
<1>2. ASSUME NEW c \in Conn, Issue(c) \/ Step(c) \/ Abort(c), HiddenAt(c)' PROVE HiddenInv'
  <2>1. KeepsOthers(c)
    BY <1>2, OthersKept DEF TypeInv
  <2>2. \A o \in Conn \ {c} : HiddenAt(o)'
    BY <1>2, <2>1, OthersStayHidden DEF HiddenInv, HiddenAt
  <2>3. PlacedInv' /\ NoHiddenDocuments'
    BY <1>2, NextPlaced, NothingHidden DEF HiddenInv
  <2> QED BY <1>2, <2>2, <2>3 DEF HiddenInv
<1>3. ASSUME NEW c \in Conn, Issue(c) PROVE HiddenInv'
  BY <1>2, <1>3, IssueIsHidden
<1>4. ASSUME NEW c \in Conn, Abort(c) \/ Fail(c) \/ Answer(c), Step(c) \/ Abort(c)
      PROVE  HiddenInv'
  <2>1. cmd'[c] = Idle /\ todo'[c] = <<>>
    BY <1>4, EndKeepsOthers DEF Abort, Fail, Answer, TypeInv
  <2> QED BY <1>2, <1>4, <2>1, EndIsHidden
<1>5. ASSUME NEW c \in Conn, Step(c), ~Fail(c), ~Answer(c) PROVE HiddenInv'
  <2>1. HiddenAt(c) /\ PlacedInv
    BY DEF HiddenInv
  <2>2. Tidy(todo'[c], cmd'[c]) /\ BatchAt(c)' /\ RegisteredAt(c)' /\ ClearedAt(c)'
    BY <1>5, <2>1, TidyMoves, BatchMoves, RegisteredMoves, ClearedMoves DEF HiddenAt
  <2>3. SweptAt(c)'
    <3>1. cmd'[c] = cmd[c]
      BY <1>5, CommandKept
    <3> QED BY <1>5, <2>1, <3>1, SweepMoves DEF HiddenAt, SweptAt
  <2> QED BY <1>2, <1>5, <2>2, <2>3 DEF HiddenAt
<1> QED BY <1>1, <1>3, <1>4, <1>5 DEF Next

LEMMA InitHidden == Init => HiddenInv
<1> SUFFICES ASSUME Init PROVE HiddenInv
  OBVIOUS
<1>1. DOMAIN Loaded \subseteq Namespace /\ IsFiniteSet(DOMAIN Loaded)
  BY LoadedAssumption, FiniteAssumption, FS_Subset
<1>2. ASSUME NEW t \in Table, rows[t] # {}
      PROVE  \E n \in DOMAIN Loaded : TableOf[n] = t
  BY <1>2 DEF Init
<1>3. PlacedInv
  BY <1>2 DEF Init, PlacedInv
<1>4. ASSUME NEW c \in Conn PROVE HiddenAt(c)
  <2>1. cmd[c] = Idle /\ todo[c] = <<>>
    BY DEF Init
  <2>2. ~Inserts(cmd[c]) /\ ~Replaces(cmd[c]) /\ cmd[c].kind # "dropDatabase"
    BY <2>1, IdleLoop DEF Idle
  <2>3. Len(todo[c]) = 0
    BY <2>1, EmptySeq
  <2> QED BY <2>1, <2>2, <2>3 DEF HiddenAt, Tidy, BatchAt, RegisteredAt, ClearedAt, SweptAt
<1>5. ASSUME NEW n \in DOMAIN Loaded PROVE catalog[n].id # 0
  <2>1. /\ DOMAIN issued = 1..Len(issued) /\ Len(issued) \in Nat
        /\ \E i \in DOMAIN issued : issued[i] = n
    BY <1>1, OrderingsType, LenProperties DEF Init
  <2>2. (CHOOSE i \in DOMAIN issued : issued[i] = n) \in 1..Len(issued)
    BY <2>1
  <2> QED BY <1>1, <2>1, <2>2 DEF Init
<1>6. NoHiddenDocuments
  BY <1>1, <1>2, <1>5 DEF NoHiddenDocuments
<1> QED BY <1>3, <1>4, <1>6 DEF HiddenInv

LEMMA HiddenInvariant == Spec => [](TypeInv /\ FitsInv /\ SentInv /\ HiddenInv)
<1>1. Init => SentInv
  BY MenusAssumption DEF Init, SentInv, Sends
<1>2. TypeInv /\ FitsInv /\ SentInv /\ HiddenInv /\ [Next]_vars => SentInv' /\ HiddenInv'
  BY NextSent, NextHidden
<1> QED BY <1>1, <1>2, InitHidden, ProgramsInvariant, PTL DEF Spec

\* Documents are never in a table that no registered collection owns, as long as
\* one client at most writes to it and its name is made of plain ones: a collection
\* is registered before a document is stored in it, and unregistered only once its
\* table is dropped (store.go:53-79, 117-124, 447-479).
THEOREM NoDocumentIsHidden == Spec => []NoHiddenDocuments
<1>1. HiddenInv => NoHiddenDocuments
  BY DEF HiddenInv
<1> QED BY <1>1, HiddenInvariant, PTL

-----------------------------------------------------------------------------
(* A dropDatabase that nobody works beside. *)

\* The clients send the commands of one menu.
MenuInv ==
  \E menu \in Menus : \A o \in Conn :
    unsent[o] \subseteq menu[o] /\ cmd[o] \in menu[o] \cup {Idle}

\* Its last statement deletes the catalog rows; until then what is left of it
\* drops the tables that hold documents.
DroppedAt(c) ==
  cmd[c].kind = "dropDatabase" =>
    /\ todo[c] # <<>> =>
         todo[c][Len(todo[c])] = [op |-> "deleteRows", db |-> cmd[c].db]
    /\ DropsAlone(c) => \A n \in Namespace : n.db = cmd[c].db =>
         /\ Plain(n.db) /\ Plain(n.coll) => Sweeps(c, TableOf[n])
         /\ todo[c] = <<>> => catalog[n].id = 0
DroppedInv == MenuInv /\ \A c \in Conn : DroppedAt(c)

LEMMA NextMenu ==
  ASSUME TypeInv, MenuInv, [Next]_vars
  PROVE  MenuInv'
<1>1. CASE UNCHANGED vars \/ Done
  BY <1>1 DEF vars, Done, MenuInv
<1>2. ASSUME NEW c \in Conn, Issue(c) PROVE MenuInv'
  <2>1. PICK m \in unsent[c] :
          cmd' = [cmd EXCEPT ![c] = m] /\ unsent' = [unsent EXCEPT ![c] = @ \ {m}]
    BY <1>2 DEF Issue
  <2>2. PICK menu \in Menus : \A o \in Conn :
          unsent[o] \subseteq menu[o] /\ cmd[o] \in menu[o] \cup {Idle}
    BY DEF MenuInv
  <2>3. \A o \in Conn : unsent'[o] \subseteq menu[o] /\ cmd'[o] \in menu[o] \cup {Idle}
    BY <2>1, <2>2 DEF TypeInv, TypeOK
  <2> QED BY <2>2, <2>3 DEF MenuInv
<1>3. ASSUME NEW c \in Conn, Step(c), ~Fail(c), ~Answer(c) PROVE MenuInv'
  BY <1>3, CommandKept DEF MenuInv, clients
<1>4. ASSUME NEW c \in Conn, Abort(c) \/ Fail(c) \/ Answer(c) PROVE MenuInv'
  BY <1>4 DEF Abort, Fail, Answer, End, MenuInv, TypeInv, TypeOK
<1> QED BY <1>1, <1>2, <1>3, <1>4 DEF Next

LEMMA DropIssued ==
  ASSUME TypeInv, NEW c \in Conn, Issue(c)
  PROVE  DroppedAt(c)'
<1> SUFFICES ASSUME cmd'[c].kind = "dropDatabase" PROVE DroppedAt(c)'
  BY DEF DroppedAt
<1>1. cmd'[c] \in Command /\ todo'[c] = Program(cmd'[c])
  BY IssueIsTidy
<1>2. PICK s : s = todo'[c]
  OBVIOUS
<1>3. s = << [op |-> "showTables", db |-> cmd'[c].db], [op |-> "deleteRows", db |-> cmd'[c].db] >>
  BY <1>1, <1>2 DEF Program, DropDatabase
<1>4. /\ Len(s) = 2 /\ s[1].op = "showTables" /\ s # <<>>
      /\ s[2] = [op |-> "deleteRows", db |-> cmd'[c].db]
  BY <1>3
<1>5. \A t : Sweeps(c, t)'
  BY <1>2, <1>4 DEF Sweeps
<1> QED BY <1>2, <1>4, <1>5 DEF DroppedAt

LEMMA DropMovesOn ==
  ASSUME TypeInv, FitsInv, PlacedInv, NEW c \in Conn, Tidy(todo[c], cmd[c]), DroppedAt(c),
         Step(c), ~Fail(c), ~Answer(c)
  PROVE  DroppedAt(c)'
<1>1. cmd'[c] = cmd[c]
  BY CommandKept
<1> SUFFICES ASSUME cmd[c].kind = "dropDatabase" PROVE DroppedAt(c)'
  BY <1>1 DEF DroppedAt
<1> DEFINE last == [op |-> "deleteRows", db |-> cmd[c].db]
<1>2. cmd[c] # Idle /\ ~Inserts(cmd[c]) /\ ~Replaces(cmd[c]) /\ ~Deletes(cmd[c])
  BY DEF Idle, Inserts, Replaces, Deletes
<1>3. pending[c] = {}
  BY <1>2, NextWrite
<1>4. todo[c] # <<>> /\ todo[c] \in Seq(Statement)
  BY <1>3, NothingLeft DEF TypeInv, TypeOK
<1>5. PICK l \in Nat : l = Len(todo[c]) /\ l >= 1 /\ 1 \in 1..l /\ todo[c][1] = Stmt(c)
  BY <1>4, LenProperties, EmptySeq DEF Stmt
<1>6. todo[c][l] = last
  BY <1>4, <1>5 DEF DroppedAt
<1>7. PICK q \in Seq(Statement) : q = Tail(todo[c])
  BY <1>4, HeadTailProperties
<1>8. Len(q) = l - 1 /\ \A k \in 1..(l - 1) : q[k] = todo[c][k + 1]
  BY <1>4, <1>5, <1>7, HeadTailProperties
<1>9. l > 1 => q[l - 1] = last
  <2>1. l > 1 => l - 1 \in 1..(l - 1) /\ l - 1 + 1 = l
    BY <1>5
  <2> QED BY <1>6, <1>8, <2>1
<1>10. CASE ShowTables(c)
  <2>1. Stmt(c).op = "showTables"
    BY <1>10 DEF ShowTables, At, Stmt
  <2>2. l # 1
    BY <1>5, <1>6, <2>1
  <2>3. PICK p \in Seq(Statement) : todo'[c] = p \o q
    BY <1>7, <1>10, TablesListed
  <2>4. PICK w : w = p \o q
    OBVIOUS
  <2>5. PICK a \in Nat : a = Len(p)
    BY LenProperties
  <2>6. /\ w \in Seq(Statement) /\ Len(w) = a + (l - 1)
        /\ \A k \in 1..(a + (l - 1)) : w[k] = IF k <= a THEN p[k] ELSE q[k - a]
    <3>1. /\ w \in Seq(Statement) /\ Len(w) = Len(p) + Len(q)
          /\ \A k \in 1..(Len(p) + Len(q)) : w[k] = IF k <= Len(p) THEN p[k] ELSE q[k - Len(p)]
      BY <2>4, Concatenated
    <3> QED BY <1>8, <2>5, <3>1
  <2>7. w[Len(w)] = last /\ w # <<>>
    <3>0. l >= 2
      <4>1. l >= 1
        BY <1>5
      <4> QED BY <2>2, <4>1
    <3>1. a + (l - 1) \in 1..(a + (l - 1)) /\ ~(a + (l - 1) <= a) /\ a + (l - 1) - a = l - 1
      BY <3>0
    <3>2. w[a + (l - 1)] = q[l - 1]
      BY <2>6, <3>1
    <3>3. a + (l - 1) # 0
      BY <3>1
    <3>4. w # <<>>
      BY <2>6, <3>3, EmptySeq
    <3>5. q[l - 1] = last
      BY <1>9, <3>0
    <3> QED BY <2>6, <3>2, <3>4, <3>5
  <2>8. todo'[c] # <<>> /\ todo'[c][Len(todo'[c])] = last
    BY <2>3, <2>4, <2>7
  <2>9. ASSUME DropsAlone(c), NEW n \in Namespace, n.db = cmd[c].db, Plain(n.db), Plain(n.coll)
        PROVE  Sweeps(c, TableOf[n])'
    <3>1. Sweeps(c, TableOf[n])
      BY <2>9 DEF DroppedAt
    <3> QED BY <2>9, <3>1, SweepMoves, PlainNamesAreSelected, TableOfType
  <2>10. DropsAlone(c)' => DropsAlone(c)
    BY <1>1 DEF DropsAlone
  <2> QED BY <1>1, <2>8, <2>9, <2>10 DEF DroppedAt
<1>11. CASE ~ShowTables(c)
  <2>1. Stmt(c).op \in {"dropTable", "deleteRows"}
    <3>1. Stmt(c).op \in {"showTables", "dropTable", "deleteRows"}
      BY <1>5 DEF Tidy
    <3> QED BY <1>3, <1>4, <1>11, <3>1, NextStatement
  <2>2. todo'[c] = q
    BY <1>3, <1>4, <1>7, <1>11, <2>1, ProgramMoves
  <2>3. q # <<>> => l > 1
    <3>1. q # <<>> => Len(q) # 0
      BY LenProperties, EmptySeq
    <3> QED BY <1>5, <1>8, <3>1
  <2>4. todo'[c] # <<>> => todo'[c][Len(todo'[c])] = last
    BY <1>8, <1>9, <2>2, <2>3
  <2>5. ASSUME q = <<>>, NEW n \in Namespace, n.db = cmd[c].db PROVE catalog'[n].id = 0
    <3>1. Len(q) = 0
      BY <2>5, EmptySeq
    <3>2. l = 1
      BY <1>5, <1>8, <3>1
    <3>3. Stmt(c).op = "deleteRows"
      BY <1>5, <1>6, <3>2
    <3>4. DeleteRows(c)
      BY <1>3, <1>4, <3>3, NextStatement
    <3>5. catalog' = [m \in Namespace |-> IF m.db = cmd[c].db THEN NoRow ELSE catalog[m]]
      BY <1>2, <3>4, RowsDropped
    <3> QED BY <2>5, <3>5 DEF NoRow
  <2>6. ASSUME DropsAlone(c), NEW n \in Namespace, n.db = cmd[c].db, Plain(n.db), Plain(n.coll)
        PROVE  Sweeps(c, TableOf[n])'
    <3>1. Sweeps(c, TableOf[n])
      BY <2>6 DEF DroppedAt
    <3> QED BY <2>6, <3>1, SweepMoves, PlainNamesAreSelected, TableOfType
  <2>7. DropsAlone(c)' => DropsAlone(c)
    BY <1>1 DEF DropsAlone
  <2> QED BY <1>1, <2>2, <2>4, <2>5, <2>6, <2>7 DEF DroppedAt
<1> QED BY <1>10, <1>11

\* What the others do beside it.
LEMMA OthersStayOut ==
  ASSUME TypeInv, FitsInv, HiddenInv, MenuInv, NEW o \in Conn, KeepsOthers(o),
         Issue(o) \/ Step(o) \/ Abort(o), NEW c \in Conn \ {o}, DroppedAt(c)
  PROVE  DroppedAt(c)'
<1>1. cmd'[c] = cmd[c] /\ todo'[c] = todo[c]
  BY DEF KeepsOthers
<1>2. DropsAlone(c)' <=> DropsAlone(c)
  BY <1>1 DEF DropsAlone
<1>3. ASSUME cmd[c].kind = "dropDatabase", DropsAlone(c),
             NEW n \in Namespace, n.db = cmd[c].db
      PROVE  /\ rows'[TableOf[n]] \subseteq rows[TableOf[n]]
             /\ catalog[n].id = 0 => catalog'[n].id = 0
  <2>1. cmd[o] # Idle => n \notin Registers(cmd[o]) /\ TableOf[n] \notin Writes(cmd[o])
    <3>1. cmd[c] # Idle
      BY <1>3 DEF Idle
    <3>2. PICK menu \in Menus : cmd[c] \in menu[c] /\ cmd[o] \in menu[o] \cup {Idle}
      BY <3>1 DEF MenuInv
    <3> QED BY <1>3, <3>2 DEF DropsAlone
  <2>2. Tidy(todo[o], cmd[o]) /\ PlacedInv
    BY DEF HiddenInv, HiddenAt
  <2>3. rows'[TableOf[n]] \subseteq rows[TableOf[n]]
    <3> SUFFICES ASSUME ~(rows'[TableOf[n]] \subseteq rows[TableOf[n]]) PROVE FALSE
      OBVIOUS
    <3>1. TableOf[n] = TargetTable(o) /\ (Inserts(cmd[o]) \/ Replaces(cmd[o]))
      BY <2>2, RowsGrow, TableOfType
    <3> QED BY <2>1, <3>1, StoresInto
  <2>4. ASSUME catalog[n].id = 0, catalog'[n].id # 0 PROVE FALSE
    <3>1. CASE UpsertRow(o)
      <4>1. cmd[o] # Idle
        BY <3>1 DEF UpsertRow, At, FitsInv, FitsAt
      <4> QED BY <2>1, <2>2, <2>4, <3>1, <4>1, RowUpserted
    <3>2. CASE DeleteRow(o) \/ DeleteRows(o)
      <4>1. catalog \in [Namespace -> CatalogRow] /\ NoRow.id = 0
        BY DEF TypeInv, TypeOK, NoRow
      <4>2. catalog'[n] \in {catalog[n], NoRow}
        BY <3>2, <4>1 DEF DeleteRow, DeleteRows
      <4> QED BY <2>4, <4>1, <4>2
    <3>3. CASE catalog' = catalog
      BY <2>4, <3>3
    <3> QED BY <3>1, <3>2, <3>3, CatalogKept
  <2> QED BY <2>3, <2>4
<1> QED BY <1>1, <1>2, <1>3 DEF DroppedAt, Sweeps

LEMMA NextDropped ==
  ASSUME TypeInv, FitsInv, HiddenInv, DroppedInv, [Next]_vars
  PROVE  DroppedInv'
<1>1. CASE UNCHANGED vars \/ Done
  BY <1>1, NextMenu DEF vars, Done, DroppedInv, DroppedAt, DropsAlone, Sweeps
<1>2. ASSUME NEW c \in Conn, Issue(c) \/ Step(c) \/ Abort(c), DroppedAt(c)' PROVE DroppedInv'
  <2>1. KeepsOthers(c)
    BY <1>2, OthersKept DEF TypeInv
  <2> QED BY <1>2, <2>1, OthersStayOut, NextMenu DEF DroppedInv
<1>3. ASSUME NEW c \in Conn, Issue(c) PROVE DroppedInv'
  BY <1>2, <1>3, DropIssued
<1>4. ASSUME NEW c \in Conn, Abort(c) \/ Fail(c) \/ Answer(c), Step(c) \/ Abort(c)
      PROVE  DroppedInv'
  <2>1. cmd'[c] = Idle
    BY <1>4, EndKeepsOthers DEF Abort, Fail, Answer, TypeInv
  <2>2. DroppedAt(c)'
    BY <2>1 DEF DroppedAt, Idle
  <2> QED BY <1>2, <1>4, <2>2
<1>5. ASSUME NEW c \in Conn, Step(c), ~Fail(c), ~Answer(c) PROVE DroppedInv'
  BY <1>2, <1>5, DropMovesOn DEF DroppedInv, HiddenInv, HiddenAt
<1> QED BY <1>1, <1>3, <1>4, <1>5 DEF Next

\* A dropDatabase that no other client registers collections or writes documents
\* of the database beside leaves no row of it in the catalog, and no document in a
\* collection with a plain name (store.go:447-479).
THEOREM DroppedDatabasesAreEmpty == Spec => []DropDatabaseLeavesNothing
<1>1. Init => DroppedInv
  <2> SUFFICES ASSUME Init PROVE DroppedInv
    OBVIOUS
  <2>1. MenuInv
    BY DEF Init, MenuInv
  <2>2. \A c \in Conn : cmd[c].kind # "dropDatabase"
    BY DEF Init, Idle
  <2> QED BY <2>1, <2>2 DEF DroppedInv, DroppedAt
<1>2. TypeInv /\ FitsInv /\ HiddenInv /\ DroppedInv /\ [Next]_vars => DroppedInv'
  BY NextDropped
<1>3. DroppedInv => DropDatabaseLeavesNothing
  <2> SUFFICES ASSUME DroppedInv, NEW c \in Conn, cmd[c].kind = "dropDatabase", todo[c] = <<>>,
                      DropsAlone(c), NEW n \in Namespace, n.db = cmd[c].db
               PROVE  /\ catalog[n].id = 0
                      /\ Plain(n.db) /\ Plain(n.coll) => rows[TableOf[n]] = {}
    BY DEF DropDatabaseLeavesNothing
  <2>1. Len(todo[c]) = 0
    BY EmptySeq
  <2>2. /\ catalog[n].id = 0
        /\ Plain(n.db) /\ Plain(n.coll) => Sweeps(c, TableOf[n])
    BY DEF DroppedInv, DroppedAt
  <2> QED BY <2>1, <2>2 DEF Sweeps
<1> QED BY <1>1, <1>2, <1>3, HiddenInvariant, PTL DEF Spec

-----------------------------------------------------------------------------
(* Validators: the statements that write a catalog row, and those before them. *)

\* What statement x of command m may write to the catalog, and after which
\* statement a another one b comes: an upsert of a row after the read of its
\* options, a commit after the read of the target's validator.
Sound(x, m) ==
  /\ x.op = "upsertRow" =>
       \/ x.validator = AnyDoc
       \/ m.kind = "create" /\ m.ns = x.ns /\ m.validator = x.validator
  /\ x.op = "deleteRow" => x.ns \in RowsOf(m)
Follows(a, b, m) ==
  /\ b.op = "upsertRow" => a = On("readOptions", b.ns)
  /\ b.op = "commit" => a = On("readValidator", Target(m))

Linked(s, m) ==
  /\ \A i \in 1..Len(s) : Sound(s[i], m)
  /\ \A i \in 2..Len(s) : Follows(s[i - 1], s[i], m)

\* A program of m as it is begun.
Opening(x) == x.op \notin {"upsertRow", "commit"}
Begun(s, m) ==
  s \in Seq(Statement) /\ Linked(s, m) /\ (s # <<>> => Opening(s[1]))

LEMMA LinkedTail ==
  ASSUME NEW s \in Seq(Statement), s # <<>>, NEW m, Linked(s, m)
  PROVE  /\ Linked(Tail(s), m) /\ Sound(Head(s), m)
         /\ Tail(s) # <<>> => Follows(Head(s), Head(Tail(s)), m)
<1>1. PICK t \in Seq(Statement) : t = Tail(s)
  BY HeadTailProperties
<1>2. PICK n \in Nat : n = Len(s) /\ n >= 1
  BY LenProperties, EmptySeq
<1>3. Len(t) = n - 1 /\ \A i \in 1..(n - 1) : t[i] = s[i + 1]
  BY <1>1, <1>2, HeadTailProperties
<1>4. Head(s) = s[1] /\ 1 \in 1..n
  BY <1>2
<1>5. t # <<>> => 2 \in 2..n /\ Head(t) = s[2]
  <2>1. t # <<>> => Len(t) \in Nat \ {0}
    BY LenProperties, EmptySeq
  <2>2. t # <<>> => 1 \in 1..(n - 1) /\ Head(t) = t[1]
    BY <1>2, <1>3, <2>1
  <2> QED BY <1>2, <1>3, <2>2
<1>6. ASSUME NEW i \in 1..(n - 1) PROVE Sound(t[i], m)
  <2>1. i + 1 \in 1..n
    BY <1>2
  <2> QED BY <1>2, <1>3, <2>1 DEF Linked
<1>7. ASSUME NEW i \in 2..(n - 1) PROVE Follows(t[i - 1], t[i], m)
  <2>1. i \in 1..(n - 1) /\ i - 1 \in 1..(n - 1) /\ i + 1 \in 2..n /\ (i + 1) - 1 = i
        /\ (i - 1) + 1 = i
    BY <1>2
  <2>2. t[i] = s[i + 1] /\ t[i - 1] = s[i]
    BY <1>3, <2>1
  <2>3. Follows(s[(i + 1) - 1], s[i + 1], m)
    BY <1>2, <2>1 DEF Linked
  <2> QED BY <2>1, <2>2, <2>3
<1>8. Linked(t, m)
  BY <1>3, <1>6, <1>7 DEF Linked
<1>9. t # <<>> => Follows(s[2 - 1], s[2], m)
  BY <1>2, <1>5 DEF Linked
<1>10. s[2 - 1] = s[1]
  OBVIOUS
<1> QED BY <1>1, <1>2, <1>4, <1>5, <1>8, <1>9, <1>10 DEF Linked

\* Programs put one after the other.
LEMMA BegunJoined ==
  ASSUME NEW m, NEW p, Begun(p, m), NEW q, Begun(q, m)
  PROVE  Begun(p \o q, m)
<1>1. PICK w : w = p \o q
  OBVIOUS
<1>2. PICK a \in Nat : a = Len(p)
  BY LenProperties DEF Begun
<1>3. PICK b \in Nat : b = Len(q)
  BY LenProperties DEF Begun
<1>4. /\ w \in Seq(Statement) /\ Len(w) = a + b
      /\ \A i \in 1..(a + b) : w[i] = IF i <= a THEN p[i] ELSE q[i - a]
  <2>1. p \in Seq(Statement) /\ q \in Seq(Statement)
    BY DEF Begun
  <2> QED BY <1>1, <1>2, <1>3, <2>1, Concatenated
<1>5. \A i \in 1..a : w[i] = p[i] /\ Sound(p[i], m)
  BY <1>2, <1>3, <1>4 DEF Begun, Linked
<1>6. ASSUME NEW i \in (a + 1)..(a + b)
      PROVE  i - a \in 1..b /\ w[i] = q[i - a] /\ Sound(q[i - a], m)
  <2>1. i - a \in 1..b /\ i \in 1..(a + b) /\ ~(i <= a)
    BY <1>2, <1>3
  <2>2. w[i] = q[i - a]
    BY <1>4, <2>1
  <2> QED BY <1>3, <2>1, <2>2 DEF Begun, Linked
<1>7. b # 0 => Opening(q[1])
  BY <1>3, EmptySeq DEF Begun
<1>8. a # 0 => Opening(p[1])
  BY <1>2, EmptySeq DEF Begun
<1>9. ASSUME NEW i \in 2..(a + b) PROVE Follows(w[i - 1], w[i], m)
  <2>1. CASE i <= a
    <3>1. i \in 2..a /\ i \in 1..a /\ i - 1 \in 1..a
      BY <1>2, <2>1
    <3>2. Follows(p[i - 1], p[i], m)
      BY <1>2, <3>1 DEF Begun, Linked
    <3> QED BY <1>5, <3>1, <3>2
  <2>2. CASE i = a + 1
    <3>1. i \in (a + 1)..(a + b) /\ i - a = 1 /\ b # 0
      BY <1>2, <1>3, <2>2
    <3>2. Opening(w[i])
      BY <1>6, <1>7, <3>1
    <3> QED BY <3>2 DEF Opening, Follows
  <2>3. CASE i > a + 1
    <3>1. /\ i \in (a + 1)..(a + b) /\ i - 1 \in (a + 1)..(a + b) /\ i - a \in 2..b
          /\ (i - 1) - a = (i - a) - 1
      BY <1>2, <1>3, <2>3
    <3>2. w[i] = q[i - a] /\ w[i - 1] = q[(i - a) - 1]
      BY <1>6, <3>1
    <3>3. Follows(q[(i - a) - 1], q[i - a], m)
      BY <1>3, <3>1 DEF Begun, Linked
    <3> QED BY <3>2, <3>3
  <2> QED BY <1>2, <1>3, <2>1, <2>2, <2>3
<1>10. ASSUME NEW i \in 1..(a + b) PROVE Sound(w[i], m)
  <2>1. i \in 1..a \/ i \in (a + 1)..(a + b)
    BY <1>2, <1>3
  <2> QED BY <1>5, <1>6, <2>1
<1>11. Linked(w, m)
  BY <1>4, <1>9, <1>10 DEF Linked
<1>12. w # <<>> => Opening(w[1])
  <2>1. w # <<>> => a + b # 0
    BY <1>4, EmptySeq
  <2>2. CASE a # 0
    <3>1. 1 \in 1..a
      BY <1>2, <2>2
    <3> QED BY <1>5, <1>8, <2>2, <3>1
  <2>3. CASE a = 0 /\ b # 0
    <3>1. 1 \in (a + 1)..(a + b) /\ 1 - a = 1
      BY <1>2, <1>3, <2>3
    <3> QED BY <1>6, <1>7, <2>3, <3>1
  <2> QED BY <1>2, <1>3, <2>1, <2>2, <2>3
<1> QED BY <1>1, <1>4, <1>11, <1>12 DEF Begun

\* The pieces programs are made of.
LEMMA PlainIsBegun ==
  ASSUME NEW m, NEW s \in Seq(Statement),
         \A i \in 1..Len(s) : s[i].op \notin {"upsertRow", "commit", "deleteRow"}
  PROVE  Begun(s, m)
<1>1. PICK n \in Nat : n = Len(s)
  BY LenProperties
<1>2. \A i \in 1..n : Sound(s[i], m) /\ Opening(s[i])
  BY <1>1 DEF Sound, Opening
<1>3. \A i \in 2..n : i \in 1..n
  BY <1>1
<1>4. \A i \in 2..n : Follows(s[i - 1], s[i], m)
  BY <1>2, <1>3 DEF Follows, Opening
<1>5. s # <<>> => 1 \in 1..n
  BY <1>1, EmptySeq
<1> QED BY <1>1, <1>2, <1>4, <1>5 DEF Begun, Linked

LEMMA NothingIsBegun == ASSUME NEW m PROVE Begun(<<>>, m)
<1>1. PICK s \in Seq(Statement) : s = <<>>
  BY EmptySeq
<1>2. Len(s) = 0
  BY <1>1
<1>3. \A i \in 1..Len(s) : s[i].op \notin {"upsertRow", "commit", "deleteRow"}
  BY <1>2
<1>4. Begun(s, m)
  BY <1>3, PlainIsBegun
<1> QED BY <1>1, <1>4

LEMMA OneIsBegun ==
  ASSUME NEW m, NEW x \in Statement, x.op \notin {"upsertRow", "commit", "deleteRow"}
  PROVE  Begun(<< x >>, m)
<1>1. PICK s \in Seq(Statement) : s = << x >>
  <2>1. << x >> \in Seq(Statement)
    OBVIOUS
  <2> QED BY <2>1
<1>2. Len(s) = 1 /\ s[1] = x
  BY <1>1
<1>3. \A i \in 1..1 : i = 1
  OBVIOUS
<1>4. \A i \in 1..Len(s) : s[i].op \notin {"upsertRow", "commit", "deleteRow"}
  BY <1>2, <1>3
<1>5. Begun(s, m)
  BY <1>4, PlainIsBegun
<1> QED BY <1>1, <1>5

LEMMA FindIsBegun ==
  ASSUME NEW m, NEW n \in Namespace, NEW filter \in SUBSET Doc, NEW limit \in Nat, NEW use \in Use
  PROVE  Begun(Find(n, filter, limit, use), m)
<1>1. PICK s \in Seq(Statement) : s = Find(n, filter, limit, use)
  BY FindType
<1>2. Len(s) = 2 /\ s[1].op = "ensureTable" /\ s[2].op = "select"
  BY <1>1 DEF Find, EnsureCollection
<1>3. \A i \in 1..2 : i = 1 \/ i = 2
  OBVIOUS
<1>4. \A i \in 1..Len(s) : s[i].op \notin {"upsertRow", "commit", "deleteRow"}
  BY <1>2, <1>3
<1>5. Begun(s, m)
  BY <1>4, PlainIsBegun
<1> QED BY <1>1, <1>5

LEMMA CreateIsBegun ==
  ASSUME NEW m, NEW n \in Namespace, NEW v \in SUBSET Doc,
         v = AnyDoc \/ (m.kind = "create" /\ m.ns = n /\ m.validator = v)
  PROVE  Begun(CreateCollection(n, v), m)
<1>1. PICK s \in Seq(Statement) : s = CreateCollection(n, v)
  BY CreateCollectionType
<1>2. /\ Len(s) = 3 /\ s[1].op = "ensureTable" /\ s[2] = On("readOptions", n)
      /\ s[3].op = "upsertRow" /\ s[3].ns = n /\ s[3].validator = v
  BY <1>1 DEF CreateCollection, EnsureCollection
<1>3. s[2].op = "readOptions"
  BY <1>2 DEF On
<1>4. Sound(s[1], m) /\ Sound(s[2], m) /\ Sound(s[3], m)
  BY <1>2, <1>3 DEF Sound
<1>5. Follows(s[1], s[2], m) /\ Follows(s[2], s[3], m) /\ Opening(s[1])
  BY <1>2, <1>3 DEF Follows, Opening
<1>6. \A i \in 1..3 : Sound(s[i], m)
  <2>1. \A i \in 1..3 : i = 1 \/ i = 2 \/ i = 3
    OBVIOUS
  <2> QED BY <1>4, <2>1
<1>7. \A i \in 2..3 : Follows(s[i - 1], s[i], m)
  <2>1. \A i \in 2..3 : (i = 2 /\ i - 1 = 1) \/ (i = 3 /\ i - 1 = 2)
    OBVIOUS
  <2> QED BY <1>5, <2>1
<1>8. Begun(s, m)
  BY <1>2, <1>5, <1>6, <1>7 DEF Begun, Linked
<1> QED BY <1>1, <1>8

\* The transaction of an insert.
LEMMA StoreIsBegun ==
  ASSUME NEW m, NEW n \in Namespace, n = Target(m)
  PROVE  Begun(<< On("readValidator", n), [op |-> "commit"] >>, m)
<1>1. On("readValidator", n) \in Statement /\ [op |-> "commit"] \in Statement
  BY DEF On, Statement, OnNamespace
<1>2. PICK s \in Seq(Statement) : s = << On("readValidator", n), [op |-> "commit"] >>
  <2>1. << On("readValidator", n), [op |-> "commit"] >> \in Seq(Statement)
    BY <1>1
  <2> QED BY <2>1
<1>3. Len(s) = 2 /\ s[1] = On("readValidator", n) /\ s[2] = [op |-> "commit"]
  BY <1>2
<1>4. s[1].op = "readValidator" /\ s[2].op = "commit"
  BY <1>3 DEF On
<1>5. \A i \in 1..2 : i = 1 \/ i = 2
  OBVIOUS
<1>6. \A i \in 1..2 : Sound(s[i], m)
  BY <1>4, <1>5 DEF Sound
<1>7. \A i \in 2..2 : i = 2 /\ i - 1 = 1
  OBVIOUS
<1>8. \A i \in 2..2 : Follows(s[i - 1], s[i], m)
  BY <1>3, <1>4, <1>7 DEF Follows
<1>9. Begun(s, m)
  BY <1>3, <1>4, <1>6, <1>8 DEF Begun, Linked, Opening
<1> QED BY <1>2, <1>9

LEMMA InsertIsBegun ==
  ASSUME NEW m, NEW n \in Namespace, n = Target(m)
  PROVE  Begun(Insert(n), m)
<1>1. Begun(CreateCollection(n, AnyDoc), m)
  <2>1. PICK v \in SUBSET Doc : v = AnyDoc
    BY DEF AnyDoc
  <2> QED BY <2>1, CreateIsBegun
<1> QED BY <1>1, StoreIsBegun, BegunJoined DEF Insert

LEMMA UpdateIsBegun ==
  ASSUME NEW m, NEW n \in Namespace
  PROVE  Begun(Update(n), m)
<1>1. Begun(CreateCollection(n, AnyDoc), m)
  <2>1. PICK v \in SUBSET Doc : v = AnyDoc
    BY DEF AnyDoc
  <2> QED BY <2>1, CreateIsBegun
<1>2. Begun(Find(n, AnyDoc, 0, "update"), m)
  BY FindIsBegun DEF AnyDoc, Use
<1> QED BY <1>1, <1>2, BegunJoined DEF Update

LEMMA DropIsBegun ==
  ASSUME NEW m, NEW n \in Namespace, n \in RowsOf(m)
  PROVE  Begun(DropCollection(n), m)
<1>1. PICK s \in Seq(Statement) : s = DropCollection(n)
  BY DropCollectionType
<1>2. Len(s) = 2 /\ s[1].op = "dropTable" /\ s[2].op = "deleteRow" /\ s[2].ns = n
  BY <1>1 DEF DropCollection, On, DropTableOf
<1>3. Sound(s[1], m) /\ Sound(s[2], m) /\ Follows(s[1], s[2], m) /\ Opening(s[1])
  BY <1>2 DEF Sound, Follows, Opening
<1>4. \A i \in 1..2 : i = 1 \/ i = 2
  OBVIOUS
<1>5. \A i \in 2..2 : i = 2 /\ i - 1 = 1
  OBVIOUS
<1>6. Linked(s, m)
  BY <1>2, <1>3, <1>4, <1>5 DEF Linked
<1> QED BY <1>1, <1>3, <1>6 DEF Begun

LEMMA ProgramIsBegun ==
  ASSUME NEW m \in Command, m.kind # "dropDatabase"
  PROVE  Begun(Program(m), m)
<1>1. CASE m.kind = "create"
  <2>1. m.ns \in Namespace /\ m.validator \in SUBSET Doc
    BY <1>1, CommandFields
  <2>2. Begun(CreateCollection(m.ns, m.validator), m)
    BY <1>1, <2>1, CreateIsBegun
  <2> QED BY <1>1, <2>2 DEF Program
<1>2. CASE m.kind = "insert"
  <2>1. m.ns \in Namespace /\ m.ns = Target(m)
    BY <1>2, CommandFields DEF Target
  <2> QED BY <1>2, <2>1, InsertIsBegun DEF Program
<1>3. CASE m.kind = "update"
  BY <1>3, CommandFields, UpdateIsBegun DEF Program
<1>4. CASE m.kind = "createIndexes"
  <2>1. m.ns \in Namespace /\ AnyDoc \in SUBSET Doc
    BY <1>4, CommandFields DEF AnyDoc
  <2>2. Begun(CreateCollection(m.ns, AnyDoc), m)
    BY <2>1, CreateIsBegun
  <2>3. /\ On("readCollectionID", m.ns) \in Statement
        /\ On("readCollectionID", m.ns).op = "readCollectionID"
    BY <2>1 DEF On, Statement, OnNamespace
  <2>4. Begun(<< On("readCollectionID", m.ns) >>, m)
    BY <2>3, OneIsBegun
  <2>5. Program(m) = CreateCollection(m.ns, AnyDoc) \o << On("readCollectionID", m.ns) >>
    BY <1>4 DEF Program
  <2> QED BY <2>2, <2>4, <2>5, BegunJoined
<1>5. CASE m.kind \in {"find", "delete", "findAndModify", "renameCollection"}
  <2>1. m.ns \in Namespace /\ AnyDoc \in SUBSET Doc
    BY <1>5, CommandFields DEF AnyDoc
  <2>2. CASE m.kind = "find"
    <3>1. Program(m) = Find(m.ns, m.filter, m.limit, "reply")
      BY <2>2 DEF Program
    <3> QED BY <2>1, <2>2, <3>1, CommandFields, FindIsBegun DEF Use
  <2>3. CASE m.kind = "delete"
    <3>1. Program(m) = Find(m.ns, AnyDoc, 0, "delete")
      BY <2>3 DEF Program, Delete
    <3> QED BY <2>1, <3>1, FindIsBegun DEF Use
  <2>4. CASE m.kind = "findAndModify"
    <3>1. Program(m) = Find(m.ns, m.filter, 1, "before")
      BY <2>4 DEF Program
    <3> QED BY <2>1, <2>4, <3>1, CommandFields, FindIsBegun DEF Use
  <2>5. CASE m.kind = "renameCollection"
    <3>1. Program(m) = Find(m.ns, AnyDoc, 0, "rename")
      BY <2>5 DEF Program
    <3> QED BY <2>1, <3>1, FindIsBegun DEF Use
  <2> QED BY <1>5, <2>2, <2>3, <2>4, <2>5
<1>6. CASE m.kind = "drop"
  <2>1. m.ns \in Namespace /\ m.ns \in RowsOf(m)
    BY <1>6, CommandFields DEF RowsOf
  <2> QED BY <1>6, <2>1, DropIsBegun DEF Program
<1>7. CASE m.kind = "listIndexes"
  <2>1. /\ On("readCollectionID", m.ns) \in Statement
        /\ On("readCollectionID", m.ns).op = "readCollectionID"
    BY <1>7, CommandFields DEF On, Statement, OnNamespace
  <2>2. Program(m) = << On("readCollectionID", m.ns) >>
    BY <1>7 DEF Program
  <2> QED BY <2>1, <2>2, OneIsBegun
<1>8. CASE m.kind = "listCollections"
  <2>1. [op |-> "selectCollections", db |-> m.db] \in Statement
    BY <1>8, CommandFields DEF Statement, OnDatabase
  <2>2. Program(m) = << [op |-> "selectCollections", db |-> m.db] >>
    BY <1>8 DEF Program
  <2> QED BY <2>1, <2>2, OneIsBegun
<1> QED BY <1>1, <1>2, <1>3, <1>4, <1>5, <1>6, <1>7, <1>8, CommandFields

LEMMA AfterBeforeIsBegun ==
  ASSUME NEW m \in Command, m.kind = "findAndModify", NEW docs
  PROVE  Begun(AfterBefore(m, docs), m)
<1>1. m.ns \in Namespace /\ m.filter \in SUBSET Doc
  BY CommandFields
<1>2. Begun(Delete(m.ns), m)
  BY <1>1, FindIsBegun DEF Delete, Use, AnyDoc
<1>3. PICK change : change = IF m.updates = <<>> THEN <<>> ELSE Update(m.ns)
  OBVIOUS
<1>4. PICK again : again = IF m.new THEN Find(m.ns, m.filter, 1, "after") ELSE <<>>
  OBVIOUS
<1>5. Begun(change, m)
  BY <1>1, <1>3, UpdateIsBegun, NothingIsBegun
<1>6. Begun(again, m)
  BY <1>1, <1>4, FindIsBegun, NothingIsBegun DEF Use
<1>7. Begun(change \o again, m)
  BY <1>5, <1>6, BegunJoined
<1>8. AfterBefore(m, docs) \in {<<>>, Delete(m.ns), change \o again}
  BY <1>3, <1>4 DEF AfterBefore
<1> QED BY <1>2, <1>7, <1>8, NothingIsBegun

LEMMA AfterReadIsBegun ==
  ASSUME NEW m \in Command, m.kind = "renameCollection", NEW docs
  PROVE  Begun(AfterRead(m, docs), m)
<1>1. m.ns \in Namespace /\ m.to \in Namespace /\ m.to = Target(m)
  BY CommandFields DEF Target
<1>2. m.ns \in RowsOf(m) /\ m.to \in RowsOf(m)
  BY <1>1 DEF RowsOf, Registers
<1>3. PICK clear : clear = IF m.dropTarget THEN DropCollection(m.to) ELSE <<>>
  OBVIOUS
<1>4. PICK make : make = CreateCollection(m.to, AnyDoc)
  OBVIOUS
<1>5. PICK copy : copy = IF docs = <<>> THEN <<>> ELSE Insert(m.to)
  OBVIOUS
<1>6. PICK leave : leave = DropCollection(m.ns)
  OBVIOUS
<1>7. Begun(clear, m) /\ Begun(leave, m)
  BY <1>1, <1>2, <1>3, <1>6, DropIsBegun, NothingIsBegun
<1>8. Begun(make, m)
  <2>1. PICK v \in SUBSET Doc : v = AnyDoc
    BY DEF AnyDoc
  <2> QED BY <1>1, <1>4, <2>1, CreateIsBegun
<1>9. Begun(copy, m)
  BY <1>1, <1>5, InsertIsBegun, NothingIsBegun
<1>10. AfterRead(m, docs) = ((clear \o make) \o copy) \o leave
  BY <1>3, <1>4, <1>5, <1>6 DEF AfterRead
<1>11. Begun(clear \o make, m)
  BY <1>7, <1>8, BegunJoined
<1>12. Begun((clear \o make) \o copy, m)
  BY <1>9, <1>11, BegunJoined
<1> QED BY <1>7, <1>10, <1>12, BegunJoined

\* What is left of the program after a statement: the rest, or a new program.
LEMMA LinksMove ==
  ASSUME TypeInv, FitsInv, NEW c \in Conn, Step(c), ~Fail(c), pending[c] = {}, todo[c] # <<>>,
         cmd[c].kind # "dropDatabase"
  PROVE  /\ cmd' = cmd
         /\ todo'[c] = Tail(todo[c]) \/ Begun(todo'[c], cmd[c])
<1>1. cmd[c] \in Command /\ cmd' = cmd
  BY ProgramMoves
<1>2. CASE todo'[c] = Tail(todo[c])
  BY <1>1, <1>2
<1>3. CASE ShowTables(c)
  BY <1>3, TablesListed
<1>4. CASE Stmt(c).op = "select"
  <2>1. CASE SelectBefore(c)
    <3>1. PICK docs : Goto(c, AfterBefore(cmd[c], docs)) /\ cmd[c].kind = "findAndModify"
      BY <2>1 DEF SelectBefore
    <3>2. todo'[c] = AfterBefore(cmd[c], docs)
      BY <3>1 DEF Goto, TypeInv, TypeOK
    <3> QED BY <1>1, <3>1, <3>2, AfterBeforeIsBegun
  <2>2. CASE SelectForRename(c)
    <3>1. PICK docs : Goto(c, AfterRead(cmd[c], docs)) /\ cmd[c].kind = "renameCollection"
      BY <2>2 DEF SelectForRename
    <3>2. todo'[c] = AfterRead(cmd[c], docs)
      BY <3>1 DEF Goto, TypeInv, TypeOK
    <3> QED BY <1>1, <3>1, <3>2, AfterReadIsBegun
  <2>3. CASE \/ SelectForReply(c) \/ SelectAfter(c) \/ SelectForUpdate(c) \/ SelectForDelete(c)
    BY <1>1, <2>3 DEF SelectForReply, SelectAfter, SelectForUpdate, SelectForDelete,
                      StartLoop, Advance, Goto, TypeInv, TypeOK
  <2>4. ReadStep(c)
    BY <1>4, NextStatement
  <2> QED BY <2>1, <2>2, <2>3, <2>4 DEF ReadStep
<1>5. CASE Stmt(c).op = "readCollectionID"
  <2>1. ReadCollectionID(c) \/ NoCollectionID(c)
    BY <1>5, NextStatement
  <2>2. CASE Advance(c)
    BY <1>1, <2>2 DEF Advance, Goto, TypeInv, TypeOK
  <2>3. CASE cmd[c].kind = "listIndexes" /\ Goto(c, << On("selectIndexes", cmd[c].ns) >>)
    <3>1. /\ On("selectIndexes", cmd[c].ns) \in Statement
          /\ On("selectIndexes", cmd[c].ns).op = "selectIndexes"
      BY <1>1, <2>3, CommandFields DEF On, Statement, OnNamespace
    <3>2. Begun(<< On("selectIndexes", cmd[c].ns) >>, cmd[c])
      BY <3>1, OneIsBegun
    <3> QED BY <1>1, <2>3, <3>2 DEF Goto, TypeInv, TypeOK
  <2> QED BY <2>1, <2>2, <2>3 DEF ReadCollectionID, NoCollectionID
<1> QED BY <1>2, <1>3, <1>4, <1>5, ProgramMoves

-----------------------------------------------------------------------------
(* What a client knows of the validator when it writes. *)

LinkedAt(c) == cmd[c].kind # "dropDatabase" => Linked(todo[c], cmd[c])

\* Before an upsert c has the validator of the row, and before a commit that of
\* the collection its documents go to, if no other client writes the row.
Knows(c, n) == Registrars[n] \subseteq {c} => local[c].opts = catalog[n].validator
KnownAt(c) ==
  todo[c] # <<>> /\ cmd[c].kind # "dropDatabase" =>
    /\ Head(todo[c]).op = "upsertRow" => Knows(c, Head(todo[c]).ns)
    /\ Head(todo[c]).op = "commit" /\ Inserts(cmd[c]) =>
         Knows(c, Target(cmd[c])) /\ tx[c] \subseteq local[c].opts

ValidatorInv == \A c \in Conn : LinkedAt(c) /\ KnownAt(c)

LEMMA RowsAreTheirs ==
  ASSUME SentInv, NEW c \in Conn, cmd[c] # Idle, NEW n \in Namespace, n \in RowsOf(cmd[c])
  PROVE  c \in Registrars[n]
<1>1. PICK menu \in Menus : cmd[c] \in menu[c]
  BY DEF SentInv, Sends
<1> QED BY <1>1 DEF Registrars

\* Who writes a row is one of those who may, and knows what it was.
LEMMA RowWriter ==
  ASSUME TypeInv, SentInv, FitsInv, HiddenInv, ValidatorInv,
         NEW c \in Conn, Issue(c) \/ Step(c) \/ Abort(c),
         NEW n \in Namespace, catalog'[n] # catalog[n]
  PROVE  /\ c \in Registrars[n]
         /\ catalog'[n] = NoRow \/ (UpsertRow(c) /\ n = Stmt(c).ns)
<1>1. Tidy(todo[c], cmd[c]) /\ LinkedAt(c)
  BY DEF HiddenInv, HiddenAt, ValidatorInv
<1>2. UpsertRow(c) \/ DeleteRow(c) \/ DeleteRows(c)
  BY CatalogKept
<1>3. todo[c] # <<>> /\ todo[c] \in Seq(Statement) /\ Head(todo[c]) = Stmt(c)
  BY <1>2 DEF UpsertRow, DeleteRow, DeleteRows, At, Stmt, TypeInv, TypeOK
<1>4. cmd[c] # Idle
  BY <1>3 DEF FitsInv, FitsAt
<1>5. CASE UpsertRow(c)
  <2>1. n = Stmt(c).ns /\ Stmt(c).ns \in Registers(cmd[c])
    BY <1>1, <1>5, RowUpserted
  <2> QED BY <1>4, <1>5, <2>1, RowsAreTheirs DEF RowsOf
<1>6. CASE DeleteRow(c)
  <2>1. n = Stmt(c).ns /\ Stmt(c).ns \in Namespace /\ Stmt(c).op = "deleteRow"
    BY <1>1, <1>3, <1>4, <1>6, RowDropped
  <2>2. cmd[c].kind # "dropDatabase"
    <3>1. 1 \in 1..Len(todo[c]) /\ todo[c][1] = Head(todo[c])
      BY <1>3, LenProperties, EmptySeq
    <3> QED BY <1>1, <1>3, <2>1, <3>1 DEF Tidy
  <2>3. n \in RowsOf(cmd[c])
    BY <1>1, <1>3, <2>1, <2>2, LinkedTail DEF LinkedAt, Sound
  <2>4. catalog'[n] = NoRow
    BY <1>6, <2>1 DEF DeleteRow, TypeInv, TypeOK
  <2> QED BY <1>4, <2>3, <2>4, RowsAreTheirs
<1>7. CASE DeleteRows(c)
  <2>1. /\ cmd[c].kind = "dropDatabase"
        /\ catalog' = [k \in Namespace |-> IF k.db = cmd[c].db THEN NoRow ELSE catalog[k]]
    BY <1>1, <1>4, <1>7, RowsDropped
  <2>2. n.db = cmd[c].db /\ catalog'[n] = NoRow
    BY <2>1
  <2>3. n \in RowsOf(cmd[c])
    BY <2>1, <2>2 DEF RowsOf
  <2> QED BY <1>4, <2>2, <2>3, RowsAreTheirs
<1> QED BY <1>2, <1>5, <1>6, <1>7

\* A statement of c itself: what comes next was read just before.
LEMMA KnownMoves ==
  ASSUME TypeInv, FitsInv, HiddenInv, NEW c \in Conn, Step(c), ~Fail(c), ~Answer(c),
         LinkedAt(c), KnownAt(c), cmd[c].kind # "dropDatabase"
  PROVE  LinkedAt(c)' /\ KnownAt(c)'
<1>1. todo[c] \in Seq(Statement) /\ Linked(todo[c], cmd[c])
  BY DEF TypeInv, TypeOK, LinkedAt
<1>2. CASE pending[c] # {}
  <2>1. UNCHANGED << catalog, cmd, todo >>
    BY <1>2, LoopStep
  <2>2. local' = local /\ (tx' = tx \/ InsertDocument(c))
    BY <1>2, NextWrite DEF InsertDocument, ReplaceDocument, DeleteDocument, InsertIndex, clients
  <2>3. tx'[c] \subseteq tx[c] \cup local[c].opts
    <3>1. CASE InsertDocument(c)
      BY <3>1 DEF InsertDocument, Refused, TypeInv, TypeOK
    <3> QED BY <2>2, <3>1
  <2> QED BY <2>1, <2>2, <2>3 DEF LinkedAt, KnownAt, Knows
<1>3. CASE pending[c] = {}
  <2>1. todo[c] # <<>>
    BY <1>3, NothingLeft
  <2>2. cmd' = cmd /\ (todo'[c] = Tail(todo[c]) \/ Begun(todo'[c], cmd[c]))
    BY <1>3, <2>1, LinksMove
  <2>3. CASE Begun(todo'[c], cmd[c])
    <3>1. todo'[c] # <<>> => Opening(Head(todo'[c]))
      BY <2>3 DEF Begun
    <3> QED BY <2>2, <2>3, <3>1 DEF Begun, Opening, LinkedAt, KnownAt
  <2>4. CASE todo'[c] = Tail(todo[c])
    <3>1. Linked(todo'[c], cmd'[c])
      BY <1>1, <2>1, <2>2, <2>4, LinkedTail
    <3>2. todo'[c] # <<>> => Follows(Stmt(c), Head(todo'[c]), cmd[c])
      BY <1>1, <2>1, <2>4, LinkedTail DEF Stmt
    <3>3. ASSUME todo'[c] # <<>>, Head(todo'[c]).op = "upsertRow"
          PROVE  local'[c].opts = catalog'[Head(todo'[c]).ns].validator
      <4>1. Stmt(c).op = "readOptions" /\ Stmt(c).ns = Head(todo'[c]).ns
        BY <3>2, <3>3 DEF Follows, On
      <4>2. ReadOptions(c)
        BY <1>3, <2>1, <4>1, NextStatement
      <4>3. local'[c].opts = catalog[Stmt(c).ns].validator /\ catalog' = catalog
        BY <4>2 DEF ReadOptions, database, TypeInv, TypeOK, Local
      <4> QED BY <4>1, <4>3
    <3>4. ASSUME todo'[c] # <<>>, Head(todo'[c]).op = "commit", Inserts(cmd[c])
          PROVE  /\ local'[c].opts = catalog'[Target(cmd[c])].validator
                 /\ tx'[c] \subseteq local'[c].opts
      <4>1. Stmt(c).op = "readValidator" /\ Stmt(c).ns = Target(cmd[c])
        BY <3>2, <3>4 DEF Follows, On
      <4>2. ReadValidator(c)
        BY <1>3, <2>1, <4>1, NextStatement
      <4>3. local'[c].opts = catalog[Stmt(c).ns].validator /\ catalog' = catalog /\ tx' = tx
        BY <4>2 DEF ReadValidator, database, TypeInv, TypeOK, Local
      <4>4. tx[c] = {}
        BY <3>4, <4>1 DEF HiddenInv, HiddenAt, BatchAt, Stmt
      <4> QED BY <4>1, <4>3, <4>4
    <3>5. KnownAt(c)'
      BY <2>2, <3>3, <3>4 DEF KnownAt, Knows
    <3> QED BY <3>1, <3>5 DEF LinkedAt
  <2> QED BY <2>2, <2>3, <2>4
<1> QED BY <1>2, <1>3

LEMMA NextValidators ==
  ASSUME TypeInv, FitsInv, SentInv, HiddenInv, ValidatorInv, [Next]_vars
  PROVE  ValidatorInv'
<1>1. CASE UNCHANGED vars \/ Done
  BY <1>1 DEF vars, Done, ValidatorInv, LinkedAt, KnownAt, Knows
<1>2. ASSUME NEW c \in Conn, Issue(c) \/ Step(c) \/ Abort(c), LinkedAt(c)', KnownAt(c)'
      PROVE  ValidatorInv'
  <2>1. KeepsOthers(c)
    BY <1>2, OthersKept DEF TypeInv
  <2>2. ASSUME NEW o \in Conn \ {c}, NEW n \in Namespace, Knows(o, n) PROVE Knows(o, n)'
    <3>1. Registrars[n] \subseteq {o} => catalog'[n] = catalog[n]
      BY <1>2, RowWriter
    <3> QED BY <2>1, <2>2, <3>1 DEF KeepsOthers, Knows
  <2>3. ASSUME NEW o \in Conn \ {c} PROVE LinkedAt(o)' /\ KnownAt(o)'
    <3>1. LinkedAt(o) /\ KnownAt(o)
      BY DEF ValidatorInv
    <3>2. /\ cmd'[o] = cmd[o] /\ todo'[o] = todo[o] /\ tx'[o] = tx[o] /\ local'[o] = local[o]
      BY <2>1 DEF KeepsOthers
    <3>3. todo[o] # <<>> => Head(todo[o]) \in Statement
      BY HeadTailProperties DEF TypeInv, TypeOK
    <3>4. todo[o] # <<>> /\ Head(todo[o]).op = "upsertRow" => Head(todo[o]).ns \in Namespace
      BY <3>3, StatementFields
    <3>5. Inserts(cmd[o]) => Target(cmd[o]) \in Namespace
      BY StoresInto
    <3> QED BY <2>2, <3>1, <3>2, <3>4, <3>5 DEF LinkedAt, KnownAt
  <2> QED BY <1>2, <2>3 DEF ValidatorInv
<1>3. ASSUME NEW c \in Conn, Issue(c) PROVE ValidatorInv'
  <2>1. /\ cmd'[c] \in Command /\ todo'[c] = Program(cmd'[c])
    BY <1>3, IssueIsTidy
  <2>2. cmd'[c].kind # "dropDatabase" => Begun(todo'[c], cmd'[c])
    BY <2>1, ProgramIsBegun
  <2>3. LinkedAt(c)' /\ KnownAt(c)'
    BY <2>2 DEF Begun, Opening, LinkedAt, KnownAt
  <2> QED BY <1>2, <1>3, <2>3
<1>4. ASSUME NEW c \in Conn, Abort(c) \/ Fail(c) \/ Answer(c), Step(c) \/ Abort(c)
      PROVE  ValidatorInv'
  <2>1. cmd'[c] = Idle /\ todo'[c] = <<>>
    BY <1>4, EndKeepsOthers DEF Abort, Fail, Answer, TypeInv
  <2>2. Begun(todo'[c], cmd'[c])
    BY <2>1, NothingIsBegun
  <2>3. LinkedAt(c)' /\ KnownAt(c)'
    BY <2>1, <2>2 DEF Begun, LinkedAt, KnownAt
  <2> QED BY <1>2, <1>4, <2>3
<1>5. ASSUME NEW c \in Conn, Step(c), ~Fail(c), ~Answer(c) PROVE ValidatorInv'
  <2>1. cmd'[c] = cmd[c]
    BY <1>5, CommandKept
  <2>2. CASE cmd[c].kind = "dropDatabase"
    BY <1>2, <1>5, <2>1, <2>2 DEF LinkedAt, KnownAt
  <2>3. CASE cmd[c].kind # "dropDatabase"
    BY <1>2, <1>5, <2>3, KnownMoves DEF ValidatorInv
  <2> QED BY <2>2, <2>3
<1> QED BY <1>1, <1>3, <1>4, <1>5 DEF Next

LEMMA InitValidators == Init => ValidatorInv
<1> SUFFICES ASSUME Init, NEW c \in Conn PROVE LinkedAt(c) /\ KnownAt(c)
  BY DEF ValidatorInv
<1>1. todo[c] = <<>>
  BY DEF Init
<1>2. Begun(todo[c], cmd[c])
  BY <1>1, NothingIsBegun
<1> QED BY <1>1, <1>2 DEF Begun, LinkedAt, KnownAt

LEMMA ValidatorsInvariant == Spec => [](TypeInv /\ FitsInv /\ SentInv /\ HiddenInv /\ ValidatorInv)
BY NextValidators, InitValidators, HiddenInvariant, PTL DEF Spec

\* Whatever the commands: a collection whose catalog row one client writes keeps
\* its validator until it is dropped or created with another one, although every
\* insert, update and createIndexes writes the row again (store.go:53-79).
THEOREM ValidatorsAreKept == Spec => ValidatorsSurvive
<1>1. ASSUME TypeInv, FitsInv, SentInv, HiddenInv, ValidatorInv, [Next]_vars,
             NEW n \in Namespace, \A c, o \in Registrars[n] : c = o,
             catalog'[n].validator # catalog[n].validator, catalog'[n] # NoRow
      PROVE  \E c \in Conn : /\ cmd[c].kind = "create" /\ cmd[c].ns = n
                            /\ cmd[c].validator = catalog'[n].validator
  <2>1. catalog'[n] # catalog[n]
    BY <1>1
  <2>2. PICK c \in Conn : Issue(c) \/ Step(c) \/ Abort(c)
    BY <1>1, <2>1 DEF Next, Done, vars
  <2>3. c \in Registrars[n] /\ (catalog'[n] = NoRow \/ (UpsertRow(c) /\ n = Stmt(c).ns))
    BY <1>1, <2>1, <2>2, RowWriter
  <2>4. CASE UpsertRow(c) /\ n = Stmt(c).ns
    <3>1. /\ todo[c] # <<>> /\ todo[c] \in Seq(Statement) /\ Stmt(c) = Head(todo[c])
          /\ Stmt(c).op = "upsertRow"
      BY <1>1, <2>4 DEF UpsertRow, At, Stmt, TypeInv, TypeOK
    <3>2. LinkedAt(c) /\ KnownAt(c) /\ Tidy(todo[c], cmd[c])
      BY <1>1 DEF ValidatorInv, HiddenInv, HiddenAt
    <3>3. cmd[c].kind # "dropDatabase"
      <4>1. n \in Registers(cmd[c])
        BY <1>1, <2>4, <3>2, RowUpserted
      <4> QED BY <4>1 DEF Registers
    <3>4. Registrars[n] \subseteq {c}
      BY <1>1, <2>3
    <3>5. local[c].opts = catalog[n].validator
      BY <2>4, <3>1, <3>2, <3>3, <3>4 DEF KnownAt, Knows
    <3>6. \/ Stmt(c).validator = AnyDoc
          \/ cmd[c].kind = "create" /\ cmd[c].ns = n /\ cmd[c].validator = Stmt(c).validator
      BY <2>4, <3>1, <3>2, <3>3, LinkedTail DEF LinkedAt, Sound
    <3>7. catalog'[n].validator = MergedValidator(Stmt(c).validator, local[c].opts)
      BY <1>1, <2>4 DEF UpsertRow, TypeInv, TypeOK, CatalogRow
    <3> QED BY <1>1, <3>5, <3>6, <3>7 DEF MergedValidator
  <2> QED BY <1>1, <2>3, <2>4
<1>2. TypeInv /\ FitsInv /\ SentInv /\ HiddenInv /\ ValidatorInv /\ [Next]_vars =>
        [\A n \in Namespace :
           (\A c, o \in Registrars[n] : c = o)
             /\ catalog'[n].validator # catalog[n].validator /\ catalog'[n] # NoRow =>
             \E c \in Conn : /\ cmd[c].kind = "create" /\ cmd[c].ns = n
                            /\ cmd[c].validator = catalog'[n].validator]_vars
  BY <1>1
<1> QED BY <1>2, ValidatorsInvariant, PTL DEF Spec, ValidatorsSurvive

\* An insert commits no document that its collection's validator refuses when it
\* is committed, if no other client writes the catalog row (store.go:126-173).
THEOREM InsertsObeyValidators == Spec => []InsertsAreValidated
<1>1. HiddenInv /\ ValidatorInv => InsertsAreValidated
  <2> SUFFICES ASSUME HiddenInv, ValidatorInv, NEW c \in Conn, Inserts(cmd[c]),
                      Registrars[Target(cmd[c])] \subseteq {c}, tx[c] # {}
               PROVE  tx[c] \subseteq catalog[Target(cmd[c])].validator
    BY DEF InsertsAreValidated
  <2>1. todo[c] # <<>> /\ Head(todo[c]).op = "commit"
    BY DEF HiddenInv, HiddenAt, BatchAt
  <2>2. cmd[c].kind # "dropDatabase"
    BY DEF Inserts
  <2> QED BY <2>1, <2>2 DEF ValidatorInv, KnownAt, Knows
<1> QED BY <1>1, ValidatorsInvariant, PTL

=============================================================================
