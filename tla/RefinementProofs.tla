---------------------------- MODULE RefinementProofs ----------------------------
(***************************************************************************)
(* The store on TiDB implements DocStore: every statement of every command *)
(* is one of its steps or none, in any interleaving.  The programs tell    *)
(* when a command is over, and the locks on the keys of open transactions  *)
(* that a batch takes effect wholly and under fresh keys.                  *)
(***************************************************************************)
EXTENDS StoreRefinement, TablesProofs, ProgramsProofs

IInv == TypeInv /\ KeysInv /\ FitsInv /\ ShapeInv

-----------------------------------------------------------------------------
(* The operators DocStore takes from Commands are those of the store. *)

LEMMA SameTables ==
  /\ Docs!TableOf = TableOf
  /\ Docs!Table = Table
  /\ \A t, db : Docs!LikeDatabase(t, db) <=> LikeDatabase(t, db)
<1>1. Docs!Underscore = Underscore
  BY DEF Docs!Underscore, Underscore
<1>2. \A db, coll : Docs!PhysicalTableName(db, coll) = PhysicalTableName(db, coll)
  <2>1. \A S : Docs!Max(S) = Max(S)
    BY DEF Docs!Max, Max
  <2>2. \A name : Docs!TrimUnderscores(name) = TrimUnderscores(name)
    BY <1>1, <2>1 DEF Docs!TrimUnderscores, TrimUnderscores
  <2>3. \A name : Docs!Sanitize(name) = Sanitize(name)
    BY <1>1 DEF Docs!Sanitize, Sanitize, Docs!SafeChars, SafeChars, Docs!Capitals, Capitals
  <2>4. \A name : Docs!ToLower(name) = ToLower(name)
    BY DEF Docs!ToLower, ToLower, Docs!Capitals, Capitals
  <2> QED BY <1>1, <2>2, <2>3, <2>4 DEF Docs!PhysicalTableName, PhysicalTableName
<1>3. Docs!TableOf = TableOf
  BY <1>2 DEF Docs!TableOf, TableOf
<1> QED BY <1>1, <1>2, <1>3 DEF Docs!Table, Table, Docs!LikeDatabase, LikeDatabase

LEMMA SameDeletes == \A m : Docs!DeletesOf(m) = DeletesOf(m)
BY DEF Docs!DeletesOf, DeletesOf

LEMMA SameSets ==
  /\ \A S : Docs!Cardinality(S) = Cardinality(S)
  /\ \A f : Docs!Range(f) = Range(f)
  /\ Docs!Idle = Idle
BY DEF Docs!Cardinality, Cardinality, Docs!Range, Range, Docs!Idle, Idle

-----------------------------------------------------------------------------
(* The refinement mapping. *)

\* What happens to the maps at c, whose step leaves the others alone.
LEMMA MapsAt ==
  ASSUME NEW c \in Conn, KeepsOthers(c)
  PROVE  /\ OverMap' = [OverMap EXCEPT ![c] = Over(c)']
         /\ ResultMap' = [ResultMap EXCEPT ![c] =
                            IF Over(c)' /\ Counts(cmd'[c]) THEN local'[c].count ELSE 0]
         /\ ToldMap' = [ToldMap EXCEPT ![c] =
                          [to |-> reply'[c].to, ok |-> reply'[c].ok,
                           n |-> IF reply'[c].ok /\ Counts(reply'[c].to)
                                 THEN reply'[c].n ELSE 0]]
<1>1. \A o \in Conn \ {c} : Over(o)' = Over(o)
  BY DEF KeepsOthers, Over
<1>2. OverMap' = [OverMap EXCEPT ![c] = Over(c)']
  BY <1>1 DEF OverMap
<1>3. \A o \in Conn \ {c} : ResultMap'[o] = ResultMap[o]
  BY <1>1 DEF KeepsOthers, ResultMap
<1>4. \A o \in Conn \ {c} : ToldMap'[o] = ToldMap[o]
  BY DEF KeepsOthers, ToldMap
<1> QED BY <1>2, <1>3, <1>4 DEF ResultMap, ToldMap

\* A step after which the command of c is as little over as before, or as much.
LEMMA StutterAt ==
  ASSUME TypeOK, NEW c \in Conn, KeepsOthers(c), rows' = rows, cmd' = cmd, reply' = reply,
         Over(c)' = Over(c), Over(c) => ~Counts(cmd[c])
  PROVE  UNCHANGED Docs!vars
<1>1. OverMap' = OverMap
  BY MapsAt DEF OverMap
<1>2. ResultMap' = ResultMap
  <2>1. ResultMap' = [ResultMap EXCEPT ![c] =
                        IF Over(c)' /\ Counts(cmd'[c]) THEN local'[c].count ELSE 0]
    BY MapsAt
  <2>2. ~(Over(c)' /\ Counts(cmd'[c])) /\ ResultMap[c] = 0
    BY DEF ResultMap
  <2> QED BY <2>1, <2>2 DEF ResultMap
<1>3. ToldMap' = ToldMap
  BY DEF ToldMap
<1> QED BY <1>1, <1>2, <1>3 DEF Docs!vars

Quiet(m) == m.kind \notin {"idle", "insert", "find", "drop"}

\* A step of a command that promises no moment and changes no document.
LEMMA QuietStep ==
  ASSUME TypeOK, NEW c \in Conn, KeepsOthers(c), rows' = rows, cmd' = cmd, reply' = reply,
         ~Over(c), Quiet(cmd[c])
  PROVE  Docs!Settle(c) \/ UNCHANGED Docs!vars
<1>1. CASE ~Over(c)'
  <2>1. Over(c)' = Over(c)
    BY <1>1 DEF Over
  <2> QED BY <2>1, StutterAt
<1>2. CASE Over(c)'
  <2>1. ~Counts(cmd[c]) /\ ~Counts(cmd'[c])
    BY DEF Quiet, Counts
  <2>2. OverMap' = [OverMap EXCEPT ![c] = TRUE] /\ ~OverMap[c]
    BY <1>2, MapsAt DEF OverMap
  <2>3. ResultMap' = [ResultMap EXCEPT ![c] = 0]
    BY <2>1, MapsAt
  <2>4. ToldMap' = ToldMap
    BY DEF ToldMap
  <2> QED BY <2>2, <2>3, <2>4 DEF Docs!Settle, Docs!TakeEffect, Quiet
<1> QED BY <1>1, <1>2 DEF Over

\* A step of such a command that changes one table as DocStore allows.
LEMMA PieceStep ==
  ASSUME TypeOK, NEW c \in Conn, KeepsOthers(c), cmd' = cmd, reply' = reply,
         ~Over(c), Quiet(cmd[c]),
         NEW t \in Table, rows' = [rows EXCEPT ![t] = rows'[t]],
         \/ Docs!WritesOne(cmd[c], t, rows[t], rows'[t])
         \/ Docs!DeletesOne(cmd[c], t, rows[t], rows'[t])
         \/ Docs!RenamesPart(cmd[c], t, rows[t], rows'[t])
         \/ Docs!DropsOne(cmd[c], t, rows[t], rows'[t])
  PROVE  Docs!Piece(c)
<1>1. ~Counts(cmd[c]) /\ ~Counts(cmd'[c])
  BY DEF Quiet, Counts
<1>2. OverMap' = [OverMap EXCEPT ![c] = OverMap'[c]] /\ ~OverMap[c]
      /\ OverMap'[c] \in BOOLEAN
  <2>1. OverMap' = [OverMap EXCEPT ![c] = Over(c)']
    BY MapsAt
  <2>2. OverMap'[c] = Over(c)' /\ OverMap[c] = Over(c)
    BY DEF OverMap
  <2>3. Over(c)' \in BOOLEAN
    BY DEF Over
  <2> QED BY <2>1, <2>2, <2>3
<1>3. ResultMap' = ResultMap
  <2>1. ResultMap' = [ResultMap EXCEPT ![c] = 0]
    BY <1>1, MapsAt
  <2>2. ResultMap[c] = 0
    BY <1>1 DEF ResultMap
  <2> QED BY <2>1, <2>2 DEF ResultMap
<1>4. ToldMap' = ToldMap
  BY DEF ToldMap
<1>5. t \in Docs!Table
  BY SameTables
<1> QED BY <1>2, <1>3, <1>4, <1>5 DEF Docs!Piece

-----------------------------------------------------------------------------
(* A command begins and ends. *)

LEMMA BeginStep ==
  ASSUME IInv, NEW c \in Conn, Issue(c)
  PROVE  Docs!Begin(c)
<1>1. PICK m \in unsent[c] :
        /\ cmd[c] = Idle
        /\ cmd' = [cmd EXCEPT ![c] = m]
        /\ Goto(c, Program(m))
        /\ UNCHANGED << rows, pending, reply >>
  BY DEF Issue, database
<1>2. m \in Sendable /\ m \in Command /\ cmd'[c] = m /\ todo'[c] = Program(m)
  BY <1>1, SendableType DEF IInv, TypeInv, TypeOK, Goto
<1>3. KeepsOthers(c)
  BY OthersKept DEF IInv, TypeInv
<1>4. ~Over(c)
  BY <1>1 DEF Over
<1>5. ~Over(c)'
  <2>1. todo'[c] # <<>>
    BY <1>2, ProgramFits
  <2>2. ASSUME m.kind = "drop" PROVE Len(todo'[c]) # 1
    <3>1. Program(m) = << DropTableOf(TableOf[m.ns]), On("deleteRow", m.ns) >>
      BY <2>2 DEF Program, DropCollection
    <3> QED BY <1>2, <3>1
  <2> QED BY <1>2, <2>1, <2>2 DEF Over
<1>6. OverMap' = OverMap
  <2>1. Over(c) = FALSE /\ Over(c)' = FALSE
    BY <1>4, <1>5 DEF Over
  <2> QED BY <1>3, <2>1, MapsAt DEF OverMap
<1>7. ResultMap' = ResultMap
  BY <1>3, <1>4, <1>5, MapsAt DEF ResultMap
<1>8. ToldMap' = ToldMap
  BY <1>1 DEF ToldMap
<1> QED BY <1>1, <1>2, <1>6, <1>7, <1>8, SameSets DEF Docs!Begin

LEMMA FinishStep ==
  ASSUME IInv, NEW c \in Conn, NEW ok \in BOOLEAN, End(c, ok), UNCHANGED database,
         cmd[c] # Idle, ok => Over(c)
  PROVE  Docs!Finish(c, ok)
<1>1. TypeOK /\ KeepsOthers(c) /\ cmd'[c] = Idle
  BY EndKeepsOthers DEF IInv, TypeInv
<1>2. cmd' = [cmd EXCEPT ![c] = Idle]
      /\ reply'[c] = [to |-> cmd[c], ok |-> ok, n |-> local[c].count,
                      value |-> local[c].value]
  BY <1>1 DEF End, TypeOK
<1>3. ~Over(c)'
  BY <1>1 DEF Over
<1>4. OverMap' = [OverMap EXCEPT ![c] = FALSE] /\ ResultMap' = [ResultMap EXCEPT ![c] = 0]
  BY <1>1, <1>3, MapsAt
<1>5. ToldMap' = [ToldMap EXCEPT ![c] =
                    [to |-> cmd[c], ok |-> ok,
                     n |-> IF ok /\ Counts(cmd[c]) THEN local[c].count ELSE 0]]
  BY <1>1, <1>2, MapsAt
<1>6. ok => ResultMap[c] = IF Counts(cmd[c]) THEN local[c].count ELSE 0
  BY DEF ResultMap
<1>7. (IF ok /\ Counts(cmd[c]) THEN local[c].count ELSE 0) = IF ok THEN ResultMap[c] ELSE 0
  BY <1>6
<1> QED BY <1>2, <1>4, <1>5, <1>7, SameSets DEF Docs!Finish, database

LEMMA EndStep ==
  ASSUME IInv, NEW c \in Conn, Answer(c) \/ Abort(c) \/ (Fail(c) /\ cmd[c] # Idle)
  PROVE  Docs!Answer(c) \/ Docs!Fail(c)
<1>1. CASE Answer(c)
  <2>1. Over(c)
    BY <1>1 DEF Answer, Over
  <2>2. Docs!Finish(c, TRUE)
    BY <1>1, <2>1, FinishStep DEF Answer
  <2> QED BY <2>1, <2>2 DEF Docs!Answer, OverMap
<1>2. CASE Abort(c) \/ (Fail(c) /\ cmd[c] # Idle)
  <2>1. Docs!Finish(c, FALSE) /\ cmd[c] # Idle
    BY <1>2, FinishStep DEF Abort, Fail
  <2> QED BY <2>1, SameSets DEF Docs!Fail
<1> QED BY <1>1, <1>2

-----------------------------------------------------------------------------
(* Commands that take effect at one moment. *)

LEMMA InsertSteps ==
  ASSUME IInv, NEW c \in Conn, Step(c), ~Fail(c), ~Answer(c), cmd[c].kind = "insert"
  PROVE  Docs!InsertBatch(c) \/ UNCHANGED Docs!vars
<1> DEFINE m == cmd[c]
           t == TableOf[m.ns]
<1>1. TypeInv /\ TypeOK /\ KeepsOthers(c) /\ cmd' = cmd /\ reply' = reply
  BY OthersKept, CommandKept DEF IInv, TypeInv, clients
<1>2. m \in Command /\ m.ns \in Namespace /\ m.docs \in Seq(Doc) /\ t \in Table
  <2>1. m \in Command
    BY <1>1, SendableType DEF TypeOK, Idle
  <2> QED BY <2>1, CommandFields, TableOfType
<1>3. InsertAt(c) /\ MatchAt(c)
  BY DEF IInv, ShapeInv, ShapeAt
<1>4. ~Over(c)
  BY NothingLeft DEF Over
<1>5. CASE rows' = rows /\ todo'[c] # <<>>
  <2>1. Over(c) = FALSE /\ Over(c)' = FALSE
    BY <1>1, <1>4, <1>5 DEF Over
  <2> QED BY <1>1, <1>5, <2>1, StutterAt
<1>6. CASE Commit(c) /\ todo[c] = Committing /\ todo'[c] = <<>>
  <2>1. /\ pending[c] = {} /\ TargetTable(c) = t
        /\ rows' = [rows EXCEPT ![t] = @ \cup tx[c]]
        /\ pending' = pending /\ local' = local
    BY <1>6 DEF Commit, At, TargetTable, Target
  <2>2. Committing \notin Preparing(m.ns) /\ Committing # <<>>
    <3>1. Head(Committing).op = "commit" /\ Committing # <<>>
      BY DEF Committing
    <3> QED BY <3>1, PreparingSteps
  <2>3. /\ local[c].count = Len(m.docs)
        /\ tx[c] = {m.docs[i] : i \in Inserted(c)}
        /\ \A i, j \in Inserted(c) : m.docs[i].id = m.docs[j].id => i = j
    BY <1>3, <1>6, <2>2 DEF InsertAt
  <2>4. Inserted(c) = DOMAIN m.docs
    BY <2>1 DEF Inserted
  <2>5. tx[c] = Range(m.docs)
    BY <2>3, <2>4 DEF Range
  <2>6. Docs!Fresh(m.docs, rows[t])
    <3>1. \A i \in DOMAIN m.docs : m.docs[i] \in tx[c]
      BY <2>3, <2>4
    <3>2. \A d \in tx[c], e \in rows[t] : e.id # d.id
      BY <2>1 DEF IInv, KeysInv, LocksAt
    <3> QED BY <2>3, <2>4, <3>1, <3>2 DEF Docs!Fresh
  <2>7. Over(c)' /\ Counts(cmd'[c])
    BY <1>1, <1>6, <2>1 DEF Over, Counts, Idle
  <2>8. /\ OverMap' = [OverMap EXCEPT ![c] = TRUE] /\ ~OverMap[c]
        /\ ResultMap' = [ResultMap EXCEPT ![c] = Len(m.docs)]
    <3>1. Over(c)' = TRUE
      BY <2>7 DEF Over
    <3> QED BY <1>1, <1>4, <2>1, <2>3, <2>7, <3>1, MapsAt DEF OverMap
  <2>9. ToldMap' = ToldMap
    BY <1>1 DEF ToldMap
  <2>10. Docs!TakeEffect(c, Len(m.docs))
    BY <1>1, <2>8, <2>9 DEF Docs!TakeEffect
  <2>11. rows' = [rows EXCEPT ![Docs!TableOf[m.ns]] = @ \cup Docs!Range(m.docs)]
    BY <2>1, <2>5, SameTables, SameSets
  <2>12. Docs!Fresh(m.docs, rows[Docs!TableOf[m.ns]])
    BY <2>6, SameTables
  <2> QED BY <2>10, <2>11, <2>12 DEF Docs!InsertBatch
<1> QED BY <1>1, <1>3, <1>5, <1>6, InsertMoves

\* What a scan that is cut at a limit returns.
LEMMA LimitedLen ==
  ASSUME NEW S, IsFiniteSet(S), NEW scan \in Orderings(S), NEW limit \in Nat
  PROVE  Len(Limited(scan, limit)) =
           IF limit = 0 \/ limit > Cardinality(S) THEN Cardinality(S) ELSE limit
<1>1. Cardinality(S) \in Nat
  BY FS_CardinalityType
<1>2. scan \in Seq(S) /\ DOMAIN scan = 1..Len(scan) /\ Len(scan) \in Nat
  BY OrderingsType, LenProperties
<1>3. Len(scan) = Cardinality(S)
  <2>1. DOMAIN scan = 1..Cardinality(S)
    BY DEF Orderings
  <2> QED BY <1>1, <1>2, <2>1
<1>4. CASE limit = 0 \/ limit > Len(scan)
  BY <1>3, <1>4 DEF Limited
<1>5. CASE ~(limit = 0 \/ limit > Len(scan))
  <2>1. \A i \in 1..limit : scan[i] \in S
    BY <1>2, <1>5, ElementOfSeq
  <2>2. Len(SubSeq(scan, 1, limit)) = IF 1 <= limit THEN limit - 1 + 1 ELSE 0
    BY <2>1, SubSeqProperties
  <2>3. Len(SubSeq(scan, 1, limit)) = limit
    BY <1>5, <2>2
  <2> QED BY <1>3, <1>5, <2>3 DEF Limited
<1> QED BY <1>4, <1>5

LEMMA FindSteps ==
  ASSUME IInv, NEW c \in Conn, Step(c), ~Fail(c), ~Answer(c), cmd[c].kind = "find"
  PROVE  Docs!Read(c) \/ UNCHANGED Docs!vars
<1> DEFINE m == cmd[c]
           t == TableOf[m.ns]
<1>1. TypeInv /\ TypeOK /\ KeepsOthers(c) /\ cmd' = cmd /\ reply' = reply
  BY OthersKept, CommandKept DEF IInv, TypeInv, clients
<1>2. m.ns \in Namespace /\ m.filter \in SUBSET Doc /\ m.limit \in Nat /\ t \in Table
  <2>1. m \in Command
    BY <1>1, SendableType DEF TypeOK, Idle
  <2> QED BY <2>1, CommandFields, TableOfType
<1>3. FindAt(c)
  BY DEF IInv, ShapeInv, ShapeAt
<1>4. ~Over(c)
  BY NothingLeft DEF Over
<1>5. CASE EnsureTable(c) /\ todo'[c] # <<>>
  <2>1. Over(c) = FALSE /\ Over(c)' = FALSE /\ rows' = rows
    BY <1>1, <1>4, <1>5 DEF Over, EnsureTable
  <2> QED BY <1>1, <2>1, StutterAt
<1>6. CASE SelectForReply(c) /\ Stmt(c) = SelectOf(m) /\ todo'[c] = <<>> /\ pending'[c] = {}
  <2> DEFINE S == rows[t] \cap m.filter
  <2>1. PICK docs \in Results(c) :
          local' = [local EXCEPT ![c].found = docs, ![c].count = Len(docs)]
    BY <1>6 DEF SelectForReply
  <2>2. local'[c].count = Len(docs) /\ rows' = rows
    BY <1>1, <1>6, <2>1 DEF SelectForReply, TypeOK, Local, database
  <2>3. PICK scan \in Orderings(S) : docs = Limited(scan, m.limit)
    <3>1. Stmt(c).ns = m.ns /\ Stmt(c).filter = m.filter /\ Stmt(c).limit = m.limit
      BY <1>6 DEF SelectOf
    <3> QED BY <2>1, <3>1 DEF Results
  <2>4. IsFiniteSet(S)
    <3>1. S \subseteq Doc
      BY <1>2
    <3> QED BY <3>1, FiniteAssumption, FS_Subset
  <2>5. Len(docs) = IF m.limit = 0 \/ m.limit > Cardinality(S) THEN Cardinality(S) ELSE m.limit
    BY <1>2, <2>3, <2>4, LimitedLen
  <2>6. Docs!Found(m, rows[Docs!TableOf[m.ns]]) = Len(docs)
    BY <2>5, SameTables, SameSets DEF Docs!Found
  <2>7. Over(c)' = TRUE /\ Counts(cmd'[c])
    BY <1>1, <1>6 DEF Over, Counts, Idle
  <2>8. /\ OverMap' = [OverMap EXCEPT ![c] = TRUE] /\ ~OverMap[c]
        /\ ResultMap' = [ResultMap EXCEPT ![c] = Len(docs)]
    BY <1>1, <1>4, <2>2, <2>7, MapsAt DEF OverMap
  <2>9. ToldMap' = ToldMap
    BY <1>1 DEF ToldMap
  <2> QED BY <1>1, <2>2, <2>6, <2>8, <2>9 DEF Docs!Read, Docs!TakeEffect
<1> QED BY <1>1, <1>3, <1>5, <1>6, FindMoves

LEMMA DropSteps ==
  ASSUME IInv, NEW c \in Conn, Step(c), ~Fail(c), ~Answer(c), cmd[c].kind = "drop"
  PROVE  Docs!Clear(c) \/ UNCHANGED Docs!vars
<1> DEFINE m == cmd[c]
           t == TableOf[m.ns]
           D == On("deleteRow", m.ns)
           T == DropTableOf(t)
<1>1. TypeInv /\ TypeOK /\ KeepsOthers(c) /\ cmd' = cmd /\ reply' = reply
  BY OthersKept, CommandKept DEF IInv, TypeInv, clients
<1>2. DropAt(c) /\ pending[c] = {} /\ m # Idle /\ ~Counts(m)
  BY DEF IInv, ShapeInv, ShapeAt, DropAt, Idle, Counts
<1>3. DropCollection(m.ns) = << T, D >> /\ Len(<< T, D >>) = 2 /\ Len(<< D >>) = 1
      /\ << T, D >> # <<>>
  BY DEF DropCollection
<1>4. CASE todo[c] = DropCollection(m.ns) /\ todo'[c] = << D >> /\ DropTable(c)
  <2>1. Over(c) = FALSE
    BY <1>3, <1>4 DEF Over
  <2>2. Over(c)' = TRUE
    BY <1>1, <1>2, <1>3, <1>4 DEF Over, DropTable
  <2>3. Stmt(c).table = t
    BY <1>3, <1>4 DEF Stmt, DropTableOf
  <2>4. rows' = [rows EXCEPT ![Docs!TableOf[m.ns]] = {}]
    BY <1>4, <2>3, SameTables DEF DropTable
  <2>5. /\ OverMap' = [OverMap EXCEPT ![c] = TRUE] /\ ~OverMap[c]
        /\ ResultMap' = [ResultMap EXCEPT ![c] = 0]
    BY <1>1, <1>2, <2>1, <2>2, MapsAt DEF OverMap
  <2>6. ToldMap' = ToldMap
    BY <1>1 DEF ToldMap
  <2> QED BY <1>1, <2>4, <2>5, <2>6 DEF Docs!Clear, Docs!TakeEffect
<1>5. CASE todo[c] = << D >> /\ todo'[c] = <<>> /\ DeleteRow(c)
  <2>1. Over(c) = TRUE
    BY <1>2, <1>3, <1>5 DEF Over
  <2>2. Over(c)' = TRUE /\ rows' = rows
    BY <1>1, <1>2, <1>5 DEF Over, DeleteRow
  <2> QED BY <1>1, <1>2, <2>1, <2>2, StutterAt
<1> QED BY <1>1, <1>2, <1>4, <1>5, DropMoves

-----------------------------------------------------------------------------
(* Commands that take effect piece by piece, and those without documents. *)

LEMMA PieceSteps ==
  ASSUME IInv, UniqueKeys', NEW c \in Conn, Step(c), ~Fail(c), ~Answer(c), Quiet(cmd[c])
  PROVE  Docs!Piece(c) \/ Docs!Settle(c) \/ UNCHANGED Docs!vars
<1> DEFINE m == cmd[c]
           t == TargetTable(c)
<1>1. TypeInv /\ TypeOK /\ KeepsOthers(c) /\ cmd' = cmd /\ reply' = reply
  BY OthersKept, CommandKept DEF IInv, TypeInv, clients
<1>2. m \in Command
  BY <1>1, SendableType DEF TypeOK, Quiet, Idle
<1>3. ~Over(c)
  BY NothingLeft DEF Over, Quiet
<1>4. CASE rows' = rows
  BY <1>1, <1>3, <1>4, QuietStep
<1>5. CASE pending[c] # {} /\ Replaces(m) /\ ReplaceDocument(c)
  <2>1. PICK w \in pending[c] :
          \E new \in NewVersion(c, w) : rows' = [rows EXCEPT ![t] = Replaced(@, new)]
    BY <1>5 DEF ReplaceDocument
  <2>2. PICK new \in NewVersion(c, w) : rows' = [rows EXCEPT ![t] = Replaced(@, new)]
    BY <2>1
  <2>3. t \in Table /\ t = Docs!TableOf[m.ns] /\ m.kind \in {"update", "findAndModify"}
    BY <1>1, <1>5, TargetTableType, SameTables DEF TargetTable, Target, Replaces
  <2>4. w[1] \in DOMAIN m.updates
    BY <1>1, <1>5 DEF TypeInv, LoopInv, LoopAt
  <2>5. new \in Docs!Written(m.updates[w[1]])
    <3>1. w[2] # 0 => local[c].found[w[2]] \in m.updates[w[1]].matches
      BY <1>5 DEF IInv, ShapeInv, ShapeAt, MatchAt
    <3> QED BY <2>2, <3>1 DEF NewVersion, Docs!Written
  <2>6. rows'[t] = {e \in rows[t] : e.id # new.id} \cup {new}
        /\ rows' = [rows EXCEPT ![t] = rows'[t]]
    BY <1>1, <2>2, <2>3 DEF Replaced, TypeOK
  <2>7. Docs!WritesOne(m, t, rows[t], rows'[t])
    BY <2>3, <2>4, <2>5, <2>6 DEF Docs!WritesOne
  <2> QED BY <1>1, <1>3, <2>3, <2>6, <2>7, PieceStep
<1>6. CASE pending[c] # {} /\ Deletes(m) /\ DeleteDocument(c)
  <2>1. PICK w \in pending[c] :
          rows' = [rows EXCEPT ![t] = {d \in @ : d.id # local[c].found[w[2]].id}]
    BY <1>6 DEF DeleteDocument
  <2>2. t \in Table /\ t = Docs!TableOf[m.ns]
        /\ (m.kind = "delete" \/ (m.kind = "findAndModify" /\ m.remove))
    BY <1>1, <1>6, TargetTableType, SameTables DEF TargetTable, Target, Deletes
  <2>3. PICK d : d = local[c].found[w[2]]
    OBVIOUS
  <2>4. w[1] \in DOMAIN DeletesOf(m) /\ d \in DeletesOf(m)[w[1]].matches
    BY <1>6, <2>3 DEF IInv, ShapeInv, ShapeAt, MatchAt
  <2>5. rows'[t] = {e \in rows[t] : e.id # d.id}
        /\ rows' = [rows EXCEPT ![t] = rows'[t]]
    BY <1>1, <2>1, <2>2, <2>3 DEF TypeOK
  <2>6. Docs!DeletesOne(m, t, rows[t], rows'[t])
    BY <2>2, <2>4, <2>5, SameDeletes DEF Docs!DeletesOne
  <2> QED BY <1>1, <1>3, <2>2, <2>5, <2>6, PieceStep
<1>7. CASE pending[c] = {} /\ todo[c] # <<>> /\ Stmt(c).op = "dropTable" /\ DropTable(c)
  <2>1. PICK u : u = Stmt(c).table
    OBVIOUS
  <2>2. u \in Droppable(m)
    <3>1. todo[c] \in Seq(Fitting(m))
      BY DEF IInv, FitsInv, FitsAt
    <3>2. Stmt(c) \in Fitting(m)
      BY <1>7, <3>1, HeadTailProperties DEF Stmt
    <3> QED BY <1>7, <2>1, <3>2 DEF Fitting
  <2>3. u \in Table
    BY <2>2 DEF Droppable
  <2>4. rows'[u] = {} /\ rows' = [rows EXCEPT ![u] = rows'[u]]
    BY <1>1, <1>7, <2>1, <2>3 DEF DropTable, TypeOK
  <2>5. CASE m.kind = "renameCollection"
    <3>1. u = TableOf[m.ns] \/ (m.dropTarget /\ u = TableOf[m.to])
      BY <2>2, <2>5 DEF Droppable
    <3>2. Docs!RenamesPart(m, u, rows[u], rows'[u])
      BY <2>4, <2>5, <3>1, SameTables DEF Docs!RenamesPart
    <3> QED BY <1>1, <1>3, <2>3, <2>4, <3>2, PieceStep
  <2>6. CASE m.kind = "dropDatabase"
    <3>1. LikeDatabase(u, m.db)
      BY <2>2, <2>6 DEF Droppable
    <3>2. Docs!DropsOne(m, u, rows[u], rows'[u])
      BY <2>4, <2>6, <3>1, SameTables DEF Docs!DropsOne
    <3> QED BY <1>1, <1>3, <2>3, <2>4, <3>2, PieceStep
  <2> QED BY <2>2, <2>5, <2>6 DEF Droppable, Quiet
<1>8. CASE Commit(c)
  <2>1. rows' = [rows EXCEPT ![t] = @ \cup tx[c]] /\ Inserts(m)
    BY <1>8 DEF Commit
  <2>2. m.kind = "renameCollection" /\ t = TableOf[m.to] /\ t \in Table
    BY <1>1, <2>1, TargetTableType DEF Inserts, Quiet, TargetTable, Target
  <2>3. rows'[t] = rows[t] \cup tx[c] /\ rows' = [rows EXCEPT ![t] = rows'[t]]
    BY <1>1, <2>1, <2>2 DEF TypeOK
  <2>4. \A d, e \in rows'[t] : d.id = e.id => d = e
    BY <2>2 DEF UniqueKeys
  <2>5. rows[t] \subseteq rows'[t] /\ \A d \in rows'[t] \ rows[t] : \A e \in rows'[t] :
          d.id = e.id => d = e
    BY <2>3, <2>4
  <2>6. Docs!RenamesPart(m, t, rows[t], rows'[t])
    BY <2>2, <2>5, SameTables DEF Docs!RenamesPart
  <2> QED BY <1>1, <1>3, <2>2, <2>3, <2>6, PieceStep
<1>9. CASE pending[c] # {}
  <2>1. CASE InsertDocument(c) \/ InsertIndex(c)
    BY <1>4, <2>1 DEF InsertDocument, InsertIndex, database
  <2> QED BY <1>5, <1>6, <1>9, <2>1, NextWrite
<1>10. CASE pending[c] = {}
  <2>1. todo[c] # <<>>
    BY <1>10, NothingLeft
  <2>2. CASE ReadStep(c)
    BY <1>4, <2>2 DEF ReadStep, SelectForReply, SelectBefore, SelectAfter, SelectForRename,
                      SelectForUpdate, SelectForDelete, StartLoop, database
  <2>3. CASE \/ EnsureTable(c) \/ ReadOptions(c) \/ UpsertRow(c) \/ DeleteRow(c)
             \/ ShowTables(c) \/ DeleteRows(c) \/ SelectCollections(c)
             \/ ReadCollectionID(c) \/ NoCollectionID(c) \/ SelectIndexes(c)
             \/ ReadValidator(c)
    BY <1>4, <2>3 DEF EnsureTable, ReadOptions, UpsertRow, DeleteRow, ShowTables, DeleteRows,
                      SelectCollections, ReadCollectionID, NoCollectionID, SelectIndexes,
                      ReadValidator, database
  <2> QED BY <1>7, <1>8, <1>10, <2>1, <2>2, <2>3, NextStatement
<1> QED BY <1>9, <1>10

-----------------------------------------------------------------------------
LEMMA InitRefines == Init => Docs!Init
<1> SUFFICES ASSUME Init PROVE Docs!Init
  OBVIOUS
<1>1. \A c \in Conn : cmd[c] = Idle /\ reply[c].to = Idle /\ reply[c].ok = FALSE
  BY DEF Init
<1>2. \A c \in Conn : Over(c) = FALSE
  BY <1>1 DEF Over
<1>3. OverMap = [c \in Conn |-> FALSE] /\ ResultMap = [c \in Conn |-> 0]
  BY <1>2 DEF OverMap, ResultMap
<1>4. ToldMap = [c \in Conn |-> Docs!Untold]
  <2>1. Docs!Untold = [to |-> Idle, ok |-> FALSE, n |-> 0]
    BY SameSets DEF Docs!Untold
  <2>2. \A c \in Conn : ToldMap[c] = [to |-> Idle, ok |-> FALSE, n |-> 0]
    BY <1>1 DEF ToldMap
  <2> QED BY <2>1, <2>2 DEF ToldMap
<1> QED BY <1>3, <1>4, SameSets DEF Docs!Init, Init

LEMMA NextRefines ==
  ASSUME IInv, UniqueKeys', [Next]_vars
  PROVE  [Docs!Next]_(Docs!vars)
<1>1. CASE UNCHANGED vars \/ Done
  <2>1. UNCHANGED << rows, cmd, todo, pending, local, reply >>
    BY <1>1 DEF Done, vars
  <2>2. \A c \in Conn : Over(c)' = Over(c)
    BY <2>1 DEF Over
  <2>3. OverMap' = OverMap
    BY <2>2 DEF OverMap
  <2>4. ResultMap' = ResultMap /\ ToldMap' = ToldMap
    BY <2>1, <2>2 DEF ResultMap, ToldMap
  <2> QED BY <2>1, <2>3, <2>4 DEF Docs!vars
<1>2. ASSUME NEW c \in Conn, Issue(c) PROVE Docs!Next
  BY <1>2, BeginStep DEF Docs!Next
<1>3. ASSUME NEW c \in Conn, Abort(c) PROVE Docs!Next
  BY <1>3, EndStep DEF Docs!Next
<1>4. ASSUME NEW c \in Conn, Step(c) PROVE [Docs!Next]_(Docs!vars)
  <2>1. cmd[c] # Idle
    <3>1. cmd[c] = Idle => todo[c] = <<>> /\ pending[c] = {}
      BY DEF IInv, TypeInv, LoopInv, LoopAt, FitsInv, FitsAt
    <3> QED BY <1>4, <3>1, NothingLeft DEF Answer
  <2>2. CASE Fail(c) \/ Answer(c)
    BY <2>1, <2>2, EndStep DEF Docs!Next
  <2>3. CASE ~Fail(c) /\ ~Answer(c)
    <3>1. CASE cmd[c].kind = "insert"
      BY <1>4, <2>3, <3>1, InsertSteps DEF Docs!Next
    <3>2. CASE cmd[c].kind = "find"
      BY <1>4, <2>3, <3>2, FindSteps DEF Docs!Next
    <3>3. CASE cmd[c].kind = "drop"
      BY <1>4, <2>3, <3>3, DropSteps DEF Docs!Next
    <3>4. CASE cmd[c].kind \notin {"insert", "find", "drop"}
      <4>1. cmd[c] \in Command
        BY <2>1, SendableType DEF IInv, TypeInv, TypeOK
      <4>2. Quiet(cmd[c])
        BY <3>4, <4>1, CommandFields DEF Quiet
      <4> QED BY <1>4, <2>3, <4>2, PieceSteps DEF Docs!Next
    <3> QED BY <3>1, <3>2, <3>3, <3>4
  <2> QED BY <2>2, <2>3
<1> QED BY <1>1, <1>2, <1>3, <1>4 DEF Next

\* What clients see of documents through any interleaving of statements, faults
\* and lost answers is what DocStore promises: batches are whole, a find sees
\* one moment, a drop is one moment, an update writes images of documents it
\* matches, and no command touches documents it was not asked for (store.go).
THEOREM StoreImplementsDocStore == Spec => ImplementsDocStore
<1>1. Init => IInv
  BY InitType, InitKeys, InitFits, InitShape DEF IInv
<1>2. IInv /\ [Next]_vars => IInv'
  BY NextType, NextKeys, NextFits, NextShape DEF IInv
<1>3. IInv /\ IInv' /\ [Next]_vars => [Docs!Next]_(Docs!vars)
  BY NextRefines DEF IInv, KeysInv
<1> QED BY <1>1, <1>2, <1>3, InitRefines, PTL DEF Spec, ImplementsDocStore, Docs!Spec
=============================================================================
