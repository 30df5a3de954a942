--------------------------- MODULE CommandsProofs ----------------------------
(***************************************************************************)
(* What the programs of statements and the loops of writes are made of,    *)
(* for every command.                                                      *)
(***************************************************************************)
EXTENDS Commands, SequenceTheorems, FiniteSetTheorems, TLAPS

\* The namespace of a command, its table and its statements are well typed.
LEMMA TableOfType ==
  ASSUME NEW n \in Namespace
  PROVE  TableOf[n] \in Table
BY DEF Table, TableOf

LEMMA TableFinite == IsFiniteSet(Table)
<1>1. TableOf \in Surjection(Namespace, Table)
  BY DEF Surjection, Table, TableOf
<1> QED BY <1>1, FiniteAssumption, FS_Surjection

LEMMA OnType ==
  ASSUME NEW n \in Namespace, NEW op \in OnNamespace
  PROVE  << On(op, n) >> \in Seq(Statement)
BY DEF On, Statement

LEMMA CreateCollectionType ==
  ASSUME NEW n \in Namespace, NEW v \in SUBSET Doc
  PROVE  CreateCollection(n, v) \in Seq(Statement)
<1>1. EnsureCollection(n) \in Statement
  BY TableOfType DEF EnsureCollection, Statement, OnTable
<1>2. On("readOptions", n) \in Statement
  BY DEF On, Statement, OnNamespace
<1>3. [op |-> "upsertRow", ns |-> n, validator |-> v] \in Statement
  BY DEF Statement
<1> QED BY <1>1, <1>2, <1>3 DEF CreateCollection

LEMMA DropCollectionType ==
  ASSUME NEW n \in Namespace
  PROVE  DropCollection(n) \in Seq(Statement)
<1>1. DropTableOf(TableOf[n]) \in Statement
  BY TableOfType DEF DropTableOf, Statement, OnTable
<1>2. On("deleteRow", n) \in Statement
  BY DEF On, Statement, OnNamespace
<1> QED BY <1>1, <1>2 DEF DropCollection

LEMMA InsertType ==
  ASSUME NEW n \in Namespace
  PROVE  Insert(n) \in Seq(Statement)
<1>1. On("readValidator", n) \in Statement
  BY DEF On, Statement, OnNamespace
<1>2. [op |-> "commit"] \in Statement
  BY DEF Statement
<1>3. << On("readValidator", n), [op |-> "commit"] >> \in Seq(Statement)
  BY <1>1, <1>2
<1>4. CreateCollection(n, AnyDoc) \in Seq(Statement)
  BY CreateCollectionType DEF AnyDoc
<1> QED BY <1>3, <1>4, ConcatProperties DEF Insert

LEMMA FindType ==
  ASSUME NEW n \in Namespace, NEW filter \in SUBSET Doc, NEW limit \in Nat, NEW use \in Use
  PROVE  Find(n, filter, limit, use) \in Seq(Statement)
<1>1. EnsureCollection(n) \in Statement
  BY TableOfType DEF EnsureCollection, Statement, OnTable
<1>2. [op |-> "select", ns |-> n, filter |-> filter, limit |-> limit, use |-> use]
        \in Statement
  BY DEF Statement
<1> QED BY <1>1, <1>2 DEF Find

LEMMA UpdateType ==
  ASSUME NEW n \in Namespace
  PROVE  Update(n) \in Seq(Statement)
<1>1. CreateCollection(n, AnyDoc) \in Seq(Statement)
  BY CreateCollectionType DEF AnyDoc
<1>2. Find(n, AnyDoc, 0, "update") \in Seq(Statement)
  BY FindType DEF AnyDoc, Use
<1> QED BY <1>1, <1>2, ConcatProperties DEF Update

LEMMA DeleteType ==
  ASSUME NEW n \in Namespace
  PROVE  Delete(n) \in Seq(Statement)
BY FindType DEF Delete, AnyDoc, Use

-----------------------------------------------------------------------------
\* The fields of a command, by its kind.
LEMMA CommandFields ==
  ASSUME NEW m \in Command
  PROVE  /\ m.kind \notin {"dropDatabase", "listCollections"} => m.ns \in Namespace
         /\ m.kind \in {"dropDatabase", "listCollections"} => m.db \in Database
         /\ m.kind = "create" => m.validator \in SUBSET Doc
         /\ m.kind = "insert" => m.docs \in Seq(Doc)
         /\ m.kind = "find" => m.filter \in SUBSET Doc /\ m.limit \in Nat
         /\ m.kind = "update" => m.updates \in Seq(UpdateModel)
         /\ m.kind = "delete" => m.deletes \in Seq(DeleteModel)
         /\ m.kind = "findAndModify" =>
              /\ m.filter \in SUBSET Doc /\ m.updates \in Seq(UpdateModel)
              /\ m.remove \in BOOLEAN /\ m.new \in BOOLEAN
         /\ m.kind = "createIndexes" => m.names \in Seq(IndexName)
         /\ m.kind = "renameCollection" => m.to \in Namespace /\ m.dropTarget \in BOOLEAN
         /\ m.kind \in {"create", "drop", "listIndexes", "dropDatabase", "listCollections",
                        "insert", "find", "update", "delete", "findAndModify",
                        "createIndexes", "renameCollection"}
BY DEF Command

LEMMA ProgramType ==
  ASSUME NEW m \in Command
  PROVE  Program(m) \in Seq(Statement)
<1>1. CASE m.kind = "create"
  BY <1>1, CommandFields, CreateCollectionType DEF Program
<1>2. CASE m.kind = "drop"
  BY <1>2, CommandFields, DropCollectionType DEF Program
<1>3. CASE m.kind = "dropDatabase"
  <2>1. m.db \in Database
    BY <1>3, CommandFields
  <2>2. DropDatabase(m.db) \in Seq(Statement)
    BY <2>1 DEF DropDatabase, Statement, OnDatabase
  <2> QED BY <1>3, <2>2 DEF Program
<1>4. CASE m.kind = "listCollections"
  <2>1. << [op |-> "selectCollections", db |-> m.db] >> \in Seq(Statement)
    BY <1>4, CommandFields DEF Statement, OnDatabase
  <2> QED BY <1>4, <2>1 DEF Program
<1>5. CASE m.kind = "insert"
  BY <1>5, CommandFields, InsertType DEF Program
<1>6. CASE m.kind = "find"
  <2>1. Find(m.ns, m.filter, m.limit, "reply") \in Seq(Statement)
    BY <1>6, CommandFields, FindType DEF Use
  <2> QED BY <1>6, <2>1 DEF Program
<1>7. CASE m.kind = "update"
  BY <1>7, CommandFields, UpdateType DEF Program
<1>8. CASE m.kind = "delete"
  BY <1>8, CommandFields, DeleteType DEF Program
<1>9. CASE m.kind = "findAndModify"
  <2>1. Find(m.ns, m.filter, 1, "before") \in Seq(Statement)
    BY <1>9, CommandFields, FindType DEF Use
  <2> QED BY <1>9, <2>1 DEF Program
<1>10. CASE m.kind = "createIndexes"
  <2>1. CreateCollection(m.ns, AnyDoc) \in Seq(Statement)
    BY <1>10, CommandFields, CreateCollectionType DEF AnyDoc
  <2>2. << On("readCollectionID", m.ns) >> \in Seq(Statement)
    BY <1>10, CommandFields, OnType DEF OnNamespace
  <2>3. CreateCollection(m.ns, AnyDoc) \o << On("readCollectionID", m.ns) >>
          \in Seq(Statement)
    BY <2>1, <2>2, ConcatProperties
  <2> QED BY <1>10, <2>3 DEF Program
<1>11. CASE m.kind = "listIndexes"
  <2>1. << On("readCollectionID", m.ns) >> \in Seq(Statement)
    BY <1>11, CommandFields, OnType DEF OnNamespace
  <2> QED BY <1>11, <2>1 DEF Program
<1>12. CASE m.kind = "renameCollection"
  <2>1. Find(m.ns, AnyDoc, 0, "rename") \in Seq(Statement)
    BY <1>12, CommandFields, FindType DEF Use, AnyDoc
  <2> QED BY <1>12, <2>1 DEF Program
<1> QED BY <1>1, <1>2, <1>3, <1>4, <1>5, <1>6, <1>7, <1>8, <1>9, <1>10, <1>11, <1>12,
           CommandFields

LEMMA AfterBeforeType ==
  ASSUME NEW m \in Command, m.kind = "findAndModify", NEW docs
  PROVE  AfterBefore(m, docs) \in Seq(Statement)
<1>1. m.ns \in Namespace /\ m.filter \in SUBSET Doc
  BY CommandFields
<1>2. Delete(m.ns) \in Seq(Statement) /\ Update(m.ns) \in Seq(Statement)
  BY <1>1, DeleteType, UpdateType
<1>3. Find(m.ns, m.filter, 1, "after") \in Seq(Statement)
  BY <1>1, FindType DEF Use
<1>4. << >> \in Seq(Statement)
  BY EmptySeq
<1>5. (IF m.updates = <<>> THEN <<>> ELSE Update(m.ns)) \in Seq(Statement)
  BY <1>2, <1>4
<1>6. (IF m.new THEN Find(m.ns, m.filter, 1, "after") ELSE <<>>) \in Seq(Statement)
  BY <1>3, <1>4
<1>7. (IF m.updates = <<>> THEN <<>> ELSE Update(m.ns))
        \o (IF m.new THEN Find(m.ns, m.filter, 1, "after") ELSE <<>>) \in Seq(Statement)
  BY <1>5, <1>6, ConcatProperties
<1> QED BY <1>2, <1>4, <1>7 DEF AfterBefore

LEMMA AfterReadType ==
  ASSUME NEW m \in Command, m.kind = "renameCollection", NEW docs
  PROVE  AfterRead(m, docs) \in Seq(Statement)
<1>1. m.ns \in Namespace /\ m.to \in Namespace
  BY CommandFields
<1>2. << >> \in Seq(Statement)
  BY EmptySeq
<1>3. (IF m.dropTarget THEN DropCollection(m.to) ELSE <<>>) \in Seq(Statement)
  BY <1>1, <1>2, DropCollectionType
<1>4. CreateCollection(m.to, AnyDoc) \in Seq(Statement)
  BY <1>1, CreateCollectionType DEF AnyDoc
<1>5. (IF docs = <<>> THEN <<>> ELSE Insert(m.to)) \in Seq(Statement)
  BY <1>1, <1>2, InsertType
<1>6. DropCollection(m.ns) \in Seq(Statement)
  BY <1>1, DropCollectionType
<1> QED BY <1>3, <1>4, <1>5, <1>6, ConcatProperties DEF AfterRead

-----------------------------------------------------------------------------
\* The rows of a result set, in whatever order they come.
LEMMA OrderingsType ==
  ASSUME NEW S, IsFiniteSet(S), NEW s \in Orderings(S)
  PROVE  /\ s \in Seq(S)
         /\ DOMAIN s = 1..Len(s)
         /\ \A x \in S : \E i \in DOMAIN s : s[i] = x
<1>1. Cardinality(S) \in Nat
  BY FS_CardinalityType
<1>2. s \in [1..Cardinality(S) -> S]
  BY DEF Orderings
<1>3. s \in Seq(S)
  BY <1>1, <1>2, SeqDef
<1>4. DOMAIN s = 1..Len(s)
  BY <1>3, LenProperties
<1> QED BY <1>3, <1>4 DEF Orderings

LEMMA LimitedType ==
  ASSUME NEW docs \in Seq(Doc), NEW limit \in Nat
  PROVE  Limited(docs, limit) \in Seq(Doc)
<1>1. CASE limit = 0 \/ limit > Len(docs)
  BY <1>1 DEF Limited
<1>2. CASE ~(limit = 0 \/ limit > Len(docs))
  <2>1. Len(docs) \in Nat
    BY LenProperties
  <2>2. 1 \in 1..(Len(docs) + 1) /\ limit \in (1 - 1)..Len(docs)
    BY <1>2, <2>1
  <2>3. SubSeq(docs, 1, limit) \in Seq(Doc)
    BY <2>2, SubSeqProperties
  <2> QED BY <1>2, <2>3 DEF Limited
<1> QED BY <1>1, <1>2

\* A loop writes with models it has, from documents of its snapshot, and only
\* finitely often.
LEMMA UpdateWritesType ==
  ASSUME NEW models \in Seq(UpdateModel), NEW docs \in Seq(Doc)
  PROVE  LET W == UpdateWrites(models, docs)
         IN  /\ W \subseteq (1..Len(models)) \X (0..Len(docs))
             /\ W \in SUBSET (Nat \X Nat)
             /\ Cardinality(W) \in Nat
<1> DEFINE W == UpdateWrites(models, docs)
<1>1. Len(models) \in Nat /\ DOMAIN models = 1..Len(models) /\ Len(docs) \in Nat
  BY LenProperties
<1>2. W \subseteq (1..Len(models)) \X (0..Len(docs))
  BY <1>1 DEF UpdateWrites
<1>3. IsFiniteSet((1..Len(models)) \X (0..Len(docs)))
  <2>1. IsFiniteSet(1..Len(models)) /\ IsFiniteSet(0..Len(docs))
    BY <1>1, FS_Interval
  <2> QED BY <2>1, FS_Product
<1>4. Cardinality(W) \in Nat
  BY <1>2, <1>3, FS_Subset, FS_CardinalityType
<1>5. W \in SUBSET (Nat \X Nat)
  BY <1>1, <1>2
<1> QED BY <1>2, <1>4, <1>5

LEMMA DeleteWritesType ==
  ASSUME NEW models, NEW n \in Nat, DOMAIN models = 1..n, NEW docs \in Seq(Doc)
  PROVE  LET W == DeleteWrites(models, docs)
         IN  /\ W \subseteq (1..n) \X (1..Len(docs))
             /\ W \in SUBSET (Nat \X Nat)
             /\ Cardinality(W) \in Nat
<1> DEFINE W == DeleteWrites(models, docs)
<1>1. DOMAIN docs = 1..Len(docs) /\ Len(docs) \in Nat
  BY LenProperties
<1>2. W \subseteq (1..n) \X (1..Len(docs))
  BY <1>1 DEF DeleteWrites
<1>3. IsFiniteSet((1..n) \X (1..Len(docs)))
  <2>1. IsFiniteSet(1..n) /\ IsFiniteSet(1..Len(docs))
    BY <1>1, FS_Interval
  <2> QED BY <2>1, FS_Product
<1>4. Cardinality(W) \in Nat
  BY <1>2, <1>3, FS_Subset, FS_CardinalityType
<1>5. W \in SUBSET (Nat \X Nat)
  BY <1>1, <1>2
<1> QED BY <1>2, <1>4, <1>5

LEMMA DeletesOfType ==
  ASSUME NEW m \in Command, m.kind \in {"delete", "findAndModify"}
  PROVE  \E n \in Nat : DOMAIN DeletesOf(m) = 1..n
<1>1. CASE m.kind = "delete"
  BY <1>1, CommandFields, LenProperties DEF DeletesOf
<1>2. CASE m.kind = "findAndModify"
  <2>1. DOMAIN << [matches |-> m.filter, multi |-> FALSE] >> = 1..1
    OBVIOUS
  <2> QED BY <1>2, <2>1 DEF DeletesOf
<1> QED BY <1>1, <1>2

-----------------------------------------------------------------------------
(* Names of tables. *)

LEMMA LargestExists ==
  ASSUME NEW n \in Nat, NEW T \in SUBSET (0..n), T # {}
  PROVE  Max(T) \in T /\ \A y \in T : y <= Max(T)
<1>1. \E x \in T : \A y \in T : x >= y
  <2> DEFINE U == {n - x : x \in T}
  <2>1. U \subseteq Nat /\ U # {}
    <3>1. \A x \in T : x \in 0..n /\ n - x \in Nat
      OBVIOUS
    <3>2. PICK x \in T : TRUE
      OBVIOUS
    <3>3. n - x \in U
      OBVIOUS
    <3> QED BY <3>1, <3>3
  <2>2. PICK u \in U : \A v \in U : ~(<< v, u >> \in OpToRel(<, Nat))
    <3> HIDE DEF U
    <3> QED BY <2>1, NatLessThanWellFounded, WFMin
  <2>3. \A v \in U : ~(v < u)
    BY <2>1, <2>2 DEF OpToRel
  <2>4. PICK x \in T : u = n - x
    OBVIOUS
  <2>5. ASSUME NEW y \in T PROVE x >= y
    <3>1. ~(n - y < n - x)
      BY <2>3, <2>4
    <3> QED BY <3>1
  <2> QED BY <2>5
<1>2. Max(T) \in T /\ \A y \in T : Max(T) >= y
  BY <1>1 DEF Max
<1> QED BY <1>2
LEMMA Concatenated ==
  ASSUME NEW S, NEW p \in Seq(S), NEW q \in Seq(S), NEW w, w = p \o q
  PROVE  /\ w \in Seq(S) /\ Len(w) = Len(p) + Len(q)
         /\ \A i \in 1..(Len(p) + Len(q)) :
              w[i] = IF i <= Len(p) THEN p[i] ELSE q[i - Len(p)]
BY ConcatProperties


\* The name of a table before it is trimmed and put in lower case.
Spelled(db, coll) == Sanitize(<<"tm_doc", Underscore>> \o db \o <<Underscore>> \o coll)
Safe(x) == IF x \in SafeChars THEN x ELSE Underscore

\* The characters a name may end up with whatever it is made of.
Spelling == {"tm_doc", Underscore, "a", "b"}

Spells(s, db, coll) ==
  /\ Len(s) = Len(db) + 3 + Len(coll)
  /\ s[1] = "tm_doc" /\ s[2] = Underscore /\ s[Len(db) + 3] = Underscore
  /\ \A i \in 1..Len(db) : s[i + 2] = Safe(db[i])
  /\ \A i \in 1..Len(coll) : s[Len(db) + 3 + i] = Safe(coll[i])

LEMMA SafeIsChar ==
  ASSUME NEW Char, Spelling \subseteq Char
  PROVE  /\ "tm_doc" \in Char /\ Underscore \in Char
         /\ Safe("tm_doc") = "tm_doc" /\ Safe(Underscore) = Underscore
         /\ \A x \in Char : Safe(x) \in Char
BY DEF Spelling, Safe, SafeChars

LEMMA SpelledIs ==
  ASSUME NEW Char, Spelling \subseteq Char, NEW db \in Seq(Char), NEW coll \in Seq(Char),
         NEW s, s = Spelled(db, coll)
  PROVE  s \in Seq(Char) /\ Spells(s, db, coll)
<1>1. PICK d \in Nat : d = Len(db)
  BY LenProperties
<1>2. PICK e \in Nat : e = Len(coll)
  BY LenProperties
<1>3. PICK p : p = <<"tm_doc", Underscore>>
  OBVIOUS
<1>4. p \in Seq(Char) /\ Len(p) = 2 /\ p[1] = "tm_doc" /\ p[2] = Underscore
  BY <1>3, SafeIsChar
<1>0. p \in Seq(Char)
  BY <1>4
<1>5. PICK q : q = p \o db
  OBVIOUS
<1>6. /\ q \in Seq(Char) /\ Len(q) = 2 + d /\ q[1] = "tm_doc" /\ q[2] = Underscore
      /\ \A i \in 1..d : q[i + 2] = db[i]
  <2>1. /\ q \in Seq(Char) /\ Len(q) = 2 + d
        /\ \A i \in 1..(2 + d) : q[i] = IF i <= 2 THEN p[i] ELSE db[i - 2]
    <3>1. /\ q \in Seq(Char) /\ Len(q) = Len(p) + Len(db)
          /\ \A i \in 1..(Len(p) + Len(db)) :
               q[i] = IF i <= Len(p) THEN p[i] ELSE db[i - Len(p)]
      BY <1>0, <1>5, Concatenated
    <3> QED BY <1>1, <1>4, <3>1
  <2>2. \A i \in 1..d : i + 2 \in 1..(2 + d) /\ ~(i + 2 <= 2) /\ i + 2 - 2 = i
    BY <1>1
  <2> QED BY <1>1, <1>4, <2>1, <2>2
<1>7. PICK r : r = q \o <<Underscore>>
  OBVIOUS
<1>8. /\ r \in Seq(Char) /\ Len(r) = d + 3 /\ r[1] = "tm_doc" /\ r[2] = Underscore /\ r[d + 3] = Underscore
      /\ \A i \in 1..d : r[i + 2] = db[i]
  <2>1. PICK u : u = <<Underscore>>
    OBVIOUS
  <2>2. u \in Seq(Char) /\ Len(u) = 1 /\ u[1] = Underscore
    BY <2>1, SafeIsChar
  <2>3. /\ r \in Seq(Char) /\ Len(r) = d + 3
        /\ \A i \in 1..(d + 3) : r[i] = IF i <= d + 2 THEN q[i] ELSE u[i - (d + 2)]
    <3>1. /\ r \in Seq(Char) /\ Len(r) = Len(q) + Len(u)
          /\ \A i \in 1..(Len(q) + Len(u)) :
               r[i] = IF i <= Len(q) THEN q[i] ELSE u[i - Len(q)]
      BY <1>6, <1>7, <2>1, <2>2, Concatenated
    <3> QED BY <1>1, <1>6, <2>2, <3>1
  <2>4. \A i \in 1..d : i + 2 \in 1..(d + 3) /\ i + 2 <= d + 2
    BY <1>1
  <2>5. d + 3 \in 1..(d + 3) /\ ~(d + 3 <= d + 2) /\ d + 3 - (d + 2) = 1
    BY <1>1
  <2>6. 1 \in 1..(d + 3) /\ 2 \in 1..(d + 3) /\ 1 <= d + 2 /\ 2 <= d + 2
    BY <1>1
  <2> QED BY <1>6, <2>2, <2>3, <2>4, <2>5, <2>6
<1>81. r \in Seq(Char)
  BY <1>8
<1>9. PICK w : w = r \o coll
  OBVIOUS
<1>10. /\ w \in Seq(Char) /\ Len(w) = d + 3 + e
       /\ w[1] = "tm_doc" /\ w[2] = Underscore /\ w[d + 3] = Underscore
       /\ \A i \in 1..d : w[i + 2] = db[i]
       /\ \A i \in 1..e : w[d + 3 + i] = coll[i]
  <2>1. /\ w \in Seq(Char) /\ Len(w) = d + 3 + e
        /\ \A i \in 1..(d + 3 + e) : w[i] = IF i <= d + 3 THEN r[i] ELSE coll[i - (d + 3)]
    <3>1. /\ w \in Seq(Char) /\ Len(w) = Len(r) + Len(coll)
          /\ \A i \in 1..(Len(r) + Len(coll)) :
               w[i] = IF i <= Len(r) THEN r[i] ELSE coll[i - Len(r)]
      BY <1>81, <1>9, Concatenated
    <3> QED BY <1>1, <1>2, <1>8, <3>1
  <2>2. \A i \in 1..(d + 3) : i \in 1..(d + 3 + e) /\ w[i] = r[i]
    BY <1>1, <1>2, <2>1
  <2>3. \A i \in 1..e : /\ d + 3 + i \in 1..(d + 3 + e) /\ ~(d + 3 + i <= d + 3)
                        /\ d + 3 + i - (d + 3) = i
    BY <1>1, <1>2
  <2>4. \A i \in 1..d : i + 2 \in 1..(d + 3)
    BY <1>1
  <2>5. 1 \in 1..(d + 3) /\ 2 \in 1..(d + 3) /\ d + 3 \in 1..(d + 3)
    BY <1>1
  <2> QED BY <1>8, <2>1, <2>2, <2>3, <2>4, <2>5
<1>12. s = [i \in 1..(d + 3 + e) |-> Safe(w[i])]
  <2>1. w = <<"tm_doc", Underscore>> \o db \o <<Underscore>> \o coll
    BY <1>3, <1>5, <1>7, <1>9
  <2>2. DOMAIN w = 1..(d + 3 + e)
    BY <1>10, LenProperties
  <2> QED BY <2>1, <2>2 DEF Spelled, Sanitize, Safe
<1>13. \A i \in 1..(d + 3 + e) : w[i] \in Char
  BY <1>10, ElementOfSeq
<1>14. s \in Seq(Char) /\ Len(s) = d + 3 + e
  <2>1. s \in [1..(d + 3 + e) -> Char]
    <3>1. \A i \in 1..(d + 3 + e) : Safe(w[i]) \in Char
      <4>1. \A x \in Char : Safe(x) \in Char
        BY SafeIsChar
      <4> QED BY <1>13, <4>1
    <3> QED BY <1>12, <3>1
  <2>2. d + 3 + e \in Nat
    BY <1>1, <1>2
  <2>3. s \in Seq(Char)
    BY <2>1, <2>2, SeqDef
  <2>4. DOMAIN s = 1..(d + 3 + e)
    BY <1>12
  <2> QED BY <2>2, <2>3, <2>4, LenProperties
<1>15. \A i \in 1..(d + 3 + e) : s[i] = Safe(w[i])
  BY <1>12
<1>16. Safe("tm_doc") = "tm_doc" /\ Safe(Underscore) = Underscore
  BY SafeIsChar
<1>17. 1 \in 1..(d + 3 + e) /\ 2 \in 1..(d + 3 + e) /\ d + 3 \in 1..(d + 3 + e)
  BY <1>1, <1>2
<1>18. \A i \in 1..d : i + 2 \in 1..(d + 3 + e)
  BY <1>1, <1>2
<1>19. \A i \in 1..e : d + 3 + i \in 1..(d + 3 + e)
  BY <1>1, <1>2
<1>20. s[1] = "tm_doc" /\ s[2] = Underscore /\ s[d + 3] = Underscore
  BY <1>10, <1>15, <1>16, <1>17
<1>21. \A i \in 1..d : s[i + 2] = Safe(db[i])
  BY <1>10, <1>15, <1>18
<1>22. \A i \in 1..e : s[d + 3 + i] = Safe(coll[i])
  BY <1>10, <1>15, <1>19
<1> QED BY <1>1, <1>2, <1>14, <1>20, <1>21, <1>22 DEF Spells

\* Trimming cuts a name at its last character that is no underscore.
LEMMA TrimmedAt ==
  ASSUME NEW Char, Spelling \subseteq Char, NEW s \in Seq(Char)
  PROVE  \E k \in 0..Len(s) : /\ TrimUnderscores(s) = SubSeq(s, 1, k)
                              /\ \A i \in 1..Len(s) : s[i] # Underscore => i <= k
                              /\ k # 0 => s[k] # Underscore
<1>0. PICK n \in Nat : n = Len(s)
  BY LenProperties
<1>1. DOMAIN s = 1..n
  BY <1>0, LenProperties
<1>2. PICK T : T = {0} \cup {i \in 1..n : s[i] # Underscore}
  OBVIOUS
<1>3. T \in SUBSET (0..n) /\ T # {}
  BY <1>2
<1>4. PICK k : k = Max(T)
  OBVIOUS
<1>5. k \in T /\ \A y \in T : y <= k
  BY <1>3, <1>4, LargestExists
<1>6. TrimUnderscores(s) = SubSeq(s, 1, k)
  BY <1>1, <1>2, <1>4 DEF TrimUnderscores
<1> QED BY <1>0, <1>2, <1>3, <1>5, <1>6

LEMMA LowerIsChar ==
  ASSUME NEW Char, Spelling \subseteq Char, NEW x \in Char
  PROVE  (IF x \in DOMAIN Capitals THEN Capitals[x] ELSE x) \in Char
<1>1. Capitals = [y \in {"A", "B"} |-> Capitals[y]]
  BY DEF Capitals
<1>2. DOMAIN Capitals = {"A", "B"} /\ Capitals["A"] = "a" /\ Capitals["B"] = "b"
  BY DEF Capitals
<1>3. "a" \in Char /\ "b" \in Char
  BY DEF Spelling
<1> QED BY <1>2, <1>3

\* low is the first k characters of s in lower case.
Lowers(low, s, k) ==
  /\ Len(low) = k
  /\ \A i \in 1..k : low[i] = IF s[i] \in DOMAIN Capitals THEN Capitals[s[i]] ELSE s[i]

LEMMA LowerIs ==
  ASSUME NEW Char, Spelling \subseteq Char, NEW s \in Seq(Char), NEW k \in 0..Len(s),
         NEW low, low = ToLower(SubSeq(s, 1, k))
  PROVE  low \in Seq(Char) /\ Lowers(low, s, k)
<1>0. k \in Nat /\ Len(s) \in Nat
  BY LenProperties
<1>1. \A i \in 1..k : s[i] \in Char
  BY <1>0, ElementOfSeq
<1>2. PICK c : c = SubSeq(s, 1, k)
  OBVIOUS
<1>3. c \in Seq(Char) /\ Len(c) = k /\ \A i \in 1..k : c[i] = s[i]
  BY <1>1, <1>2, SubSeqProperties
<1>4. DOMAIN c = 1..k
  BY <1>3, LenProperties
<1>5. low = [i \in 1..k |-> IF s[i] \in DOMAIN Capitals THEN Capitals[s[i]] ELSE s[i]]
  BY <1>2, <1>3, <1>4 DEF ToLower
<1>6. low \in [1..k -> Char]
  BY <1>1, <1>5, LowerIsChar
<1>7. low \in Seq(Char)
  BY <1>6, SeqDef
<1> QED BY <1>0, <1>5, <1>6, <1>7, LenProperties DEF Lowers

LEMMA PlainNamesMatch ==
  ASSUME NEW Char, Spelling \subseteq Char, NEW db \in Seq(Char), NEW coll \in Seq(Char), Plain(db), Plain(coll)
  PROVE  LikeDatabase(PhysicalTableName(db, coll), db)
<1>7. PICK u : u = Spelled(db, coll)
  OBVIOUS
<1>70. u \in Seq(Char) /\ Spells(u, db, coll)
  BY <1>7, SpelledIs
<1>2. PICK d \in Nat : d = Len(db)
  BY LenProperties
<1>3. PICK e \in Nat : e = Len(coll)
  BY LenProperties
<1>4. PICK x \in 1..d : db[x] \in SafeChars /\ db[x] # Underscore
  BY <1>2, LenProperties DEF Plain
<1>5. PICK y \in 1..e : coll[y] \in SafeChars /\ coll[y] # Underscore
  BY <1>3, LenProperties DEF Plain
<1>6. PICK s : s = Spelled(db, <<>>)
  OBVIOUS
<1>8. PICK z : z = <<>>
  OBVIOUS
<1>80. z \in Seq(Char)
  BY <1>8, EmptySeq
<1>9. /\ s \in Seq(Char) /\ Len(s) = d + 3
      /\ s[1] = "tm_doc" /\ s[2] = Underscore /\ s[d + 3] = Underscore
      /\ \A i \in 1..d : s[i + 2] = Safe(db[i])
  <2>1. s \in Seq(Char) /\ Spells(s, db, z)
    <3>1. s = Spelled(db, z)
      BY <1>6, <1>8
    <3> QED BY <1>80, <3>1, SpelledIs
  <2>2. Len(z) = 0
    BY <1>8, EmptySeq
  <2> QED BY <1>2, <2>1, <2>2 DEF Spells
<1>10. /\ u \in Seq(Char) /\ Len(u) = d + 3 + e
       /\ u[1] = "tm_doc" /\ u[2] = Underscore /\ u[d + 3] = Underscore
       /\ \A i \in 1..d : u[i + 2] = Safe(db[i])
       /\ \A i \in 1..e : u[d + 3 + i] = Safe(coll[i])
  BY <1>2, <1>3, <1>70 DEF Spells
<1>11. \A i \in 1..(d + 3) : s[i] = u[i]
  <2>1. \A i \in 1..(d + 3) : i = 1 \/ i = 2 \/ i = d + 3 \/ (i - 2 \in 1..d /\ i - 2 + 2 = i)
    BY <1>2
  <2> QED BY <1>9, <1>10, <2>1
<1>12. PICK k \in 0..(d + 3) : /\ TrimUnderscores(s) = SubSeq(s, 1, k)
                               /\ \A i \in 1..(d + 3) : s[i] # Underscore => i <= k
                               /\ k # 0 => s[k] # Underscore
  <2>1. s \in Seq(Char)
    BY <1>9
  <2>2. \E i \in 0..Len(s) : /\ TrimUnderscores(s) = SubSeq(s, 1, i)
                             /\ \A j \in 1..Len(s) : s[j] # Underscore => j <= i
                             /\ i # 0 => s[i] # Underscore
    BY <2>1, TrimmedAt
  <2> QED BY <1>9, <2>2
<1>13. PICK l \in 0..(d + 3 + e) : /\ TrimUnderscores(u) = SubSeq(u, 1, l)
                                   /\ \A i \in 1..(d + 3 + e) : u[i] # Underscore => i <= l
  <2>1. u \in Seq(Char)
    BY <1>10
  <2>2. \E i \in 0..Len(u) : /\ TrimUnderscores(u) = SubSeq(u, 1, i)
                             /\ \A j \in 1..Len(u) : u[j] # Underscore => j <= i
                             /\ i # 0 => u[i] # Underscore
    BY <2>1, TrimmedAt
  <2> QED BY <1>10, <2>2
<1>14. k >= 3 /\ k <= d + 2
  <2>1. x + 2 \in 1..(d + 3) /\ s[x + 2] # Underscore
    BY <1>2, <1>4, <1>9 DEF Safe
  <2>2. x + 2 <= k
    BY <1>12, <2>1
  <2>3. k >= 3
    BY <1>2, <2>2
  <2>4. k # d + 3
    BY <1>9, <1>12, <2>3
  <2> QED BY <1>2, <2>3, <2>4
<1>15. l >= d + 4
  <2>1. d + 3 + y \in 1..(d + 3 + e) /\ u[d + 3 + y] # Underscore
    BY <1>2, <1>3, <1>5, <1>10 DEF Safe
  <2> QED BY <1>2, <1>3, <1>13, <2>1
<1>16. PICK p : p = PhysicalTableName(db, <<>>)
  OBVIOUS
<1>17. PICK t : t = PhysicalTableName(db, coll)
  OBVIOUS
<1>18. p = ToLower(SubSeq(s, 1, k))
  <2>1. Len(SubSeq(s, 1, k)) = k
    <3>1. \A i \in 1..k : s[i] \in Char
      BY <1>9, <1>12, ElementOfSeq
    <3> QED BY <1>12, <1>14, <3>1, SubSeqProperties
  <2>2. SubSeq(s, 1, k) \notin {<<>>, <<"tm_doc">>}
    <3>1. PICK c : c = SubSeq(s, 1, k)
      OBVIOUS
    <3>2. Len(c) \notin {0, 1}
      BY <1>2, <1>14, <2>1, <3>1
    <3>3. PICK one : one = <<"tm_doc">>
      OBVIOUS
    <3>4. Len(one) = 1 /\ Len(z) = 0
      BY <1>8, <3>3
    <3>6. c # z /\ c # one
      BY <3>2, <3>4, Zenon
    <3> QED BY <1>8, <3>1, <3>3, <3>6, Zenon
  <2> QED BY <1>6, <1>12, <1>16, <2>2 DEF PhysicalTableName, Spelled
<1>19. t = ToLower(SubSeq(u, 1, l))
  <2>1. Len(SubSeq(u, 1, l)) = l
    <3>1. \A i \in 1..l : u[i] \in Char
      BY <1>10, <1>13, ElementOfSeq
    <3> QED BY <1>13, <1>15, <3>1, SubSeqProperties
  <2>2. SubSeq(u, 1, l) \notin {<<>>, <<"tm_doc">>}
    <3>1. PICK c : c = SubSeq(u, 1, l)
      OBVIOUS
    <3>2. Len(c) \notin {0, 1}
      BY <1>2, <1>15, <2>1, <3>1
    <3>3. PICK one : one = <<"tm_doc">>
      OBVIOUS
    <3>4. Len(one) = 1 /\ Len(z) = 0
      BY <1>8, <3>3
    <3>6. c # z /\ c # one
      BY <3>2, <3>4, Zenon
    <3> QED BY <1>8, <3>1, <3>3, <3>6, Zenon
  <2> QED BY <1>7, <1>13, <1>17, <2>2 DEF PhysicalTableName, Spelled
<1>20. /\ p \in Seq(Char) /\ Len(p) = k
       /\ \A i \in 1..k : p[i] = IF s[i] \in DOMAIN Capitals THEN Capitals[s[i]] ELSE s[i]
  <2>1. s \in Seq(Char) /\ k \in 0..Len(s)
    BY <1>9, <1>12
  <2>2. p \in Seq(Char) /\ Lowers(p, s, k)
    BY <1>18, <2>1, LowerIs
  <2> QED BY <2>2 DEF Lowers
<1>21. /\ Len(t) = l
       /\ \A i \in 1..l : t[i] = IF u[i] \in DOMAIN Capitals THEN Capitals[u[i]] ELSE u[i]
  <2>1. u \in Seq(Char) /\ l \in 0..Len(u)
    BY <1>10, <1>13
  <2>2. t \in Seq(Char) /\ Lowers(t, u, l)
    BY <1>19, <2>1, LowerIs
  <2> QED BY <2>2 DEF Lowers
<1>22. \A i \in 1..k : p[i] = t[i]
  BY <1>2, <1>11, <1>14, <1>15, <1>20, <1>21
<1>23. PICK pattern : pattern = Append(p, Underscore)
  OBVIOUS
<1>24. /\ pattern \in Seq(Char) /\ Len(pattern) = k + 1 /\ pattern[k + 1] = Underscore
       /\ \A i \in 1..k : pattern[i] = p[i]
  BY <1>20, <1>23, AppendProperties, SafeIsChar
<1>25. DOMAIN pattern = 1..(k + 1)
  BY <1>24, LenProperties
<1>26. Len(t) >= Len(pattern)
  BY <1>14, <1>15, <1>21, <1>24
<1>27. \A i \in DOMAIN pattern : pattern[i] \in {Underscore, t[i]}
  <2>1. \A i \in 1..(k + 1) : i \in 1..k \/ i = k + 1
    OBVIOUS
  <2> QED BY <1>22, <1>24, <1>25, <2>1
<1>28. LikeDatabase(t, db)
  BY <1>16, <1>23, <1>26, <1>27 DEF LikeDatabase
<1> QED BY <1>17, <1>28

LEMMA Widened ==
  ASSUME NEW S, NEW T, S \subseteq T, NEW s \in Seq(S)
  PROVE  s \in Seq(T)
<1>1. PICK n \in Nat : s \in [1..n -> S]
  BY SeqDef
<1>2. s \in [1..n -> T]
  BY <1>1
<1> QED BY <1>2, SeqDef

\* dropDatabase finds every collection with a plain name (schema.go:14-30,
\* store.go:447-479).
LEMMA PlainNamesAreSelected ==
  ASSUME NEW n \in Namespace, Plain(n.db), Plain(n.coll)
  PROVE  LikeDatabase(TableOf[n], n.db)
<1>1. PICK Char : Char = Spelling \cup Range(n.db) \cup Range(n.coll)
  OBVIOUS
<1>2. PICK db : db = n.db
  OBVIOUS
<1>3. PICK coll : coll = n.coll
  OBVIOUS
<1>4. db \in Seq(Char) /\ coll \in Seq(Char) /\ Spelling \subseteq Char
  BY <1>1, <1>2, <1>3, NamesAssumption, Widened
<1>5. LikeDatabase(PhysicalTableName(db, coll), db)
  BY <1>2, <1>3, <1>4, PlainNamesMatch
<1> QED BY <1>2, <1>3, <1>5 DEF TableOf

-----------------------------------------------------------------------------
(* Proper names. *)

\* The table of a proper name spells it out.
SpelledOut(t, db, coll) ==
  /\ Len(t) = Len(db) + 3 + Len(coll)
  /\ t[Len(db) + 3] = Underscore
  /\ \A i \in 1..Len(db) : t[i + 2] = db[i]
  /\ \A i \in 1..Len(coll) : t[Len(db) + 3 + i] = coll[i]

LEMMA LettersStay ==
  ASSUME NEW x \in Letters \cup {Underscore}
  PROVE  Safe(x) = x /\ x \notin DOMAIN Capitals
<1>1. DOMAIN Capitals = {"A", "B"}
  BY DEF Capitals
<1>2. CASE x = Underscore
  BY <1>1, <1>2 DEF Safe, Underscore
<1>3. CASE x # Underscore
  BY <1>3 DEF Letters, Safe
<1> QED BY <1>2, <1>3

LEMMA ElementsOf ==
  ASSUME NEW S, NEW s \in Seq(S), NEW T, Range(s) \subseteq T
  PROVE  \A i \in 1..Len(s) : s[i] \in T
BY LenProperties DEF Range

\* A name of more than one character that ends with no underscore is only put
\* in lower case.
LEMMA NameOfTable ==
  ASSUME NEW Char, Spelling \subseteq Char, NEW db \in Seq(Char), NEW coll \in Seq(Char),
         NEW s, s = Spelled(db, coll), NEW l \in Nat, l >= 2,
         TrimUnderscores(s) = SubSeq(s, 1, l), l <= Len(s)
  PROVE  /\ PhysicalTableName(db, coll) \in Seq(Char)
         /\ Lowers(PhysicalTableName(db, coll), s, l)
<1>0. PICK n \in Nat : n = Len(db) + 3 + Len(coll)
  BY LenProperties
<1>1. s \in Seq(Char) /\ Spells(s, db, coll)
  BY SpelledIs
<1>2. Len(s) = n
  BY <1>0, <1>1 DEF Spells
<1>3. l \in 0..n
  BY <1>0, <1>2
<1>4. PICK c : c = SubSeq(s, 1, l)
  OBVIOUS
<1>5. Len(c) = l
  <2>1. \A i \in 1..l : s[i] \in Char
    BY <1>1, <1>2, <1>3, ElementOfSeq
  <2> QED BY <1>3, <1>4, <2>1, SubSeqProperties
<1>6. c \notin {<<>>, <<"tm_doc">>}
  <2>1. Len(c) \notin {0, 1}
    BY <1>5
  <2>2. PICK z : z = <<>>
    OBVIOUS
  <2>3. PICK one : one = <<"tm_doc">>
    OBVIOUS
  <2>4. Len(one) = 1 /\ Len(z) = 0
    BY <2>2, <2>3
  <2>5. c # z /\ c # one
    BY <2>1, <2>4, Zenon
  <2> QED BY <2>2, <2>3, <2>5, Zenon
<1>7. PhysicalTableName(db, coll) = ToLower(SubSeq(s, 1, l))
  BY <1>4, <1>6 DEF PhysicalTableName, Spelled
<1>8. l \in 0..Len(s)
  BY <1>2, <1>3
<1>9. s \in Seq(Char)
  BY <1>1
<1> QED BY <1>7, <1>8, <1>9, LowerIs

LEMMA ProperTable ==
  ASSUME NEW Char, Spelling \subseteq Char, NEW db \in Seq(Char), NEW coll \in Seq(Char),
         Proper(db, coll)
  PROVE  SpelledOut(PhysicalTableName(db, coll), db, coll)
<1>1. PICK s : s = Spelled(db, coll)
  OBVIOUS
<1>2. PICK d \in Nat : d = Len(db)
  BY LenProperties
<1>3. PICK e \in Nat : e = Len(coll)
  BY LenProperties
<1>4. s \in Seq(Char) /\ Spells(s, db, coll)
  BY <1>1, SpelledIs
<1>5. /\ Len(s) = d + 3 + e /\ s[d + 3] = Underscore
      /\ \A i \in 1..d : s[i + 2] = Safe(db[i])
      /\ \A i \in 1..e : s[d + 3 + i] = Safe(coll[i])
  BY <1>2, <1>3, <1>4 DEF Spells
<1>6. \A i \in 1..d : Safe(db[i]) = db[i] /\ db[i] \notin DOMAIN Capitals
  BY <1>2, ElementsOf, LettersStay DEF Proper
<1>7. \A i \in 1..e : Safe(coll[i]) = coll[i] /\ coll[i] \notin DOMAIN Capitals
  BY <1>3, ElementsOf, LettersStay DEF Proper
<1>8. e # 0 /\ coll[e] # Underscore
  BY <1>3, EmptySeq DEF Proper
<1>9. PICK l \in 0..(d + 3 + e) : /\ TrimUnderscores(s) = SubSeq(s, 1, l)
                                  /\ \A i \in 1..(d + 3 + e) : s[i] # Underscore => i <= l
  <2>1. s \in Seq(Char)
    BY <1>4
  <2>2. \E i \in 0..Len(s) : /\ TrimUnderscores(s) = SubSeq(s, 1, i)
                             /\ \A j \in 1..Len(s) : s[j] # Underscore => j <= i
                             /\ i # 0 => s[i] # Underscore
    BY <2>1, TrimmedAt
  <2> QED BY <1>5, <2>2
<1>10. l = d + 3 + e
  <2>1. d + 3 + e \in 1..(d + 3 + e) /\ e \in 1..e
    BY <1>8
  <2>2. s[d + 3 + e] # Underscore
    BY <1>5, <1>7, <1>8, <2>1
  <2>3. d + 3 + e <= l
    BY <1>9, <2>1, <2>2
  <2> QED BY <2>3
<1>11. PICK t : t = PhysicalTableName(db, coll)
  OBVIOUS
<1>12. Lowers(t, s, l)
  <2>1. l \in Nat /\ l >= 2
    BY <1>10
  <2>2. l <= Len(s)
    BY <1>5, <1>10
  <2> QED BY <1>1, <1>9, <1>11, <2>1, <2>2, NameOfTable
<1>13. /\ Len(t) = d + 3 + e
       /\ \A i \in 1..(d + 3 + e) :
            t[i] = IF s[i] \in DOMAIN Capitals THEN Capitals[s[i]] ELSE s[i]
  BY <1>10, <1>12 DEF Lowers
<1>14. d + 3 \in 1..(d + 3 + e) /\ \A i \in 1..d : i + 2 \in 1..(d + 3 + e)
  OBVIOUS
<1>15. \A i \in 1..e : d + 3 + i \in 1..(d + 3 + e)
  OBVIOUS
<1>16. Underscore \notin DOMAIN Capitals
  BY LettersStay
<1>17. t[d + 3] = Underscore
  BY <1>5, <1>13, <1>14, <1>16
<1>18. \A i \in 1..d : t[i + 2] = db[i]
  BY <1>5, <1>6, <1>13, <1>14
<1>19. \A i \in 1..e : t[d + 3 + i] = coll[i]
  BY <1>5, <1>7, <1>13, <1>15
<1> QED BY <1>2, <1>3, <1>11, <1>13, <1>17, <1>18, <1>19 DEF SpelledOut

\* A table spells out one proper name at most: its third underscore, counting
\* the one after tm_doc and the one that starts the collection, ends the database.
LEMMA SpelledOutOnce ==
  ASSUME NEW Char, NEW t,
         NEW db \in Seq(Char), NEW coll \in Seq(Char), Proper(db, coll), SpelledOut(t, db, coll),
         NEW base \in Seq(Char), NEW name \in Seq(Char), Proper(base, name),
         SpelledOut(t, base, name)
  PROVE  db = base /\ coll = name
<1>1. PICK d \in Nat : d = Len(db)
  BY LenProperties
<1>2. PICK b \in Nat : b = Len(base)
  BY LenProperties
<1>3. \A i \in 1..d : db[i] # Underscore
  BY <1>1, ElementsOf DEF Proper, Letters
<1>4. \A i \in 1..b : base[i] # Underscore
  BY <1>2, ElementsOf DEF Proper, Letters
<1>5. /\ t[d + 3] = Underscore /\ t[b + 3] = Underscore
      /\ \A i \in 1..d : t[i + 2] = db[i]
      /\ \A i \in 1..b : t[i + 2] = base[i]
  BY <1>1, <1>2 DEF SpelledOut
<1>6. ~(d < b)
  <2>1. SUFFICES ASSUME d < b PROVE FALSE
    OBVIOUS
  <2>2. d + 1 \in 1..b /\ d + 1 + 2 = d + 3
    BY <2>1
  <2> QED BY <1>4, <1>5, <2>2
<1>7. ~(b < d)
  <2>1. SUFFICES ASSUME b < d PROVE FALSE
    OBVIOUS
  <2>2. b + 1 \in 1..d /\ b + 1 + 2 = b + 3
    BY <2>1
  <2> QED BY <1>3, <1>5, <2>2
<1>8. d = b
  BY <1>6, <1>7
<1>9. db = base
  <2>1. \A i \in 1..d : db[i] = base[i]
    BY <1>5, <1>8
  <2> QED BY <1>1, <1>2, <1>8, <2>1, SeqEqual
<1>10. PICK e \in Nat : e = Len(coll)
  BY LenProperties
<1>11. PICK f \in Nat : f = Len(name)
  BY LenProperties
<1>12. /\ d + 3 + e = d + 3 + f
       /\ \A i \in 1..e : t[d + 3 + i] = coll[i]
       /\ \A i \in 1..f : t[d + 3 + i] = name[i]
  BY <1>1, <1>2, <1>8, <1>10, <1>11 DEF SpelledOut
<1>13. e = f
  BY <1>12
<1>14. \A i \in 1..e : coll[i] = name[i]
  BY <1>12, <1>13
<1> QED BY <1>9, <1>10, <1>11, <1>13, <1>14, SeqEqual

\* Collections with proper names have tables of their own (schema.go:13-27).
LEMMA ProperNamesApart ==
  ASSUME NEW n \in Namespace, NEW k \in Namespace, Proper(n.db, n.coll), Proper(k.db, k.coll),
         TableOf[n] = TableOf[k]
  PROVE  n = k
<1>1. PICK Char : Char = Spelling \cup Range(n.db) \cup Range(n.coll)
                                 \cup Range(k.db) \cup Range(k.coll)
  OBVIOUS
<1>2. /\ n.db \in Seq(Char) /\ n.coll \in Seq(Char)
      /\ k.db \in Seq(Char) /\ k.coll \in Seq(Char) /\ Spelling \subseteq Char
  BY <1>1, NamesAssumption, Widened
<1>3. SpelledOut(PhysicalTableName(n.db, n.coll), n.db, n.coll)
  BY <1>2, ProperTable
<1>4. SpelledOut(PhysicalTableName(k.db, k.coll), k.db, k.coll)
  BY <1>2, ProperTable
<1>5. PhysicalTableName(n.db, n.coll) = PhysicalTableName(k.db, k.coll)
  BY DEF TableOf
<1>6. n.db = k.db /\ n.coll = k.coll
  BY <1>2, <1>3, <1>4, <1>5, SpelledOutOnce
<1> QED BY <1>6, NamesAssumption

\* dropDatabase with a name of letters selects, of the tables of collections with
\* proper names, those of databases whose names begin with it (store.go:447-479).
LEMMA SelectsPrefixed ==
  ASSUME NEW Char, Spelling \subseteq Char, NEW db \in Seq(Char), NEW coll \in Seq(Char),
         Proper(db, coll), NEW base \in Seq(Char), Range(base) \subseteq Letters,
         LikeDatabase(PhysicalTableName(db, coll), base)
  PROVE  Len(base) <= Len(db) /\ base = SubSeq(db, 1, Len(base))
<1>1. PICK d \in Nat : d = Len(db)
  BY LenProperties
<1>2. PICK b \in Nat : b = Len(base)
  BY LenProperties
<1>3. CASE b = 0
  <2>1. base = <<>>
    BY <1>2, <1>3, EmptySeq
  <2>2. SubSeq(db, 1, 0) = <<>>
    BY SubSeqProperties, EmptySeq
  <2> QED BY <1>1, <1>2, <1>3, <2>1, <2>2
<1>4. CASE b # 0
  <2>1. PICK e \in Nat : e = Len(coll)
    BY LenProperties
  <2>2. PICK t : t = PhysicalTableName(db, coll)
    OBVIOUS
  <2>3. /\ Len(t) = d + 3 + e /\ t[d + 3] = Underscore
        /\ \A i \in 1..d : t[i + 2] = db[i]
    BY <1>1, <2>1, <2>2, ProperTable DEF SpelledOut
  <2>4. PICK p : p = PhysicalTableName(base, <<>>)
    OBVIOUS
  <2>5. p \in Seq(Char) /\ Len(p) = b + 2 /\ \A i \in 1..b : p[i + 2] = base[i]
    <3>1. PICK z : z = <<>>
      OBVIOUS
    <3>2. z \in Seq(Char) /\ Len(z) = 0
      BY <3>1, EmptySeq
    <3>20. z \in Seq(Char)
      BY <3>2
    <3>3. PICK s : s = Spelled(base, z)
      OBVIOUS
    <3>4. s \in Seq(Char) /\ Spells(s, base, z)
      BY <3>3, <3>20, SpelledIs
    <3>5. /\ Len(s) = b + 3 /\ s[b + 3] = Underscore
          /\ \A i \in 1..b : s[i + 2] = Safe(base[i])
      BY <1>2, <3>2, <3>4 DEF Spells
    <3>6. \A i \in 1..b : /\ Safe(base[i]) = base[i] /\ base[i] \notin DOMAIN Capitals
                          /\ base[i] # Underscore
      BY <1>2, ElementsOf, LettersStay DEF Letters
    <3>7. PICK l \in 0..(b + 3) : /\ TrimUnderscores(s) = SubSeq(s, 1, l)
                                  /\ \A i \in 1..(b + 3) : s[i] # Underscore => i <= l
                                  /\ l # 0 => s[l] # Underscore
      <4>1. s \in Seq(Char)
        BY <3>4
      <4>2. \E i \in 0..Len(s) : /\ TrimUnderscores(s) = SubSeq(s, 1, i)
                                 /\ \A j \in 1..Len(s) : s[j] # Underscore => j <= i
                                 /\ i # 0 => s[i] # Underscore
        BY <4>1, TrimmedAt
      <4> QED BY <3>5, <4>2
    <3>8. l = b + 2
      <4>1. b \in 1..b /\ b + 2 \in 1..(b + 3)
        BY <1>4
      <4>2. s[b + 2] # Underscore
        BY <3>5, <3>6, <4>1
      <4>3. b + 2 <= l
        BY <3>7, <4>1, <4>2
      <4>4. l # b + 3
        BY <3>5, <3>7
      <4> QED BY <4>3, <4>4
    <3>9. p \in Seq(Char) /\ Lowers(p, s, l)
      <4>1. l \in Nat /\ l >= 2
        BY <3>8
      <4>2. l <= Len(s)
        BY <3>5, <3>8
      <4>3. TrimUnderscores(s) = SubSeq(s, 1, l)
        BY <3>7
      <4>4. p = PhysicalTableName(base, z)
        BY <2>4, <3>1
      <4> QED BY <3>3, <3>20, <4>1, <4>2, <4>3, <4>4, NameOfTable
    <3>10. /\ Len(p) = b + 2
           /\ \A i \in 1..(b + 2) :
                p[i] = IF s[i] \in DOMAIN Capitals THEN Capitals[s[i]] ELSE s[i]
      BY <3>8, <3>9 DEF Lowers
    <3>11. \A i \in 1..b : i + 2 \in 1..(b + 2)
      OBVIOUS
    <3>12. \A i \in 1..b : p[i + 2] = base[i]
      BY <3>5, <3>6, <3>10, <3>11
    <3> QED BY <3>9, <3>10, <3>12
  <2>6. PICK pattern : pattern = Append(p, Underscore)
    OBVIOUS
  <2>7. /\ Len(pattern) = b + 3 /\ DOMAIN pattern = 1..(b + 3)
        /\ \A i \in 1..b : pattern[i + 2] = base[i]
    <3>1. p \in Seq(Char) /\ Underscore \in Char
      BY <2>5, SafeIsChar
    <3>2. /\ pattern \in Seq(Char) /\ Len(pattern) = Len(p) + 1
          /\ \A i \in 1..Len(p) : pattern[i] = p[i]
      BY <2>6, <3>1, AppendProperties
    <3>3. DOMAIN pattern = 1..Len(pattern)
      BY <3>2, LenProperties
    <3>4. \A i \in 1..b : i + 2 \in 1..(b + 2)
      OBVIOUS
    <3>5. b + 2 + 1 = b + 3
      OBVIOUS
    <3> QED BY <2>5, <3>2, <3>3, <3>4, <3>5
  <2>8. Len(t) >= Len(pattern) /\ \A i \in DOMAIN pattern : pattern[i] \in {Underscore, t[i]}
    BY <2>2, <2>4, <2>6 DEF LikeDatabase
  <2>9. \A i \in 1..b : base[i] # Underscore /\ base[i] = t[i + 2]
    <3>1. \A i \in 1..b : i + 2 \in 1..(b + 3)
      OBVIOUS
    <3>2. \A i \in 1..b : base[i] # Underscore
      BY <1>2, ElementsOf DEF Letters
    <3> QED BY <2>7, <2>8, <3>1, <3>2
  <2>10. b <= d
    <3>1. SUFFICES ASSUME d < b PROVE FALSE
      OBVIOUS
    <3>2. d + 1 \in 1..b /\ d + 1 + 2 = d + 3
      BY <3>1
    <3> QED BY <2>3, <2>9, <3>2
  <2>11. \A i \in 1..b : base[i] = db[i]
    <3>1. \A i \in 1..b : i \in 1..d
      BY <2>10
    <3> QED BY <2>3, <2>9, <3>1
  <2>12. PICK c : c = SubSeq(db, 1, b)
    OBVIOUS
  <2>13. c \in Seq(Char) /\ Len(c) = b /\ \A i \in 1..b : c[i] = db[i]
    <3>1. \A i \in 1..b : db[i] \in Char
      BY <1>1, <2>10, ElementOfSeq
    <3> QED BY <2>12, <3>1, SubSeqProperties
  <2>14. base = c
    <3>1. \A i \in 1..b : base[i] = c[i]
      BY <2>11, <2>13
    <3> QED BY <1>2, <2>13, <3>1, SeqEqual
  <2> QED BY <1>1, <1>2, <2>10, <2>12, <2>14
<1> QED BY <1>3, <1>4

LEMMA DropsPrefixed ==
  ASSUME NEW n \in Namespace, Proper(n.db, n.coll), NEW db \in Database,
         Range(db) \subseteq Letters, LikeDatabase(TableOf[n], db)
  PROVE  Len(db) <= Len(n.db) /\ db = SubSeq(n.db, 1, Len(db))
<1>1. PICK k \in Namespace : db = k.db
  BY DEF Database
<1>2. PICK Char : Char = Spelling \cup Range(n.db) \cup Range(n.coll) \cup Range(db)
  OBVIOUS
<1>3. /\ n.db \in Seq(Char) /\ n.coll \in Seq(Char) /\ db \in Seq(Char)
      /\ Spelling \subseteq Char
  BY <1>1, <1>2, NamesAssumption, Widened
<1>4. LikeDatabase(PhysicalTableName(n.db, n.coll), db)
  BY DEF TableOf
<1> QED BY <1>3, <1>4, SelectsPrefixed

=============================================================================
