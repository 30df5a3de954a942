------------------------------- MODULE DocStore -------------------------------
(***************************************************************************)
(* What the interface Store of internal/backend promises its clients about *)
(* documents, without statements, transactions and catalog.                *)
(*                                                                         *)
(* An insert, a find and a drop take effect at one moment between the      *)
(* command and its answer.  An update, a delete, a rename and a            *)
(* dropDatabase take effect piece by piece, and others see the pieces; but *)
(* a piece is one document, or one table that is dropped, and nothing the  *)
(* command was not asked for.  All other commands leave documents alone.   *)
(* A command answered with ok is over; one answered with an error may have *)
(* taken effect, wholly if it is an insert, up to any piece if it is not.  *)
(***************************************************************************)
EXTENDS Commands

CONSTANTS Conn,       \* client connections
          Sendable,   \* the commands clients send
          Stored      \* the documents of each table at the start

VARIABLES docs,     \* for each table its documents
          cmd,      \* the command each client waits for
          over,     \* it has taken effect
          result,   \* the number it will be answered with
          told      \* the last answer: [to, ok, n]

vars == << docs, cmd, over, result, told >>

Untold == [to |-> Idle, ok |-> FALSE, n |-> 0]

Init ==
  /\ docs = Stored
  /\ cmd = [c \in Conn |-> Idle]
  /\ over = [c \in Conn |-> FALSE]
  /\ result = [c \in Conn |-> 0]
  /\ told = [c \in Conn |-> Untold]

Begin(c) ==
  /\ cmd[c] = Idle
  /\ \E m \in Sendable : cmd' = [cmd EXCEPT ![c] = m]
  /\ UNCHANGED << docs, over, result, told >>

\* The command of c has taken effect, and n is what it answers.
TakeEffect(c, n) ==
  /\ ~over[c] /\ over' = [over EXCEPT ![c] = TRUE]
  /\ result' = [result EXCEPT ![c] = n]
  /\ UNCHANGED << cmd, told >>

-----------------------------------------------------------------------------
(* Commands that take effect at one moment. *)

\* No two documents of the batch have one _id, and none has that of a stored one.
Fresh(batch, stored) ==
  /\ \A i, j \in DOMAIN batch : batch[i].id = batch[j].id => i = j
  /\ \A i \in DOMAIN batch : \A d \in stored : d.id # batch[i].id

InsertBatch(c) ==
  LET m == cmd[c]
  IN  /\ m.kind = "insert"
      /\ Fresh(m.docs, docs[TableOf[m.ns]])
      /\ docs' = [docs EXCEPT ![TableOf[m.ns]] = @ \cup Range(m.docs)]
      /\ TakeEffect(c, Len(m.docs))

\* A find with a limit, or a count.
Found(m, stored) ==
  LET n == Cardinality(stored \cap m.filter)
  IN  IF m.limit = 0 \/ m.limit > n THEN n ELSE m.limit

Read(c) ==
  LET m == cmd[c]
  IN  /\ m.kind = "find"
      /\ TakeEffect(c, Found(m, docs[TableOf[m.ns]]))
      /\ UNCHANGED docs

Clear(c) ==
  /\ cmd[c].kind = "drop"
  /\ docs' = [docs EXCEPT ![TableOf[cmd[c].ns]] = {}]
  /\ TakeEffect(c, 0)

-----------------------------------------------------------------------------
(* Commands that take effect piece by piece.  m changes the documents of   *)
(* table t from old to new.                                                *)

\* A document is written that the update makes of one it matches, or upserts.
Written(model) == model.upsert \cup UNION {model.apply[d] : d \in model.matches}
WritesOne(m, t, old, new) ==
  /\ m.kind \in {"update", "findAndModify"} /\ t = TableOf[m.ns]
  /\ \E j \in DOMAIN m.updates : \E d \in Written(m.updates[j]) :
       new = {e \in old : e.id # d.id} \cup {d}

\* The document of one _id goes, that of a document the delete matches.
DeletesOne(m, t, old, new) ==
  /\ m.kind = "delete" \/ (m.kind = "findAndModify" /\ m.remove)
  /\ t = TableOf[m.ns]
  /\ \E j \in DOMAIN DeletesOf(m) : \E d \in DeletesOf(m)[j].matches :
       new = {e \in old : e.id # d.id}

\* The target is emptied if it is to be, filled with documents under fresh
\* keys, and the source emptied.
RenamesPart(m, t, old, new) ==
  /\ m.kind = "renameCollection"
  /\ \/ m.dropTarget /\ t = TableOf[m.to] /\ new = {}
     \/ t = TableOf[m.ns] /\ new = {}
     \/ /\ t = TableOf[m.to] /\ old \subseteq new
        /\ \A d \in new \ old : \A e \in new : d.id = e.id => d = e

DropsOne(m, t, old, new) ==
  /\ m.kind = "dropDatabase" /\ LikeDatabase(t, m.db)
  /\ new = {}

Piece(c) ==
  /\ \E t \in Table :
       /\ \/ WritesOne(cmd[c], t, docs[t], docs'[t])
          \/ DeletesOne(cmd[c], t, docs[t], docs'[t])
          \/ RenamesPart(cmd[c], t, docs[t], docs'[t])
          \/ DropsOne(cmd[c], t, docs[t], docs'[t])
       /\ docs' = [docs EXCEPT ![t] = docs'[t]]
  /\ ~over[c] /\ over'[c] \in BOOLEAN
  /\ over' = [over EXCEPT ![c] = over'[c]]
  /\ UNCHANGED << cmd, result, told >>

\* The last piece is done, there was none, or the command has no documents.
Settle(c) ==
  /\ cmd[c].kind \notin {"idle", "insert", "find", "drop"}
  /\ TakeEffect(c, 0)
  /\ UNCHANGED docs

-----------------------------------------------------------------------------
Finish(c, ok) ==
  /\ cmd' = [cmd EXCEPT ![c] = Idle]
  /\ over' = [over EXCEPT ![c] = FALSE]
  /\ result' = [result EXCEPT ![c] = 0]
  /\ told' = [told EXCEPT ![c] = [to |-> cmd[c], ok |-> ok,
                                  n |-> IF ok THEN result[c] ELSE 0]]
  /\ UNCHANGED docs

Answer(c) == over[c] /\ Finish(c, TRUE)
Fail(c) == cmd[c] # Idle /\ Finish(c, FALSE)

Next ==
  \E c \in Conn :
    \/ Begin(c) \/ InsertBatch(c) \/ Read(c) \/ Clear(c) \/ Piece(c) \/ Settle(c)
    \/ Answer(c) \/ Fail(c)

Spec == Init /\ [][Next]_vars
=============================================================================
