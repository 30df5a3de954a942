---------------------------- MODULE StoreRefinement ----------------------------
(***************************************************************************)
(* The store on TiDB implements DocStore.  Documents are the committed     *)
(* rows, and a command is over when none of its statements is left that    *)
(* could change them: an insert with its COMMIT, a find with its SELECT, a *)
(* drop with its DROP TABLE.                                               *)
(***************************************************************************)
EXTENDS TiDBStore

Over(c) ==
  /\ cmd[c] # Idle /\ pending[c] = {}
  /\ \/ todo[c] = <<>>
     \/ cmd[c].kind = "drop" /\ Len(todo[c]) = 1

\* Only inserts and finds promise a number.
Counts(m) == m.kind \in {"insert", "find"}

OverMap == [c \in Conn |-> Over(c)]
ResultMap == [c \in Conn |-> IF Over(c) /\ Counts(cmd[c]) THEN local[c].count ELSE 0]
ToldMap == [c \in Conn |->
              [to |-> reply[c].to, ok |-> reply[c].ok,
               n |-> IF reply[c].ok /\ Counts(reply[c].to) THEN reply[c].n ELSE 0]]

Docs ==
  INSTANCE DocStore WITH
    docs <- rows, over <- OverMap, result <- ResultMap, told <- ToldMap,
    Stored <- [t \in Table |->
                 UNION {Loaded[n] : n \in {m \in DOMAIN Loaded : TableOf[m] = t}}]

\* What clients see of documents through any interleaving of statements, faults
\* and lost answers is what DocStore promises: batches are whole, a find sees
\* one moment, a drop is one moment, an update writes images of documents it
\* matches, and no command touches documents it was not asked for (store.go).
ImplementsDocStore == Docs!Spec
=============================================================================
