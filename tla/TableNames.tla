----------------------------- MODULE TableNames -----------------------------
(***************************************************************************)
(* How a MongoDB namespace becomes the name of a TiDB table, and which     *)
(* tables the LIKE pattern of dropDatabase selects (schema.go, store.go).  *)
(*                                                                         *)
(* A name is a sequence of characters drawn from a small alphabet: letters *)
(* of both cases, the underscore, and the dash for every character outside *)
(* [a-zA-Z0-9_].  The literals "tm_doc" and "collection" are one symbol    *)
(* each.                                                                   *)
(***************************************************************************)
EXTENDS Integers, Sequences, FiniteSetsExt

Underscore == "_"
Capitals == [A |-> "a", B |-> "b"]
SafeChars == {"a", "b", "c", Underscore, "tm_doc", "collection"} \cup DOMAIN Capitals

\* unsafeIdent.ReplaceAllString(base, "_")
Sanitize(name) ==
  [i \in DOMAIN name |-> IF name[i] \in SafeChars THEN name[i] ELSE Underscore]

\* strings.Trim(base, "_"): the name begins with a letter, only its end is trimmed.
TrimUnderscores(name) ==
  SubSeq(name, 1, Max({0} \cup {i \in DOMAIN name : name[i] # Underscore}))

ToLower(name) ==
  [i \in DOMAIN name |-> IF name[i] \in DOMAIN Capitals THEN Capitals[name[i]] ELSE name[i]]

\* A faulty variant: nothing between the database and the collection.
NoSeparator(db, coll) == ToLower(Sanitize(<<"tm_doc", Underscore>> \o db \o coll))

\* The table of collection coll of database db.
PhysicalTableName(db, coll) ==
  LET whole == <<"tm_doc", Underscore>> \o db \o <<Underscore>> \o coll
      base == TrimUnderscores(Sanitize(whole))
  IN  IF base \in {<<>>, <<"tm_doc">>} THEN <<"tm_doc", Underscore, "collection">>
                                      ELSE ToLower(base)

\* A name whose characters are not all replaced or trimmed away.
Plain(name) == \E i \in DOMAIN name : name[i] \in SafeChars \ {Underscore}

\* The characters a table name takes over as they are, and the names that become
\* no other collection's table: no underscore in the database, none at the end.
Letters == SafeChars \ ({Underscore, "tm_doc"} \cup DOMAIN Capitals)
Proper(db, coll) ==
  /\ Range(db) \subseteq Letters /\ Range(coll) \subseteq Letters \cup {Underscore}
  /\ coll # <<>> /\ coll[Len(coll)] # Underscore

\* A faulty variant: the pattern without its percent sign.
LikeWithoutPercent(table, db) ==
  LET pattern == Append(PhysicalTableName(db, <<>>), Underscore)
  IN  /\ Len(table) = Len(pattern)
      /\ \A i \in DOMAIN pattern : pattern[i] \in {Underscore, table[i]}

\* SHOW TABLES LIKE (prefix of db followed by "_%"): every underscore of the
\* pattern, those of the prefix included, stands for any one character.
LikeDatabase(table, db) ==
  LET pattern == Append(PhysicalTableName(db, <<>>), Underscore)
  IN  /\ Len(table) >= Len(pattern)
      /\ \A i \in DOMAIN pattern : pattern[i] \in {Underscore, table[i]}
=============================================================================
