----------------------------- MODULE MCConflicts -----------------------------
(***************************************************************************)
(* Two clients whose commands get between each other's statements.  Each   *)
(* run of this module takes one of the menus below and checks one promise  *)
(* of the documentation, which the code does not keep.                     *)
(***************************************************************************)
EXTENDS TiDBStore, TLC

CONSTANTS client1, client2

MCConn == {client1, client2}

\* Two databases, of which the pattern for the first also selects the second:
\* tm_doc_a_% matches tm_doc_ab_c.
Orders == [db |-> <<"a">>, coll |-> <<"c">>]
Foreign == [db |-> <<"a", "b">>, coll |-> <<"c">>]
MCNamespace == {Orders, Foreign}

X == [id |-> "x", val |-> 1]
X2 == [id |-> "x", val |-> 2]
MCLoaded == Orders :> {X} @@ Foreign :> {X}

\* One client updates the document the other one deletes.
DeleteMenu == {
  client1 :> {[kind |-> "update", tag |-> 1, ns |-> Orders,
               updates |-> << [matches |-> {X}, apply |-> [d \in Doc |-> {X2}],
                               multi |-> FALSE, upsert |-> {}] >>]}
  @@ client2 :> {[kind |-> "delete", tag |-> 2, ns |-> Orders,
                  deletes |-> << [matches |-> AnyDoc, multi |-> TRUE] >>]} }

\* One client creates the collection with a validator, the other one inserts.
ValidatorMenu == {
  client1 :> {[kind |-> "create", tag |-> 1, ns |-> Orders, validator |-> {X}]}
  @@ client2 :> {[kind |-> "insert", tag |-> 2, ns |-> Orders, docs |-> << X >>]} }

\* One client sends two updates in one command; the operator of the second is
\* one that ApplyUpdate does not support.
Y == [id |-> "y", val |-> 1]
PartialLoaded == Orders :> {X, Y}
PartialMenu == {
  client1 :> {[kind |-> "update", tag |-> 1, ns |-> Orders,
               updates |-> << [matches |-> {X}, apply |-> [d \in Doc |-> {X2}],
                               multi |-> FALSE, upsert |-> {}],
                              [matches |-> {Y}, apply |-> [d \in Doc |-> {}],
                               multi |-> FALSE, upsert |-> {}] >>]}
  @@ client2 :> {} }

\* One client drops its database.
DropMenu == {
  client1 :> {[kind |-> "dropDatabase", tag |-> 1, db |-> Orders.db]}
  @@ client2 :> {} }

\* "Delete deletes matching documents": once it is acknowledged, and with no
\* insert or upsert around, no document is there (store.go:307-335).
DeletedStaysDeleted ==
  \A m \in acked : m.kind = "delete" => rows[TableOf[m.ns]] = {}

\* "Collection metadata and validators are persisted": the validator of an
\* acknowledged create stays in the catalog (store.go:53-79).
ValidatorPersists ==
  \A m \in acked : m.kind = "create" => catalog[m.ns].validator = m.validator

\* "One SQL transaction per MongoDB write command": an update answered with an
\* error has written nothing (store.go:256-305).
UpdateIsAllOrNothing ==
  \A c \in Conn : reply[c].to # Idle /\ ~reply[c].ok
                    => rows[TableOf[Orders]] = Loaded[Orders]

\* "DropDatabase removes all collection tables and catalog rows for a MongoDB
\* database": it leaves the documents of the others alone (store.go:447-479).
OtherDatabasesUntouched == rows[TableOf[Foreign]] = Loaded[Foreign]
=============================================================================
