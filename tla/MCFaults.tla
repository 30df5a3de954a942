------------------------------- MODULE MCFaults -------------------------------
(***************************************************************************)
(* Statements that fail and gateways that die between any two statements   *)
(* of a command, in one of five scenarios.                                 *)
(*                                                                         *)
(* Indexes: one client creates indexes, the other one drops the            *)
(* collection, then the whole database, and creates collections again.     *)
(*                                                                         *)
(* Renames: one client renames a collection over another, renames it back  *)
(* and drops the database, in any order; the other one reads.              *)
(*                                                                         *)
(* Writes: one client updates, upserts, deletes and calls findAndModify on *)
(* a collection nobody else writes to; the other one reads.                *)
(*                                                                         *)
(* Names: one client inserts into databases b and bc, the other one drops  *)
(* them; the pattern for b selects the tables of bc as well.               *)
(*                                                                         *)
(* Validators: one client creates a collection with one validator and with *)
(* another, drops it and inserts, in any order; the other one reads.       *)
(***************************************************************************)
EXTENDS StoreRefinement, TLC

CONSTANTS client1, client2

Orders == [db |-> <<"a">>, coll |-> <<"B", "-">>]
Archive == [db |-> <<"a">>, coll |-> <<"c">>]
Jobs == [db |-> <<"b">>, coll |-> <<"c", "a">>]
Logs == [db |-> <<"b", "c">>, coll |-> <<"a">>]
Events == [db |-> <<"c">>, coll |-> <<"b">>]
MCNamespace == {Orders, Archive, Jobs, Logs, Events}
MCConn == {client1, client2}

D(id, val) == [id |-> id, val |-> val]
MCLoaded == Orders :> {D("x", 1), D("y", 2)} @@ Archive :> {D("z", 1)}

On1(kind, tag, n) == [kind |-> kind, tag |-> tag, ns |-> n]
OnDb(kind, tag) == [kind |-> kind, tag |-> tag, db |-> <<"a">>]
Reads(tag, n, limit) ==
  [kind |-> "find", tag |-> tag, ns |-> n, filter |-> AnyDoc, limit |-> limit]

-----------------------------------------------------------------------------
IndexesMenu ==
  client1 :> {On1("drop", 1, Orders), OnDb("dropDatabase", 2),
              On1("create", 3, Archive) @@ [validator |-> AnyDoc]}
  @@ client2 :> {On1("createIndexes", 4, Orders) @@ [names |-> << "i", "j" >>],
                 On1("createIndexes", 5, Archive) @@ [names |-> << "i" >>],
                 On1("listIndexes", 6, Orders)}

Rename(tag, from, to, dropTarget) ==
  On1("renameCollection", tag, from) @@ [to |-> to, dropTarget |-> dropTarget]
DropAfterRenames == OnDb("dropDatabase", 7)

RenamesMenu ==
  client1 :> {Rename(8, Orders, Archive, TRUE), Rename(9, Archive, Orders, FALSE),
              DropAfterRenames}
  @@ client2 :> {Reads(10, Archive, 0), OnDb("listCollections", 11)}

\* The same rename, sent again after its answer was lost.
RetryMenu ==
  { client1 :> {Rename(8, Orders, Archive, TRUE), Rename(9, Orders, Archive, TRUE),
                DropAfterRenames}
    @@ client2 :> {} }

\* An update that makes a document larger, as $push does: val is its size, and
\* TiDB refuses a row larger than the largest.
Grow == [d \in Doc |-> IF d.val + 1 \in Val THEN {[d EXCEPT !.val = @ + 1]} ELSE {}]
\* One that gives a document another _id.
Rekey == [d \in Doc |-> {[d EXCEPT !.id = "z"]}]
WithId(ids) == {d \in Doc : d.id \in ids}
Model(matches, apply, multi, upsert) ==
  [matches |-> matches, apply |-> apply, multi |-> multi, upsert |-> upsert]
Write(tag, models) == On1("update", tag, Orders) @@ [updates |-> models]
Modify(tag, filter, remove, models, new) ==
  On1("findAndModify", tag, Orders)
    @@ [filter |-> filter, remove |-> remove, updates |-> models, new |-> new]

WritesMenu ==
  client1 :> {Write(12, << Model(AnyDoc, Grow, TRUE, {}) >>),
              Write(13, << Model(WithId({"z"}), Grow, FALSE, {D("z", 1)}),
                           Model(WithId({"y"}), Rekey, FALSE, {}) >>),
              On1("delete", 14, Orders)
                @@ [deletes |-> << [matches |-> AnyDoc, multi |-> FALSE],
                                   [matches |-> WithId({"x"}), multi |-> TRUE] >>],
              Modify(15, WithId({"x"}), FALSE, << Model(WithId({"x"}), Grow, FALSE, {}) >>, TRUE),
              Modify(16, WithId({"y"}), TRUE, <<>>, FALSE)}
  @@ client2 :> {Reads(17, Orders, 1)}

Batch(tag, n) == On1("insert", tag, n) @@ [docs |-> << D("z", 1) >>]
DropOf(tag, n) == [kind |-> "dropDatabase", tag |-> tag, db |-> n.db]
NamesMenu ==
  client1 :> {Batch(18, Jobs), Batch(19, Logs)}
  @@ client2 :> {DropOf(20, Jobs), DropOf(21, Logs)}

InsertOf(tag, docs) == On1("insert", tag, Events) @@ [docs |-> docs]
ValidatorsMenu ==
  client1 :> {On1("create", 22, Events) @@ [validator |-> {d \in Doc : d.val = 1}],
              On1("create", 23, Events) @@ [validator |-> WithId({"x", "y"})],
              On1("drop", 24, Events),
              InsertOf(25, << D("x", 1), D("y", 2) >>), InsertOf(26, << D("z", 1) >>)}
  @@ client2 :> {Reads(27, Events, 0)}

MCMenus == {IndexesMenu, RenamesMenu, WritesMenu, NamesMenu, ValidatorsMenu}

-----------------------------------------------------------------------------
Stored(n) == rows[TableOf[n]]

\* Whatever is sent again after a fault, every document of the source of a
\* rename is in the source or in the target (handler.go:412-440).
RetriedRenameKeepsDocuments ==
  (\E c \in Conn : DropAfterRenames \in unsent[c])
    => Loaded[Orders] \subseteq Stored(Orders) \cup Stored(Archive)
=============================================================================
