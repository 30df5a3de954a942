------------------------------ MODULE MCClients ------------------------------
(***************************************************************************)
(* Concurrent clients, in one of three scenarios.                          *)
(*                                                                         *)
(* Batches: two clients insert into one collection, taking the same keys   *)
(* in opposite orders; one batch is sent twice, and a validator created    *)
(* meanwhile refuses the second document of the last.                      *)
(*                                                                         *)
(* Drops: one client inserts into a collection, one drops it and one reads *)
(* it.                                                                     *)
(*                                                                         *)
(* Writes: one client sends two updates in one command, the second of      *)
(* which changes _ids, the other one deletes the same documents.           *)
(***************************************************************************)
EXTENDS StoreRefinement, TLC

CONSTANTS client1, client2, client3

Orders == [db |-> <<"a">>, coll |-> <<"b">>]
Sales == [db |-> <<"b">>, coll |-> <<"a">>]
Jobs == [db |-> <<"b">>, coll |-> <<"c">>]
MCNamespace == {Orders, Sales, Jobs}
MCConn == {client1, client2, client3}

D(id, val) == [id |-> id, val |-> val]
MCLoaded == Orders :> {D("x", 1), D("y", 1)}

Batch(tag, ns, docs) == [kind |-> "insert", tag |-> tag, ns |-> ns, docs |-> docs]
FirstBatch == << D("x", 1), D("y", 1) >>

BatchesMenu ==
  client1 :> {Batch(1, Sales, FirstBatch), Batch(2, Sales, FirstBatch)}
  @@ client2 :> {Batch(3, Sales, << D("y", 2), D("x", 2) >>),
                 Batch(4, Sales, << D("z", 1), D("y", 3) >>)}
  @@ client3 :> {[kind |-> "create", tag |-> 5, ns |-> Sales,
                  validator |-> {d \in Doc : d.val < 3}]}

DropsMenu ==
  client1 :> {Batch(6, Jobs, FirstBatch)}
  @@ client2 :> {[kind |-> "drop", tag |-> 7, ns |-> Jobs]}
  @@ client3 :> {[kind |-> "find", tag |-> 8, ns |-> Jobs, filter |-> AnyDoc, limit |-> 0]}

Set(field, value) == [d \in Doc |-> {[d EXCEPT ![field] = value]}]
WritesMenu ==
  client1 :> {[kind |-> "update", tag |-> 9, ns |-> Orders,
               updates |-> << [matches |-> {D("x", 1)}, apply |-> Set("val", 2),
                               multi |-> TRUE, upsert |-> {D("z", 1)}],
                              [matches |-> AnyDoc, apply |-> Set("id", "x"),
                               multi |-> FALSE, upsert |-> {}] >>]}
  @@ client2 :> {[kind |-> "delete", tag |-> 10, ns |-> Orders,
                  deletes |-> << [matches |-> AnyDoc, multi |-> TRUE] >>]}
  @@ client3 :> {}

MCMenus == {BatchesMenu, DropsMenu, WritesMenu}
=============================================================================
