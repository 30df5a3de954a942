# timongo in TLA+

timongo is a gateway that speaks the MongoDB wire protocol and keeps its data in
TiDB.  It keeps no state of its own: every command becomes a sequence of SQL
statements, most of them in an implicit transaction each, and any number of
gateways work on one database.  What can go wrong is therefore mostly what
happens *between* two statements: another client's statement, a fault, a retry.
These modules model that, what the commands make of real documents, the process
around them, and the scripts that bring the process to its hosts.  TLC checks
them on small instances, and TLAPS proves what holds for every instance.

Paths are relative to the repository's root; `store.go` is
`internal/backend/tidb/store.go`, `handler.go` is `internal/handler/handler.go`,
`mql.go` is `internal/mql/mql.go`, `main.go` is `cmd/timongo/main.go`.

## 1. The system

| Component | State | Operations | Modelled in |
|---|---|---|---|
| TiDB store (`store.go`, `schema.go`) | document tables; the catalog `_timongo.collections`, `_timongo.indexes` | CreateCollection, DropCollection, DropDatabase, Insert, Find, Count, Distinct, Aggregate, Update, Delete, CreateIndexes, ListIndexes, ListCollections | `TableNames`, `Commands`, `TiDBStore`; `SqlStore` |
| Command handlers (`handler.go`), command registry | none | one for each command; findAndModify and renameCollection combine several store operations | `Commands`; `Handler`, `Gateway` |
| Backend interface (`internal/backend/backend.go`) | none | requests, results, the interface of both stores | `Backend`, `Stores`; `DocStore` |
| Memory store (`internal/backend/memory`) | collections, indexes, options, under one mutex | the same as the TiDB store's; the handler's tests run on it | `MemoryStore`, `Gateway` |
| mql (`internal/mql`), bsonutil | none | filters, validators, find options, updates, aggregation stages, typed `_id` keys | `Bson`, `Mql`, `Updates`, `Pipeline` |
| Catalog bootstrap (`internal/catalog`) | the metadata schema | idempotent DDL, run by every process | `Server` (sequence), `TiDBStore` (tables), `Deployment` (their database) |
| Wire server (`internal/wire/server.go`) | listener, one goroutine per connection | accept, read, dispatch, reply | `Server` |
| Status server (`internal/status`) | HTTP port | `/health`, `/ready`, `/metrics` | `Server`, partly |
| Process (`main.go`) | SQL pool, signal context | serve, shutdown; tiup subcommands | `Server`; `Deployment` |
| Configuration (`internal/config`) | files on a host | load, defaults, DSN | `Deployment`, partly |
| tiup topology and rendering (`internal/tiup`, `packaging/templates`) | none | parse, split, render | `Deployment` |
| Deploy scripts (`packaging/scripts`) | the hosts' files and units | deploy-all, deploy-tidb-cluster, deploy-timongo | `Deployment` |
| packaging, mongoerrors | | | not modelled, section 7 |

How they interact: a client's connection is served by one goroutine
(`serveConn`), which handles one request after the other.  A handler calls the
store, the store calls TiDB.  Two connections share nothing but TiDB, whether
they end at the same gateway or at two; the SQL pool hands out connections
without an order that matters.  A signal cancels one context, which closes the
listener, makes every later SQL call fail and shuts the status server down;
nothing waits for handlers.  The scripts meet the gateways only in the files and
units of a host, which systemd and the next process read.

What is hard, and at which lines, is listed in `PROJECT.json` under `hazards`.
In short: read-modify-write without transactions (options, documents, rename,
findAndModify); snapshots used after they are stale; several statements of which
one fails; commands sent again after a lost answer; DDL between another client's
statements; locks taken in opposite orders; values of several types that print
alike; a test store that is not the store in service; order and liveness of
replies, of the shutdown and of restarts; scripts that are cut.

## 2. Modules

### The store, statement by statement

Documents are abstract here: a filter is the set of documents it matches, an
update a function on documents.  What is modelled is the interleaving.

* `TableNames` - how a namespace becomes a table name and what dropDatabase's
  LIKE pattern matches.
* `Commands` - documents, commands, SQL statements; for each command its
  *program*, the statements that handler and store run; the loops of Update and
  Delete as sets of writes `<<model, document>>` with their order.
* `TiDBStore` - the state in TiDB (`tables`, `rows`, `catalog`, `issued`,
  `indexes`) and that of each connection (`cmd`, `todo`, `pending`, `tx`,
  `local`).  One action is one SQL statement with the Go code up to the next:
  `EnsureTable` is `CREATE TABLE IF NOT EXISTS`, `ReadOptions`/`UpsertRow` are the
  two halves of CreateCollection, `InsertDocument`...`Commit` the transaction of
  Insert, `SelectFor...` a Find with what its caller does with the result,
  `ReplaceDocument`, `DeleteDocument` one write of a loop.  `reply`, `acked`,
  `unsent` record what clients have seen and may still send.
* `DocStore` - the abstract store: what clients may rely on.  Documents only; no
  statements, transactions or catalog.  Inserts, finds and drops take effect at
  one moment, the other commands piece by piece, and a failed command has taken
  effect up to some piece (an insert wholly or not at all).
* `StoreRefinement` - the mapping from `TiDBStore` to `DocStore`:
  `ImplementsDocStore` is `Docs!Spec` with `docs <- rows` and a command over when
  none of the statements left could change documents.

### The commands, on real documents

One client at a time; what is modelled is the data.

* `Bson` - values with a type, typed keys, equality, order and printed form as
  the Go code has them.
* `Mql` (filters, validators, find options, projections), `Updates`
  (`ApplyUpdate`), `Pipeline` (aggregation stages).  Where Go's order of map keys
  decides, the result is a set of possible results.
* `Backend` - outcomes of a store's operation: ok, error or panic, the store
  after it, the answer.
* `SqlStore`, `MemoryStore` - the two implementations; `Stores` - the interface.
* `Handler` - naming and decoding of commands and all handlers that reach a
  store.
* `Gateway` - a client, the TiDB store, and the memory store given the same
  commands.  The memory store follows as long as one of its outcomes has the
  reply and the documents of the TiDB store's outcome, and is `Apart` after that.

### The process and its deployment

* `Server` - the main goroutine (bootstrap, signals, listener, deferred calls),
  the status server, one goroutine per connection, restarts by systemd.
* `Deployment` - the scripts as a sequence of commands on hosts, each of which may
  fail or be cut; the gateways from reading their configuration to serving;
  systemd; a TiDB cluster that comes and goes.

### Instances and proofs

* `MCClients`, `MCFaults`, `MCConflicts`, `MCGateway`, `MCServer`, `MCDeployment`
  give values to the constants and state the properties that need these values.
* `CommandsProofs` (programs, sets of writes, table names), `TiDBStoreProofs`
  (types), `TablesProofs` (keys and catalog), `ProgramsProofs` (where a connection
  is in its program), `RefinementProofs` (simulation), `EffectsProofs` (what a
  command has done when it is answered), `ServerProofs`, `DeploymentProofs` -
  section 6.

Definitions called "a faulty variant" are never part of a specification: each is
what an action or operator would be with a plausible bug, and shows that a
property notices it.

### Abstractions

* `TiDBStore`: the pushdown of `_id` and LIMIT into SQL is not told apart from the
  scan in Go (`SqlStore` does that).  count, distinct and aggregate are finds with
  another reply.  Listings are represented by their number of entries.  An upsert
  whose update fails is not represented.
* Of TiDB the models assume: statements are atomic; a transaction's rows are
  invisible until commit, and their keys locked (pessimistic mode); one
  transaction of a deadlock is aborted; DROP TABLE waits for transactions that
  wrote to the table; AUTO_INCREMENT never gives an id twice; a SELECT without
  ORDER BY returns rows in any order; a connection to a database that does not
  exist is refused.
* `Abort` is any failing statement, lost answer or dying gateway: the command
  ends with an error (or no answer, which is the same to the client), its open
  transaction is rolled back, what was committed stays.
* `Bson`: numbers are small integers of three types (no fractions, NaN or
  overflow), printed forms are compared by a given order (`Texts`), regular
  expressions by a given language.  Extended JSON, written to a column no code
  reads, is left out.
* `SqlStore`, `MemoryStore`: a namespace has a table of its own; those that share
  one are the matter of `TableNames`.
* `Server`: a command takes effect or not; it may also take effect and be
  answered with an error (a later statement fails, the response cannot be
  encoded).
* `Deployment`: `tiup cluster` refuses sections it does not know and a name in
  use; a copy that is cut leaves the first keys of the configuration, and of a
  TiDB's port perhaps the first digits (a file cut within a string does not parse,
  and stands for one without a port); ssh without -n may read the rest of
  `hosts.tsv`; a binary that runs cannot be overwritten; `enable --now` leaves a
  running service with what it has read; a host has one unit, and of two servers
  on it the last is rendered.  User, password, a DSN given whole, the `[runtime]`
  keys and command line flags, which the rendered files leave out, are not
  modelled.

## 3. Runs

| Run | Checks | Instance |
|---|---|---|
| `documents` | StoresAgree, FoundByID, PagesCoverAll, GroupsPartition, UnwoundIsRegrouped, ListsStayCapped, RetryChangesNothing, DeleteIsExact | all sequences of four commands out of 31, on documents whose `_id`s and values are numbers of two types and strings that print like them |
| `clients` | TypeOK, UniqueKeys, AckedBatchStored, EveryCommandAnswered, ImplementsDocStore | three scenarios: two writers with the same keys in opposite orders and an admin who creates a validator; an insert, a drop and a find; an update of two models against a delete; one fault |
| `faults` | NoIndexAdopted, FreshCollectionHasNoIndexes, RenameKeepsDocuments, RenameIsExact, NoHiddenDocuments, DropDatabaseLeavesNothing, AckedUpdateIsExact, AckedDeleteIsExact, FindAndModifyReturnsItsWrite, InsertsAreValidated, CollectionsStayApart, ValidatorsSurvive, UpdatesKeepDocuments, ImplementsDocStore | five scenarios: createIndexes against drop, dropDatabase, create; renames there and back, dropDatabase, a reader; updates, upsert, delete and findAndModify of one writer, of one model and of two, one of which changes an `_id`, and a reader; inserts into `b.ca` and `bc.a` against dropDatabase of `b` and of `bc`; creates with two validators, drop and inserts of one writer, and a reader; one fault |
| `server` | TypeOK, RepliesInOrder, OkMeansExecuted, ReadyAfterBootstrap, AnsweredOrClosed, ShutdownCompletes | two clients, pipelining, an unknown opcode; signal, panic, hang-up and failure at every point; one restart |
| `deployment` | TypeOK, UnitsAreComplete, RunsAsDeclared, ServesInTheEnd | two hosts; any of four topologies over any other; two runs of the scripts, two faults |

Seven more runs show where the code does not do what the repository says; each
checks one property, and TLC finds it violated:

| Run | What happens |
|---|---|
| `rename_retried` | (`RetriedRenameKeepsDocuments`) a rename with dropTarget is sent again after its answer was lost; the second one finds the source empty and drops the target, with all documents |
| `delete_resurrected` | Update's REPLACE writes back a document deleted since its snapshot |
| `validator_lost` | an insert overwrites the validator of a create that came between its two catalog statements |
| `update_partial` | an update that fails at its second model has stored the first |
| `drop_foreign` | dropDatabase of `a` also drops the tables of `ab`: `_` is a wildcard in LIKE |
| `ready_early` | `/ready` answers yes before the MongoDB port is open |
| `first_start` | on a new TiDB cluster the gateway never serves: its DSN selects the database that only its own bootstrap would create |

The lines of the repository that promise otherwise are quoted in `PROJECT.json`
under `findings`.

### Bounds

* `Menus` bounds what clients send: each command at most once (a repeated command
  is a second one with another `tag`), in any order, or never.  Two or three
  connections are enough: every hazard of the list involves one command cut by a
  fault, or one command between two statements of another.  The scenarios of a
  run are alternatives, one per behaviour, to keep unrelated commands apart.
* `MaxFaults = 1` (store): a second fault ends a second command in the same way; a
  command run again after a fault is already in the instance.
* Two or three `_id`s and up to three values make a batch of two, a stranger, and
  a value the validator refuses.  Names have two or three characters, including a
  capital, a dash and the underscore they map to.
* `MaxCommands = 4`: enough for two documents, a change and a retry, or a rename
  there and back over what an insert left.
* `Server`: `Statements = 2` is the least number of bootstrap statements that can
  be cut in the middle (the code has twelve); `MaxRestarts = 1`.
* `Deployment`: `MaxRuns = 2`, one deployment over another; `MaxFaults = 2`, a
  script that is cut and a gateway or TiDB that fails meanwhile.  The topologies
  are a gateway on each host, two on one host with other ports, a server without
  a TiDB, and a user who cannot read the files.

### Fairness

`TiDBStore` assumes weak fairness of each connection's `Step`: its goroutine runs
and TiDB answers every statement, if only with an error.  Weak fairness is
enough: a blocked statement becomes possible and stays so when the lock is
released, and whoever waits in a cycle can always be its victim.  Nothing makes
clients send or faults happen.  `Server` assumes the same for main, the status
goroutines, the goroutine that closes the listener and each connection; nothing
assumes that a signal comes, that a client goes away or that a new process is
started.  `Deployment` assumes weak fairness of each host's gateway together with
systemd, whose `Restart=always` starts it after every exit; nobody has to run the
scripts to their end, mend TiDB or create a database.  `Gateway` and `DocStore`
state no fairness, and no liveness.

`deployment`, `first_start` and `documents` do not check for deadlock: an operator
who deployed, and a client that sent its last command, stop.

## 4. Properties, and what they are for

* **What clients see of documents.** `ImplementsDocStore`: under any interleaving
  and fault, every answer and every change of documents is one `DocStore` has.
  It contains that a batch appears whole, that a find counts one state of the
  table, that no command writes what it was not asked for, and that a failed
  insert left all or nothing.
* **Batches.** `AckedBatchStored`: an acknowledged batch stays; `UniqueKeys`:
  retries and replacements never duplicate an `_id`; `EveryCommandAnswered`: locks
  in opposite orders, drops and transactions never block for ever.
* **Catalog.** DropCollection leaves index rows behind and createIndexes uses an
  id it read before.  `NoIndexAdopted` and `FreshCollectionHasNoIndexes` say that
  this is harmless, and the mutants show that it is so only because AUTO_INCREMENT
  ids are never reused.
* **Validators.** Every insert, update and createIndexes reads the options of the
  collection and writes them back, and an insert reads the validator before its
  transaction begins.  With two writers of the catalog row a validator is lost (the
  run `validator_lost`); with one, `ValidatorsSurvive` says that it changes only by
  create and drop, and `InsertsAreValidated` that a batch is checked against the
  validator the collection has at the COMMIT.
* **Rename and drop.** The order of the statements matters at every fault:
  `RenameKeepsDocuments`, `RenameIsExact`, `NoHiddenDocuments`,
  `DropDatabaseLeavesNothing`.
* **Writes.** `AckedUpdateIsExact`, `AckedDeleteIsExact` and
  `FindAndModifyReturnsItsWrite` compare an acknowledged command with the table,
  `UpdatesKeepDocuments` says that no step of an update removes an `_id`.
* **Names.** Distinct namespaces may get one table.  `CollectionsStayApart` says for
  which names it does not happen (`Proper`: lower-case letters and digits, and
  underscores within the collection's name): rows of such a collection's table
  change only in a step of a command about it (`About`).  About it is also a
  dropDatabase of a database whose name the collection's database begins with, as
  the run `drop_foreign` shows, and a command on a name that is not proper.
* **Their premises.** The code guarantees these things only to a command that
  nobody disturbs; with concurrent writers it does not (hazards, and the runs of
  `MCConflicts`).  The properties say so in terms of the menus, and then hold for
  every menu.  `Clobbered` are the tables some client may take documents from, and
  `Writers[t]` the clients that may write to table `t`.  A batch stays in a table
  that is not clobbered.  A rename is exact if nobody else writes to its two tables
  and these are two; an update, a delete or a findAndModify, if nobody else writes
  to its table.  A model of an update must also make one version of a document, and
  not change `_id`s if it may change several documents (`MakesOne`): then the order
  of its writes, which Go leaves to the scan, does not matter.  The number of models
  is free.  They share a snapshot, so `IsUpdated` lets the last version under each
  `_id` win, and counts per model.  A dropDatabase leaves nothing if no other client
  registers collections or writes documents of the database (`DropsAlone`).  A
  validator is kept, and a batch checked, if one client has commands that write the
  catalog row (`Registrars`).  A
  table's documents are registered if it has one writer.  The last two also ask
  for `Plain` names, which have a letter or digit: the table of a collection `-` of
  database `x` is `tm_doc_x`, which the pattern of dropDatabase does not match.
  In the scenarios of `faults` and `clients` that are about these properties one
  client writes, so the premises hold; the mutants show it.
* **The two stores.** `StoresAgree` is why a test on the memory store says
  anything about TiDB: whatever the TiDB store answers and then holds, the memory
  store can answer and hold too, for the commands `Portable` admits.  `Portable`
  lists where the code differs: batches of which one document is refused, several
  models in one command, changed `_id`s, `_id`s of another type, a validator that
  is created again, indexes of one name.
* **Data.** `FoundByID` (typed keys against untyped comparison), `PagesCoverAll`
  (skip and limit over unordered scans), `RetryChangesNothing` (which commands can
  be sent again), `DeleteIsExact`, `GroupsPartition`, `UnwoundIsRegrouped`,
  `ListsStayCapped`.
* **Server.** Pipelined requests are answered in order; ok means executed; every
  request is answered or its connection ends, at every moment of a shutdown; the
  shutdown completes; `/ready` implies that the schema exists.
* **Deployment.** `UnitsAreComplete`: the order of copies makes a script safe to
  cut; `RunsAsDeclared`: half a configuration never serves with defaults in place
  of what is missing, because `[tidb]` comes after the ports and its absence is
  refused, nor with half a port, because `NewStore` pings first.  The latter needs
  `PortsApart`: the code does not notice that `port = 400` was `port = 4000` if a
  TiDB listens there; `ServesInTheEnd`: whatever failed before, a gateway whose host and TiDB
  are in order comes to serve.

## 5. What is only model-checked

* Liveness: `EveryCommandAnswered`, `AnsweredOrClosed`, `ShutdownCompletes`,
  `ServesInTheEnd`.  TLAPS proves nothing about fairness and ENABLED.
* Everything in `documents`: values are nested, so the operators on them are
  RECURSIVE, or folds over data, whose results need an induction the provers do not
  have.
* The properties of the seven runs that find violations, which are false.

Every other property of the runs is a theorem.

## 6. What is proved

For all namespaces, documents, clients, menus, initial documents and numbers of
faults, from the assumptions named in the modules, all of which TLC evaluates in
the runs: `FiniteAssumption` (finitely many documents, namespaces and index
names), `NamesAssumption` (names are sequences of characters), `MenusAssumption`,
`LoadedAssumption`, `LoadedKeysAssumption`, `FaultsAssumption`;
`RequestsAssumption`, `BoundsAssumption`; `HostsAssumption` (finitely many hosts,
servers are a list and run on hosts), `BoundAssumption`.

Types, keys and catalog:

* `TypeCorrect`: `Spec => []TypeOK`.  TypeOK is not inductive: that a REPLACE
  stores a document needs that the write `<<j, i>>` it takes points into the
  command's models and its snapshot.  `TypeInv` adds `LoopAt`: the indices of
  `pending` are within the bounds of the loop of the command at hand, an idle
  connection has neither pending writes nor a transaction.  `CommandsProofs` shows
  that programs consist of statements and that the sets of writes have such
  indices; `TiDBStoreProofs` has one lemma per action.
* `KeysAreUnique`: `Spec => []UniqueKeys`.  A commit adds a whole set of
  documents, so `KeysInv` says of an open transaction that its keys are disjoint
  from those in the table and from those of every other transaction on it: the
  locks (`LocksAt`).
* `IndexesAreOwned`, `NewCollectionsAreBare`: `IssuedInv` says that `issued` is
  the history of AUTO_INCREMENT and that each catalog row, each index row and each
  createIndexes in flight has an id that was issued to its own namespace.  Then
  an index row whose id matches a collection's was asked for by its name, and a
  new id occurs nowhere.
* `UpdatesLoseNoDocument`: `Spec => UpdatesKeepDocuments`.  `KeysStay`: every action
  but a drop and a delete keeps the `_id`s of every table; a REPLACE writes another
  document with the key of its own.

Refinement:

* `StoreImplementsDocStore`: `Spec => ImplementsDocStore`, the refinement.  The
  invariant is `TypeInv /\ KeysInv /\ FitsInv /\ ShapeInv`.  `FitsInv`: the
  statements a connection has left fit its command; in particular it drops only
  tables its command may drop.  `ShapeInv`: where in their programs insert, find
  and drop are, and that loops write only what the command's models match; this
  decides when a command is over.  The locks of `KeysInv` make a COMMIT an
  `InsertBatch` of `DocStore` whose keys are fresh.  Every action is then shown to
  be a step of `DocStore` on the mapped variables, or to leave them all unchanged.
  `ProgramsProofs` holds the invariants of programs, `RefinementProofs` the
  simulation.

What a command has done when it is answered (`EffectsProofs`).  Each of these
invariants says where the connection is in its program and what the table holds
there; the premises of section 4 keep it while the others move:

* `BatchesAreStored`: `Spec => []AckedBatchStored`.  `StoredInv` adds the insert that
  has committed and is not yet answered.
* `RenamesKeepDocuments`, `RenamesAreExact`.  `RenameInv`: a rename is before its
  find (`Reading`), or what it has left is a suffix of the plan `AfterRead` makes of
  the documents found (`Copying`), and the length of the suffix decides what
  source and target hold (`Moved`).  `SentInv`: a client sends only what some menu
  has for it.
* `DeletesAreExact`, `UpdatesAreExact`, `ModifiesReturnTheirWrites`.  `LoopsInv`
  relates a loop to its snapshot: what the table holds is what the writes done so
  far make of the documents found, whatever their order (`Deleted`, `Updated`).  A
  findAndModify goes through find, write and find again (`Before`, `Removing`,
  `Replacing`), each with the value it will return.  With several models two writes
  may have one `_id`; `Updated` therefore says that writes are done model by model
  and that the table holds the `Last` version under each `_id`, and `Kept` the
  documents no version replaced.  In `UpdateIsDone` the order within a model is
  forgotten: `MakesOne` gives different writes of a model different `_id`s
  (`VersionsDiffer`).  The number reported is the cardinality of the set of writes,
  and `OneEach` maps these one to one to the versions, or the deleted documents,
  that each model makes.
* `NoDocumentIsHidden`: `Spec => []NoHiddenDocuments`.  `HiddenInv` says that documents
  are in tables that exist (`PlacedInv`), and of what each connection has left:
  catalog rows are deleted right after their table is dropped (`Tidy`), a batch is
  pending only before its COMMIT (`BatchAt`), a collection is registered, or will be
  before documents are stored (`RegisteredAt`), the table is empty when its row is
  deleted (`ClearedAt`), and a dropDatabase drops every table that still holds
  documents (`SweptAt`).  Then no row that is deleted belonged to documents.
* `DroppedDatabasesAreEmpty`: `Spec => []DropDatabaseLeavesNothing`, from the same
  invariant and `DroppedInv`: dropDatabase ends with the deletion of the catalog
  rows, and until then what it has left drops the tables of the database
  (`DroppedAt`); all clients follow one menu (`MenuInv`), so nobody fills them
  again.  What this needs of names is `PlainNamesAreSelected` (`CommandsProofs`):
  sanitizing, trimming and lower-casing keep the database's part of a plain
  collection's table, and the LIKE pattern matches it, wherever the trimming ends.
* `CollectionsAreApart`: `Spec => CollectionsStayApart`.  By `FitsInv` a statement
  writes only to the tables of its command's collections, or to those that a
  dropDatabase found with its pattern (`RowsNamed`).  The rest is about names:
  `ProperNamesApart` (the table of a proper name is its spelling, and the first
  underscore after the prefix ends the database, so the spelling has one reading)
  and `DropsPrefixed` (a pattern without underscores of its own, except the two of
  the code, selects a proper table only if the database's name begins it).

* `ValidatorsAreKept`, `InsertsObeyValidators`: `Spec => ValidatorsSurvive` and
  `Spec => []InsertsAreValidated`, for any commands.  `ValidatorInv` says that in what
  a connection has left every upsert of a row follows the read of its options and
  every COMMIT the read of the target's validator (`Linked`), and that what was read
  is still the row's when this statement is next (`KnownAt`): only a client with a
  command for the row writes it (`RowWriter`).

Process and deployment:

* `ServerTyping`: `Server`'s TypeOK, with the parts of `ServerInv` that bound the
  requests in hand.
* `RepliesAreInOrder`, `OkIsExecuted`, `ReadyIsAfterBootstrap`: `ServerInv` relates,
  for each connection, what was read to what was answered and to the request in
  hand (`GoodConn`), and for the process the SQL pool to the bootstrap
  (`ProcessInv`).
* `UnitsHaveFiles`: `Spec => []UnitsAreComplete` for any hosts, topologies, runs
  and faults.  A unit is installed several commands after the files were copied,
  and in between another topology may have been deployed; `CopiedInv` says which
  files earlier commands of the script copied to the directory of the host in
  hand, and nothing removes a file.
* `DeploymentTyping`: `Deployment`'s TypeOK.
* `GatewaysRunAsDeclared`: `Spec => []RunsAsDeclared`.  `RunsInv` adds to the above
  that every file is the start of a configuration some topology declares for its
  host (`FilesInv`), what a process has read of it (`ProcessInv`), and that a process
  past its ping found a TiDB of some topology there (`TiDBInv`; addresses of TiDB are
  never taken back).  A process that serves read where its TiDB is, and the ports
  come before that in the file; by `PortsApart` no TiDB answers at half a port.

## 7. Not modelled, and the plan

Not modelled: `internal/packaging` (lists of names in a bundle), `mongoerrors`
(error values; the models tell ok from error), `/health` and `/metrics`
(constants), command line flags, the flag moreToCome, TiDB's limit of 64
characters for table names, commands with a constant reply other than as commands
that do not use the store.

What the models follow without stating a property, because nothing in the
repository promises otherwise, has a note in `hazards`: the tables of names that
are not proper, updates past the validator, findAndModify by two workers, a rename
with a concurrent writer.

What is left, in this order:

1. Lemmas about the parts of `Mql` and `Pipeline` that recurse neither over values
   nor over data (skip and limit, typed keys), once they are apart from the
   RECURSIVE ones.
2. `Server` with moreToCome, and composed with `DocStore`: what a client sees that
   reconnects and retries.
