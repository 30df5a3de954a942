------------------------------- MODULE Server -------------------------------
(***************************************************************************)
(* The timongo-server process: its main goroutine (cmd/timongo/main.go),   *)
(* the MongoDB wire server (internal/wire/server.go) with a goroutine for  *)
(* each connection, the HTTP status server (internal/status/server.go).    *)
(*                                                                         *)
(* What a command does to the data is the matter of TiDBStore; here it     *)
(* takes effect or not.  TCP and systemd are modelled from how the code    *)
(* uses them: the kernel queues connections on an open listener, requests  *)
(* are read in the order sent, and the process is always restarted.        *)
(***************************************************************************)
EXTENDS Integers, Sequences, FiniteSets

CONSTANTS Client,       \* client connections
          Requests,     \* for each of them the requests it may send, in order
          Statements,   \* number of DDL statements of the catalog's bootstrap
          MaxRestarts   \* bound: restarts of the process

\* body is what serveConn switches on, "other" any opcode it does not know;
\* usesStore is FALSE for hello, ping and their like.
Request == [id : Nat, body : {"msg", "query", "other"}, usesStore : BOOLEAN]

ASSUME RequestsAssumption == Requests \in [Client -> Seq(Request)]
ASSUME BoundsAssumption == Statements \in Nat \ {0} /\ MaxRestarts \in Nat

VARIABLES server,    \* the process
          schema,    \* bootstrap statements TiDB has executed, for any process
          conn,      \* for each connection what client and server know of it
          restarts

vars == << server, schema, conn, restarts >>

\* boot: bootstrap statements this process has executed; ready: the last
\* answer of GET /ready.
Process ==
  [main : {"bootstrap", "notify", "status", "listen", "accept", "close", "return", "exited"},
   boot : 0..Statements,
   store : {"closed", "open"},
   listener : {"none", "open", "closed"},
   status : {"none", "starting", "open", "closed"},
   signalled : BOOLEAN,
   ready : {"unknown", "yes", "no"}]

Response == [requestID : Nat, responseTo : Nat, ok : BOOLEAN]

\* state: where the connection is; sent and read: requests the client has sent
\* and serveConn has read; resp: what serveConn does, with the reply's ok when
\* it is about to write one; executed: the requests that took effect.
Connection ==
  [state : {"none", "queued", "open", "hungup", "closed"},
   sent : Nat, read : Nat,
   resp : {"none", "handling", "ok", "error"},
   received : Seq(Response),
   executed : SUBSET Nat]

TypeOK ==
  /\ server \in Process
  /\ schema \in 0..Statements
  /\ conn \in [Client -> Connection]
  /\ \A c \in Client : conn[c].read <= conn[c].sent /\ conn[c].sent <= Len(Requests[c])
  /\ restarts \in 0..MaxRestarts

NewProcess ==
  [main |-> "bootstrap", boot |-> 0, store |-> "closed", listener |-> "none",
   status |-> "none", signalled |-> FALSE, ready |-> "unknown"]

NewConnection ==
  [state |-> "none", sent |-> 0, read |-> 0, resp |-> "none",
   received |-> <<>>, executed |-> {}]

Init ==
  /\ server = NewProcess
  /\ schema = 0
  /\ conn = [c \in Client |-> NewConnection]
  /\ restarts = 0

-----------------------------------------------------------------------------
(* The main goroutine. *)
Main(from, to) == server.main = from /\ server' = [server EXCEPT !.main = to]

\* The process ends: the kernel closes its ports and connections.
Exit ==
  /\ server' = [NewProcess EXCEPT !.main = "exited"]
  /\ conn' = [c \in Client |->
                IF conn[c].state = "none" THEN conn[c]
                ELSE [conn[c] EXCEPT !.state = "closed", !.resp = "none"]]
  /\ UNCHANGED << schema, restarts >>

\* buildStore: ping TiDB, then the idempotent DDL of the catalog in order.
Bootstrap ==
  /\ server.main = "bootstrap" /\ server.boot < Statements
  /\ server' = [server EXCEPT !.boot = @ + 1]
  /\ schema' = IF server.boot < schema THEN schema ELSE server.boot + 1
  /\ UNCHANGED << conn, restarts >>

\* A faulty variant: the store is used as soon as TiDB answers the ping.
StoreAfterPing ==
  /\ server.main = "bootstrap"
  /\ server' = [server EXCEPT !.main = "notify", !.store = "open"]
  /\ UNCHANGED << schema, conn, restarts >>

StoreBuilt ==
  /\ server.main = "bootstrap" /\ server.boot = Statements
  /\ server' = [server EXCEPT !.main = "notify", !.store = "open"]
  /\ UNCHANGED << schema, conn, restarts >>

\* buildStore returns an error: log.Fatal.
BuildStoreFails == server.main = "bootstrap" /\ Exit

NotifyContext == Main("notify", "status") /\ UNCHANGED << schema, conn, restarts >>

StartStatusServer ==
  /\ server.main = "status"
  /\ server' = [server EXCEPT !.main = "listen", !.status = "starting"]
  /\ UNCHANGED << schema, conn, restarts >>

Listen ==
  /\ \/ /\ server.main = "listen"
        /\ server' = [server EXCEPT !.main = "accept", !.listener = "open"]
     \/ Main("listen", "close")
  /\ UNCHANGED << schema, conn, restarts >>

\* A connection is accepted, and go s.serveConn started for it.
Accept(c) ==
  /\ server.main = "accept" /\ server.listener = "open"
  /\ conn[c].state = "queued"
  /\ conn' = [conn EXCEPT ![c].state = "open"]
  /\ UNCHANGED << server, schema, restarts >>

\* A closed port: the kernel resets the connections still queued.
Reset == [c \in Client |-> IF conn[c].state = "queued"
                           THEN [conn[c] EXCEPT !.state = "closed"] ELSE conn[c]]

\* A faulty variant: every error of Accept is taken for a temporary one.
AcceptAgain ==
  /\ server.main = "accept"
  /\ UNCHANGED vars

\* Accept returns an error: after a signal because the port was closed, but
\* any other error, a temporary one included, ends the server as well.
AcceptFails ==
  /\ Main("accept", "close")
  /\ conn' = conn
  /\ UNCHANGED << schema, restarts >>

\* Deferred calls: ln.Close, then stop, then closeStore.
Close ==
  /\ server.main = "close"
  /\ server' = [server EXCEPT !.main = "return", !.store = "closed",
                              !.listener = IF @ = "none" THEN @ ELSE "closed"]
  /\ conn' = Reset
  /\ UNCHANGED << schema, restarts >>

Return == server.main = "return" /\ Exit

-----------------------------------------------------------------------------
(* Signals, and the goroutines that wait for the context. *)

\* Before NotifyContext and after stop a signal kills the process.
Signal ==
  \/ server.main \in {"bootstrap", "notify", "return"} /\ Exit
  \/ /\ server.main \in {"status", "listen", "accept", "close"} /\ ~server.signalled
     /\ server' = [server EXCEPT !.signalled = TRUE]
     /\ UNCHANGED << schema, conn, restarts >>

CloseListener ==
  /\ server.signalled /\ server.listener = "open"
  /\ server' = [server EXCEPT !.listener = "closed"]
  /\ conn' = Reset
  /\ UNCHANGED << schema, restarts >>

\* The status server gets its port, or logs that it did not and is gone.
StatusListen ==
  /\ server.status = "starting"
  /\ \E s \in {"open", "closed"} : server' = [server EXCEPT !.status = s]
  /\ UNCHANGED << schema, conn, restarts >>

StatusShutdown ==
  /\ server.signalled /\ server.status \in {"starting", "open"}
  /\ server' = [server EXCEPT !.status = "closed"]
  /\ UNCHANGED << schema, conn, restarts >>

\* GET /ready pings TiDB.
Ready ==
  /\ server.status = "open"
  /\ \E answer \in {"yes", "no"} :
       /\ answer = "yes" => server.store = "open"
       /\ server' = [server EXCEPT !.ready = answer]
  /\ UNCHANGED << schema, conn, restarts >>

-----------------------------------------------------------------------------
(* serveConn. *)
Serving(c, resp) == conn[c].state \in {"open", "hungup"} /\ conn[c].resp = resp

\* The request in hand, or the next one when there is none.
Current(c) == Requests[c][conn[c].read]
NextRequest(c) == Requests[c][conn[c].read + 1]

\* A faulty variant: a message of an unknown opcode is skipped.
SkipUnknown(c) ==
  /\ Serving(c, "none") /\ conn[c].read < conn[c].sent
  /\ conn' = [conn EXCEPT ![c].read = @ + 1,
                          ![c].resp = IF NextRequest(c).body = "other" THEN @ ELSE "handling"]
  /\ UNCHANGED << server, schema, restarts >>

\* A faulty variant: a read that returned no message is handled like one.
ReadNothing(c) ==
  /\ Serving(c, "none") /\ conn[c].read < Len(Requests[c])
  /\ conn' = [conn EXCEPT ![c].read = @ + 1, ![c].resp = "handling"]
  /\ UNCHANGED << server, schema, restarts >>

\* ReadMessage; serveConn gives up the connection on a message of an opcode it
\* does not know.
ReadMessage(c) ==
  /\ Serving(c, "none") /\ conn[c].read < conn[c].sent
  /\ conn' = [conn EXCEPT ![c].read = @ + 1,
                          ![c].state = IF NextRequest(c).body = "other" THEN "closed" ELSE @,
                          ![c].resp = IF NextRequest(c).body = "other" THEN @ ELSE "handling"]
  /\ UNCHANGED << server, schema, restarts >>

\* The client has gone: nothing more to read, or a reset overtakes its requests.
ReadFails(c) ==
  /\ Serving(c, "none") /\ conn[c].state = "hungup"
  /\ conn' = [conn EXCEPT ![c].state = "closed"]
  /\ UNCHANGED << server, schema, restarts >>

\* A faulty variant: errors of the store are answered with ok.
SwallowErrors(c) ==
  /\ Serving(c, "handling")
  /\ \E effect \in BOOLEAN :
       /\ effect => Current(c).usesStore /\ server.store = "open"
       /\ conn' = [conn EXCEPT ![c].resp = "ok",
                               ![c].executed = IF effect THEN @ \cup {conn[c].read} ELSE @]
  /\ UNCHANGED << server, schema, restarts >>

\* HandleOpMsg, HandleOpQuery.  A command may take effect and fail, on a later
\* statement or because its response cannot be encoded; once the context is
\* cancelled or the pool closed every statement fails.
Handle(c) ==
  /\ Serving(c, "handling")
  /\ \E ok, effect \in BOOLEAN :
       /\ effect => Current(c).usesStore /\ server.store = "open"
       /\ ok /\ Current(c).usesStore => effect /\ ~server.signalled
       /\ conn' = [conn EXCEPT ![c].resp = IF ok THEN "ok" ELSE "error",
                               ![c].executed = IF effect THEN @ \cup {conn[c].read} ELSE @]
  /\ UNCHANGED << server, schema, restarts >>

\* A handler panics, and nothing recovers: the whole process dies.
HandlerPanics(c) == Serving(c, "handling") /\ Exit

\* A faulty variant: the header of the last message that arrived.
LastHeader(c) ==
  LET id == Requests[c][conn[c].sent].id
  IN  [requestID |-> id + 1, responseTo |-> id, ok |-> conn[c].resp = "ok"]

ResponseHeader(c) ==
  LET id == Current(c).id
  IN  [requestID |-> id + 1, responseTo |-> id, ok |-> conn[c].resp = "ok"]

\* WriteMessage and Flush; once the client is gone a write is lost or fails.
WriteMessage(c) ==
  /\ Serving(c, "ok") \/ Serving(c, "error")
  /\ \/ /\ conn[c].state = "open"
        /\ conn' = [conn EXCEPT ![c].resp = "none",
                                ![c].received = Append(@, ResponseHeader(c))]
     \/ /\ conn[c].state = "hungup"
        /\ \E s \in {"hungup", "closed"} :
             conn' = [conn EXCEPT ![c].resp = "none", ![c].state = s]
  /\ UNCHANGED << server, schema, restarts >>

-----------------------------------------------------------------------------
(* The environment. *)
Connect(c) ==
  /\ server.listener = "open" /\ conn[c].state = "none"
  /\ conn' = [conn EXCEPT ![c].state = "queued"]
  /\ UNCHANGED << server, schema, restarts >>

\* A client need not wait for the reply to its last request.
Send(c) ==
  /\ conn[c].state \in {"queued", "open"} /\ conn[c].sent < Len(Requests[c])
  /\ conn' = [conn EXCEPT ![c].sent = @ + 1]
  /\ UNCHANGED << server, schema, restarts >>

HangUp(c) ==
  /\ conn[c].state = "open"
  /\ conn' = [conn EXCEPT ![c].state = "hungup"]
  /\ UNCHANGED << server, schema, restarts >>

\* Restart=always
Restart ==
  /\ server.main = "exited" /\ restarts < MaxRestarts
  /\ server' = NewProcess
  /\ restarts' = restarts + 1
  /\ UNCHANGED << schema, conn >>

Stopped == server.main = "exited" /\ restarts = MaxRestarts /\ UNCHANGED vars

-----------------------------------------------------------------------------
MainStep ==
  \/ Bootstrap \/ StoreBuilt \/ NotifyContext \/ StartStatusServer \/ Listen \/ Close \/ Return
  \/ server.listener = "closed" /\ AcceptFails

StatusStep == StatusListen \/ StatusShutdown

ConnStep(c) ==
  \/ Accept(c) \/ ReadMessage(c) \/ ReadFails(c) \/ Handle(c) \/ WriteMessage(c)

Next ==
  \/ MainStep \/ StatusStep \/ CloseListener \/ Ready
  \/ BuildStoreFails \/ AcceptFails \/ Signal \/ Restart \/ Stopped
  \/ \E c \in Client : ConnStep(c) \/ HandlerPanics(c) \/ Connect(c) \/ Send(c) \/ HangUp(c)

\* Goroutines run, and TiDB answers; no signal, client or failure has to come.
Fairness ==
  /\ WF_vars(MainStep) /\ WF_vars(StatusStep) /\ WF_vars(CloseListener)
  /\ \A c \in Client : WF_vars(ConnStep(c))

Spec == Init /\ [][Next]_vars /\ Fairness

-----------------------------------------------------------------------------
(* Properties. *)

\* A client that pipelines its requests gets their replies in the order in
\* which it sent them, one for each, with the id of the request it answers
\* (wire/server.go:55-100).
RepliesInOrder ==
  \A c \in Client : \A i \in DOMAIN conn[c].received :
    conn[c].received[i].responseTo = Requests[c][i].id

\* A command that was answered with ok has taken effect, and no request takes
\* effect before the one in front of it is answered, whatever signals, errors
\* and hang-ups come in between (wire/server.go:55-90, main.go:43-75).
OkMeansExecuted ==
  \A c \in Client : \A i \in DOMAIN Requests[c] :
    /\ i \in DOMAIN conn[c].received /\ conn[c].received[i].ok /\ Requests[c][i].usesStore
         => i \in conn[c].executed
    /\ i \in conn[c].executed /\ conn[c].state = "open"
         => i <= Len(conn[c].received) + 1

\* Every request is answered or its connection ends, also when the server is
\* stopped before it has accepted the connection (wire/server.go:36-46, 55-90).
AnsweredOrClosed ==
  \A c \in Client : \A i \in DOMAIN Requests[c] :
    conn[c].sent >= i
      ~> Len(conn[c].received) >= i \/ conn[c].state \in {"hungup", "closed"}

\* Whenever the signal comes, between the start of the status server and that
\* of the wire server included, the process exits (main.go:55-75,
\* wire/server.go:24-47).
ShutdownCompletes == server.signalled ~> server.main = "exited"

\* /ready answers yes only once all of the metadata schema exists, however
\* often an earlier bootstrap was cut short (main.go:49-66, catalog.go:27-34;
\* docs/timongo-product-design.md:595 asks for it).
ReadyAfterBootstrap == server.ready = "yes" => schema = Statements
=============================================================================
