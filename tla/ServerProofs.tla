---------------------------- MODULE ServerProofs ----------------------------
(***************************************************************************)
(* Proofs about the timongo-server process, for any number of connections, *)
(* requests, bootstrap statements and restarts.                            *)
(***************************************************************************)
EXTENDS Server, TLAPS

(* What is known of the process: the pool is open only after the whole of  *)
(* the bootstrap, and /ready says yes only while or after it was.          *)
ProcessInv ==
  /\ server \in Process
  /\ schema \in 0..Statements
  /\ restarts \in 0..MaxRestarts
  /\ server.boot <= schema
  /\ server.store = "open" => server.boot = Statements
  /\ server.ready = "yes" => schema = Statements

(* What is known of a connection k with requests r: on an open one every   *)
(* request read was answered, but for the one in hand; what serveConn is   *)
(* about to answer, or has answered, with ok took effect.                  *)
GoodConn(k, r) ==
  /\ k \in Connection
  /\ k.read <= k.sent /\ k.sent <= Len(r)
  /\ k.state \in {"none", "queued"} => k.read = 0 /\ k.resp = "none"
  /\ k.resp # "none" => k.read > 0
  /\ Len(k.received) <= k.read
  /\ k.state = "open" /\ k.resp = "none" => k.read = Len(k.received)
  /\ k.state = "open" /\ k.resp # "none" => k.read = Len(k.received) + 1
  /\ k.executed \subseteq 1..k.read
  /\ k.resp = "ok" /\ r[k.read].usesStore => k.read \in k.executed
  /\ \A i \in DOMAIN k.received :
       /\ k.received[i].responseTo = r[i].id
       /\ k.received[i].ok /\ r[i].usesStore => i \in k.executed

ConnInv == conn \in [Client -> Connection] /\ \A c \in Client : GoodConn(conn[c], Requests[c])

ServerInv == ProcessInv /\ ConnInv

-----------------------------------------------------------------------------
LEMMA ServerInit == Init => ServerInv
BY RequestsAssumption, BoundsAssumption
   DEF Init, ServerInv, ProcessInv, ConnInv, GoodConn, NewProcess, NewConnection,
       Process, Connection, Request

(* A step of one connection keeps the invariant if its new state is good. *)
LEMMA OneConnection ==
  ASSUME ConnInv, NEW c \in Client, NEW k, GoodConn(k, Requests[c]),
         conn' = [conn EXCEPT ![c] = k]
  PROVE  ConnInv'
BY DEF ConnInv, GoodConn

LEMMA ClosedIsGood ==
  ASSUME NEW k, NEW r \in Seq(Request), GoodConn(k, r)
  PROVE  /\ GoodConn([k EXCEPT !.state = "closed"], r)
         /\ GoodConn([k EXCEPT !.state = "closed", !.resp = "none"], r)
<1> DEFINE a == [k EXCEPT !.state = "closed"]
           b == [k EXCEPT !.state = "closed", !.resp = "none"]
<1>1. k \in Connection
  BY DEF GoodConn
<1>2. /\ a \in Connection /\ a.state = "closed" /\ a.sent = k.sent /\ a.read = k.read
      /\ a.resp = k.resp /\ a.received = k.received /\ a.executed = k.executed
  BY <1>1 DEF Connection
<1>3. /\ b \in Connection /\ b.state = "closed" /\ b.sent = k.sent /\ b.read = k.read
      /\ b.resp = "none" /\ b.received = k.received /\ b.executed = k.executed
  BY <1>1 DEF Connection
<1> HIDE DEF a, b
<1>4. GoodConn(a, r)
  BY <1>2 DEF GoodConn
<1>5. GoodConn(b, r)
  BY <1>3 DEF GoodConn
<1> QED
  BY <1>4, <1>5 DEF a, b

(* The end of the process closes every connection and forgets its state. *)
LEMMA ExitKeeps == ServerInv /\ Exit => ServerInv'
<1> SUFFICES ASSUME ServerInv, Exit PROVE ServerInv'
  OBVIOUS
<1>1. ProcessInv'
  <2>1. server' = [main |-> "exited", boot |-> 0, store |-> "closed", listener |-> "none",
                   status |-> "none", signalled |-> FALSE, ready |-> "unknown"]
    BY DEF Exit, NewProcess
  <2>2. server' \in Process
    BY <2>1, BoundsAssumption DEF Process
  <2>3. server'.boot = 0 /\ server'.store = "closed" /\ server'.ready = "unknown"
    BY <2>1
  <2>4. UNCHANGED << schema, restarts >>
    BY DEF Exit
  <2> QED
    BY <2>2, <2>3, <2>4, BoundsAssumption DEF ServerInv, ProcessInv
<1>2. ASSUME NEW c \in Client PROVE conn'[c] \in Connection /\ GoodConn(conn'[c], Requests[c])
  <2>1. GoodConn(conn[c], Requests[c]) /\ Requests[c] \in Seq(Request)
    BY RequestsAssumption DEF ServerInv, ConnInv
  <2>2. GoodConn(conn'[c], Requests[c])
    BY <2>1, ClosedIsGood DEF Exit
  <2> QED
    BY <2>2 DEF GoodConn
<1>3. ConnInv'
  BY <1>2 DEF ConnInv, Exit
<1> QED
  BY <1>1, <1>3 DEF ServerInv

LEMMA ResetKeeps == ConnInv /\ conn' = Reset => ConnInv'
<1> SUFFICES ASSUME ConnInv, conn' = Reset PROVE ConnInv'
  OBVIOUS
<1>1. ASSUME NEW c \in Client PROVE conn'[c] \in Connection /\ GoodConn(conn'[c], Requests[c])
  <2>1. GoodConn(conn[c], Requests[c]) /\ Requests[c] \in Seq(Request)
    BY RequestsAssumption DEF ConnInv
  <2>2. GoodConn(conn'[c], Requests[c])
    BY <2>1, ClosedIsGood DEF Reset
  <2> QED
    BY <2>2 DEF GoodConn
<1> QED
  BY <1>1 DEF ConnInv, Reset

(* The goroutines of the process leave the connections alone, or reset the *)
(* queued ones.                                                            *)
LEMMA ProcessKeeps ==
  ASSUME ServerInv,
         \/ MainStep \/ StatusStep \/ CloseListener \/ Ready
         \/ BuildStoreFails \/ AcceptFails \/ Signal \/ Restart
  PROVE  ServerInv'
<1> USE BoundsAssumption DEF ServerInv, ProcessInv, Process
<1>1. CASE Bootstrap
  BY <1>1 DEF Bootstrap, ConnInv
<1>2. CASE StoreBuilt
  BY <1>2 DEF StoreBuilt, ConnInv
<1>3. CASE NotifyContext \/ StartStatusServer \/ Listen
  BY <1>3 DEF NotifyContext, StartStatusServer, Listen, Main, ConnInv
<1>4. CASE Close
  <2>1. ProcessInv'
    BY <1>4 DEF Close
  <2> QED
    BY <1>4, <2>1, ResetKeeps DEF Close
<1>5. CASE Return \/ BuildStoreFails
  BY <1>5, ExitKeeps DEF Return, BuildStoreFails
<1>6. CASE AcceptFails
  BY <1>6 DEF AcceptFails, Main, ConnInv
<1>7. CASE StatusListen \/ StatusShutdown
  BY <1>7 DEF StatusListen, StatusShutdown, ConnInv
<1>8. CASE CloseListener
  <2>1. ProcessInv'
    BY <1>8 DEF CloseListener
  <2> QED
    BY <1>8, <2>1, ResetKeeps DEF CloseListener
<1>9. CASE Ready
  BY <1>9 DEF Ready, ConnInv
<1>10. CASE Signal
  <2>1. CASE Exit
    BY <2>1, ExitKeeps
  <2>2. CASE ~Exit
    BY <1>10, <2>2 DEF Signal, ConnInv
  <2> QED
    BY <2>1, <2>2
<1>11. CASE Restart
  BY <1>11 DEF Restart, NewProcess, ConnInv
<1> QED
  BY <1>1, <1>2, <1>3, <1>4, <1>5, <1>6, <1>7, <1>8, <1>9, <1>10, <1>11
     DEF MainStep, StatusStep
-----------------------------------------------------------------------------
(* The steps of one connection. *)

LEMMA AcceptKeeps == ASSUME ServerInv, NEW c \in Client, Accept(c) PROVE ServerInv'
<1> DEFINE k == [conn[c] EXCEPT !.state = "open"]
<1>1. GoodConn(conn[c], Requests[c]) /\ conn[c] \in Connection /\ conn[c].state = "queued"
  BY DEF ServerInv, ConnInv, Accept
<1>2. /\ k \in Connection /\ k.state = "open" /\ k.sent = conn[c].sent
      /\ k.read = conn[c].read /\ k.resp = conn[c].resp /\ k.received = conn[c].received
      /\ k.executed = conn[c].executed
  BY <1>1 DEF Connection
<1>3. conn' = [conn EXCEPT ![c] = k]
  BY DEF Accept
<1> HIDE DEF k
<1>4. k.read = 0 /\ k.received \in Seq(Response) /\ Len(k.received) = 0
  BY <1>1, <1>2 DEF GoodConn, Connection
<1>5. GoodConn(k, Requests[c])
  BY <1>1, <1>2, <1>4 DEF GoodConn
<1>6. ConnInv'
  BY <1>3, <1>5, OneConnection DEF ServerInv
<1> QED
  BY <1>6 DEF ServerInv, ProcessInv, Accept

LEMMA ReadMessageKeeps == ASSUME ServerInv, NEW c \in Client, ReadMessage(c) PROVE ServerInv'
<1> DEFINE old == conn[c]
<1>1. /\ GoodConn(old, Requests[c]) /\ old \in Connection
      /\ old.state \in {"open", "hungup"} /\ old.resp = "none"
      /\ old.read < old.sent
  BY DEF ServerInv, ConnInv, ReadMessage, Serving
<1> DEFINE s == IF NextRequest(c).body = "other" THEN "closed" ELSE old.state
           r == IF NextRequest(c).body = "other" THEN old.resp ELSE "handling"
<1>2. /\ conn' = [conn EXCEPT ![c].read = @ + 1, ![c].state = s, ![c].resp = r]
      /\ (s = "closed" /\ r = "none") \/ (s = old.state /\ r = "handling")
      /\ s \in {"open", "hungup", "closed"} /\ r \in {"none", "handling"}
      /\ old.read + 1 \in Nat
  <2>1. conn' = [conn EXCEPT ![c].read = @ + 1, ![c].state = s, ![c].resp = r]
    BY DEF ReadMessage
  <2>2. (s = "closed" /\ r = "none") \/ (s = old.state /\ r = "handling")
    BY <1>1
  <2>3. s \in {"open", "hungup", "closed"} /\ r \in {"none", "handling"}
    BY <1>1
  <2>4. old.read + 1 \in Nat
    BY <1>1 DEF Connection
  <2> QED
    BY <2>1, <2>2, <2>3, <2>4
<1> HIDE DEF s, r
<1> DEFINE k == [old EXCEPT !.read = @ + 1, !.state = s, !.resp = r]
<1>3. conn' = [conn EXCEPT ![c] = k]
  BY <1>2
<1>4. /\ k \in Connection /\ k.sent = old.sent /\ k.read = old.read + 1
      /\ k.received = old.received /\ k.executed = old.executed
      /\ k.state = s /\ k.resp = r
  BY <1>1, <1>2 DEF Connection
<1> HIDE DEF k
<1>5. Len(k.received) \in Nat /\ old.read \in Nat /\ old.sent \in Nat
  BY <1>1, <1>4 DEF Connection
<1>6. k.executed \subseteq 1..k.read
  BY <1>1, <1>4, <1>5 DEF GoodConn
<1>7. \A i \in DOMAIN k.received :
        /\ k.received[i].responseTo = Requests[c][i].id
        /\ k.received[i].ok /\ Requests[c][i].usesStore => i \in k.executed
  BY <1>1, <1>4 DEF GoodConn
<1>8. GoodConn(k, Requests[c])
  <2>1. /\ old.sent <= Len(Requests[c])
        /\ Len(old.received) <= old.read
        /\ old.state = "open" => old.read = Len(old.received)
    BY <1>1 DEF GoodConn
  <2> HIDE DEF old
  <2>2. k.read <= k.sent /\ k.sent <= Len(Requests[c]) /\ k.read > 0
    BY <1>1, <1>4, <1>5, <2>1
  <2>3. k.state \notin {"none", "queued"}
    BY <1>2, <1>4
  <2>4. Len(k.received) <= k.read
    BY <1>4, <1>5, <2>1
  <2>5. k.state = "open" => k.resp # "none" /\ k.read = Len(k.received) + 1
    BY <1>2, <1>4, <2>1
  <2>6. k.resp # "ok"
    BY <1>2, <1>4
  <2> QED
    BY <1>4, <1>6, <1>7, <2>2, <2>3, <2>4, <2>5, <2>6 DEF GoodConn
<1>9. ConnInv'
  BY <1>3, <1>8, OneConnection DEF ServerInv
<1> QED
  BY <1>9 DEF ServerInv, ProcessInv, ReadMessage

(* ReadFails and HangUp: a connection that had been accepted ends. *)
LEMMA EndsKeeps ==
  ASSUME ServerInv, NEW c \in Client, ReadFails(c) \/ HangUp(c)
  PROVE  ServerInv'
<1>1. PICK s \in {"hungup", "closed"} : conn' = [conn EXCEPT ![c].state = s]
  BY DEF ReadFails, HangUp
<1> DEFINE k == [conn[c] EXCEPT !.state = s]
<1>2. GoodConn(conn[c], Requests[c]) /\ conn[c] \in Connection
  BY DEF ServerInv, ConnInv
<1>3. conn' = [conn EXCEPT ![c] = k]
  BY <1>1
<1>4. /\ k \in Connection /\ k.state = s /\ k.sent = conn[c].sent
      /\ k.read = conn[c].read /\ k.resp = conn[c].resp /\ k.received = conn[c].received
      /\ k.executed = conn[c].executed
  BY <1>2 DEF Connection
<1> HIDE DEF k
<1>5. GoodConn(k, Requests[c])
  BY <1>2, <1>4 DEF GoodConn
<1>6. ConnInv'
  BY <1>3, <1>5, OneConnection DEF ServerInv
<1> QED
  BY <1>6 DEF ServerInv, ProcessInv, ReadFails, HangUp

LEMMA HandleKeeps == ASSUME ServerInv, NEW c \in Client, Handle(c) PROVE ServerInv'
<1>1. PICK ok \in BOOLEAN, effect \in BOOLEAN :
        /\ ok /\ Current(c).usesStore => effect
        /\ conn' = [conn EXCEPT ![c].resp = IF ok THEN "ok" ELSE "error",
                                ![c].executed = IF effect THEN @ \cup {conn[c].read} ELSE @]
  BY DEF Handle
<1> DEFINE k == [conn[c] EXCEPT !.resp = IF ok THEN "ok" ELSE "error",
                                !.executed = IF effect THEN @ \cup {conn[c].read} ELSE @]
<1>2. GoodConn(conn[c], Requests[c]) /\ conn[c] \in Connection /\ conn[c].resp = "handling"
  BY DEF ServerInv, ConnInv, Handle, Serving
<1>3. conn' = [conn EXCEPT ![c] = k]
  BY <1>1
<1>4. /\ k \in Connection /\ k.state = conn[c].state /\ k.sent = conn[c].sent
      /\ k.read = conn[c].read /\ k.received = conn[c].received
      /\ k.resp = (IF ok THEN "ok" ELSE "error")
      /\ k.executed = (IF effect THEN conn[c].executed \cup {k.read} ELSE conn[c].executed)
  BY <1>2 DEF Connection
<1> HIDE DEF k
<1>5. k.read \in Nat /\ k.read > 0 /\ k.executed \subseteq 1..k.read
  BY <1>2, <1>4 DEF GoodConn, Connection
<1>6. k.resp = "ok" /\ Requests[c][k.read].usesStore => k.read \in k.executed
  BY <1>1, <1>4 DEF Current
<1>7. conn[c].executed \subseteq k.executed
  BY <1>4
<1>8. GoodConn(k, Requests[c])
  BY <1>2, <1>4, <1>5, <1>6, <1>7 DEF GoodConn
<1>9. ConnInv'
  BY <1>3, <1>8, OneConnection DEF ServerInv
<1> QED
  BY <1>9 DEF ServerInv, ProcessInv, Handle

LEMMA WriteMessageKeeps == ASSUME ServerInv, NEW c \in Client, WriteMessage(c) PROVE ServerInv'
<1> DEFINE old == conn[c]
<1>1. /\ GoodConn(old, Requests[c]) /\ old \in Connection /\ old.resp \in {"ok", "error"}
      /\ Requests[c] \in Seq(Request)
  BY RequestsAssumption DEF ServerInv, ConnInv, WriteMessage, Serving
<1>2. CASE old.state = "open"
  <2> DEFINE h == ResponseHeader(c)
             q == Append(old.received, h)
             k == [old EXCEPT !.resp = "none", !.received = q]
  <2>1. old.read \in DOMAIN Requests[c] /\ Requests[c][old.read] \in Request
    BY <1>1 DEF GoodConn, Connection
  <2>2. /\ h \in Response /\ h.responseTo = Requests[c][old.read].id
        /\ h.ok = (old.resp = "ok")
    BY <2>1 DEF ResponseHeader, Current, Response, Request
  <2>3. conn' = [conn EXCEPT ![c] = k]
    BY <1>2 DEF WriteMessage
  <2> HIDE DEF h
  <2>. old.received \in Seq(Response) /\ q \in Seq(Response)
    BY <1>1, <2>2 DEF Connection
  <2> HIDE DEF q
  <2>4. /\ k \in Connection /\ k.state = old.state /\ k.sent = old.sent
        /\ k.read = old.read /\ k.resp = "none" /\ k.executed = old.executed
        /\ k.received = q
    BY <1>1 DEF Connection
  <2> HIDE DEF k
  <2> USE DEF q
  <2>5. /\ old.received \in Seq(Response) /\ old.read \in Nat
        /\ Len(k.received) = Len(old.received) + 1 /\ Len(k.received) = old.read
    BY <1>1, <1>2, <2>2, <2>4 DEF GoodConn, Connection
  <2>6. ASSUME NEW i \in DOMAIN k.received
        PROVE  /\ k.received[i].responseTo = Requests[c][i].id
               /\ k.received[i].ok /\ Requests[c][i].usesStore => i \in k.executed
    <3>1. CASE i = old.read
      <4>1. k.received[i] = h
        BY <3>1, <2>2, <2>4, <2>5
      <4> QED
        BY <1>1, <2>2, <2>4, <3>1, <4>1 DEF GoodConn
    <3>2. CASE i # old.read
      <4>1. i \in DOMAIN old.received /\ k.received[i] = old.received[i]
        BY <3>2, <2>2, <2>4, <2>5
      <4> QED
        BY <1>1, <2>4, <4>1 DEF GoodConn
    <3> QED
      BY <3>1, <3>2
  <2>7. GoodConn(k, Requests[c])
    BY <1>1, <1>2, <2>4, <2>5, <2>6 DEF GoodConn
  <2> QED
    BY <2>3, <2>7, OneConnection DEF ServerInv, ProcessInv, WriteMessage
<1>3. CASE old.state # "open"
  <2>1. PICK s \in {"hungup", "closed"} :
          conn' = [conn EXCEPT ![c].resp = "none", ![c].state = s]
    BY <1>3 DEF WriteMessage
  <2> DEFINE k == [old EXCEPT !.resp = "none", !.state = s]
  <2>2. conn' = [conn EXCEPT ![c] = k]
    BY <2>1
  <2>3. /\ k \in Connection /\ k.state = s /\ k.sent = old.sent /\ k.read = old.read
        /\ k.resp = "none" /\ k.executed = old.executed /\ k.received = old.received
    BY <1>1 DEF Connection
  <2> HIDE DEF k
  <2>4. GoodConn(k, Requests[c])
    BY <1>1, <2>3 DEF GoodConn
  <2> QED
    BY <2>2, <2>4, OneConnection DEF ServerInv, ProcessInv, WriteMessage
<1> QED
  BY <1>2, <1>3

LEMMA ClientKeeps ==
  ASSUME ServerInv, NEW c \in Client, Connect(c) \/ Send(c)
  PROVE  ServerInv'
<1> DEFINE old == conn[c]
<1>1. GoodConn(old, Requests[c]) /\ old \in Connection /\ Len(Requests[c]) \in Nat
  BY RequestsAssumption DEF ServerInv, ConnInv
<1>2. CASE Connect(c)
  <2> DEFINE k == [old EXCEPT !.state = "queued"]
  <2>1. conn' = [conn EXCEPT ![c] = k] /\ old.state = "none"
    BY <1>2 DEF Connect
  <2>2. /\ k \in Connection /\ k.state = "queued" /\ k.sent = old.sent /\ k.read = old.read
        /\ k.resp = old.resp /\ k.executed = old.executed /\ k.received = old.received
    BY <1>1 DEF Connection
  <2> HIDE DEF k
  <2>3. GoodConn(k, Requests[c])
    BY <1>1, <2>1, <2>2 DEF GoodConn
  <2> QED
    BY <1>2, <2>1, <2>3, OneConnection DEF ServerInv, ProcessInv, Connect
<1>3. CASE Send(c)
  <2> DEFINE k == [old EXCEPT !.sent = @ + 1]
  <2>1. conn' = [conn EXCEPT ![c] = k] /\ old.sent < Len(Requests[c])
    BY <1>3 DEF Send
  <2>2. /\ k \in Connection /\ k.state = old.state /\ k.sent = old.sent + 1
        /\ k.read = old.read /\ old.read \in Nat /\ old.sent \in Nat
        /\ k.resp = old.resp /\ k.executed = old.executed /\ k.received = old.received
    BY <1>1 DEF Connection
  <2> HIDE DEF k
  <2>3. GoodConn(k, Requests[c])
    BY <1>1, <2>1, <2>2 DEF GoodConn
  <2> QED
    BY <1>3, <2>1, <2>3, OneConnection DEF ServerInv, ProcessInv, Send
<1> QED
  BY <1>2, <1>3

-----------------------------------------------------------------------------
LEMMA ServerStep == ServerInv /\ [Next]_vars => ServerInv'
<1> SUFFICES ASSUME ServerInv, [Next]_vars PROVE ServerInv'
  OBVIOUS
<1>1. CASE \/ MainStep \/ StatusStep \/ CloseListener \/ Ready
           \/ BuildStoreFails \/ AcceptFails \/ Signal \/ Restart
  BY <1>1, ProcessKeeps
<1>2. CASE Stopped \/ UNCHANGED vars
  BY <1>2 DEF Stopped, vars, ServerInv, ProcessInv, ConnInv
<1>3. ASSUME NEW c \in Client,
             ConnStep(c) \/ HandlerPanics(c) \/ Connect(c) \/ Send(c) \/ HangUp(c)
      PROVE  ServerInv'
  <2>1. CASE HandlerPanics(c)
    BY <2>1, ExitKeeps DEF HandlerPanics
  <2>2. CASE Accept(c)
    BY <2>2, AcceptKeeps
  <2>3. CASE ReadMessage(c)
    BY <2>3, ReadMessageKeeps
  <2>4. CASE ReadFails(c) \/ HangUp(c)
    BY <2>4, EndsKeeps
  <2>5. CASE Handle(c)
    BY <2>5, HandleKeeps
  <2>6. CASE WriteMessage(c)
    BY <2>6, WriteMessageKeeps
  <2>7. CASE Connect(c) \/ Send(c)
    BY <2>7, ClientKeeps
  <2> QED
    BY <1>3, <2>1, <2>2, <2>3, <2>4, <2>5, <2>6, <2>7 DEF ConnStep
<1> QED
  BY <1>1, <1>2, <1>3 DEF Next

LEMMA ServerInvariant == Spec => []ServerInv
BY ServerInit, ServerStep, PTL DEF Spec

(* The process and what is known of each connection keep their type, and   *)
(* no connection has read more than was sent, or more than it may send     *)
(* (wire/server.go:24-100, main.go:43-75).                                 *)
THEOREM ServerTyping == Spec => []TypeOK
<1>1. ServerInv => TypeOK
  BY DEF ServerInv, ProcessInv, ConnInv, GoodConn, TypeOK
<1> QED
  BY <1>1, ServerInvariant, PTL

(* The replies a client received answer its requests in the order in which *)
(* it sent them, with their ids (wire/server.go:55-100).                   *)
THEOREM RepliesAreInOrder == Spec => []RepliesInOrder
<1>1. ServerInv => RepliesInOrder
  BY DEF ServerInv, ConnInv, GoodConn, RepliesInOrder
<1> QED
  BY <1>1, ServerInvariant, PTL

(* What was answered with ok took effect, and nothing takes effect before  *)
(* the request in front of it is answered (wire/server.go:55-90,           *)
(* main.go:43-75).                                                         *)
THEOREM OkIsExecuted == Spec => []OkMeansExecuted
<1>1. ServerInv => OkMeansExecuted
  <2> SUFFICES ASSUME ServerInv, NEW c \in Client, NEW i \in DOMAIN Requests[c]
               PROVE  /\ i \in DOMAIN conn[c].received /\ conn[c].received[i].ok
                           /\ Requests[c][i].usesStore => i \in conn[c].executed
                      /\ i \in conn[c].executed /\ conn[c].state = "open"
                           => i <= Len(conn[c].received) + 1
    BY DEF OkMeansExecuted
  <2>1. GoodConn(conn[c], Requests[c]) /\ conn[c] \in Connection
    BY DEF ServerInv, ConnInv
  <2>2. conn[c].read \in Nat /\ Len(conn[c].received) \in Nat /\ conn[c].executed \subseteq Nat
    BY <2>1 DEF Connection
  <2> QED
    BY <2>1, <2>2 DEF GoodConn
<1> QED
  BY <1>1, ServerInvariant, PTL

(* /ready answers yes only once the metadata schema is complete, however   *)
(* many statements it has and however many times its creation was cut      *)
(* short (main.go:49-66, catalog.go:27-34).                                *)
THEOREM ReadyIsAfterBootstrap == Spec => []ReadyAfterBootstrap
<1>1. ServerInv => ReadyAfterBootstrap
  BY DEF ServerInv, ProcessInv, ReadyAfterBootstrap
<1> QED
  BY <1>1, ServerInvariant, PTL
=============================================================================
