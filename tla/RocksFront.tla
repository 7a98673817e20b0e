----------------------------- MODULE RocksFront -----------------------------
(***************************************************************************)
(* The servers of the Rocks side, each from its listener to its answers:   *)
(*   rocks  RocksIncoming (rocks/mod.rs), which tunnels every connection   *)
(*          to the HTTP server of rocks/hyper_svr.rs                       *)
(*   temp   the loop `temp` of hyper_tls_server.rs                         *)
(*   hyper  hyper_serving of hyper_tls_server.rs                           *)
(*   ws     serve_websocket (wsocket.rs), one task for each upgrade        *)
(* They differ in what a connection shares with the others: its task, the  *)
(* loop it is accepted in, and the life of the server.  TLS, hyper, the    *)
(* websocket library and the clients are external.  The bytes of a TLS     *)
(* connection are the subject of TlsStream.                                *)
(***************************************************************************)
EXTENDS Integers, FiniteSets

CONSTANTS
  Clients,    \* the clients
  Modes,      \* the servers to look at
  Scripts,    \* Scripts[m]: what clients of server m may do (a subset of ScriptType(m))
  Nobody      \* no client

\* The request of a client, as far as the server looks at it.
ReqType(m) ==
  CASE m = "rocks" -> [path : {"/rocks", "/"}, form : BOOLEAN, len : {"none", "valid", "invalid"},
                       chunked : BOOLEAN]
    [] m = "temp"  -> {"complete", "malformed"}
    [] m = "hyper" -> {"HTTP/1.1", "other"}
    [] m = "ws"    -> [proto : BOOLEAN, msg : {"request", "garbage", "text"}, user : BOOLEAN]

\* A client's handshake, what becomes of the head and the body (for ws: the first message)
\* of its request, whether it is there to be answered, and the request.
ScriptType(m) ==
  [tls : {"ok", "bad", "silent"}, head : {"whole", "cut", "stall"},
   body : {"whole", "cut", "stall"}, stays : BOOLEAN, req : ReqType(m)]

ASSUME FrontAssumption ==
  /\ Modes \subseteq {"rocks", "temp", "hyper", "ws"} /\ Nobody \notin Clients
  /\ \A m \in Modes : Scripts[m] \subseteq ScriptType(m)

VARIABLES
  mode,      \* which server
  enabled,   \* the user configured for serve_websocket is a uuid
  script,    \* script[c]: what client c does
  server,    \* the server's future: "up", "down" (it has returned an error)
  backend,   \* start_server: "none" (not polled yet), "up", "dead"
  loop,      \* the client the accept loop is waiting for, or Nobody
  pc,        \* pc[c]: how far the connection of c is
  code,      \* code[c]: the answer written to c
  up         \* up[c]: the connection of a websocket to its destination

vars == <<mode, enabled, script, server, backend, loop, pc, code, up>>

Over == {"answered", "aborted", "closed", "refused", "tunnel", "spin"}
Threads == {"home", "other"}   \* home: the thread start_server was first polled on

Init ==
  /\ mode \in Modes
  /\ enabled \in IF mode = "ws" THEN BOOLEAN ELSE {TRUE}
  /\ script \in [Clients -> Scripts[mode]]
  /\ server = "up"
  /\ backend = "none"
  /\ loop = Nobody
  /\ pc = [c \in Clients |-> "queued"]
  /\ code = [c \in Clients |-> "none"]
  /\ up = [c \in Clients |-> "none"]

Goto(c, s) == pc' = [pc EXCEPT ![c] = s]
Reply(c, r) == code' = [code EXCEPT ![c] = r]

-----------------------------------------------------------------------------
\* The accept loops.

\* start_server, spawned by start_impl: Server::bind panics when the address is taken, and
\* a server that fails later ends with a line in the log.  The connections it has accepted
\* have tasks of their own; those the kernel still holds for it are reset.
start_server ==
  /\ mode = "rocks"
  /\ \/ backend = "none" /\ backend' \in {"up", "dead"} /\ UNCHANGED pc
     \/ /\ backend = "up" /\ backend' = "dead"
        /\ \E held \in SUBSET {c \in Clients : pc[c] \in {"tls", "head"}} :
             pc' = [c \in Clients |-> IF c \in held THEN "refused" ELSE pc[c]]
  /\ UNCHANGED <<mode, enabled, script, server, loop, code, up>>

BadSerial == {"temp", "hyper", "rocks"}

\* temp awaits everything inside its loop.  In hyper_serving, and_then yields the next
\* connection when the handshake of the one before is done.
Serial == {"temp", "hyper"}

Accept(c) ==
  /\ server = "up" /\ loop = Nobody /\ pc[c] = "queued"
  /\ Goto(c, IF mode = "rocks" THEN "connect" ELSE "tls")
  /\ loop' = IF mode \in Serial THEN c ELSE Nobody
  /\ UNCHANGED <<mode, enabled, script, server, backend, code, up>>

\* Whether the error of a connection at stage s ends the server: temp and the incoming
\* stream of hyper_serving pass it on, the tasks of the others log it.
fatal(s) == mode = "temp" \/ (mode = "hyper" /\ s \in {"queued", "tls"})

BadLose(c, s) ==
  /\ server' = IF fatal(s) THEN "down" ELSE server
  /\ loop' = IF loop = c THEN Nobody ELSE loop
  /\ pc' = [d \in Clients |-> IF d = c \/ fatal(s) THEN "closed" ELSE pc[d]]

Lose(c, s) ==
  /\ server' = IF fatal(s) THEN "down" ELSE server
  /\ loop' = IF loop = c THEN Nobody ELSE loop
  /\ Goto(c, IF s = "queued" THEN "aborted" ELSE "closed")

\* accept returns an error for this connection.
AcceptError(c) ==
  /\ server = "up" /\ loop = Nobody /\ pc[c] = "queued"
  /\ Lose(c, "queued")
  /\ UNCHANGED <<mode, enabled, script, backend, code, up>>

\* handle_client connects to the fallback address before anything is read from the client.
handle_client(c) ==
  /\ pc[c] = "connect"
  /\ Goto(c, IF backend = "up" THEN "tls" ELSE "refused")
  /\ UNCHANGED <<mode, enabled, script, server, backend, loop, code, up>>

TlsOk(c) ==
  /\ pc[c] = "tls" /\ script[c].tls = "ok"
  /\ Goto(c, "head")
  /\ loop' = IF mode = "hyper" THEN Nobody ELSE loop
  /\ UNCHANGED <<mode, enabled, script, server, backend, code, up>>

TlsFails(c) ==
  /\ pc[c] = "tls" /\ script[c].tls = "bad"
  /\ Lose(c, "tls")
  /\ UNCHANGED <<mode, enabled, script, backend, code, up>>

-----------------------------------------------------------------------------
\* rocks/hyper_svr.rs

\* handle_rocks reads the body of a form whose length the request gives.
reads_body(q) == q.path = "/rocks" /\ q.form /\ q.len = "valid" /\ ~ q.chunked

\* handle_rocks fails on a length that does not parse, and answers everything else with
\* NOT_FOUND.  (The two lengths it compares come from the same header.)
handle_rocks(q) == IF q.form /\ q.len = "invalid" THEN "error" ELSE "404"

serve_rocks_async(q) == IF q.path = "/rocks" THEN handle_rocks(q) ELSE "200"

\* ServiceFnMut::call: the closure's future, here for each server that has a service.
call(c) ==
  CASE mode = "rocks" -> serve_rocks_async(script[c].req)
    [] mode = "hyper" -> IF script[c].req = "HTTP/1.1" THEN "200" ELSE "error"

\* The future of the service is polled to its end.  Its error closes the connection without
\* an answer.
Answer(c) ==
  IF call(c) = "error" \/ ~ script[c].stays
  THEN Lose(c, "head") /\ UNCHANGED code
  ELSE Goto(c, "answered") /\ Reply(c, call(c)) /\ UNCHANGED <<server, loop>>

\* WrapFuture::poll, which serve_rocks puts around its future, on thread th.  Away from home
\* it wakes the task of start_server, which has nothing to do, and returns NotReady: the
\* future is not polled, so nothing holds the waker of the connection's own task.
wrap_future(c, th) ==
  IF th = "home" THEN Answer(c) ELSE Goto(c, "strayed") /\ UNCHANGED <<server, loop, code>>

\* The request has arrived as far as the service wants it, and a worker polls the task of
\* the connection; a body that is cut off ends the loop that reads it like one that is
\* complete.
Serve(c) ==
  /\ mode \in {"rocks", "hyper"} /\ pc[c] = "head" /\ script[c].head = "whole"
  /\ mode = "rocks" /\ reads_body(script[c].req) => script[c].body # "stall"
  /\ IF mode = "rocks" THEN \E th \in Threads : wrap_future(c, th) ELSE Answer(c)
  /\ UNCHANGED <<mode, enabled, script, backend, up>>

\* Another event of the connection, bytes after the request or its end, polls the task again.
PolledAgain(c) ==
  /\ mode = "rocks" /\ pc[c] = "strayed"
  /\ \E th \in Threads : wrap_future(c, th)
  /\ UNCHANGED <<mode, enabled, script, backend, up>>

\* The client closes in the middle of the head.
HeadCut(c) ==
  /\ mode # "temp" /\ pc[c] = "head" /\ script[c].head = "cut"
  /\ Lose(c, "head")
  /\ UNCHANGED <<mode, enabled, script, backend, code, up>>

-----------------------------------------------------------------------------
\* hyper_tls_server.rs: temp reads up to an empty line.

\* A request that does not parse, or an answer that cannot be written, ends the server.
temp(c) ==
  /\ mode = "temp" /\ pc[c] = "head" /\ script[c].head = "whole"
  /\ IF script[c].req = "complete" /\ script[c].stays
     THEN Goto(c, "answered") /\ Reply(c, "200") /\ loop' = Nobody /\ UNCHANGED server
     ELSE Lose(c, "head") /\ UNCHANGED code
  /\ UNCHANGED <<mode, enabled, script, backend, up>>

\* A read of zero bytes is not taken for the end: the loop reads for ever.  A read that
\* fails, on a connection that was reset, ends the server.
temp_eof(c) ==
  /\ mode = "temp" /\ pc[c] = "head" /\ script[c].head = "cut"
  /\ \/ Goto(c, "spin") /\ UNCHANGED <<server, loop>>
     \/ Lose(c, "head")
  /\ UNCHANGED <<mode, enabled, script, backend, code, up>>

-----------------------------------------------------------------------------
\* wsocket.rs: serve_websocket.

\* Without a valid user nobody is let in.  Else the upgrade is rejected without the protocol
\* and accepted with it; either may fail, of a client that is gone.
upgrade(c) ==
  /\ mode = "ws" /\ pc[c] = "head" /\ script[c].head = "whole"
  /\ \/ /\ ~ enabled \/ ~ script[c].stays
        /\ Goto(c, "closed") /\ UNCHANGED code
     \/ enabled /\ script[c].req.proto /\ Goto(c, "message") /\ UNCHANGED code
     \/ enabled /\ ~ script[c].req.proto /\ Goto(c, "answered") /\ Reply(c, "reject")
  /\ UNCHANGED <<mode, enabled, script, server, backend, loop, up>>

BadRequestOk(c) == script[c].body = "whole" /\ script[c].req.msg = "request"

\* The first message is a binary one that holds a WebSocketRequest of the enabled user.
request_ok(c) ==
  script[c].body = "whole" /\ script[c].req.msg = "request" /\ script[c].req.user

\* The first message, or the end of the stream: what is no request is not answered.
message(c) ==
  /\ pc[c] = "message" /\ script[c].body # "stall"
  /\ Goto(c, IF request_ok(c) THEN "dial" ELSE "closed")
  /\ UNCHANGED <<mode, enabled, script, server, backend, loop, code, up>>

\* connect_tcpstream
dial(c) ==
  /\ pc[c] = "dial"
  /\ \E r \in {"open", "failed"} : up' = [up EXCEPT ![c] = r]
  /\ Goto(c, "reply")
  /\ UNCHANGED <<mode, enabled, script, server, backend, loop, code>>

\* The code is sent, and with Success the two are copied to each other.  A client that is
\* gone ends the task, which drops the connection to the destination.
reply(c) ==
  /\ pc[c] = "reply"
  /\ IF script[c].stays THEN Reply(c, IF up[c] = "open" THEN "success" ELSE "failure")
                        ELSE UNCHANGED code
  /\ Goto(c, IF script[c].stays /\ up[c] = "open" THEN "tunnel" ELSE "closed")
  /\ up' = [up EXCEPT ![c] = IF ~ script[c].stays /\ @ = "open" THEN "dropped" ELSE @]
  /\ UNCHANGED <<mode, enabled, script, server, backend, loop>>

-----------------------------------------------------------------------------
Step(c) ==
  \/ handle_client(c) \/ TlsOk(c) \/ TlsFails(c)
  \/ Serve(c) \/ HeadCut(c) \/ temp(c) \/ temp_eof(c)
  \/ upgrade(c) \/ message(c) \/ dial(c) \/ reply(c)

\* Everybody is done, or waits for a client.
Waiting(c) ==
  \/ pc[c] \in Over \cup {"strayed"}
  \/ pc[c] = "queued" /\ (server = "down" \/ loop # Nobody)
  \/ pc[c] = "tls" /\ script[c].tls = "silent"
  \/ pc[c] = "head" /\ "stall" \in {script[c].head, script[c].body}
  \/ pc[c] = "message" /\ script[c].body = "stall"
Quiet == (\A c \in Clients : Waiting(c)) /\ UNCHANGED vars

Next ==
  \/ start_server \/ Quiet
  \/ \E c \in Clients : Accept(c) \/ AcceptError(c) \/ Step(c) \/ PolledAgain(c)

\* The runtime polls the loop and the tasks that were woken, on a thread of its choice, and
\* start_server, which was spawned, is polled.  Nothing is assumed of clients beyond their
\* scripts, nor that a task nobody wakes is polled again.
Fairness ==
  /\ WF_vars(backend = "none" /\ start_server)
  /\ \A c \in Clients : WF_vars(Accept(c) \/ AcceptError(c)) /\ WF_vars(Step(c))

Spec == Init /\ [][Next]_vars /\ Fairness

-----------------------------------------------------------------------------
\* Properties.

\* A client that does everything right.
Good(c) ==
  LET s == script[c] IN
  /\ s.tls = "ok" /\ s.head = "whole" /\ s.body = "whole" /\ s.stays
  /\ CASE mode = "rocks" -> serve_rocks_async(s.req) # "error"
       [] mode = "temp"  -> s.req = "complete"
       [] mode = "hyper" -> s.req = "HTTP/1.1"
       [] mode = "ws"    -> enabled /\ s.req.proto /\ request_ok(c)

Served(c) == code[c] # "none"

\* A good client is served unless accept fails for it, whatever the others do: stay silent,
\* fail their handshakes, send nonsense or leave.  Only in the two loops of
\* hyper_tls_server.rs may it wait for ever, for a bad client the loop is busy with, or
\* be lost with the server; and RocksIncoming serves it only with its back end running, and
\* if the task of its connection is polled on the thread of start_server.
GoodIsServed ==
  \A c \in Clients :
    (Good(c) /\ pc[c] = "queued") ~>
      \/ Served(c) \/ pc[c] \in {"refused", "aborted", "strayed"}
      \/ mode \in {"temp", "hyper"} /\ (server = "down" \/ (loop # Nobody /\ ~ Good(loop)))

\* Once its handshake is done, a good client is served, also when an error of another
\* connection has ended the server meanwhile.  Only RocksIncoming may keep its answer from
\* it: by the loss of its back end, or in a WrapFuture polled on a foreign thread.
HandshakenIsServed ==
  \A c \in Clients :
    (Good(c) /\ pc[c] = "head") ~>
      (Served(c) \/ (backend = "dead" /\ pc[c] = "refused") \/ pc[c] = "strayed")

\* serve_websocket contacts a destination only for the enabled user, tells success only of
\* a connection that was made and failure only of one that was not, and keeps no
\* connection for a client that is gone.
WebsocketHonest ==
  \A c \in Clients :
    /\ up[c] # "none" => /\ enabled /\ script[c].req.proto
                         /\ script[c].req.msg = "request" /\ script[c].req.user
    /\ code[c] = "success" => up[c] = "open" /\ pc[c] = "tunnel"
    /\ code[c] = "failure" => up[c] = "failed"
    /\ up[c] = "open" => pc[c] \in {"reply", "tunnel"}
=============================================================================
