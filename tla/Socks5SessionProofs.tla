------------------------ MODULE Socks5SessionProofs ------------------------
(***************************************************************************)
(* Proofs about Socks5Session, for every set of clients, scripts,          *)
(* configurations and chunk sizes, and about RocksServer, which runs those *)
(* sessions in one process, for every descriptor limit and every number of *)
(* worker threads.  The invariants of the single session carry over to the *)
(* process, which adds two ways for a task to end: with its tunnel, and    *)
(* with the process.                                                       *)
(***************************************************************************)
EXTENDS RocksServer, FiniteSetTheorems, SequenceTheorems, TLAPS

Msg == [kind : {"method", "final"}, code : Byte]

\* The lengths in a script, and the ones computed from it, are naturals.
LEMMA ScriptFacts ==
  ASSUME NEW s \in Scripts
  PROVE  /\ s.nmethods \in Nat
         /\ RequestTail(s) \in Nat
         /\ HandshakeLen(s) \in Nat
         /\ StreamLen(s) \in Nat
<1>1. s \in ScriptType
  BY SessionAssumption DEF SessionAssumption
<1>2. s.nmethods \in Nat /\ s.b0 \in Nat /\ s.payload \in Nat
  BY <1>1 DEF ScriptType, Byte
<1>3. RequestTail(s) \in Nat /\ AddressLen(s) \in Nat
  BY <1>2 DEF RequestTail, AddressLen, Socks5AddrType
<1>4. HandshakeLen(s) \in Nat
  BY <1>2, <1>3 DEF HandshakeLen
<1>. QED
  BY <1>2, <1>3, <1>4 DEF StreamLen

\* Writing a method selection or a final response keeps the reply log well typed.
LEMMA WriteType ==
  ASSUME NEW c \in Clients, NEW msg \in Msg,
         replies \in [Clients -> Seq(Msg)], write_all(c, msg)
  PROVE  replies' \in [Clients -> Seq(Msg)]
BY DEF write_all

\* What the code writes are messages.
LEMMA MsgTypes ==
  /\ \A m \in Byte : Method(m) \in Msg /\ Final(m) \in Msg
  /\ \A e \in OutgoingError : get_reason(e) \in Byte
<1>1. \A m \in Byte : Method(m) \in Msg /\ Final(m) \in Msg
  BY DEF Msg, Method, Final
<1>2. \A e \in OutgoingError : get_reason(e) \in Byte
  BY DEF OutgoingError, get_reason, Socks5Error, Byte
<1>. QED
  BY <1>1, <1>2

-----------------------------------------------------------------------------
(* Type correctness.                                                        *)

\* main starts with no byte sent, read or answered.
LEMMA TypeInit == Init => TypeOK
<1>. SUFFICES ASSUME Init PROVE TypeOK
  OBVIOUS
<1>1. \A c \in Clients : consumed[c] <= sent[c] /\ sent[c] <= StreamLen(script[c])
  BY ScriptFacts DEF Init
<1>. QED
  BY <1>1 DEF Init, TypeOK, Stages, Settled, Ended

\* Every stage an action moves to is a stage.
LEMMA StageFacts ==
  /\ ReadStages \cup WriteStages \cup Ended \cup {"accept", "resolve", "connect", "tunnel"}
       = Stages
  /\ \A s \in Scripts : AfterHead(s) \in Stages \ {"abort"}
<1>1. ReadStages \cup WriteStages \cup Ended \cup {"accept", "resolve", "connect", "tunnel"}
        = Stages
  BY DEF Stages, Settled
<1>2. \A s \in Scripts : AfterHead(s) \in Stages \ {"abort"}
  BY DEF AfterHead, Stages, Settled, Ended, ReadStages, WriteStages
<1>. QED
  BY <1>1, <1>2

\* connect_error yields an OutgoingError for whatever number the system returns.
LEMMA ConnectErrorType == \A e \in Nat : connect_error(e) \in OutgoingError
BY DEF connect_error, OutgoingError

\* read_exact keeps the read position a natural number within what has arrived.
LEMMA ReadType ==
  ASSUME TypeOK, NEW c \in Clients, NEW n \in Nat, read_exact(c, n),
         sent' = sent, script' = script
  PROVE  /\ consumed' \in [Clients -> Nat]
         /\ \A d \in Clients : consumed'[d] <= sent'[d] /\ sent'[d] <= StreamLen(script'[d])
BY DEF TypeOK, read_exact

\* Every step preserves the type invariant: only read_exact and ClientSend move the two
\* positions, and only write_all the replies.
LEMMA TypeNext == TypeOK /\ [Next]_vars => TypeOK'
<1>. SUFFICES ASSUME TypeOK, [Next]_vars PROVE TypeOK'
  OBVIOUS
<1>. USE StageFacts
<1>1. CASE UNCHANGED vars
  BY <1>1 DEF TypeOK, vars, clientVars
<1>2. ASSUME NEW c \in Clients, next_client(c) PROVE TypeOK'
  BY <1>2 DEF next_client, Goto, TypeOK, clientVars, ReadStages
<1>3. ASSUME NEW c \in Clients, ClientStep(c) PROVE TypeOK'
  <2>1. CASE ClientSend(c)
    <3>1. StreamLen(script[c]) \in Nat
      BY ScriptFacts DEF TypeOK
    <3>2. PICK k \in ChunkSizes :
            sent' = [sent EXCEPT ![c] = IF @ + k > StreamLen(script[c])
                                        THEN StreamLen(script[c]) ELSE @ + k]
      BY <2>1 DEF ClientSend
    <3>3. k \in Nat
      BY SessionAssumption DEF SessionAssumption
    <3>4. /\ sent' \in [Clients -> Nat]
          /\ \A d \in Clients : consumed[d] <= sent'[d] /\ sent'[d] <= StreamLen(script[d])
      BY <3>1, <3>2, <3>3 DEF TypeOK
    <3>. QED
      BY <2>1, <3>4 DEF ClientSend, TypeOK
  <2>2. CASE ClientShutdown(c)
    BY <2>2 DEF ClientShutdown, TypeOK
  <2>3. CASE ClientReset(c)
    BY <2>3 DEF ClientReset, TypeOK
  <2>. QED
    BY <1>3, <2>1, <2>2, <2>3 DEF ClientStep
<1>4. ASSUME NEW c \in Clients, TaskStep(c) PROVE TypeOK'
  <2>. DEFINE s == script[c]
  <2>0. s \in Scripts
    BY DEF TypeOK
  <2>1. CASE AuthHead(c)
    <3>1. consumed' \in [Clients -> Nat]
          /\ \A d \in Clients : consumed'[d] <= sent'[d] /\ sent'[d] <= StreamLen(script'[d])
      BY <2>1, ReadType DEF AuthHead, clientVars
    <3>. QED
      BY <2>1, <3>1 DEF AuthHead, Goto, TypeOK, clientVars, ReadStages, Ended
  <2>2. CASE AuthMethods(c)
    <3>1. consumed' \in [Clients -> Nat]
          /\ \A d \in Clients : consumed'[d] <= sent'[d] /\ sent'[d] <= StreamLen(script'[d])
      <4>1. script[c].nmethods \in Nat
        BY <2>0, ScriptFacts
      <4>2. read_exact(c, script[c].nmethods) /\ sent' = sent /\ script' = script
        BY <2>2 DEF AuthMethods, clientVars
      <4>. QED
        BY <4>1, <4>2, ReadType
    <3>. QED
      BY <2>2, <3>1 DEF AuthMethods, Goto, TypeOK, clientVars, WriteStages
  <2>3. CASE ReqHead(c)
    <3>1. consumed' \in [Clients -> Nat]
          /\ \A d \in Clients : consumed'[d] <= sent'[d] /\ sent'[d] <= StreamLen(script'[d])
      BY <2>3, ReadType DEF ReqHead, clientVars
    <3>. QED
      BY <2>0, <2>3, <3>1 DEF ReqHead, Goto, TypeOK, clientVars
  <2>4. CASE ReqAddr(c)
    <3>1. consumed' \in [Clients -> Nat]
          /\ \A d \in Clients : consumed'[d] <= sent'[d] /\ sent'[d] <= StreamLen(script'[d])
      BY <2>0, <2>4, ReadType, ScriptFacts DEF ReqAddr, clientVars
    <3>2. /\ pc' \in [Clients -> Stages] /\ err' \in [Clients -> OutgoingError \cup {"none"}]
          /\ \A d \in Clients : pc'[d] = "abort" => err'[d] \in OutgoingError
      <4>1. \/ UNCHANGED err /\ (Goto(c, "panicked") \/ Goto(c, "refuse_addr") \/ Goto(c, "resolve"))
            \/ Fail(c, "GeneralFailure")
        BY <2>4, Zenon DEF ReqAddr
      <4>2. {"panicked", "refuse_addr", "resolve", "abort"} \subseteq Stages
            /\ "GeneralFailure" \in OutgoingError
        BY DEF Stages, WriteStages, Settled, Ended, OutgoingError
      <4>3. /\ pc \in [Clients -> Stages] /\ err \in [Clients -> OutgoingError \cup {"none"}]
            /\ \A d \in Clients : pc[d] = "abort" => err[d] \in OutgoingError
        BY DEF TypeOK
      <4>4. CASE Fail(c, "GeneralFailure")
        BY <4>2, <4>3, <4>4 DEF Goto, Fail
      <4>5. CASE /\ UNCHANGED err
                 /\ Goto(c, "panicked") \/ Goto(c, "refuse_addr") \/ Goto(c, "resolve")
        <5>1. PICK stage \in {"panicked", "refuse_addr", "resolve"} : Goto(c, stage)
          BY <4>5
        <5>2. stage \in Stages /\ stage # "abort"
          BY <4>2
        <5>. QED
          BY <4>3, <4>5, <5>1, <5>2 DEF Goto
      <4>. QED
        BY <4>1, <4>4, <4>5
    <3>. QED
      BY <2>4, <3>1, <3>2 DEF ReqAddr, TypeOK, clientVars
  <2>5. CASE AuthRefuse(c) \/ AuthAccept(c) \/ RefuseCmd(c) \/ RefuseAtyp(c) \/ RefuseAddr(c)
             \/ abort(c) \/ ready_for_connect(c)
    <3>1. replies' \in [Clients -> Seq(Msg)]
      <4>1. PICK msg \in Msg : write_all(c, msg)
        <5>1. CASE abort(c)
          BY <5>1, MsgTypes DEF abort, TypeOK
        <5>2. CASE ~ abort(c)
          BY <2>5, <5>2, MsgTypes DEF AuthRefuse, AuthAccept, RefuseCmd, RefuseAtyp, RefuseAddr,
             ready_for_connect, Socks5Error, SOCKS5_NO_AUTH, SOCKS5_NO_ACCEPTABLE_METHOD, Byte
        <5>. QED
          BY <5>1, <5>2
      <4>. QED
        BY <4>1, WriteType DEF TypeOK, Msg
    <3>2. /\ pc' \in [Clients -> Stages]
          /\ \A d \in Clients : pc'[d] = "abort" => pc[d] = "abort"
      BY <2>5 DEF AuthRefuse, AuthAccept, RefuseCmd, RefuseAtyp, RefuseAddr, abort,
         ready_for_connect, Goto, TypeOK, ReadStages, WriteStages, Ended
    <3>3. UNCHANGED <<conf, script, sent, peer, consumed, conn, err, errno>>
      BY <2>5 DEF AuthRefuse, AuthAccept, RefuseCmd, RefuseAtyp, RefuseAddr, abort,
         ready_for_connect, clientVars
    <3>. QED
      BY <3>1, <3>2, <3>3 DEF TypeOK, Msg
  <2>6. CASE ResolveFails(c)
    BY <2>6 DEF ResolveFails, Fail, Goto, TypeOK, clientVars, WriteStages, OutgoingError
  <2>7. CASE OpenSocketFails(c)
    BY <2>7, ConnectErrorType DEF OpenSocketFails, Fail, Goto, TypeOK, clientVars, WriteStages, Errno
  <2>8. CASE StartConnect(c)
    BY <2>8 DEF StartConnect, Goto, TypeOK, clientVars
  <2>9. CASE ConnectFails(c)
    <3>0. /\ Errno.ENETUNREACH \in Nat /\ Errno.ETIMEDOUT \in Nat
          /\ Errno.ECONNREFUSED \in Nat /\ Errno.EHOSTUNREACH \in Nat
      BY DEF Errno
    <3>1. PICK e \in Nat : Fail(c, connect_error(e)) /\ errno' = [errno EXCEPT ![c] = e]
      BY <2>9, <3>0 DEF ConnectFails
    <3>. QED
      BY <2>9, <3>1, ConnectErrorType DEF ConnectFails, Fail, Goto, TypeOK, clientVars, WriteStages
  <2>10. CASE ConnectOk(c)
    BY <2>10 DEF ConnectOk, Goto, TypeOK, clientVars, WriteStages
  <2>11. CASE IoError(c)
    BY <2>11 DEF IoError, Goto, TypeOK, clientVars, Ended
  <2>. QED
    BY <1>4, <2>1, <2>2, <2>3, <2>4, <2>5, <2>6, <2>7, <2>8, <2>9, <2>10, <2>11
       DEF TaskStep, Handshake
<1>. QED
  BY <1>1, <1>2, <1>3, <1>4 DEF Next, AllSettled

\* TypeOK is an invariant: in particular a task never reads past what its client has
\* sent, and every answer is one of the two messages of the protocol.
THEOREM TypeCorrect == Spec => []TypeOK
<1>. QED
  BY TypeInit, TypeNext, PTL DEF Spec

-----------------------------------------------------------------------------
(* The handshake.  Neither HandshakeConsumedExactly nor the properties of    *)
(* the upstream socket are inductive: they speak of the last stages and are  *)
(* made true by the first.  HandshakeInv says for every stage how much has   *)
(* been read, what has been checked and what the upstream socket is.         *)

Outbound == {"resolve", "connect", "abort", "ready", "tunnel"}

\* How much a task has read is a function of its stage.
ReadPosition(c) ==
  /\ pc[c] \in {"accept", "auth_head"} => consumed[c] = 0
  /\ pc[c] = "auth_methods" => consumed[c] = 2
  /\ pc[c] \in {"auth_refuse", "auth_accept", "req_head"} =>
       consumed[c] = 2 + script[c].nmethods
  /\ pc[c] = "req_addr" => consumed[c] = 7 + script[c].nmethods
  /\ pc[c] \in Outbound => consumed[c] = HandshakeLen(script[c])

\* What the task has checked on the way to its stage.
Checked(c) ==
  /\ pc[c] \in {"auth_methods", "auth_accept", "req_head"} => script[c].ver = SOCKS5_PROTOCOL
  /\ pc[c] \in {"auth_accept", "req_head"} => script[c].noauth
  /\ pc[c] \in {"req_addr"} \cup Outbound => ValidConnect(script[c])
  /\ pc[c] \in {"resolve", "connect", "ready", "tunnel"} => conf.outgoing = "Direct"

\* The upstream socket exists between StartConnect and the end of the task.
Upstream(c) ==
  /\ pc[c] = "connect" => conn[c] = "connecting"
  /\ pc[c] \in {"ready", "tunnel"} => conn[c] = "open"
  /\ pc[c] \notin {"connect", "ready", "tunnel"} => conn[c] \in {"none", "failed", "closed"}
  /\ pc[c] \notin {"connect", "ready", "tunnel", "abort", "closed"} => conn[c] = "none"
  /\ conn[c] # "none" => /\ conf.outgoing = "Direct" /\ ValidConnect(script[c])
                         /\ consumed[c] = HandshakeLen(script[c])

HandshakeInv == \A c \in Clients : ReadPosition(c) /\ Checked(c) /\ Upstream(c)

\* HandshakeInv holds before any client is accepted.
LEMMA HandshakeInit == Init => HandshakeInv
BY DEF Init, HandshakeInv, ReadPosition, Checked, Upstream, Outbound

\* A step of one task leaves the stage, read position, upstream socket and replies of the
\* others, and what the clients have sent.
LEMMA StepLocal ==
  ASSUME TypeOK, NEW c \in Clients, next_client(c) \/ TaskStep(c)
  PROVE  /\ conf' = conf /\ script' = script /\ sent' = sent /\ peer' = peer
         /\ \A d \in Clients \ {c} :
              /\ pc'[d] = pc[d] /\ consumed'[d] = consumed[d] /\ conn'[d] = conn[d]
              /\ replies'[d] = replies[d]
<1>0. /\ DOMAIN pc = Clients /\ DOMAIN consumed = Clients /\ DOMAIN conn = Clients
      /\ DOMAIN replies = Clients
  BY DEF TypeOK
<1>. USE <1>0
<1>1. CASE next_client(c)
  BY <1>1 DEF next_client, Goto, clientVars
<1>2. CASE Handshake(c)
  <2>1. CASE AuthHead(c) \/ AuthMethods(c) \/ ReqHead(c)
    BY <2>1 DEF AuthHead, AuthMethods, ReqHead, read_exact, Goto, clientVars
  <2>2. CASE ReqAddr(c)
    <3>1. \E st : Goto(c, st)
      BY <2>2 DEF ReqAddr, Fail
    <3>. QED
      BY <2>2, <3>1 DEF ReqAddr, read_exact, Goto, clientVars
  <2>3. CASE AuthRefuse(c) \/ AuthAccept(c) \/ RefuseCmd(c) \/ RefuseAtyp(c) \/ RefuseAddr(c)
             \/ abort(c) \/ ready_for_connect(c)
    BY <2>3 DEF AuthRefuse, AuthAccept, RefuseCmd, RefuseAtyp, RefuseAddr, abort,
       ready_for_connect, write_all, Goto, clientVars
  <2>4. CASE ConnectFails(c) \/ ConnectOk(c) \/ IoError(c)
    BY <2>4 DEF ConnectFails, ConnectOk, IoError, Fail, Goto, clientVars
  <2>. QED
    BY <1>2, <2>1, <2>2, <2>3, <2>4 DEF Handshake
<1>3. CASE ResolveFails(c) \/ OpenSocketFails(c) \/ StartConnect(c)
  BY <1>3 DEF ResolveFails, OpenSocketFails, StartConnect, Fail, Goto, clientVars
<1>. QED
  BY <1>1, <1>2, <1>3 DEF TaskStep

\* The invariant speaks of one client at a time.
LEMMA Frame ==
  ASSUME NEW d \in Clients, ReadPosition(d) /\ Checked(d) /\ Upstream(d),
         conf' = conf, script' = script, pc'[d] = pc[d], consumed'[d] = consumed[d],
         conn'[d] = conn[d]
  PROVE  ReadPosition(d)' /\ Checked(d)' /\ Upstream(d)'
BY DEF ReadPosition, Checked, Upstream

\* The bytes read for a request the task accepts are those of the request on the wire:
\* five, and then what RequestTail says.
LEMMA TailComplete ==
  ASSUME NEW s \in Scripts, try_from_ok(s.atyp)
  PROVE  7 + s.nmethods + RequestTail(s) = HandshakeLen(s)
<1>1. s \in ScriptType
  BY SessionAssumption DEF SessionAssumption
<1>2. s.nmethods \in Nat /\ s.b0 \in Nat
  BY <1>1 DEF ScriptType, Byte
<1>3. CASE s.atyp = 1
  BY <1>2, <1>3 DEF RequestTail, AddressLen, HandshakeLen, Socks5AddrType
<1>4. CASE s.atyp = 3
  BY <1>2, <1>4 DEF RequestTail, AddressLen, HandshakeLen, Socks5AddrType
<1>5. CASE s.atyp = 4
  BY <1>2, <1>5 DEF RequestTail, AddressLen, HandshakeLen, Socks5AddrType
<1>. QED
  BY <1>3, <1>4, <1>5 DEF try_from_ok, Socks5AddrType

\* The header leads to the address only when it is a CONNECT to a known address type.
LEMMA HeadChecks ==
  ASSUME NEW s
  PROVE  /\ AfterHead(s) \in {"closed", "refuse_cmd", "refuse_atyp", "panicked", "req_addr"}
         /\ AfterHead(s) = "req_addr" =>
              s.rver = SOCKS5_PROTOCOL /\ s.cmd = SOCKS5_CMD_CONNECT /\ try_from_ok(s.atyp)
BY DEF AfterHead

\* Every step preserves HandshakeInv.
LEMMA HandshakeNext == TypeOK /\ HandshakeInv /\ [Next]_vars => HandshakeInv'
<1>. SUFFICES ASSUME TypeOK, HandshakeInv, [Next]_vars PROVE HandshakeInv'
  OBVIOUS
<1>. DEFINE Inv(c) == ReadPosition(c) /\ Checked(c) /\ Upstream(c)
<1>0. \A c \in Clients : Inv(c)
  BY DEF HandshakeInv
<1>1. CASE UNCHANGED <<conf, script, pc, consumed, conn>>
  BY <1>0, <1>1, Frame DEF HandshakeInv
<1>2. ASSUME NEW c \in Clients, next_client(c) \/ TaskStep(c) PROVE HandshakeInv'
  <2>. DEFINE s == script[c]
  <2>0. /\ DOMAIN pc = Clients /\ DOMAIN consumed = Clients /\ DOMAIN conn = Clients
        /\ s \in Scripts /\ s.nmethods \in Nat /\ RequestTail(s) \in Nat /\ consumed[c] \in Nat
    BY ScriptFacts DEF TypeOK
  <2>1. /\ conf' = conf /\ script' = script
        /\ \A d \in Clients \ {c} :
             pc'[d] = pc[d] /\ consumed'[d] = consumed[d] /\ conn'[d] = conn[d]
    BY <1>2, StepLocal
  <2>2. \A d \in Clients \ {c} : Inv(d)'
    BY <1>0, <2>1, Frame
  <2>. HIDE DEF s
  <2>3. Inv(c)'
    <3>0. ReadPosition(c) /\ Checked(c) /\ Upstream(c)
      BY <1>0
    <3>1. CASE next_client(c)
      <4>1. pc[c] = "accept" /\ pc'[c] = "auth_head" /\ consumed'[c] = consumed[c] /\ conn'[c] = conn[c]
        BY <2>0, <3>1 DEF next_client, Goto
      <4>. QED
        BY <2>1, <3>0, <4>1 DEF ReadPosition, Checked, Upstream, Outbound
    <3>2. CASE AuthHead(c)
      <4>1. /\ pc[c] = "auth_head" /\ consumed'[c] = consumed[c] + 2 /\ conn'[c] = conn[c]
            /\ pc'[c] = IF script[c].ver = SOCKS5_PROTOCOL THEN "auth_methods" ELSE "closed"
        BY <2>0, <3>2 DEF AuthHead, read_exact, Goto
      <4>. QED
        BY <2>1, <3>0, <4>1 DEF ReadPosition, Checked, Upstream, Outbound
    <3>3. CASE AuthMethods(c)
      <4>1. /\ pc[c] = "auth_methods" /\ consumed'[c] = consumed[c] + script[c].nmethods
            /\ conn'[c] = conn[c]
            /\ \/ script[c].noauth /\ pc'[c] = "auth_accept"
               \/ pc'[c] = "auth_refuse"
        BY <2>0, <3>3 DEF AuthMethods, read_exact, Goto
      <4>. QED
        BY <2>1, <3>0, <4>1 DEF ReadPosition, Checked, Upstream, Outbound
    <3>4. CASE AuthRefuse(c) \/ RefuseCmd(c) \/ RefuseAtyp(c) \/ RefuseAddr(c)
      <4>1. /\ pc[c] \in {"auth_refuse", "refuse_cmd", "refuse_atyp", "refuse_addr"}
            /\ pc'[c] \in {"closed", "refuse_addr"}
            /\ consumed'[c] = consumed[c] /\ conn'[c] = conn[c]
        BY <2>0, <3>4 DEF AuthRefuse, RefuseCmd, RefuseAtyp, RefuseAddr, Goto
      <4>. QED
        BY <2>1, <3>0, <4>1 DEF ReadPosition, Checked, Upstream, Outbound
    <3>5. CASE AuthAccept(c)
      <4>1. /\ pc[c] = "auth_accept" /\ pc'[c] = "req_head"
            /\ consumed'[c] = consumed[c] /\ conn'[c] = conn[c]
        BY <2>0, <3>5 DEF AuthAccept, Goto
      <4>. QED
        BY <2>1, <3>0, <4>1 DEF ReadPosition, Checked, Upstream, Outbound
    <3>6. CASE ReqHead(c)
      <4>1. /\ pc[c] = "req_head" /\ consumed'[c] = consumed[c] + 5 /\ conn'[c] = conn[c]
            /\ pc'[c] = AfterHead(script[c])
        BY <2>0, <3>6 DEF ReqHead, read_exact, Goto
      <4>2. consumed'[c] = 7 + script'[c].nmethods
        BY <2>0, <2>1, <3>0, <4>1 DEF ReadPosition, s
      <4>3. pc'[c] = "req_addr" => ValidConnect(script[c])
        BY <3>0, <4>1, HeadChecks DEF Checked, ValidConnect
      <4>4. ReadPosition(c)'
        BY <4>1, <4>2, HeadChecks DEF ReadPosition, Outbound
      <4>5. Checked(c)'
        BY <2>1, <4>1, <4>3, HeadChecks DEF Checked, Outbound
      <4>6. Upstream(c)'
        BY <2>1, <3>0, <4>1, HeadChecks DEF Upstream
      <4>. QED
        BY <4>4, <4>5, <4>6
    <3>7. CASE ReqAddr(c)
      <4>1. /\ pc[c] = "req_addr" /\ conn'[c] = conn[c]
            /\ consumed'[c] = consumed[c] + RequestTail(script[c])
        BY <2>0, <3>7 DEF ReqAddr, read_exact
      <4>2. \/ Goto(c, "panicked") \/ Goto(c, "refuse_addr")
            \/ conf.outgoing = "Direct" /\ Goto(c, "resolve")
            \/ Goto(c, "abort")
        BY <3>7, Zenon DEF ReqAddr, Fail
      <4>3. \/ pc'[c] \in {"panicked", "refuse_addr", "abort"}
            \/ conf.outgoing = "Direct" /\ pc'[c] = "resolve"
        BY <2>0, <4>2 DEF Goto
      <4>4. ValidConnect(script[c]) /\ consumed[c] = 7 + script[c].nmethods
        BY <3>0, <4>1 DEF Checked, ReadPosition
      <4>5. consumed'[c] = HandshakeLen(script[c])
        BY <2>0, <4>1, <4>4, TailComplete DEF ValidConnect, s
      <4>6. conn[c] = "none"
        BY <3>0, <4>1 DEF Upstream
      <4>7. ReadPosition(c)'
        BY <2>1, <4>3, <4>5 DEF ReadPosition, Outbound
      <4>8. Checked(c)'
        BY <2>1, <4>3, <4>4 DEF Checked, Outbound
      <4>9. Upstream(c)'
        BY <2>1, <4>1, <4>3, <4>6 DEF Upstream
      <4>. QED
        BY <4>7, <4>8, <4>9
    <3>8. CASE ResolveFails(c) \/ OpenSocketFails(c)
      <4>1. /\ pc[c] = "resolve" /\ pc'[c] = "abort"
            /\ consumed'[c] = consumed[c] /\ conn'[c] = conn[c]
        BY <2>0, <3>8 DEF ResolveFails, OpenSocketFails, Fail, Goto
      <4>. QED
        BY <2>1, <3>0, <4>1 DEF ReadPosition, Checked, Upstream, Outbound
    <3>9. CASE StartConnect(c) \/ ConnectOk(c)
      <4>1. /\ \/ pc[c] = "resolve" /\ pc'[c] = "connect" /\ conn'[c] = "connecting"
               \/ pc[c] = "connect" /\ pc'[c] = "ready" /\ conn'[c] = "open"
            /\ consumed'[c] = consumed[c]
        BY <2>0, <3>9 DEF StartConnect, ConnectOk, Goto
      <4>. QED
        BY <2>1, <3>0, <4>1 DEF ReadPosition, Checked, Upstream, Outbound
    <3>10. CASE ConnectFails(c)
      <4>1. /\ pc[c] = "connect" /\ pc'[c] = "abort" /\ conn'[c] = "failed"
            /\ consumed'[c] = consumed[c]
        BY <2>0, <3>10 DEF ConnectFails, Fail, Goto
      <4>. QED
        BY <2>1, <3>0, <4>1 DEF ReadPosition, Checked, Upstream, Outbound
    <3>11. CASE abort(c) \/ ready_for_connect(c)
      <4>1. /\ \/ pc[c] = "abort" /\ pc'[c] = "closed"
               \/ pc[c] = "ready" /\ pc'[c] = "tunnel"
            /\ consumed'[c] = consumed[c] /\ conn'[c] = conn[c]
        BY <2>0, <3>11 DEF abort, ready_for_connect, Goto
      <4>. QED
        BY <2>1, <3>0, <4>1 DEF ReadPosition, Checked, Upstream, Outbound
    <3>12. CASE IoError(c)
      <4>1. /\ pc[c] \in ReadStages \cup WriteStages /\ pc'[c] = "closed"
            /\ conn'[c] = (IF conn[c] = "open" THEN "closed" ELSE conn[c])
            /\ consumed'[c] = consumed[c]
        BY <2>0, <3>12 DEF IoError, ReadFails, Goto
      <4>. QED
        BY <2>1, <3>0, <4>1
           DEF ReadPosition, Checked, Upstream, Outbound, ReadStages, WriteStages
    <3>. QED
      BY <1>2, <3>1, <3>2, <3>3, <3>4, <3>5, <3>6, <3>7, <3>8, <3>9, <3>10, <3>11, <3>12
         DEF TaskStep, Handshake
  <2>. QED
    BY <2>2, <2>3 DEF HandshakeInv
<1>3. ASSUME NEW c \in Clients, ClientStep(c) PROVE HandshakeInv'
  BY <1>1, <1>3 DEF ClientStep, ClientSend, ClientShutdown, ClientReset
<1>. QED
  BY <1>1, <1>2, <1>3 DEF Next, AllSettled, vars, clientVars

\* HandshakeInv is an invariant: at every await of handle_client, how far the task has
\* read, what it has checked so far and whether it owns an upstream socket agree.
THEOREM HandshakeCorrect == Spec => []HandshakeInv
<1>. QED
  BY HandshakeInit, HandshakeNext, TypeCorrect, PTL DEF Spec

\* What HandshakeInv says of the tunnel's start and of the upstream socket.
LEMMA HandshakeImplies ==
  ASSUME TypeOK, HandshakeInv
  PROVE  HandshakeConsumedExactly /\ UpstreamOnlyForValidConnect /\ NoLeakedUpstream
<1>1. HandshakeConsumedExactly
  BY DEF HandshakeInv, ReadPosition, Outbound, HandshakeConsumedExactly
<1>2. UpstreamOnlyForValidConnect
  <2>. SUFFICES ASSUME NEW c \in Clients, conn[c] # "none"
                PROVE  /\ conf.outgoing = "Direct" /\ ValidConnect(script[c])
                       /\ sent[c] >= HandshakeLen(script[c])
    BY DEF UpstreamOnlyForValidConnect
  <2>1. /\ conf.outgoing = "Direct" /\ ValidConnect(script[c])
        /\ consumed[c] = HandshakeLen(script[c])
    BY DEF HandshakeInv, Upstream
  <2>2. consumed[c] \in Nat /\ sent[c] \in Nat /\ consumed[c] <= sent[c]
    BY DEF TypeOK
  <2>. QED
    BY <2>1, <2>2
<1>3. NoLeakedUpstream
  BY DEF HandshakeInv, Upstream, NoLeakedUpstream
<1>. QED
  BY <1>1, <1>2, <1>3

\* A tunnel starts exactly at the first byte after the request: HandshakeInv at the last
\* stage.
THEOREM ConsumedExactly == Spec => []HandshakeConsumedExactly
<1>. QED
  BY HandshakeImplies, HandshakeCorrect, TypeCorrect, PTL

\* No socket is opened towards a destination for a client that has not sent a complete and
\* valid CONNECT request.
THEOREM UpstreamValid == Spec => []UpstreamOnlyForValidConnect
<1>. QED
  BY HandshakeImplies, HandshakeCorrect, TypeCorrect, PTL

\* No upstream socket outlives its task.
THEOREM UpstreamReleased == Spec => []NoLeakedUpstream
<1>. QED
  BY HandshakeImplies, HandshakeCorrect, TypeCorrect, PTL

-----------------------------------------------------------------------------
(* What the client has been told.  SuccessIsTrue, RepliesInOrder and         *)
(* AnsweredUnlessPanic all follow from one strengthening: ReplyInv gives the *)
(* whole reply log of a task as a function of its stage and, for a task that *)
(* has ended, says why it ended with that log.                               *)

Greeted == <<Method(SOCKS5_NO_AUTH)>>
Answered(rep) == <<Method(SOCKS5_NO_AUTH), Final(rep)>>
AnsweredTwice ==
  <<Method(SOCKS5_NO_AUTH), Final(Socks5Error.AddressTypeNotSupported),
    Final(Socks5Error.AddressTypeNotSupported)>>

BeforeMethod == {"accept", "auth_head", "auth_methods", "auth_refuse", "auth_accept"}
BeforeFinal == {"req_head", "req_addr", "refuse_cmd", "refuse_atyp", "resolve", "connect",
                "abort", "ready", "panicked"}

\* The request that is answered twice.
UnknownType(s) == s.cmd = SOCKS5_CMD_CONNECT /\ ~ try_from_ok(s.atyp)

\* Why a task may end without a final response: the client reset its connection, did not
\* ask for a CONNECT the proxy understands, or shut down before it had sent it all.
Excused(c) ==
  \/ peer[c] = "reset" \/ ~ ValidConnect(script[c]) \/ sent[c] < HandshakeLen(script[c])

\* The host names get_request cannot handle.
PanicCause(s, debug) ==
  s.atyp = Socks5AddrType.DOMAIN_NAME /\ (s.b0 >= 254 \/ (debug /\ ~ s.utf8))

Refusal(c) ==
  /\ pc[c] = "auth_refuse" => ~ script[c].noauth
  /\ pc[c] = "refuse_atyp" => UnknownType(script[c])
  /\ pc[c] = "panicked" => PanicCause(script[c], conf.debug)
  /\ conn[c] = "closed" => pc[c] = "closed"

\* A task that has ended: not answered, refused, or refused twice.
ClosedLog(c) ==
  \/ replies[c] \in {<<>>, <<Method(SOCKS5_NO_ACCEPTABLE_METHOD)>>, Greeted} /\ Excused(c)
  \/ \E rep \in Byte \ {Socks5Error.Success} :
       replies[c] = Answered(rep) /\ conn[c] \in {"none", "failed"}
  \/ replies[c] = AnsweredTwice /\ UnknownType(script[c]) /\ conn[c] = "none"

ReplyLog(c) ==
  /\ pc[c] \in BeforeMethod => replies[c] = <<>>
  /\ pc[c] \in BeforeFinal => replies[c] = Greeted
  /\ pc[c] = "refuse_addr" =>
       \/ replies[c] = Greeted
       \/ replies[c] = Answered(Socks5Error.AddressTypeNotSupported) /\ UnknownType(script[c])
  /\ pc[c] = "tunnel" => replies[c] = Answered(Socks5Error.Success)
  /\ pc[c] = "closed" => ClosedLog(c)

ReplyInv == \A c \in Clients : Refusal(c) /\ ReplyLog(c)

\* Nobody has been told anything before it is accepted.
LEMMA ReplyInit == Init => ReplyInv
BY DEF Init, ReplyInv, Refusal, ReplyLog, BeforeMethod, BeforeFinal

\* ReplyInv too speaks of one client at a time, and of what that client has sent and of
\* its connection only once the task has ended.
LEMMA ReplyFrame ==
  ASSUME NEW d \in Clients, Refusal(d) /\ ReplyLog(d),
         conf' = conf, script' = script, pc'[d] = pc[d], conn'[d] = conn[d],
         replies'[d] = replies[d],
         pc[d] = "closed" => sent'[d] = sent[d] /\ peer'[d] = peer[d]
  PROVE  Refusal(d)' /\ ReplyLog(d)'
BY DEF Refusal, ReplyLog, ClosedLog, Excused

\* A failed read or write is excused: with the client's shutdown, fewer bytes than the
\* greeting and the request have arrived.
LEMMA IoErrorExcused ==
  ASSUME TypeOK, HandshakeInv, NEW c \in Clients, IoError(c)
  PROVE  Excused(c)
<1>1. CASE peer[c] = "reset"
  BY <1>1 DEF Excused
<1>2. CASE peer[c] # "reset"
  <2>. DEFINE s == script[c]
  <2>1. pc[c] \in ReadStages /\ sent[c] - consumed[c] < ReadSize(c)
    BY <1>2 DEF IoError, ReadFails
  <2>2. /\ s \in Scripts /\ s.nmethods \in Nat /\ RequestTail(s) \in Nat /\ HandshakeLen(s) \in Nat
        /\ sent[c] \in Nat /\ consumed[c] \in Nat
    BY ScriptFacts DEF TypeOK
  <2>3. s.nmethods + 9 <= HandshakeLen(s)
    <3>1. s \in ScriptType
      BY <2>2, SessionAssumption DEF SessionAssumption
    <3>2. s.b0 \in Nat
      BY <3>1 DEF ScriptType, Byte
    <3>3. AddressLen(s) \in Nat /\ AddressLen(s) >= 1
      BY <3>2 DEF AddressLen, Socks5AddrType
    <3>. QED
      BY <2>2, <3>3 DEF HandshakeLen
  <2>4. ReadPosition(c) /\ Checked(c)
    BY DEF HandshakeInv
  <2>. HIDE DEF s
  <2>5. consumed[c] + ReadSize(c) <= HandshakeLen(s)
    <3>1. CASE pc[c] = "auth_head"
      BY <2>2, <2>3, <2>4, <3>1 DEF ReadPosition, ReadSize
    <3>2. CASE pc[c] = "auth_methods"
      BY <2>2, <2>3, <2>4, <3>2 DEF ReadPosition, ReadSize, s
    <3>3. CASE pc[c] = "req_head"
      BY <2>2, <2>3, <2>4, <3>3 DEF ReadPosition, ReadSize, s
    <3>4. CASE pc[c] = "req_addr"
      <4>1. 7 + s.nmethods + RequestTail(s) = HandshakeLen(s)
        BY <2>2, <2>4, <3>4, TailComplete DEF Checked, ValidConnect, s
      <4>. QED
        BY <2>2, <2>4, <3>4, <4>1 DEF ReadPosition, ReadSize, s
    <3>. QED
      BY <2>1, <3>1, <3>2, <3>3, <3>4 DEF ReadStages
  <2>6. ReadSize(c) \in Nat
    BY <2>1, <2>2 DEF ReadSize, ReadStages, s
  <2>. QED
    BY <2>1, <2>2, <2>5, <2>6 DEF Excused, s
<1>. QED
  BY <1>1, <1>2

\* No OutgoingError is reported as Success.
LEMMA ReasonNotSuccess == \A e \in OutgoingError : get_reason(e) \in Byte \ {Socks5Error.Success}
BY DEF OutgoingError, get_reason, Socks5Error, Byte

\* Where the request header leads, and why.
LEMMA HeadRefuses ==
  ASSUME NEW s \in Scripts, NEW debug
  PROVE  /\ AfterHead(s) = "closed" => ~ ValidConnect(s)
         /\ AfterHead(s) = "refuse_atyp" => UnknownType(s)
         /\ AfterHead(s) = "panicked" => PanicCause(s, debug)
<1>1. s \in ScriptType
  BY SessionAssumption DEF SessionAssumption
<1>2. s.b0 \in Nat
  BY <1>1 DEF ScriptType, Byte
<1>3. s.b0 + 2 > request_buf_len => s.b0 >= 254
  BY <1>2 DEF request_buf_len
<1>. QED
  BY <1>3 DEF AfterHead, ValidConnect, UnknownType, PanicCause

\* The reply logs, one write at a time.
LEMMA WriteLog ==
  /\ \A m : Append(<<>>, Method(m)) = <<Method(m)>>
  /\ \A r : Append(Greeted, Final(r)) = Answered(r)
  /\ Append(Answered(Socks5Error.AddressTypeNotSupported),
            Final(Socks5Error.AddressTypeNotSupported)) = AnsweredTwice
<1>1. ASSUME NEW x PROVE Append(<<>>, x) = <<x>>
  OBVIOUS
<1>2. ASSUME NEW x, NEW y PROVE Append(<<x>>, y) = <<x, y>>
  <2>1. <<x>> \in Seq({x, y}) /\ <<x, y>> \in Seq({x, y})
    OBVIOUS
  <2>2. /\ Append(<<x>>, y) \in Seq({x, y}) /\ Len(Append(<<x>>, y)) = 2
        /\ Append(<<x>>, y)[1] = x /\ Append(<<x>>, y)[2] = y
    BY <2>1, AppendProperties
  <2>. DEFINE a == Append(<<x>>, y)
              b == <<x, y>>
  <2>3. Len(b) = 2 /\ b[1] = x /\ b[2] = y
    OBVIOUS
  <2>. HIDE DEF a, b
  <2>4. Len(a) = Len(b) /\ \A i \in 1..Len(a) : a[i] = b[i]
    BY <2>2, <2>3 DEF a
  <2>5. a = b
    BY <2>1, <2>2, <2>4, SeqEqual DEF a, b
  <2>. QED
    BY <2>5 DEF a, b
<1>3. ASSUME NEW x, NEW y, NEW z PROVE Append(<<x, y>>, z) = <<x, y, z>>
  <2>1. <<x, y>> \in Seq({x, y, z}) /\ <<x, y, z>> \in Seq({x, y, z})
    OBVIOUS
  <2>2. /\ Append(<<x, y>>, z) \in Seq({x, y, z}) /\ Len(Append(<<x, y>>, z)) = 3
        /\ Append(<<x, y>>, z)[1] = x /\ Append(<<x, y>>, z)[2] = y
        /\ Append(<<x, y>>, z)[3] = z
    BY <2>1, AppendProperties
  <2>. DEFINE a == Append(<<x, y>>, z)
              b == <<x, y, z>>
  <2>3. Len(b) = 3 /\ b[1] = x /\ b[2] = y /\ b[3] = z
    OBVIOUS
  <2>. HIDE DEF a, b
  <2>4. Len(a) = Len(b) /\ \A i \in 1..Len(a) : a[i] = b[i]
    BY <2>2, <2>3 DEF a
  <2>5. a = b
    BY <2>1, <2>2, <2>4, SeqEqual DEF a, b
  <2>. QED
    BY <2>5 DEF a, b
<1>. QED
  BY <1>1, <1>2, <1>3 DEF Greeted, Answered, AnsweredTwice

\* Every step preserves ReplyInv.
LEMMA ReplyNext == TypeOK /\ HandshakeInv /\ ReplyInv /\ [Next]_vars => ReplyInv'
<1>. SUFFICES ASSUME TypeOK, HandshakeInv, ReplyInv, [Next]_vars PROVE ReplyInv'
  OBVIOUS
<1>. DEFINE Inv(c) == Refusal(c) /\ ReplyLog(c)
<1>0. \A c \in Clients : Inv(c)
  BY DEF ReplyInv
<1>1. CASE UNCHANGED vars
  BY <1>0, <1>1, ReplyFrame DEF ReplyInv, vars, clientVars
<1>2. ASSUME NEW c \in Clients, next_client(c) \/ TaskStep(c) PROVE ReplyInv'
  <2>0. /\ DOMAIN pc = Clients /\ DOMAIN conn = Clients /\ DOMAIN replies = Clients
        /\ script[c] \in Scripts
    BY DEF TypeOK
  <2>1. /\ conf' = conf /\ script' = script /\ sent' = sent /\ peer' = peer
        /\ \A d \in Clients \ {c} :
             pc'[d] = pc[d] /\ conn'[d] = conn[d] /\ replies'[d] = replies[d]
    BY <1>2, StepLocal
  <2>2. \A d \in Clients \ {c} : Inv(d)'
    BY <1>0, <2>1, ReplyFrame
  <2>3. Inv(c)'
    <3>0. Refusal(c) /\ ReplyLog(c) /\ Checked(c) /\ Upstream(c)
      BY <1>0 DEF HandshakeInv
    <3>. DEFINE noFinal == {<<>>, <<Method(SOCKS5_NO_ACCEPTABLE_METHOD)>>, Greeted}
    <3>a. ASSUME pc'[c] = "closed", replies'[c] \in noFinal, Excused(c)
          PROVE  Inv(c)'
      BY <2>1, <3>a DEF Refusal, ReplyLog, ClosedLog, Excused, BeforeMethod, BeforeFinal
    <3>b. ASSUME pc'[c] = "closed", NEW rep \in Byte \ {Socks5Error.Success},
                 replies'[c] = Answered(rep), conn'[c] \in {"none", "failed"}
          PROVE  Inv(c)'
      BY <2>1, <3>b DEF Refusal, ReplyLog, ClosedLog, BeforeMethod, BeforeFinal
    <3>1. CASE next_client(c)
      <4>1. /\ pc[c] = "accept" /\ pc'[c] = "auth_head"
            /\ replies'[c] = replies[c] /\ conn'[c] = conn[c]
        BY <2>0, <3>1 DEF next_client, Goto
      <4>. QED
        BY <3>0, <4>1 DEF Refusal, ReplyLog, BeforeMethod, BeforeFinal
    <3>2. CASE AuthHead(c)
      <4>1. /\ pc[c] = "auth_head" /\ replies'[c] = replies[c] /\ conn'[c] = conn[c]
            /\ pc'[c] = IF script[c].ver = SOCKS5_PROTOCOL THEN "auth_methods" ELSE "closed"
        BY <2>0, <3>2 DEF AuthHead, Goto
      <4>2. replies[c] = <<>>
        BY <3>0, <4>1 DEF ReplyLog, BeforeMethod
      <4>3. CASE script[c].ver = SOCKS5_PROTOCOL
        BY <3>0, <4>1, <4>2, <4>3 DEF Refusal, ReplyLog, BeforeMethod, BeforeFinal
      <4>4. CASE script[c].ver # SOCKS5_PROTOCOL
        BY <3>a, <4>1, <4>2, <4>4 DEF Excused, ValidConnect
      <4>. QED
        BY <4>3, <4>4
    <3>3. CASE AuthMethods(c)
      <4>1. /\ pc[c] = "auth_methods" /\ replies'[c] = replies[c] /\ conn'[c] = conn[c]
            /\ \/ pc'[c] = "auth_accept"
               \/ ~ script[c].noauth /\ pc'[c] = "auth_refuse"
        BY <2>0, <3>3 DEF AuthMethods, Goto
      <4>. QED
        BY <2>1, <3>0, <4>1 DEF Refusal, ReplyLog, BeforeMethod, BeforeFinal
    <3>4. CASE AuthRefuse(c)
      <4>1. /\ pc[c] = "auth_refuse" /\ pc'[c] = "closed"
            /\ replies'[c] = Append(replies[c], Method(SOCKS5_NO_ACCEPTABLE_METHOD))
        BY <2>0, <3>4 DEF AuthRefuse, write_all, Goto
      <4>2. replies[c] = <<>> /\ ~ script[c].noauth
        BY <3>0, <4>1 DEF Refusal, ReplyLog, BeforeMethod
      <4>. QED
        BY <3>a, <4>1, <4>2, WriteLog DEF Excused, ValidConnect
    <3>5. CASE AuthAccept(c)
      <4>1. /\ pc[c] = "auth_accept" /\ pc'[c] = "req_head" /\ conn'[c] = conn[c]
            /\ replies'[c] = Append(replies[c], Method(SOCKS5_NO_AUTH))
        BY <2>0, <3>5 DEF AuthAccept, write_all, Goto
      <4>2. replies'[c] = Greeted
        BY <3>0, <4>1, WriteLog DEF ReplyLog, BeforeMethod, Greeted
      <4>. QED
        BY <3>0, <4>1, <4>2 DEF Refusal, ReplyLog, BeforeMethod, BeforeFinal
    <3>6. CASE ReqHead(c)
      <4>1. /\ pc[c] = "req_head" /\ replies'[c] = replies[c] /\ conn'[c] = conn[c]
            /\ pc'[c] = AfterHead(script[c])
        BY <2>0, <3>6 DEF ReqHead, Goto
      <4>2. replies[c] = Greeted
        BY <3>0, <4>1 DEF ReplyLog, BeforeFinal
      <4>3. CASE pc'[c] = "closed"
        BY <2>0, <3>a, <4>1, <4>2, <4>3, HeadRefuses DEF Excused
      <4>4. CASE pc'[c] # "closed"
        <5>1. pc'[c] \in {"refuse_cmd", "refuse_atyp", "panicked", "req_addr"}
          BY <4>1, <4>4, HeadChecks
        <5>2. /\ pc'[c] = "refuse_atyp" => UnknownType(script[c])
              /\ pc'[c] = "panicked" => PanicCause(script[c], conf.debug)
          BY <2>0, <4>1, HeadRefuses
        <5>. QED
          BY <2>1, <3>0, <4>1, <4>2, <5>1, <5>2 DEF Refusal, ReplyLog, BeforeMethod, BeforeFinal
      <4>. QED
        BY <4>3, <4>4
    <3>7. CASE ReqAddr(c)
      <4>1. pc[c] = "req_addr" /\ replies'[c] = replies[c] /\ conn'[c] = conn[c]
        BY <2>0, <3>7 DEF ReqAddr
      <4>2. \/ /\ script[c].atyp = Socks5AddrType.DOMAIN_NAME /\ ~ script[c].utf8 /\ conf.debug
               /\ Goto(c, "panicked")
            \/ Goto(c, "refuse_addr") \/ Goto(c, "resolve") \/ Goto(c, "abort")
        BY <3>7, Zenon DEF ReqAddr, Fail
      <4>3. \/ pc'[c] = "panicked" /\ PanicCause(script[c], conf.debug)
            \/ pc'[c] \in {"refuse_addr", "resolve", "abort"}
        <5>1. CASE /\ script[c].atyp = Socks5AddrType.DOMAIN_NAME /\ ~ script[c].utf8 /\ conf.debug
                   /\ Goto(c, "panicked")
          <6>1. PanicCause(script[c], conf.debug)
            BY <5>1, Zenon DEF PanicCause
          <6>. QED
            BY <2>0, <5>1, <6>1 DEF Goto
        <5>2. CASE Goto(c, "refuse_addr") \/ Goto(c, "resolve") \/ Goto(c, "abort")
          BY <2>0, <5>2 DEF Goto
        <5>. QED
          BY <4>2, <5>1, <5>2
      <4>4. replies[c] = Greeted /\ conn[c] = "none"
        BY <3>0, <4>1 DEF ReplyLog, BeforeFinal, Upstream
      <4>. QED
        BY <2>1, <4>1, <4>3, <4>4 DEF Refusal, ReplyLog, BeforeMethod, BeforeFinal
    <3>8. CASE RefuseCmd(c)
      <4>1. /\ pc[c] = "refuse_cmd" /\ pc'[c] = "closed" /\ conn'[c] = conn[c]
            /\ replies'[c] = Append(replies[c], Final(Socks5Error.CommandNotSupported))
        BY <2>0, <3>8 DEF RefuseCmd, write_all, Goto
      <4>2. replies'[c] = Answered(Socks5Error.CommandNotSupported) /\ conn[c] = "none"
        BY <3>0, <4>1, WriteLog DEF ReplyLog, BeforeFinal, Upstream
      <4>. QED
        BY <3>b, <4>1, <4>2 DEF Socks5Error, Byte
    <3>9. CASE RefuseAtyp(c)
      <4>1. /\ pc[c] = "refuse_atyp" /\ pc'[c] = "refuse_addr" /\ conn'[c] = conn[c]
            /\ replies'[c] = Append(replies[c], Final(Socks5Error.AddressTypeNotSupported))
        BY <2>0, <3>9 DEF RefuseAtyp, write_all, Goto
      <4>2. /\ replies'[c] = Answered(Socks5Error.AddressTypeNotSupported)
            /\ UnknownType(script[c])
        BY <3>0, <4>1, WriteLog DEF Refusal, ReplyLog, BeforeFinal
      <4>. QED
        BY <2>1, <3>0, <4>1, <4>2 DEF Refusal, ReplyLog, BeforeMethod, BeforeFinal
    <3>10. CASE RefuseAddr(c)
      <4>1. /\ pc[c] = "refuse_addr" /\ pc'[c] = "closed" /\ conn'[c] = conn[c]
            /\ replies'[c] = Append(replies[c], Final(Socks5Error.AddressTypeNotSupported))
        BY <2>0, <3>10 DEF RefuseAddr, write_all, Goto
      <4>2. conn[c] = "none"
        BY <3>0, <4>1 DEF Upstream
      <4>3. CASE replies[c] = Greeted
        <5>1. replies'[c] = Answered(Socks5Error.AddressTypeNotSupported)
          BY <4>1, <4>3, WriteLog
        <5>. QED
          BY <3>b, <4>1, <4>2, <5>1 DEF Socks5Error, Byte
      <4>4. CASE /\ replies[c] = Answered(Socks5Error.AddressTypeNotSupported)
                 /\ UnknownType(script[c])
        <5>1. replies'[c] = AnsweredTwice
          BY <4>1, <4>4, WriteLog
        <5>. QED
          BY <2>1, <4>1, <4>2, <4>4, <5>1
             DEF Refusal, ReplyLog, ClosedLog, BeforeMethod, BeforeFinal
      <4>. QED
        BY <3>0, <4>1, <4>3, <4>4 DEF ReplyLog
    <3>11. CASE ResolveFails(c) \/ OpenSocketFails(c) \/ StartConnect(c) \/ ConnectFails(c)
                \/ ConnectOk(c)
      <4>1. /\ pc[c] \in {"resolve", "connect"} /\ pc'[c] \in {"abort", "connect", "ready"}
            /\ replies'[c] = replies[c]
            /\ conn'[c] = conn[c] \/ conn'[c] \in {"connecting", "failed", "open"}
        BY <2>0, <3>11 DEF ResolveFails, OpenSocketFails, StartConnect, ConnectFails, ConnectOk,
           Fail, Goto
      <4>. QED
        BY <3>0, <4>1 DEF Refusal, ReplyLog, BeforeMethod, BeforeFinal
    <3>12. CASE abort(c)
      <4>1. /\ pc[c] = "abort" /\ pc'[c] = "closed" /\ conn'[c] = conn[c]
            /\ replies'[c] = Append(replies[c], Final(get_reason(err[c])))
        BY <2>0, <3>12 DEF abort, write_all, Goto
      <4>2. conn[c] \in {"none", "failed"}
        BY <3>0, <4>1 DEF Refusal, Upstream
      <4>3. get_reason(err[c]) \in Byte \ {Socks5Error.Success}
        BY <4>1, ReasonNotSuccess DEF TypeOK
      <4>4. replies'[c] = Answered(get_reason(err[c]))
        BY <3>0, <4>1, WriteLog DEF ReplyLog, BeforeFinal
      <4>. QED
        BY <3>b, <4>1, <4>2, <4>3, <4>4
    <3>13. CASE ready_for_connect(c)
      <4>1. /\ pc[c] = "ready" /\ pc'[c] = "tunnel" /\ conn'[c] = conn[c]
            /\ replies'[c] = Append(replies[c], Final(Socks5Error.Success))
        BY <2>0, <3>13 DEF ready_for_connect, write_all, Goto
      <4>2. replies'[c] = Answered(Socks5Error.Success) /\ conn[c] = "open"
        BY <3>0, <4>1, WriteLog DEF ReplyLog, BeforeFinal, Upstream
      <4>. QED
        BY <3>0, <4>1, <4>2 DEF Refusal, ReplyLog, BeforeMethod, BeforeFinal
    <3>14. CASE IoError(c)
      <4>1. /\ pc[c] \in ReadStages \cup WriteStages /\ pc'[c] = "closed"
            /\ conn'[c] = (IF conn[c] = "open" THEN "closed" ELSE conn[c])
            /\ replies'[c] = replies[c]
        BY <2>0, <3>14 DEF IoError, ReadFails, Goto
      <4>2. Excused(c)
        BY <3>14, IoErrorExcused
      <4>3. \/ replies[c] \in {<<>>, Greeted}
            \/ /\ pc[c] = "refuse_addr"
               /\ replies[c] = Answered(Socks5Error.AddressTypeNotSupported)
        BY <3>0, <4>1 DEF ReplyLog, BeforeMethod, BeforeFinal, ReadStages, WriteStages
      <4>4. CASE replies[c] \in {<<>>, Greeted}
        BY <3>a, <4>1, <4>2, <4>4
      <4>5. CASE /\ pc[c] = "refuse_addr"
                 /\ replies[c] = Answered(Socks5Error.AddressTypeNotSupported)
        <5>1. conn'[c] = "none"
          BY <3>0, <4>1, <4>5 DEF Upstream
        <5>. QED
          BY <3>b, <4>1, <4>5, <5>1 DEF Socks5Error, Byte
      <4>. QED
        BY <4>3, <4>4, <4>5
    <3>. QED
      BY <1>2, <3>1, <3>2, <3>3, <3>4, <3>5, <3>6, <3>7, <3>8, <3>9, <3>10, <3>11, <3>12,
         <3>13, <3>14 DEF TaskStep, Handshake
  <2>. QED
    BY <2>2, <2>3 DEF ReplyInv
<1>3. ASSUME NEW c \in Clients, ClientStep(c) PROVE ReplyInv'
  <2>1. /\ UNCHANGED <<conf, script, pc, conn, replies>>
        /\ \A d \in Clients : pc[d] = "closed" => sent'[d] = sent[d] /\ peer'[d] = peer[d]
    BY <1>3 DEF ClientStep, ClientSend, ClientShutdown, ClientReset, Settled, Ended, TypeOK
  <2>. QED
    BY <1>0, <2>1, ReplyFrame DEF ReplyInv
<1>. QED
  BY <1>1, <1>2, <1>3 DEF Next, AllSettled

\* ReplyInv is an invariant: at every await, what the client has been told is determined by
\* the stage, and a task that has ended has answered or had a reason not to.
THEOREM RepliesCorrect == Spec => []ReplyInv
<1>. QED
  BY ReplyInit, ReplyNext, TypeCorrect, HandshakeCorrect, PTL DEF Spec

\* The logs a task can have, by their length; the log says what FinalReplies are.
LEMMA LogShapes ==
  /\ \A m : <<Method(m)>>[1].kind = "method" /\ DOMAIN <<Method(m)>> = {1}
  /\ \A r : /\ DOMAIN Answered(r) = {1, 2} /\ Len(Answered(r)) = 2
            /\ Answered(r)[1] = Method(SOCKS5_NO_AUTH) /\ Answered(r)[2] = Final(r)
  /\ DOMAIN AnsweredTwice = {1, 2, 3}
  /\ AnsweredTwice[1] = Method(SOCKS5_NO_AUTH)
  /\ AnsweredTwice[2] = Final(Socks5Error.AddressTypeNotSupported)
  /\ AnsweredTwice[3] = Final(Socks5Error.AddressTypeNotSupported)
  /\ \A m : Method(m).kind = "method" /\ Final(m).kind = "final" /\ Final(m).code = m
BY DEF Answered, AnsweredTwice, Method, Final

\* Whatever the stage, the log is one of five.
LEMMA LogCases ==
  ASSUME TypeOK, ReplyInv, NEW c \in Clients
  PROVE  \/ replies[c] = <<>>
         \/ replies[c] = <<Method(SOCKS5_NO_ACCEPTABLE_METHOD)>>
         \/ replies[c] = Greeted
         \/ \E rep \in Byte : replies[c] = Answered(rep)
         \/ replies[c] = AnsweredTwice /\ UnknownType(script[c])
<1>1. pc[c] \in Stages
  BY DEF TypeOK
<1>2. Refusal(c) /\ ReplyLog(c)
  BY DEF ReplyInv
<1>3. {Socks5Error.Success, Socks5Error.AddressTypeNotSupported} \subseteq Byte
  BY DEF Socks5Error, Byte
<1>4. CASE pc[c] \in BeforeMethod \cup BeforeFinal
  BY <1>2, <1>4 DEF ReplyLog
<1>5. CASE pc[c] \in {"refuse_addr", "tunnel"}
  BY <1>2, <1>3, <1>5 DEF ReplyLog
<1>6. CASE pc[c] = "closed"
  BY <1>2, <1>6 DEF ReplyLog, ClosedLog
<1>. QED
  BY <1>1, <1>4, <1>5, <1>6
     DEF Stages, ReadStages, WriteStages, Settled, Ended, BeforeMethod, BeforeFinal

\* Every client's replies are one method selection and then at most one final response;
\* only a CONNECT with an unknown address type is answered twice.
THEOREM RepliesOrdered == Spec => []RepliesInOrder
<1>1. TypeOK /\ ReplyInv => RepliesInOrder
  <2>. SUFFICES ASSUME TypeOK, ReplyInv, NEW c \in Clients
                PROVE  /\ \A i \in DOMAIN replies[c] :
                            /\ replies[c][i].kind = "method" <=> i = 1
                            /\ replies[c][i].kind = "final" =>
                                 replies[c][1] = Method(SOCKS5_NO_AUTH)
                       /\ Len(replies[c]) > 2 => UnknownType(script[c]) /\ replies[c] = AnsweredTwice
    BY DEF RepliesInOrder, UnknownType, AnsweredTwice
  <2>1. CASE replies[c] = <<>>
    BY <2>1
  <2>2. CASE replies[c] = <<Method(SOCKS5_NO_ACCEPTABLE_METHOD)>>
    BY <2>2 DEF Method
  <2>3. CASE replies[c] = Greeted
    BY <2>3 DEF Greeted, Method
  <2>4. CASE \E rep \in Byte : replies[c] = Answered(rep)
    <3>1. PICK rep \in Byte : replies[c] = Answered(rep)
      BY <2>4
    <3>2. /\ DOMAIN replies[c] = {1, 2} /\ Len(replies[c]) = 2
          /\ replies[c][1] = Method(SOCKS5_NO_AUTH) /\ replies[c][2] = Final(rep)
      BY <3>1, LogShapes
    <3>3. replies[c][1].kind = "method" /\ replies[c][2].kind = "final"
      BY <3>2, LogShapes
    <3>. QED
      BY <3>2, <3>3
  <2>5. CASE replies[c] = AnsweredTwice /\ UnknownType(script[c])
    BY <2>5, LogShapes
  <2>. QED
    BY <2>1, <2>2, <2>3, <2>4, <2>5, LogCases
<1>. QED
  BY <1>1, TypeCorrect, RepliesCorrect, PTL

\* Success is answered exactly to the clients whose upstream connection was established.
THEOREM SuccessTrue == Spec => []SuccessIsTrue
<1>1. TypeOK /\ HandshakeInv /\ ReplyInv => SuccessIsTrue
  <2>. SUFFICES ASSUME TypeOK, HandshakeInv, ReplyInv, NEW c \in Clients,
                       NEW i \in FinalReplies(c)
                PROVE  replies[c][i].code = Socks5Error.Success <=> conn[c] \in {"open", "closed"}
    BY DEF SuccessIsTrue
  <2>1. i \in DOMAIN replies[c] /\ replies[c][i].kind = "final"
    BY DEF FinalReplies
  <2>2. Refusal(c) /\ ReplyLog(c) /\ Upstream(c)
    BY DEF ReplyInv, HandshakeInv
  <2>3. /\ replies[c] # <<>> /\ replies[c] # <<Method(SOCKS5_NO_ACCEPTABLE_METHOD)>>
        /\ replies[c] # Greeted
    BY <2>1, LogShapes DEF Greeted
  <2>4. pc[c] \in {"refuse_addr", "tunnel", "closed"}
    <3>1. pc[c] \in Stages
      BY DEF TypeOK
    <3>2. pc[c] \notin BeforeMethod \cup BeforeFinal
      BY <2>2, <2>3 DEF ReplyLog
    <3>. QED
      BY <3>1, <3>2 DEF Stages, ReadStages, WriteStages, Settled, Ended, BeforeMethod, BeforeFinal
  <2>5. Socks5Error.AddressTypeNotSupported # Socks5Error.Success
    BY DEF Socks5Error
  <2>6. CASE pc[c] = "tunnel"
    BY <2>1, <2>2, <2>6, LogShapes DEF ReplyLog, Upstream
  <2>7. CASE pc[c] = "refuse_addr"
    BY <2>1, <2>2, <2>3, <2>5, <2>7, LogShapes DEF ReplyLog, Upstream
  <2>8. CASE pc[c] = "closed"
    <3>1. \/ \E rep \in Byte \ {Socks5Error.Success} :
               replies[c] = Answered(rep) /\ conn[c] \in {"none", "failed"}
          \/ replies[c] = AnsweredTwice /\ conn[c] = "none"
      BY <2>2, <2>3, <2>8 DEF ReplyLog, ClosedLog
    <3>2. replies[c][i].code # Socks5Error.Success
      BY <2>1, <2>5, <3>1, LogShapes
    <3>. QED
      BY <3>1, <3>2
  <2>. QED
    BY <2>4, <2>6, <2>7, <2>8
<1>. QED
  BY <1>1, TypeCorrect, HandshakeCorrect, RepliesCorrect, PTL

\* A client that sent a complete CONNECT and kept its connection is answered before its
\* task ends, unless the task panics on its host name.
THEOREM AnsweredOrPanic == Spec => []AnsweredUnlessPanic
<1>1. TypeOK /\ ReplyInv => AnsweredUnlessPanic
  <2>. SUFFICES ASSUME TypeOK, ReplyInv PROVE AnsweredUnlessPanic
    OBVIOUS
  <2>0. \A c \in Clients : sent[c] \in Nat /\ HandshakeLen(script[c]) \in Nat
    BY ScriptFacts DEF TypeOK
  <2>. SUFFICES ASSUME NEW c \in Clients, pc[c] \in Ended, ~ Excused(c), ~ FinalSent(c)
                PROVE  pc[c] = "panicked" /\ PanicCause(script[c], conf.debug)
    BY <2>0 DEF AnsweredUnlessPanic, Excused, PanicCause
  <2>1. Refusal(c) /\ ReplyLog(c)
    BY DEF ReplyInv
  <2>2. CASE pc[c] = "panicked"
    BY <2>1, <2>2 DEF Refusal
  <2>3. CASE pc[c] = "closed"
    <3>1. (\E rep \in Byte : replies[c] = Answered(rep)) \/ replies[c] = AnsweredTwice
      BY <2>1, <2>3 DEF ReplyLog, ClosedLog
    <3>2. 2 \in FinalReplies(c)
      BY <3>1, LogShapes DEF FinalReplies
    <3>. QED
      BY <3>2 DEF FinalSent
  <2>. QED
    BY <2>2, <2>3 DEF Ended
<1>. QED
  BY <1>1, TypeCorrect, RepliesCorrect, PTL

-----------------------------------------------------------------------------
(* The sessions inside the process.                                          *)

\* A step of the process is, for the sessions, a step of Socks5Session or the end of one
\* task.
LEMMA SessionStep ==
  ASSUME [ServerNext]_allVars
  PROVE  [Next]_vars \/ \E c \in Clients : CloseTask(c)
<1>1. CASE UNCHANGED allVars
  BY <1>1 DEF allVars
<1>2. CASE main_start \/ main_fails \/ Exit \/ Quiet
  BY <1>2 DEF main_start, main_fails, Exit, Quiet, allVars
<1>3. ASSUME NEW c \in Clients, Accept(c) \/ AcceptError(c) \/ Run(c) \/ Client(c)
      PROVE  [Next]_vars
  BY <1>3 DEF Accept, AcceptError, Run, Client, Next, TaskStep
<1>4. ASSUME NEW c \in Clients, TunnelEnds(c) \/ DropTask(c) PROVE CloseTask(c)
  BY <1>4 DEF TunnelEnds, DropTask
<1>. QED
  BY <1>1, <1>2, <1>3, <1>4 DEF ServerNext

\* Ending a task keeps the types.
LEMMA CloseType ==
  ASSUME TypeOK, NEW c \in Clients, CloseTask(c)
  PROVE  TypeOK'
<1>1. /\ pc' = [pc EXCEPT ![c] = "closed"]
      /\ conn' = [conn EXCEPT ![c] = IF @ \in {"open", "connecting"} THEN "closed" ELSE @]
      /\ UNCHANGED <<conf, script, sent, peer, consumed, replies, err, errno>>
  BY DEF CloseTask, Goto, clientVars
<1>2. "closed" \in Stages
  BY DEF Stages, Settled, Ended
<1>3. /\ pc' \in [Clients -> Stages]
      /\ conn' \in [Clients -> {"none", "connecting", "failed", "open", "closed"}]
      /\ \A d \in Clients : pc'[d] = "abort" => err'[d] \in OutgoingError
  BY <1>1, <1>2 DEF TypeOK
<1>. QED
  BY <1>1, <1>3 DEF TypeOK

\* Ending a task at any await keeps HandshakeInv: its upstream socket is closed with it.
LEMMA CloseHandshake ==
  ASSUME TypeOK, HandshakeInv, NEW c \in Clients, CloseTask(c)
  PROVE  HandshakeInv'
<1>0. DOMAIN pc = Clients /\ DOMAIN conn = Clients
  BY DEF TypeOK
<1>1. /\ pc' = [pc EXCEPT ![c] = "closed"]
      /\ conn' = [conn EXCEPT ![c] = IF @ \in {"open", "connecting"} THEN "closed" ELSE @]
      /\ conf' = conf /\ script' = script /\ consumed' = consumed
  BY DEF CloseTask, Goto, clientVars
<1>. SUFFICES ASSUME NEW d \in Clients PROVE ReadPosition(d)' /\ Checked(d)' /\ Upstream(d)'
  BY DEF HandshakeInv
<1>2. ReadPosition(d) /\ Checked(d) /\ Upstream(d)
  BY DEF HandshakeInv
<1>3. CASE d # c
  BY <1>0, <1>1, <1>2, <1>3, Frame
<1>4. CASE d = c
  <2>1. /\ pc'[d] = "closed" /\ conn'[d] \in {"none", "failed", "closed"}
        /\ conn'[d] # "none" => conn[d] # "none"
    <3>1. conn[d] \in {"none", "connecting", "failed", "open", "closed"}
      BY DEF TypeOK
    <3>. QED
      BY <1>0, <1>1, <1>4, <3>1
  <2>. QED
    BY <1>1, <1>2, <2>1 DEF ReadPosition, Checked, Upstream, Outbound
<1>. QED
  BY <1>3, <1>4

\* The invariants of a session hold of every session of the process.
LEMMA SessionsCorrect == ServerSpec => [](TypeOK /\ HandshakeInv)
<1>1. ServerInit => TypeOK /\ HandshakeInv
  BY TypeInit, HandshakeInit DEF ServerInit
<1>2. TypeOK /\ HandshakeInv /\ [ServerNext]_allVars => TypeOK' /\ HandshakeInv'
  BY SessionStep, TypeNext, HandshakeNext, CloseType, CloseHandshake
<1>. QED
  BY <1>1, <1>2, PTL DEF ServerSpec

\* What is promised of one session's upstream socket and of where its tunnel starts holds
\* of all sessions together, when descriptors run out and when the process ends.
THEOREM SessionsInProcess ==
  ServerSpec =>
    [](HandshakeConsumedExactly /\ UpstreamOnlyForValidConnect /\ NoLeakedUpstream)
<1>1. TypeOK /\ HandshakeInv =>
        HandshakeConsumedExactly /\ UpstreamOnlyForValidConnect /\ NoLeakedUpstream
  BY HandshakeImplies
<1>. QED
  BY <1>1, SessionsCorrect, PTL

-----------------------------------------------------------------------------
(* Descriptors.                                                              *)

\* The sockets towards destinations.
Sockets == {c \in Clients : conn[c] \in {"connecting", "open"}}

\* The counts are of finite sets whatever Clients is: a task exists only once accepted.
FdInv == limit \in Nat \ {0} /\ IsFiniteSet(Tasks) /\ IsFiniteSet(Sockets) /\ Used <= limit

\* main starts with the listener alone.
LEMMA FdInit == ServerInit => FdInv
<1>. SUFFICES ASSUME ServerInit PROVE FdInv
  OBVIOUS
<1>1. Tasks = {} /\ Sockets = {}
  BY DEF ServerInit, Init, Tasks, Sockets, Ended
<1>2. limit \in Nat \ {0}
  BY ServerAssumption DEF ServerInit, ServerAssumption
<1>3. Used = 1
  BY <1>1, FS_EmptySet DEF Used, Sockets
<1>. QED
  BY <1>1, <1>2, <1>3, FS_EmptySet DEF FdInv

\* A step after which there are no more tasks and no more sockets than before.
LEMMA FdShrink ==
  ASSUME FdInv, limit' = limit, Tasks' \subseteq Tasks, Sockets' \subseteq Sockets
  PROVE  FdInv'
<1>1. /\ IsFiniteSet(Tasks') /\ Cardinality(Tasks') <= Cardinality(Tasks)
      /\ IsFiniteSet(Sockets') /\ Cardinality(Sockets') <= Cardinality(Sockets)
  BY FS_Subset DEF FdInv
<1>2. /\ Cardinality(Tasks') \in Nat /\ Cardinality(Tasks) \in Nat
      /\ Cardinality(Sockets') \in Nat /\ Cardinality(Sockets) \in Nat
  BY <1>1, FS_CardinalityType DEF FdInv
<1>3. /\ Used = 1 + Cardinality(Tasks) + Cardinality(Sockets)
      /\ Used' = 1 + Cardinality(Tasks') + Cardinality(Sockets')
  BY DEF Used, Sockets
<1>. QED
  BY <1>1, <1>2, <1>3 DEF FdInv

\* A step that opens one descriptor, with one free.
LEMMA FdGrow ==
  ASSUME FdInv, FdFree, limit' = limit, NEW c,
         \/ Tasks' = Tasks \cup {c} /\ Sockets' = Sockets
         \/ Tasks' = Tasks /\ Sockets' = Sockets \cup {c}
  PROVE  FdInv'
<1>1. /\ IsFiniteSet(Tasks) /\ IsFiniteSet(Sockets)
      /\ Cardinality(Tasks) \in Nat /\ Cardinality(Sockets) \in Nat
  BY FS_CardinalityType DEF FdInv
<1>2. /\ Used = 1 + Cardinality(Tasks) + Cardinality(Sockets)
      /\ Used' = 1 + Cardinality(Tasks') + Cardinality(Sockets')
  BY DEF Used, Sockets
<1>3. /\ IsFiniteSet(Tasks \cup {c})
      /\ Cardinality(Tasks \cup {c}) = Cardinality(Tasks)
         \/ Cardinality(Tasks \cup {c}) = Cardinality(Tasks) + 1
  <2>1. c \in Tasks => Tasks \cup {c} = Tasks
    OBVIOUS
  <2>. QED
    BY <1>1, <2>1, FS_AddElement
<1>4. /\ IsFiniteSet(Sockets \cup {c})
      /\ Cardinality(Sockets \cup {c}) = Cardinality(Sockets)
         \/ Cardinality(Sockets \cup {c}) = Cardinality(Sockets) + 1
  <2>1. c \in Sockets => Sockets \cup {c} = Sockets
    OBVIOUS
  <2>. QED
    BY <1>1, <2>1, FS_AddElement
<1>5. /\ IsFiniteSet(Tasks') /\ IsFiniteSet(Sockets')
      /\ Used' = Used \/ Used' = Used + 1
  <2>1. CASE Tasks' = Tasks \cup {c} /\ Sockets' = Sockets
    BY <1>1, <1>2, <1>3, <2>1
  <2>2. CASE Tasks' = Tasks /\ Sockets' = Sockets \cup {c}
    BY <1>1, <1>2, <1>4, <2>2
  <2>. QED
    BY <2>1, <2>2
<1>6. Used \in Nat /\ limit \in Nat \ {0} /\ Used < limit /\ limit' = limit
  BY <1>1, <1>2 DEF FdInv, FdFree
<1>7. Used' <= limit'
  BY <1>5, <1>6
<1>. QED
  BY <1>5, <1>6, <1>7 DEF FdInv

\* No step of the handshake but starting a connect opens a descriptor: a connect that
\* succeeds turns the socket it has into the tunnel's.
LEMMA HandshakeOpensNothing ==
  ASSUME TypeOK, HandshakeInv, NEW c \in Clients,
         Handshake(c) \/ ResolveFails(c) \/ OpenSocketFails(c) \/ CloseTask(c)
  PROVE  Tasks' \subseteq Tasks /\ Sockets' \subseteq Sockets
<1>0. DOMAIN pc = Clients /\ DOMAIN conn = Clients
  BY DEF TypeOK
<1>1. /\ pc[c] \notin Ended \cup {"accept"} \/ pc'[c] = "closed"
      /\ \A d \in Clients \ {c} : pc'[d] = pc[d]
      /\ conn'[c] \in {"connecting", "open"} => conn[c] \in {"connecting", "open"}
      /\ \A d \in Clients \ {c} : conn'[d] = conn[d]
  <2>1. CASE AuthHead(c) \/ AuthMethods(c) \/ AuthRefuse(c) \/ AuthAccept(c) \/ ReqHead(c)
             \/ RefuseCmd(c) \/ RefuseAtyp(c) \/ RefuseAddr(c) \/ abort(c) \/ ready_for_connect(c)
    BY <1>0, <2>1 DEF AuthHead, AuthMethods, AuthRefuse, AuthAccept, ReqHead, RefuseCmd, RefuseAtyp,
       RefuseAddr, abort, ready_for_connect, Goto, Ended
  <2>2. CASE ReqAddr(c)
    <3>1. pc[c] = "req_addr" /\ conn' = conn /\ \E st : Goto(c, st)
      BY <2>2 DEF ReqAddr, Fail
    <3>. QED
      BY <1>0, <3>1 DEF Goto, Ended
  <2>3. CASE ResolveFails(c) \/ OpenSocketFails(c)
    BY <1>0, <2>3 DEF ResolveFails, OpenSocketFails, Fail, Goto, Ended
  <2>4. CASE CloseTask(c)
    BY <1>0, <2>4 DEF CloseTask, Goto
  <2>5. CASE ConnectFails(c)
    BY <1>0, <2>5 DEF ConnectFails, Fail, Goto, Ended
  <2>6. CASE IoError(c)
    BY <1>0, <2>6 DEF IoError, Goto
  <2>7. CASE ConnectOk(c)
    <3>1. conn[c] = "connecting"
      BY <2>7 DEF ConnectOk, HandshakeInv, Upstream, Ended
    <3>. QED
      BY <1>0, <2>7, <3>1 DEF ConnectOk, Goto, Ended
  <2>. QED
    BY <2>1, <2>2, <2>3, <2>4, <2>5, <2>6, <2>7 DEF Handshake
<1>2. Tasks' \subseteq Tasks
  BY <1>1 DEF Tasks, Ended
<1>3. Sockets' \subseteq Sockets
  BY <1>1 DEF Sockets
<1>. QED
  BY <1>2, <1>3

\* Each step of the process keeps within the limit.
LEMMA FdNext ==
  ASSUME TypeOK, HandshakeInv, FdInv, [ServerNext]_allVars
  PROVE  FdInv'
<1>0. DOMAIN pc = Clients /\ DOMAIN conn = Clients
  BY DEF TypeOK
<1>1. ASSUME pc' = pc, conn' = conn, limit' = limit PROVE FdInv'
  BY <1>1, FdShrink DEF Tasks, Sockets
<1>2. CASE UNCHANGED allVars
  BY <1>1, <1>2 DEF allVars, vars, serverVars
<1>3. CASE main_start \/ main_fails \/ Exit \/ Quiet
  BY <1>1, <1>3 DEF main_start, main_fails, Exit, Quiet, allVars, vars, serverVars
<1>4. ASSUME NEW c \in Clients, AcceptError(c) \/ Client(c) PROVE FdInv'
  BY <1>1, <1>4 DEF AcceptError, Client, ClientStep, ClientSend, ClientShutdown, ClientReset,
     vars, serverVars
<1>5. ASSUME NEW c \in Clients, Accept(c) PROVE FdInv'
  <2>1. /\ FdFree /\ limit' = limit /\ conn' = conn
        /\ pc[c] = "accept" /\ pc' = [pc EXCEPT ![c] = "auth_head"]
    BY <1>5 DEF Accept, next_client, Goto, serverVars
  <2>2. Tasks' = Tasks \cup {c} /\ Sockets' = Sockets
    BY <1>0, <2>1 DEF Tasks, Sockets, Ended
  <2>. QED
    BY <2>1, <2>2, FdGrow
<1>6. ASSUME NEW c \in Clients, Run(c) PROVE FdInv'
  <2>1. limit' = limit
    BY <1>6 DEF Run, serverVars
  <2>2. CASE Handshake(c) \/ ResolveFails(c) \/ OpenSocketFails(c)
    BY <2>1, <2>2, HandshakeOpensNothing, FdShrink
  <2>3. CASE FdFree /\ StartConnect(c)
    <3>1. /\ pc[c] = "resolve" /\ pc' = [pc EXCEPT ![c] = "connect"]
          /\ conn' = [conn EXCEPT ![c] = "connecting"]
      BY <2>3 DEF StartConnect, Goto
    <3>2. Tasks' = Tasks /\ Sockets' = Sockets \cup {c}
      BY <1>0, <3>1 DEF Tasks, Sockets, Ended
    <3>. QED
      BY <2>1, <2>3, <3>2, FdGrow
  <2>. QED
    BY <1>6, <2>2, <2>3 DEF Run
<1>7. ASSUME NEW c \in Clients, TunnelEnds(c) \/ DropTask(c) PROVE FdInv'
  <2>1. limit' = limit /\ CloseTask(c)
    BY <1>7 DEF TunnelEnds, DropTask, serverVars
  <2>. QED
    BY <2>1, HandshakeOpensNothing, FdShrink
<1>. QED
  BY <1>2, <1>3, <1>4, <1>5, <1>6, <1>7 DEF ServerNext

\* The process never holds more descriptors than its limit.
LEMMA FdCorrect == ServerSpec => []FdInv
<1>1. TypeOK /\ HandshakeInv /\ FdInv /\ [ServerNext]_allVars => FdInv'
  BY FdNext
<1>. QED
  BY FdInit, <1>1, SessionsCorrect, PTL DEF ServerSpec

\* The sockets towards destinations are those of the sessions that need one, so a process
\* without a free descriptor has none that a live session does not need.
LEMMA FullMeansNeeded ==
  ASSUME HandshakeInv, FdInv, ~ FdFree
  PROVE  Needed = limit
<1>1. Sockets = {c \in Clients : pc[c] \in {"connect", "ready", "tunnel"}}
  BY DEF Sockets, HandshakeInv, Upstream
<1>2. Used = 1 + Cardinality(Tasks) + Cardinality(Sockets)
  BY DEF Used, Sockets
<1>3. Needed = Used
  BY <1>1, <1>2 DEF Needed
<1>4. Used \in Nat /\ limit \in Nat
  <2>1. Cardinality(Tasks) \in Nat /\ Cardinality(Sockets) \in Nat
    BY FS_CardinalityType DEF FdInv
  <2>. QED
    BY <1>2, <2>1 DEF FdInv
<1>5. Used <= limit /\ ~ (Used < limit)
  BY DEF FdInv, FdFree
<1>. QED
  BY <1>3, <1>4, <1>5

\* A step that turns a client away, or ends the loop with no reset connection in the queue,
\* finds no free descriptor.
LEMMA TurnsAwayWhenFull ==
  ASSUME TypeOK, [ServerNext]_allVars, TurnsAway
  PROVE  ~ FdFree
<1>0. DOMAIN errno = Clients
  BY DEF TypeOK
<1>1. CASE UNCHANGED allVars
  BY <1>1 DEF TurnsAway, allVars, vars, serverVars
<1>2. CASE main_start \/ main_fails \/ Exit \/ Quiet
  BY <1>2 DEF TurnsAway, main_start, main_fails, Exit, Quiet, allVars, vars, serverVars
<1>3. ASSUME NEW c \in Clients, AcceptError(c) PROVE ~ FdFree
  BY <1>3 DEF TurnsAway, AcceptError, vars
<1>4. ASSUME NEW c \in Clients, Accept(c) \/ Client(c) \/ TunnelEnds(c) \/ DropTask(c) PROVE FALSE
  <2>1. errno' = errno /\ server' = server
    BY <1>4 DEF Accept, next_client, Client, ClientStep, ClientSend, ClientShutdown, ClientReset,
       TunnelEnds, DropTask, CloseTask, serverVars
  <2>. QED
    BY <2>1 DEF TurnsAway
<1>5. ASSUME NEW c \in Clients, Run(c) PROVE ~ FdFree
  <2>1. server' = server
    BY <1>5 DEF Run, serverVars
  <2>2. PICK d \in Clients : errno'[d] = Errno.EMFILE /\ errno[d] # Errno.EMFILE
    BY <2>1 DEF TurnsAway
  <2>3. ASSUME Handshake(c) \/ ResolveFails(c) \/ StartConnect(c) PROVE FALSE
    <3>1. CASE ConnectFails(c)
      <4>1. PICK e \in {Errno.ENETUNREACH, Errno.ETIMEDOUT, Errno.ECONNREFUSED, Errno.EHOSTUNREACH} :
                   errno' = [errno EXCEPT ![c] = e]
        BY <3>1 DEF ConnectFails
      <4>2. e # Errno.EMFILE
        BY DEF Errno
      <4>. QED
        BY <1>0, <2>2, <4>1, <4>2
    <3>2. CASE ~ ConnectFails(c)
      <4>1. errno' = errno
        BY <2>3, <3>2 DEF Handshake, AuthHead, AuthMethods, AuthRefuse, AuthAccept, ReqHead, ReqAddr,
           RefuseCmd, RefuseAtyp, RefuseAddr, ConnectOk, abort, ready_for_connect, IoError,
           ResolveFails, StartConnect
      <4>. QED
        BY <2>2, <4>1
    <3>. QED
      BY <3>1, <3>2
  <2>. QED
    BY <1>5, <2>3 DEF Run
<1>. QED
  BY <1>1, <1>2, <1>3, <1>4, <1>5 DEF ServerNext

\* A connect fails with EMFILE, or main's accept loop ends for want of a descriptor, only
\* while the live sessions need all descriptors of the process, however many clients there
\* are and whatever the limit: no ended session keeps a socket from the others.
THEOREM FullWithLive == ServerSpec => FullOnlyWithLive
<1>1. TypeOK /\ HandshakeInv /\ FdInv /\ [ServerNext]_allVars => [TurnsAway => Needed = limit]_allVars
  BY FullMeansNeeded, TurnsAwayWhenFull
<1>. QED
  BY <1>1, SessionsCorrect, FdCorrect, PTL DEF ServerSpec, FullOnlyWithLive
=============================================================================
