--------------------------- MODULE Socks5Session ---------------------------
(***************************************************************************)
(* One task per SOCKS5 client: handle_client (client_manager.rs) over      *)
(* Socks5Connected (socks5/incoming.rs) and DirectOutgoing (outgoing.rs),  *)
(* from accept to the moment bicopy takes over.  A step runs from one      *)
(* .await to the next, so every point where the tokio scheduler can        *)
(* interleave tasks, or the peer can act, is a state of the model.         *)
(*                                                                         *)
(* A client's byte stream is abstracted to a script: the values of the     *)
(* fields the code looks at, and how many bytes there are.  `sent` counts  *)
(* the bytes that have reached the server's socket, `consumed` the bytes   *)
(* the task has read; segmentation is the choice of chunk sizes.           *)
(***************************************************************************)
EXTENDS Integers, Sequences, FiniteSets, Socks5Wire

CONSTANTS
  Clients,      \* TCP clients of the proxy
  Scripts,      \* what a client may send (a subset of ScriptType)
  Configs,      \* process configurations (a subset of ConfigType)
  ChunkSizes    \* how many bytes may arrive at once

ScriptType ==
  [ver : Byte, nmethods : Byte, noauth : BOOLEAN,      \* greeting; noauth: NO_AUTH offered
   rver : Byte, cmd : Byte, atyp : Byte, b0 : Byte,    \* request; b0: first address byte
   utf8 : BOOLEAN,                                     \* the host name is valid UTF-8
   payload : Nat]                                      \* bytes after the request

\* outgoing: OutgoingConfig.type; debug: the log level lets debug! format its arguments
ConfigType == [outgoing : {"Direct", "Rocks", "Ignore"}, debug : BOOLEAN]

ASSUME SessionAssumption ==
  /\ Scripts \subseteq ScriptType
  /\ \A s \in Scripts : s.noauth => s.nmethods > 0
  /\ Configs \subseteq ConfigType
  /\ ChunkSizes \subseteq Nat \ {0}

VARIABLES
  conf,       \* the configuration main read at startup
  script,     \* script[c]: what client c sends
  sent,       \* sent[c]: bytes of it that reached the server
  peer,       \* peer[c]: "open", "eof" (client shut its write side), "reset"
  consumed,   \* consumed[c]: bytes the task has read
  pc,         \* pc[c]: the await the task is suspended at
  replies,    \* replies[c]: messages written to the client
  conn,       \* conn[c]: the outgoing TcpStream
  err,        \* err[c]: the OutgoingError handed to abort
  errno       \* errno[c]: the OS error connect returned (0: none)

clientVars == <<script, sent, peer>>
vars == <<conf, clientVars, consumed, pc, replies, conn, err, errno>>

-----------------------------------------------------------------------------
\* The wire layout.

request_buf_len == 255          \* let mut buf = [0; 255]

BadRequestTail(s) ==
  CASE s.atyp = Socks5AddrType.IPV4        -> 5
    [] s.atyp = Socks5AddrType.IPV6        -> 16
    [] s.atyp = Socks5AddrType.DOMAIN_NAME -> s.b0 + 2
    [] OTHER                               -> 0

\* What get_request reads after the first five bytes: buf[5..10], buf[5..22] or
\* buf[0..addr_len + 2] (nothing for an address type it does not know).
RequestTail(s) ==
  CASE s.atyp = Socks5AddrType.IPV4        -> 5
    [] s.atyp = Socks5AddrType.IPV6        -> 17
    [] s.atyp = Socks5AddrType.DOMAIN_NAME -> s.b0 + 2
    [] OTHER                               -> 0

\* The client's side of RFC 1928, stated without reference to the code: greeting
\* (VER NMETHODS METHODS), then VER CMD RSV ATYP, the address and a two-byte port.
AddressLen(s) ==
  CASE s.atyp = Socks5AddrType.IPV4        -> 4
    [] s.atyp = Socks5AddrType.IPV6        -> 16
    [] s.atyp = Socks5AddrType.DOMAIN_NAME -> 1 + s.b0
    [] OTHER                               -> 1      \* no such address type: an arbitrary byte
HandshakeLen(s) == (2 + s.nmethods) + 4 + AddressLen(s) + 2
StreamLen(s) == HandshakeLen(s) + s.payload

Method(m) == [kind |-> "method", code |-> m]
Final(rep) == [kind |-> "final", code |-> rep]

-----------------------------------------------------------------------------
\* Stages: the awaits of handle_client, named after the call that suspends.

ReadStages == {"auth_head", "auth_methods", "req_head", "req_addr"}
WriteStages ==
  {"auth_refuse", "auth_accept", "refuse_cmd", "refuse_atyp", "refuse_addr", "abort", "ready"}
Ended == {"closed", "panicked"}       \* the task is over and its TcpStreams are dropped
Settled == Ended \cup {"tunnel"}      \* "tunnel": bicopy has both streams
Stages == {"accept", "resolve", "connect"} \cup ReadStages \cup WriteStages \cup Settled

Init ==
  /\ conf \in Configs
  /\ script \in [Clients -> Scripts]
  /\ sent = [c \in Clients |-> 0]
  /\ peer = [c \in Clients |-> "open"]
  /\ consumed = [c \in Clients |-> 0]
  /\ pc = [c \in Clients |-> "accept"]
  /\ replies = [c \in Clients |-> <<>>]
  /\ conn = [c \in Clients |-> "none"]
  /\ err = [c \in Clients |-> "none"]
  /\ errno = [c \in Clients |-> 0]

-----------------------------------------------------------------------------
\* The client.  It may send before it is accepted (the kernel completes the TCP
\* handshake) and may stop, shut down or reset at any point.  Once the task has ended,
\* nothing the client does is observed.

ClientSend(c) ==
  /\ peer[c] = "open" /\ pc[c] \notin Settled /\ sent[c] < StreamLen(script[c])
  /\ \E k \in ChunkSizes :
       sent' = [sent EXCEPT ![c] = IF @ + k > StreamLen(script[c])
                                   THEN StreamLen(script[c]) ELSE @ + k]
  /\ UNCHANGED <<conf, script, peer, consumed, pc, replies, conn, err, errno>>

ClientShutdown(c) ==
  /\ peer[c] = "open" /\ pc[c] \notin Settled
  /\ peer' = [peer EXCEPT ![c] = "eof"]
  /\ UNCHANGED <<conf, script, sent, consumed, pc, replies, conn, err, errno>>

ClientReset(c) ==
  /\ peer[c] # "reset" /\ pc[c] \notin Settled
  /\ peer' = [peer EXCEPT ![c] = "reset"]
  /\ UNCHANGED <<conf, script, sent, consumed, pc, replies, conn, err, errno>>

ClientStep(c) == ClientSend(c) \/ ClientShutdown(c) \/ ClientReset(c)

-----------------------------------------------------------------------------
\* The I/O of Socks5Connected.  read_exact returns Ok only with all n bytes; on a reset
\* socket the bytes already queued may still be read, or the error may come first.

Goto(c, stage) == pc' = [pc EXCEPT ![c] = stage]

\* The call of abort(client, e, r).
Fail(c, e) ==
  /\ Goto(c, "abort")
  /\ err' = [err EXCEPT ![c] = e]

BadReadExact(c, n) ==
  /\ sent[c] > consumed[c]
  /\ consumed' = [consumed EXCEPT ![c] = @ + n]

read_exact(c, n) ==
  /\ sent[c] - consumed[c] >= n
  /\ consumed' = [consumed EXCEPT ![c] = @ + n]

write_all(c, msg) ==
  /\ peer[c] # "reset"
  /\ replies' = [replies EXCEPT ![c] = Append(@, msg)]

ReadSize(c) ==
  CASE pc[c] = "auth_head"    -> 2
    [] pc[c] = "auth_methods" -> script[c].nmethods
    [] pc[c] = "req_head"     -> 5
    [] pc[c] = "req_addr"     -> RequestTail(script[c])

\* A read of zero bytes completes without touching the socket, so it never fails.
ReadFails(c) ==
  /\ pc[c] \in ReadStages /\ ReadSize(c) > 0
  /\ \/ peer[c] = "reset"
     \/ peer[c] = "eof" /\ sent[c] - consumed[c] < ReadSize(c)

BadIoError(c) ==
  /\ pc[c] \in ReadStages \cup WriteStages /\ peer[c] = "reset"
  /\ Goto(c, "closed")
  /\ conn' = [conn EXCEPT ![c] = IF @ = "open" THEN "closed" ELSE @]
  /\ UNCHANGED <<conf, clientVars, consumed, replies, err, errno>>

BadIoErrorLeak(c) ==
  /\ ReadFails(c) \/ (pc[c] \in WriteStages /\ peer[c] = "reset")
  /\ Goto(c, "closed")
  /\ UNCHANGED <<conf, clientVars, consumed, replies, conn, err, errno>>

\* The ? after a read or write: the error is logged by handle_client, process_request or
\* abort, the task ends and drops both streams.
IoError(c) ==
  /\ ReadFails(c) \/ (pc[c] \in WriteStages /\ peer[c] = "reset")
  /\ Goto(c, "closed")
  /\ conn' = [conn EXCEPT ![c] = IF @ = "open" THEN "closed" ELSE @]
  /\ UNCHANGED <<conf, clientVars, consumed, replies, err, errno>>

-----------------------------------------------------------------------------
\* authenticate_client

next_client(c) ==
  /\ pc[c] = "accept"
  /\ Goto(c, "auth_head")
  /\ UNCHANGED <<conf, clientVars, consumed, replies, conn, err, errno>>

AuthHead(c) ==
  /\ pc[c] = "auth_head"
  /\ read_exact(c, 2)
  /\ Goto(c, IF script[c].ver = SOCKS5_PROTOCOL THEN "auth_methods" ELSE "closed")
  /\ UNCHANGED <<conf, clientVars, replies, conn, err, errno>>

BadAuthMethods(c) ==
  /\ pc[c] = "auth_methods"
  /\ read_exact(c, script[c].nmethods)
  /\ Goto(c, IF script[c].noauth THEN "req_head" ELSE "auth_refuse")
  /\ UNCHANGED <<conf, clientVars, replies, conn, err, errno>>

AuthMethods(c) ==
  /\ pc[c] = "auth_methods"
  /\ read_exact(c, script[c].nmethods)
  /\ Goto(c, IF script[c].noauth THEN "auth_accept" ELSE "auth_refuse")
  /\ UNCHANGED <<conf, clientVars, replies, conn, err, errno>>

AuthRefuse(c) ==
  /\ pc[c] = "auth_refuse"
  /\ write_all(c, Method(SOCKS5_NO_ACCEPTABLE_METHOD))
  /\ Goto(c, "closed")
  /\ UNCHANGED <<conf, clientVars, consumed, conn, err, errno>>

AuthAccept(c) ==
  /\ pc[c] = "auth_accept"
  /\ write_all(c, Method(SOCKS5_NO_AUTH))
  /\ Goto(c, "req_head")
  /\ UNCHANGED <<conf, clientVars, consumed, conn, err, errno>>

-----------------------------------------------------------------------------
\* get_request

\* Where the five header bytes lead.  A DOMAIN whose address does not fit the request
\* buffer makes the slice buf[0..addr_len + 2] panic before anything is read.
AfterHead(s) ==
  IF s.rver # SOCKS5_PROTOCOL THEN "closed"
  ELSE IF s.cmd # SOCKS5_CMD_CONNECT THEN "refuse_cmd"
  ELSE IF ~ try_from_ok(s.atyp) THEN "refuse_atyp"
  ELSE IF s.atyp = Socks5AddrType.DOMAIN_NAME /\ s.b0 + 2 > request_buf_len THEN "panicked"
  ELSE "req_addr"

BadReqHead(c) ==
  /\ pc[c] = "req_head"
  /\ read_exact(c, 5)
  /\ Goto(c, AfterHead([script[c] EXCEPT !.cmd = SOCKS5_CMD_CONNECT]))
  /\ UNCHANGED <<conf, clientVars, replies, conn, err, errno>>

ReqHead(c) ==
  /\ pc[c] = "req_head"
  /\ read_exact(c, 5)
  /\ Goto(c, AfterHead(script[c]))
  /\ UNCHANGED <<conf, clientVars, replies, conn, err, errno>>

\* Parsing the address, then get_outgoing: both run in the same poll as the read.  A host
\* name that is not UTF-8 is an Err, which debug! unwraps when it formats its arguments.
ReqAddr(c) ==
  LET s == script[c]
      parsed == s.atyp = Socks5AddrType.DOMAIN_NAME => s.utf8
  IN
  /\ pc[c] = "req_addr"
  /\ read_exact(c, RequestTail(s))
  /\ \/ /\ \/ ~ parsed /\ conf.debug /\ Goto(c, "panicked")
           \/ ~ parsed /\ ~ conf.debug /\ Goto(c, "refuse_addr")
           \/ parsed /\ conf.outgoing = "Direct" /\ Goto(c, "resolve")
        /\ UNCHANGED err
     \/ parsed /\ conf.outgoing # "Direct" /\ Fail(c, "GeneralFailure")
  /\ UNCHANGED <<conf, clientVars, replies, conn, errno>>

RefuseCmd(c) ==
  /\ pc[c] = "refuse_cmd"
  /\ write_all(c, Final(Socks5Error.CommandNotSupported))
  /\ Goto(c, "closed")
  /\ UNCHANGED <<conf, clientVars, consumed, conn, err, errno>>

\* The Err(e) arm of the match on the address type answers, and then the check of `addr`
\* below the match answers again.
RefuseAtyp(c) ==
  /\ pc[c] = "refuse_atyp"
  /\ write_all(c, Final(Socks5Error.AddressTypeNotSupported))
  /\ Goto(c, "refuse_addr")
  /\ UNCHANGED <<conf, clientVars, consumed, conn, err, errno>>

RefuseAddr(c) ==
  /\ pc[c] = "refuse_addr"
  /\ write_all(c, Final(Socks5Error.AddressTypeNotSupported))
  /\ Goto(c, "closed")
  /\ UNCHANGED <<conf, clientVars, consumed, conn, err, errno>>

-----------------------------------------------------------------------------
\* DirectOutgoing::process_request_impl and process_request

\* resolve_local: only a domain is looked up, so only a domain can fail.
ResolveFails(c) ==
  /\ pc[c] = "resolve" /\ script[c].atyp = Socks5AddrType.DOMAIN_NAME
  /\ Fail(c, "HostUnreachable")
  /\ UNCHANGED <<conf, clientVars, consumed, replies, conn, errno>>

\* TcpStream::connect creates its socket on the first poll, which fails with EMFILE when
\* the process has no descriptor left.
OpenSocketFails(c) ==
  /\ pc[c] = "resolve"
  /\ Fail(c, connect_error(Errno.EMFILE))
  /\ errno' = [errno EXCEPT ![c] = Errno.EMFILE]
  /\ UNCHANGED <<conf, clientVars, consumed, replies, conn>>

BadStartConnect(c) ==
  /\ pc[c] = "resolve"
  /\ Goto(c, "ready")
  /\ conn' = [conn EXCEPT ![c] = "connecting"]
  /\ UNCHANGED <<conf, clientVars, consumed, replies, err, errno>>

StartConnect(c) ==
  /\ pc[c] = "resolve"
  /\ Goto(c, "connect")
  /\ conn' = [conn EXCEPT ![c] = "connecting"]
  /\ UNCHANGED <<conf, clientVars, consumed, replies, err, errno>>

ConnectFails(c) ==
  /\ pc[c] = "connect"
  /\ \E e \in {Errno.ENETUNREACH, Errno.ETIMEDOUT, Errno.ECONNREFUSED, Errno.EHOSTUNREACH} :
       /\ Fail(c, connect_error(e))
       /\ errno' = [errno EXCEPT ![c] = e]
  /\ conn' = [conn EXCEPT ![c] = "failed"]
  /\ UNCHANGED <<conf, clientVars, consumed, replies>>

ConnectOk(c) ==
  /\ pc[c] = "connect"
  /\ Goto(c, "ready")
  /\ conn' = [conn EXCEPT ![c] = "open"]
  /\ UNCHANGED <<conf, clientVars, consumed, replies, err, errno>>

BadAbort(c) ==
  /\ pc[c] = "abort"
  /\ Goto(c, "closed")
  /\ UNCHANGED <<conf, clientVars, consumed, replies, conn, err, errno>>

abort(c) ==
  /\ pc[c] = "abort"
  /\ write_all(c, Final(get_reason(err[c])))
  /\ Goto(c, "closed")
  /\ UNCHANGED <<conf, clientVars, consumed, conn, err, errno>>

ready_for_connect(c) ==
  /\ pc[c] = "ready"
  /\ write_all(c, Final(Socks5Error.Success))
  /\ Goto(c, "tunnel")
  /\ UNCHANGED <<conf, clientVars, consumed, conn, err, errno>>

-----------------------------------------------------------------------------
\* The steps of a task other than the one in which it resolves and opens a socket.
Handshake(c) ==
  \/ AuthHead(c) \/ AuthMethods(c) \/ AuthRefuse(c) \/ AuthAccept(c)
  \/ ReqHead(c) \/ ReqAddr(c) \/ RefuseCmd(c) \/ RefuseAtyp(c) \/ RefuseAddr(c)
  \/ ConnectFails(c) \/ ConnectOk(c)
  \/ abort(c) \/ ready_for_connect(c)
  \/ IoError(c)

TaskStep(c) == Handshake(c) \/ ResolveFails(c) \/ OpenSocketFails(c) \/ StartConnect(c)

\* Every session is over (here: ended, or handed to bicopy).
AllSettled == (\A c \in Clients : pc[c] \in Settled) /\ UNCHANGED vars

Next ==
  \/ \E c \in Clients : next_client(c) \/ TaskStep(c) \/ ClientStep(c)
  \/ AllSettled

\* tokio polls a task that was woken; name lookup and connect end (the resolver and the
\* kernel have time limits).  Nothing is assumed of the client.
Fairness == \A c \in Clients : WF_vars(next_client(c) \/ TaskStep(c))

Spec == Init /\ [][Next]_vars /\ Fairness

-----------------------------------------------------------------------------
\* Properties.

TypeOK ==
  /\ conf \in Configs
  /\ script \in [Clients -> Scripts]
  /\ sent \in [Clients -> Nat]
  /\ peer \in [Clients -> {"open", "eof", "reset"}]
  /\ consumed \in [Clients -> Nat]
  /\ pc \in [Clients -> Stages]
  /\ replies \in [Clients -> Seq([kind : {"method", "final"}, code : Byte])]
  /\ conn \in [Clients -> {"none", "connecting", "failed", "open", "closed"}]
  /\ err \in [Clients -> OutgoingError \cup {"none"}]
  /\ errno \in [Clients -> Nat]
  \* abort is called with an error, and read_exact never takes bytes that have not arrived
  /\ \A c \in Clients : pc[c] = "abort" => err[c] \in OutgoingError
  /\ \A c \in Clients : consumed[c] <= sent[c] /\ sent[c] <= StreamLen(script[c])

FinalReplies(c) == {i \in DOMAIN replies[c] : replies[c][i].kind = "final"}
FinalSent(c) == FinalReplies(c) # {}

\* What the greeting and request of a client must say for the proxy to connect for it.
ValidConnect(s) ==
  /\ s.ver = SOCKS5_PROTOCOL /\ s.noauth
  /\ s.rver = SOCKS5_PROTOCOL /\ s.cmd = SOCKS5_CMD_CONNECT /\ try_from_ok(s.atyp)

\* When bicopy takes the stream, the task has read exactly the greeting and the request
\* of RFC 1928, however the bytes were segmented and however early the client sent its
\* payload: the tunnel neither swallows nor repeats a byte of the handshake.
HandshakeConsumedExactly ==
  \A c \in Clients : pc[c] = "tunnel" => consumed[c] = HandshakeLen(script[c])

\* A client is told Success only when its outgoing connection was established, and a
\* client whose connection was established is never told anything else.
SuccessIsTrue ==
  \A c \in Clients : \A i \in FinalReplies(c) :
    (replies[c][i].code = Socks5Error.Success) <=> (conn[c] \in {"open", "closed"})

\* What a client is told follows the protocol: first one method selection, then, only after
\* NO_AUTH, one final response.  The one request that is answered twice is a CONNECT with an
\* unknown address type, and its two responses are the same: the match on the address type
\* and the check of its result both call send_final_response.
RepliesInOrder ==
  \A c \in Clients :
    /\ \A i \in DOMAIN replies[c] :
         /\ replies[c][i].kind = "method" <=> i = 1
         /\ replies[c][i].kind = "final" => replies[c][1] = Method(SOCKS5_NO_AUTH)
    /\ Len(replies[c]) > 2 =>
         /\ script[c].cmd = SOCKS5_CMD_CONNECT /\ ~ try_from_ok(script[c].atyp)
         /\ replies[c] = <<Method(SOCKS5_NO_AUTH), Final(Socks5Error.AddressTypeNotSupported),
                          Final(Socks5Error.AddressTypeNotSupported)>>

\* A socket towards a destination exists only for a client whose greeting offered NO_AUTH
\* and whose request is a complete CONNECT, under the Direct configuration.
UpstreamOnlyForValidConnect ==
  \A c \in Clients : conn[c] # "none" =>
    /\ conf.outgoing = "Direct"
    /\ ValidConnect(script[c])
    /\ sent[c] >= HandshakeLen(script[c])

\* A socket towards a destination lives no longer than the task that opened it: whichever
\* way the handshake fails after the connect, no upstream connection is left behind.
NoLeakedUpstream ==
  \A c \in Clients : conn[c] \in {"connecting", "open"} => pc[c] \in {"connect", "ready", "tunnel"}

\* A client that sent a complete CONNECT request and did not reset its connection is not
\* dropped without a final response, with two exceptions, in which the task panics: a host
\* name of 254 or 255 bytes, and one that is not UTF-8 while debug! formats its arguments.
AnsweredUnlessPanic ==
  \A c \in Clients :
    /\ pc[c] \in Ended /\ peer[c] # "reset"
    /\ ValidConnect(script[c]) /\ sent[c] >= HandshakeLen(script[c])
    => \/ FinalSent(c)
       \/ /\ pc[c] = "panicked" /\ script[c].atyp = Socks5AddrType.DOMAIN_NAME
          /\ script[c].b0 >= 254 \/ (conf.debug /\ ~ script[c].utf8)

\* A failure of the outgoing side always reaches the client as a failure code, unless
\* the client resets its connection.
FailureReported ==
  \A c \in Clients :
    err[c] # "none" ~> (peer[c] = "reset" \/ \E i \in FinalReplies(c) : replies[c][i].code # 0)

\* The task never waits on a client that has nothing more to say: once the client has
\* sent everything, shut down or reset, the session ends or becomes a tunnel.
HandshakeSettles ==
  \A c \in Clients :
    (peer[c] # "open" \/ sent[c] = StreamLen(script[c])) ~> (pc[c] \in Settled)

\* The reply names the failure the operating system reported: the codes for an
\* unreachable host and for a timeout are not exchanged.
FailureCodeHonest ==
  \A c \in Clients : \A i \in FinalReplies(c) :
    /\ errno[c] = Errno.EHOSTUNREACH => replies[c][i].code = Socks5Error.HostUnreachable
    /\ errno[c] = Errno.ETIMEDOUT => replies[c][i].code = Socks5Error.TTLExpired
=============================================================================
