---------------------------- MODULE Socks5Codec ----------------------------
(***************************************************************************)
(* The address of one request on its way through the proxy: parsed from    *)
(* the bytes of the request (get_request, the parsers of ReqAddr),         *)
(* resolved to the socket address that is dialled (resolve_local), and     *)
(* encoded into the final response (send_final_response).  Socks5Session   *)
(* models when these steps happen; this module models what they compute.   *)
(***************************************************************************)
EXTENDS Integers, Sequences, Socks5Wire

CONSTANTS
  Requests,   \* address parts of CONNECT requests: [atyp, bytes], bytes after ATYP
  Hosts       \* the addresses name lookup may return

\* A request get_request accepts: four or sixteen address octets, or a length byte and as
\* many host bytes, then the two octets of the port.
WellFormed(r) ==
  /\ r.bytes \in Seq(Byte) /\ r.bytes # <<>>
  /\ \/ r.atyp = Socks5AddrType.IPV4 /\ Len(r.bytes) = 6
     \/ r.atyp = Socks5AddrType.IPV6 /\ Len(r.bytes) = 18
     \/ r.atyp = Socks5AddrType.DOMAIN_NAME /\ Len(r.bytes) = 1 + r.bytes[1] + 2
                                           /\ r.bytes[1] + 2 <= 255

Word == 0..65535     \* u16

\* What name lookup returns: socket addresses, whose port is not the one of the request.
SocketAddr == [type : {"V4", "V6"}, host : Seq(Word), port : Word]

ASSUME CodecAssumption == (\A r \in Requests : WellFormed(r)) /\ Hosts \subseteq SocketAddr

VARIABLES
  step,    \* what happens next to the request
  req,     \* the request
  addr,    \* the ReqAddr parsed from it
  dial,    \* the socket address TcpStream::connect is called with
  reply    \* the final response

vars == <<step, req, addr, dial, reply>>

None == [type |-> "None"]

Init ==
  /\ step = "parse"
  /\ req \in Requests
  /\ addr = None
  /\ dial = None
  /\ reply = <<>>

\* The three arms of the match in get_request.
parse(r) ==
  CASE r.atyp = Socks5AddrType.IPV4        -> parse_address_v4(r.bytes)
    [] r.atyp = Socks5AddrType.IPV6        -> parse_address_v6(r.bytes)
    [] r.atyp = Socks5AddrType.DOMAIN_NAME -> parse_domain(r.bytes[1], Tail(r.bytes))

get_request ==
  /\ step = "parse"
  /\ addr' = parse(req)
  /\ step' = IF addr' = ParseErr THEN "refuse" ELSE "resolve"
  /\ UNCHANGED <<req, dial, reply>>

Refuse ==
  /\ step = "refuse"
  /\ reply' = send_final_response(Socks5Error.AddressTypeNotSupported, DefaultAddr)
  /\ step' = "done"
  /\ UNCHANGED <<req, addr, dial>>

BadResolveLocal(a) == IF a.type = "Domain" THEN Hosts ELSE {a}

\* An IP is its own result; for a domain the first address of the lookup, with the port
\* of the request put back in.
resolve_local(a) ==
  IF a.type = "Domain" THEN {[h EXCEPT !.port = a.port] : h \in Hosts} ELSE {a}

\* The request is answered with the address that was parsed, whatever comes of the
\* connect.
Connect ==
  /\ step = "resolve"
  /\ dial' \in resolve_local(addr)
  /\ \E rep \in {Socks5Error.Success, Socks5Error.ConnectionRefused} :
       reply' = send_final_response(rep, addr)
  /\ step' = "done"
  /\ UNCHANGED <<req, addr>>

ResolveFails ==
  /\ step = "resolve" /\ addr.type = "Domain"
  /\ reply' = send_final_response(Socks5Error.HostUnreachable, addr)
  /\ step' = "done"
  /\ UNCHANGED <<req, addr, dial>>

Done == step = "done" /\ UNCHANGED vars

Next == get_request \/ Refuse \/ Connect \/ ResolveFails \/ Done

Spec == Init /\ [][Next]_vars

-----------------------------------------------------------------------------
\* Properties.

RequestPort == U16(req.bytes[Len(req.bytes) - 1], req.bytes[Len(req.bytes)])

\* The response to a request whose address was parsed repeats that address and port octet
\* by octet: what the parsers take apart, send_final_response puts together again.
EchoIsRequest ==
  step = "done" /\ addr # ParseErr =>
    SubSeq(reply, 4, Len(reply)) = <<req.atyp>> \o req.bytes

\* The proxy connects to the port the client asked for, for IP addresses as well as for
\* the addresses a name resolves to.
DialsRequestedPort == dial # None => dial.port = RequestPort

\* The length of a SOCKS5 response as its reader computes it from ATYP and, for a domain,
\* the length octet.
ReplyLen(r) ==
  CASE r[4] = Socks5AddrType.IPV4        -> 4 + 4 + 2
    [] r[4] = Socks5AddrType.IPV6        -> 4 + 16 + 2
    [] r[4] = Socks5AddrType.DOMAIN_NAME -> 4 + (1 + r[5]) + 2

\* Every response is one well framed message of octets: a client that reads it by its own
\* ATYP and length octet is left with nothing more and nothing missing before the tunnel.
ReplyFramed ==
  reply # <<>> => /\ \A i \in DOMAIN reply : reply[i] \in Byte
                  /\ Len(reply) = ReplyLen(reply)
=============================================================================
