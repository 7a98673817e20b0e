----------------------------- MODULE Socks5Wire -----------------------------
(***************************************************************************)
(* The SOCKS5 codes and address formats of rocks: the constants of         *)
(* src/socks5/mod.rs, the address parsers of ReqAddr and the encoder in    *)
(* send_final_response, and the two translations a failed connect goes     *)
(* through before it becomes a reply code: OS error -> OutgoingError ->    *)
(* Socks5Error.  Everything here is a pure function of its arguments.      *)
(***************************************************************************)
EXTENDS Integers, Sequences

Byte == 0..255

SOCKS5_PROTOCOL == 5
SOCKS5_NO_AUTH == 0
SOCKS5_NO_ACCEPTABLE_METHOD == 255
SOCKS5_CMD_CONNECT == 1

\* `Socks5Error as u8`: the REP field of the final response.
Socks5Error ==
  [Success                 |-> 0,
   GeneralProxyFailure     |-> 1,
   NetworkUnreachable      |-> 3,
   HostUnreachable         |-> 4,
   ConnectionRefused       |-> 5,
   TTLExpired              |-> 6,
   CommandNotSupported     |-> 7,
   AddressTypeNotSupported |-> 8]

Socks5AddrType == [IPV4 |-> 1, DOMAIN_NAME |-> 3, IPV6 |-> 4]

\* Socks5AddrType::try_from(i).is_ok()
try_from_ok(i) == i \in {Socks5AddrType.IPV4, Socks5AddrType.DOMAIN_NAME, Socks5AddrType.IPV6}

-----------------------------------------------------------------------------
\* From the operating system's connect error to the reply code.

OutgoingError ==
  {"GeneralFailure", "NetworkUnreachable", "HostUnreachable", "ConnectionRefused", "TimedOut"}

\* get_reason: the reply code for each OutgoingError.
get_reason(err) ==
  CASE err = "GeneralFailure"     -> Socks5Error.GeneralProxyFailure
    [] err = "NetworkUnreachable" -> Socks5Error.NetworkUnreachable
    [] err = "HostUnreachable"    -> Socks5Error.HostUnreachable
    [] err = "ConnectionRefused"  -> Socks5Error.ConnectionRefused
    [] err = "TimedOut"           -> Socks5Error.TTLExpired

\* The Linux errno values a connect can end with: what the kernel means by each
\* number (external: <asm-generic/errno.h>, and EMFILE when no descriptor is left).
Errno == [EMFILE |-> 24, ENETUNREACH |-> 101, ETIMEDOUT |-> 110,
          ECONNREFUSED |-> 111, EHOSTUNREACH |-> 113]

\* mod network_errors under cfg(target_os = "linux").
network_errors == [NETWORK_UNREACHABLE |-> 101, HOST_UNREACHABLE |-> 110, TTL_EXPIRED |-> 113]

\* The map_err closure of process_request_impl.  io::Error::kind() is
\* ConnectionRefused exactly for ECONNREFUSED.
connect_error(errno) ==
  CASE errno = Errno.ECONNREFUSED                  -> "ConnectionRefused"
    [] errno = network_errors.NETWORK_UNREACHABLE  -> "NetworkUnreachable"
    [] errno = network_errors.HOST_UNREACHABLE     -> "HostUnreachable"
    [] errno = network_errors.TTL_EXPIRED          -> "TimedOut"
    [] OTHER                                       -> "GeneralFailure"

-----------------------------------------------------------------------------
\* Addresses.  A ReqAddr is a record; Domain hosts are byte sequences.  Indices are
\* those of the code plus one.

U16(hi, lo) == hi * 256 + lo
Hi(u) == u \div 256
Lo(u) == u % 256

ParseErr == [type |-> "Err"]
V4(host, port) == [type |-> "V4", host |-> host, port |-> port]
V6(host, port) == [type |-> "V6", host |-> host, port |-> port]
Domain(host, port) == [type |-> "Domain", host |-> host, port |-> port]

\* impl Default for ReqAddr: 127.0.0.1:0
DefaultAddr == V4(<<127, 0, 0, 1>>, 0)

\* The port is built from the last host octet and the first port octet, as the code does.
parse_address_v4(b) ==
  IF Len(b) # 6 THEN ParseErr
  ELSE V4(<<b[1], b[2], b[3], b[4]>>, U16(b[4], b[5]))

BadV6Port(b) ==
  IF Len(b) # 18 THEN ParseErr
  ELSE V6([s \in 1..8 |-> U16(b[2*s - 1], b[2*s])], U16(b[16], b[17]))

parse_address_v6(b) ==
  IF Len(b) # 18 THEN ParseErr
  ELSE V6([s \in 1..8 |-> U16(b[2*s - 1], b[2*s])], U16(b[17], b[18]))

\* str::from_utf8 on a host of single-byte characters: a byte above 127 on its own is
\* never valid.  Multi-byte characters are not enumerated by any run.
from_utf8_ok(host) == \A i \in DOMAIN host : host[i] < 128

\* The slice buf[0..addr_len + 2] handed to parse_domain: addr_len host bytes and the port.
parse_domain(addr_len, b) ==
  LET host == SubSeq(b, 1, addr_len)
  IN  IF from_utf8_ok(host) THEN Domain(host, U16(b[addr_len + 1], b[addr_len + 2]))
                            ELSE ParseErr

V6Octets(segments) ==
  [i \in 1..16 |-> IF i % 2 = 1 THEN Hi(segments[(i + 1) \div 2])
                                ELSE Lo(segments[i \div 2])]

BadReplyHost(addr) ==
  CASE addr.type = "V4"     -> <<Socks5AddrType.IPV4>> \o addr.host
    [] addr.type = "V6"     -> <<Socks5AddrType.IPV6>> \o V6Octets(addr.host)
    [] addr.type = "Domain" -> <<Socks5AddrType.DOMAIN_NAME, Len(addr.host) % 128>> \o addr.host

\* The bytes resp[3..pos]: address type and address, as send_final_response lays them out.
reply_host(addr) ==
  CASE addr.type = "V4"     -> <<Socks5AddrType.IPV4>> \o addr.host
    [] addr.type = "V6"     -> <<Socks5AddrType.IPV6>> \o V6Octets(addr.host)
    [] addr.type = "Domain" -> <<Socks5AddrType.DOMAIN_NAME, Len(addr.host) % 256>> \o addr.host

send_final_response(err, addr) ==
  <<5, err, 0>> \o reply_host(addr) \o <<Hi(addr.port), Lo(addr.port)>>
=============================================================================
