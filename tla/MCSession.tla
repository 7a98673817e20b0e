----------------------------- MODULE MCSession -----------------------------
(***************************************************************************)
(* Instances of Socks5Session for TLC: one client, every value of every    *)
(* field the code branches on, and the boundary lengths of a host name.    *)
(***************************************************************************)
EXTENDS Socks5Session

\* A connect to a numeric IPv4 address with one byte of early payload.
Base == [ver |-> 5, nmethods |-> 1, noauth |-> TRUE, rver |-> 5, cmd |-> 1,
         atyp |-> 1, b0 |-> 10, utf8 |-> TRUE, payload |-> 1]

BadGreetings ==
  {[Base EXCEPT !.ver = 4],
   [Base EXCEPT !.nmethods = 0, !.noauth = FALSE],
   [Base EXCEPT !.nmethods = 2, !.noauth = FALSE]}
BadRequests ==
  {[Base EXCEPT !.rver = 4], [Base EXCEPT !.cmd = 2], [Base EXCEPT !.atyp = 9]}
GoodRequests ==
  {[Base EXCEPT !.atyp = a, !.payload = p, !.nmethods = m] :
     a \in {1, 4}, p \in {0, 1}, m \in {1, 2}}

\* Host names: empty, short, the longest that fits the request buffer, the two that do not.
Names == {[Base EXCEPT !.atyp = 3, !.b0 = n] : n \in {0, 2, 253, 254, 255}}
NotUtf8 == {[Base EXCEPT !.atyp = 3, !.b0 = 2, !.utf8 = FALSE]}

MCScripts == BadGreetings \cup BadRequests \cup GoodRequests \cup Names \cup NotUtf8
MCConfigs == [outgoing : {"Direct", "Rocks"}, debug : BOOLEAN]

QuietConfigs == {[outgoing |-> "Direct", debug |-> FALSE]}
BaseScripts == {Base}
=============================================================================
