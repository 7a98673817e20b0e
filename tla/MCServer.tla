------------------------------ MODULE MCServer ------------------------------
(***************************************************************************)
(* An instance of RocksServer for TLC: two clients, one asking for an      *)
(* address and one for a name or both for the same, under a descriptor     *)
(* limit that accept or connect runs into and under one that suffices.     *)
(***************************************************************************)
EXTENDS RocksServer

ByAddress == [ver |-> 5, nmethods |-> 1, noauth |-> TRUE, rver |-> 5, cmd |-> 1,
              atyp |-> 1, b0 |-> 10, utf8 |-> TRUE, payload |-> 0]
ByName == [ByAddress EXCEPT !.atyp = 3, !.b0 = 2]

MCScripts == {ByAddress, ByName}
MCConfigs == {[outgoing |-> "Direct", debug |-> FALSE]}
MCListen ==
  {[type |-> "Socks5", ip |-> "valid", domain |-> "none"],
   [type |-> "Socks5", ip |-> "invalid", domain |-> "known"],
   [type |-> "Socks5", ip |-> "none", domain |-> "known"],
   [type |-> "Rocks", ip |-> "valid", domain |-> "none"]}
=============================================================================
