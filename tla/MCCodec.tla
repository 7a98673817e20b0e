------------------------------ MODULE MCCodec ------------------------------
(***************************************************************************)
(* Instances of Socks5Codec for TLC.  Parsing and encoding move single     *)
(* octets, so inputs with one octet set, one per position, and one input   *)
(* whose octets are all different tell every wrong index apart.            *)
(***************************************************************************)
EXTENDS Socks5Codec

OneSet(n) == {[i \in 1..n |-> IF i = j THEN 255 ELSE 0] : j \in 1..n}
AllDifferent(n) == {[i \in 1..n |-> 10 * i]}
Octets(n) == OneSet(n) \cup AllDifferent(n)

V6Requests == {[atyp |-> 4, bytes |-> b] : b \in Octets(18)}
V4Requests == {[atyp |-> 1, bytes |-> b] : b \in Octets(6)}

\* Empty, short and longest host names; octets above 127 are not UTF-8 on their own.
HostNames == {<<>>, <<97>>, <<97, 46>>, <<200>>, <<97, 255>>,
              [i \in 1..127 |-> 98], [i \in 1..128 |-> 98], [i \in 1..253 |-> 99]}
Ports == {<<0, 0>>, <<0, 80>>, <<1, 187>>, <<255, 255>>}
DomainRequests == {[atyp |-> 3, bytes |-> <<Len(h)>> \o h \o p] : h \in HostNames, p \in Ports}

MCRequests == V6Requests \cup DomainRequests
MCHosts == {V4(<<10, 0, 0, 1>>, 0), V6([s \in 1..8 |-> s], 0)}
=============================================================================
