------------------------- MODULE Socks5CodecProofs -------------------------
(***************************************************************************)
(* What the address parsers and the encoder of the final response do to    *)
(* every input, not only to the ones TLC enumerates.                       *)
(***************************************************************************)
EXTENDS Socks5Codec, SequenceTheorems, TLAPS

\* A u16 made of two octets gives the same two octets back.
LEMMA OctetPair ==
  ASSUME NEW h \in Byte, NEW l \in Byte
  PROVE  Hi(U16(h, l)) = h /\ Lo(U16(h, l)) = l
<1>1. h \in Int /\ l \in Int /\ 0 <= l /\ l <= 255
  BY DEF Byte
<1>2. (h * 256 + l) \div 256 = h
  BY <1>1
<1>3. (h * 256 + l) % 256 = l
  BY <1>1
<1>. QED
  BY <1>2, <1>3 DEF Hi, Lo, U16

\* send_final_response writes the sixteen address octets and the two port octets that
\* parse_address_v6 read, for every IPv6 address and port: the eight segments it is
\* stored as and the shifts on both sides lose nothing.
THEOREM V6RoundTrip ==
  ASSUME NEW b, Len(b) = 18, \A i \in 1..18 : b[i] \in Byte
  PROVE  LET a == parse_address_v6(b) IN
         /\ a.type = "V6"
         /\ \A i \in 1..16 : V6Octets(a.host)[i] = b[i]
         /\ Hi(a.port) = b[17] /\ Lo(a.port) = b[18]
<1>. DEFINE seg == [s \in 1..8 |-> U16(b[2*s - 1], b[2*s])]
<1>1. parse_address_v6(b) = V6(seg, U16(b[17], b[18]))
  BY DEF parse_address_v6
<1>2. \A i \in 1..16 : V6Octets(seg)[i] = b[i]
  <2>. SUFFICES ASSUME NEW i \in 1..16 PROVE V6Octets(seg)[i] = b[i]
    OBVIOUS
  <2>1. CASE i % 2 = 1
    <3>1. (i + 1) \div 2 \in 1..8 /\ 2 * ((i + 1) \div 2) = i + 1
      BY <2>1
    <3>2. seg[(i + 1) \div 2] = U16(b[2 * ((i + 1) \div 2) - 1], b[2 * ((i + 1) \div 2)])
      BY <3>1
    <3>3. 2 * ((i + 1) \div 2) - 1 = i /\ i \in 1..18 /\ i + 1 \in 1..18
      BY <3>1
    <3>o. b[i] \in Byte /\ b[i + 1] \in Byte
      BY <3>3
    <3>4. seg[(i + 1) \div 2] = U16(b[i], b[i + 1])
      BY <3>1, <3>2, <3>3
    <3>5. V6Octets(seg)[i] = Hi(seg[(i + 1) \div 2])
      BY <2>1 DEF V6Octets
    <3>. HIDE DEF seg
    <3>. QED
      BY <3>o, <3>4, <3>5, OctetPair
  <2>2. CASE i % 2 # 1
    <3>1. i \div 2 \in 1..8 /\ 2 * (i \div 2) = i
      BY <2>2
    <3>2. seg[i \div 2] = U16(b[2 * (i \div 2) - 1], b[2 * (i \div 2)])
      BY <3>1
    <3>3. seg[i \div 2] = U16(b[i - 1], b[i])
      BY <3>1, <3>2
    <3>o. b[i - 1] \in Byte /\ b[i] \in Byte
      BY <3>1
    <3>4. V6Octets(seg)[i] = Lo(seg[i \div 2])
      BY <2>2 DEF V6Octets
    <3>. HIDE DEF seg
    <3>. QED
      BY <3>o, <3>3, <3>4, OctetPair
  <2>. QED
    BY <2>1, <2>2
<1>3. Hi(U16(b[17], b[18])) = b[17] /\ Lo(U16(b[17], b[18])) = b[18]
  <2>1. b[17] \in Byte /\ b[18] \in Byte
    OBVIOUS
  <2>. QED
    BY <2>1, OctetPair
<1>. HIDE DEF seg
<1>. QED
  BY <1>1, <1>2, <1>3 DEF V6

-----------------------------------------------------------------------------
(* The encoder, for every request get_request accepts.                       *)

\* Where the octets of a concatenation come from.
LEMMA Cat ==
  ASSUME NEW s \in Seq(Byte), NEW t \in Seq(Byte)
  PROVE  /\ s \o t \in Seq(Byte) /\ Len(s \o t) = Len(s) + Len(t)
         /\ \A i \in 1..Len(s) : (s \o t)[i] = s[i]
         /\ \A i \in 1..Len(t) : (s \o t)[Len(s) + i] = t[i]
<1>. DEFINE m == s \o t
<1>1. Len(s) \in Nat /\ Len(t) \in Nat
  BY LenProperties
<1>2. /\ m \in Seq(Byte) /\ Len(m) = Len(s) + Len(t)
      /\ \A i \in 1..Len(s) + Len(t) : m[i] = IF i <= Len(s) THEN s[i] ELSE t[i - Len(s)]
  BY ConcatProperties, Zenon
<1>. HIDE DEF m
<1>3. \A i \in 1..Len(s) : m[i] = s[i]
  BY <1>1, <1>2
<1>4. \A i \in 1..Len(t) : m[Len(s) + i] = t[i]
  <2>. TAKE i \in 1..Len(t)
  <2>1. Len(s) + i \in 1..Len(s) + Len(t) /\ ~ (Len(s) + i <= Len(s)) /\ (Len(s) + i) - Len(s) = i
    BY <1>1
  <2>. QED
    BY <1>2, <2>1
<1>. QED
  BY <1>2, <1>3, <1>4 DEF m

\* How the three pieces of a final response lie next to each other.
LEMMA Layout ==
  ASSUME NEW e \in Byte, NEW h \in Seq(Byte), NEW p1 \in Byte, NEW p2 \in Byte
  PROVE  LET m == <<5, e, 0>> \o h \o <<p1, p2>> IN
         /\ m \in Seq(Byte) /\ Len(m) = Len(h) + 5
         /\ \A i \in 1..Len(h) : m[3 + i] = h[i]
         /\ m[Len(h) + 4] = p1 /\ m[Len(h) + 5] = p2
<1>. DEFINE f == <<5, e, 0>>
            g == <<p1, p2>>
            q == f \o h
            m == q \o g
<1>1. f \in Seq(Byte) /\ Len(f) = 3 /\ g \in Seq(Byte) /\ Len(g) = 2 /\ g[1] = p1 /\ g[2] = p2
  BY DEF Byte
<1>. HIDE DEF f, g
<1>2. Len(h) \in Nat
  BY LenProperties
<1>3. /\ q \in Seq(Byte) /\ Len(q) = Len(f) + Len(h)
      /\ \A i \in 1..Len(h) : q[Len(f) + i] = h[i]
  BY <1>1, Cat, Zenon
<1>. HIDE DEF q
<1>4. /\ m \in Seq(Byte) /\ Len(m) = Len(q) + Len(g)
      /\ \A i \in 1..Len(q) : m[i] = q[i]
      /\ \A i \in 1..Len(g) : m[Len(q) + i] = g[i]
  BY <1>1, <1>3, Cat, Zenon
<1>. HIDE DEF m
<1>5. \A i \in 1..Len(h) : m[3 + i] = h[i]
  BY <1>1, <1>2, <1>3, <1>4
<1>6. m[Len(h) + 4] = g[1] /\ m[Len(h) + 5] = g[2]
  <2>1. Len(q) + 1 = Len(h) + 4 /\ Len(q) + 2 = Len(h) + 5 /\ 1 \in 1..Len(g) /\ 2 \in 1..Len(g)
    BY <1>1, <1>2, <1>3
  <2>2. m[Len(q) + 1] = g[1] /\ m[Len(q) + 2] = g[2]
    BY <1>4, <2>1
  <2>. QED
    BY <2>1, <2>2
<1>7. /\ m \in Seq(Byte) /\ Len(m) = Len(h) + 5
      /\ \A i \in 1..Len(h) : m[3 + i] = h[i]
      /\ m[Len(h) + 4] = p1 /\ m[Len(h) + 5] = p2
  BY <1>1, <1>2, <1>3, <1>4, <1>5, <1>6
<1>. QED
  BY <1>7 DEF m, q, f, g

\* The octets of the port as they stand in the request, and as parse_address_v4 takes them.
PortAt(r) == IF r.atyp = Socks5AddrType.IPV4 THEN 4 ELSE Len(r.bytes) - 1

\* What a parsed address is encoded as.
EncodedAs(a, r) ==
  /\ reply_host(a) \in Seq(Byte) /\ Len(reply_host(a)) = Len(r.bytes) - 1
  /\ reply_host(a)[1] = r.atyp
  /\ \A i \in 1..(Len(r.bytes) - 2) : reply_host(a)[1 + i] = r.bytes[i]
  /\ a.port = U16(r.bytes[PortAt(r)], r.bytes[PortAt(r) + 1])
  /\ a.type \in {"V4", "V6", "Domain"}

\* One octet in front of a sequence of octets.
LEMMA Prefixed ==
  ASSUME NEW t \in Byte, NEW h \in Seq(Byte)
  PROVE  /\ <<t>> \o h \in Seq(Byte) /\ Len(<<t>> \o h) = 1 + Len(h)
         /\ (<<t>> \o h)[1] = t /\ \A i \in 1..Len(h) : (<<t>> \o h)[1 + i] = h[i]
<1>. DEFINE f == <<t>>
            m == f \o h
<1>1. f \in Seq(Byte) /\ Len(f) = 1 /\ f[1] = t
  OBVIOUS
<1>2. Len(h) \in Nat
  BY LenProperties
<1>. HIDE DEF f
<1>3. /\ m \in Seq(Byte) /\ Len(m) = Len(f) + Len(h)
      /\ \A i \in 1..Len(f) : m[i] = f[i]
      /\ \A i \in 1..Len(h) : m[Len(f) + i] = h[i]
  BY <1>1, Cat, Zenon
<1>. HIDE DEF m
<1>4. Len(m) = 1 + Len(h) /\ m[1] = t /\ \A i \in 1..Len(h) : m[1 + i] = h[i]
  BY <1>1, <1>2, <1>3
<1>. QED
  BY <1>3, <1>4 DEF m, f

\* IPv4: the host octets are kept.
LEMMA EncodeV4 ==
  ASSUME NEW r, WellFormed(r), r.atyp = Socks5AddrType.IPV4
  PROVE  parse(r) # ParseErr /\ EncodedAs(parse(r), r)
<1>. DEFINE b == r.bytes
            h == <<b[1], b[2], b[3], b[4]>>
            a == V4(h, U16(b[4], b[5]))
<1>1. b \in Seq(Byte) /\ Len(b) = 6 /\ r.atyp = 1
  BY DEF WellFormed, Socks5AddrType
<1>2. \A i \in 1..6 : b[i] \in Byte
  BY <1>1, ElementOfSeq
<1>3. parse(r) = a
  BY <1>1 DEF parse, parse_address_v4, Socks5AddrType
<1>4. h \in Seq(Byte) /\ Len(h) = 4 /\ \A i \in 1..4 : h[i] = b[i]
  BY <1>2
<1>5. a.type = "V4" /\ a.host = h /\ a.port = U16(b[4], b[5]) /\ a # ParseErr
  BY DEF V4, ParseErr
<1>. HIDE DEF a, h
<1>6. reply_host(a) = <<1>> \o h
  BY <1>5 DEF reply_host, Socks5AddrType
<1>7. 1 \in Byte
  BY DEF Byte
<1>8. /\ reply_host(a) \in Seq(Byte) /\ Len(reply_host(a)) = 5 /\ reply_host(a)[1] = 1
      /\ \A i \in 1..4 : reply_host(a)[1 + i] = b[i]
  <2>. DEFINE k == <<1>> \o h
  <2>1. /\ k \in Seq(Byte) /\ Len(k) = 1 + Len(h) /\ k[1] = 1
        /\ \A i \in 1..Len(h) : k[1 + i] = h[i]
    BY <1>4, <1>7, Prefixed, Zenon
  <2>2. reply_host(a) = k
    BY <1>6
  <2>. HIDE DEF k
  <2>. QED
    BY <1>4, <2>1, <2>2
<1>9. PortAt(r) = 4
  BY DEF PortAt
<1>. QED
  BY <1>1, <1>3, <1>5, <1>8, <1>9 DEF EncodedAs

\* IPv6: V6RoundTrip gives the octets.
LEMMA EncodeV6 ==
  ASSUME NEW r, WellFormed(r), r.atyp = Socks5AddrType.IPV6
  PROVE  parse(r) # ParseErr /\ EncodedAs(parse(r), r)
<1>. DEFINE b == r.bytes
            a == parse_address_v6(b)
            o == V6Octets(a.host)
<1>1. b \in Seq(Byte) /\ Len(b) = 18 /\ r.atyp = 4
  BY DEF WellFormed, Socks5AddrType
<1>2. \A i \in 1..18 : b[i] \in Byte
  BY <1>1, ElementOfSeq
<1>3. parse(r) = a
  BY <1>1 DEF parse, Socks5AddrType
<1>4. a.type = "V6" /\ a.port = U16(b[17], b[18]) /\ a # ParseErr
  BY <1>1 DEF parse_address_v6, V6, ParseErr
<1>5. \A i \in 1..16 : o[i] = b[i]
  BY <1>1, <1>2, V6RoundTrip
<1>6. o \in Seq(Byte) /\ Len(o) = 16
  <2>1. DOMAIN o = 1..16 /\ o = [i \in 1..16 |-> o[i]]
    BY DEF V6Octets
  <2>2. \A i \in 1..16 : o[i] \in Byte
    BY <1>2, <1>5
  <2>. HIDE DEF o
  <2>. QED
    BY <2>1, <2>2
<1>7. reply_host(a) = <<4>> \o o
  BY <1>4 DEF reply_host, Socks5AddrType
<1>8. 4 \in Byte
  BY DEF Byte
<1>. HIDE DEF a, o
<1>9. /\ reply_host(a) \in Seq(Byte) /\ Len(reply_host(a)) = 17 /\ reply_host(a)[1] = 4
      /\ \A i \in 1..16 : reply_host(a)[1 + i] = b[i]
  <2>. DEFINE k == <<4>> \o o
  <2>1. /\ k \in Seq(Byte) /\ Len(k) = 1 + Len(o) /\ k[1] = 4
        /\ \A i \in 1..Len(o) : k[1 + i] = o[i]
    BY <1>6, <1>8, Prefixed, Zenon
  <2>2. reply_host(a) = k
    BY <1>7
  <2>. HIDE DEF k
  <2>. QED
    BY <1>5, <1>6, <2>1, <2>2
<1>10. PortAt(r) = 17
  BY <1>1 DEF PortAt, Socks5AddrType
<1>. QED
  BY <1>1, <1>3, <1>4, <1>9, <1>10 DEF EncodedAs

\* The pieces of a host name in the request: the length octet n, which is at most 253,
\* n host octets and two of the port.
LEMMA DomainPieces ==
  ASSUME NEW b \in Seq(Byte), b # <<>>, NEW n \in 0..253, b[1] = n, Len(b) = n + 3
  PROVE  LET t == Tail(b)
             h == SubSeq(t, 1, n)
         IN  /\ h \in Seq(Byte) /\ Len(h) = n /\ \A i \in 1..n : h[i] = b[i + 1]
             /\ t[n + 1] = b[n + 2] /\ t[n + 2] = b[n + 3]
<1>. DEFINE t == Tail(b)
            h == SubSeq(t, 1, n)
<1>1. t \in Seq(Byte) /\ Len(t) = n + 2 /\ \A i \in 1..(n + 2) : t[i] = b[i + 1]
  <2>1. /\ t \in Seq(Byte) /\ Len(t) = Len(b) - 1
        /\ \A i \in 1..Len(t) : t[i] = b[i + 1]
    BY HeadTailProperties
  <2>. HIDE DEF t
  <2>2. Len(t) = n + 2
    BY <2>1
  <2>. QED
    BY <2>1, <2>2
<1>. HIDE DEF t
<1>2. h \in Seq(Byte) /\ Len(h) = n /\ \A i \in 1..n : h[i] = t[i]
  <2>1. \A i \in 1..n : t[i] \in Byte
    BY <1>1, ElementOfSeq
  <2>2. /\ h \in Seq(Byte) /\ Len(h) = IF 1 <= n THEN n - 1 + 1 ELSE 0
        /\ \A i \in 1..(n - 1 + 1) : h[i] = t[1 + i - 1]
    BY <2>1, SubSeqProperties
  <2>. HIDE DEF h
  <2>. QED
    BY <2>2
<1>3. t[n + 1] = b[n + 2] /\ t[n + 2] = b[n + 3]
  <2>1. n + 1 \in 1..(n + 2) /\ n + 2 \in 1..(n + 2) /\ (n + 1) + 1 = n + 2 /\ (n + 2) + 1 = n + 3
    OBVIOUS
  <2>. QED
    BY <1>1, <2>1
<1>. HIDE DEF h
<1>4. \A i \in 1..n : h[i] = b[i + 1]
  BY <1>1, <1>2
<1>. QED
  BY <1>2, <1>3, <1>4 DEF t, h

\* The length octet and the host name as send_final_response writes them.
LEMMA DomainHead ==
  ASSUME NEW n \in 0..253, NEW h \in Seq(Byte), Len(h) = n
  PROVE  LET m == <<3, n>> \o h IN
         /\ m \in Seq(Byte) /\ Len(m) = 2 + n /\ m[1] = 3 /\ m[2] = n
         /\ \A i \in 1..n : m[2 + i] = h[i]
<1>. DEFINE f == <<3, n>>
            m == f \o h
<1>1. f \in Seq(Byte) /\ Len(f) = 2 /\ f[1] = 3 /\ f[2] = n
  BY DEF Byte
<1>. HIDE DEF f
<1>3. /\ m \in Seq(Byte) /\ Len(m) = Len(f) + Len(h)
      /\ \A i \in 1..Len(f) : m[i] = f[i]
      /\ \A i \in 1..Len(h) : m[Len(f) + i] = h[i]
  BY <1>1, Cat, Zenon
<1>. HIDE DEF m
<1>4. /\ m \in Seq(Byte) /\ Len(m) = 2 + n /\ m[1] = 3 /\ m[2] = n
      /\ \A i \in 1..n : m[2 + i] = h[i]
  BY <1>1, <1>3
<1>. QED
  BY <1>4 DEF m, f

\* A host name: parsed and written again.
LEMMA EncodeDomain ==
  ASSUME NEW r, WellFormed(r), r.atyp = Socks5AddrType.DOMAIN_NAME, parse(r) # ParseErr
  PROVE  EncodedAs(parse(r), r)
<1>1. PICK b \in Seq(Byte) : b = r.bytes
  BY DEF WellFormed
<1>2. b # <<>> /\ Len(b) = 1 + b[1] + 2 /\ b[1] + 2 <= 255 /\ r.atyp = 3
  BY <1>1 DEF WellFormed, Socks5AddrType
<1>3. PICK n \in 0..253 : n = b[1]
  <2>1. 1 \in 1..Len(b)
    <3>1. Len(b) \in Nat \ {0}
      BY <1>2, EmptySeq
    <3>. QED
      BY <3>1
  <2>2. b[1] \in Byte
    BY <2>1, ElementOfSeq
  <2>3. PICK n \in Byte : n = b[1]
    BY <2>2
  <2>4. n + 2 <= 255
    BY <1>2, <2>3
  <2>5. n \in 0..253
    BY <2>4 DEF Byte
  <2>. QED
    BY <2>3, <2>5
<1>4. Len(b) = n + 3
  <2>1. Len(b) = 1 + n + 2
    BY <1>2, <1>3
  <2>. QED
    BY <2>1
<1>. DEFINE t == Tail(b)
            h == SubSeq(t, 1, n)
            a == Domain(h, U16(t[n + 1], t[n + 2]))
            m == reply_host(a)
<1>5. /\ h \in Seq(Byte) /\ Len(h) = n /\ \A i \in 1..n : h[i] = b[i + 1]
      /\ t[n + 1] = b[n + 2] /\ t[n + 2] = b[n + 3]
  BY <1>2, <1>3, <1>4, DomainPieces
<1>6. parse(r) = a
  <2>1. parse(r) = parse_domain(n, t)
    BY <1>1, <1>2, <1>3 DEF parse, Socks5AddrType
  <2>. QED
    BY <2>1 DEF parse_domain
<1>7. a.type = "Domain" /\ a.host = h /\ a.port = U16(b[n + 2], b[n + 3])
  BY <1>5 DEF Domain
<1>. HIDE DEF a, h, t
<1>8. m = <<3, n>> \o h
  <2>1. Len(h) % 256 = n
    <3>1. n % 256 = n
      OBVIOUS
    <3>. QED
      BY <1>5, <3>1
  <2>. QED
    BY <1>7, <2>1 DEF reply_host, Socks5AddrType
<1>. HIDE DEF m
<1>9. /\ m \in Seq(Byte) /\ Len(m) = 2 + n /\ m[1] = 3 /\ m[2] = n
      /\ \A i \in 1..n : m[2 + i] = h[i]
  <2>. DEFINE k == <<3, n>> \o h
  <2>1. /\ k \in Seq(Byte) /\ Len(k) = 2 + n /\ k[1] = 3 /\ k[2] = n
        /\ \A i \in 1..n : k[2 + i] = h[i]
    BY <1>5, DomainHead, Zenon
  <2>2. m = k
    BY <1>8
  <2>. HIDE DEF k
  <2>. QED
    BY <2>1, <2>2
<1>10. \A i \in 1..(n + 1) : m[1 + i] = b[i]
  <2>. TAKE i \in 1..(n + 1)
  <2>1. CASE i = 1
    BY <1>3, <1>9, <2>1
  <2>2. CASE i # 1
    <3>1. i - 1 \in 1..n /\ 2 + (i - 1) = 1 + i /\ (i - 1) + 1 = i
      BY <2>2
    <3>2. m[2 + (i - 1)] = h[i - 1] /\ h[i - 1] = b[(i - 1) + 1]
      BY <1>5, <1>9, <3>1
    <3>. QED
      BY <3>1, <3>2
  <2>. QED
    BY <2>1, <2>2
<1>11. PortAt(r) = n + 2 /\ PortAt(r) + 1 = n + 3 /\ Len(b) - 2 = n + 1 /\ Len(b) - 1 = n + 2
  <2>1. PortAt(r) = Len(b) - 1
    BY <1>1, <1>2 DEF PortAt, Socks5AddrType
  <2>2. (n + 3) - 1 = n + 2 /\ (n + 3) - 2 = n + 1 /\ (n + 2) + 1 = n + 3
    OBVIOUS
  <2>3. PortAt(r) = n + 2
    BY <1>4, <2>1, <2>2, Zenon
  <2>. QED
    BY <1>4, <2>2, <2>3, Zenon
<1>12. EncodedAs(a, r)
  <2>1. m \in Seq(Byte) /\ Len(m) = Len(r.bytes) - 1 /\ m[1] = r.atyp
    <3>1. 2 + n = n + 2
      OBVIOUS
    <3>. QED
      BY <1>1, <1>2, <1>9, <1>11, <3>1, Zenon
  <2>2. \A i \in 1..(Len(r.bytes) - 2) : m[1 + i] = r.bytes[i]
    BY <1>1, <1>10, <1>11, Zenon
  <2>3. a.port = U16(r.bytes[PortAt(r)], r.bytes[PortAt(r) + 1]) /\ a.type \in {"V4", "V6", "Domain"}
    BY <1>1, <1>7, <1>11, Zenon
  <2>. QED
    BY <2>1, <2>2, <2>3, Zenon DEF EncodedAs, m
<1>. QED
  BY <1>6, <1>12

\* What every request get_request accepts is encoded as.
LEMMA Encoded ==
  ASSUME NEW r, WellFormed(r), parse(r) # ParseErr
  PROVE  EncodedAs(parse(r), r)
<1>1. \/ r.atyp = Socks5AddrType.IPV4 \/ r.atyp = Socks5AddrType.IPV6
      \/ r.atyp = Socks5AddrType.DOMAIN_NAME
  BY DEF WellFormed
<1>. QED
  BY <1>1, EncodeV4, EncodeV6, EncodeDomain

\* The response to a request whose address was parsed, octet by octet.
LEMMA ReplyOctets ==
  ASSUME NEW r, WellFormed(r), parse(r) # ParseErr, NEW e \in Byte
  PROVE  LET m == send_final_response(e, parse(r)) IN
         /\ m \in Seq(Byte) /\ Len(m) = Len(r.bytes) + 4
         /\ m[4] = r.atyp
         /\ \A i \in 1..(Len(r.bytes) - 2) : m[4 + i] = r.bytes[i]
         /\ m[Len(r.bytes) + 3] = r.bytes[PortAt(r)]
         /\ m[Len(r.bytes) + 4] = r.bytes[PortAt(r) + 1]
<1>1. PICK b \in Seq(Byte) : b = r.bytes
  BY DEF WellFormed
<1>. DEFINE a == parse(r)
            h == reply_host(a)
            p1 == b[PortAt(r)]
            p2 == b[PortAt(r) + 1]
            m == <<5, e, 0>> \o h \o <<p1, p2>>
<1>2. /\ h \in Seq(Byte) /\ Len(h) = Len(b) - 1 /\ h[1] = r.atyp
      /\ \A i \in 1..(Len(b) - 2) : h[1 + i] = b[i]
      /\ a.port = U16(p1, p2)
  BY <1>1, Encoded DEF EncodedAs
<1>3. Len(b) \in Nat /\ Len(b) >= 3 /\ PortAt(r) \in 1..(Len(b) - 1)
  <2>1. Len(b) \in Nat
    BY LenProperties
  <2>2. CASE r.atyp = Socks5AddrType.IPV4
    <3>1. Len(b) = 6 /\ PortAt(r) = 4
      BY <1>1, <2>2 DEF WellFormed, Socks5AddrType, PortAt
    <3>. QED
      BY <3>1
  <2>3. CASE r.atyp = Socks5AddrType.IPV6
    <3>1. Len(b) = 18 /\ PortAt(r) = Len(b) - 1
      BY <1>1, <2>3 DEF WellFormed, Socks5AddrType, PortAt
    <3>2. 18 - 1 = 17
      OBVIOUS
    <3>3. PortAt(r) = 17
      BY <3>1, <3>2, Zenon
    <3>. QED
      BY <3>1, <3>3
  <2>4. CASE r.atyp = Socks5AddrType.DOMAIN_NAME
    <3>1. Len(b) = 1 + b[1] + 2 /\ PortAt(r) = Len(b) - 1 /\ b # <<>>
      BY <1>1, <2>4 DEF WellFormed, Socks5AddrType, PortAt
    <3>2. 1 \in 1..Len(b)
      <4>1. Len(b) \in Nat \ {0}
        BY <3>1, EmptySeq
      <4>. QED
        BY <4>1
    <3>3. PICK n \in Byte : n = b[1]
      BY <3>2, ElementOfSeq
    <3>4. n \in Nat /\ Len(b) = 1 + n + 2
      <4>1. n \in Nat
        BY DEF Byte
      <4>. QED
        BY <3>1, <3>3, <4>1, Zenon
    <3>5. Len(b) - 1 \in 1..(Len(b) - 1) /\ Len(b) >= 3
      BY <2>1, <3>4
    <3>. QED
      BY <2>1, <3>1, <3>5, Zenon
  <2>. QED
    BY <2>1, <2>2, <2>3, <2>4 DEF WellFormed
<1>4. p1 \in Byte /\ p2 \in Byte
  <2>1. PICK k \in 1..(Len(b) - 1) : k = PortAt(r)
    BY <1>3
  <2>2. k \in 1..Len(b) /\ k + 1 \in 1..Len(b)
    BY <1>3
  <2>3. b[k] \in Byte /\ b[k + 1] \in Byte
    BY <2>2, ElementOfSeq
  <2>. QED
    BY <2>1, <2>3, Zenon
<1>5. send_final_response(e, a) = m
  <2>. HIDE DEF a, p1, p2
  <2>1. Hi(U16(p1, p2)) = p1 /\ Lo(U16(p1, p2)) = p2
    BY <1>4, OctetPair
  <2>2. Hi(a.port) = p1 /\ Lo(a.port) = p2
    BY <1>2, <2>1, Zenon
  <2>. QED
    BY <2>2, Zenon DEF send_final_response
<1>. HIDE DEF a, h, p1, p2
<1>t. h \in Seq(Byte)
  BY <1>2
<1>6. /\ m \in Seq(Byte) /\ Len(m) = Len(h) + 5
      /\ \A i \in 1..Len(h) : m[3 + i] = h[i]
      /\ m[Len(h) + 4] = p1 /\ m[Len(h) + 5] = p2
  BY <1>t, <1>4, Layout
<1>. HIDE DEF m
<1>7. PICK n \in Nat : n = Len(b) /\ n >= 3
  BY <1>3
<1>8. Len(h) = n - 1 /\ \A i \in 1..(n - 2) : h[1 + i] = b[i]
  BY <1>2, <1>7, Zenon
<1>9. /\ Len(m) = n + 4 /\ m[4] = h[1] /\ \A i \in 1..(n - 2) : m[4 + i] = b[i]
      /\ m[n + 3] = p1 /\ m[n + 4] = p2
  <2>1. Len(m) = n + 4 /\ Len(h) + 4 = n + 3 /\ Len(h) + 5 = n + 4 /\ 1 \in 1..Len(h) /\ 3 + 1 = 4
    BY <1>6, <1>7, <1>8
  <2>2. m[3 + 1] = h[1] /\ m[n + 3] = p1 /\ m[n + 4] = p2
    BY <1>6, <2>1, Zenon
  <2>3. ASSUME NEW i \in 1..(n - 2) PROVE m[4 + i] = b[i]
    <3>1. 1 + i \in 1..Len(h) /\ 3 + (1 + i) = 4 + i
      BY <1>7, <1>8
    <3>2. m[3 + (1 + i)] = h[1 + i]
      BY <1>6, <3>1, Zenon
    <3>. QED
      BY <1>8, <3>1, <3>2
  <2>. QED
    BY <2>1, <2>2, <2>3
<1>10. m[4] = r.atyp
  BY <1>2, <1>9
<1>. QED
  BY <1>1, <1>5, <1>6, <1>7, <1>9, <1>10 DEF a, p1, p2

-----------------------------------------------------------------------------
(* The life of a request.                                                    *)

\* What each stage knows: the address parsed, the one dialled, and the one in the response.
CodecInv ==
  /\ req \in Requests
  /\ step \in {"parse", "refuse", "resolve", "done"}
  /\ step # "done" => dial = None /\ reply = <<>>
  /\ step # "parse" => addr = parse(req)
  /\ step = "refuse" => addr = ParseErr
  /\ step = "resolve" => addr # ParseErr
  /\ step = "done" /\ addr = ParseErr =>
       dial = None /\ reply = send_final_response(Socks5Error.AddressTypeNotSupported, DefaultAddr)
  /\ step = "done" /\ addr # ParseErr =>
       /\ \E e \in Byte : reply = send_final_response(e, addr)
       /\ dial = None \/ dial.port = addr.port

\* Putting a port into a socket address.
LEMMA PortPut ==
  ASSUME NEW h \in SocketAddr, NEW x
  PROVE  [h EXCEPT !.port = x].port = x
BY DEF SocketAddr

\* What resolve_local returns has the port it was given.
LEMMA ResolveKeepsPort ==
  ASSUME NEW a, NEW d \in resolve_local(a)
  PROVE  d.port = a.port
<1>1. CASE a.type = "Domain"
  <2>1. PICK h \in Hosts : d = [h EXCEPT !.port = a.port]
    BY <1>1 DEF resolve_local
  <2>2. h \in SocketAddr
    BY CodecAssumption DEF CodecAssumption
  <2>3. [h EXCEPT !.port = a.port].port = a.port
    BY <2>2, PortPut, Zenon
  <2>. QED
    BY <2>1, <2>3
<1>2. CASE a.type # "Domain"
  BY <1>2 DEF resolve_local
<1>. QED
  BY <1>1, <1>2

\* A request starts unparsed.
LEMMA CodecInit == Init => CodecInv
BY DEF Init, CodecInv

\* Each step of a request keeps CodecInv.
LEMMA CodecNext ==
  ASSUME CodecInv, [Next]_vars
  PROVE  CodecInv'
<1>1. CASE get_request
  BY <1>1 DEF get_request, CodecInv
<1>2. CASE Refuse
  BY <1>2 DEF Refuse, CodecInv
<1>3. CASE Connect
  <2>1. PICK e \in Byte : reply' = send_final_response(e, addr)
    BY <1>3 DEF Connect, Socks5Error, Byte
  <2>2. dial'.port = addr.port
    BY <1>3, ResolveKeepsPort DEF Connect
  <2>3. step = "resolve" /\ step' = "done" /\ req' = req /\ addr' = addr /\ addr # ParseErr
        /\ addr = parse(req)
    BY <1>3 DEF Connect, CodecInv
  <2>. QED
    BY <2>1, <2>2, <2>3 DEF CodecInv
<1>4. CASE ResolveFails
  <2>1. PICK e \in Byte : reply' = send_final_response(e, addr)
    BY <1>4 DEF ResolveFails, Socks5Error, Byte
  <2>2. step = "resolve" /\ step' = "done" /\ req' = req /\ addr' = addr /\ dial' = dial
        /\ addr # ParseErr /\ addr = parse(req) /\ dial = None
    BY <1>4 DEF ResolveFails, CodecInv
  <2>. QED
    BY <2>1, <2>2 DEF CodecInv
<1>5. CASE Done \/ UNCHANGED vars
  BY <1>5 DEF Done, vars, CodecInv
<1>. QED
  BY <1>1, <1>2, <1>3, <1>4, <1>5 DEF Next

\* CodecInv holds of every request.
LEMMA CodecCorrect == Spec => []CodecInv
<1>. QED
  BY CodecInit, CodecNext, PTL DEF Spec

\* The length a reader computes for the response to a request whose address was parsed.
LEMMA FramedParsed ==
  ASSUME NEW r, WellFormed(r), parse(r) # ParseErr, NEW e \in Byte
  PROVE  Len(send_final_response(e, parse(r))) = ReplyLen(send_final_response(e, parse(r)))
<1>. DEFINE m == send_final_response(e, parse(r))
<1>1. /\ Len(m) = Len(r.bytes) + 4 /\ m[4] = r.atyp
      /\ \A i \in 1..(Len(r.bytes) - 2) : m[4 + i] = r.bytes[i]
  BY ReplyOctets
<1>. HIDE DEF m
<1>2. CASE r.atyp = Socks5AddrType.IPV4
  <2>1. Len(r.bytes) = 6 /\ m[4] = 1
    BY <1>1, <1>2 DEF WellFormed, Socks5AddrType
  <2>. QED
    BY <1>1, <2>1 DEF ReplyLen, Socks5AddrType, m
<1>3. CASE r.atyp = Socks5AddrType.IPV6
  <2>1. Len(r.bytes) = 18 /\ m[4] = 4
    BY <1>1, <1>3 DEF WellFormed, Socks5AddrType
  <2>. QED
    BY <1>1, <2>1 DEF ReplyLen, Socks5AddrType, m
<1>4. CASE r.atyp = Socks5AddrType.DOMAIN_NAME
  <2>1. PICK b \in Seq(Byte) : b = r.bytes
    BY DEF WellFormed
  <2>2. Len(b) = 1 + b[1] + 2 /\ m[4] = 3 /\ b # <<>>
    BY <1>1, <1>4, <2>1 DEF WellFormed, Socks5AddrType
  <2>3. PICK n \in Byte : n = b[1]
    <3>1. Len(b) \in Nat \ {0}
      BY <2>2, EmptySeq
    <3>2. 1 \in 1..Len(b)
      BY <3>1
    <3>. QED
      BY <3>2, ElementOfSeq
  <2>4. n \in Nat
    BY DEF Byte
  <2>5. Len(b) = 1 + n + 2
    BY <2>2, <2>3, Zenon
  <2>6. m[5] = n /\ Len(m) = n + 7
    <3>1. 1 \in 1..(Len(b) - 2) /\ Len(b) + 4 = n + 7 /\ 4 + 1 = 5
      BY <2>4, <2>5
    <3>2. m[4 + 1] = b[1] /\ Len(m) = Len(b) + 4
      BY <1>1, <2>1, <3>1
    <3>. QED
      BY <2>3, <3>1, <3>2, Zenon
  <2>7. ReplyLen(m) = 4 + (1 + n) + 2
    BY <2>2, <2>6 DEF ReplyLen, Socks5AddrType
  <2>8. 4 + (1 + n) + 2 = n + 7
    BY <2>4
  <2>. QED
    BY <2>6, <2>7, <2>8, Zenon DEF m
<1>. QED
  BY <1>2, <1>3, <1>4 DEF WellFormed

\* The response that refuses an address carries 127.0.0.1:0.
LEMMA FramedDefault ==
  LET m == send_final_response(Socks5Error.AddressTypeNotSupported, DefaultAddr) IN
  m \in Seq(Byte) /\ Len(m) = ReplyLen(m)
<1>1. PICK e \in Byte, z \in Byte : e = 8 /\ z = 0
  BY DEF Byte
<1>. DEFINE m == send_final_response(Socks5Error.AddressTypeNotSupported, DefaultAddr)
            g == <<127, 0, 0, 1>>
            h == <<1>> \o g
            k == <<5, e, 0>> \o h \o <<z, z>>
<1>2. h \in Seq(Byte) /\ Len(h) = 5 /\ h[1] = 1
  <2>1. g \in Seq(Byte) /\ Len(g) = 4 /\ 1 \in Byte
    BY DEF Byte
  <2>. HIDE DEF g
  <2>2. h \in Seq(Byte) /\ Len(h) = 1 + Len(g) /\ h[1] = 1
    BY <2>1, Prefixed, Zenon
  <2>. HIDE DEF h
  <2>. QED
    BY <2>1, <2>2
<1>3. m = k
  <2>1. reply_host(DefaultAddr) = h
    BY DEF reply_host, DefaultAddr, V4, Socks5AddrType
  <2>2. Hi(DefaultAddr.port) = z /\ Lo(DefaultAddr.port) = z
    BY <1>1 DEF DefaultAddr, V4, Hi, Lo
  <2>3. Socks5Error.AddressTypeNotSupported = e
    BY <1>1 DEF Socks5Error
  <2>. HIDE DEF h
  <2>. QED
    BY <2>1, <2>2, <2>3, Zenon DEF send_final_response
<1>. HIDE DEF h, m
<1>4. k \in Seq(Byte) /\ Len(k) = Len(h) + 5 /\ \A i \in 1..Len(h) : k[3 + i] = h[i]
  <2>1. h \in Seq(Byte)
    BY <1>2
  <2>. QED
    BY <2>1, Layout
<1>. HIDE DEF k
<1>5. Len(k) = 10 /\ k[4] = 1
  <2>1. k[3 + 1] = h[1] /\ 3 + 1 = 4
    BY <1>2, <1>4
  <2>. QED
    BY <1>2, <1>4, <2>1
<1>6. ReplyLen(k) = 10
  BY <1>5 DEF ReplyLen, Socks5AddrType
<1>. QED
  BY <1>3, <1>4, <1>5, <1>6 DEF m

\* Every final response is a well framed message of octets, for every address and every
\* result of the lookup and the connect: nothing of it is left for the tunnel to be read.
THEOREM RepliesFramed == Spec => []ReplyFramed
<1>1. CodecInv => ReplyFramed
  <2>. SUFFICES ASSUME CodecInv, reply # <<>>
                PROVE  (\A i \in DOMAIN reply : reply[i] \in Byte) /\ Len(reply) = ReplyLen(reply)
    BY DEF ReplyFramed
  <2>1. step = "done" /\ req \in Requests /\ addr = parse(req)
    BY DEF CodecInv
  <2>2. WellFormed(req)
    BY <2>1, CodecAssumption DEF CodecAssumption
  <2>3. reply \in Seq(Byte) /\ Len(reply) = ReplyLen(reply)
    <3>1. CASE addr = ParseErr
      BY <2>1, <3>1, FramedDefault DEF CodecInv
    <3>2. CASE addr # ParseErr
      <4>1. PICK e \in Byte : reply = send_final_response(e, parse(req))
        BY <2>1, <3>2 DEF CodecInv
      <4>. QED
        BY <2>1, <2>2, <3>2, <4>1, ReplyOctets, FramedParsed
    <3>. QED
      BY <3>1, <3>2
  <2>4. DOMAIN reply = 1..Len(reply)
    BY <2>3, LenProperties
  <2>. QED
    BY <2>3, <2>4, ElementOfSeq
<1>. QED
  BY <1>1, CodecCorrect, PTL

\* The response to a request repeats its address and port octet by octet, for every IPv6
\* address and every host name.  (For IPv4 the port is wrong: parse_address_v4 takes it one
\* octet too early.)
THEOREM EchoedUnlessV4 == Spec => [](req.atyp # Socks5AddrType.IPV4 => EchoIsRequest)
<1>1. CodecInv => (req.atyp # Socks5AddrType.IPV4 => EchoIsRequest)
  <2>. SUFFICES ASSUME CodecInv, req.atyp # Socks5AddrType.IPV4, step = "done", addr # ParseErr
                PROVE  SubSeq(reply, 4, Len(reply)) = <<req.atyp>> \o req.bytes
    BY DEF EchoIsRequest
  <2>1. WellFormed(req) /\ addr = parse(req)
    BY CodecAssumption DEF CodecAssumption, CodecInv
  <2>2. PICK e \in Byte : reply = send_final_response(e, parse(req))
    BY <2>1 DEF CodecInv
  <2>3. PICK b \in Seq(Byte) : b = req.bytes
    BY <2>1 DEF WellFormed
  <2>4. PICK t \in Byte : t = req.atyp
    BY <2>1 DEF WellFormed, Socks5AddrType, Byte
  <2>5. PortAt(req) = Len(b) - 1
    BY <2>3 DEF PortAt
  <2>6. PICK n \in Nat : n = Len(b)
    BY LenProperties
  <2>7. (n - 1) + 1 = n
    OBVIOUS
  <2>8. /\ reply \in Seq(Byte) /\ Len(reply) = n + 4 /\ reply[4] = t
        /\ \A i \in 1..(n - 2) : reply[4 + i] = b[i]
        /\ reply[n + 3] = b[n - 1] /\ reply[n + 4] = b[n]
    <3>1. /\ reply \in Seq(Byte) /\ Len(reply) = Len(b) + 4 /\ reply[4] = req.atyp
          /\ \A i \in 1..(Len(b) - 2) : reply[4 + i] = b[i]
          /\ reply[Len(b) + 3] = b[PortAt(req)] /\ reply[Len(b) + 4] = b[PortAt(req) + 1]
      BY <2>1, <2>2, <2>3, ReplyOctets
    <3>. QED
      BY <2>4, <2>5, <2>6, <2>7, <3>1, Zenon
  <2>. DEFINE s == SubSeq(reply, 4, n + 4)
              q == <<t>> \o b
  <2>9. s \in Seq(Byte) /\ Len(s) = n + 1 /\ \A i \in 1..(n + 1) : s[i] = reply[i + 3]
    <3>1. \A i \in 4..(n + 4) : reply[i] \in Byte
      BY <2>8, ElementOfSeq
    <3>2. /\ s \in Seq(Byte) /\ Len(s) = IF 4 <= n + 4 THEN (n + 4) - 4 + 1 ELSE 0
          /\ \A i \in 1..((n + 4) - 4 + 1) : s[i] = reply[4 + i - 1]
      BY <3>1, SubSeqProperties
    <3>. HIDE DEF s
    <3>. QED
      BY <3>2
  <2>10. q \in Seq(Byte) /\ Len(q) = n + 1 /\ q[1] = t /\ \A i \in 1..n : q[1 + i] = b[i]
    <3>1. /\ q \in Seq(Byte) /\ Len(q) = 1 + Len(b) /\ q[1] = t
          /\ \A i \in 1..Len(b) : q[1 + i] = b[i]
      BY Prefixed, Zenon
    <3>. HIDE DEF q
    <3>. QED
      BY <2>6, <3>1
  <2>. HIDE DEF s, q
  <2>11. ASSUME NEW i \in 1..(n + 1) PROVE s[i] = q[i]
    <3>1. s[i] = reply[i + 3]
      BY <2>9
    <3>2. CASE i = 1
      BY <2>8, <2>10, <3>1, <3>2
    <3>3. CASE i # 1
      <4>1. i - 1 \in 1..n /\ 1 + (i - 1) = i /\ 4 + (i - 1) = i + 3
        BY <3>3
      <4>2. q[i] = b[i - 1]
        BY <2>10, <4>1
      <4>3. CASE i - 1 \in 1..(n - 2)
        <5>1. reply[4 + (i - 1)] = b[i - 1]
          BY <2>8, <4>3
        <5>. QED
          BY <3>1, <4>1, <4>2, <5>1
      <4>4. CASE i - 1 = n - 1
        <5>1. i + 3 = n + 3
          BY <4>4
        <5>. QED
          BY <2>8, <3>1, <4>2, <4>4, <5>1, Zenon
      <4>5. CASE i - 1 = n
        <5>1. i + 3 = n + 4
          BY <4>5
        <5>. QED
          BY <2>8, <3>1, <4>2, <4>5, <5>1, Zenon
      <4>. QED
        BY <4>1, <4>3, <4>4, <4>5
    <3>. QED
      BY <3>2, <3>3
  <2>12. s = q
    BY <2>9, <2>10, <2>11, SeqEqual
  <2>. QED
    BY <2>3, <2>4, <2>8, <2>12, Zenon DEF s, q
<1>. QED
  BY <1>1, CodecCorrect, PTL

\* The proxy connects to the port the client asked for, for every IPv6 address and every
\* host name, whatever the lookup returns.
THEOREM DialledUnlessV4 == Spec => [](req.atyp # Socks5AddrType.IPV4 => DialsRequestedPort)
<1>1. CodecInv => (req.atyp # Socks5AddrType.IPV4 => DialsRequestedPort)
  <2>. SUFFICES ASSUME CodecInv, req.atyp # Socks5AddrType.IPV4, dial # None
                PROVE  dial.port = RequestPort
    BY DEF DialsRequestedPort
  <2>1. step = "done" /\ addr = parse(req) /\ addr # ParseErr /\ dial.port = addr.port
    BY DEF CodecInv
  <2>2. WellFormed(req)
    BY CodecAssumption DEF CodecAssumption, CodecInv
  <2>3. addr.port = U16(req.bytes[PortAt(req)], req.bytes[PortAt(req) + 1])
    BY <2>1, <2>2, Encoded DEF EncodedAs
  <2>4. PICK b \in Seq(Byte) : b = req.bytes
    BY <2>2 DEF WellFormed
  <2>5. Len(b) \in Nat
    BY LenProperties
  <2>6. (Len(b) - 1) + 1 = Len(b)
    BY <2>5
  <2>7. PortAt(req) = Len(b) - 1
    BY <2>4 DEF PortAt
  <2>. QED
    BY <2>1, <2>3, <2>4, <2>6, <2>7, Zenon DEF RequestPort
<1>. QED
  BY <1>1, CodecCorrect, PTL
=============================================================================
