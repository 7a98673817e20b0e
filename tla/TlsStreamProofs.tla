-------------------------- MODULE TlsStreamProofs --------------------------
(***************************************************************************)
(* Proofs about TlsStream, for every number of records and chunks and      *)
(* every size of the socket's send queue.                                  *)
(***************************************************************************)
EXTENDS TlsStream, FiniteSetTheorems, SequenceTheorems, WellFoundedInduction, TLAPS

\* A set of naturals with an element has a smallest one.
LEMMA Least ==
  ASSUME NEW T, T \subseteq Nat, T # {}
  PROVE  Min(T) \in T
<1>. DEFINE R == OpToRel(<, Nat)
<1>1. PICK x \in T : \A y \in T : ~ (<<y, x>> \in R)
  <2>1. IsWellFoundedOn(R, Nat)
    BY NatLessThanWellFounded
  <2>. HIDE DEF R
  <2>. QED
    BY <2>1, WFMin
<1>2. \A y \in T : ~ (y < x)
  BY <1>1 DEF OpToRel
<1>3. \A y \in T : x <= y
  BY <1>2
<1>. QED
  BY <1>3 DEF Min

\* The first n records.
LEMMA Prefix ==
  ASSUME NEW q \in Seq(Records), NEW n \in 0..Len(q)
  PROVE  LET p == SubSeq(q, 1, n) IN
         p \in Seq(Records) /\ Len(p) = n /\ DOMAIN p = 1..n /\ \A i \in 1..n : p[i] = q[i]
<1>. DEFINE p == SubSeq(q, 1, n)
<1>1. Len(q) \in Nat
  BY LenProperties
<1>2. \A i \in 1..n : q[i] \in Records
  BY <1>1, ElementOfSeq
<1>3. /\ p \in Seq(Records) /\ Len(p) = IF 1 <= n THEN n - 1 + 1 ELSE 0
      /\ \A i \in 1..(n - 1 + 1) : p[i] = q[1 + i - 1]
  BY <1>1, <1>2, SubSeqProperties
<1>. HIDE DEF p
<1>4. Len(p) = n /\ \A i \in 1..n : p[i] = q[i]
  BY <1>1, <1>3
<1>5. DOMAIN p = 1..n
  BY <1>3, <1>4, LenProperties
<1>. QED
  BY <1>3, <1>4, <1>5 DEF p

\* The records after the first n.
LEMMA Suffix ==
  ASSUME NEW q \in Seq(Records), NEW n \in 0..Len(q)
  PROVE  LET p == SubSeq(q, n + 1, Len(q)) IN
         /\ p \in Seq(Records) /\ Len(p) = Len(q) - n /\ DOMAIN p = 1..(Len(q) - n)
         /\ \A i \in 1..(Len(q) - n) : p[i] = q[n + i]
<1>. DEFINE p == SubSeq(q, n + 1, Len(q))
<1>1. Len(q) \in Nat
  BY LenProperties
<1>2. \A i \in (n + 1)..Len(q) : q[i] \in Records
  BY <1>1, ElementOfSeq
<1>3. /\ p \in Seq(Records) /\ Len(p) = IF n + 1 <= Len(q) THEN Len(q) - (n + 1) + 1 ELSE 0
      /\ \A i \in 1..(Len(q) - (n + 1) + 1) : p[i] = q[(n + 1) + i - 1]
  BY <1>1, <1>2, SubSeqProperties
<1>. HIDE DEF p
<1>4. Len(p) = Len(q) - n /\ \A i \in 1..(Len(q) - n) : p[i] = q[n + i]
  BY <1>1, <1>3
<1>5. DOMAIN p = 1..(Len(q) - n)
  BY <1>3, <1>4, LenProperties
<1>. QED
  BY <1>3, <1>4, <1>5 DEF p

\* The records the session accepts are the first of those it is given: all of them, or
\* those before a bad one.
LEMMA ValidRecords ==
  ASSUME NEW q \in Seq(Records)
  PROVE  \E m \in 0..Len(q) : /\ DOMAIN Valid(q) = 1..m /\ \A i \in 1..m : Valid(q)[i] = q[i]
                              /\ ~ Has(q, "bad") => m = Len(q)
                              /\ m = Len(q) \/ (m + 1 \in 1..Len(q) /\ q[m + 1].kind = "bad")
<1>. DEFINE I == {i \in 1..Len(q) : q[i].kind = "bad"}
            bad == IF I # {} THEN Min(I) ELSE 0
<1>0. Len(q) \in Nat /\ DOMAIN q = 1..Len(q)
  BY LenProperties
<1>1. Valid(q) = IF bad = 0 THEN q ELSE SubSeq(q, 1, bad - 1)
  BY DEF Valid, SelectInSeq
<1>2. bad = 0 \/ (bad \in 1..Len(q) /\ q[bad].kind = "bad")
  <2>1. I \subseteq Nat
    BY <1>0
  <2>2. I # {} => Min(I) \in I
    BY <2>1, Least
  <2>. QED
    BY <2>2
<1>3. ~ Has(q, "bad") => bad = 0
  BY <1>0 DEF Has
<1>. HIDE DEF bad
<1>4. CASE bad = 0
  <2>1. Valid(q) = q /\ Len(q) \in 0..Len(q)
    BY <1>0, <1>1, <1>4
  <2>. QED
    BY <1>0, <2>1
<1>5. CASE bad # 0
  <2>1. PICK m \in 0..Len(q) : m = bad - 1
    BY <1>0, <1>2, <1>5
  <2>2. Valid(q) = SubSeq(q, 1, m)
    BY <1>1, <1>5, <2>1
  <2>3. DOMAIN Valid(q) = 1..m /\ \A i \in 1..m : Valid(q)[i] = q[i]
    BY <2>2, Prefix
  <2>4. m + 1 \in 1..Len(q) /\ q[m + 1].kind = "bad"
    <3>1. m + 1 = bad
      BY <1>0, <1>2, <1>5, <2>1
    <3>. QED
      BY <1>2, <1>5, <3>1
  <2>. QED
    BY <1>3, <1>5, <2>3, <2>4
<1>. QED
  BY <1>4, <1>5

-----------------------------------------------------------------------------
(* The records of the peer.                                                  *)

\* q has been received and not yet read by a session that is h flights into its handshake;
\* st and pr are the stage of the peer and its side of the connection.  The handshake comes
\* before the data, and nothing comes after a bad record.
InOrder(q, h, st, pr) ==
  /\ h < 2 => \A k \in DOMAIN q : q[k].kind = "data" =>
                \E j \in DOMAIN q : j < k /\ q[j].kind = "finished"
  /\ \A k \in DOMAIN q : q[k].kind = "bad" => k = Len(q) /\ st = "mute"
  /\ pr = "open" /\ st = "data" /\ h < 2 => Has(q, "finished")
  /\ h = 2 => ~ Has(q, "hello")
  /\ \A j, k \in DOMAIN q : q[j].kind = "finished" /\ q[k].kind = "hello" => k < j
  /\ st = "new" => h < 2 /\ ~ Has(q, "finished")

\* How far the handshake is after the records rs.
Flights(h, rs) == IF Has(rs, "finished") THEN 2 ELSE IF Has(rs, "hello") THEN 1 ELSE h

\* Reading the first n records keeps the order, never takes the handshake back, and ends it
\* if a data record is among them.
LEMMA OrderKept ==
  ASSUME NEW q \in Seq(Records), NEW h \in 0..2, NEW st, NEW pr, NEW n \in 0..Len(q),
         InOrder(q, h, st, pr)
  PROVE  LET p == SubSeq(q, 1, n)
             g == Flights(h, Valid(p))
         IN  /\ InOrder(SubSeq(q, n + 1, Len(q)), g, st, pr)
             /\ g \in 0..2 /\ h <= g
             /\ Has(p, "data") /\ ~ Has(p, "bad") => g = 2
             /\ Has(Valid(p), "data") => g = 2
<1>. DEFINE p == SubSeq(q, 1, n)
            v == Valid(p)
            g == Flights(h, v)
            z == SubSeq(q, n + 1, Len(q))
<1>0. Len(q) \in Nat /\ DOMAIN q = 1..Len(q)
  BY LenProperties
<1>1. p \in Seq(Records) /\ DOMAIN p = 1..n /\ \A i \in 1..n : p[i] = q[i]
  BY Prefix
<1>2. /\ z \in Seq(Records) /\ Len(z) = Len(q) - n /\ DOMAIN z = 1..(Len(q) - n)
      /\ \A i \in 1..(Len(q) - n) : z[i] = q[n + i]
  BY Suffix
<1>3. PICK m \in 0..n : /\ DOMAIN v = 1..m /\ \A i \in 1..m : v[i] = q[i]
                        /\ ~ Has(p, "bad") => m = n
  <2>1. PICK m \in 0..Len(p) : /\ DOMAIN v = 1..m /\ \A i \in 1..m : v[i] = p[i]
                               /\ ~ Has(p, "bad") => m = Len(p)
    BY <1>1, ValidRecords
  <2>2. Len(p) = n
    BY <1>1
  <2>3. \A i \in 1..m : i \in 1..n
    BY <2>2
  <2>. QED
    BY <1>1, <2>1, <2>2, <2>3
<1>. HIDE DEF p, v, z
<1>4. /\ \A k : Has(p, k) <=> \E i \in 1..n : q[i].kind = k
      /\ \A k : Has(v, k) <=> \E i \in 1..m : q[i].kind = k
  BY <1>1, <1>3 DEF Has
<1>5. \A k : Has(z, k) => \E i \in (n + 1)..Len(q) : q[i].kind = k
  <2>1. ASSUME NEW j \in 1..(Len(q) - n) PROVE n + j \in (n + 1)..Len(q) /\ z[j] = q[n + j]
    BY <1>0, <1>2
  <2>. QED
    BY <1>2, <2>1 DEF Has
<1>6. \A k : Has(v, k) => Has(q, k)
  BY <1>0, <1>4 DEF Has
<1>7. g \in 0..2 /\ h <= g
  <2>1. h = 2 => ~ Has(v, "hello")
    BY <1>6 DEF InOrder
  <2>. QED
    BY <2>1 DEF Flights
<1>8. Has(v, "data") => g = 2
  <2>1. CASE h < 2
    <3>. SUFFICES ASSUME NEW i \in 1..m, q[i].kind = "data" PROVE g = 2
      BY <1>4
    <3>1. PICK j \in 1..Len(q) : j < i /\ q[j].kind = "finished"
      BY <1>0, <2>1 DEF InOrder
    <3>2. j \in 1..m
      BY <1>0, <3>1
    <3>3. Has(v, "finished")
      BY <1>4, <3>1, <3>2
    <3>. QED
      BY <3>3 DEF Flights
  <2>2. CASE h = 2
    BY <1>7, <2>2
  <2>. QED
    BY <2>1, <2>2
<1>9. Has(p, "data") /\ ~ Has(p, "bad") => g = 2
  BY <1>3, <1>4, <1>8
<1>10. InOrder(z, g, st, pr)
  <2>. HIDE DEF g
  <2>1. CASE Has(p, "bad")
    <3>1. n = Len(q) /\ st = "mute"
      <4>1. PICK i \in 1..n : q[i].kind = "bad"
        BY <1>4, <2>1
      <4>2. i \in DOMAIN q
        BY <1>0
      <4>3. i = Len(q) /\ st = "mute"
        BY <4>1, <4>2 DEF InOrder
      <4>4. PICK c \in Nat : c = Len(q)
        BY <1>0
      <4>5. n \in 0..c /\ i \in 1..n /\ i = c
        BY <4>3, <4>4, Zenon
      <4>6. n = c
        BY <4>5
      <4>. QED
        BY <4>3, <4>4, <4>6, Zenon
    <3>2. DOMAIN z = {}
      BY <1>0, <1>2, <3>1
    <3>. QED
      BY <3>1, <3>2 DEF InOrder, Has
  <2>2. CASE ~ Has(p, "bad")
    <3>1. m = n
      BY <1>3, <2>2
    <3>2. g # 2 => g < 2 /\ h < 2 /\ \A i \in 1..n : q[i].kind # "finished"
      BY <1>4, <1>7, <3>1 DEF Flights, g
    <3>3. \A i \in 1..Len(q) : i \in 1..n \/ (i - n \in DOMAIN z /\ z[i - n] = q[i])
      BY <1>0, <1>2
    <3>4. \A i \in DOMAIN z : n + i \in DOMAIN q /\ z[i] = q[n + i]
      BY <1>0, <1>2
    <3>5. ASSUME g < 2, NEW k \in DOMAIN z, z[k].kind = "data"
          PROVE  \E j \in DOMAIN z : j < k /\ z[j].kind = "finished"
      <4>1. h < 2
        BY <1>7, <3>2, <3>5
      <4>2. PICK j \in DOMAIN q : j < n + k /\ q[j].kind = "finished"
        BY <3>4, <3>5, <4>1 DEF InOrder
      <4>3. j - n \in DOMAIN z /\ z[j - n] = q[j]
        BY <1>0, <1>7, <3>2, <3>3, <3>5, <4>2
      <4>4. j - n < k
        BY <1>0, <1>2, <4>2
      <4>. QED
        BY <4>2, <4>3, <4>4
    <3>6. ASSUME NEW k \in DOMAIN z, z[k].kind = "bad" PROVE k = Len(z) /\ st = "mute"
      <4>1. n + k = Len(q) /\ st = "mute"
        BY <3>4, <3>6 DEF InOrder
      <4>. QED
        BY <1>0, <1>2, <4>1
    <3>7. ASSUME pr = "open", st = "data", g < 2 PROVE Has(z, "finished")
      <4>1. h < 2
        BY <1>7, <3>2, <3>7
      <4>2. PICK j \in DOMAIN q : q[j].kind = "finished"
        BY <3>7, <4>1 DEF InOrder, Has
      <4>3. j - n \in DOMAIN z /\ z[j - n] = q[j]
        BY <1>0, <1>7, <3>2, <3>3, <3>7, <4>2
      <4>. QED
        BY <4>2, <4>3 DEF Has
    <3>8. ASSUME g = 2, Has(z, "hello") PROVE FALSE
      <4>1. PICK k \in (n + 1)..Len(q) : q[k].kind = "hello"
        BY <1>5, <3>8
      <4>2. h # 2
        BY <1>0, <4>1 DEF InOrder, Has
      <4>3. PICK j \in 1..n : q[j].kind = "finished"
        BY <1>4, <3>1, <3>8, <4>2 DEF Flights, g
      <4>4. k < j
        BY <1>0, <4>1, <4>3 DEF InOrder
      <4>. QED
        BY <1>0, <4>4
    <3>9. ASSUME NEW j \in DOMAIN z, NEW k \in DOMAIN z, z[j].kind = "finished", z[k].kind = "hello"
          PROVE  k < j
      <4>1. n + k < n + j
        BY <3>4, <3>9 DEF InOrder
      <4>. QED
        BY <1>0, <1>2, <4>1
    <3>10. ASSUME st = "new" PROVE g < 2 /\ ~ Has(z, "finished")
      <4>1. h < 2 /\ ~ Has(q, "finished")
        BY <3>10 DEF InOrder
      <4>2. ~ Has(v, "finished")
        BY <1>6, <4>1
      <4>3. \A i \in (n + 1)..Len(q) : i \in DOMAIN q
        BY <1>0
      <4>4. ~ Has(z, "finished")
        <5>. SUFFICES ASSUME Has(z, "finished") PROVE FALSE
          OBVIOUS
        <5>1. PICK i \in (n + 1)..Len(q) : q[i].kind = "finished"
          BY <1>5
        <5>. QED
          BY <4>1, <4>3, <5>1 DEF Has
      <4>. QED
        BY <1>7, <4>1, <4>2, <4>4 DEF Flights, g
    <3>. QED
      BY <3>5, <3>6, <3>7, <3>8, <3>9, <3>10 DEF InOrder
  <2>. QED
    BY <2>1, <2>2
<1>. QED
  BY <1>7, <1>8, <1>9, <1>10 DEF p, v, z

-----------------------------------------------------------------------------
(* The stream.                                                               *)

\* The fields of s, and the types of those the proof looks at.
Typed(s) ==
  /\ s = [rx |-> s.rx, eof |-> s.eof, hs |-> s.hs, plain |-> s.plain, notified |-> s.notified,
          outq |-> s.outq, held |-> s.held, tx |-> s.tx, shut |-> s.shut]
  /\ s.rx \in Seq(Records) /\ s.outq \in Seq(Records) /\ s.tx \in Seq(Records)
  /\ s.held \in Seq(Nat) /\ s.hs \in 0..2 /\ s.eof \in BOOLEAN
  /\ Len(s.tx) <= SndBuf

\* A stream whose peer has come to st and pr: there is no plaintext before the handshake is
\* over.
Sound(s, st, pr) ==
  /\ Typed(s)
  /\ s.hs < 2 => s.plain = <<>>
  /\ InOrder(s.rx, s.hs, st, pr)

\* What a call does to a stream: it may add to the send queue, and take the handshake
\* further unless the end of the peer's stream has been seen.
Steady(s, z) ==
  /\ \E q \in Seq(Records) : z.tx = s.tx \o q
  /\ s.eof => z.eof /\ z.hs = s.hs

\* Nothing done.
LEMMA SteadySame ==
  ASSUME NEW s, NEW z, Typed(s), z.tx = s.tx, z.eof = s.eof, s.eof => z.hs = s.hs
  PROVE  Steady(s, z)
<1>1. <<>> \in Seq(Records) /\ s.tx \o <<>> = s.tx
  BY EmptySeq, ConcatEmptySeq DEF Typed
<1>. QED
  BY <1>1 DEF Steady

\* One thing after the other.
LEMMA SteadyTrans ==
  ASSUME NEW s, NEW z, NEW y, Typed(s), Steady(s, z), Steady(z, y)
  PROVE  Steady(s, y)
<1>1. PICK q \in Seq(Records) : z.tx = s.tx \o q
  BY DEF Steady
<1>2. PICK r \in Seq(Records) : y.tx = z.tx \o r
  BY DEF Steady
<1>3. PICK x \in Seq(Records) : x = s.tx
  BY DEF Typed
<1>4. (x \o q) \o r = x \o (q \o r)
  BY ConcatAssociative
<1>5. y.tx = s.tx \o (q \o r)
  BY <1>1, <1>2, <1>3, <1>4, Zenon
<1>6. q \o r \in Seq(Records)
  BY ConcatProperties
<1>. QED
  BY <1>5, <1>6 DEF Steady

\* A record.
LEMMA RecType == \A v \in Nat : Rec("data", v) \in Records /\ Rec("flight", 0) \in Records
BY DEF Rec, Records

\* What reading the first n records changes.
LEMMA TakeFields ==
  ASSUME NEW s, Typed(s), NEW n \in 0..Len(s.rx)
  PROVE  LET z == Take(s, n)
             v == Valid(SubSeq(s.rx, 1, n))
         IN  /\ Typed(z)
             /\ z.rx = SubSeq(s.rx, n + 1, Len(s.rx)) /\ z.tx = s.tx /\ z.eof = s.eof
             /\ z.hs = Flights(s.hs, v)
             /\ ~ Has(v, "data") => z.plain = s.plain
<1>. DEFINE z == Take(s, n)
            v == Valid(SubSeq(s.rx, 1, n))
            x == SubSeq(s.rx, n + 1, Len(s.rx))
            h == [i \in DOMAIN s.held |-> Rec("data", s.held[i])]
            o == IF Has(v, "hello") THEN Append(s.outq, Rec("flight", 0))
                 ELSE IF Has(v, "finished") THEN s.outq \o h ELSE s.outq
            f == Flights(s.hs, v)
            d == IF Has(v, "finished") THEN <<>> ELSE s.held
            l == IF Has(v, "data") THEN s.plain \o Values(v) ELSE s.plain
            c == s.notified \/ Has(v, "notify")
<1>1. z = [[s EXCEPT !.hs = f, !.outq = o, !.held = d, !.plain = l, !.notified = c]
             EXCEPT !.rx = x]
  BY DEF Take, process_new_packets, Flights
<1>2. x \in Seq(Records)
  BY Suffix DEF Typed
<1>3. o \in Seq(Records)
  <2>1. s.outq \in Seq(Records) /\ s.held \in Seq(Nat)
    BY DEF Typed
  <2>2. h \in Seq(Records)
    <3>1. DOMAIN s.held = 1..Len(s.held) /\ Len(s.held) \in Nat
      BY <2>1, LenProperties
    <3>2. \A i \in 1..Len(s.held) : Rec("data", s.held[i]) \in Records
      BY <2>1, <3>1, ElementOfSeq, RecType
    <3>3. h \in [1..Len(s.held) -> Records]
      BY <3>1, <3>2
    <3>. QED
      BY <3>1, <3>3, IsASeq
  <2>. HIDE DEF h
  <2>3. s.outq \o h \in Seq(Records)
    BY <2>1, <2>2, ConcatProperties
  <2>4. Append(s.outq, Rec("flight", 0)) \in Seq(Records)
    BY <2>1, RecType, AppendProperties
  <2>. QED
    BY <2>1, <2>3, <2>4
<1>4. f \in 0..2
  BY DEF Flights, Typed
<1>5. d \in Seq(Nat)
  BY EmptySeq DEF Typed
<1>6. ~ Has(v, "data") => l = s.plain
  OBVIOUS
<1>. HIDE DEF x, o, f, d, l, c, v
<1>7. z = [rx |-> x, eof |-> s.eof, hs |-> f, plain |-> l, notified |-> c,
           outq |-> o, held |-> d, tx |-> s.tx, shut |-> s.shut]
  BY <1>1 DEF Typed
<1>. HIDE DEF z
<1>8. /\ z.rx = x /\ z.eof = s.eof /\ z.hs = f /\ z.plain = l /\ z.notified = c /\ z.outq = o
      /\ z.held = d /\ z.tx = s.tx /\ z.shut = s.shut
  BY <1>7
<1>9. Typed(z)
  BY <1>2, <1>3, <1>4, <1>5, <1>7, <1>8 DEF Typed
<1>. QED
  BY <1>6, <1>8, <1>9 DEF z, v, x, f

\* Reading the first n records; the handshake is over if they bring data and are all valid.
LEMMA TakeSound ==
  ASSUME NEW s, NEW st, NEW pr, Sound(s, st, pr), NEW n \in 0..Len(s.rx), s.eof = FALSE
  PROVE  LET z == Take(s, n)
             p == SubSeq(s.rx, 1, n)
         IN  /\ Sound(z, st, pr) /\ Steady(s, z) /\ z.eof = FALSE
             /\ Has(p, "data") /\ ~ Has(p, "bad") => z.hs = 2
<1>. DEFINE z == Take(s, n)
            p == SubSeq(s.rx, 1, n)
            x == SubSeq(s.rx, n + 1, Len(s.rx))
<1>0. Typed(s) /\ s.rx \in Seq(Records) /\ s.hs \in 0..2
  BY DEF Sound, Typed
<1>1. /\ Typed(z) /\ z.rx = x /\ z.tx = s.tx /\ z.eof = s.eof /\ z.hs = Flights(s.hs, Valid(p))
      /\ ~ Has(Valid(p), "data") => z.plain = s.plain
  BY <1>0, TakeFields
<1>2. /\ InOrder(x, Flights(s.hs, Valid(p)), st, pr)
      /\ Flights(s.hs, Valid(p)) \in 0..2 /\ s.hs <= Flights(s.hs, Valid(p))
      /\ Has(p, "data") /\ ~ Has(p, "bad") => Flights(s.hs, Valid(p)) = 2
      /\ Has(Valid(p), "data") => Flights(s.hs, Valid(p)) = 2
  <2>1. InOrder(s.rx, s.hs, st, pr)
    BY DEF Sound
  <2>. QED
    BY <1>0, <2>1, OrderKept
<1>. HIDE DEF z, p, x
<1>3. z.hs < 2 => z.plain = <<>>
  <2>. SUFFICES ASSUME z.hs < 2 PROVE z.plain = <<>>
    OBVIOUS
  <2>1. z.hs # 2 /\ s.hs < 2
    BY <1>0, <1>1, <1>2
  <2>2. z.plain = s.plain
    BY <1>1, <1>2, <2>1
  <2>. QED
    BY <2>1, <2>2 DEF Sound
<1>4. Sound(z, st, pr)
  BY <1>1, <1>2, <1>3 DEF Sound
<1>5. Steady(s, z)
  BY <1>0, <1>1, SteadySame
<1>. QED
  BY <1>1, <1>2, <1>4, <1>5 DEF z, p

\* check_read.  When it is ready before the handshake is over, the peer's stream has ended.
LEMMA CheckRead ==
  ASSUME NEW s, NEW st, Sound(s, st, peer), peer \in {"open", "fin", "reset"},
         NEW r \in check_read(s)
  PROVE  /\ Sound(r.s, st, peer) /\ Steady(s, r.s)
         /\ r.res = "ok" /\ r.s.hs < 2 => r.s.eof
<1>. DEFINE I == {i \in 1..Len(s.rx) : s.rx[i].kind \in {"data", "bad"}}
            first == IF I # {} THEN Min(I) ELSE 0
            all == Take(s, Len(s.rx))
<1>0. Typed(s) /\ s.rx \in Seq(Records) /\ Len(s.rx) \in Nat /\ s.hs \in 0..2 /\ s.eof \in BOOLEAN
  BY LenProperties DEF Sound, Typed
<1>1. \/ (s.eof \/ ~ wants_read(s)) /\ r = Ret(s, "ok")
      \/ /\ ~ s.eof /\ first # 0
         /\ \E n \in first..Len(s.rx) :
              r = Ret(Take(s, n), IF Has(SubSeq(s.rx, 1, n), "bad") THEN "err" ELSE "ok")
      \/ ~ s.eof /\ peer = "open" /\ r = Ret(all, "pending")
      \/ ~ s.eof /\ peer = "fin" /\ r = Ret([all EXCEPT !.eof = TRUE], "ok")
      \/ ~ s.eof /\ peer = "reset" /\ r = Ret(all, "err")
  BY DEF check_read, SelectInSeq
<1>2. CASE (s.eof \/ ~ wants_read(s)) /\ r = Ret(s, "ok")
  <2>1. r.s = s
    BY <1>2 DEF Ret
  <2>2. Steady(s, s)
    BY <1>0, SteadySame
  <2>3. s.hs < 2 => s.eof
    BY <1>2 DEF wants_read, Sound
  <2>. QED
    BY <2>1, <2>2, <2>3
<1>3. CASE /\ ~ s.eof /\ first # 0
           /\ \E n \in first..Len(s.rx) :
                r = Ret(Take(s, n), IF Has(SubSeq(s.rx, 1, n), "bad") THEN "err" ELSE "ok")
  <2>1. first \in I
    <3>1. I \subseteq Nat
      BY <1>0
    <3>2. I # {}
      BY <1>3
    <3>. QED
      BY <3>1, <3>2, Least
  <2>. HIDE DEF first
  <2>2. PICK k \in 1..Len(s.rx) : k = first /\ s.rx[k].kind \in {"data", "bad"}
    BY <2>1
  <2>. DEFINE p(n) == SubSeq(s.rx, 1, n)
  <2>3. PICK n \in k..Len(s.rx) : r = Ret(Take(s, n), IF Has(p(n), "bad") THEN "err" ELSE "ok")
    BY <1>3, <2>2
  <2>4. n \in 0..Len(s.rx) /\ k \in 1..n
    BY <1>0
  <2>5. s.eof = FALSE
    BY <1>0, <1>3
  <2>6. /\ Sound(Take(s, n), st, peer) /\ Steady(s, Take(s, n))
        /\ Has(p(n), "data") /\ ~ Has(p(n), "bad") => Take(s, n).hs = 2
    BY <2>4, <2>5, TakeSound
  <2>7. Has(p(n), "data") \/ Has(p(n), "bad")
    <3>1. DOMAIN p(n) = 1..n /\ p(n)[k] = s.rx[k]
      BY <1>0, <2>4, Prefix
    <3>. QED
      BY <2>2, <2>4, <3>1 DEF Has
  <2>. HIDE DEF p
  <2>8. r.s = Take(s, n) /\ r.res = IF Has(p(n), "bad") THEN "err" ELSE "ok"
    BY <2>3 DEF Ret
  <2>9. r.res = "ok" => r.s.hs = 2
    BY <2>6, <2>7, <2>8
  <2>. QED
    BY <2>6, <2>8, <2>9
<1>4. CASE ~ s.eof /\ (r = Ret(all, "pending") \/ r = Ret(all, "err"))
  <2>1. r.s = all /\ r.res # "ok"
    BY <1>4 DEF Ret
  <2>2. Len(s.rx) \in 0..Len(s.rx) /\ s.eof = FALSE
    BY <1>0, <1>4
  <2>3. Sound(all, st, peer) /\ Steady(s, all)
    BY <2>2, TakeSound
  <2>. QED
    BY <2>1, <2>3
<1>5. CASE ~ s.eof /\ r = Ret([all EXCEPT !.eof = TRUE], "ok")
  <2>1. Len(s.rx) \in 0..Len(s.rx) /\ s.eof = FALSE
    BY <1>0, <1>5
  <2>2. Sound(all, st, peer) /\ Steady(s, all)
    BY <2>1, TakeSound
  <2>. HIDE DEF all
  <2>3. PICK z : z = [all EXCEPT !.eof = TRUE]
    OBVIOUS
  <2>4. /\ z = [rx |-> all.rx, eof |-> TRUE, hs |-> all.hs, plain |-> all.plain,
                notified |-> all.notified, outq |-> all.outq, held |-> all.held,
                tx |-> all.tx, shut |-> all.shut]
    BY <2>2, <2>3 DEF Sound, Typed
  <2>5. /\ z.rx = all.rx /\ z.eof = TRUE /\ z.hs = all.hs /\ z.plain = all.plain
        /\ z.notified = all.notified /\ z.outq = all.outq /\ z.held = all.held
        /\ z.tx = all.tx /\ z.shut = all.shut
    BY <2>4
  <2>6. Sound(z, st, peer)
    BY <2>2, <2>4, <2>5 DEF Sound, Typed
  <2>7. Steady(s, z)
    BY <2>1, <2>2, <2>5 DEF Steady
  <2>8. r.s = z
    BY <1>5, <2>3 DEF Ret
  <2>. QED
    BY <2>5, <2>6, <2>7, <2>8
<1>. QED
  BY <1>1, <1>2, <1>3, <1>4, <1>5

\* What moving records to the socket changes.
LEMMA MovedFields ==
  ASSUME NEW s, Typed(s), NEW a, NEW b, NEW z, z = [s EXCEPT !.tx = a, !.outq = b]
  PROVE  z = [rx |-> s.rx, eof |-> s.eof, hs |-> s.hs, plain |-> s.plain,
              notified |-> s.notified, outq |-> b, held |-> s.held, tx |-> a, shut |-> s.shut]
BY DEF Typed

\* check_write.  When it is ready, everything has gone to the socket.
LEMMA CheckWrite ==
  ASSUME NEW s, NEW st, Sound(s, st, peer)
  PROVE  LET w == check_write(s) IN
         /\ Sound(w.s, st, peer) /\ Steady(s, w.s) /\ w.s.hs = s.hs /\ w.s.eof = s.eof
         /\ w.res = "ok" => w.s.tx = s.tx \o s.outq
<1>. DEFINE w == check_write(s)
            n == IF Len(s.outq) <= SndBuf - Len(s.tx) THEN Len(s.outq) ELSE SndBuf - Len(s.tx)
            a == s.tx \o SubSeq(s.outq, 1, n)
            b == SubSeq(s.outq, n + 1, Len(s.outq))
            moved == [s EXCEPT !.tx = a, !.outq = b]
<1>0. /\ Typed(s) /\ s.outq \in Seq(Records) /\ s.tx \in Seq(Records)
      /\ Len(s.outq) \in Nat /\ Len(s.tx) \in Nat /\ Len(s.tx) <= SndBuf /\ SndBuf \in Nat
  BY LenProperties, TlsAssumption DEF Sound, Typed, TlsAssumption
<1>1. Steady(s, s)
  BY <1>0, SteadySame
<1>2. CASE ~ wants_write(s)
  <2>1. w.s = s
    BY <1>2 DEF check_write, Ret
  <2>2. s.tx \o s.outq = s.tx
    BY <1>0, <1>2, ConcatEmptySeq DEF wants_write
  <2>. HIDE DEF w
  <2>3. w.s.tx = s.tx \o s.outq
    BY <2>1, <2>2
  <2>. QED
    BY <1>1, <2>1, <2>3 DEF w
<1>3. CASE wants_write(s) /\ (s.shut \/ peer = "reset")
  <2>1. w.s = s /\ w.res = "err"
    BY <1>3 DEF check_write, Ret
  <2>. QED
    BY <1>1, <2>1
<1>4. CASE wants_write(s) /\ ~ (s.shut \/ peer = "reset")
  <2>1. w.s = moved /\ w.res = IF wants_write(moved) THEN "pending" ELSE "ok"
    BY <1>4 DEF check_write, Ret
  <2>2. n \in 0..Len(s.outq) /\ Len(s.tx) + n <= SndBuf
    <3>1. PICK i \in Nat, j \in Nat : i = Len(s.outq) /\ j = Len(s.tx) /\ j <= SndBuf
      BY <1>0
    <3>2. n = IF i <= SndBuf - j THEN i ELSE SndBuf - j
      BY <3>1, Zenon
    <3>. HIDE DEF n
    <3>3. n \in 0..i /\ j + n <= SndBuf
      <4>1. SndBuf \in Nat
        BY <1>0
      <4>2. j <= SndBuf
        BY <3>1
      <4>. QED
        BY <3>2, <4>1, <4>2
    <3>. QED
      BY <3>1, <3>3, Zenon
  <2>. HIDE DEF n
  <2>3. PICK p \in Seq(Records) : p = SubSeq(s.outq, 1, n) /\ Len(p) = n
    BY <1>0, <2>2, Prefix
  <2>4. b \in Seq(Records) /\ Len(b) = Len(s.outq) - n
    BY <1>0, <2>2, Suffix
  <2>5. a \in Seq(Records) /\ Len(a) <= SndBuf /\ a = s.tx \o p
    <3>1. a = s.tx \o p
      BY <2>3
    <3>2. s.tx \o p \in Seq(Records) /\ Len(s.tx \o p) = Len(s.tx) + Len(p)
      BY <1>0, ConcatProperties
    <3>. HIDE DEF a
    <3>. QED
      BY <2>2, <2>3, <3>1, <3>2
  <2>6. b = <<>> => a = s.tx \o s.outq
    <3>. SUFFICES ASSUME b = <<>> PROVE a = s.tx \o s.outq
      OBVIOUS
    <3>1. Len(b) = 0
      <4>. HIDE DEF b
      <4>. QED
        OBVIOUS
    <3>2. n = Len(s.outq)
      BY <1>0, <2>2, <2>4, <3>1
    <3>3. SubSeq(s.outq, 1, Len(s.outq)) = s.outq
      BY <1>0, SubSeqFull
    <3>4. SubSeq(s.outq, 1, n) = s.outq
      BY <3>2, <3>3, Zenon
    <3>. QED
      BY <2>3, <2>5, <3>4
  <2>. HIDE DEF a, b
  <2>7. moved = [rx |-> s.rx, eof |-> s.eof, hs |-> s.hs, plain |-> s.plain,
                 notified |-> s.notified, outq |-> b, held |-> s.held, tx |-> a, shut |-> s.shut]
    <3>1. PICK m : m = moved
      OBVIOUS
    <3>2. m = [s EXCEPT !.tx = a, !.outq = b]
      BY <3>1
    <3>3. m = [rx |-> s.rx, eof |-> s.eof, hs |-> s.hs, plain |-> s.plain,
               notified |-> s.notified, outq |-> b, held |-> s.held, tx |-> a, shut |-> s.shut]
      BY <1>0, <3>2, MovedFields, Zenon
    <3>. HIDE DEF moved
    <3>. QED
      BY <3>1, <3>3
  <2>. HIDE DEF moved
  <2>8. /\ moved.rx = s.rx /\ moved.eof = s.eof /\ moved.hs = s.hs /\ moved.plain = s.plain
        /\ moved.notified = s.notified /\ moved.outq = b /\ moved.held = s.held
        /\ moved.tx = a /\ moved.shut = s.shut
    BY <2>7
  <2>9. Sound(moved, st, peer)
    BY <2>4, <2>5, <2>7, <2>8 DEF Sound, Typed
  <2>10. Steady(s, moved)
    BY <2>3, <2>5, <2>8 DEF Steady
  <2>11. w.res = "ok" => moved.tx = s.tx \o s.outq
    BY <2>1, <2>6, <2>8 DEF wants_write
  <2>. HIDE DEF w
  <2>. QED
    BY <2>1, <2>8, <2>9, <2>10, <2>11 DEF w
<1>. QED
  BY <1>2, <1>3, <1>4

\* complete_io is ready before the handshake is over only at the end of the peer's stream.
LEMMA CompleteIo ==
  ASSUME NEW s, NEW st, Sound(s, st, peer), peer \in {"open", "fin", "reset"},
         NEW c \in complete_io(s)
  PROVE  /\ Sound(c.s, st, peer) /\ Steady(s, c.s)
         /\ c.res = "ok" /\ c.s.hs < 2 => c.s.eof
         /\ c.res \in {"ok", "err", "pending"}
<1>1. PICK r \in check_read(s) :
        LET w == check_write(r.s)
            both == {r.res, w.res}
        IN  c = Ret(w.s, IF "err" \in both THEN "err"
                         ELSE IF both = {"ok"} \/ ~ is_handshaking(w.s) THEN "ok" ELSE "pending")
  BY DEF complete_io
<1>. DEFINE w == check_write(r.s)
            both == {r.res, w.res}
<1>2. /\ Sound(r.s, st, peer) /\ Steady(s, r.s)
      /\ r.res = "ok" /\ r.s.hs < 2 => r.s.eof
  BY CheckRead
<1>3. Sound(w.s, st, peer) /\ Steady(r.s, w.s) /\ w.s.hs = r.s.hs /\ w.s.eof = r.s.eof
  BY <1>2, CheckWrite
<1>. HIDE DEF w
<1>4. /\ c.s = w.s
      /\ c.res = IF "err" \in both THEN "err"
                 ELSE IF both = {"ok"} \/ ~ is_handshaking(w.s) THEN "ok" ELSE "pending"
  BY <1>1 DEF Ret, w
<1>5. Steady(s, w.s)
  BY <1>2, <1>3, SteadyTrans DEF Sound
<1>6. ASSUME c.res = "ok", c.s.hs < 2 PROVE c.s.eof
  <2>1. is_handshaking(w.s)
    BY <1>4, <1>6 DEF is_handshaking
  <2>2. both = {"ok"}
    BY <1>4, <1>6, <2>1
  <2>3. r.res = "ok"
    BY <2>2
  <2>. QED
    BY <1>2, <1>3, <1>4, <1>6, <2>3
<1>. QED
  BY <1>3, <1>4, <1>5, <1>6

\* Session::write.  After the handshake the chunk is the last record to be written.
LEMMA SessionWrite ==
  ASSUME NEW s, NEW st, Sound(s, st, peer), NEW c \in Nat
  PROVE  LET y == session_write(s, c) IN
         /\ Sound(y, st, peer) /\ Steady(s, y) /\ y.hs = s.hs /\ y.eof = s.eof
         /\ s.hs = 2 => y.outq = Append(s.outq, Rec("data", c))
<1>. DEFINE a == IF s.hs < 2 THEN s.outq ELSE Append(s.outq, Rec("data", c))
            b == IF s.hs < 2 THEN Append(s.held, c) ELSE s.held
<1>0. Typed(s) /\ s.outq \in Seq(Records) /\ s.held \in Seq(Nat) /\ s.hs \in 0..2
  BY DEF Sound, Typed
<1>1. PICK y : y = session_write(s, c)
  OBVIOUS
<1>2. a \in Seq(Records) /\ b \in Seq(Nat)
  BY <1>0, RecType, AppendProperties
<1>3. s.hs = 2 => a = Append(s.outq, Rec("data", c))
  BY <1>0
<1>4. y = [rx |-> s.rx, eof |-> s.eof, hs |-> s.hs, plain |-> s.plain,
           notified |-> s.notified, outq |-> a, held |-> b, tx |-> s.tx, shut |-> s.shut]
  <2>1. CASE s.hs < 2
    <3>1. y = [s EXCEPT !.held = b] /\ a = s.outq
      BY <1>1, <2>1 DEF session_write, is_handshaking
    <3>. HIDE DEF a, b
    <3>. QED
      BY <1>0, <3>1 DEF Typed
  <2>2. CASE ~ (s.hs < 2)
    <3>1. y = [s EXCEPT !.outq = a] /\ b = s.held
      BY <1>1, <2>2 DEF session_write, is_handshaking
    <3>. HIDE DEF a, b
    <3>. QED
      BY <1>0, <3>1 DEF Typed
  <2>. QED
    BY <2>1, <2>2
<1>. HIDE DEF a, b
<1>5. /\ y.rx = s.rx /\ y.eof = s.eof /\ y.hs = s.hs /\ y.plain = s.plain
      /\ y.notified = s.notified /\ y.outq = a /\ y.held = b /\ y.tx = s.tx /\ y.shut = s.shut
  BY <1>4
<1>6. Sound(y, st, peer)
  BY <1>2, <1>4, <1>5 DEF Sound, Typed
<1>7. Steady(s, y)
  BY <1>0, <1>5, SteadySame
<1>8. /\ Sound(y, st, peer) /\ Steady(s, y) /\ y.hs = s.hs /\ y.eof = s.eof
      /\ s.hs = 2 => y.outq = Append(s.outq, Rec("data", c))
  BY <1>3, <1>5, <1>6, <1>7
<1>. QED
  BY <1>1, <1>8, Zenon

\* The reader takes plaintext: the handshake is over.
LEMMA PlainRead ==
  ASSUME NEW s, NEW st, Sound(s, st, peer), s.plain # <<>>, NEW x, NEW z,
         z = [s EXCEPT !.plain = x]
  PROVE  Sound(z, st, peer) /\ Steady(s, z)
<1>0. Typed(s)
  BY DEF Sound
<1>1. z = [rx |-> s.rx, eof |-> s.eof, hs |-> s.hs, plain |-> x, notified |-> s.notified,
           outq |-> s.outq, held |-> s.held, tx |-> s.tx, shut |-> s.shut]
  BY <1>0 DEF Typed
<1>2. /\ z.rx = s.rx /\ z.eof = s.eof /\ z.hs = s.hs /\ z.plain = x
      /\ z.notified = s.notified /\ z.outq = s.outq /\ z.held = s.held /\ z.tx = s.tx
      /\ z.shut = s.shut
  BY <1>1
<1>3. Sound(z, st, peer)
  BY <1>1, <1>2 DEF Sound, Typed
<1>4. Steady(s, z)
  BY <1>0, <1>2, SteadySame
<1>. QED
  BY <1>3, <1>4

\* The socket is shut down for writing.
LEMMA ShutDown ==
  ASSUME NEW s, NEW st, Sound(s, st, peer), NEW z, z = [s EXCEPT !.shut = TRUE]
  PROVE  Sound(z, st, peer) /\ Steady(s, z)
<1>0. Typed(s)
  BY DEF Sound
<1>1. z = [rx |-> s.rx, eof |-> s.eof, hs |-> s.hs, plain |-> s.plain,
           notified |-> s.notified, outq |-> s.outq, held |-> s.held, tx |-> s.tx, shut |-> TRUE]
  BY <1>0 DEF Typed
<1>2. /\ z.rx = s.rx /\ z.eof = s.eof /\ z.hs = s.hs /\ z.plain = s.plain
      /\ z.notified = s.notified /\ z.outq = s.outq /\ z.held = s.held /\ z.tx = s.tx
      /\ z.shut = TRUE
  BY <1>1
<1>3. Sound(z, st, peer)
  BY <1>1, <1>2 DEF Sound, Typed
<1>4. Steady(s, z)
  BY <1>0, <1>2, SteadySame
<1>. QED
  BY <1>3, <1>4

-----------------------------------------------------------------------------
(* The peer's steps.                                                         *)

\* A record that may come next keeps the order.
LEMMA OrderSend ==
  ASSUME NEW q \in Seq(Records), NEW h \in 0..2, NEW st, NEW pr, NEW r \in Records, NEW su,
         InOrder(q, h, st, pr), st # "mute", su # "new",
         r.kind = "data" /\ h < 2 => Has(q, "finished"),
         r.kind = "bad" => su = "mute",
         pr = "open" /\ su = "data" => st = "data" \/ r.kind = "finished",
         r.kind = "hello" => h < 2 /\ ~ Has(q, "finished")
  PROVE  InOrder(Append(q, r), h, su, pr)
<1>. DEFINE z == Append(q, r)
<1>1. PICK n \in Nat : n = Len(q) /\ DOMAIN q = 1..n
  BY LenProperties
<1>2. /\ DOMAIN z = 1..(n + 1) /\ Len(z) = n + 1 /\ z[n + 1] = r
      /\ \A i \in 1..n : z[i] = q[i]
  <2>1. /\ z \in Seq(Records) /\ Len(z) = Len(q) + 1 /\ z[Len(q) + 1] = r
        /\ \A i \in 1..Len(q) : z[i] = q[i]
    BY AppendProperties
  <2>2. DOMAIN z = 1..Len(z)
    BY <2>1, LenProperties
  <2>. QED
    BY <1>1, <2>1, <2>2
<1>. HIDE DEF z
<1>3. \A i \in DOMAIN z : (i \in DOMAIN q /\ z[i] = q[i] /\ i < n + 1) \/ (i = n + 1 /\ z[i] = r)
  BY <1>1, <1>2
<1>4. \A i \in DOMAIN q : i \in DOMAIN z /\ z[i] = q[i] /\ i < n + 1
  BY <1>1, <1>2
<1>5. ASSUME h < 2, NEW k \in DOMAIN z, z[k].kind = "data"
      PROVE  \E j \in DOMAIN z : j < k /\ z[j].kind = "finished"
  <2>1. CASE k \in DOMAIN q /\ z[k] = q[k]
    <3>1. PICK j \in DOMAIN q : j < k /\ q[j].kind = "finished"
      BY <1>5, <2>1 DEF InOrder
    <3>. QED
      BY <1>4, <3>1
  <2>2. CASE k = n + 1 /\ z[k] = r
    <3>1. PICK j \in DOMAIN q : q[j].kind = "finished"
      BY <1>5, <2>2 DEF Has
    <3>. QED
      BY <1>4, <2>2, <3>1
  <2>. QED
    BY <1>3, <2>1, <2>2
<1>6. ASSUME NEW k \in DOMAIN z, z[k].kind = "bad" PROVE k = Len(z) /\ su = "mute"
  BY <1>2, <1>3, <1>6 DEF InOrder
<1>7. ASSUME pr = "open", su = "data", h < 2 PROVE Has(z, "finished")
  <2>1. CASE r.kind = "finished"
    BY <1>2, <2>1 DEF Has
  <2>2. CASE st = "data"
    <3>1. PICK j \in DOMAIN q : q[j].kind = "finished"
      BY <1>7, <2>2 DEF InOrder, Has
    <3>. QED
      BY <1>4, <3>1 DEF Has
  <2>. QED
    BY <1>7, <2>1, <2>2
<1>8. ASSUME h = 2, Has(z, "hello") PROVE FALSE
  <2>1. PICK k \in DOMAIN z : z[k].kind = "hello"
    BY <1>8 DEF Has
  <2>2. CASE k \in DOMAIN q /\ z[k] = q[k]
    BY <1>8, <2>1, <2>2 DEF InOrder, Has
  <2>3. CASE z[k] = r
    BY <1>8, <2>1, <2>3
  <2>. QED
    BY <1>3, <2>2, <2>3
<1>9. ASSUME NEW j \in DOMAIN z, NEW k \in DOMAIN z, z[j].kind = "finished", z[k].kind = "hello"
      PROVE  k < j
  <2>1. CASE k \in DOMAIN q /\ z[k] = q[k] /\ k < n + 1
    <3>1. CASE j \in DOMAIN q /\ z[j] = q[j]
      BY <1>9, <2>1, <3>1 DEF InOrder
    <3>2. CASE j = n + 1
      BY <2>1, <3>2
    <3>. QED
      BY <1>3, <3>1, <3>2
  <2>2. CASE k = n + 1 /\ z[k] = r
    <3>1. r.kind = "hello" /\ ~ Has(q, "finished")
      BY <1>9, <2>2
    <3>2. j \in DOMAIN q /\ z[j] = q[j]
      BY <1>3, <1>9, <3>1
    <3>. QED
      BY <1>9, <3>1, <3>2 DEF Has
  <2>. QED
    BY <1>3, <2>1, <2>2
<1>10. InOrder(z, h, su, pr)
  BY <1>5, <1>6, <1>7, <1>8, <1>9 DEF InOrder
<1>. QED
  BY <1>10 DEF z

\* A record has come.
LEMMA SendSound ==
  ASSUME NEW s, NEW st, NEW pr, Sound(s, st, pr), NEW r \in Records, NEW su,
         InOrder(Append(s.rx, r), s.hs, su, pr), NEW z, z = [s EXCEPT !.rx = Append(@, r)]
  PROVE  Sound(z, su, pr) /\ Steady(s, z)
<1>0. Typed(s) /\ s.rx \in Seq(Records)
  BY DEF Sound, Typed
<1>1. PICK x : x = Append(s.rx, r)
  OBVIOUS
<1>2. x \in Seq(Records)
  BY <1>0, <1>1, AppendProperties
<1>3. z = [rx |-> x, eof |-> s.eof, hs |-> s.hs, plain |-> s.plain,
           notified |-> s.notified, outq |-> s.outq, held |-> s.held, tx |-> s.tx, shut |-> s.shut]
  <2>1. z = [s EXCEPT !.rx = x]
    BY <1>1
  <2>. QED
    BY <1>0, <2>1 DEF Typed
<1>4. /\ z.rx = x /\ z.eof = s.eof /\ z.hs = s.hs /\ z.plain = s.plain
      /\ z.notified = s.notified /\ z.outq = s.outq /\ z.held = s.held /\ z.tx = s.tx
      /\ z.shut = s.shut
  BY <1>3
<1>5. Sound(z, su, pr)
  BY <1>1, <1>2, <1>3, <1>4 DEF Sound, Typed
<1>6. Steady(s, z)
  BY <1>0, <1>4, SteadySame
<1>. QED
  BY <1>5, <1>6

-----------------------------------------------------------------------------
(* A write that returned Ok.                                                 *)

\* Chunk i has left the session z, or the peer is gone.
Over(i, z) ==
  \/ i \in ToSet(got) \/ Rec("data", i) \in ToSet(z.tx)
  \/ peer = "reset"
  \/ z.eof /\ z.hs < 2

\* The inductive invariant.
HandedInv ==
  /\ Sound(t, stage, peer)
  /\ peer \in {"open", "fin", "reset"}
  /\ pos \in Nat /\ got \in Seq(Nat) /\ psent \in Nat
  /\ \A i \in 1..pos : Over(i, t)

\* A send queue that is added to keeps what it has.
LEMMA InQueue ==
  ASSUME NEW x \in Seq(Records), NEW q \in Seq(Records)
  PROVE  /\ \A r : r \in ToSet(x) => r \in ToSet(x \o q)
         /\ \A r : r \in ToSet(q) => r \in ToSet(x \o q)
<1>1. PICK m \in Nat, n \in Nat : m = Len(x) /\ DOMAIN x = 1..m /\ n = Len(q) /\ DOMAIN q = 1..n
  BY LenProperties
<1>. DEFINE c == x \o q
<1>2. /\ c \in Seq(Records) /\ Len(c) = m + n
      /\ \A i \in 1..(m + n) : c[i] = IF i <= m THEN x[i] ELSE q[i - m]
  BY <1>1, ConcatProperties
<1>. HIDE DEF c
<1>3. DOMAIN c = 1..(m + n)
  BY <1>2, LenProperties
<1>4. ASSUME NEW i \in DOMAIN x PROVE i \in DOMAIN c /\ c[i] = x[i]
  BY <1>1, <1>2, <1>3
<1>5. ASSUME NEW i \in DOMAIN q PROVE m + i \in DOMAIN c /\ c[m + i] = q[i]
  <2>1. m + i \in 1..(m + n) /\ ~ (m + i <= m) /\ (m + i) - m = i
    BY <1>1
  <2>. QED
    BY <1>2, <1>3, <2>1
<1>6. /\ \A r : r \in ToSet(x) => r \in ToSet(c)
      /\ \A r : r \in ToSet(q) => r \in ToSet(c)
  BY <1>4, <1>5 DEF ToSet
<1>. QED
  BY <1>6 DEF c

\* What has left the session stays out of it.
LEMMA OverKept ==
  ASSUME NEW s, NEW z, Typed(s), Steady(s, z), NEW i, Over(i, s)
  PROVE  Over(i, z)
<1>1. PICK q \in Seq(Records) : z.tx = s.tx \o q
  BY DEF Steady
<1>2. Rec("data", i) \in ToSet(s.tx) => Rec("data", i) \in ToSet(z.tx)
  <2>1. PICK x \in Seq(Records) : x = s.tx
    BY DEF Typed
  <2>2. \A r : r \in ToSet(x) => r \in ToSet(x \o q)
    BY InQueue
  <2>. QED
    BY <1>1, <2>1, <2>2, Zenon
<1>3. s.eof /\ s.hs < 2 => z.eof /\ z.hs < 2
  BY DEF Steady
<1>. QED
  BY <1>2, <1>3, Zenon DEF Over

\* A step of the stream after which no other write has returned Ok.
LEMMA CallKeeps ==
  ASSUME HandedInv, Sound(t', stage, peer), Steady(t, t'), UNCHANGED <<peerVars, pos>>
  PROVE  HandedInv'
<1>1. peer' = peer /\ stage' = stage /\ got' = got /\ pos' = pos /\ psent' = psent
  BY DEF peerVars
<1>2. \A i \in 1..pos : Over(i, t')
  BY OverKept DEF HandedInv, Sound
<1>3. \A i \in 1..pos : Over(i, t)'
  BY <1>1, <1>2 DEF Over
<1>4. Sound(t, stage, peer)'
  BY <1>1
<1>. QED
  BY <1>1, <1>3, <1>4 DEF HandedInv

\* The stream starts with nothing written.
LEMMA HandedInit == Init => HandedInv
<1>. SUFFICES ASSUME Init PROVE HandedInv
  OBVIOUS
<1>1. t = [rx |-> <<>>, eof |-> FALSE, hs |-> 0, plain |-> <<>>, notified |-> FALSE,
           outq |-> <<>>, held |-> <<>>, tx |-> <<>>, shut |-> FALSE]
  BY DEF Init
<1>2. /\ t.rx = <<>> /\ t.eof = FALSE /\ t.hs = 0 /\ t.plain = <<>> /\ t.notified = FALSE
      /\ t.outq = <<>> /\ t.held = <<>> /\ t.tx = <<>> /\ t.shut = FALSE
  BY <1>1
<1>3. <<>> \in Seq(Records) /\ <<>> \in Seq(Nat) /\ Len(<<>>) = 0 /\ SndBuf \in Nat
  BY EmptySeq, TlsAssumption DEF TlsAssumption
<1>4. Typed(t)
  BY <1>1, <1>2, <1>3 DEF Typed
<1>5. DOMAIN t.rx = {}
  BY <1>2
<1>6. stage = "new" /\ peer = "open" /\ pos = 0 /\ got = <<>> /\ psent = 0
  BY DEF Init
<1>7. InOrder(t.rx, t.hs, stage, peer)
  BY <1>2, <1>5, <1>6 DEF InOrder, Has
<1>. QED
  BY <1>2, <1>3, <1>4, <1>6, <1>7 DEF HandedInv, Sound

\* read: whatever becomes of it, the writing half is left alone.
LEMMA HandedRead == HandedInv /\ read => HandedInv'
<1>. SUFFICES ASSUME HandedInv, read PROVE HandedInv'
  OBVIOUS
<1>1. PICK c \in complete_io(t) :
        \/ t' = c.s
        \/ c.s.plain # <<>> /\ \E k \in 1..Len(c.s.plain) :
             t' = [c.s EXCEPT !.plain = SubSeq(@, k + 1, Len(@))]
  BY DEF read
<1>2. UNCHANGED <<peerVars, pos>>
  BY DEF read
<1>3. Sound(c.s, stage, peer) /\ Steady(t, c.s)
  BY CompleteIo DEF HandedInv
<1>4. CASE t' = c.s
  BY <1>2, <1>3, <1>4, CallKeeps
<1>5. CASE c.s.plain # <<>> /\ \E k \in 1..Len(c.s.plain) :
             t' = [c.s EXCEPT !.plain = SubSeq(@, k + 1, Len(@))]
  <2>1. PICK x : t' = [c.s EXCEPT !.plain = x]
    BY <1>5
  <2>2. Sound(t', stage, peer) /\ Steady(c.s, t')
    BY <1>3, <1>5, <2>1, PlainRead
  <2>3. Steady(t, t')
    BY <1>3, <2>2, SteadyTrans DEF HandedInv, Sound
  <2>. QED
    BY <1>2, <2>2, <2>3, CallKeeps
<1>. QED
  BY <1>1, <1>4, <1>5

\* The second half of write: a chunk whose write is Ok is in the send queue, unless the
\* session was still in the handshake.
LEMMA HandedRest ==
  ASSUME HandedInv, NEW s, Sound(s, stage, peer), Steady(t, s), s.hs < 2 => s.eof,
         write_rest(s), UNCHANGED peerVars
  PROVE  HandedInv'
<1>0. /\ peer' = peer /\ stage' = stage /\ got' = got /\ psent' = psent
      /\ pos \in Nat /\ pos + 1 \in Nat /\ Typed(t)
  BY DEF peerVars, HandedInv, Sound
<1>. DEFINE y == session_write(s, pos + 1)
            w == check_write(y)
<1>1. /\ Sound(y, stage, peer) /\ Steady(s, y) /\ y.hs = s.hs /\ y.eof = s.eof
      /\ s.hs = 2 => y.outq = Append(s.outq, Rec("data", pos + 1))
  BY <1>0, SessionWrite
<1>. HIDE DEF y
<1>2. /\ Sound(w.s, stage, peer) /\ Steady(y, w.s) /\ w.s.hs = y.hs /\ w.s.eof = y.eof
      /\ w.res = "ok" => w.s.tx = y.tx \o y.outq
  BY <1>1, CheckWrite
<1>3. t' = w.s /\ pos' = IF w.res = "ok" THEN pos + 1 ELSE pos
  BY DEF write_rest, y
<1>. HIDE DEF w
<1>4. Steady(t, w.s)
  <2>1. Typed(s) /\ Typed(y)
    BY <1>1 DEF Sound
  <2>2. Steady(t, y)
    BY <1>0, <1>1, SteadyTrans
  <2>. QED
    BY <1>0, <1>2, <2>2, SteadyTrans
<1>5. \A i \in 1..pos : Over(i, w.s)
  BY <1>0, <1>4, OverKept DEF HandedInv
<1>6. w.res = "ok" => Over(pos + 1, w.s)
  <2>. SUFFICES ASSUME w.res = "ok" PROVE Over(pos + 1, w.s)
    OBVIOUS
  <2>0. s.hs \in 0..2 /\ s.outq \in Seq(Records) /\ y.tx \in Seq(Records) /\ y.outq \in Seq(Records)
    BY <1>1 DEF Sound, Typed
  <2>1. CASE s.hs < 2
    <3>1. w.s.eof /\ w.s.hs < 2
      BY <1>1, <1>2, <2>1
    <3>. QED
      BY <3>1 DEF Over
  <2>2. CASE s.hs = 2
    <3>1. Rec("data", pos + 1) \in Records
      BY <1>0, RecType
    <3>2. Rec("data", pos + 1) \in ToSet(Append(s.outq, Rec("data", pos + 1)))
      <4>1. PICK r \in Records : r = Rec("data", pos + 1)
        BY <3>1
      <4>2. PICK o \in Seq(Records) : o = s.outq
        BY <2>0
      <4>3. /\ Append(o, r) \in Seq(Records) /\ Len(Append(o, r)) = Len(o) + 1
            /\ Append(o, r)[Len(o) + 1] = r /\ Len(o) \in Nat
        BY AppendProperties, LenProperties
      <4>4. DOMAIN Append(o, r) = 1..Len(Append(o, r))
        BY <4>3, LenProperties
      <4>5. r \in ToSet(Append(o, r))
        BY <4>3, <4>4 DEF ToSet
      <4>. QED
        BY <4>1, <4>2, <4>5, Zenon
    <3>3. Rec("data", pos + 1) \in ToSet(y.outq)
      BY <1>1, <2>2, <3>2
    <3>4. PICK a \in Seq(Records), b \in Seq(Records) : a = y.tx /\ b = y.outq
      BY <2>0
    <3>5. \A r : r \in ToSet(b) => r \in ToSet(a \o b)
      BY InQueue
    <3>6. Rec("data", pos + 1) \in ToSet(w.s.tx)
      BY <1>2, <3>3, <3>4, <3>5, Zenon
    <3>. QED
      BY <3>6, Zenon DEF Over
  <2>. QED
    BY <2>0, <2>1, <2>2
<1>7. pos' \in Nat /\ \A i \in 1..pos' : Over(i, w.s)
  <2>1. CASE w.res = "ok"
    <3>1. pos' = pos + 1
      BY <1>3, <2>1
    <3>2. \A i \in 1..(pos + 1) : i \in 1..pos \/ i = pos + 1
      BY <1>0
    <3>. QED
      BY <1>0, <1>5, <1>6, <2>1, <3>1, <3>2
  <2>2. CASE w.res # "ok"
    BY <1>0, <1>3, <1>5, <2>2
  <2>. QED
    BY <2>1, <2>2
<1>8. \A i \in 1..pos' : Over(i, t)'
  BY <1>0, <1>3, <1>7 DEF Over
<1>9. Sound(t, stage, peer)'
  BY <1>0, <1>2, <1>3
<1>. QED
  BY <1>0, <1>7, <1>8, <1>9 DEF HandedInv

\* write: only its second half makes it Ok.
LEMMA HandedWrite == HandedInv /\ write => HandedInv'
<1>. SUFFICES ASSUME HandedInv, write PROVE HandedInv'
  OBVIOUS
<1>0. Sound(t, stage, peer) /\ Typed(t) /\ UNCHANGED peerVars
  BY DEF HandedInv, Sound, write
<1>1. CASE t.eof
  <2>1. t' = t /\ pos' = pos
    BY <1>1 DEF write
  <2>2. Steady(t, t')
    BY <1>0, <2>1, SteadySame
  <2>3. Sound(t', stage, peer)
    BY <1>0, <2>1
  <2>. QED
    BY <1>0, <2>1, <2>2, <2>3, CallKeeps
<1>2. CASE ~ t.eof
  <2>1. PICK c \in complete_io(t) :
          CASE c.res = "err"     -> t' = c.s /\ wr' = "err" /\ UNCHANGED <<pos, refused>>
            [] c.res = "pending" -> t' = c.s /\ UNCHANGED <<wr, pos, refused>>
            [] c.res = "ok"      -> write_rest(c.s)
    BY <1>2 DEF write
  <2>2. /\ Sound(c.s, stage, peer) /\ Steady(t, c.s) /\ (c.res = "ok" /\ c.s.hs < 2 => c.s.eof)
        /\ c.res \in {"ok", "err", "pending"}
    BY CompleteIo DEF HandedInv
  <2>3. CASE c.res # "ok"
    <3>1. t' = c.s /\ pos' = pos
      BY <2>1, <2>2, <2>3
    <3>. QED
      BY <1>0, <2>2, <3>1, CallKeeps
  <2>4. CASE c.res = "ok"
    <3>1. write_rest(c.s)
      BY <2>1, <2>4
    <3>. QED
      BY <1>0, <2>2, <2>4, <3>1, HandedRest
  <2>. QED
    BY <2>3, <2>4
<1>. QED
  BY <1>1, <1>2

\* The three ways to close the stream.
LEMMA HandedClose == HandedInv /\ (write_empty \/ flush \/ shutdown) => HandedInv'
<1>. SUFFICES ASSUME HandedInv, write_empty \/ flush \/ shutdown PROVE HandedInv'
  OBVIOUS
<1>0. Sound(t, stage, peer) /\ Typed(t) /\ peer \in {"open", "fin", "reset"}
  BY DEF HandedInv, Sound
<1>1. UNCHANGED <<peerVars, pos>>
  BY DEF write_empty, flush, shutdown
<1>2. ASSUME t' = t PROVE Sound(t', stage, peer) /\ Steady(t, t')
  BY <1>0, <1>2, SteadySame
<1>3. CASE write_empty
  <2>1. t' = t \/ t' = [t EXCEPT !.shut = TRUE]
    BY <1>3 DEF write_empty
  <2>2. Sound(t', stage, peer) /\ Steady(t, t')
    BY <1>0, <1>2, <2>1, ShutDown
  <2>. QED
    BY <1>1, <2>2, CallKeeps
<1>4. CASE flush
  <2>1. t' = check_write(t).s
    BY <1>4 DEF flush
  <2>2. Sound(t', stage, peer) /\ Steady(t, t')
    BY <1>0, <2>1, CheckWrite
  <2>. QED
    BY <1>1, <2>2, CallKeeps
<1>5. CASE shutdown
  <2>1. PICK c \in complete_io(t) : t' = c.s
    BY <1>5 DEF shutdown
  <2>2. Sound(c.s, stage, peer) /\ Steady(t, c.s)
    BY <1>0, CompleteIo
  <2>. QED
    BY <1>1, <2>1, <2>2, CallKeeps
<1>. QED
  BY <1>3, <1>4, <1>5

\* A peer that sends.
LEMMA HandedSend ==
  ASSUME HandedInv, NEW r \in Records, Send(r), InOrder(Append(t.rx, r), t.hs, stage', peer),
         UNCHANGED <<peer, got, pos>>, psent' \in Nat
  PROVE  HandedInv'
<1>0. Sound(t, stage, peer) /\ Typed(t)
  BY DEF HandedInv, Sound
<1>1. t' = [t EXCEPT !.rx = Append(@, r)]
  BY DEF Send
<1>2. Sound(t', stage', peer) /\ Steady(t, t')
  BY <1>0, <1>1, SendSound
<1>3. \A i \in 1..pos : Over(i, t')
  BY <1>0, <1>2, OverKept DEF HandedInv
<1>4. \A i \in 1..pos : Over(i, t)'
  BY <1>3 DEF Over
<1>5. Sound(t, stage, peer)'
  BY <1>2
<1>. QED
  BY <1>4, <1>5 DEF HandedInv

\* The peer reads the first record of the send queue.
LEMMA FirstGone ==
  ASSUME NEW x \in Seq(Records), x # <<>>, Len(x) <= SndBuf
  PROVE  /\ Head(x) \in Records /\ Tail(x) \in Seq(Records) /\ Len(Tail(x)) <= SndBuf
         /\ \A r : r \in ToSet(x) => r = Head(x) \/ r \in ToSet(Tail(x))
<1>0. SndBuf \in Nat
  BY TlsAssumption DEF TlsAssumption
<1>1. PICK n \in Nat : n = Len(x) /\ DOMAIN x = 1..n /\ n # 0
  BY LenProperties, EmptySeq
<1>2. /\ Head(x) = x[1] /\ Tail(x) \in Seq(Records) /\ Len(Tail(x)) = n - 1
      /\ \A i \in 1..(n - 1) : Tail(x)[i] = x[i + 1]
  BY <1>1, HeadTailProperties
<1>3. x[1] \in Records
  BY <1>1, ElementOfSeq
<1>4. DOMAIN Tail(x) = 1..(n - 1)
  BY <1>1, <1>2, LenProperties
<1>5. ASSUME NEW i \in 1..n, i # 1 PROVE \E j \in 1..(n - 1) : x[i] = Tail(x)[j]
  <2>1. i - 1 \in 1..(n - 1) /\ (i - 1) + 1 = i
    BY <1>5
  <2>. QED
    BY <1>2, <2>1
<1>6. ASSUME NEW r \in ToSet(x) PROVE r = Head(x) \/ r \in ToSet(Tail(x))
  <2>1. PICK i \in 1..n : r = x[i]
    BY <1>1 DEF ToSet
  <2>2. CASE i = 1
    BY <1>2, <2>1, <2>2
  <2>3. CASE i # 1
    BY <1>4, <1>5, <2>1, <2>3 DEF ToSet
  <2>. QED
    BY <2>2, <2>3
<1>7. n - 1 <= SndBuf
  <2>1. n <= SndBuf
    BY <1>1
  <2>. QED
    BY <1>0, <2>1
<1>. QED
  BY <1>2, <1>3, <1>6, <1>7

\* The peer has received one more.
LEMMA LastAdded ==
  ASSUME NEW g \in Seq(Nat), NEW v \in Nat
  PROVE  /\ Append(g, v) \in Seq(Nat) /\ v \in ToSet(Append(g, v))
         /\ \A i : i \in ToSet(g) => i \in ToSet(Append(g, v))
<1>1. PICK n \in Nat : n = Len(g) /\ DOMAIN g = 1..n
  BY LenProperties
<1>. DEFINE z == Append(g, v)
<1>2. z \in Seq(Nat) /\ Len(z) = n + 1 /\ z[n + 1] = v /\ \A i \in 1..n : z[i] = g[i]
  BY <1>1, AppendProperties
<1>. HIDE DEF z
<1>3. DOMAIN z = 1..(n + 1)
  BY <1>2, LenProperties
<1>4. n + 1 \in DOMAIN z /\ \A i \in DOMAIN g : i \in DOMAIN z /\ z[i] = g[i]
  BY <1>1, <1>2, <1>3
<1>5. v \in ToSet(z) /\ \A i : i \in ToSet(g) => i \in ToSet(z)
  BY <1>2, <1>4 DEF ToSet
<1>. QED
  BY <1>2, <1>5 DEF z

\* What the peer does to the connection.
LEMMA HandedPeer == HandedInv /\ Peer => HandedInv'
<1>. SUFFICES ASSUME HandedInv, Peer PROVE HandedInv'
  OBVIOUS
<1>0. /\ Sound(t, stage, peer) /\ Typed(t) /\ t.rx \in Seq(Records) /\ t.tx \in Seq(Records)
      /\ t.hs \in 0..2 /\ InOrder(t.rx, t.hs, stage, peer) /\ got \in Seq(Nat) /\ pos \in Nat
      /\ psent \in Nat
  BY DEF HandedInv, Sound, Typed
<1>1. \A k \in {"hello", "finished", "data", "notify", "bad"} :
        \A v \in Nat : Rec(k, v) \in Records /\ Rec(k, v).kind = k
  BY DEF Rec, Records
<1>2. CASE PeerHello
  <2>1. /\ stage = "new" /\ stage' = "hello" /\ Send(Rec("hello", 0))
        /\ UNCHANGED <<peer, got, pos>> /\ psent' \in Nat
    BY <1>0, <1>2 DEF PeerHello, streamVars
  <2>2. PICK r \in Records : r = Rec("hello", 0) /\ r.kind = "hello"
    BY <1>1
  <2>3. t.hs < 2 /\ ~ Has(t.rx, "finished")
    BY <1>0, <2>1 DEF InOrder
  <2>4. InOrder(Append(t.rx, r), t.hs, stage', peer)
    BY <1>0, <2>1, <2>2, <2>3, OrderSend
  <2>. QED
    BY <2>1, <2>2, <2>4, HandedSend
<1>3. CASE PeerFinished
  <2>1. /\ stage = "flight" /\ stage' = "data" /\ Send(Rec("finished", 0))
        /\ UNCHANGED <<peer, got, pos>> /\ psent' \in Nat
    BY <1>0, <1>3 DEF PeerFinished, streamVars
  <2>2. PICK r \in Records : r = Rec("finished", 0) /\ r.kind = "finished"
    BY <1>1
  <2>3. InOrder(Append(t.rx, r), t.hs, stage', peer)
    BY <1>0, <2>1, <2>2, OrderSend
  <2>. QED
    BY <2>1, <2>2, <2>3, HandedSend
<1>4. CASE PeerSend
  <2>1. /\ peer = "open" /\ stage = "data" /\ stage' = "data" /\ Send(Rec("data", psent + 1))
        /\ UNCHANGED <<peer, got, pos>> /\ psent' \in Nat
    BY <1>0, <1>4 DEF PeerSend, streamVars
  <2>2. PICK r \in Records : r = Rec("data", psent + 1) /\ r.kind = "data"
    <3>1. psent + 1 \in Nat
      BY <1>0
    <3>. QED
      BY <1>1, <3>1
  <2>3. t.hs < 2 => Has(t.rx, "finished")
    BY <1>0, <2>1 DEF InOrder
  <2>4. InOrder(Append(t.rx, r), t.hs, stage', peer)
    BY <1>0, <2>1, <2>2, <2>3, OrderSend
  <2>. QED
    BY <2>1, <2>2, <2>4, HandedSend
<1>5. CASE PeerLast
  <2>1. PICK k \in {"bad", "notify"} : Send(Rec(k, 0))
    BY <1>5 DEF PeerLast
  <2>2. stage # "mute" /\ stage' = "mute" /\ UNCHANGED <<peer, got, pos>> /\ psent' \in Nat
    BY <1>0, <1>5 DEF PeerLast, streamVars
  <2>3. PICK r \in Records : r = Rec(k, 0) /\ r.kind = k
    BY <1>1
  <2>4. InOrder(Append(t.rx, r), t.hs, stage', peer)
    BY <1>0, <2>2, <2>3, OrderSend
  <2>. QED
    BY <2>1, <2>2, <2>3, <2>4, HandedSend
<1>6. CASE PeerFin
  <2>1. /\ peer = "open" /\ peer' = "fin" /\ t' = t /\ stage' = stage /\ got' = got /\ pos' = pos
        /\ psent' = psent
    BY <1>6 DEF PeerFin, streamVars
  <2>2. InOrder(t.rx, t.hs, stage, peer')
    BY <1>0, <2>1 DEF InOrder
  <2>3. Sound(t, stage, peer)'
    BY <1>0, <2>1, <2>2 DEF Sound
  <2>4. \A i \in 1..pos : Over(i, t)'
    BY <2>1 DEF HandedInv, Over
  <2>. QED
    BY <1>0, <2>1, <2>3, <2>4 DEF HandedInv
<1>7. CASE PeerReset
  <2>1. peer' = "reset" /\ stage' = stage /\ got' = got /\ pos' = pos /\ psent' = psent
    BY <1>7 DEF PeerReset, streamVars
  <2>2. PICK q \in {t.rx, <<>>} : t' = [t EXCEPT !.rx = q, !.tx = <<>>]
    BY <1>7 DEF PeerReset
  <2>3. q \in Seq(Records) /\ <<>> \in Seq(Records) /\ Len(<<>>) = 0 /\ SndBuf \in Nat
    BY <1>0, EmptySeq, TlsAssumption DEF TlsAssumption
  <2>4. InOrder(q, t.hs, stage, peer')
    <3>1. CASE q = t.rx
      BY <1>0, <2>1, <3>1 DEF InOrder
    <3>2. CASE q = <<>>
      <4>1. DOMAIN q = {}
        BY <3>2
      <4>2. stage = "new" => t.hs < 2
        BY <1>0 DEF InOrder
      <4>. QED
        BY <2>1, <4>1, <4>2 DEF InOrder, Has
    <3>. QED
      BY <3>1, <3>2
  <2>5. t' = [rx |-> q, eof |-> t.eof, hs |-> t.hs, plain |-> t.plain, notified |-> t.notified,
              outq |-> t.outq, held |-> t.held, tx |-> <<>>, shut |-> t.shut]
    BY <1>0, <2>2 DEF Typed
  <2>6. /\ t'.rx = q /\ t'.eof = t.eof /\ t'.hs = t.hs /\ t'.plain = t.plain
        /\ t'.notified = t.notified /\ t'.outq = t.outq /\ t'.held = t.held /\ t'.tx = <<>>
        /\ t'.shut = t.shut
    BY <2>5
  <2>7. Typed(t')
    BY <1>0, <2>3, <2>5, <2>6 DEF Typed
  <2>8. Sound(t, stage, peer)'
    BY <1>0, <2>1, <2>4, <2>6, <2>7 DEF Sound
  <2>9. \A i \in 1..pos : Over(i, t)'
    BY <2>1 DEF Over
  <2>. QED
    BY <1>0, <2>1, <2>8, <2>9 DEF HandedInv
<1>8. CASE PeerRead
  <2>1. /\ peer' = peer /\ pos' = pos /\ psent' = psent /\ t.tx # <<>> /\ t' = [t EXCEPT !.tx = Tail(@)]
        /\ stage' = IF Head(t.tx).kind = "flight" /\ stage = "hello" THEN "flight" ELSE stage
        /\ got' = IF Head(t.tx).kind = "data" THEN Append(got, Head(t.tx).val) ELSE got
    BY <1>8 DEF PeerRead, streamVars
  <2>2. PICK a \in Records, q \in Seq(Records) :
          /\ a = Head(t.tx) /\ q = Tail(t.tx) /\ Len(q) <= SndBuf
          /\ \A r : r \in ToSet(t.tx) => r = a \/ r \in ToSet(q)
    <3>1. PICK x \in Seq(Records) : x = t.tx /\ x # <<>> /\ Len(x) <= SndBuf
      BY <1>0, <2>1 DEF Typed
    <3>2. /\ Head(x) \in Records /\ Tail(x) \in Seq(Records) /\ Len(Tail(x)) <= SndBuf
          /\ \A r : r \in ToSet(x) => r = Head(x) \/ r \in ToSet(Tail(x))
      BY <3>1, FirstGone
    <3>. QED
      BY <3>1, <3>2
  <2>3. InOrder(t.rx, t.hs, stage', peer)
    BY <1>0, <2>1 DEF InOrder
  <2>4. t' = [rx |-> t.rx, eof |-> t.eof, hs |-> t.hs, plain |-> t.plain,
              notified |-> t.notified, outq |-> t.outq, held |-> t.held, tx |-> q, shut |-> t.shut]
    <3>1. t' = [t EXCEPT !.tx = q]
      BY <2>1, <2>2
    <3>. QED
      BY <1>0, <3>1 DEF Typed
  <2>5. /\ t'.rx = t.rx /\ t'.eof = t.eof /\ t'.hs = t.hs /\ t'.plain = t.plain
        /\ t'.notified = t.notified /\ t'.outq = t.outq /\ t'.held = t.held /\ t'.tx = q
        /\ t'.shut = t.shut
    BY <2>4
  <2>6. Typed(t')
    BY <1>0, <2>2, <2>4, <2>5 DEF Typed
  <2>7. Sound(t, stage, peer)'
    BY <1>0, <2>1, <2>3, <2>5, <2>6 DEF Sound
  <2>8. /\ got' \in Seq(Nat) /\ \A i : i \in ToSet(got) => i \in ToSet(got')
        /\ a.kind = "data" => a.val \in ToSet(got')
    <3>1. CASE a.kind = "data"
      <4>1. PICK v \in Nat : v = a.val
        BY DEF Records
      <4>2. got' = Append(got, v)
        BY <2>1, <2>2, <3>1, <4>1
      <4>3. /\ Append(got, v) \in Seq(Nat) /\ v \in ToSet(Append(got, v))
            /\ \A i : i \in ToSet(got) => i \in ToSet(Append(got, v))
        BY <1>0, LastAdded
      <4>. QED
        BY <4>1, <4>2, <4>3
    <3>2. CASE a.kind # "data"
      BY <1>0, <2>1, <2>2, <3>2
    <3>. QED
      BY <3>1, <3>2
  <2>9. ASSUME NEW i \in 1..pos PROVE Over(i, t)'
    <3>1. Over(i, t)
      BY DEF HandedInv
    <3>2. CASE Rec("data", i) \in ToSet(t.tx)
      <4>1. CASE Rec("data", i) = a
        <5>1. a.kind = "data" /\ a.val = i
          BY <4>1 DEF Rec
        <5>. QED
          BY <2>8, <5>1 DEF Over
      <4>2. CASE Rec("data", i) \in ToSet(q)
        BY <2>5, <4>2 DEF Over
      <4>. QED
        BY <2>2, <3>2, <4>1, <4>2
    <3>3. CASE Rec("data", i) \notin ToSet(t.tx)
      BY <2>1, <2>5, <2>8, <3>1, <3>3 DEF Over
    <3>. QED
      BY <3>2, <3>3
  <2>. QED
    BY <1>0, <2>1, <2>7, <2>8, <2>9 DEF HandedInv
<1>. QED
  BY <1>2, <1>3, <1>4, <1>5, <1>6, <1>7, <1>8 DEF Peer

\* A chunk whose write returned Ok has left the session, for every number of chunks and
\* records and every size of the send queue: what check_write leaves in the session is never
\* reported as written, save to a peer that left during the handshake.
THEOREM HandedOver == Spec => []OkMeansHandedOver
<1>1. HandedInv /\ [Next]_vars => HandedInv'
  <2>. SUFFICES ASSUME HandedInv, [Next]_vars PROVE HandedInv'
    OBVIOUS
  <2>1. CASE UNCHANGED vars
    BY <2>1 DEF vars, HandedInv, Sound, Typed, Over
  <2>. QED
    BY <2>1, HandedRead, HandedWrite, HandedClose, HandedPeer DEF Next, Done
<1>2. HandedInv => OkMeansHandedOver
  BY DEF HandedInv, Over, OkMeansHandedOver, is_handshaking
<1>. QED
  BY HandedInit, <1>1, <1>2, PTL DEF Spec

-----------------------------------------------------------------------------
(* What is written.                                                          *)

\* What reading the first n records leaves in the session.
LEMMA TakeSession ==
  ASSUME NEW s, Typed(s), NEW n \in 0..Len(s.rx), NEW z, z = Take(s, n),
         NEW v, v = Valid(SubSeq(s.rx, 1, n))
  PROVE  /\ z.plain = IF Has(v, "data") THEN s.plain \o Values(v) ELSE s.plain
         /\ z.outq = IF Has(v, "hello") THEN Append(s.outq, Rec("flight", 0))
                     ELSE IF Has(v, "finished")
                     THEN s.outq \o [i \in DOMAIN s.held |-> Rec("data", s.held[i])]
                     ELSE s.outq
         /\ z.held = IF Has(v, "finished") THEN <<>> ELSE s.held
         /\ z.shut = s.shut
<1>. DEFINE x == SubSeq(s.rx, n + 1, Len(s.rx))
            h == [i \in DOMAIN s.held |-> Rec("data", s.held[i])]
            o == IF Has(v, "hello") THEN Append(s.outq, Rec("flight", 0))
                 ELSE IF Has(v, "finished") THEN s.outq \o h ELSE s.outq
            f == Flights(s.hs, v)
            d == IF Has(v, "finished") THEN <<>> ELSE s.held
            l == IF Has(v, "data") THEN s.plain \o Values(v) ELSE s.plain
            c == s.notified \/ Has(v, "notify")
<1>1. z = [[s EXCEPT !.hs = f, !.outq = o, !.held = d, !.plain = l, !.notified = c]
             EXCEPT !.rx = x]
  BY DEF Take, process_new_packets, Flights
<1>. HIDE DEF x, o, f, d, l, c
<1>2. z = [rx |-> x, eof |-> s.eof, hs |-> f, plain |-> l, notified |-> c,
           outq |-> o, held |-> d, tx |-> s.tx, shut |-> s.shut]
  BY <1>1 DEF Typed
<1>3. z.plain = l /\ z.outq = o /\ z.held = d /\ z.shut = s.shut
  BY <1>2
<1>. QED
  BY <1>3 DEF l, o, d

\* What check_read does: nothing, or it reads the first n records; if it finds the end of
\* the stream, there was no plaintext and none among the records.
LEMMA CheckReadCases ==
  ASSUME NEW s, Typed(s), peer \in {"open", "fin", "reset"}, NEW r \in check_read(s)
  PROVE  \/ r.s = s
         \/ /\ s.eof = FALSE /\ s.plain = <<>>
            /\ \E n \in 0..Len(s.rx) :
                 \/ r.s = Take(s, n)
                 \/ /\ n = Len(s.rx) /\ r.s = [Take(s, n) EXCEPT !.eof = TRUE]
                    /\ peer = "fin" /\ \A i \in 1..Len(s.rx) : s.rx[i].kind # "data"
<1>. DEFINE I == {i \in 1..Len(s.rx) : s.rx[i].kind \in {"data", "bad"}}
            first == IF I # {} THEN Min(I) ELSE 0
            all == Take(s, Len(s.rx))
<1>0. Len(s.rx) \in Nat /\ Len(s.rx) \in 0..Len(s.rx) /\ s.eof \in BOOLEAN
  BY LenProperties DEF Typed
<1>1. \/ (s.eof \/ ~ wants_read(s)) /\ r = Ret(s, "ok")
      \/ /\ ~ s.eof /\ wants_read(s)
         /\ \/ /\ first # 0
               /\ \E n \in first..Len(s.rx) :
                    r = Ret(Take(s, n), IF Has(SubSeq(s.rx, 1, n), "bad") THEN "err" ELSE "ok")
            \/ r = Ret(all, "pending") \/ r = Ret(all, "err")
            \/ first = 0 /\ peer = "fin" /\ r = Ret([all EXCEPT !.eof = TRUE], "ok")
  BY DEF check_read, SelectInSeq
<1>2. I # {} => first \in 1..Len(s.rx)
  <2>1. I \subseteq Nat
    BY <1>0
  <2>2. I # {} => Min(I) \in I
    BY <2>1, Least
  <2>. QED
    BY <2>2
<1>3. first = 0 => I = {}
  BY <1>0, <1>2
<1>4. first # 0 => first \in 1..Len(s.rx)
  BY <1>2
<1>. HIDE DEF first
<1>5. first # 0 => \A n \in first..Len(s.rx) : n \in 0..Len(s.rx)
  BY <1>0, <1>4
<1>6. CASE (s.eof \/ ~ wants_read(s)) /\ r = Ret(s, "ok")
  BY <1>6 DEF Ret
<1>7. CASE ~ s.eof /\ wants_read(s) /\ first # 0 /\ \E n \in first..Len(s.rx) :
             r = Ret(Take(s, n), IF Has(SubSeq(s.rx, 1, n), "bad") THEN "err" ELSE "ok")
  <2>1. PICK n \in 0..Len(s.rx) : r.s = Take(s, n)
    BY <1>5, <1>7 DEF Ret
  <2>. QED
    BY <1>0, <1>7, <2>1 DEF wants_read
<1>8. CASE ~ s.eof /\ wants_read(s) /\ (r = Ret(all, "pending") \/ r = Ret(all, "err"))
  <2>1. r.s = Take(s, Len(s.rx))
    BY <1>8 DEF Ret
  <2>. QED
    BY <1>0, <1>8, <2>1 DEF wants_read
<1>9. CASE ~ s.eof /\ wants_read(s) /\ first = 0 /\ peer = "fin"
           /\ r = Ret([all EXCEPT !.eof = TRUE], "ok")
  <2>1. r.s = [Take(s, Len(s.rx)) EXCEPT !.eof = TRUE]
    BY <1>9 DEF Ret
  <2>2. \A i \in 1..Len(s.rx) : s.rx[i].kind # "data"
    BY <1>3, <1>9
  <2>. QED
    BY <1>0, <1>9, <2>1, <2>2 DEF wants_read
<1>. QED
  BY <1>1, <1>6, <1>7, <1>8, <1>9

\* A queue cut in two is that queue.
LEMMA CutJoin ==
  ASSUME NEW q \in Seq(Records), NEW n \in 0..Len(q)
  PROVE  SubSeq(q, 1, n) \o SubSeq(q, n + 1, Len(q)) = q
<1>1. Len(q) \in Nat
  BY LenProperties
<1>2. 1 \in 1..(Len(q) + 1) /\ n \in (1 - 1)..Len(q) /\ Len(q) \in n..Len(q)
  BY <1>1
<1>3. SubSeq(q, 1, n) \o SubSeq(q, n + 1, Len(q)) = SubSeq(q, 1, Len(q))
  BY <1>2, ConcatAdjacentSubSeq
<1>. QED
  BY <1>3, SubSeqFull

\* What check_write leaves alone: all but the place of what is to be sent.
LEMMA CheckWriteKeeps ==
  ASSUME NEW s, Typed(s), NEW w, w = check_write(s).s
  PROVE  /\ w.rx = s.rx /\ w.eof = s.eof /\ w.hs = s.hs /\ w.plain = s.plain /\ w.held = s.held
         /\ w.tx \o w.outq = s.tx \o s.outq
<1>. DEFINE n == IF Len(s.outq) <= SndBuf - Len(s.tx) THEN Len(s.outq) ELSE SndBuf - Len(s.tx)
            p == SubSeq(s.outq, 1, n)
            b == SubSeq(s.outq, n + 1, Len(s.outq))
            a == s.tx \o p
<1>1. w = s \/ w = [s EXCEPT !.tx = a, !.outq = b]
  BY DEF check_write, Ret
<1>2. CASE w = s
  BY <1>2
<1>3. CASE w = [s EXCEPT !.tx = a, !.outq = b]
  <2>0. PICK o \in Seq(Records), x \in Seq(Records) : o = s.outq /\ x = s.tx /\ Len(x) <= SndBuf
    BY DEF Typed
  <2>1. n \in 0..Len(o)
    <3>1. PICK i \in Nat, j \in Nat : i = Len(o) /\ j = Len(x) /\ j <= SndBuf
      BY <2>0, LenProperties
    <3>2. n = IF i <= SndBuf - j THEN i ELSE SndBuf - j
      BY <2>0, <3>1, Zenon
    <3>. HIDE DEF n
    <3>3. SndBuf \in Nat
      BY TlsAssumption DEF TlsAssumption
    <3>4. n \in 0..i
      <4>1. j <= SndBuf
        BY <3>1
      <4>. QED
        BY <3>2, <3>3, <4>1
    <3>. QED
      BY <3>1, <3>4, Zenon
  <2>. HIDE DEF n
  <2>2. PICK y \in Seq(Records), z \in Seq(Records) : y = p /\ z = b /\ y \o z = o
    <3>1. p \in Seq(Records) /\ b \in Seq(Records)
      BY <2>0, <2>1, Prefix, Suffix
    <3>2. p \o b = o
      BY <2>0, <2>1, CutJoin
    <3>. HIDE DEF p, b
    <3>. QED
      BY <3>1, <3>2
  <2>. HIDE DEF p, b
  <2>3. (x \o y) \o z = x \o (y \o z)
    BY ConcatAssociative
  <2>4. a \o b = s.tx \o s.outq
    BY <2>0, <2>2, <2>3, Zenon
  <2>. HIDE DEF a
  <2>5. w = [rx |-> s.rx, eof |-> s.eof, hs |-> s.hs, plain |-> s.plain,
             notified |-> s.notified, outq |-> b, held |-> s.held, tx |-> a, shut |-> s.shut]
    BY <1>3, MovedFields, Zenon
  <2>6. /\ w.rx = s.rx /\ w.eof = s.eof /\ w.hs = s.hs /\ w.plain = s.plain /\ w.held = s.held
        /\ w.tx = a /\ w.outq = b
    BY <2>5
  <2>. QED
    BY <2>4, <2>6
<1>. QED
  BY <1>1, <1>2, <1>3

-----------------------------------------------------------------------------
(* The order of what is written.                                             *)

\* A record put at the end of the second part is at the end of the whole.
LEMMA AppendJoin ==
  ASSUME NEW a \in Seq(Records), NEW b \in Seq(Records), NEW r \in Records
  PROVE  a \o Append(b, r) = Append(a \o b, r)
<1>1. Append(b, r) = b \o <<r>> /\ <<r>> \in Seq(Records)
  BY AppendIsConcat
<1>2. a \o b \in Seq(Records)
  BY ConcatProperties
<1>3. Append(a \o b, r) = (a \o b) \o <<r>>
  BY <1>2, AppendIsConcat
<1>4. (a \o b) \o <<r>> = a \o (b \o <<r>>)
  BY <1>1, ConcatAssociative
<1>. QED
  BY <1>1, <1>3, <1>4

\* A record may move from the front of the second part to the end of the first.
LEMMA MoveJoin ==
  ASSUME NEW a \in Seq(Records), NEW x \in Seq(Records), x # <<>>, NEW b \in Seq(Records)
  PROVE  Append(a, Head(x)) \o (Tail(x) \o b) = a \o (x \o b)
<1>1. PICK m \in Nat, n \in Nat, k \in Nat : m = Len(a) /\ n = Len(b) /\ k = Len(x) /\ k # 0
  BY LenProperties, EmptySeq
<1>2. PICK y \in Seq(Records) : /\ y = Tail(x) /\ Len(y) = k - 1
                                /\ \A i \in 1..(k - 1) : y[i] = x[i + 1]
  <2>. DEFINE y == Tail(x)
  <2>1. y \in Seq(Records) /\ Len(y) = k - 1 /\ \A i \in 1..(k - 1) : y[i] = x[i + 1]
    BY <1>1, HeadTailProperties
  <2>. HIDE DEF y
  <2>2. \E d \in Seq(Records) : d = y /\ Len(d) = k - 1 /\ \A i \in 1..(k - 1) : d[i] = x[i + 1]
    BY <2>1, Zenon
  <2>. QED
    BY <2>2, Zenon DEF y
<1>3. PICK e \in Seq(Records) : /\ e = Append(a, Head(x)) /\ Len(e) = m + 1 /\ e[m + 1] = x[1]
                                /\ \A i \in 1..m : e[i] = a[i]
  <2>1. Head(x) \in Records /\ Head(x) = x[1]
    BY HeadTailProperties
  <2>. DEFINE e == Append(a, Head(x))
  <2>2. /\ e \in Seq(Records) /\ Len(e) = m + 1 /\ e[m + 1] = x[1]
        /\ \A i \in 1..m : e[i] = a[i]
    BY <1>1, <2>1, AppendProperties
  <2>. HIDE DEF e
  <2>3. \E d \in Seq(Records) : /\ d = e /\ Len(d) = m + 1 /\ d[m + 1] = x[1]
                                /\ \A i \in 1..m : d[i] = a[i]
    BY <2>2, Zenon
  <2>. QED
    BY <2>3, Zenon DEF e
<1>4. PICK f \in Seq(Records) : /\ f = y \o b /\ Len(f) = (k - 1) + n
                                /\ \A i \in 1..((k - 1) + n) :
                                     f[i] = IF i <= k - 1 THEN y[i] ELSE b[i - (k - 1)]
  <2>. DEFINE f == y \o b
  <2>1. k - 1 = Len(y) /\ n = Len(b)
    BY <1>1, <1>2
  <2>2. /\ f \in Seq(Records) /\ Len(f) = Len(y) + Len(b)
        /\ \A i \in 1..(Len(y) + Len(b)) :
             f[i] = IF i <= Len(y) THEN y[i] ELSE b[i - Len(y)]
    BY ConcatProperties
  <2>. HIDE DEF f
  <2>3. \E d \in Seq(Records) : /\ d = f /\ Len(d) = (k - 1) + n
                                /\ \A i \in 1..((k - 1) + n) :
                                     d[i] = IF i <= k - 1 THEN y[i] ELSE b[i - (k - 1)]
    BY <2>1, <2>2, Zenon
  <2>. QED
    BY <2>3, Zenon DEF f
<1>5. PICK g \in Seq(Records) : /\ g = e \o f /\ Len(g) = (m + 1) + ((k - 1) + n)
                                /\ \A i \in 1..((m + 1) + ((k - 1) + n)) :
                                     g[i] = IF i <= m + 1 THEN e[i] ELSE f[i - (m + 1)]
  <2>. DEFINE g == e \o f
  <2>1. m + 1 = Len(e) /\ (k - 1) + n = Len(f)
    BY <1>3, <1>4
  <2>2. /\ g \in Seq(Records) /\ Len(g) = Len(e) + Len(f)
        /\ \A i \in 1..(Len(e) + Len(f)) :
             g[i] = IF i <= Len(e) THEN e[i] ELSE f[i - Len(e)]
    BY ConcatProperties
  <2>. HIDE DEF g
  <2>3. \E d \in Seq(Records) : /\ d = g /\ Len(d) = (m + 1) + ((k - 1) + n)
                                /\ \A i \in 1..((m + 1) + ((k - 1) + n)) :
                                     d[i] = IF i <= m + 1 THEN e[i] ELSE f[i - (m + 1)]
    BY <2>1, <2>2, Zenon
  <2>. QED
    BY <2>3, Zenon DEF g
<1>6. PICK h \in Seq(Records) : /\ h = x \o b /\ Len(h) = k + n
                                /\ \A i \in 1..(k + n) : h[i] = IF i <= k THEN x[i] ELSE b[i - k]
  <2>. DEFINE h == x \o b
  <2>1. k = Len(x) /\ n = Len(b)
    BY <1>1
  <2>2. /\ h \in Seq(Records) /\ Len(h) = Len(x) + Len(b)
        /\ \A i \in 1..(Len(x) + Len(b)) :
             h[i] = IF i <= Len(x) THEN x[i] ELSE b[i - Len(x)]
    BY ConcatProperties
  <2>. HIDE DEF h
  <2>3. \E d \in Seq(Records) : /\ d = h /\ Len(d) = k + n
                                /\ \A i \in 1..(k + n) :
                                     d[i] = IF i <= k THEN x[i] ELSE b[i - k]
    BY <2>1, <2>2, Zenon
  <2>. QED
    BY <2>3, Zenon DEF h
<1>7. PICK l \in Seq(Records) : /\ l = a \o h /\ Len(l) = m + (k + n)
                                /\ \A i \in 1..(m + (k + n)) :
                                     l[i] = IF i <= m THEN a[i] ELSE h[i - m]
  <2>. DEFINE l == a \o h
  <2>1. m = Len(a) /\ k + n = Len(h)
    BY <1>1, <1>6
  <2>2. /\ l \in Seq(Records) /\ Len(l) = Len(a) + Len(h)
        /\ \A i \in 1..(Len(a) + Len(h)) :
             l[i] = IF i <= Len(a) THEN a[i] ELSE h[i - Len(a)]
    BY ConcatProperties
  <2>. HIDE DEF l
  <2>3. \E d \in Seq(Records) : /\ d = l /\ Len(d) = m + (k + n)
                                /\ \A i \in 1..(m + (k + n)) :
                                     d[i] = IF i <= m THEN a[i] ELSE h[i - m]
    BY <2>1, <2>2, Zenon
  <2>. QED
    BY <2>3, Zenon DEF l
<1>8. Len(g) = Len(l) /\ Len(g) = m + (k + n)
  BY <1>1, <1>5, <1>7
<1>9. ASSUME NEW i \in 1..(m + (k + n)) PROVE g[i] = l[i]
  <2>0. i \in 1..((m + 1) + ((k - 1) + n))
    BY <1>1
  <2>1. CASE i <= m
    BY <1>3, <1>5, <1>7, <2>0, <2>1
  <2>2. CASE i = m + 1
    <3>1. g[i] = x[1]
      BY <1>3, <1>5, <2>0, <2>2
    <3>2. l[i] = h[1]
      BY <1>7, <2>2
    <3>3. h[1] = x[1]
      BY <1>1, <1>6
    <3>. QED
      BY <3>1, <3>2, <3>3
  <2>3. CASE i > m + 1
    <3>1. PICK j \in 1..((k - 1) + n) : i = j + (m + 1)
      <4>1. i - (m + 1) \in 1..((k - 1) + n) /\ i = (i - (m + 1)) + (m + 1)
        BY <1>1, <2>0, <2>3
      <4>. QED
        BY <4>1
    <3>2. g[i] = f[j]
      <4>1. ~ (i <= m + 1) /\ i - (m + 1) = j
        BY <1>1, <3>1
      <4>. QED
        BY <1>5, <2>0, <4>1
    <3>3. l[i] = h[j + 1]
      <4>1. ~ (i <= m) /\ i - m = j + 1
        BY <1>1, <3>1
      <4>. QED
        BY <1>7, <4>1
    <3>4. j + 1 \in 1..(k + n)
      BY <1>1
    <3>5. CASE j <= k - 1
      <4>1. f[j] = y[j] /\ h[j + 1] = x[j + 1]
        BY <1>1, <1>4, <1>6, <3>4, <3>5
      <4>2. y[j] = x[j + 1]
        BY <1>1, <1>2, <3>5
      <4>. QED
        BY <3>2, <3>3, <4>1, <4>2
    <3>6. CASE ~ (j <= k - 1)
      <4>1. ~ (j + 1 <= k) /\ (j + 1) - k = j - (k - 1)
        BY <1>1, <3>6
      <4>2. f[j] = b[j - (k - 1)]
        BY <1>4, <3>6
      <4>3. h[j + 1] = b[(j + 1) - k]
        BY <1>6, <3>4, <4>1
      <4>. QED
        BY <3>2, <3>3, <4>1, <4>2, <4>3
    <3>. QED
      BY <3>5, <3>6
  <2>4. i <= m \/ i = m + 1 \/ i > m + 1
    OBVIOUS
  <2>. QED
    BY <2>1, <2>2, <2>3, <2>4
<1>10. g = l
  BY <1>8, <1>9, SeqEqual
<1>. QED
  BY <1>2, <1>3, <1>4, <1>5, <1>6, <1>7, <1>10, Zenon

\* Counting is counting, and a new last element counts for itself.
LEMMA CountAppend ==
  ASSUME NEW S, NEW q \in Seq(S), NEW v \in S, NEW c
  PROVE  /\ Count(q, c) \in Nat
         /\ Count(Append(q, v), c) = Count(q, c) + IF v = c THEN 1 ELSE 0
<1>. DEFINE z == Append(q, v)
            A == {i \in DOMAIN q : q[i] = c}
            B == {i \in DOMAIN z : z[i] = c}
<1>1. PICK n \in Nat : n = Len(q) /\ DOMAIN q = 1..n
  BY LenProperties
<1>2. /\ DOMAIN z = 1..(n + 1) /\ z[n + 1] = v /\ \A i \in 1..n : z[i] = q[i]
  <2>1. /\ z \in Seq(S) /\ Len(z) = Len(q) + 1 /\ z[Len(q) + 1] = v
        /\ \A i \in 1..Len(q) : z[i] = q[i]
    BY AppendProperties
  <2>2. DOMAIN z = 1..Len(z)
    BY <2>1, LenProperties
  <2>. QED
    BY <1>1, <2>1, <2>2
<1>. HIDE DEF z
<1>3. IsFiniteSet(A) /\ Cardinality(A) \in Nat
  <2>1. IsFiniteSet(1..n)
    BY FS_Interval
  <2>2. A \in SUBSET (1..n)
    BY <1>1
  <2>. QED
    BY <2>1, <2>2, FS_Subset, FS_CardinalityType
<1>4. n + 1 \notin A
  BY <1>1
<1>5. Count(q, c) = Cardinality(A) /\ Count(z, c) = Cardinality(B)
  BY DEF Count
<1>. HIDE DEF A, B
<1>6. Cardinality(B) = Cardinality(A) + IF v = c THEN 1 ELSE 0
  <2>1. CASE v = c
    <3>1. B = A \cup {n + 1}
      BY <1>1, <1>2, <2>1 DEF A, B
    <3>2. Cardinality(A \cup {n + 1}) = Cardinality(A) + 1
      BY <1>3, <1>4, FS_AddElement
    <3>. QED
      BY <2>1, <3>1, <3>2
  <2>2. CASE v # c
    <3>1. B = A
      BY <1>1, <1>2, <2>2 DEF A, B
    <3>. QED
      BY <1>3, <2>2, <3>1
  <2>. QED
    BY <2>1, <2>2
<1>. QED
  BY <1>3, <1>5, <1>6 DEF z

\* There is at most one hello in q.
Once(q) == \A j, k \in DOMAIN q : q[j].kind = "hello" /\ q[k].kind = "hello" => j = k

\* What is among the records the session is given, v, and among those left, x, was among
\* those received.
LEMMA HelloOnce ==
  ASSUME NEW q \in Seq(Records), NEW n \in 0..Len(q)
  PROVE  LET v == Valid(SubSeq(q, 1, n))
             x == SubSeq(q, n + 1, Len(q))
         IN  /\ \A k : Has(v, k) \/ Has(x, k) => Has(q, k)
             /\ Once(q) => Once(x) /\ (Has(v, "hello") => ~ Has(x, "hello"))
<1>. DEFINE v == Valid(SubSeq(q, 1, n))
            x == SubSeq(q, n + 1, Len(q))
            p == SubSeq(q, 1, n)
<1>0. Len(q) \in Nat /\ DOMAIN q = 1..Len(q)
  BY LenProperties
<1>1. p \in Seq(Records) /\ Len(p) = n /\ \A i \in 1..n : p[i] = q[i]
  BY Prefix
<1>2. \A i \in DOMAIN x : n + i \in DOMAIN q /\ x[i] = q[n + i] /\ i \in 1..(Len(q) - n)
  <2>1. DOMAIN x = 1..(Len(q) - n) /\ \A i \in 1..(Len(q) - n) : x[i] = q[n + i]
    BY Suffix
  <2>. QED
    BY <1>0, <2>1
<1>3. \A i \in DOMAIN v : i \in DOMAIN q /\ v[i] = q[i] /\ i \in 1..n
  <2>1. PICK m \in 0..Len(p) : DOMAIN v = 1..m /\ \A i \in 1..m : v[i] = p[i]
    BY <1>1, ValidRecords
  <2>. HIDE DEF p
  <2>2. \A i \in 1..m : i \in 1..n /\ i \in 1..Len(q)
    BY <1>0, <1>1
  <2>. QED
    BY <1>0, <1>1, <2>1, <2>2
<1>. HIDE DEF v, x
<1>4. \A k : Has(v, k) \/ Has(x, k) => Has(q, k)
  BY <1>2, <1>3 DEF Has
<1>5. Once(q) => Once(x)
  <2>. SUFFICES ASSUME Once(q), NEW j \in DOMAIN x, NEW k \in DOMAIN x,
                       x[j].kind = "hello", x[k].kind = "hello"
                PROVE  j = k
    BY DEF Once
  <2>1. n + j = n + k
    BY <1>2 DEF Once
  <2>2. n \in Nat /\ j \in Nat /\ k \in Nat
    BY <1>0, <1>2
  <2>. QED
    BY <2>1, <2>2
<1>6. Once(q) /\ Has(v, "hello") => ~ Has(x, "hello")
  <2>. SUFFICES ASSUME Once(q), NEW j \in DOMAIN v, v[j].kind = "hello",
                       NEW k \in DOMAIN x, x[k].kind = "hello"
                PROVE  FALSE
    BY DEF Has
  <2>1. j = n + k
    BY <1>2, <1>3 DEF Once
  <2>2. n \in Nat /\ j \in 1..n /\ k \in 1..(Len(q) - n)
    BY <1>0, <1>2, <1>3
  <2>. QED
    BY <1>0, <2>1, <2>2
<1>. QED
  BY <1>4, <1>5, <1>6, Zenon DEF v, x

-----------------------------------------------------------------------------
\* What is on its way to the peer.
Queued(s) == s.tx \o s.outq

\* How far the peer, at stage st, and the session agree: there is one hello, the peer
\* finishes after the session has answered it, and plaintext is held back only from a
\* peer whose stream has ended.
Greeting(s, st) ==
  /\ Once(s.rx)
  /\ Has(s.rx, "hello") => s.hs = 0 /\ st \in {"hello", "mute"} /\ ~ Has(s.rx, "finished")
  /\ Has(s.rx, "finished") => s.hs # 0
  /\ st \in {"flight", "data"} => s.hs # 0
  /\ st = "new" => s.hs = 0 /\ ~ Has(s.rx, "hello")
  /\ ~ s.eof => s.held = <<>>

\* During the handshake nothing but the session's flight is on its way, and it is gone
\* before the peer finishes.
Early(s, st) ==
  \/ Queued(s) = <<>>
  \/ /\ Queued(s) = <<Rec("flight", 0)>> /\ s.hs = 1
     /\ st \in {"hello", "mute"} /\ ~ Has(s.rx, "finished")

\* What a call other than write does to a stream.
Onward(s, z, st) ==
  /\ Greeting(z, st)
  /\ s.hs = 2 => z.hs = 2 /\ Queued(z) = Queued(s)
  /\ s.hs < 2 /\ Early(s, st) => IF z.hs = 2 THEN Queued(z) = <<>> ELSE Early(z, st)

\* Reading the first n records.
LEMMA TakeOnward ==
  ASSUME NEW s, NEW st, NEW pr, Sound(s, st, pr), Greeting(s, st), s.eof = FALSE,
         NEW n \in 0..Len(s.rx), NEW z, z = Take(s, n)
  PROVE  Onward(s, z, st) /\ z.held = <<>>
<1>. DEFINE v == Valid(SubSeq(s.rx, 1, n))
            x == SubSeq(s.rx, n + 1, Len(s.rx))
            h == [i \in DOMAIN s.held |-> Rec("data", s.held[i])]
<1>0. /\ Typed(s) /\ s.rx \in Seq(Records) /\ s.hs \in 0..2 /\ s.held = <<>>
      /\ s.outq \in Seq(Records) /\ s.tx \in Seq(Records)
  BY DEF Sound, Typed, Greeting
<1>1. z.rx = x /\ z.tx = s.tx /\ z.eof = FALSE /\ z.hs = Flights(s.hs, v)
  BY <1>0, TakeFields
<1>2. /\ z.outq = IF Has(v, "hello") THEN Append(s.outq, Rec("flight", 0))
                  ELSE IF Has(v, "finished") THEN s.outq \o h ELSE s.outq
      /\ z.held = IF Has(v, "finished") THEN <<>> ELSE s.held
  BY <1>0, TakeSession
<1>3. /\ \A k : Has(v, k) \/ Has(x, k) => Has(s.rx, k)
      /\ Once(s.rx) => Once(x) /\ (Has(v, "hello") => ~ Has(x, "hello"))
  <2>1. PICK q \in Seq(Records) : q = s.rx
    BY <1>0
  <2>2. n \in 0..Len(q) /\ v = Valid(SubSeq(q, 1, n)) /\ x = SubSeq(q, n + 1, Len(q))
    BY <2>1
  <2>3. /\ \A k : Has(v, k) \/ Has(x, k) => Has(q, k)
        /\ Once(q) => Once(x) /\ (Has(v, "hello") => ~ Has(x, "hello"))
    BY <2>1, <2>2, HelloOnce
  <2>. QED
    BY <2>1, <2>3
<1>4. s.outq \o h = s.outq
  <2>1. h = <<>>
    BY <1>0
  <2>. QED
    BY <1>0, <2>1, ConcatEmptySeq
<1>5. z.held = <<>>
  BY <1>0, <1>2
<1>. HIDE DEF v, x, h
<1>6. Has(v, "hello") => /\ s.hs = 0 /\ z.hs = 1 /\ st \in {"hello", "mute"}
                         /\ ~ Has(x, "finished") /\ ~ Has(x, "hello")
  BY <1>1, <1>3 DEF Greeting, Flights
<1>7. Has(v, "finished") => s.hs # 0 /\ z.hs = 2 /\ ~ Has(v, "hello") /\ ~ Has(x, "hello")
  BY <1>1, <1>3 DEF Greeting, Flights
<1>8. ~ Has(v, "hello") /\ ~ Has(v, "finished") => z.hs = s.hs
  BY <1>1 DEF Flights
<1>9. Greeting(z, st)
  <2>1. Once(z.rx)
    BY <1>1, <1>3 DEF Greeting
  <2>2. s.hs # 0 => z.hs # 0
    BY <1>6, <1>7, <1>8
  <2>3. Has(x, "hello") => z.hs = 0
    BY <1>3, <1>6, <1>7, <1>8 DEF Greeting
  <2>4. st = "new" => z.hs = 0 /\ ~ Has(x, "hello")
    BY <1>3, <1>6, <1>7, <1>8 DEF Greeting
  <2>. QED
    BY <1>1, <1>3, <1>5, <2>1, <2>2, <2>3, <2>4 DEF Greeting
<1>10. s.hs = 2 => z.hs = 2 /\ Queued(z) = Queued(s)
  <2>. SUFFICES ASSUME s.hs = 2 PROVE z.hs = 2 /\ Queued(z) = Queued(s)
    OBVIOUS
  <2>1. ~ Has(v, "hello")
    BY <1>6
  <2>2. z.outq = s.outq
    BY <1>2, <1>4, <2>1, Zenon
  <2>3. z.hs = 2
    BY <1>7, <1>8, <2>1
  <2>. QED
    BY <1>1, <2>2, <2>3 DEF Queued
<1>11. ASSUME s.hs < 2, Early(s, st) PROVE IF z.hs = 2 THEN Queued(z) = <<>> ELSE Early(z, st)
  <2>1. CASE Has(v, "hello")
    <3>1. Queued(s) = <<>>
      BY <1>6, <1>11, <2>1 DEF Early
    <3>2. s.tx = <<>> /\ s.outq = <<>>
      BY <1>0, <3>1, ConcatEqualIffEmpty DEF Queued
    <3>3. Append(<<>>, Rec("flight", 0)) = <<Rec("flight", 0)>>
      OBVIOUS
    <3>4. <<Rec("flight", 0)>> \in Seq(Records)
      BY RecType
    <3>5. Queued(z) = <<Rec("flight", 0)>>
      BY <1>1, <1>2, <2>1, <3>2, <3>3, <3>4, ConcatEmptySeq DEF Queued
    <3>. QED
      BY <1>1, <1>6, <2>1, <3>5 DEF Early
  <2>2. CASE Has(v, "finished")
    <3>1. Queued(s) = <<>>
      BY <1>3, <1>11, <2>2 DEF Early
    <3>2. Queued(z) = Queued(s)
      BY <1>1, <1>2, <1>4, <1>7, <2>2 DEF Queued
    <3>. QED
      BY <1>7, <2>2, <3>1, <3>2
  <2>3. CASE ~ Has(v, "hello") /\ ~ Has(v, "finished")
    <3>1. z.hs = s.hs /\ Queued(z) = Queued(s)
      BY <1>1, <1>2, <1>8, <2>3 DEF Queued
    <3>2. s.hs # 2
      BY <1>11
    <3>3. Has(z.rx, "finished") => Has(s.rx, "finished")
      BY <1>1, <1>3
    <3>. QED
      BY <1>11, <3>1, <3>2, <3>3 DEF Early
  <2>. QED
    BY <2>1, <2>2, <2>3
<1>. QED
  BY <1>5, <1>9, <1>10, <1>11 DEF Onward

\* Doing nothing.
LEMMA OnwardSelf ==
  ASSUME NEW s, NEW st, Greeting(s, st)
  PROVE  Onward(s, s, st)
<1>1. s.hs < 2 => s.hs # 2
  OBVIOUS
<1>. QED
  BY <1>1 DEF Onward

\* Only the queues, the handshake and the end of the stream matter.
LEMMA OnwardSame ==
  ASSUME NEW s, NEW st, NEW z, NEW y, Onward(s, z, st),
         y.rx = z.rx, y.hs = z.hs, y.held = z.held, Queued(y) = Queued(z), y.eof = z.eof \/ y.eof
  PROVE  Onward(s, y, st)
<1>1. Greeting(y, st)
  BY DEF Greeting, Onward
<1>2. Early(z, st) => Early(y, st)
  BY DEF Early
<1>. QED
  BY <1>1, <1>2 DEF Onward

\* check_read.
LEMMA ReadOnward ==
  ASSUME NEW s, NEW st, Sound(s, st, peer), Greeting(s, st), peer \in {"open", "fin", "reset"},
         NEW r \in check_read(s)
  PROVE  Onward(s, r.s, st)
<1>0. Typed(s)
  BY DEF Sound
<1>1. CASE r.s = s
  BY <1>1, OnwardSelf
<1>2. CASE /\ s.eof = FALSE
           /\ \E n \in 0..Len(s.rx) :
                 \/ r.s = Take(s, n)
                 \/ r.s = [Take(s, n) EXCEPT !.eof = TRUE]
  <2>1. PICK n \in 0..Len(s.rx) : r.s = Take(s, n) \/ r.s = [Take(s, n) EXCEPT !.eof = TRUE]
    BY <1>2
  <2>2. PICK z : z = Take(s, n)
    OBVIOUS
  <2>3. Onward(s, z, st)
    BY <1>2, <2>2, TakeOnward
  <2>4. Typed(z)
    BY <1>0, <2>2, TakeFields
  <2>5. CASE r.s = z
    BY <2>3, <2>5
  <2>6. CASE r.s = [z EXCEPT !.eof = TRUE]
    <3>1. PICK y : y = [z EXCEPT !.eof = TRUE]
      OBVIOUS
    <3>2. y = [rx |-> z.rx, eof |-> TRUE, hs |-> z.hs, plain |-> z.plain,
               notified |-> z.notified, outq |-> z.outq, held |-> z.held, tx |-> z.tx,
               shut |-> z.shut]
      BY <2>4, <3>1 DEF Typed
    <3>3. /\ y.rx = z.rx /\ y.hs = z.hs /\ y.held = z.held /\ y.eof = TRUE
          /\ y.tx = z.tx /\ y.outq = z.outq
      BY <3>2
    <3>4. Queued(y) = Queued(z)
      BY <3>3 DEF Queued
    <3>5. Onward(s, y, st)
      BY <2>3, <3>3, <3>4, OnwardSame
    <3>. QED
      BY <2>6, <3>1, <3>5
  <2>. QED
    BY <2>1, <2>2, <2>5, <2>6
<1>3. \/ r.s = s
      \/ /\ s.eof = FALSE /\ s.plain = <<>>
         /\ \E n \in 0..Len(s.rx) :
              \/ r.s = Take(s, n)
              \/ /\ n = Len(s.rx) /\ r.s = [Take(s, n) EXCEPT !.eof = TRUE]
                 /\ peer = "fin" /\ \A i \in 1..Len(s.rx) : s.rx[i].kind # "data"
  BY <1>0, CheckReadCases
<1>. QED
  BY <1>1, <1>2, <1>3, Zenon

\* complete_io.
LEMMA IoOnward ==
  ASSUME NEW s, NEW st, Sound(s, st, peer), Greeting(s, st), peer \in {"open", "fin", "reset"},
         NEW c \in complete_io(s)
  PROVE  Onward(s, c.s, st)
<1>1. PICK r \in check_read(s) : c.s = check_write(r.s).s
  BY DEF complete_io, Ret
<1>2. Onward(s, r.s, st) /\ Sound(r.s, st, peer)
  BY ReadOnward, CheckRead
<1>3. PICK w : w = check_write(r.s).s
  OBVIOUS
<1>4. /\ w.rx = r.s.rx /\ w.eof = r.s.eof /\ w.hs = r.s.hs /\ w.held = r.s.held
      /\ w.tx \o w.outq = r.s.tx \o r.s.outq
  <2>1. Typed(r.s)
    BY <1>2 DEF Sound
  <2>. QED
    BY <1>3, <2>1, CheckWriteKeeps
<1>5. Queued(w) = Queued(r.s)
  BY <1>4 DEF Queued
<1>6. Onward(s, w, st)
  BY <1>2, <1>4, <1>5, OnwardSame
<1>. QED
  BY <1>1, <1>3, <1>6

-----------------------------------------------------------------------------
\* The records the peer has received, as it received them.
Sent(g) == [i \in DOMAIN g |-> Rec("data", g[i])]

\* All that was written, P, with p chunks accepted, the writing half at w and the writes rf
\* refused: the chunks in order, the last one the last accepted or the one after it, and
\* one too many only of a chunk that was refused or whose write failed.
Chain(P, p, w, rf) ==
  /\ P \in Seq(Records)
  /\ \A i \in DOMAIN P : /\ P[i] = Rec("data", P[i].val)
                         /\ IF i = 1 THEN P[i].val = 1 ELSE P[i].val - P[i - 1].val \in {0, 1}
  /\ IF P = <<>> THEN p = 0 ELSE P[Len(P)].val \in {p, p + 1}
  /\ \A c \in Nat : Count(P, Rec("data", c))
                      <= Count(rf, c) + IF c <= p \/ w # "open" THEN 1 ELSE 0

\* Nothing counts for nothing.
LEMMA CountEmpty == \A c : Count(<<>>, c) = 0
<1>1. \A c : {i \in DOMAIN <<>> : <<>>[i] = c} = {}
  OBVIOUS
<1>. QED
  BY <1>1, FS_EmptySet DEF Count

\* How often a chunk was refused is a number.
LEMMA CountNat ==
  ASSUME NEW S, NEW q \in Seq(S)
  PROVE  \A c : Count(q, c) \in Nat
<1>. SUFFICES ASSUME NEW c PROVE Count(q, c) \in Nat
  OBVIOUS
<1>1. PICK n \in Nat : DOMAIN q = 1..n
  BY LenProperties
<1>2. IsFiniteSet(1..n)
  BY FS_Interval
<1>3. {i \in DOMAIN q : q[i] = c} \in SUBSET (1..n)
  BY <1>1
<1>4. Cardinality({i \in DOMAIN q : q[i] = c}) \in Nat
  BY <1>2, <1>3, FS_Subset, FS_CardinalityType
<1>. QED
  BY <1>4 DEF Count

\* Nothing was written.
LEMMA ChainEmpty ==
  ASSUME NEW w, NEW rf \in Seq(Nat)
  PROVE  Chain(<<>>, 0, w, rf)
<1>1. <<>> \in Seq(Records) /\ DOMAIN <<>> = {}
  BY EmptySeq
<1>2. ASSUME NEW c \in Nat
      PROVE  Count(<<>>, Rec("data", c)) <= Count(rf, c) + IF c <= 0 \/ w # "open" THEN 1 ELSE 0
  <2>1. Count(<<>>, Rec("data", c)) = 0 /\ Count(rf, c) \in Nat
    BY CountEmpty, CountNat
  <2>. QED
    BY <2>1
<1>. QED
  BY <1>1, <1>2 DEF Chain

\* The writing half may end.
LEMMA ChainEnds ==
  ASSUME NEW P, NEW p, NEW w, NEW u, NEW rf \in Seq(Nat), Chain(P, p, w, rf), u = w \/ u # "open"
  PROVE  Chain(P, p, u, rf)
<1>1. ASSUME NEW c \in Nat
      PROVE  Count(P, Rec("data", c)) <= Count(rf, c) + IF c <= p \/ u # "open" THEN 1 ELSE 0
  <2>1. PICK a \in Nat, b \in Nat : a = Count(P, Rec("data", c)) /\ b = Count(rf, c)
    <3>1. Count(P, Rec("data", c)) \in Nat /\ Count(rf, c) \in Nat
      BY CountNat DEF Chain
    <3>. QED
      BY <3>1
  <2>2. a <= b + IF c <= p \/ w # "open" THEN 1 ELSE 0
    BY <2>1 DEF Chain
  <2>3. a <= b + IF c <= p \/ u # "open" THEN 1 ELSE 0
    BY <2>2
  <2>. QED
    BY <2>1, <2>3
<1>. QED
  BY <1>1 DEF Chain

\* One write: it is accepted, it fails, or it is refused with its chunk in the session.
LEMMA ChainAppend ==
  ASSUME NEW P, NEW p \in Nat, NEW rf \in Seq(Nat), Chain(P, p, "open", rf), NEW k \in Nat, k = p + 1,
         NEW e, NEW w, NEW rg,
         \/ e = k /\ w = "open" /\ rg = rf
         \/ e = p /\ w = "err" /\ rg = rf
         \/ e = p /\ w = "open" /\ rg = Append(rf, k)
  PROVE  Chain(Append(P, Rec("data", k)), e, w, rg)
<1>1. PICK r \in Records : r = Rec("data", k) /\ r.val = k
  <2>1. Rec("data", k) \in Records /\ Rec("data", k).val = k
    BY RecType DEF Rec
  <2>. QED
    BY <2>1
<1>2. P \in Seq(Records)
  BY DEF Chain
<1>3. PICK n \in Nat : n = Len(P) /\ DOMAIN P = 1..n
  BY <1>2, LenProperties
<1>. DEFINE z == Append(P, r)
<1>4. /\ z \in Seq(Records) /\ DOMAIN z = 1..(n + 1) /\ Len(z) = n + 1 /\ z # <<>> /\ z[n + 1] = r
      /\ \A i \in 1..n : z[i] = P[i]
  <2>1. /\ z \in Seq(Records) /\ Len(z) = n + 1 /\ z # <<>> /\ z[n + 1] = r
        /\ \A i \in 1..n : z[i] = P[i]
    BY <1>2, <1>3, AppendProperties
  <2>. QED
    BY <2>1, LenProperties
<1>5. \A c : Count(z, c) = Count(P, c) + IF r = c THEN 1 ELSE 0
  BY <1>2, CountAppend
<1>. HIDE DEF z
<1>6. ASSUME NEW i \in DOMAIN z
      PROVE  /\ z[i] = Rec("data", z[i].val)
             /\ IF i = 1 THEN z[i].val = 1 ELSE z[i].val - z[i - 1].val \in {0, 1}
  <2>1. CASE i \in 1..n
    <3>1. z[i] = P[i] /\ (i # 1 => z[i - 1] = P[i - 1])
      BY <1>4, <2>1
    <3>2. /\ P[i] = Rec("data", P[i].val)
          /\ IF i = 1 THEN P[i].val = 1 ELSE P[i].val - P[i - 1].val \in {0, 1}
      BY <1>3, <2>1 DEF Chain
    <3>. QED
      BY <3>1, <3>2
  <2>2. CASE i = n + 1
    <3>1. z[i] = Rec("data", z[i].val) /\ z[i].val = p + 1
      BY <1>1, <1>4, <2>2
    <3>2. CASE n = 0
      <4>1. P = <<>>
        BY <1>2, <1>3, <3>2, EmptySeq
      <4>2. p = 0
        BY <4>1 DEF Chain
      <4>. QED
        BY <2>2, <3>1, <3>2, <4>2
    <3>3. CASE n # 0
      <4>1. P # <<>>
        BY <1>2, <1>3, <3>3, EmptySeq
      <4>2. P[n].val \in {p, p + 1}
        BY <1>3, <4>1 DEF Chain
      <4>3. i # 1 /\ i - 1 = n /\ n \in 1..n
        BY <2>2, <3>3
      <4>4. z[i - 1] = P[n]
        BY <1>4, <4>3
      <4>5. z[i].val - z[i - 1].val \in {0, 1}
        BY <3>1, <4>2, <4>4
      <4>. QED
        BY <3>1, <4>3, <4>5
    <3>. QED
      BY <3>2, <3>3
  <2>. QED
    BY <1>4, <2>1, <2>2
<1>7. z[Len(z)].val \in {e, e + 1}
  BY <1>1, <1>4
<1>8. ASSUME NEW c \in Nat
      PROVE  Count(z, Rec("data", c)) <= Count(rg, c) + IF c <= e \/ w # "open" THEN 1 ELSE 0
  <2>1. PICK a \in Nat, b \in Nat : a = Count(P, Rec("data", c)) /\ b = Count(rf, c)
    <3>1. Count(P, Rec("data", c)) \in Nat /\ Count(rf, c) \in Nat
      BY <1>2, CountNat
    <3>. QED
      BY <3>1
  <2>2. a <= b + IF c <= p THEN 1 ELSE 0
    BY <2>1 DEF Chain
  <2>3. r = Rec("data", c) <=> c = k
    BY <1>1 DEF Rec
  <2>4. PICK d \in Nat : d = Count(z, Rec("data", c)) /\ d = a + IF c = k THEN 1 ELSE 0
    <3>1. Count(z, Rec("data", c)) = a + IF c = k THEN 1 ELSE 0
      BY <1>5, <2>1, <2>3
    <3>2. a + (IF c = k THEN 1 ELSE 0) \in Nat
      OBVIOUS
    <3>. QED
      BY <3>1, <3>2
  <2>5. CASE rg = rf /\ ((e = k /\ w = "open") \/ (e = p /\ w = "err"))
    <3>1. d <= b + IF c <= e \/ w # "open" THEN 1 ELSE 0
      BY <2>2, <2>4, <2>5
    <3>. QED
      BY <2>1, <2>4, <2>5, <3>1
  <2>6. CASE e = p /\ w = "open" /\ rg = Append(rf, k)
    <3>1. Count(rg, c) = b + IF c = k THEN 1 ELSE 0
      BY <2>1, <2>6, CountAppend
    <3>2. d <= (b + IF c = k THEN 1 ELSE 0) + IF c <= e \/ w # "open" THEN 1 ELSE 0
      BY <2>2, <2>4, <2>6
    <3>. QED
      BY <2>4, <3>1, <3>2
  <2>7. \/ rg = rf /\ ((e = k /\ w = "open") \/ (e = p /\ w = "err"))
        \/ e = p /\ w = "open" /\ rg = Append(rf, k)
    BY Zenon
  <2>. QED
    BY <2>5, <2>6, <2>7, Zenon
<1>9. Chain(z, e, w, rg)
  BY <1>4, <1>6, <1>7, <1>8 DEF Chain
<1>. QED
  BY <1>1, <1>9 DEF z

\* What the peer has received is in order, and one chunk too many is one that was refused.
Ordered(g, rf) ==
  /\ \A i \in DOMAIN g : IF i = 1 THEN g[i] = 1 ELSE g[i] - g[i - 1] \in {0, 1}
  /\ \A c \in Nat : Count(g, c) <= 1 + Count(rf, c)

\* The types of what the peer has received and of what is on its way.
LEMMA SentType ==
  ASSUME NEW g \in Seq(Nat)
  PROVE  /\ Sent(g) \in Seq(Records) /\ DOMAIN Sent(g) = DOMAIN g /\ Len(Sent(g)) = Len(g)
         /\ \A i \in DOMAIN g : Sent(g)[i] = Rec("data", g[i])
<1>. DEFINE z == [i \in 1..Len(g) |-> Rec("data", g[i])]
<1>1. Len(g) \in Nat /\ DOMAIN g = 1..Len(g)
  BY LenProperties
<1>2. \A i \in 1..Len(g) : Rec("data", g[i]) \in Records
  BY ElementOfSeq, RecType
<1>3. z \in Seq(Records)
  BY <1>1, <1>2, IsASeq
<1>4. DOMAIN z = 1..Len(g) /\ \A i \in 1..Len(g) : z[i] = Rec("data", g[i])
  OBVIOUS
<1>5. Sent(g) = z
  BY <1>1 DEF Sent
<1>. HIDE DEF z
<1>6. DOMAIN z = 1..Len(z) /\ Len(z) \in Nat
  BY <1>3, LenProperties
<1>7. Len(z) = Len(g)
  <2>1. PICK a \in Nat, b \in Nat : a = Len(z) /\ b = Len(g) /\ 1..a = 1..b
    BY <1>1, <1>4, <1>6
  <2>2. (a \in 1..b \/ a = 0) /\ (b \in 1..a \/ b = 0)
    BY <2>1
  <2>3. a = b
    BY <2>1, <2>2
  <2>. QED
    BY <2>1, <2>3
<1>. QED
  BY <1>1, <1>3, <1>4, <1>5, <1>7

\* What is on its way is a sequence of records.
LEMMA QueuedType == ASSUME NEW s, Typed(s) PROVE Queued(s) \in Seq(Records)
BY ConcatProperties DEF Typed, Queued

\* The peer has received one more.
LEMMA SentAppend ==
  ASSUME NEW g \in Seq(Nat), NEW v \in Nat
  PROVE  Sent(Append(g, v)) = Append(Sent(g), Rec("data", v))
<1>1. Rec("data", v) \in Records
  BY RecType
<1>2. PICK n \in Nat : n = Len(g) /\ DOMAIN g = 1..n
  BY LenProperties
<1>. DEFINE h == Append(g, v)
            a == Sent(h)
            z == Append(Sent(g), Rec("data", v))
<1>3. h \in Seq(Nat) /\ Len(h) = n + 1 /\ h[n + 1] = v /\ \A i \in 1..n : h[i] = g[i]
  BY <1>2, AppendProperties
<1>. HIDE DEF h
<1>4. DOMAIN h = 1..(n + 1)
  BY <1>3, LenProperties
<1>5. a \in Seq(Records) /\ Len(a) = n + 1 /\ \A i \in 1..(n + 1) : a[i] = Rec("data", h[i])
  BY <1>3, <1>4, SentType
<1>6. Sent(g) \in Seq(Records) /\ Len(Sent(g)) = n /\ \A i \in 1..n : Sent(g)[i] = Rec("data", g[i])
  BY <1>2, SentType
<1>7. /\ z \in Seq(Records) /\ Len(z) = n + 1 /\ z[n + 1] = Rec("data", v)
      /\ \A i \in 1..n : z[i] = Sent(g)[i]
  BY <1>1, <1>6, AppendProperties
<1>. HIDE DEF a, z
<1>8. ASSUME NEW i \in 1..(n + 1) PROVE a[i] = z[i]
  <2>1. CASE i \in 1..n
    BY <1>3, <1>5, <1>6, <1>7, <2>1
  <2>2. CASE i = n + 1
    BY <1>3, <1>5, <1>7, <2>2
  <2>. QED
    BY <2>1, <2>2
<1>9. a = z
  BY <1>5, <1>7, <1>8, SeqEqual
<1>. QED
  BY <1>9 DEF a, z, h

\* The peer has received the first part of what was written.
LEMMA ChainOrdered ==
  ASSUME NEW g \in Seq(Nat), NEW q \in Seq(Records), NEW p, NEW w, NEW rf \in Seq(Nat),
         Chain(Sent(g) \o q, p, w, rf)
  PROVE  Ordered(g, rf)
<1>. DEFINE P == Sent(g) \o q
<1>1. PICK n \in Nat, m \in Nat : n = Len(g) /\ DOMAIN g = 1..n /\ m = Len(q)
  BY LenProperties
<1>2. Sent(g) \in Seq(Records) /\ Len(Sent(g)) = n /\ \A i \in 1..n : Sent(g)[i] = Rec("data", g[i])
  BY <1>1, SentType
<1>3. /\ P \in Seq(Records) /\ Len(P) = n + m
      /\ \A i \in 1..(n + m) : P[i] = IF i <= n THEN Sent(g)[i] ELSE q[i - n]
  <2>1. PICK a \in Seq(Records) : a = Sent(g)
    BY <1>2
  <2>2. /\ a \o q \in Seq(Records) /\ Len(a \o q) = Len(a) + Len(q)
        /\ \A i \in 1..(Len(a) + Len(q)) : (a \o q)[i] = IF i <= Len(a) THEN a[i] ELSE q[i - Len(a)]
    BY ConcatProperties
  <2>3. P = a \o q /\ Len(a) = n /\ Len(q) = m
    BY <1>1, <1>2, <2>1
  <2>. HIDE DEF P
  <2>. QED
    BY <2>1, <2>2, <2>3
<1>4. Chain(P, p, w, rf)
  OBVIOUS
<1>. HIDE DEF P
<1>5. DOMAIN P = 1..(n + m)
  BY <1>3, LenProperties
<1>6. ASSUME NEW i \in 1..n PROVE i \in DOMAIN P /\ P[i] = Rec("data", g[i]) /\ P[i].val = g[i]
  <2>1. i \in 1..(n + m) /\ i <= n
    BY <1>1
  <2>2. P[i] = Rec("data", g[i])
    BY <1>2, <1>3, <2>1
  <2>. QED
    BY <1>5, <2>1, <2>2 DEF Rec
<1>7. ASSUME NEW i \in DOMAIN g PROVE IF i = 1 THEN g[i] = 1 ELSE g[i] - g[i - 1] \in {0, 1}
  <2>1. i \in 1..n /\ (i # 1 => i - 1 \in 1..n)
    BY <1>1
  <2>2. IF i = 1 THEN P[i].val = 1 ELSE P[i].val - P[i - 1].val \in {0, 1}
    BY <1>4, <1>6, <2>1 DEF Chain
  <2>. QED
    BY <1>6, <2>1, <2>2
<1>8. ASSUME NEW c \in Nat PROVE Count(g, c) <= 1 + Count(rf, c)
  <2>. DEFINE A == {i \in DOMAIN g : g[i] = c}
              B == {i \in DOMAIN P : P[i] = Rec("data", c)}
  <2>1. A \in SUBSET B
    BY <1>1, <1>6
  <2>2. IsFiniteSet(B)
    <3>1. IsFiniteSet(1..(n + m))
      BY FS_Interval
    <3>2. B \in SUBSET (1..(n + m))
      BY <1>5
    <3>. QED
      BY <3>1, <3>2, FS_Subset
  <2>. HIDE DEF A, B
  <2>3. Cardinality(A) <= Cardinality(B)
    BY <2>1, <2>2, FS_Subset
  <2>4. Count(g, c) = Cardinality(A) /\ Count(P, Rec("data", c)) = Cardinality(B)
    BY DEF Count, A, B
  <2>5. PICK a \in Nat, b \in Nat, d \in Nat :
          a = Count(g, c) /\ b = Count(P, Rec("data", c)) /\ d = Count(rf, c)
    <3>1. Count(g, c) \in Nat /\ Count(P, Rec("data", c)) \in Nat /\ Count(rf, c) \in Nat
      BY <1>3, CountNat
    <3>. QED
      BY <3>1
  <2>6. a <= b
    BY <2>3, <2>4, <2>5, Zenon
  <2>7. b <= d + IF c <= p \/ w # "open" THEN 1 ELSE 0
    BY <1>4, <2>5 DEF Chain
  <2>8. a <= 1 + d
    BY <2>6, <2>7
  <2>. QED
    BY <2>5, <2>8, Zenon
<1>. QED
  BY <1>7, <1>8 DEF Ordered

\* The inductive invariant: all that was written is a chain, as long as the connection is
\* there; before the handshake is over nothing was.
WriteInv ==
  /\ HandedInv /\ refused \in Seq(Nat)
  /\ Ordered(got, refused)
  /\ Greeting(t, stage)
  /\ t.hs < 2 => got = <<>> /\ (~ t.eof => pos = 0)
  /\ peer # "reset" => /\ t.hs < 2 => Early(t, stage)
                       /\ t.hs = 2 => Chain(Sent(got) \o Queued(t), pos, wr, refused)

\* The stream starts with nothing written.
LEMMA WriteInit == Init => WriteInv
<1>. SUFFICES ASSUME Init PROVE WriteInv
  OBVIOUS
<1>1. /\ t.rx = <<>> /\ t.eof = FALSE /\ t.hs = 0 /\ t.outq = <<>> /\ t.held = <<>> /\ t.tx = <<>>
      /\ pos = 0 /\ got = <<>> /\ stage = "new" /\ refused = <<>>
  BY DEF Init
<1>2. <<>> \in Seq(Records) /\ <<>> \in Seq(Nat) /\ DOMAIN <<>> = {}
  BY EmptySeq
<1>3. Queued(t) = <<>>
  BY <1>1, <1>2, ConcatEmptySeq DEF Queued
<1>4. Ordered(got, refused)
  BY <1>1, <1>2, CountEmpty DEF Ordered
<1>5. Greeting(t, stage)
  BY <1>1, <1>2 DEF Greeting, Once, Has
<1>. QED
  BY <1>1, <1>2, <1>3, <1>4, <1>5, HandedInit DEF WriteInv, Early

\* A call that writes nothing new.
LEMMA CallWrites ==
  ASSUME WriteInv, HandedInv', Steady(t, t'), Onward(t, t', stage),
         UNCHANGED <<peer, stage, got, pos, refused>>, wr' = wr \/ wr' # "open"
  PROVE  WriteInv'
<1>0. /\ refused \in Seq(Nat) /\ t.hs \in 0..2 /\ t'.hs \in 0..2 /\ got \in Seq(Nat)
      /\ peer' = peer /\ stage' = stage /\ got' = got /\ pos' = pos /\ refused' = refused
  BY DEF WriteInv, HandedInv, Sound, Typed
<1>1. Ordered(got, refused)' /\ Greeting(t, stage)'
  <2>1. Greeting(t', stage)
    BY DEF Onward
  <2>. QED
    BY <1>0, <2>1 DEF WriteInv
<1>2. ASSUME t'.hs < 2 PROVE got = <<>> /\ (~ t'.eof => pos = 0)
  <2>1. t.hs < 2
    BY <1>0, <1>2 DEF Onward
  <2>. QED
    BY <2>1 DEF WriteInv, Steady
<1>3. ASSUME peer # "reset", t'.hs < 2 PROVE Early(t', stage)
  <2>1. t.hs < 2
    BY <1>0, <1>3 DEF Onward
  <2>2. Early(t, stage)
    BY <1>3, <2>1 DEF WriteInv
  <2>3. t'.hs # 2
    BY <1>3
  <2>. QED
    BY <2>1, <2>2, <2>3 DEF Onward
<1>4. ASSUME peer # "reset", t'.hs = 2 PROVE Chain(Sent(got) \o Queued(t'), pos, wr', refused)
  <2>1. CASE t.hs = 2
    <3>1. Queued(t') = Queued(t)
      BY <2>1 DEF Onward
    <3>2. PICK P : P = Sent(got) \o Queued(t) /\ Chain(P, pos, wr, refused)
      BY <1>4, <2>1 DEF WriteInv
    <3>3. Chain(P, pos, wr', refused)
      BY <1>0, <3>2, ChainEnds
    <3>. QED
      BY <3>1, <3>2, <3>3
  <2>2. CASE t.hs # 2
    <3>1. t.hs < 2
      BY <1>0, <2>2
    <3>2. Queued(t') = <<>>
      BY <1>4, <3>1 DEF WriteInv, Onward
    <3>3. pos = 0 /\ got = <<>>
      BY <1>4, <2>2, <3>1 DEF WriteInv, Steady
    <3>4. Sent(got) = <<>>
      BY <3>3 DEF Sent
    <3>5. Sent(got) \o Queued(t') = <<>>
      <4>1. <<>> \in Seq(Records)
        BY EmptySeq
      <4>. QED
        BY <3>2, <3>4, <4>1, ConcatEmptySeq
    <3>. QED
      BY <1>0, <3>3, <3>5, ChainEmpty
  <2>. QED
    BY <2>1, <2>2
<1>. QED
  BY <1>0, <1>1, <1>2, <1>3, <1>4 DEF WriteInv

\* read writes nothing.
LEMMA WriteRead == WriteInv /\ read => WriteInv'
<1>. SUFFICES ASSUME WriteInv, read PROVE WriteInv'
  OBVIOUS
<1>0. /\ HandedInv' /\ HandedInv /\ Sound(t, stage, peer) /\ Typed(t) /\ Greeting(t, stage)
      /\ peer \in {"open", "fin", "reset"}
  BY HandedRead DEF WriteInv, HandedInv, Sound
<1>1. PICK c \in complete_io(t) :
        \/ t' = c.s
        \/ c.s.plain # <<>> /\ \E k \in 1..Len(c.s.plain) :
             t' = [c.s EXCEPT !.plain = SubSeq(@, k + 1, Len(@))]
  BY DEF read
<1>2. UNCHANGED <<peer, stage, got, pos, refused>> /\ wr' = wr
  BY DEF read, peerVars
<1>3. Sound(c.s, stage, peer) /\ Steady(t, c.s) /\ Onward(t, c.s, stage)
  BY <1>0, CompleteIo, IoOnward
<1>4. CASE t' = c.s
  BY <1>0, <1>2, <1>3, <1>4, CallWrites
<1>5. CASE c.s.plain # <<>> /\ \E k \in 1..Len(c.s.plain) :
             t' = [c.s EXCEPT !.plain = SubSeq(@, k + 1, Len(@))]
  <2>1. PICK x : t' = [c.s EXCEPT !.plain = x]
    BY <1>5
  <2>2. PICK z, y : z = c.s /\ y = t' /\ y = [z EXCEPT !.plain = x]
    BY <2>1
  <2>3. Sound(z, stage, peer) /\ z.plain # <<>> /\ Typed(z)
    BY <1>3, <1>5, <2>2 DEF Sound
  <2>4. Steady(z, y)
    BY <2>2, <2>3, PlainRead
  <2>5. Steady(t, y)
    BY <1>0, <1>3, <2>2, <2>4, SteadyTrans
  <2>6. y = [rx |-> z.rx, eof |-> z.eof, hs |-> z.hs, plain |-> x, notified |-> z.notified,
             outq |-> z.outq, held |-> z.held, tx |-> z.tx, shut |-> z.shut]
    BY <2>2, <2>3 DEF Typed
  <2>7. /\ y.rx = z.rx /\ y.hs = z.hs /\ y.held = z.held /\ y.eof = z.eof
        /\ y.tx = z.tx /\ y.outq = z.outq
    BY <2>6
  <2>8. Queued(y) = Queued(z)
    BY <2>7 DEF Queued
  <2>9. Onward(t, y, stage)
    BY <1>3, <2>2, <2>7, <2>8, OnwardSame
  <2>. QED
    BY <1>0, <1>2, <2>2, <2>5, <2>9, CallWrites
<1>. QED
  BY <1>1, <1>4, <1>5

\* What Session::write leaves alone.
LEMMA SessionWriteKeeps ==
  ASSUME NEW s, NEW c \in Nat, Typed(s), NEW y, y = session_write(s, c)
  PROVE  /\ y.rx = s.rx /\ y.tx = s.tx /\ y.hs = s.hs /\ y.eof = s.eof /\ y.plain = s.plain
         /\ s.hs < 2 => y.outq = s.outq
         /\ s.hs = 2 => y.outq = Append(s.outq, Rec("data", c)) /\ y.held = s.held
<1>0. s.hs \in 0..2
  BY DEF Typed
<1>1. CASE s.hs < 2
  <2>1. PICK b : b = Append(s.held, c)
    OBVIOUS
  <2>2. y = [s EXCEPT !.held = b]
    BY <1>1, <2>1 DEF session_write, is_handshaking
  <2>3. y = [rx |-> s.rx, eof |-> s.eof, hs |-> s.hs, plain |-> s.plain, notified |-> s.notified,
             outq |-> s.outq, held |-> b, tx |-> s.tx, shut |-> s.shut]
    BY <2>2 DEF Typed
  <2>4. /\ y.rx = s.rx /\ y.tx = s.tx /\ y.hs = s.hs /\ y.eof = s.eof /\ y.plain = s.plain
        /\ y.outq = s.outq
    BY <2>3
  <2>5. s.hs # 2
    BY <1>1
  <2>. QED
    BY <2>4, <2>5
<1>2. CASE s.hs = 2
  <2>1. PICK b : b = Append(s.outq, Rec("data", c))
    OBVIOUS
  <2>2. y = [s EXCEPT !.outq = b]
    BY <1>2, <2>1 DEF session_write, is_handshaking
  <2>3. y = [rx |-> s.rx, eof |-> s.eof, hs |-> s.hs, plain |-> s.plain, notified |-> s.notified,
             outq |-> b, held |-> s.held, tx |-> s.tx, shut |-> s.shut]
    BY <2>2 DEF Typed
  <2>4. /\ y.rx = s.rx /\ y.tx = s.tx /\ y.hs = s.hs /\ y.eof = s.eof /\ y.plain = s.plain
        /\ y.outq = b /\ y.held = s.held
    BY <2>3
  <2>5. ~ (s.hs < 2)
    BY <1>2
  <2>. QED
    BY <2>1, <2>4, <2>5
<1>. QED
  BY <1>0, <1>1, <1>2

\* check_write has three outcomes.
LEMMA WriteOutcome == \A s : check_write(s).res \in {"ok", "err", "pending"}
BY DEF check_write, Ret

\* A refused write only allows for more.
LEMMA OrderedGrows ==
  ASSUME NEW g, NEW rf \in Seq(Nat), NEW k \in Nat, Ordered(g, rf), g \in Seq(Nat)
  PROVE  Ordered(g, Append(rf, k)) /\ Append(rf, k) \in Seq(Nat)
<1>1. ASSUME NEW c \in Nat PROVE Count(g, c) <= 1 + Count(Append(rf, k), c)
  <2>1. PICK a \in Nat, b \in Nat : a = Count(g, c) /\ b = Count(rf, c)
    <3>1. Count(g, c) \in Nat /\ Count(rf, c) \in Nat
      BY CountNat
    <3>. QED
      BY <3>1
  <2>2. Count(Append(rf, k), c) = b + IF k = c THEN 1 ELSE 0
    BY <2>1, CountAppend
  <2>3. a <= 1 + b
    BY <2>1 DEF Ordered
  <2>4. a <= 1 + (b + IF k = c THEN 1 ELSE 0)
    BY <2>3
  <2>. QED
    BY <2>1, <2>2, <2>4
<1>2. Append(rf, k) \in Seq(Nat)
  BY AppendProperties
<1>. QED
  BY <1>1, <1>2 DEF Ordered

\* The second half of write: the chunk becomes the last of what was written, or, when the
\* end of the peer's stream came before that of the handshake, stays in the session.
LEMMA WriteRest ==
  ASSUME WriteInv, HandedInv', NEW s, Sound(s, stage, peer), Steady(t, s), Onward(t, s, stage),
         s.hs < 2 => s.eof, wr = "open", write_rest(s), UNCHANGED <<peer, stage, got>>
  PROVE  WriteInv'
<1>0. /\ peer' = peer /\ stage' = stage /\ got' = got /\ pos \in Nat /\ refused \in Seq(Nat)
      /\ got \in Seq(Nat) /\ t.hs \in 0..2 /\ Typed(t) /\ Typed(s) /\ s.hs \in 0..2
      /\ s.tx \in Seq(Records) /\ s.outq \in Seq(Records)
  BY DEF WriteInv, HandedInv, Sound, Typed
<1>1. PICK k \in Nat : k = pos + 1
  BY <1>0
<1>2. PICK y : y = session_write(s, k)
  OBVIOUS
<1>3. /\ y.rx = s.rx /\ y.tx = s.tx /\ y.hs = s.hs /\ y.eof = s.eof
      /\ s.hs < 2 => y.outq = s.outq
      /\ s.hs = 2 => y.outq = Append(s.outq, Rec("data", k)) /\ y.held = s.held
  BY <1>0, <1>2, SessionWriteKeeps
<1>4. Typed(y)
  BY <1>2, SessionWrite DEF Sound
<1>5. PICK w, res : w = check_write(y).s /\ res = check_write(y).res
  OBVIOUS
<1>6. /\ w.rx = y.rx /\ w.eof = y.eof /\ w.hs = y.hs /\ w.held = y.held
      /\ w.tx \o w.outq = y.tx \o y.outq
  BY <1>4, <1>5, CheckWriteKeeps
<1>7. Queued(w) = Queued(y)
  BY <1>6 DEF Queued
<1>8. /\ t' = w
      /\ pos' = IF res = "ok" THEN k ELSE pos
      /\ wr' = IF res = "err" THEN "err" ELSE "open"
      /\ refused' = IF res = "pending" THEN Append(refused, k) ELSE refused
  BY <1>1, <1>2, <1>5 DEF write_rest
<1>9. res \in {"ok", "err", "pending"}
  BY <1>5, WriteOutcome
<1>10. Greeting(s, stage)
  BY DEF Onward
<1>11. Ordered(got, refused') /\ refused' \in Seq(Nat)
  BY <1>0, <1>8, OrderedGrows DEF WriteInv
<1>12. CASE s.hs < 2
  <2>1. t.hs < 2 /\ s.eof /\ s.hs # 2
    BY <1>0, <1>12 DEF Onward
  <2>2. got = <<>>
    BY <2>1 DEF WriteInv
  <2>3. Queued(w) = Queued(s)
    BY <1>3, <1>7, <1>12 DEF Queued
  <2>4. Greeting(w, stage)
    BY <1>3, <1>6, <1>10, <2>1 DEF Greeting
  <2>5. peer # "reset" => Early(w, stage)
    <3>. SUFFICES ASSUME peer # "reset" PROVE Early(w, stage)
      OBVIOUS
    <3>1. Early(s, stage)
      BY <2>1 DEF WriteInv, Onward
    <3>. QED
      BY <1>3, <1>6, <2>3, <3>1 DEF Early
  <2>6. w.hs # 2 /\ w.eof
    BY <1>3, <1>6, <2>1
  <2>. QED
    BY <1>0, <1>8, <1>11, <2>2, <2>4, <2>5, <2>6 DEF WriteInv
<1>13. CASE s.hs = 2
  <2>1. Greeting(w, stage) /\ w.hs = 2
    BY <1>3, <1>6, <1>10, <1>13 DEF Greeting
  <2>2. ASSUME peer # "reset" PROVE Chain(Sent(got) \o Queued(w), pos', wr', refused')
    <3>1. Chain(Sent(got) \o Queued(s), pos, "open", refused)
      <4>1. CASE t.hs = 2
        <5>1. Queued(s) = Queued(t)
          BY <4>1 DEF Onward
        <5>. QED
          BY <2>2, <4>1, <5>1 DEF WriteInv
      <4>2. CASE t.hs # 2
        <5>1. t.hs < 2
          BY <1>0, <4>2
        <5>2. Queued(s) = <<>>
          BY <1>13, <2>2, <5>1 DEF WriteInv, Onward
        <5>3. pos = 0 /\ got = <<>>
          BY <1>13, <4>2, <5>1 DEF WriteInv, Steady
        <5>4. Sent(got) = <<>>
          BY <5>3 DEF Sent
        <5>5. Sent(got) \o Queued(s) = <<>>
          <6>1. <<>> \in Seq(Records)
            BY EmptySeq
          <6>. QED
            BY <5>2, <5>4, <6>1, ConcatEmptySeq
        <5>. QED
          BY <1>0, <5>3, <5>5, ChainEmpty
      <4>. QED
        BY <4>1, <4>2
    <3>2. PICK a \in Seq(Records), b \in Seq(Records), r \in Records :
            a = Sent(got) /\ b = Queued(s) /\ r = Rec("data", k)
      <4>1. Sent(got) \in Seq(Records) /\ Queued(s) \in Seq(Records) /\ Rec("data", k) \in Records
        BY <1>0, SentType, QueuedType, RecType
      <4>. QED
        BY <4>1
    <3>3. Queued(w) = Append(b, r)
      <4>1. PICK x \in Seq(Records), o \in Seq(Records) : x = s.tx /\ o = s.outq
        BY <1>0
      <4>2. x \o Append(o, r) = Append(x \o o, r)
        BY AppendJoin
      <4>3. Queued(y) = y.tx \o y.outq /\ Queued(s) = x \o o
        BY <4>1 DEF Queued
      <4>. QED
        BY <1>3, <1>7, <1>13, <3>2, <4>1, <4>2, <4>3, Zenon
    <3>4. a \o Append(b, r) = Append(a \o b, r)
      BY AppendJoin
    <3>5. PICK P : P = a \o b
      OBVIOUS
    <3>6. Chain(P, pos, "open", refused)
      BY <3>1, <3>2, <3>5
    <3>7. PICK e, u, rg : e = pos' /\ u = wr' /\ rg = refused'
      OBVIOUS
    <3>8. \/ e = k /\ u = "open" /\ rg = refused
          \/ e = pos /\ u = "err" /\ rg = refused
          \/ e = pos /\ u = "open" /\ rg = Append(refused, k)
      BY <1>8, <1>9, <3>7
    <3>9. Chain(Append(P, Rec("data", k)), e, u, rg)
      BY <1>0, <1>1, <3>6, <3>8, ChainAppend
    <3>10. Sent(got) \o Queued(w) = Append(P, Rec("data", k))
      BY <3>2, <3>3, <3>4, <3>5, Zenon
    <3>. QED
      BY <3>7, <3>9, <3>10, Zenon
  <2>3. ~ (w.hs < 2)
    BY <2>1
  <2>. QED
    BY <1>0, <1>8, <1>11, <2>1, <2>2, <2>3 DEF WriteInv
<1>. QED
  BY <1>0, <1>12, <1>13

\* write.
LEMMA WriteWrite == WriteInv /\ write => WriteInv'
<1>. SUFFICES ASSUME WriteInv, write PROVE WriteInv'
  OBVIOUS
<1>0. /\ HandedInv' /\ HandedInv /\ Sound(t, stage, peer) /\ Typed(t) /\ Greeting(t, stage)
      /\ peer \in {"open", "fin", "reset"} /\ UNCHANGED <<peer, stage, got>> /\ wr = "open"
  BY HandedWrite DEF WriteInv, HandedInv, Sound, write, peerVars
<1>1. CASE t.eof
  <2>1. t' = t /\ pos' = pos /\ refused' = refused /\ wr' # "open"
    BY <1>1 DEF write
  <2>2. Steady(t, t') /\ Onward(t, t', stage)
    BY <1>0, <2>1, SteadySame, OnwardSelf
  <2>. QED
    BY <1>0, <2>1, <2>2, CallWrites
<1>2. CASE ~ t.eof
  <2>1. PICK c \in complete_io(t) :
          CASE c.res = "err"     -> t' = c.s /\ wr' = "err" /\ UNCHANGED <<pos, refused>>
            [] c.res = "pending" -> t' = c.s /\ UNCHANGED <<wr, pos, refused>>
            [] c.res = "ok"      -> write_rest(c.s)
    BY <1>2 DEF write
  <2>2. /\ Sound(c.s, stage, peer) /\ Steady(t, c.s) /\ (c.res = "ok" /\ c.s.hs < 2 => c.s.eof)
        /\ c.res \in {"ok", "err", "pending"} /\ Onward(t, c.s, stage)
    BY <1>0, CompleteIo, IoOnward
  <2>3. CASE c.res # "ok"
    <3>1. t' = c.s /\ pos' = pos /\ refused' = refused /\ (wr' = wr \/ wr' # "open")
      BY <2>1, <2>2, <2>3
    <3>. QED
      BY <1>0, <2>2, <3>1, CallWrites
  <2>4. CASE c.res = "ok"
    <3>1. write_rest(c.s)
      BY <2>1, <2>4
    <3>. QED
      BY <1>0, <2>2, <2>4, <3>1, WriteRest
  <2>. QED
    BY <2>3, <2>4
<1>. QED
  BY <1>1, <1>2

\* The three ways to close the stream.
LEMMA WriteClose == WriteInv /\ (write_empty \/ flush \/ shutdown) => WriteInv'
<1>. SUFFICES ASSUME WriteInv, write_empty \/ flush \/ shutdown PROVE WriteInv'
  OBVIOUS
<1>0. /\ HandedInv' /\ HandedInv /\ Sound(t, stage, peer) /\ Typed(t) /\ Greeting(t, stage)
      /\ peer \in {"open", "fin", "reset"}
  BY HandedClose DEF WriteInv, HandedInv, Sound
<1>1. UNCHANGED <<peer, stage, got, pos, refused>> /\ (wr' = wr \/ wr' # "open")
  BY DEF write_empty, flush, shutdown, peerVars, Closing, check_write, complete_io, Ret
<1>2. CASE write_empty
  <2>1. PICK y : y = t' /\ (y = t \/ y = [t EXCEPT !.shut = TRUE])
    BY <1>2 DEF write_empty
  <2>2. CASE y = t
    BY <1>0, <1>1, <2>1, <2>2, SteadySame, OnwardSelf, CallWrites
  <2>3. CASE y = [t EXCEPT !.shut = TRUE]
    <3>1. Steady(t, y)
      BY <1>0, <2>3, ShutDown
    <3>2. y = [rx |-> t.rx, eof |-> t.eof, hs |-> t.hs, plain |-> t.plain,
               notified |-> t.notified, outq |-> t.outq, held |-> t.held, tx |-> t.tx, shut |-> TRUE]
      BY <1>0, <2>3 DEF Typed
    <3>3. /\ y.rx = t.rx /\ y.hs = t.hs /\ y.held = t.held /\ y.eof = t.eof
          /\ y.tx = t.tx /\ y.outq = t.outq
      BY <3>2
    <3>4. Queued(y) = Queued(t) /\ Onward(t, t, stage)
      BY <1>0, <3>3, OnwardSelf DEF Queued
    <3>5. Onward(t, y, stage)
      BY <3>3, <3>4, OnwardSame
    <3>. QED
      BY <1>0, <1>1, <2>1, <3>1, <3>5, CallWrites
  <2>. QED
    BY <2>1, <2>2, <2>3
<1>3. CASE flush
  <2>1. PICK w : w = check_write(t).s /\ t' = w
    BY <1>3 DEF flush
  <2>2. Steady(t, w)
    BY <1>0, <2>1, CheckWrite
  <2>3. /\ w.rx = t.rx /\ w.eof = t.eof /\ w.hs = t.hs /\ w.held = t.held
        /\ w.tx \o w.outq = t.tx \o t.outq
    BY <1>0, <2>1, CheckWriteKeeps
  <2>4. Queued(w) = Queued(t) /\ Onward(t, t, stage)
    BY <1>0, <2>3, OnwardSelf DEF Queued
  <2>5. Onward(t, w, stage)
    BY <2>3, <2>4, OnwardSame
  <2>. QED
    BY <1>0, <1>1, <2>1, <2>2, <2>5, CallWrites
<1>4. CASE shutdown
  <2>1. PICK c \in complete_io(t) : t' = c.s
    BY <1>4 DEF shutdown
  <2>2. Steady(t, c.s) /\ Onward(t, c.s, stage)
    BY <1>0, CompleteIo, IoOnward
  <2>. QED
    BY <1>0, <1>1, <2>1, <2>2, CallWrites
<1>. QED
  BY <1>2, <1>3, <1>4

\* A record has come: what is among the records, and how many hellos.
LEMMA HasSent ==
  ASSUME NEW q \in Seq(Records), NEW r \in Records
  PROVE  /\ \A k : Has(Append(q, r), k) <=> Has(q, k) \/ r.kind = k
         /\ Once(q) /\ (r.kind = "hello" => ~ Has(q, "hello")) => Once(Append(q, r))
<1>. DEFINE z == Append(q, r)
<1>1. PICK n \in Nat : n = Len(q) /\ DOMAIN q = 1..n
  BY LenProperties
<1>2. DOMAIN z = 1..(n + 1) /\ z[n + 1] = r /\ \A i \in 1..n : z[i] = q[i]
  <2>1. /\ z \in Seq(Records) /\ Len(z) = Len(q) + 1 /\ z[Len(q) + 1] = r
        /\ \A i \in 1..Len(q) : z[i] = q[i]
    BY AppendProperties
  <2>2. DOMAIN z = 1..Len(z)
    BY <2>1, LenProperties
  <2>. QED
    BY <1>1, <2>1, <2>2
<1>. HIDE DEF z
<1>3. \A i \in DOMAIN z : (i \in DOMAIN q /\ z[i] = q[i]) \/ (i = n + 1 /\ z[i] = r)
  BY <1>1, <1>2
<1>4. (\A i \in DOMAIN q : i \in DOMAIN z /\ z[i] = q[i]) /\ n + 1 \in DOMAIN z
  BY <1>1, <1>2
<1>5. \A k : Has(z, k) <=> Has(q, k) \/ r.kind = k
  BY <1>2, <1>3, <1>4 DEF Has
<1>6. ASSUME Once(q), r.kind = "hello" => ~ Has(q, "hello") PROVE Once(z)
  BY <1>3, <1>6 DEF Once, Has
<1>. QED
  BY <1>5, <1>6 DEF z

\* A peer that sends.
LEMMA WriteSend ==
  ASSUME WriteInv, HandedInv', NEW r \in Records, Send(r), peer = "open",
         stage # "mute" /\ stage' # "new" /\ r.kind # "flight",
         r.kind = "hello" => stage = "new" /\ stage' = "hello",
         r.kind = "finished" => stage = "flight" /\ stage' = "data",
         r.kind \notin {"hello", "finished"} => stage' \in {stage, "mute"},
         UNCHANGED <<peer, got, pos, wr, refused>>
  PROVE  WriteInv'
<1>0. /\ Typed(t) /\ t.rx \in Seq(Records) /\ Greeting(t, stage) /\ t.hs \in 0..2
      /\ stage = "new" => ~ Has(t.rx, "finished")
  BY DEF WriteInv, HandedInv, Sound, Typed, InOrder
<1>1. PICK q : q = Append(t.rx, r)
  OBVIOUS
<1>2. t' = [rx |-> q, eof |-> t.eof, hs |-> t.hs, plain |-> t.plain, notified |-> t.notified,
            outq |-> t.outq, held |-> t.held, tx |-> t.tx, shut |-> t.shut]
  <2>1. t' = [t EXCEPT !.rx = q]
    BY <1>1 DEF Send
  <2>. QED
    BY <1>0, <2>1 DEF Typed
<1>3. /\ t'.rx = q /\ t'.eof = t.eof /\ t'.hs = t.hs /\ t'.outq = t.outq /\ t'.held = t.held
      /\ t'.tx = t.tx
  BY <1>2
<1>4. /\ \A k : Has(q, k) <=> Has(t.rx, k) \/ r.kind = k
      /\ Once(t.rx) /\ (r.kind = "hello" => ~ Has(t.rx, "hello")) => Once(q)
  BY <1>0, <1>1, HasSent
<1>5. Queued(t') = Queued(t)
  BY <1>3 DEF Queued
<1>6. Greeting(t', stage')
  <2>1. Once(q)
    BY <1>0, <1>4 DEF Greeting
  <2>2. Has(q, "hello") => t.hs = 0 /\ stage' \in {"hello", "mute"} /\ ~ Has(q, "finished")
    <3>1. CASE r.kind = "hello"
      BY <1>0, <1>4, <3>1 DEF Greeting
    <3>2. CASE r.kind # "hello"
      BY <1>0, <1>4, <3>2 DEF Greeting
    <3>. QED
      BY <3>1, <3>2
  <2>3. Has(q, "finished") => t.hs # 0
    BY <1>0, <1>4 DEF Greeting
  <2>4. stage' \in {"flight", "data"} => t.hs # 0
    BY <1>0 DEF Greeting
  <2>5. ~ t.eof => t.held = <<>>
    BY <1>0 DEF Greeting
  <2>. QED
    BY <1>3, <2>1, <2>2, <2>3, <2>4, <2>5 DEF Greeting
<1>7. t.hs < 2 => Early(t', stage')
  <2>. SUFFICES ASSUME t.hs < 2 PROVE Early(t', stage')
    OBVIOUS
  <2>1. Early(t, stage)
    BY DEF WriteInv
  <2>2. CASE r.kind \in {"hello", "finished"}
    <3>1. Queued(t) = <<>>
      BY <1>0, <2>1, <2>2 DEF Early
    <3>. QED
      BY <1>5, <3>1 DEF Early
  <2>3. CASE r.kind \notin {"hello", "finished"}
    BY <1>3, <1>4, <1>5, <2>1, <2>3 DEF Early
  <2>. QED
    BY <2>2, <2>3
<1>8. peer' = peer /\ got' = got /\ pos' = pos /\ wr' = wr /\ refused' = refused
  OBVIOUS
<1>. QED
  BY <1>3, <1>5, <1>6, <1>7, <1>8 DEF WriteInv

\* The peer reads during the handshake: there is only the flight to read.
LEMMA EarlyRead ==
  ASSUME NEW x \in Seq(Records), NEW o \in Seq(Records), x # <<>>, NEW r \in Records,
         x \o o = <<r>>
  PROVE  Head(x) = r /\ Tail(x) = <<>> /\ o = <<>>
<1>1. PICK m \in Nat, n \in Nat : m = Len(x) /\ n = Len(o) /\ m # 0
  BY LenProperties, EmptySeq
<1>2. PICK c : c = x \o o
  OBVIOUS
<1>3. Len(c) = m + n /\ \A i \in 1..(m + n) : c[i] = IF i <= m THEN x[i] ELSE o[i - m]
  BY <1>1, <1>2, ConcatProperties
<1>4. Len(c) = 1 /\ c[1] = r
  BY <1>2
<1>5. m = 1 /\ n = 0
  BY <1>1, <1>3, <1>4
<1>6. x[1] = r
  BY <1>3, <1>4, <1>5
<1>7. Head(x) = x[1] /\ Tail(x) \in Seq(Records) /\ Len(Tail(x)) = 0
  <2>1. Head(x) = x[1]
    OBVIOUS
  <2>2. Tail(x) \in Seq(Records) /\ Len(Tail(x)) = Len(x) - 1
    BY HeadTailProperties
  <2>3. Len(x) = 1
    BY <1>1, <1>5
  <2>. QED
    BY <2>1, <2>2, <2>3
<1>. QED
  BY <1>1, <1>5, <1>6, <1>7, EmptySeq

\* The peer reads: what was written stays the same, with one more of it received.
LEMMA WritePeerRead == WriteInv /\ PeerRead => WriteInv'
<1>. SUFFICES ASSUME WriteInv, PeerRead PROVE WriteInv'
  OBVIOUS
<1>0. /\ HandedInv' /\ Typed(t) /\ Greeting(t, stage) /\ t.hs \in 0..2 /\ got \in Seq(Nat)
      /\ refused \in Seq(Nat) /\ pos \in Nat
  BY HandedPeer DEF WriteInv, HandedInv, Sound, Typed, Peer
<1>1. /\ peer # "reset" /\ peer' = peer /\ t.tx # <<>> /\ t' = [t EXCEPT !.tx = Tail(@)]
      /\ stage' = IF Head(t.tx).kind = "flight" /\ stage = "hello" THEN "flight" ELSE stage
      /\ got' = IF Head(t.tx).kind = "data" THEN Append(got, Head(t.tx).val) ELSE got
      /\ pos' = pos /\ wr' = wr /\ refused' = refused
  BY DEF PeerRead, streamVars
<1>2. PICK x \in Seq(Records), o \in Seq(Records) : x = t.tx /\ o = t.outq /\ x # <<>>
  BY <1>0, <1>1 DEF Typed
<1>3. PICK r \in Records, q \in Seq(Records) : r = Head(x) /\ q = Tail(x)
  <2>1. Head(x) \in Records /\ Tail(x) \in Seq(Records)
    BY <1>2, HeadTailProperties
  <2>. QED
    BY <2>1
<1>4. t' = [rx |-> t.rx, eof |-> t.eof, hs |-> t.hs, plain |-> t.plain,
            notified |-> t.notified, outq |-> t.outq, held |-> t.held, tx |-> q, shut |-> t.shut]
  <2>1. t' = [t EXCEPT !.tx = q]
    BY <1>1, <1>2, <1>3
  <2>. QED
    BY <1>0, <2>1 DEF Typed
<1>5. /\ t'.rx = t.rx /\ t'.eof = t.eof /\ t'.hs = t.hs /\ t'.outq = o /\ t'.held = t.held
      /\ t'.tx = q
  BY <1>2, <1>4
<1>6. Queued(t) = x \o o /\ Queued(t') = q \o o
  BY <1>2, <1>5 DEF Queued
<1>7. CASE t.hs < 2
  <2>1. Early(t, stage) /\ got = <<>> /\ (~ t.eof => pos = 0)
    BY <1>1, <1>7 DEF WriteInv
  <2>2. x \o o # <<>>
    BY <1>2, ConcatEqualIffEmpty
  <2>3. /\ Queued(t) = <<Rec("flight", 0)>> /\ t.hs = 1
        /\ stage \in {"hello", "mute"} /\ ~ Has(t.rx, "finished")
    BY <1>6, <2>1, <2>2 DEF Early
  <2>4. PICK f \in Records : f = Rec("flight", 0) /\ f.kind = "flight"
    <3>1. Rec("flight", 0) \in Records /\ Rec("flight", 0).kind = "flight"
      BY DEF Rec, Records
    <3>. QED
      BY <3>1
  <2>5. r = f /\ q = <<>> /\ o = <<>>
    <3>1. x \o o = <<f>>
      BY <1>6, <2>3, <2>4
    <3>2. Head(x) = f /\ Tail(x) = <<>> /\ o = <<>>
      BY <1>2, <3>1, EarlyRead
    <3>. QED
      BY <1>3, <3>2
  <2>6. got' = got /\ stage' \in {"flight", "mute"}
    BY <1>1, <1>2, <1>3, <2>3, <2>4, <2>5
  <2>7. Queued(t') = <<>>
    <3>1. <<>> \in Seq(Records)
      BY EmptySeq
    <3>. QED
      BY <1>6, <2>5, <3>1, ConcatEmptySeq
  <2>8. Greeting(t', stage')
    BY <1>0, <1>5, <2>3, <2>6 DEF Greeting
  <2>9. Early(t', stage') /\ t'.hs # 2
    BY <1>5, <2>3, <2>7 DEF Early
  <2>. QED
    BY <1>0, <1>1, <1>5, <2>1, <2>6, <2>8, <2>9 DEF WriteInv
<1>8. CASE t.hs = 2
  <2>1. Chain(Sent(got) \o Queued(t), pos, wr, refused)
    BY <1>1, <1>8 DEF WriteInv
  <2>2. PICK a \in Seq(Records) : a = Sent(got)
    <3>1. Sent(got) \in Seq(Records)
      BY <1>0, SentType
    <3>. QED
      BY <3>1
  <2>3. r = Rec("data", r.val)
    <3>1. PICK P : P = a \o (x \o o) /\ Chain(P, pos, wr, refused)
      BY <1>6, <2>1, <2>2
    <3>2. PICK m \in Nat, k \in Nat, n \in Nat : m = Len(a) /\ k = Len(x) /\ n = Len(o) /\ k # 0
      BY <1>2, LenProperties, EmptySeq
    <3>3. PICK h \in Seq(Records) : h = x \o o /\ Len(h) = k + n /\ h[1] = r
      <4>1. /\ x \o o \in Seq(Records) /\ Len(x \o o) = k + n
            /\ \A i \in 1..(k + n) : (x \o o)[i] = IF i <= k THEN x[i] ELSE o[i - k]
        BY <3>2, ConcatProperties
      <4>2. (x \o o)[1] = x[1]
        BY <3>2, <4>1
      <4>3. x[1] = r
        BY <1>2, <1>3, HeadTailProperties
      <4>. QED
        BY <4>1, <4>2, <4>3
    <3>4. /\ a \o h \in Seq(Records) /\ Len(a \o h) = m + (k + n)
          /\ \A i \in 1..(m + (k + n)) : (a \o h)[i] = IF i <= m THEN a[i] ELSE h[i - m]
      BY <3>2, <3>3, ConcatProperties
    <3>5. P = a \o h
      BY <3>1, <3>3
    <3>6. m + 1 \in 1..(m + (k + n)) /\ ~ (m + 1 <= m) /\ (m + 1) - m = 1
      BY <3>2
    <3>7. P[m + 1] = r
      BY <3>3, <3>4, <3>5, <3>6
    <3>8. DOMAIN P = 1..(m + (k + n))
      BY <3>4, <3>5, LenProperties
    <3>9. P[m + 1] = Rec("data", P[m + 1].val)
      BY <3>1, <3>6, <3>8 DEF Chain
    <3>. QED
      BY <3>7, <3>9
  <2>4. PICK v \in Nat : v = r.val
    BY DEF Records
  <2>5. r.kind = "data" /\ r = Rec("data", v)
    BY <2>3, <2>4 DEF Rec
  <2>6. got' = Append(got, v) /\ stage' = stage
    BY <1>1, <1>2, <1>3, <2>4, <2>5
  <2>7. Append(got, v) \in Seq(Nat) /\ Sent(Append(got, v)) = Append(a, r)
    BY <1>0, <2>2, <2>5, SentAppend, AppendProperties
  <2>8. Append(a, Head(x)) \o (Tail(x) \o o) = a \o (x \o o)
    BY <1>2, MoveJoin
  <2>9. Sent(Append(got, v)) \o Queued(t') = Sent(got) \o Queued(t)
    BY <1>3, <1>6, <2>2, <2>7, <2>8, Zenon
  <2>10. Chain(Sent(got') \o Queued(t'), pos, wr, refused)
    BY <2>1, <2>6, <2>9
  <2>11. Ordered(got', refused)
    <3>1. q \o o \in Seq(Records)
      BY ConcatProperties
    <3>2. PICK g \in Seq(Nat), u \in Seq(Records) : g = got' /\ u = Queued(t')
      BY <1>6, <2>6, <2>7, <3>1
    <3>3. Chain(Sent(g) \o u, pos, wr, refused)
      BY <2>10, <3>2
    <3>4. Ordered(g, refused)
      BY <1>0, <3>3, ChainOrdered
    <3>. QED
      BY <3>2, <3>4
  <2>12. Greeting(t', stage')
    BY <1>0, <1>5, <2>6 DEF Greeting
  <2>13. ~ (t'.hs < 2)
    BY <1>5, <1>8
  <2>. QED
    BY <1>0, <1>1, <2>10, <2>11, <2>12, <2>13 DEF WriteInv
<1>. QED
  BY <1>0, <1>7, <1>8

\* What the peer does.
LEMMA WritePeer == WriteInv /\ Peer => WriteInv'
<1>. SUFFICES ASSUME WriteInv, Peer PROVE WriteInv'
  OBVIOUS
<1>0. HandedInv' /\ Typed(t) /\ Greeting(t, stage) /\ t.hs \in 0..2 /\ psent \in Nat
  BY HandedPeer DEF WriteInv, HandedInv, Sound, Typed
<1>1. \A k \in {"hello", "finished", "data", "notify", "bad"} :
        \A v \in Nat : Rec(k, v) \in Records /\ Rec(k, v).kind = k
  BY DEF Rec, Records
<1>2. CASE PeerHello
  <2>1. PICK r \in Records : r = Rec("hello", 0) /\ r.kind = "hello"
    BY <1>1
  <2>2. /\ Send(r) /\ peer = "open" /\ stage = "new" /\ stage' = "hello"
        /\ UNCHANGED <<peer, got, pos, wr, refused>>
    BY <1>2, <2>1 DEF PeerHello, streamVars
  <2>. QED
    BY <1>0, <2>1, <2>2, WriteSend
<1>3. CASE PeerFinished
  <2>1. PICK r \in Records : r = Rec("finished", 0) /\ r.kind = "finished"
    BY <1>1
  <2>2. /\ Send(r) /\ peer = "open" /\ stage = "flight" /\ stage' = "data"
        /\ UNCHANGED <<peer, got, pos, wr, refused>>
    BY <1>3, <2>1 DEF PeerFinished, streamVars
  <2>. QED
    BY <1>0, <2>1, <2>2, WriteSend
<1>4. CASE PeerSend
  <2>1. PICK r \in Records : r = Rec("data", psent + 1) /\ r.kind = "data"
    <3>1. psent + 1 \in Nat
      BY <1>0
    <3>. QED
      BY <1>1, <3>1
  <2>2. /\ Send(r) /\ peer = "open" /\ stage = "data" /\ stage' = "data"
        /\ UNCHANGED <<peer, got, pos, wr, refused>>
    BY <1>4, <2>1 DEF PeerSend, streamVars
  <2>. QED
    BY <1>0, <2>1, <2>2, WriteSend
<1>5. CASE PeerLast
  <2>0. PICK k \in {"bad", "notify"} : Send(Rec(k, 0))
    BY <1>5 DEF PeerLast
  <2>1. PICK r \in Records : r = Rec(k, 0) /\ r.kind = k
    BY <1>1
  <2>2. /\ Send(r) /\ peer = "open" /\ stage # "mute" /\ stage' = "mute"
        /\ UNCHANGED <<peer, got, pos, wr, refused>>
    BY <1>5, <2>0, <2>1 DEF PeerLast, streamVars
  <2>. QED
    BY <1>0, <2>1, <2>2, WriteSend
<1>6. CASE PeerFin
  <2>1. /\ peer = "open" /\ peer' = "fin" /\ t' = t /\ stage' = stage /\ got' = got /\ pos' = pos
        /\ wr' = wr /\ refused' = refused
    BY <1>6 DEF PeerFin, streamVars
  <2>. QED
    BY <1>0, <2>1 DEF WriteInv
<1>7. CASE PeerReset
  <2>1. /\ peer' = "reset" /\ stage' = stage /\ got' = got /\ pos' = pos /\ wr' = wr
        /\ refused' = refused
    BY <1>7 DEF PeerReset, streamVars
  <2>2. PICK q \in {t.rx, <<>>} : t' = [t EXCEPT !.rx = q, !.tx = <<>>]
    BY <1>7 DEF PeerReset
  <2>3. t' = [rx |-> q, eof |-> t.eof, hs |-> t.hs, plain |-> t.plain, notified |-> t.notified,
              outq |-> t.outq, held |-> t.held, tx |-> <<>>, shut |-> t.shut]
    BY <1>0, <2>2 DEF Typed
  <2>4. t'.rx = q /\ t'.eof = t.eof /\ t'.hs = t.hs /\ t'.held = t.held
    BY <2>3
  <2>5. (\A k : Has(q, k) => Has(t.rx, k)) /\ Once(q)
    <3>1. CASE q = t.rx
      BY <1>0, <3>1 DEF Greeting
    <3>2. CASE q = <<>>
      <4>1. DOMAIN q = {}
        BY <3>2
      <4>. QED
        BY <4>1 DEF Has, Once
    <3>. QED
      BY <3>1, <3>2
  <2>6. Greeting(t', stage')
    BY <1>0, <2>1, <2>4, <2>5 DEF Greeting
  <2>. QED
    BY <1>0, <2>1, <2>4, <2>6 DEF WriteInv
<1>8. CASE PeerRead
  BY <1>8, WritePeerRead
<1>. QED
  BY <1>2, <1>3, <1>4, <1>5, <1>6, <1>7, <1>8 DEF Peer

\* The peer receives the chunks in order and without gaps, for every number of chunks and
\* records and every size of the send queue, and a chunk once more only for every write that
\* handed it to the session, found the socket full and was refused.
THEOREM WrittenOnce == Spec => []WrittenInOrder
<1>1. WriteInv /\ [Next]_vars => WriteInv'
  <2>. SUFFICES ASSUME WriteInv, [Next]_vars PROVE WriteInv'
    OBVIOUS
  <2>1. CASE UNCHANGED vars
    BY <2>1 DEF vars, WriteInv, HandedInv, Sound, Typed, Over
  <2>. QED
    BY <2>1, WriteRead, WriteWrite, WriteClose, WritePeer DEF Next, Done
<1>2. WriteInv => WrittenInOrder
  <2>1. \A c \in 1..Chunks : c \in Nat
    BY TlsAssumption DEF TlsAssumption
  <2>. QED
    BY <2>1 DEF WriteInv, Ordered, WrittenInOrder
<1>. QED
  BY WriteInit, <1>1, <1>2, PTL DEF Spec

-----------------------------------------------------------------------------
(* What is read.                                                             *)

\* The data among the records q are the n after the first lo; they carry the numbers
\* after b.
DataAt(q, lo, n, b) ==
  /\ lo + n <= Len(q)
  /\ \A i \in 1..Len(q) : /\ q[i].kind = "data" <=> lo < i /\ i <= lo + n
                          /\ q[i].kind = "data" => q[i].val = b + (i - lo)

\* The stream s when u records have been read from it and ps were sent: the session and then
\* the kernel have the numbers after u, and the end of the stream is seen after the last.
Reads(s, u, ps, st, pr) ==
  /\ s.plain \in Seq(Nat) /\ \A i \in DOMAIN s.plain : s.plain[i] = u + i
  /\ \E lo \in Nat, n \in Nat :
       /\ DataAt(s.rx, lo, n, u + Len(s.plain))
       /\ pr # "reset" => (u + Len(s.plain)) + n = ps
       /\ st # "mute" => lo + n = Len(s.rx)
  /\ s.eof => s.plain = <<>> /\ u = ps /\ pr # "open"

\* Only these fields matter.
LEMMA ReadsSame ==
  ASSUME NEW s, NEW z, NEW u, NEW ps, NEW st, NEW pr, Reads(s, u, ps, st, pr),
         z.rx = s.rx, z.plain = s.plain, z.eof = s.eof
  PROVE  Reads(z, u, ps, st, pr)
BY DEF Reads

\* The data among the records q are the c after the first lo, with the numbers after b.
DataRun(q, lo, c, b) ==
  /\ {i \in DOMAIN q : q[i].kind = "data"} = (lo + 1)..(lo + c)
  /\ \A i \in 1..c : q[lo + i].val = b + i

\* The values of such records.
LEMMA ValuesAt ==
  ASSUME NEW v, NEW lo \in Nat, NEW c \in Nat, NEW b \in Nat,
         DataRun(v, lo, c, b)
  PROVE  /\ Values(v) \in Seq(Nat) /\ Len(Values(v)) = c /\ DOMAIN Values(v) = 1..c
         /\ \A k \in 1..c : Values(v)[k] = b + k
<1>. DEFINE D == {i \in DOMAIN v : v[i].kind = "data"}
            At(k) == CHOOSE i \in D : Cardinality({j \in D : j <= i}) = k
<1>1. Values(v) = [k \in 1..Cardinality(D) |-> v[At(k)].val]
  BY DEF Values
<1>2. D = (lo + 1)..(lo + c)
  BY DEF DataRun
<1>. HIDE DEF D
<1>3. Cardinality(D) = c
  <2>1. Cardinality((lo + 1)..(lo + c)) = IF lo + 1 > lo + c THEN 0 ELSE (lo + c) - (lo + 1) + 1
    <3>1. lo + 1 \in Int /\ lo + c \in Int
      OBVIOUS
    <3>. QED
      BY <3>1, FS_Interval
  <2>2. (IF lo + 1 > lo + c THEN 0 ELSE (lo + c) - (lo + 1) + 1) = c
    OBVIOUS
  <2>. QED
    BY <1>2, <2>1, <2>2
<1>4. ASSUME NEW i \in D PROVE i \in Nat /\ Cardinality({j \in D : j <= i}) = i - lo
  <2>1. i \in Int /\ lo + 1 <= i /\ i <= lo + c
    BY <1>2
  <2>2. {j \in D : j <= i} = (lo + 1)..i
    BY <1>2, <2>1
  <2>3. Cardinality((lo + 1)..i) = IF lo + 1 > i THEN 0 ELSE i - (lo + 1) + 1
    <3>1. lo + 1 \in Int
      OBVIOUS
    <3>. QED
      BY <2>1, <3>1, FS_Interval
  <2>4. (IF lo + 1 > i THEN 0 ELSE i - (lo + 1) + 1) = i - lo
    BY <2>1
  <2>. QED
    <3>1. i \in Nat
      BY <2>1
    <3>2. Cardinality({j \in D : j <= i}) = i - lo
      BY <2>2, <2>3, <2>4, Zenon
    <3>. QED
      BY <3>1, <3>2
<1>5. ASSUME NEW k \in 1..c PROVE At(k) = lo + k
  <2>1. lo + k \in D /\ (lo + k) - lo = k
    BY <1>2
  <2>2. Cardinality({j \in D : j <= lo + k}) = k
    BY <1>4, <2>1
  <2>3. At(k) \in D /\ Cardinality({j \in D : j <= At(k)}) = k
    BY <2>1, <2>2
  <2>. HIDE DEF At
  <2>4. At(k) \in Nat /\ At(k) - lo = k
    BY <1>4, <2>3
  <2>. QED
    BY <2>4
<1>. HIDE DEF At
<1>6. ASSUME NEW k \in 1..c PROVE v[At(k)].val = b + k
  BY <1>5 DEF DataRun
<1>. DEFINE w == [k \in 1..c |-> b + k]
<1>7. Values(v) = w
  BY <1>1, <1>3, <1>6
<1>8. w \in Seq(Nat)
  <2>1. \A k \in 1..c : b + k \in Nat
    OBVIOUS
  <2>. QED
    BY <2>1, IsASeq
<1>9. DOMAIN w = 1..c /\ Len(w) = c /\ \A k \in 1..c : w[k] = b + k
  OBVIOUS
<1>. HIDE DEF w
<1>. QED
  BY <1>7, <1>8, <1>9

\* Reading the first k records into an empty session.
LEMMA TakeReads ==
  ASSUME NEW s, NEW st, NEW pr, NEW u \in Nat, NEW ps \in Nat, Sound(s, st, pr),
         Reads(s, u, ps, st, pr), s.eof = FALSE, s.plain = <<>>, NEW k \in 0..Len(s.rx),
         NEW z, z = Take(s, k)
  PROVE  Reads(z, u, ps, st, pr)
<1>. DEFINE p == SubSeq(s.rx, 1, k)
            v == Valid(p)
            x == SubSeq(s.rx, k + 1, Len(s.rx))
<1>0. Typed(s) /\ s.rx \in Seq(Records) /\ Len(s.plain) = 0 /\ InOrder(s.rx, s.hs, st, pr)
  BY DEF Sound, Typed
<1>1. PICK L \in Nat : L = Len(s.rx) /\ DOMAIN s.rx = 1..L /\ k \in 0..L
  BY <1>0, LenProperties
<1>2. PICK lo \in Nat, n \in Nat :
        /\ lo + n <= L
        /\ \A i \in 1..L : /\ s.rx[i].kind = "data" <=> lo < i /\ i <= lo + n
                           /\ s.rx[i].kind = "data" => s.rx[i].val = u + (i - lo)
        /\ pr # "reset" => u + n = ps
        /\ st # "mute" => lo + n = L
  <2>1. u + 0 = u
    OBVIOUS
  <2>2. PICK lo \in Nat, n \in Nat :
        /\ DataAt(s.rx, lo, n, u)
        /\ pr # "reset" => u + n = ps
        /\ st # "mute" => lo + n = Len(s.rx)
    BY <1>0, <2>1 DEF Reads
  <2>. QED
    BY <1>1, <2>2 DEF DataAt
<1>3. z.rx = x /\ z.eof = FALSE
  BY <1>0, TakeFields
<1>4. z.plain = IF Has(v, "data") THEN s.plain \o Values(v) ELSE s.plain
  <2>1. PICK w : w = v /\ w = Valid(SubSeq(s.rx, 1, k))
    OBVIOUS
  <2>. HIDE DEF v
  <2>2. z.plain = IF Has(w, "data") THEN s.plain \o Values(w) ELSE s.plain
    BY <1>0, <2>1, TakeSession
  <2>. QED
    BY <2>1, <2>2
<1>5. Len(x) = L - k /\ \A i \in 1..(L - k) : x[i] = s.rx[k + i]
  BY <1>0, <1>1, Suffix
<1>6. PICK m \in 0..k : /\ DOMAIN v = 1..m /\ \A i \in 1..m : v[i] = s.rx[i]
                        /\ m = k \/ (m + 1 = L /\ s.rx[m + 1].kind = "bad")
  <2>1. p \in Seq(Records) /\ Len(p) = k /\ \A i \in 1..k : p[i] = s.rx[i]
    BY <1>0, Prefix
  <2>2. PICK m \in 0..Len(p) : /\ DOMAIN v = 1..m /\ \A i \in 1..m : v[i] = p[i]
                               /\ m = Len(p) \/ (m + 1 \in 1..Len(p) /\ p[m + 1].kind = "bad")
    BY <2>1, ValidRecords
  <2>. HIDE DEF p, v
  <2>3. \A i \in 1..m : i \in 1..k
    BY <2>1
  <2>4. m + 1 \in 1..k /\ p[m + 1].kind = "bad" => m + 1 = L /\ s.rx[m + 1].kind = "bad"
    BY <1>0, <1>1, <2>1 DEF InOrder
  <2>. QED
    BY <2>1, <2>2, <2>3, <2>4
<1>. HIDE DEF p, v, x
<1>7. PICK c \in Nat : c = IF k <= lo THEN 0 ELSE IF k >= lo + n THEN n ELSE k - lo
  <2>1. (IF k <= lo THEN 0 ELSE IF k >= lo + n THEN n ELSE k - lo) \in Nat
    BY <1>1
  <2>. QED
    BY <2>1
<1>8. \A i \in 1..k : s.rx[i].kind = "data" => i \in 1..m
  <2>. SUFFICES ASSUME NEW i \in 1..k, s.rx[i].kind = "data", i \notin 1..m PROVE FALSE
    OBVIOUS
  <2>1. m # k
    OBVIOUS
  <2>2. m + 1 = L /\ s.rx[m + 1].kind = "bad"
    BY <1>6, <2>1
  <2>3. i = m + 1
    BY <1>1, <2>2
  <2>. QED
    BY <2>2, <2>3
<1>9. {i \in DOMAIN v : v[i].kind = "data"} = (lo + 1)..(lo + c)
  <2>1. \A i \in DOMAIN v : v[i].kind = "data" => i \in (lo + 1)..(lo + c)
    <3>. SUFFICES ASSUME NEW i \in 1..m, s.rx[i].kind = "data" PROVE i \in (lo + 1)..(lo + c)
      BY <1>6
    <3>1. i \in 1..L /\ i <= k
      BY <1>1
    <3>2. lo < i /\ i <= lo + n
      BY <1>2, <3>1
    <3>. QED
      BY <1>1, <1>7, <3>1, <3>2
  <2>2. \A i \in (lo + 1)..(lo + c) : i \in DOMAIN v /\ v[i].kind = "data"
    <3>. SUFFICES ASSUME NEW i \in (lo + 1)..(lo + c) PROVE i \in DOMAIN v /\ v[i].kind = "data"
      OBVIOUS
    <3>1. i \in 1..k /\ lo < i /\ i <= lo + n
      BY <1>1, <1>7
    <3>2. i \in 1..L
      BY <1>1, <3>1
    <3>3. s.rx[i].kind = "data"
      BY <1>2, <3>1, <3>2
    <3>. QED
      BY <1>6, <1>8, <3>1, <3>3
  <2>. QED
    BY <2>1, <2>2
<1>10. ASSUME NEW i \in 1..c PROVE v[lo + i].val = u + i
  <2>1. lo + i \in (lo + 1)..(lo + c) /\ (lo + i) - lo = i
    OBVIOUS
  <2>2. lo + i \in DOMAIN v /\ v[lo + i].kind = "data"
    BY <1>9, <2>1
  <2>3. lo + i \in 1..L
    BY <1>1, <1>6, <2>2
  <2>4. v[lo + i] = s.rx[lo + i]
    BY <1>6, <2>2
  <2>5. s.rx[lo + i].val = u + ((lo + i) - lo)
    BY <1>2, <2>2, <2>3, <2>4
  <2>. QED
    BY <2>1, <2>4, <2>5
<1>11. /\ Values(v) \in Seq(Nat) /\ Len(Values(v)) = c
       /\ \A i \in DOMAIN Values(v) : Values(v)[i] = u + i
  <2>1. DataRun(v, lo, c, u)
    BY <1>9, <1>10 DEF DataRun
  <2>2. /\ Values(v) \in Seq(Nat) /\ Len(Values(v)) = c /\ DOMAIN Values(v) = 1..c
        /\ \A i \in 1..c : Values(v)[i] = u + i
    BY <2>1, ValuesAt
  <2>. QED
    BY <2>2
<1>12. z.plain \in Seq(Nat) /\ Len(z.plain) = c /\ \A i \in DOMAIN z.plain : z.plain[i] = u + i
  <2>1. CASE Has(v, "data")
    <3>1. PICK w \in Seq(Nat) : w = Values(v)
      BY <1>11
    <3>2. <<>> \o w = w
      BY ConcatEmptySeq
    <3>3. z.plain = Values(v)
      BY <1>4, <2>1, <3>1, <3>2
    <3>. QED
      BY <1>11, <3>3
  <2>2. CASE ~ Has(v, "data")
    <3>1. z.plain = <<>>
      BY <1>4, <2>2
    <3>2. c = 0
      <4>1. \A i \in (lo + 1)..(lo + c) : FALSE
        BY <1>9, <2>2 DEF Has
      <4>2. c # 0 => lo + 1 \in (lo + 1)..(lo + c)
        OBVIOUS
      <4>. QED
        BY <4>1, <4>2
    <3>3. <<>> \in Seq(Nat) /\ Len(<<>>) = 0 /\ DOMAIN <<>> = {}
      BY EmptySeq
    <3>. QED
      BY <3>1, <3>2, <3>3
  <2>. QED
    BY <2>1, <2>2
<1>13. PICK lp \in Nat, np \in Nat :
         /\ lp = IF k <= lo THEN lo - k ELSE 0
         /\ np = n - c
  <2>1. (IF k <= lo THEN lo - k ELSE 0) \in Nat /\ n - c \in Nat
    BY <1>1, <1>7
  <2>. QED
    BY <2>1
<1>14. lp + np <= L - k /\ (u + c) + np = u + n /\ (lo + n = L => lp + np = L - k)
  <2>1. k \in 0..L /\ lo + n <= L
    BY <1>1, <1>2
  <2>. QED
    BY <1>7, <1>13, <2>1
<1>15. ASSUME NEW i \in 1..(L - k)
       PROVE  /\ x[i].kind = "data" <=> lp < i /\ i <= lp + np
              /\ x[i].kind = "data" => x[i].val = (u + c) + (i - lp)
  <2>0. k \in 0..L
    BY <1>1
  <2>1. k + i \in 1..L /\ x[i] = s.rx[k + i]
    <3>1. k + i \in 1..L
      BY <2>0
    <3>. QED
      BY <1>5, <3>1
  <2>2. /\ s.rx[k + i].kind = "data" <=> lo < k + i /\ k + i <= lo + n
        /\ s.rx[k + i].kind = "data" => s.rx[k + i].val = u + ((k + i) - lo)
    BY <1>2, <2>1
  <2>3. (lo < k + i /\ k + i <= lo + n) <=> (lp < i /\ i <= lp + np)
    BY <2>0, <1>7, <1>13
  <2>4. lo < k + i /\ k + i <= lo + n => u + ((k + i) - lo) = (u + c) + (i - lp)
    BY <2>0, <1>7, <1>13
  <2>. QED
    BY <2>1, <2>2, <2>3, <2>4
<1>16. DataAt(z.rx, lp, np, u + Len(z.plain))
  BY <1>3, <1>5, <1>12, <1>14, <1>15 DEF DataAt
<1>17. /\ pr # "reset" => (u + Len(z.plain)) + np = ps
       /\ st # "mute" => lp + np = Len(z.rx)
  BY <1>2, <1>3, <1>5, <1>12, <1>14
<1>. QED
  BY <1>3, <1>12, <1>16, <1>17 DEF Reads

\* check_read: the end of the stream is seen when neither the session nor the kernel has data.
LEMMA ReadReads ==
  ASSUME NEW s, NEW st, NEW u \in Nat, NEW ps \in Nat, Sound(s, st, peer),
         Reads(s, u, ps, st, peer), peer \in {"open", "fin", "reset"}, NEW r \in check_read(s)
  PROVE  Reads(r.s, u, ps, st, peer)
<1>0. Typed(s) /\ s.rx \in Seq(Records)
  BY DEF Sound, Typed
<1>1. CASE r.s = s
  BY <1>1
<1>2. CASE /\ s.eof = FALSE /\ s.plain = <<>>
           /\ \E n \in 0..Len(s.rx) :
                \/ r.s = Take(s, n)
                \/ /\ n = Len(s.rx) /\ r.s = [Take(s, n) EXCEPT !.eof = TRUE]
                   /\ peer = "fin" /\ \A i \in 1..Len(s.rx) : s.rx[i].kind # "data"
  <2>1. PICK n \in 0..Len(s.rx) :
          \/ r.s = Take(s, n)
          \/ /\ n = Len(s.rx) /\ r.s = [Take(s, n) EXCEPT !.eof = TRUE]
             /\ peer = "fin" /\ \A i \in 1..Len(s.rx) : s.rx[i].kind # "data"
    BY <1>2
  <2>2. PICK z : z = Take(s, n)
    OBVIOUS
  <2>3. Reads(z, u, ps, st, peer)
    BY <1>2, <2>2, TakeReads
  <2>4. CASE r.s = z
    BY <2>3, <2>4
  <2>5. CASE /\ n = Len(s.rx) /\ r.s = [z EXCEPT !.eof = TRUE]
             /\ peer = "fin" /\ \A i \in 1..Len(s.rx) : s.rx[i].kind # "data"
    <3>1. PICK y : y = [z EXCEPT !.eof = TRUE]
      OBVIOUS
    <3>2. Typed(z) /\ z.rx = SubSeq(s.rx, n + 1, Len(s.rx))
      BY <1>0, <2>2, TakeFields
    <3>3. y = [rx |-> z.rx, eof |-> TRUE, hs |-> z.hs, plain |-> z.plain,
               notified |-> z.notified, outq |-> z.outq, held |-> z.held, tx |-> z.tx,
               shut |-> z.shut]
      BY <3>1, <3>2 DEF Typed
    <3>4. y.rx = z.rx /\ y.plain = z.plain
      BY <3>3
    <3>5. z.plain = <<>> /\ Len(z.rx) = 0
      <4>1. DOMAIN s.rx = 1..Len(s.rx) /\ Len(s.rx) \in Nat
        BY <1>0, LenProperties
      <4>2. ~ Has(s.rx, "data")
        BY <2>5, <4>1 DEF Has
      <4>3. ~ Has(Valid(SubSeq(s.rx, 1, n)), "data")
        BY <1>0, <4>2, HelloOnce
      <4>4. z.plain = s.plain
        BY <1>0, <2>2, <4>3, TakeFields
      <4>5. Len(z.rx) = Len(s.rx) - n
        BY <1>0, <3>2, Suffix
      <4>6. Len(z.rx) = 0
        BY <2>5, <4>1, <4>5
      <4>. QED
        BY <1>2, <4>4, <4>6
    <3>6. u = ps
      <4>1. PICK lo \in Nat, k \in Nat :
              DataAt(z.rx, lo, k, u + Len(z.plain)) /\ (u + Len(z.plain)) + k = ps
        BY <2>3, <2>5 DEF Reads
      <4>2. lo + k <= 0
        BY <3>5, <4>1 DEF DataAt
      <4>3. Len(z.plain) = 0
        BY <3>5
      <4>4. (u + 0) + k = ps
        BY <4>1, <4>3
      <4>. QED
        BY <4>2, <4>4
    <3>7. Reads(y, u, ps, st, peer)
      BY <2>3, <2>5, <3>4, <3>5, <3>6 DEF Reads
    <3>. QED
      BY <2>5, <3>1, <3>7
  <2>. QED
    BY <2>1, <2>2, <2>4, <2>5
<1>3. \/ r.s = s
      \/ /\ s.eof = FALSE /\ s.plain = <<>>
         /\ \E n \in 0..Len(s.rx) :
              \/ r.s = Take(s, n)
              \/ /\ n = Len(s.rx) /\ r.s = [Take(s, n) EXCEPT !.eof = TRUE]
                 /\ peer = "fin" /\ \A i \in 1..Len(s.rx) : s.rx[i].kind # "data"
  BY <1>0, CheckReadCases
<1>. QED
  BY <1>1, <1>2, <1>3, Zenon

\* complete_io.
LEMMA IoReads ==
  ASSUME NEW s, NEW st, NEW u \in Nat, NEW ps \in Nat, Sound(s, st, peer),
         Reads(s, u, ps, st, peer), peer \in {"open", "fin", "reset"}, NEW c \in complete_io(s)
  PROVE  Reads(c.s, u, ps, st, peer)
<1>1. PICK r \in check_read(s) : c.s = check_write(r.s).s
  BY DEF complete_io, Ret
<1>2. Reads(r.s, u, ps, st, peer) /\ Typed(r.s)
  BY ReadReads, CheckRead DEF Sound
<1>3. PICK w : w = check_write(r.s).s
  OBVIOUS
<1>4. w.rx = r.s.rx /\ w.eof = r.s.eof /\ w.plain = r.s.plain
  BY <1>2, <1>3, CheckWriteKeeps
<1>5. Reads(w, u, ps, st, peer)
  BY <1>2, <1>4, ReadsSame
<1>. QED
  BY <1>1, <1>3, <1>5

\* The inductive invariant: what was read, what the session has and what the kernel has are,
\* one after the other, what the peer sent.
ReadInv ==
  /\ HandedInv
  /\ up \in Seq(Nat) /\ \A i \in DOMAIN up : up[i] = i
  /\ Reads(t, Len(up), psent, stage, peer)
  /\ rd = "eof" => t.eof
  /\ stage \notin {"data", "mute"} => psent = 0

\* The stream starts with nothing to read.
LEMMA ReadInit == Init => ReadInv
<1>. SUFFICES ASSUME Init PROVE ReadInv
  OBVIOUS
<1>1. /\ t.rx = <<>> /\ t.eof = FALSE /\ t.plain = <<>> /\ up = <<>> /\ psent = 0 /\ rd = "open"
      /\ stage = "new" /\ peer = "open"
  BY DEF Init
<1>2. <<>> \in Seq(Nat) /\ DOMAIN <<>> = {} /\ Len(<<>>) = 0
  BY EmptySeq
<1>3. DataAt(<<>>, 0, 0, 0)
  BY <1>2 DEF DataAt
<1>4. Reads(t, 0, 0, stage, peer)
  <2>1. 0 + 0 = 0 /\ 0 \in Nat
    OBVIOUS
  <2>. QED
    BY <1>1, <1>2, <1>3, <2>1 DEF Reads
<1>. QED
  BY <1>1, <1>2, <1>4, HandedInit DEF ReadInv

\* A call that reads nothing.
LEMMA CallReads ==
  ASSUME ReadInv, HandedInv', Steady(t, t'), Reads(t', Len(up), psent, stage, peer),
         UNCHANGED <<peerVars, up>>, rd' = "eof" => rd = "eof" \/ t'.eof
  PROVE  ReadInv'
<1>1. peer' = peer /\ stage' = stage /\ psent' = psent /\ up' = up
  BY DEF peerVars
<1>2. rd' = "eof" => t'.eof
  BY DEF ReadInv, Steady
<1>. QED
  BY <1>1, <1>2 DEF ReadInv

\* The first k numbers of q, and those after them.
LEMMA Halves ==
  ASSUME NEW q \in Seq(Nat), NEW k \in 0..Len(q)
  PROVE  /\ SubSeq(q, 1, k) \in Seq(Nat) /\ Len(SubSeq(q, 1, k)) = k
         /\ \A i \in 1..k : SubSeq(q, 1, k)[i] = q[i]
         /\ SubSeq(q, k + 1, Len(q)) \in Seq(Nat) /\ Len(SubSeq(q, k + 1, Len(q))) = Len(q) - k
         /\ \A i \in 1..(Len(q) - k) : SubSeq(q, k + 1, Len(q))[i] = q[k + i]
<1>. DEFINE a == SubSeq(q, 1, k)
            b == SubSeq(q, k + 1, Len(q))
<1>1. Len(q) \in Nat
  BY LenProperties
<1>2. (\A i \in 1..k : q[i] \in Nat) /\ \A i \in (k + 1)..Len(q) : q[i] \in Nat
  BY <1>1, ElementOfSeq
<1>3. /\ a \in Seq(Nat) /\ Len(a) = IF 1 <= k THEN k - 1 + 1 ELSE 0
      /\ \A i \in 1..(k - 1 + 1) : a[i] = q[1 + i - 1]
  BY <1>1, <1>2, SubSeqProperties
<1>4. /\ b \in Seq(Nat) /\ Len(b) = IF k + 1 <= Len(q) THEN Len(q) - (k + 1) + 1 ELSE 0
      /\ \A i \in 1..(Len(q) - (k + 1) + 1) : b[i] = q[(k + 1) + i - 1]
  BY <1>1, <1>2, SubSeqProperties
<1>. HIDE DEF a, b
<1>5. Len(a) = k /\ \A i \in 1..k : a[i] = q[i]
  BY <1>1, <1>3
<1>6. Len(b) = Len(q) - k /\ \A i \in 1..(Len(q) - k) : b[i] = q[k + i]
  BY <1>1, <1>4
<1>. QED
  BY <1>3, <1>4, <1>5, <1>6 DEF a, b

\* g counts from one, and q goes on where g ends.
Follows(g, q) ==
  /\ g \in Seq(Nat) /\ q \in Seq(Nat)
  /\ \A i \in DOMAIN g : g[i] = i
  /\ \A i \in DOMAIN q : q[i] = Len(g) + i

\* The session hands over the numbers that come next.
LEMMA HandOver ==
  ASSUME NEW g, NEW q, Follows(g, q), NEW k \in 0..Len(q)
  PROVE  /\ Follows(g \o SubSeq(q, 1, k), SubSeq(q, k + 1, Len(q)))
         /\ Len(g \o SubSeq(q, 1, k)) + Len(SubSeq(q, k + 1, Len(q))) = Len(g) + Len(q)
<1>0. q \in Seq(Nat) /\ g \in Seq(Nat)
  BY DEF Follows
<1>1. PICK u \in Nat, m \in Nat : u = Len(g) /\ DOMAIN g = 1..u /\ m = Len(q) /\ DOMAIN q = 1..m
  BY <1>0, LenProperties
<1>2. k \in 0..m
  BY <1>1
<1>3. PICK a, b : a = SubSeq(q, 1, k) /\ b = SubSeq(q, k + 1, Len(q))
  OBVIOUS
<1>4. /\ a \in Seq(Nat) /\ Len(a) = k /\ \A i \in 1..k : a[i] = q[i]
      /\ b \in Seq(Nat) /\ Len(b) = m - k /\ \A i \in 1..(m - k) : b[i] = q[k + i]
  BY <1>0, <1>1, <1>3, Halves
<1>5. PICK h : h = g \o a
  OBVIOUS
<1>6. /\ h \in Seq(Nat) /\ Len(h) = u + k
      /\ \A i \in 1..(u + k) : h[i] = IF i <= u THEN g[i] ELSE a[i - u]
  <2>1. a \in Seq(Nat)
    BY <1>4
  <2>2. /\ g \o a \in Seq(Nat) /\ Len(g \o a) = Len(g) + Len(a)
        /\ \A i \in 1..(Len(g) + Len(a)) : (g \o a)[i] = IF i <= Len(g) THEN g[i] ELSE a[i - Len(g)]
    BY <1>0, <2>1, ConcatProperties
  <2>3. Len(g) = u /\ Len(a) = k
    BY <1>1, <1>4
  <2>. QED
    BY <1>5, <2>2, <2>3
<1>7. (\A i \in 1..u : g[i] = i) /\ \A i \in 1..m : q[i] = u + i
  BY <1>1 DEF Follows
<1>8. DOMAIN h = 1..(u + k) /\ DOMAIN b = 1..(m - k)
  BY <1>4, <1>6, LenProperties
<1>9. ASSUME NEW i \in 1..(u + k) PROVE h[i] = i
  <2>0. u \in Nat /\ k \in 0..m /\ i \in 1..(u + k)
    BY <1>2
  <2>1. CASE i <= u
    <3>1. i \in 1..u
      BY <2>0, <2>1
    <3>. QED
      BY <1>6, <1>7, <2>1, <3>1
  <2>2. CASE ~ (i <= u)
    <3>1. i - u \in 1..k /\ i - u \in 1..m /\ u + (i - u) = i
      BY <2>0, <2>2
    <3>2. h[i] = a[i - u]
      BY <1>6, <2>2
    <3>3. a[i - u] = q[i - u] /\ q[i - u] = u + (i - u)
      BY <1>4, <1>7, <3>1
    <3>. QED
      BY <3>1, <3>2, <3>3
  <2>. QED
    BY <2>1, <2>2
<1>10. ASSUME NEW i \in 1..(m - k) PROVE b[i] = (u + k) + i
  <2>0. u \in Nat /\ k \in 0..m
    BY <1>2
  <2>1. k + i \in 1..m /\ u + (k + i) = (u + k) + i
    BY <2>0
  <2>. QED
    BY <1>4, <1>7, <2>1
<1>11. Follows(h, b)
  BY <1>4, <1>6, <1>8, <1>9, <1>10 DEF Follows
<1>12. Len(h) + Len(b) = Len(g) + Len(q)
  <2>1. (u + k) + (m - k) = u + m
    BY <1>2
  <2>. QED
    BY <1>1, <1>4, <1>6, <2>1
<1>. QED
  BY <1>3, <1>5, <1>11, <1>12

\* read.
LEMMA ReadRead == ReadInv /\ read => ReadInv'
<1>. SUFFICES ASSUME ReadInv, read PROVE ReadInv'
  OBVIOUS
<1>0. /\ HandedInv' /\ HandedInv /\ Sound(t, stage, peer) /\ peer \in {"open", "fin", "reset"}
      /\ psent \in Nat /\ up \in Seq(Nat) /\ Len(up) \in Nat /\ UNCHANGED peerVars
  BY HandedRead, LenProperties DEF ReadInv, HandedInv, read
<1>1. PICK c \in complete_io(t) :
        \/ t' = c.s /\ up' = up /\ (rd' = "eof" => rd = "eof" \/ c.s.eof)
        \/ /\ ~ c.s.eof
           /\ \E k \in 1..Len(c.s.plain) :
                /\ up' = up \o SubSeq(c.s.plain, 1, k)
                /\ t' = [c.s EXCEPT !.plain = SubSeq(@, k + 1, Len(@))]
           /\ rd' = rd
  BY DEF read
<1>2. /\ Sound(c.s, stage, peer) /\ Steady(t, c.s) /\ Reads(c.s, Len(up), psent, stage, peer)
      /\ Typed(c.s)
  <2>1. Reads(t, Len(up), psent, stage, peer)
    BY DEF ReadInv
  <2>2. Sound(c.s, stage, peer) /\ Steady(t, c.s)
    BY <1>0, CompleteIo
  <2>3. Reads(c.s, Len(up), psent, stage, peer)
    BY <1>0, <2>1, IoReads
  <2>. QED
    BY <2>2, <2>3 DEF Sound
<1>3. CASE t' = c.s /\ up' = up /\ (rd' = "eof" => rd = "eof" \/ c.s.eof)
  BY <1>0, <1>2, <1>3, CallReads
<1>4. CASE /\ ~ c.s.eof
           /\ \E k \in 1..Len(c.s.plain) :
                /\ up' = up \o SubSeq(c.s.plain, 1, k)
                /\ t' = [c.s EXCEPT !.plain = SubSeq(@, k + 1, Len(@))]
           /\ rd' = rd
  <2>1. PICK s : s = c.s /\ s.eof = FALSE /\ Typed(s)
    BY <1>2, <1>4 DEF Typed
  <2>2. PICK k \in 1..Len(s.plain) : /\ up' = up \o SubSeq(s.plain, 1, k)
                                     /\ t' = [s EXCEPT !.plain = SubSeq(@, k + 1, Len(@))]
    BY <1>4, <2>1
  <2>3. PICK h, z : h = up' /\ z = t'
    OBVIOUS
  <2>4. h \in Seq(Nat) /\ (\A i \in DOMAIN h : h[i] = i) /\ Reads(z, Len(h), psent, stage, peer)
    <3>1. Reads(s, Len(up), psent, stage, peer) /\ Follows(up, s.plain)
      BY <1>0, <1>2, <2>1 DEF ReadInv, Reads, Follows
    <3>2. PICK b : b = SubSeq(s.plain, k + 1, Len(s.plain))
      OBVIOUS
    <3>3. h = up \o SubSeq(s.plain, 1, k) /\ z = [s EXCEPT !.plain = b]
      BY <2>2, <2>3, <3>2
    <3>4. k \in 0..Len(s.plain)
      <4>1. Len(s.plain) \in Nat
        BY <3>1, LenProperties DEF Follows
      <4>. QED
        BY <4>1
    <3>5. Follows(h, b) /\ Len(h) + Len(b) = Len(up) + Len(s.plain)
      BY <3>1, <3>2, <3>3, <3>4, HandOver
    <3>6. z = [rx |-> s.rx, eof |-> s.eof, hs |-> s.hs, plain |-> b, notified |-> s.notified,
               outq |-> s.outq, held |-> s.held, tx |-> s.tx, shut |-> s.shut]
      BY <2>1, <3>3 DEF Typed
    <3>7. z.rx = s.rx /\ z.plain = b /\ z.eof = FALSE
      BY <2>1, <3>6
    <3>8. Reads(z, Len(h), psent, stage, peer)
      BY <3>1, <3>5, <3>7 DEF Reads, Follows
    <3>. QED
      BY <3>5, <3>8 DEF Follows
  <2>5. peer' = peer /\ stage' = stage /\ psent' = psent /\ rd' = rd
    BY <1>0, <1>4 DEF peerVars
  <2>6. rd' # "eof"
    BY <2>5 DEF read
  <2>. QED
    BY <1>0, <2>3, <2>4, <2>5, <2>6 DEF ReadInv
<1>. QED
  BY <1>1, <1>3, <1>4

\* write reads for the session, and only the session writes.
LEMMA ReadWrite == ReadInv /\ write => ReadInv'
<1>. SUFFICES ASSUME ReadInv, write PROVE ReadInv'
  OBVIOUS
<1>0. /\ HandedInv' /\ HandedInv /\ Sound(t, stage, peer) /\ peer \in {"open", "fin", "reset"}
      /\ psent \in Nat /\ up \in Seq(Nat) /\ Len(up) \in Nat /\ pos \in Nat /\ Typed(t)
      /\ Reads(t, Len(up), psent, stage, peer)
  BY HandedWrite, LenProperties DEF ReadInv, HandedInv, Sound
<1>1. UNCHANGED <<peerVars, up>> /\ rd' = rd
  BY DEF write
<1>2. CASE t.eof
  <2>1. t' = t
    BY <1>2 DEF write
  <2>2. Steady(t, t')
    BY <1>0, <2>1, SteadySame
  <2>. QED
    BY <1>0, <1>1, <2>1, <2>2, CallReads
<1>3. CASE ~ t.eof
  <2>1. PICK c \in complete_io(t) : t' = c.s \/ write_rest(c.s)
    <3>1. PICK c \in complete_io(t) :
            CASE c.res = "err"     -> t' = c.s /\ wr' = "err" /\ UNCHANGED <<pos, refused>>
              [] c.res = "pending" -> t' = c.s /\ UNCHANGED <<wr, pos, refused>>
              [] c.res = "ok"      -> write_rest(c.s)
      BY <1>3 DEF write
    <3>2. c.res \in {"ok", "err", "pending"}
      BY <1>0, CompleteIo
    <3>. QED
      BY <3>1, <3>2
  <2>2. /\ Sound(c.s, stage, peer) /\ Steady(t, c.s) /\ Typed(c.s)
        /\ Reads(c.s, Len(up), psent, stage, peer)
    BY <1>0, CompleteIo, IoReads DEF Sound
  <2>3. CASE t' = c.s
    BY <1>0, <1>1, <2>2, <2>3, CallReads
  <2>4. CASE write_rest(c.s)
    <3>1. PICK k \in Nat : k = pos + 1
      BY <1>0
    <3>2. PICK y : y = session_write(c.s, k)
      OBVIOUS
    <3>3. PICK w : w = check_write(y).s
      OBVIOUS
    <3>4. t' = w
      BY <2>4, <3>1, <3>2, <3>3 DEF write_rest
    <3>5. Sound(y, stage, peer) /\ Steady(c.s, y) /\ Typed(y)
      BY <2>2, <3>2, SessionWrite DEF Sound
    <3>6. Steady(y, w)
      BY <1>0, <3>3, <3>5, CheckWrite
    <3>7. Steady(t, w)
      <4>1. Steady(c.s, w)
        BY <2>2, <3>5, <3>6, SteadyTrans
      <4>. QED
        BY <1>0, <2>2, <4>1, SteadyTrans
    <3>8. y.rx = c.s.rx /\ y.plain = c.s.plain /\ y.eof = c.s.eof
      BY <2>2, <3>2, SessionWriteKeeps
    <3>9. w.rx = y.rx /\ w.plain = y.plain /\ w.eof = y.eof
      BY <3>3, <3>5, CheckWriteKeeps
    <3>10. Reads(w, Len(up), psent, stage, peer)
      <4>1. w.rx = c.s.rx /\ w.plain = c.s.plain /\ w.eof = c.s.eof
        BY <3>8, <3>9
      <4>. QED
        BY <2>2, <4>1, ReadsSame
    <3>. QED
      BY <1>0, <1>1, <3>4, <3>7, <3>10, CallReads
  <2>. QED
    BY <2>1, <2>3, <2>4
<1>. QED
  BY <1>2, <1>3

\* The three ways to close the stream.
LEMMA ReadClose == ReadInv /\ (write_empty \/ flush \/ shutdown) => ReadInv'
<1>. SUFFICES ASSUME ReadInv, write_empty \/ flush \/ shutdown PROVE ReadInv'
  OBVIOUS
<1>0. /\ HandedInv' /\ HandedInv /\ Sound(t, stage, peer) /\ peer \in {"open", "fin", "reset"}
      /\ psent \in Nat /\ up \in Seq(Nat) /\ Len(up) \in Nat /\ Typed(t)
      /\ Reads(t, Len(up), psent, stage, peer)
  BY HandedClose, LenProperties DEF ReadInv, HandedInv, Sound
<1>1. UNCHANGED <<peerVars, up>> /\ rd' = rd
  BY DEF write_empty, flush, shutdown
<1>2. CASE write_empty
  <2>1. PICK y : y = t' /\ (y = t \/ y = [t EXCEPT !.shut = TRUE])
    BY <1>2 DEF write_empty
  <2>2. CASE y = t
    <3>1. Steady(t, t')
      BY <1>0, <2>1, <2>2, SteadySame
    <3>. QED
      BY <1>0, <1>1, <2>1, <2>2, <3>1, CallReads
  <2>3. CASE y = [t EXCEPT !.shut = TRUE]
    <3>1. Steady(t, y)
      BY <1>0, <2>3, ShutDown
    <3>2. y = [rx |-> t.rx, eof |-> t.eof, hs |-> t.hs, plain |-> t.plain,
               notified |-> t.notified, outq |-> t.outq, held |-> t.held, tx |-> t.tx, shut |-> TRUE]
      BY <1>0, <2>3 DEF Typed
    <3>3. y.rx = t.rx /\ y.plain = t.plain /\ y.eof = t.eof
      BY <3>2
    <3>4. Reads(y, Len(up), psent, stage, peer)
      BY <1>0, <3>3, ReadsSame
    <3>. QED
      BY <1>0, <1>1, <2>1, <3>1, <3>4, CallReads
  <2>. QED
    BY <2>1, <2>2, <2>3
<1>3. CASE flush
  <2>1. PICK w : w = check_write(t).s /\ t' = w
    BY <1>3 DEF flush
  <2>2. Steady(t, w)
    BY <1>0, <2>1, CheckWrite
  <2>3. w.rx = t.rx /\ w.plain = t.plain /\ w.eof = t.eof
    BY <1>0, <2>1, CheckWriteKeeps
  <2>4. Reads(w, Len(up), psent, stage, peer)
    BY <1>0, <2>3, ReadsSame
  <2>. QED
    BY <1>0, <1>1, <2>1, <2>2, <2>4, CallReads
<1>4. CASE shutdown
  <2>1. PICK c \in complete_io(t) : t' = c.s
    BY <1>4 DEF shutdown
  <2>2. Steady(t, c.s) /\ Reads(c.s, Len(up), psent, stage, peer)
    BY <1>0, CompleteIo, IoReads
  <2>. QED
    BY <1>0, <1>1, <2>1, <2>2, CallReads
<1>. QED
  BY <1>2, <1>3, <1>4

\* One more record has come: the next number, or no data behind the data there is.
LEMMA DataSent ==
  ASSUME NEW q \in Seq(Records), NEW r \in Records, NEW lo \in Nat, NEW n \in Nat, NEW b \in Nat,
         DataAt(q, lo, n, b)
  PROVE  /\ r.kind # "data" => DataAt(Append(q, r), lo, n, b)
         /\ r.kind # "data" /\ n = 0 => DataAt(Append(q, r), Len(q) + 1, 0, b)
         /\ r.kind = "data" /\ r.val = (b + n) + 1 /\ lo + n = Len(q) => DataAt(Append(q, r), lo, n + 1, b)
<1>. DEFINE z == Append(q, r)
<1>1. PICK m \in Nat : m = Len(q)
  BY LenProperties
<1>2. Len(z) = m + 1 /\ z[m + 1] = r /\ \A i \in 1..m : z[i] = q[i]
  BY <1>1, AppendProperties
<1>. HIDE DEF z
<1>3. lo + n <= m
  BY <1>1 DEF DataAt
<1>4. \A i \in 1..m : /\ q[i].kind = "data" <=> lo < i /\ i <= lo + n
                      /\ q[i].kind = "data" => q[i].val = b + (i - lo)
  BY <1>1 DEF DataAt
<1>5. ASSUME r.kind # "data" PROVE DataAt(z, lo, n, b)
  <2>1. ASSUME NEW i \in 1..(m + 1)
        PROVE  /\ z[i].kind = "data" <=> lo < i /\ i <= lo + n
               /\ z[i].kind = "data" => z[i].val = b + (i - lo)
    <3>1. CASE i \in 1..m
      BY <1>2, <1>4, <3>1
    <3>2. CASE i = m + 1
      <4>1. z[i].kind # "data" /\ ~ (i <= lo + n)
        BY <1>2, <1>3, <1>5, <3>2
      <4>. QED
        BY <4>1
    <3>. QED
      BY <3>1, <3>2
  <2>. QED
    BY <1>2, <1>3, <2>1 DEF DataAt
<1>6. ASSUME r.kind # "data", n = 0 PROVE DataAt(z, m + 1, 0, b)
  <2>1. ASSUME NEW i \in 1..(m + 1) PROVE z[i].kind # "data" /\ ~ (m + 1 < i)
    <3>1. CASE i \in 1..m
      BY <1>2, <1>4, <1>6, <3>1
    <3>2. CASE i = m + 1
      BY <1>2, <1>6, <3>2
    <3>. QED
      BY <3>1, <3>2
  <2>. QED
    BY <1>2, <2>1 DEF DataAt
<1>7. ASSUME r.kind = "data", r.val = (b + n) + 1, lo + n = m PROVE DataAt(z, lo, n + 1, b)
  <2>1. ASSUME NEW i \in 1..(m + 1)
        PROVE  /\ z[i].kind = "data" <=> lo < i /\ i <= lo + (n + 1)
               /\ z[i].kind = "data" => z[i].val = b + (i - lo)
    <3>1. CASE i \in 1..m
      <4>1. i <= lo + n /\ i <= lo + (n + 1)
        BY <1>7, <3>1
      <4>. QED
        BY <1>2, <1>4, <3>1, <4>1
    <3>2. CASE i = m + 1
      <4>1. z[i].kind = "data" /\ z[i].val = (b + n) + 1
        BY <1>2, <1>7, <3>2
      <4>2. lo < i /\ i <= lo + (n + 1) /\ (b + n) + 1 = b + (i - lo)
        BY <1>7, <3>2
      <4>. QED
        BY <4>1, <4>2
    <3>. QED
      BY <3>1, <3>2
  <2>. QED
    BY <1>2, <1>7, <2>1 DEF DataAt
<1>. QED
  BY <1>1, <1>5, <1>6, <1>7 DEF z

\* A peer that sends: its data is numbered, and before its first it has sent none.
LEMMA ReadSend ==
  ASSUME ReadInv, HandedInv', NEW r \in Records, Send(r), peer = "open", stage # "mute",
         \/ r.kind # "data" /\ psent' = psent /\ (stage' = "mute" \/ stage \notin {"data", "mute"})
         \/ r.kind = "data" /\ r.val = psent + 1 /\ psent' = psent + 1 /\ stage' = "data",
         stage' \notin {"data", "mute"} => psent' = 0,
         UNCHANGED <<peer, up, rd>>
  PROVE  ReadInv'
<1>0. /\ Typed(t) /\ t.rx \in Seq(Records) /\ Len(up) \in Nat /\ psent \in Nat
      /\ peer' = peer /\ up' = up /\ rd' = rd /\ up \in Seq(Nat) /\ t.plain \in Seq(Nat)
  BY LenProperties DEF ReadInv, HandedInv, Sound, Typed, Reads
<1>1. PICK q : q = Append(t.rx, r)
  OBVIOUS
<1>2. t' = [rx |-> q, eof |-> t.eof, hs |-> t.hs, plain |-> t.plain, notified |-> t.notified,
            outq |-> t.outq, held |-> t.held, tx |-> t.tx, shut |-> t.shut]
  <2>1. t' = [t EXCEPT !.rx = q]
    BY <1>1 DEF Send
  <2>. QED
    BY <1>0, <2>1 DEF Typed
<1>3. t'.rx = q /\ t'.plain = t.plain /\ t'.eof = t.eof
  BY <1>2
<1>4. PICK b \in Nat : b = Len(up) + Len(t.plain)
  <2>1. Len(t.plain) \in Nat
    BY <1>0, LenProperties
  <2>. QED
    BY <1>0, <2>1
<1>5. PICK lo \in Nat, n \in Nat :
        DataAt(t.rx, lo, n, b) /\ b + n = psent /\ lo + n = Len(t.rx)
  BY <1>4 DEF ReadInv, Reads
<1>6. PICK lp \in Nat, np \in Nat :
        DataAt(q, lp, np, b) /\ b + np = psent' /\ (stage' # "mute" => lp + np = Len(q))
  <2>0. Len(q) = Len(t.rx) + 1 /\ Len(t.rx) \in Nat
    BY <1>0, <1>1, AppendProperties, LenProperties
  <2>1. /\ r.kind # "data" => DataAt(q, lo, n, b)
        /\ r.kind # "data" /\ n = 0 => DataAt(q, Len(t.rx) + 1, 0, b)
        /\ r.kind = "data" /\ r.val = (b + n) + 1 /\ lo + n = Len(t.rx) => DataAt(q, lo, n + 1, b)
    BY <1>0, <1>1, <1>5, DataSent
  <2>2. CASE r.kind # "data" /\ psent' = psent /\ stage' = "mute"
    BY <1>5, <2>1, <2>2
  <2>3. CASE r.kind # "data" /\ psent' = psent /\ stage \notin {"data", "mute"}
    <3>1. psent = 0
      BY <2>3 DEF ReadInv
    <3>2. n = 0 /\ b + 0 = psent'
      BY <1>5, <2>3, <3>1
    <3>3. DataAt(q, Len(q), 0, b) /\ Len(q) \in Nat /\ Len(q) + 0 = Len(q)
      BY <2>0, <2>1, <2>3, <3>2
    <3>. QED
      BY <3>2, <3>3
  <2>4. CASE r.kind = "data" /\ r.val = psent + 1 /\ psent' = psent + 1 /\ stage' = "data"
    <3>1. DataAt(q, lo, n + 1, b)
      BY <1>5, <2>1, <2>4
    <3>2. n + 1 \in Nat /\ b + (n + 1) = psent' /\ lo + (n + 1) = Len(q)
      BY <1>5, <2>0, <2>4
    <3>. QED
      BY <3>1, <3>2
  <2>. QED
    BY <2>2, <2>3, <2>4
<1>7. ~ t.eof
  BY DEF ReadInv, Reads
<1>8. Reads(t', Len(up), psent', stage', peer)
  BY <1>0, <1>3, <1>4, <1>6, <1>7 DEF ReadInv, Reads
<1>. QED
  BY <1>0, <1>3, <1>8 DEF ReadInv

\* What the peer does.
LEMMA ReadPeer == ReadInv /\ Peer => ReadInv'
<1>. SUFFICES ASSUME ReadInv, Peer PROVE ReadInv'
  OBVIOUS
<1>0. /\ HandedInv' /\ Typed(t) /\ psent \in Nat /\ up \in Seq(Nat) /\ Len(up) \in Nat
      /\ Reads(t, Len(up), psent, stage, peer)
  BY HandedPeer, LenProperties DEF ReadInv, HandedInv, Sound
<1>1. \A k \in {"hello", "finished", "data", "notify", "bad"} :
        \A v \in Nat : Rec(k, v) \in Records /\ Rec(k, v).kind = k /\ Rec(k, v).val = v
  BY DEF Rec, Records
<1>2. CASE PeerHello
  <2>1. PICK r \in Records : r = Rec("hello", 0) /\ r.kind = "hello"
    BY <1>1
  <2>2. /\ Send(r) /\ peer = "open" /\ stage = "new" /\ stage' = "hello" /\ psent' = psent
        /\ UNCHANGED <<peer, up, rd>>
    BY <1>2, <2>1 DEF PeerHello, streamVars
  <2>3. psent' = 0
    BY <2>2 DEF ReadInv
  <2>. QED
    BY <1>0, <2>1, <2>2, <2>3, ReadSend
<1>3. CASE PeerFinished
  <2>1. PICK r \in Records : r = Rec("finished", 0) /\ r.kind = "finished"
    BY <1>1
  <2>2. /\ Send(r) /\ peer = "open" /\ stage = "flight" /\ stage' = "data" /\ psent' = psent
        /\ UNCHANGED <<peer, up, rd>>
    BY <1>3, <2>1 DEF PeerFinished, streamVars
  <2>. QED
    BY <1>0, <2>1, <2>2, ReadSend
<1>4. CASE PeerSend
  <2>1. PICK r \in Records : r = Rec("data", psent + 1) /\ r.kind = "data" /\ r.val = psent + 1
    <3>1. psent + 1 \in Nat
      BY <1>0
    <3>. QED
      BY <1>1, <3>1
  <2>2. /\ Send(r) /\ peer = "open" /\ stage = "data" /\ stage' = "data" /\ psent' = psent + 1
        /\ UNCHANGED <<peer, up, rd>>
    BY <1>4, <2>1 DEF PeerSend, streamVars
  <2>. QED
    BY <1>0, <2>1, <2>2, ReadSend
<1>5. CASE PeerLast
  <2>0. PICK k \in {"bad", "notify"} : Send(Rec(k, 0))
    BY <1>5 DEF PeerLast
  <2>1. PICK r \in Records : r = Rec(k, 0) /\ r.kind = k
    BY <1>1
  <2>2. /\ Send(r) /\ peer = "open" /\ stage # "mute" /\ stage' = "mute" /\ psent' = psent
        /\ UNCHANGED <<peer, up, rd>>
    BY <1>5, <2>0, <2>1 DEF PeerLast, streamVars
  <2>. QED
    BY <1>0, <2>1, <2>2, ReadSend
<1>6. CASE PeerFin
  <2>1. /\ peer = "open" /\ peer' = "fin" /\ t' = t /\ stage' = stage /\ psent' = psent /\ up' = up
        /\ rd' = rd
    BY <1>6 DEF PeerFin, streamVars
  <2>2. Reads(t, Len(up), psent, stage, peer')
    BY <1>0, <2>1 DEF Reads
  <2>. QED
    BY <1>0, <2>1, <2>2 DEF ReadInv
<1>7. CASE PeerReset
  <2>1. peer' = "reset" /\ stage' = stage /\ psent' = psent /\ up' = up /\ rd' = rd
    BY <1>7 DEF PeerReset, streamVars
  <2>2. PICK q \in {t.rx, <<>>} : t' = [t EXCEPT !.rx = q, !.tx = <<>>]
    BY <1>7 DEF PeerReset
  <2>3. t' = [rx |-> q, eof |-> t.eof, hs |-> t.hs, plain |-> t.plain, notified |-> t.notified,
              outq |-> t.outq, held |-> t.held, tx |-> <<>>, shut |-> t.shut]
    BY <1>0, <2>2 DEF Typed
  <2>4. t'.rx = q /\ t'.eof = t.eof /\ t'.plain = t.plain
    BY <2>3
  <2>5. \E lo \in Nat, n \in Nat :
          /\ DataAt(q, lo, n, Len(up) + Len(t.plain))
          /\ stage # "mute" => lo + n = Len(q)
    <3>1. CASE q = t.rx
      BY <1>0, <3>1 DEF Reads
    <3>2. CASE q = <<>>
      <4>1. Len(q) = 0
        BY <3>2
      <4>2. DataAt(q, 0, 0, Len(up) + Len(t.plain))
        BY <4>1 DEF DataAt
      <4>3. 0 + 0 = Len(q) /\ 0 \in Nat
        BY <4>1
      <4>. QED
        BY <4>2, <4>3
    <3>. QED
      BY <3>1, <3>2
  <2>6. Reads(t', Len(up), psent, stage, "reset")
    BY <1>0, <2>4, <2>5 DEF Reads
  <2>. QED
    BY <1>0, <2>1, <2>4, <2>6 DEF ReadInv
<1>8. CASE PeerRead
  <2>1. /\ peer' = peer /\ t' = [t EXCEPT !.tx = Tail(@)] /\ psent' = psent /\ up' = up /\ rd' = rd
        /\ stage' = IF Head(t.tx).kind = "flight" /\ stage = "hello" THEN "flight" ELSE stage
    BY <1>8 DEF PeerRead, streamVars
  <2>2. PICK q : q = Tail(t.tx)
    OBVIOUS
  <2>3. t' = [rx |-> t.rx, eof |-> t.eof, hs |-> t.hs, plain |-> t.plain,
              notified |-> t.notified, outq |-> t.outq, held |-> t.held, tx |-> q, shut |-> t.shut]
    <3>1. t' = [t EXCEPT !.tx = q]
      BY <2>1, <2>2
    <3>. QED
      BY <1>0, <3>1 DEF Typed
  <2>4. t'.rx = t.rx /\ t'.eof = t.eof /\ t'.plain = t.plain
    BY <2>3
  <2>5. /\ stage' = "mute" <=> stage = "mute"
        /\ stage' \notin {"data", "mute"} => stage \notin {"data", "mute"}
    BY <2>1
  <2>6. Reads(t', Len(up), psent, stage', peer)
    BY <1>0, <2>4, <2>5 DEF Reads
  <2>. QED
    BY <1>0, <2>1, <2>4, <2>5, <2>6 DEF ReadInv
<1>. QED
  BY <1>2, <1>3, <1>4, <1>5, <1>6, <1>7, <1>8 DEF Peer

\* copy reads what the peer sent, in order, and is told of the end of the stream only when it
\* has read all of it, for every number of records: however many of them one read_tls
\* brings, eof is set only by a read that finds neither plaintext nor data.
THEOREM ReadAll == Spec => []ReadComplete
<1>1. ReadInv /\ [Next]_vars => ReadInv'
  <2>. SUFFICES ASSUME ReadInv, [Next]_vars PROVE ReadInv'
    OBVIOUS
  <2>1. CASE UNCHANGED vars
    BY <2>1 DEF vars, ReadInv, HandedInv, Sound, Typed, Over
  <2>. QED
    BY <2>1, ReadRead, ReadWrite, ReadClose, ReadPeer DEF Next, Done
<1>2. ReadInv => ReadComplete
  BY DEF ReadInv, Reads, ReadComplete
<1>. QED
  BY ReadInit, <1>1, <1>2, PTL DEF Spec
=============================================================================
