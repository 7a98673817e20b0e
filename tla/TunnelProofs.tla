---------------------------- MODULE TunnelProofs ----------------------------
(***************************************************************************)
(* Proofs about Tunnel, for every set of data and every buffer size.       *)
(***************************************************************************)
EXTENDS Tunnel, SequenceTheorems, TLAPS

-----------------------------------------------------------------------------
(* Sequences of data.                                                       *)

\* Concatenation stays within Seq(Data).
LEMMA CatType ==
  ASSUME NEW a \in Seq(Data), NEW b \in Seq(Data)
  PROVE  a \o b \in Seq(Data) /\ Len(a \o b) = Len(a) + Len(b)
BY ConcatProperties

\* Queues along a direction may be grouped as one likes.
LEMMA CatAssoc ==
  ASSUME NEW a \in Seq(Data), NEW b \in Seq(Data), NEW c \in Seq(Data)
  PROVE  (a \o b) \o c = a \o (b \o c)
BY ConcatAssociative

\* An empty queue adds nothing.
LEMMA CatUnit ==
  ASSUME NEW a \in Seq(Data)
  PROVE  a \o <<>> = a /\ <<>> \o a = a
BY ConcatEmptySeq

\* Cutting a queue in two loses nothing: the chunk that is moved and what stays behind.
LEMMA Split ==
  ASSUME NEW q \in Seq(Data), NEW k \in 1..Len(q)
  PROVE  /\ SubSeq(q, 1, k) \in Seq(Data)
         /\ SubSeq(q, k + 1, Len(q)) \in Seq(Data)
         /\ Len(SubSeq(q, 1, k)) = k
         /\ Len(SubSeq(q, k + 1, Len(q))) = Len(q) - k
         /\ SubSeq(q, 1, k) \o SubSeq(q, k + 1, Len(q)) = q
<1>0. Len(q) \in Nat
  BY LenProperties
<1>1. SubSeq(q, 1, k) \in Seq(Data) /\ Len(SubSeq(q, 1, k)) = k
  BY <1>0, SubSeqProperties
<1>2. SubSeq(q, k + 1, Len(q)) \in Seq(Data) /\ Len(SubSeq(q, k + 1, Len(q))) = Len(q) - k
  BY <1>0, SubSeqProperties
<1>3. SubSeq(q, 1, k) \o SubSeq(q, k + 1, Len(q)) = SubSeq(q, 1, Len(q))
  BY <1>0, ConcatAdjacentSubSeq
<1>4. SubSeq(q, 1, Len(q)) = q
  BY SubSeqFull
<1>. QED
  BY <1>1, <1>2, <1>3, <1>4

\* A sequence is a prefix of another iff the other continues it.
LEMMA PrefixIff ==
  ASSUME NEW a \in Seq(Data), NEW b \in Seq(Data)
  PROVE  IsPrefix(a, b) <=> \E r \in Seq(Data) : b = a \o r
<1>0. Len(a) \in Nat /\ Len(b) \in Nat
  BY LenProperties
<1>1. ASSUME IsPrefix(a, b) PROVE \E r \in Seq(Data) : b = a \o r
  <2>1. Len(a) <= Len(b) /\ a = SubSeq(b, 1, Len(a))
    BY <1>1, SubSeqFull DEF IsPrefix
  <2>2. CASE Len(a) = 0
    BY <2>2, EmptySeq, CatUnit
  <2>3. CASE Len(a) # 0
    <3>1. Len(a) \in 1..Len(b)
      BY <1>0, <2>1, <2>3
    <3>. DEFINE r == SubSeq(b, Len(a) + 1, Len(b))
    <3>2. r \in Seq(Data) /\ SubSeq(b, 1, Len(a)) \o r = b
      BY <3>1, Split
    <3>. HIDE DEF r
    <3>. QED
      BY <2>1, <3>2
  <2>. QED
    BY <2>2, <2>3
<1>2. ASSUME NEW r \in Seq(Data), b = a \o r PROVE IsPrefix(a, b)
  <2>1. Len(b) = Len(a) + Len(r) /\ Len(r) \in Nat
    BY <1>2, CatType, LenProperties
  <2>2. CASE Len(a) = 0
    BY <1>0, <2>1, <2>2, SubSeqEmpty DEF IsPrefix
  <2>3. CASE Len(a) # 0
    <3>1. SubSeq(a \o r, 1, Len(a)) = SubSeq(a, 1, Len(a))
      BY <1>0, <2>3, SubSeqOfConcat1
    <3>. QED
      BY <1>0, <1>2, <2>1, <3>1 DEF IsPrefix
  <2>. QED
    BY <2>2, <2>3
<1>. QED
  BY <1>1, <1>2

-----------------------------------------------------------------------------
(* Type correctness.                                                        *)

\* The two ends are different, and each is the other of the other.
LEMMA SideFacts == \A s \in Sides : Other(s) \in Sides /\ Other(s) # s /\ Other(Other(s)) = s
BY DEF Sides, Other

\* bicopy starts with empty queues.
LEMMA TypeInit == Init => TypeOK
<1>. SUFFICES ASSUME Init PROVE TypeOK
  OBVIOUS
<1>1. <<>> \in Seq(Data) /\ Len(<<>>) = 0
  BY EmptySeq
<1>. QED
  BY <1>1, TunnelAssumption DEF Init, TypeOK, TunnelAssumption

\* Every step preserves the types and keeps the copy buffer and the send queue within
\* their bounds.
LEMMA TypeNext == TypeOK /\ [Next]_vars => TypeOK'
<1>. SUFFICES ASSUME TypeOK, [Next]_vars PROVE TypeOK'
  OBVIOUS
<1>. USE SideFacts
<1>0. /\ \A s \in Sides : /\ out[s] \in Seq(Data) /\ rx[s] \in Seq(Data) /\ buf[s] \in Seq(Data)
                          /\ tx[s] \in Seq(Data) /\ got[s] \in Seq(Data)
                          /\ Len(buf[s]) \in Nat /\ Len(tx[s]) \in Nat
      /\ <<>> \in Seq(Data) /\ Len(<<>>) = 0
  BY EmptySeq, LenProperties DEF TypeOK
<1>1. CASE UNCHANGED vars
  BY <1>1 DEF TypeOK, vars, queues
<1>2. CASE AddressError \/ bicopy
  BY <1>2 DEF AddressError, bicopy, queues, TypeOK
<1>3. ASSUME NEW s \in Sides, PeerStep(s) PROVE TypeOK'
  <2>1. CASE PeerWrite(s)
    BY <2>1, AppendProperties DEF PeerWrite, TypeOK
  <2>2. CASE PeerRead(s)
    <3>1. PICK k \in 1..Len(tx[s]) :
            /\ got' = [got EXCEPT ![s] = @ \o SubSeq(tx[s], 1, k)]
            /\ tx' = [tx EXCEPT ![s] = SubSeq(@, k + 1, Len(@))]
      BY <2>2 DEF PeerRead
    <3>2. /\ got[s] \o SubSeq(tx[s], 1, k) \in Seq(Data)
          /\ SubSeq(tx[s], k + 1, Len(tx[s])) \in Seq(Data)
          /\ Len(SubSeq(tx[s], k + 1, Len(tx[s]))) = Len(tx[s]) - k
      BY <1>0, Split, CatType
    <3>3. got' \in [Sides -> Seq(Data)]
      BY <3>1, <3>2 DEF TypeOK
    <3>4. tx' \in [Sides -> Seq(Data)] /\ \A x \in Sides : Len(tx'[x]) <= SndBuf
      BY <1>0, <3>1, <3>2, TunnelAssumption DEF TypeOK, TunnelAssumption
    <3>. QED
      BY <2>2, <3>3, <3>4 DEF PeerRead, TypeOK
  <2>3. CASE PeerShutdown(s)
    BY <2>3 DEF PeerShutdown, queues, TypeOK
  <2>4. CASE PeerReset(s)
    BY <1>0, <2>4, TunnelAssumption DEF PeerReset, TypeOK, TunnelAssumption
  <2>5. CASE ClosedReset(s)
    BY <1>0, <2>5, TunnelAssumption DEF ClosedReset, TypeOK, TunnelAssumption
  <2>. QED
    BY <1>3, <2>1, <2>2, <2>3, <2>4, <2>5 DEF PeerStep
<1>4. ASSUME NEW s \in Sides, CopyStep(s) PROVE TypeOK'
  <2>1. CASE CopyRead(s)
    <3>1. PICK k \in 1..Len(rx[s]) :
            /\ Len(buf[s]) + k <= BufLen
            /\ buf' = [buf EXCEPT ![s] = @ \o SubSeq(rx[s], 1, k)]
            /\ rx' = [rx EXCEPT ![s] = SubSeq(@, k + 1, Len(@))]
      BY <2>1 DEF CopyRead
    <3>2. /\ buf[s] \o SubSeq(rx[s], 1, k) \in Seq(Data)
          /\ Len(buf[s] \o SubSeq(rx[s], 1, k)) = Len(buf[s]) + k
          /\ SubSeq(rx[s], k + 1, Len(rx[s])) \in Seq(Data)
      BY <1>0, Split, CatType
    <3>3. buf' \in [Sides -> Seq(Data)] /\ \A x \in Sides : Len(buf'[x]) <= BufLen
      BY <3>1, <3>2 DEF TypeOK
    <3>. QED
      BY <2>1, <3>1, <3>2, <3>3 DEF CopyRead, TypeOK
  <2>2. CASE CopyWrite(s)
    <3>1. PICK k \in 1..Len(buf[s]) :
            /\ Len(tx[s]) + k <= SndBuf
            /\ tx' = [tx EXCEPT ![s] = @ \o SubSeq(buf[s], 1, k)]
            /\ buf' = [buf EXCEPT ![s] = SubSeq(@, k + 1, Len(@))]
      BY <2>2 DEF CopyWrite, sink
    <3>2. /\ tx[s] \o SubSeq(buf[s], 1, k) \in Seq(Data)
          /\ Len(tx[s] \o SubSeq(buf[s], 1, k)) = Len(tx[s]) + k
          /\ SubSeq(buf[s], k + 1, Len(buf[s])) \in Seq(Data)
          /\ Len(SubSeq(buf[s], k + 1, Len(buf[s]))) = Len(buf[s]) - k
      BY <1>0, Split, CatType
    <3>3. tx' \in [Sides -> Seq(Data)] /\ \A x \in Sides : Len(tx'[x]) <= SndBuf
      BY <3>1, <3>2 DEF TypeOK
    <3>4. buf' \in [Sides -> Seq(Data)] /\ \A x \in Sides : Len(buf'[x]) <= BufLen
      BY <1>0, <3>1, <3>2, TunnelAssumption DEF TypeOK, TunnelAssumption
    <3>. QED
      BY <2>2, <3>3, <3>4 DEF CopyWrite, TypeOK
  <2>3. CASE CopyEof(s) \/ ReadError(s) \/ WriteError(s)
    BY <2>3 DEF CopyEof, ReadError, WriteError, queues, TypeOK
  <2>. QED
    BY <1>4, <2>1, <2>2, <2>3 DEF CopyStep
<1>. QED
  BY <1>1, <1>2, <1>3, <1>4 DEF Next, Finished

\* TypeOK is an invariant: the copy buffer and the send queue never exceed their sizes.
THEOREM TypeCorrect == Spec => []TypeOK
<1>. QED
  BY TypeInit, TypeNext, PTL DEF Spec

-----------------------------------------------------------------------------
(* Conservation.                                                            *)

\* Conservation for one direction.
Conserved(s) ==
  IF Live(s) THEN out[s] = (got[s] \o tx[s]) \o (buf[s] \o rx[s])
             ELSE IsPrefix(got[s] \o tx[s], out[s])

\* Nothing sent, nothing anywhere.
LEMMA ConservationInit == Init => Conservation
<1>. SUFFICES ASSUME Init, NEW s \in Sides PROVE Conserved(s)
  BY DEF Conservation, Conserved
<1>1. <<>> \in Seq(Data)
  BY EmptySeq
<1>2. <<>> \o <<>> = <<>>
  BY <1>1, CatUnit
<1>3. Live(s)
  BY SideFacts DEF Init, Live
<1>. QED
  BY <1>2, <1>3 DEF Init, Conserved

\* In either case what was delivered or is in the send queue begins what was sent.
LEMMA ConservedPrefix ==
  ASSUME TypeOK, NEW s \in Sides, Conserved(s)
  PROVE  /\ got[s] \in Seq(Data) /\ tx[s] \in Seq(Data) /\ out[s] \in Seq(Data)
         /\ \E r \in Seq(Data) : out[s] = (got[s] \o tx[s]) \o r
<1>1. /\ got[s] \in Seq(Data) /\ tx[s] \in Seq(Data) /\ out[s] \in Seq(Data)
      /\ buf[s] \in Seq(Data) /\ rx[s] \in Seq(Data)
  BY DEF TypeOK
<1>2. got[s] \o tx[s] \in Seq(Data) /\ buf[s] \o rx[s] \in Seq(Data)
  BY <1>1, CatType
<1>3. CASE Live(s)
  BY <1>1, <1>2, <1>3 DEF Conserved
<1>4. CASE ~ Live(s)
  BY <1>1, <1>2, <1>4, PrefixIff DEF Conserved
<1>. QED
  BY <1>1, <1>3, <1>4

\* A direction whose queues and ends are left alone is left conserved, also when it stops
\* being live.
LEMMA QuietDirection ==
  ASSUME TypeOK, NEW s \in Sides, Conserved(s), Live(s)' => Live(s),
         out'[s] = out[s], rx'[s] = rx[s], buf'[s] = buf[s], tx'[s] = tx[s], got'[s] = got[s]
  PROVE  Conserved(s)'
<1>1. /\ got[s] \o tx[s] \in Seq(Data) /\ out[s] \in Seq(Data)
      /\ \E r \in Seq(Data) : out[s] = (got[s] \o tx[s]) \o r
  BY ConservedPrefix, CatType
<1>2. IsPrefix(got[s] \o tx[s], out[s])
  BY <1>1, PrefixIff
<1>. QED
  BY <1>2 DEF Conserved

\* A direction whose send queue is dropped.
LEMMA DroppedQueue ==
  ASSUME TypeOK, NEW s \in Sides, Conserved(s), ~ Live(s)',
         out'[s] = out[s], tx'[s] = <<>>, got'[s] = got[s]
  PROVE  Conserved(s)'
<1>1. /\ got[s] \in Seq(Data) /\ tx[s] \in Seq(Data) /\ out[s] \in Seq(Data)
  BY ConservedPrefix
<1>2. PICK r \in Seq(Data) : out[s] = (got[s] \o tx[s]) \o r
  BY ConservedPrefix
<1>3. (got[s] \o tx[s]) \o r = got[s] \o (tx[s] \o r)
  BY <1>1, CatAssoc
<1>4. tx[s] \o r \in Seq(Data)
  BY <1>1, CatType
<1>5. got[s] \o <<>> = got[s]
  BY <1>1, CatUnit
<1>6. IsPrefix(got[s] \o <<>>, out[s])
  BY <1>1, <1>2, <1>3, <1>4, <1>5, PrefixIff
<1>. QED
  BY <1>6 DEF Conserved

\* What an end reads moves from the send queue to what it has got: together they stay.
LEMMA PeerReadKeeps ==
  ASSUME TypeOK, NEW s \in Sides, PeerRead(s)
  PROVE  got'[s] \o tx'[s] = got[s] \o tx[s]
<1>1. PICK k \in 1..Len(tx[s]) :
        /\ got' = [got EXCEPT ![s] = @ \o SubSeq(tx[s], 1, k)]
        /\ tx' = [tx EXCEPT ![s] = SubSeq(@, k + 1, Len(@))]
  BY DEF PeerRead
<1>. DEFINE p == SubSeq(tx[s], 1, k)
            q == SubSeq(tx[s], k + 1, Len(tx[s]))
<1>2. tx[s] \in Seq(Data)
  BY DEF TypeOK
<1>3. p \o q = tx[s] /\ p \in Seq(Data) /\ q \in Seq(Data)
  BY <1>1, <1>2, Split
<1>4. got'[s] = got[s] \o p /\ tx'[s] = q
  BY <1>1 DEF TypeOK
<1>. HIDE DEF p, q
<1>5. got[s] \in Seq(Data)
  BY DEF TypeOK
<1>6. (got[s] \o p) \o q = got[s] \o (p \o q)
  BY <1>3, <1>5, CatAssoc, Zenon
<1>. QED
  BY <1>3, <1>4, <1>6

\* Every step keeps both directions conserved: it moves a chunk from the head of one queue
\* to the tail of the next, or ends the direction.
LEMMA ConservationNext == TypeOK /\ Conservation /\ [Next]_vars => Conservation'
<1>. SUFFICES ASSUME TypeOK, Conservation, [Next]_vars, NEW d \in Sides PROVE Conserved(d)'
  BY DEF Conservation, Conserved
<1>0. Conserved(d)
  BY DEF Conservation, Conserved
<1>t. /\ out[d] \in Seq(Data) /\ rx[d] \in Seq(Data) /\ buf[d] \in Seq(Data)
      /\ tx[d] \in Seq(Data) /\ got[d] \in Seq(Data)
      /\ got[d] \o tx[d] \in Seq(Data) /\ buf[d] \o rx[d] \in Seq(Data)
  BY CatType DEF TypeOK
<1>g. got[d] \in Seq(Data)
  BY <1>t
<1>b. buf[d] \in Seq(Data)
  BY <1>t
<1>r. rx[d] \in Seq(Data)
  BY <1>t
<1>x. tx[d] \in Seq(Data)
  BY <1>t
<1>gx. got[d] \o tx[d] \in Seq(Data)
  BY <1>t
<1>br. buf[d] \o rx[d] \in Seq(Data)
  BY <1>t
<1>1. CASE UNCHANGED vars
  BY <1>0, <1>1, QuietDirection DEF vars, queues, Live
<1>2. CASE AddressError \/ bicopy
  BY <1>0, <1>2, QuietDirection DEF AddressError, bicopy, queues, Live
<1>3. ASSUME NEW s \in Sides, PeerStep(s) PROVE Conserved(d)'
  <2>1. CASE PeerWrite(s)
    <3>1. PICK e \in Data : /\ out' = [out EXCEPT ![s] = Append(@, e)]
                            /\ rx' = [rx EXCEPT ![s] = Append(@, e)]
      BY <2>1 DEF PeerWrite
    <3>2. /\ phase' = phase /\ copy' = copy /\ peer' = peer /\ buf' = buf /\ tx' = tx /\ got' = got
      BY <2>1 DEF PeerWrite
    <3>3. Live(d)' <=> Live(d)
      BY <3>2 DEF Live
    <3>4. CASE s # d
      BY <1>0, <3>1, <3>2, <3>3, <3>4, QuietDirection DEF TypeOK
    <3>5. CASE s = d
      <4>e. <<e>> \in Seq(Data)
        BY <1>t
      <4>1. /\ <<e>> \in Seq(Data)
            /\ out'[d] = out[d] \o <<e>> /\ rx'[d] = rx[d] \o <<e>>
        BY <1>t, <3>1, <3>5, AppendIsConcat, EmptySeq, AppendProperties DEF TypeOK
      <4>2. CASE Live(d)
        <5>1. out[d] = (got[d] \o tx[d]) \o (buf[d] \o rx[d])
          BY <1>0, <4>2 DEF Conserved
        <5>2. ((got[d] \o tx[d]) \o (buf[d] \o rx[d])) \o <<e>>
                = (got[d] \o tx[d]) \o ((buf[d] \o rx[d]) \o <<e>>)
          BY <1>gx, <1>br, <4>e, CatAssoc, Zenon
        <5>3. (buf[d] \o rx[d]) \o <<e>> = buf[d] \o (rx[d] \o <<e>>)
          BY <1>b, <1>r, <4>e, CatAssoc, Zenon
        <5>. QED
          BY <3>2, <3>3, <4>1, <4>2, <5>1, <5>2, <5>3 DEF Conserved
      <4>3. CASE ~ Live(d)
        <5>1. PICK r \in Seq(Data) : out[d] = (got[d] \o tx[d]) \o r
          BY <1>0, ConservedPrefix
        <5>2. ((got[d] \o tx[d]) \o r) \o <<e>> = (got[d] \o tx[d]) \o (r \o <<e>>)
          BY <1>gx, <4>e, CatAssoc, Zenon
        <5>3. r \o <<e>> \in Seq(Data) /\ out[d] \o <<e>> \in Seq(Data)
          BY <1>t, <4>1, CatType
        <5>4. IsPrefix(got[d] \o tx[d], out'[d])
          BY <1>t, <4>1, <5>1, <5>2, <5>3, PrefixIff
        <5>. QED
          BY <3>2, <3>3, <4>3, <5>4 DEF Conserved
      <4>. QED
        BY <4>2, <4>3
    <3>. QED
      BY <3>4, <3>5
  <2>2. CASE PeerRead(s)
    <3>1. PICK k \in 1..Len(tx[s]) :
            /\ got' = [got EXCEPT ![s] = @ \o SubSeq(tx[s], 1, k)]
            /\ tx' = [tx EXCEPT ![s] = SubSeq(@, k + 1, Len(@))]
      BY <2>2 DEF PeerRead
    <3>2. phase' = phase /\ copy' = copy /\ peer' = peer /\ out' = out /\ rx' = rx /\ buf' = buf
      BY <2>2 DEF PeerRead
    <3>3. Live(d)' <=> Live(d)
      BY <3>2 DEF Live
    <3>4. CASE s # d
      BY <1>0, <3>1, <3>2, <3>3, <3>4, QuietDirection DEF TypeOK
    <3>5. CASE s = d
      <4>4. got'[d] \o tx'[d] = got[d] \o tx[d]
        BY <2>2, <3>5, PeerReadKeeps
      <4>. QED
        BY <1>0, <3>2, <3>3, <4>4 DEF Conserved
    <3>. QED
      BY <3>4, <3>5
  <2>3. CASE PeerShutdown(s)
    <3>1. Live(d)' => Live(d)
      BY <2>3, SideFacts DEF PeerShutdown, Live, TypeOK
    <3>. QED
      BY <1>0, <2>3, <3>1, QuietDirection DEF PeerShutdown, queues
  <2>4. CASE PeerReset(s)
    <3>1. CASE d = Other(s)
      <4>1. ~ Live(d)' /\ tx'[d] = <<>>
        BY <2>4, <3>1, SideFacts DEF PeerReset, Live, TypeOK
      <4>. QED
        BY <1>0, <2>4, <4>1, DroppedQueue DEF PeerReset
    <3>2. CASE d # Other(s)
      <4>1. tx'[d] = tx[d] /\ (Live(d)' => Live(d))
        BY <2>4, <3>2, SideFacts DEF PeerReset, Live, TypeOK
      <4>. QED
        BY <1>0, <2>4, <4>1, QuietDirection DEF PeerReset
    <3>. QED
      BY <3>1, <3>2
  <2>5. CASE ClosedReset(s)
    <3>0. ~ Live(d)' /\ ~ Live(d)
      BY <2>5 DEF ClosedReset, Ended, Live
    <3>1. CASE d = Other(s)
      BY <1>0, <2>5, <3>0, <3>1, DroppedQueue DEF ClosedReset, TypeOK
    <3>2. CASE d # Other(s)
      BY <1>0, <2>5, <3>0, <3>2, QuietDirection DEF ClosedReset, TypeOK
    <3>. QED
      BY <3>1, <3>2
  <2>. QED
    BY <1>3, <2>1, <2>2, <2>3, <2>4, <2>5 DEF PeerStep
<1>4. ASSUME NEW s \in Sides, CopyStep(s) PROVE Conserved(d)'
  <2>1. CASE CopyRead(s)
    <3>1. PICK k \in 1..Len(rx[s]) :
            /\ buf' = [buf EXCEPT ![s] = @ \o SubSeq(rx[s], 1, k)]
            /\ rx' = [rx EXCEPT ![s] = SubSeq(@, k + 1, Len(@))]
      BY <2>1 DEF CopyRead
    <3>2. phase' = phase /\ copy' = copy /\ peer' = peer /\ out' = out /\ tx' = tx /\ got' = got
      BY <2>1 DEF CopyRead
    <3>3. Live(d)' <=> Live(d)
      BY <3>2 DEF Live
    <3>4. CASE s # d
      BY <1>0, <3>1, <3>2, <3>3, <3>4, QuietDirection DEF TypeOK
    <3>5. CASE s = d
      <4>. DEFINE p == SubSeq(rx[d], 1, k)
                  q == SubSeq(rx[d], k + 1, Len(rx[d]))
      <4>1. p \o q = rx[d]
        BY <1>t, <3>1, <3>5, Split
      <4>p. p \in Seq(Data) /\ q \in Seq(Data)
        BY <1>t, <3>1, <3>5, Split
      <4>2. buf'[d] = buf[d] \o p /\ rx'[d] = q
        BY <3>1, <3>5 DEF TypeOK
      <4>. HIDE DEF p, q
      <4>3. (buf[d] \o p) \o q = buf[d] \o (p \o q)
        BY <1>b, <4>p, CatAssoc, Zenon
      <4>4. buf'[d] \o rx'[d] = buf[d] \o rx[d]
        BY <4>1, <4>2, <4>3
      <4>. QED
        BY <1>0, <3>2, <3>3, <4>4 DEF Conserved
    <3>. QED
      BY <3>4, <3>5
  <2>2. CASE CopyWrite(s)
    <3>1. PICK k \in 1..Len(buf[s]) :
            /\ tx' = [tx EXCEPT ![s] = @ \o SubSeq(buf[s], 1, k)]
            /\ buf' = [buf EXCEPT ![s] = SubSeq(@, k + 1, Len(@))]
      BY <2>2 DEF CopyWrite, sink
    <3>2. phase' = phase /\ copy' = copy /\ peer' = peer /\ out' = out /\ rx' = rx /\ got' = got
      BY <2>2 DEF CopyWrite
    <3>3. Live(d)' <=> Live(d)
      BY <3>2 DEF Live
    <3>4. CASE s # d
      BY <1>0, <3>1, <3>2, <3>3, <3>4, QuietDirection DEF TypeOK
    <3>5. CASE s = d
      <4>. DEFINE p == SubSeq(buf[d], 1, k)
                  q == SubSeq(buf[d], k + 1, Len(buf[d]))
      <4>1. p \o q = buf[d]
        BY <1>t, <3>1, <3>5, Split
      <4>p. p \in Seq(Data) /\ q \in Seq(Data)
        BY <1>t, <3>1, <3>5, Split
      <4>2. tx'[d] = tx[d] \o p /\ buf'[d] = q
        BY <3>1, <3>5 DEF TypeOK
      <4>3. Live(d)
        BY <2>2, <3>5 DEF CopyWrite, Running, Live
      <4>. HIDE DEF p, q
      <4>4. out[d] = (got[d] \o tx[d]) \o ((p \o q) \o rx[d])
        BY <1>0, <4>1, <4>3 DEF Conserved
      <4>5. (p \o q) \o rx[d] = p \o (q \o rx[d])
        BY <1>r, <4>p, CatAssoc, Zenon
      <4>t. q \o rx[d] \in Seq(Data)
        BY <1>r, <4>p, CatType
      <4>6. (got[d] \o tx[d]) \o (p \o (q \o rx[d])) = ((got[d] \o tx[d]) \o p) \o (q \o rx[d])
        BY <1>gx, <4>p, <4>t, CatAssoc, Zenon
      <4>7. (got[d] \o tx[d]) \o p = got[d] \o (tx[d] \o p)
        BY <1>g, <1>x, <4>p, CatAssoc, Zenon
      <4>. QED
        BY <3>2, <3>3, <4>2, <4>3, <4>4, <4>5, <4>6, <4>7 DEF Conserved
    <3>. QED
      BY <3>4, <3>5
  <2>3. CASE CopyEof(s) \/ ReadError(s) \/ WriteError(s)
    <3>1. Live(d)' => Live(d)
      BY <2>3 DEF CopyEof, ReadError, WriteError, Live, TypeOK
    <3>. QED
      BY <1>0, <2>3, <3>1, QuietDirection DEF CopyEof, ReadError, WriteError, queues
  <2>. QED
    BY <1>4, <2>1, <2>2, <2>3 DEF CopyStep
<1>. QED
  BY <1>1, <1>2, <1>3, <1>4 DEF Next, Finished

\* Conservation is an invariant: no byte of a live direction is lost, repeated or
\* reordered on its way through the proxy.
THEOREM ConservationCorrect == Spec => []Conservation
<1>. QED
  BY ConservationInit, ConservationNext, TypeCorrect, PTL DEF Spec

\* What an end has received is a beginning of what the other end sent, however the
\* transfer is chunked, buffered, broken off or ended.
THEOREM IntegrityCorrect == Spec => []Integrity
<1>1. TypeOK /\ Conservation => Integrity
  <2>. SUFFICES ASSUME TypeOK, Conservation, NEW s \in Sides PROVE IsPrefix(got[s], out[s])
    BY DEF Integrity
  <2>1. Conserved(s)
    BY DEF Conservation, Conserved
  <2>2. /\ got[s] \in Seq(Data) /\ tx[s] \in Seq(Data) /\ out[s] \in Seq(Data)
        /\ \E r \in Seq(Data) : out[s] = (got[s] \o tx[s]) \o r
    BY <2>1, ConservedPrefix
  <2>3. PICK r \in Seq(Data) : out[s] = (got[s] \o tx[s]) \o r
    BY <2>2
  <2>4. (got[s] \o tx[s]) \o r = got[s] \o (tx[s] \o r)
    BY <2>2, CatAssoc
  <2>5. tx[s] \o r \in Seq(Data)
    BY <2>2, CatType
  <2>. QED
    BY <2>2, <2>3, <2>4, <2>5, PrefixIff
<1>. QED
  BY <1>1, ConservationCorrect, TypeCorrect, PTL
-----------------------------------------------------------------------------
(* Completion.  OkMeansComplete is a statement about the end of bicopy; what  *)
(* makes it true is established when each copy returns Ok, and must survive   *)
(* until join! sees the other one return.                                    *)

\* What a copy that returned Ok leaves: an end that will send nothing more, empty queues
\* inside the proxy, and everything handed over, unless the other end is reset or the
\* other copy fails (its socket is then closed with bytes unread, which may cost the
\* other end what was queued for it).
Complete(s) ==
  copy[s] = "ok" =>
    /\ phase = "copy" /\ peer[s] # "open" /\ rx[s] = <<>> /\ buf[s] = <<>>
    /\ peer[Other(s)] # "reset" /\ copy[Other(s)] # "err" => got[s] \o tx[s] = out[s]

CompleteInv == \A s \in Sides : Complete(s)

\* No copy has returned at the start.
LEMMA CompleteInit == Init => CompleteInv
BY DEF Init, CompleteInv, Complete

\* A direction that is left alone stays complete, also when the other end is reset or the
\* other copy fails.
LEMMA CompleteFrame ==
  ASSUME NEW d \in Sides, Complete(d),
         phase' = phase, copy'[d] = copy[d], peer[d] # "open" => peer'[d] # "open",
         peer[Other(d)] = "reset" => peer'[Other(d)] = "reset",
         copy[Other(d)] = "err" => copy'[Other(d)] = "err",
         out'[d] = out[d], rx'[d] = rx[d], buf'[d] = buf[d],
         got'[d] \o tx'[d] = got[d] \o tx[d]
  PROVE  Complete(d)'
<1>1. Other(d)' = Other(d)
  BY DEF Other
<1>. QED
  BY <1>1 DEF Complete

\* Every step preserves CompleteInv.
LEMMA CompleteNext == TypeOK /\ Conservation /\ CompleteInv /\ [Next]_vars => CompleteInv'
<1>. SUFFICES ASSUME TypeOK, Conservation, CompleteInv, [Next]_vars, NEW d \in Sides
              PROVE  Complete(d)'
  BY DEF CompleteInv
<1>. USE SideFacts
<1>0. Complete(d) /\ Complete(Other(d)) /\ Conserved(d)
  BY DEF CompleteInv, Conservation, Conserved
<1>d. /\ DOMAIN copy = Sides /\ DOMAIN peer = Sides /\ DOMAIN out = Sides /\ DOMAIN rx = Sides
      /\ DOMAIN buf = Sides /\ DOMAIN tx = Sides /\ DOMAIN got = Sides
  BY DEF TypeOK
<1>1. CASE UNCHANGED vars
  BY <1>0, <1>1, CompleteFrame DEF vars, queues
<1>2. CASE AddressError \/ bicopy
  <2>1. copy[d] # "ok"
    BY <1>0, <1>2 DEF AddressError, bicopy, Complete
  <2>. QED
    BY <1>2, <2>1 DEF AddressError, bicopy, Complete
<1>3. ASSUME NEW s \in Sides, PeerStep(s) PROVE Complete(d)'
  <2>1. CASE PeerWrite(s)
    <3>1. CASE s = d
      BY <1>0, <2>1, <3>1 DEF PeerWrite, Complete
    <3>2. CASE s # d
      BY <1>0, <1>d, <2>1, <3>2, CompleteFrame DEF PeerWrite
    <3>. QED
      BY <3>1, <3>2
  <2>2. CASE PeerRead(s)
    <3>1. got'[d] \o tx'[d] = got[d] \o tx[d]
      <4>1. CASE s = d
        BY <2>2, <4>1, PeerReadKeeps
      <4>2. CASE s # d
        BY <1>d, <2>2, <4>2 DEF PeerRead
      <4>. QED
        BY <4>1, <4>2
    <3>. QED
      BY <1>0, <2>2, <3>1, CompleteFrame DEF PeerRead
  <2>3. CASE PeerShutdown(s)
    BY <1>0, <1>d, <2>3, CompleteFrame DEF PeerShutdown, queues
  <2>4. CASE PeerReset(s)
    <3>1. CASE d = Other(s)
      <4>1. Other(d) = s /\ peer'[s] = "reset" /\ peer'[d] = peer[d]
        BY <1>d, <2>4, <3>1 DEF PeerReset
      <4>2. phase' = phase /\ copy' = copy /\ rx' = rx /\ buf' = buf
        BY <2>4 DEF PeerReset
      <4>. QED
        BY <1>0, <4>1, <4>2 DEF Complete
    <3>2. CASE d # Other(s)
      <4>1. tx'[d] = tx[d] /\ peer'[d] = "reset" /\ d = s
        BY <1>d, <2>4, <3>2 DEF PeerReset, Sides, Other
      <4>. QED
        BY <1>0, <1>d, <2>4, <4>1, CompleteFrame DEF PeerReset
    <3>. QED
      BY <3>1, <3>2
  <2>5. CASE ClosedReset(s)
    <3>1. CASE d = Other(s)
      <4>1. Other(d) = s
        BY <3>1
      <4>2. Ended /\ (rx[s] # <<>> \/ peer[s] = "open")
        BY <2>5 DEF ClosedReset
      <4>3. copy[d] = "ok" => copy[s] = "err"
        <5>1. copy[s] # "ok"
          BY <1>0, <4>1, <4>2 DEF Complete
        <5>2. copy[d] = "ok" => phase = "copy"
          BY <1>0 DEF Complete
        <5>. QED
          BY <4>2, <5>1, <5>2 DEF Ended, TypeOK
      <4>4. phase' = phase /\ copy' = copy /\ peer' = peer /\ rx' = rx /\ buf' = buf
        BY <2>5 DEF ClosedReset
      <4>. QED
        BY <1>0, <4>1, <4>3, <4>4 DEF Complete
    <3>2. CASE d # Other(s)
      BY <1>0, <1>d, <2>5, <3>2, CompleteFrame DEF ClosedReset
    <3>. QED
      BY <3>1, <3>2
  <2>. QED
    BY <1>3, <2>1, <2>2, <2>3, <2>4, <2>5 DEF PeerStep
<1>4. ASSUME NEW s \in Sides, CopyStep(s) PROVE Complete(d)'
  <2>1. CASE CopyRead(s) \/ CopyWrite(s)
    <3>1. copy[s] = "running" /\ copy' = copy
      BY <2>1 DEF CopyRead, CopyWrite, Running
    <3>2. CASE s = d
      BY <3>1, <3>2 DEF Complete
    <3>3. CASE s # d
      BY <1>0, <1>d, <2>1, <3>3, CompleteFrame DEF CopyRead, CopyWrite, sink
    <3>. QED
      BY <3>2, <3>3
  <2>2. CASE CopyEof(s)
    <3>0. UNCHANGED <<phase, peer, out, rx, buf, tx, got>>
      BY <2>2 DEF CopyEof, queues
    <3>1. CASE s = d
      <4>1. /\ phase = "copy" /\ copy[d] = "running" /\ peer[d] = "eof"
            /\ rx[d] = <<>> /\ buf[d] = <<>>
        BY <2>2, <3>1 DEF CopyEof, Running
      <4>2. copy'[Other(d)] = copy[Other(d)]
        BY <1>d, <2>2, <3>1 DEF CopyEof
      <4>3. peer[Other(d)] # "reset" => got[d] \o tx[d] = out[d]
        <5>1. SUFFICES ASSUME peer[Other(d)] # "reset" PROVE got[d] \o tx[d] = out[d]
          OBVIOUS
        <5>2. Live(d)
          BY <4>1, <5>1 DEF Live
        <5>3. out[d] = (got[d] \o tx[d]) \o (<<>> \o <<>>)
          BY <1>0, <4>1, <5>2 DEF Conserved
        <5>4. <<>> \in Seq(Data)
          BY EmptySeq
        <5>5. <<>> \o <<>> = <<>>
          BY <5>4, CatUnit
        <5>6. got[d] \in Seq(Data) /\ tx[d] \in Seq(Data)
          BY DEF TypeOK
        <5>7. got[d] \o tx[d] \in Seq(Data)
          BY <5>6, CatType
        <5>8. (got[d] \o tx[d]) \o <<>> = got[d] \o tx[d]
          BY <5>7, CatUnit
        <5>. QED
          BY <5>3, <5>5, <5>8
      <4>4. Other(d)' = Other(d)
        BY DEF Other
      <4>. QED
        BY <3>0, <4>1, <4>3, <4>4 DEF Complete
    <3>2. CASE s # d
      BY <1>0, <1>d, <2>2, <3>0, <3>2, CompleteFrame DEF CopyEof, Running
    <3>. QED
      BY <3>1, <3>2
  <2>3. CASE ReadError(s) \/ WriteError(s)
    <3>0. UNCHANGED <<phase, peer, out, rx, buf, tx, got>> /\ copy' = [copy EXCEPT ![s] = "err"]
      BY <2>3 DEF ReadError, WriteError, queues
    <3>1. CASE s = d
      BY <1>d, <3>0, <3>1 DEF Complete
    <3>2. CASE s # d
      BY <1>0, <1>d, <3>0, <3>2, CompleteFrame
    <3>. QED
      BY <3>1, <3>2
  <2>. QED
    BY <1>4, <2>1, <2>2, <2>3 DEF CopyStep
<1>. QED
  BY <1>1, <1>2, <1>3, <1>4 DEF Next, Finished

\* When bicopy returns Ok, all that either end sent has been handed to the other end's
\* socket, whichever copy returned first and whatever happened in between.
THEOREM OkComplete == Spec => []OkMeansComplete
<1>1. Spec => []CompleteInv
  BY CompleteInit, CompleteNext, TypeCorrect, ConservationCorrect, PTL DEF Spec
<1>2. CompleteInv => OkMeansComplete
  <2>. SUFFICES ASSUME CompleteInv, result = "Ok", NEW s \in Sides, peer[Other(s)] # "reset"
                PROVE  got[s] \o tx[s] = out[s]
    BY DEF OkMeansComplete
  <2>1. \A x \in Sides : copy[x] = "ok"
    BY DEF result, Sides
  <2>. QED
    BY <2>1, SideFacts DEF CompleteInv, Complete
<1>. QED
  BY <1>1, <1>2, PTL

-----------------------------------------------------------------------------
(* Refinement.  Each direction is a pipe that holds the send queue, the copy  *)
(* buffer and the receive queue while it is live, and the send queue alone    *)
(* afterwards.  A step of the tunnel moves bytes inside a pipe (a stutter),   *)
(* puts one in, takes some out, or cuts a pipe.                              *)

\* What DuplexPipe's transit stands for.
Transit(s) == IF Live(s) THEN tx[s] \o (buf[s] \o rx[s]) ELSE tx[s]

\* The contents of a pipe are bytes, and the send queue is its front.
LEMMA TransitFacts ==
  ASSUME TypeOK, NEW s \in Sides
  PROVE  /\ Transit(s) \in Seq(Data)
         /\ \E r \in Seq(Data) : Transit(s) = tx[s] \o r
         /\ IsPrefix(tx[s], Transit(s)) /\ IsPrefix(<<>>, Transit(s))
<1>1. tx[s] \in Seq(Data) /\ buf[s] \in Seq(Data) /\ rx[s] \in Seq(Data) /\ <<>> \in Seq(Data)
  BY EmptySeq DEF TypeOK
<1>2. buf[s] \o rx[s] \in Seq(Data) /\ tx[s] = tx[s] \o <<>>
  BY <1>1, CatType, CatUnit
<1>3. PICK r \in Seq(Data) : Transit(s) = tx[s] \o r
  BY <1>1, <1>2 DEF Transit
<1>4. Transit(s) \in Seq(Data)
  BY <1>1, <1>3, CatType
<1>5. <<>> \o Transit(s) = Transit(s)
  BY <1>4, CatUnit
<1>6. IsPrefix(<<>>, Transit(s))
  BY <1>1, <1>4, <1>5, PrefixIff
<1>. QED
  BY <1>1, <1>3, <1>4, <1>6, PrefixIff

\* A pipe whose direction is left alone holds what it held.
LEMMA TransitFrame ==
  ASSUME NEW s \in Sides, Live(s)' <=> Live(s),
         tx'[s] = tx[s], Live(s) => buf'[s] \o rx'[s] = buf[s] \o rx[s]
  PROVE  Transit(s)' = Transit(s)
BY DEF Transit

\* A step that leaves what is live, in transit and received is a stutter of the pipe.
LEMMA PipeStutter ==
  ASSUME \A s \in Sides : (Live(s)' <=> Live(s)) /\ Transit(s)' = Transit(s), got' = got
  PROVE  UNCHANGED Pipe!vars
<1>1. \A s \in Sides : Live(s)' = Live(s)
  BY Zenon DEF Live
<1>2. [s \in Sides |-> Live(s)]' = [s \in Sides |-> Live(s)]
  BY <1>1
<1>3. [s \in Sides |-> Transit(s)]' = [s \in Sides |-> Transit(s)]
  OBVIOUS
<1>. QED
  BY <1>2, <1>3 DEF Pipe!vars, Transit

\* A step that ends some directions, and costs each at most the tail of what is in it.
LEMMA PipeCut ==
  ASSUME NEW S \in SUBSET Sides,
         \A s \in Sides : Live(s)' <=> (Live(s) /\ s \notin S),
         \A s \in Sides : IF s \in S THEN IsPrefix(Transit(s)', Transit(s))
                                     ELSE Transit(s)' = Transit(s),
         got' = got
  PROVE  Pipe!Cut
<1>. DEFINE o == [s \in Sides |-> Live(s)]
            t == [s \in Sides |-> IF Live(s) THEN tx[s] \o (buf[s] \o rx[s]) ELSE tx[s]]
<1>0. \A s \in Sides : Live(s)' = (Live(s) /\ s \notin S)
  BY Zenon DEF Live
<1>1. o' = [s \in Sides |-> o[s] /\ s \notin S]
  BY <1>0
<1>2. \A s \in Sides : t[s] = Transit(s) /\ (t')[s] = Transit(s)'
  BY DEF Transit
<1>3. \A a, b : Pipe!IsPrefix(a, b) <=> IsPrefix(a, b)
  BY DEF Pipe!IsPrefix, IsPrefix
<1>4. \A s \in Sides : IF s \in S THEN Pipe!IsPrefix((t')[s], t[s]) ELSE (t')[s] = t[s]
  <2>. HIDE DEF t
  <2>. QED
    BY <1>2, <1>3
<1>5. DOMAIN t' = Sides
  OBVIOUS
<1>. QED
  BY <1>1, <1>4, <1>5, Zenon DEF Pipe!Cut

\* A byte that enters a live direction at its end.
LEMMA PipePut ==
  ASSUME NEW s \in Sides, Live(s), NEW e \in Data,
         \A d \in Sides : Live(d)' <=> Live(d),
         Transit(s)' = Append(Transit(s), e),
         \A d \in Sides \ {s} : Transit(d)' = Transit(d),
         got' = got
  PROVE  Pipe!Put(s)
<1>. DEFINE o == [d \in Sides |-> Live(d)]
            t == [d \in Sides |-> IF Live(d) THEN tx[d] \o (buf[d] \o rx[d]) ELSE tx[d]]
<1>0. \A d \in Sides : Live(d)' = Live(d)
  BY Zenon DEF Live
<1>1. o' = o
  BY <1>0
<1>2. o[s]
  OBVIOUS
<1>3. /\ \A d \in Sides : t[d] = Transit(d) /\ (t')[d] = Transit(d)'
      /\ t = [d \in Sides |-> t[d]] /\ t' = [d \in Sides |-> (t')[d]]
  BY DEF Transit
<1>4. t' = [t EXCEPT ![s] = Append(@, e)]
  <2>. HIDE DEF t
  <2>. QED
    BY <1>3
<1>. QED
  BY <1>1, <1>2, <1>4, Zenon DEF Pipe!Put

\* Bytes that leave a direction at its front.
LEMMA PipeTake ==
  ASSUME NEW s \in Sides, NEW k \in 1..Len(Transit(s)),
         \A d \in Sides : Live(d)' <=> Live(d),
         got' = [got EXCEPT ![s] = @ \o SubSeq(Transit(s), 1, k)],
         Transit(s)' = SubSeq(Transit(s), k + 1, Len(Transit(s))),
         \A d \in Sides \ {s} : Transit(d)' = Transit(d)
  PROVE  Pipe!Take(s)
<1>. DEFINE o == [d \in Sides |-> Live(d)]
            t == [d \in Sides |-> IF Live(d) THEN tx[d] \o (buf[d] \o rx[d]) ELSE tx[d]]
<1>0. \A d \in Sides : Live(d)' = Live(d)
  BY Zenon DEF Live
<1>1. o' = o
  BY <1>0
<1>2. /\ \A d \in Sides : t[d] = Transit(d) /\ (t')[d] = Transit(d)'
      /\ t = [d \in Sides |-> t[d]] /\ t' = [d \in Sides |-> (t')[d]]
  BY DEF Transit
<1>3. /\ k \in 1..Len(t[s])
      /\ got' = [got EXCEPT ![s] = @ \o SubSeq(t[s], 1, k)]
      /\ t' = [t EXCEPT ![s] = SubSeq(@, k + 1, Len(@))]
  <2>. HIDE DEF t
  <2>. QED
    BY <1>2
<1>. QED
  BY <1>1, <1>3, Zenon DEF Pipe!Take

\* The front and the rest of a queue that continues a chunk.
LEMMA CutFront ==
  ASSUME NEW p \in Seq(Data), NEW q \in Seq(Data), Len(p) # 0
  PROVE  /\ Len(p) \in 1..Len(p \o q)
         /\ SubSeq(p \o q, 1, Len(p)) = p
         /\ SubSeq(p \o q, Len(p) + 1, Len(p \o q)) = q
<1>1. Len(p) \in Nat /\ Len(q) \in Nat /\ Len(p \o q) = Len(p) + Len(q) /\ p \o q \in Seq(Data)
  BY LenProperties, CatType
<1>2. Len(p) \in 1..Len(p \o q)
  BY <1>1
<1>3. SubSeq(p \o q, 1, Len(p)) = SubSeq(p, 1, Len(p))
  BY <1>1, SubSeqOfConcat1
<1>4. SubSeq(p, 1, Len(p)) = p
  BY SubSeqFull
<1>5. SubSeq(p \o q, Len(p) + 1, Len(p \o q)) = q
  <2>1. CASE Len(q) = 0
    <3>1. q = <<>>
      BY <2>1, EmptySeq
    <3>2. Len(p) + 1 > Len(p \o q)
      BY <1>1, <2>1
    <3>. QED
      BY <1>1, <3>1, <3>2, SubSeqEmpty
  <2>2. CASE Len(q) # 0
    <3>1. /\ Len(p) + 1 \in Len(p) + 1 .. Len(p) + Len(q)
          /\ Len(p) + Len(q) \in Len(p) + 1 .. Len(p) + Len(q)
          /\ (Len(p) + 1) - Len(p) = 1 /\ (Len(p) + Len(q)) - Len(p) = Len(q)
      BY <1>1, <2>2
    <3>2. SubSeq(p \o q, Len(p) + 1, Len(p) + Len(q)) = SubSeq(q, 1, Len(q))
      BY <3>1, SubSeqOfConcat2
    <3>3. SubSeq(q, 1, Len(q)) = q
      BY SubSeqFull
    <3>. QED
      BY <1>1, <3>2, <3>3
  <2>. QED
    BY <2>1, <2>2
<1>. QED
  BY <1>2, <1>3, <1>4, <1>5

\* Before bicopy starts both pipes are open and empty.
LEMMA PipeInit == Init => Pipe!Init
<1>. SUFFICES ASSUME Init PROVE Pipe!Init
  OBVIOUS
<1>1. \A s \in Sides : Live(s) = TRUE
  BY SideFacts DEF Init, Live
<1>2. [s \in Sides |-> Live(s)] = [s \in Sides |-> TRUE]
  BY <1>1, Zenon
<1>3. <<>> \o (<<>> \o <<>>) = <<>>
  BY EmptySeq, CatUnit
<1>4. [s \in Sides |-> IF Live(s) THEN tx[s] \o (buf[s] \o rx[s]) ELSE tx[s]]
        = [s \in Sides |-> <<>>]
  BY <1>3 DEF Init
<1>5. got = [s \in Sides |-> <<>>]
  BY DEF Init
<1>. QED
  BY <1>2, <1>4, <1>5, Zenon DEF Pipe!Init

\* Every step of the tunnel is a step of the two pipes, or leaves them as they are.
LEMMA PipeNext == TypeOK /\ [Next]_vars => [Pipe!Next]_(Pipe!vars)
<1>. SUFFICES ASSUME TypeOK, [Next]_vars PROVE Pipe!Next \/ UNCHANGED Pipe!vars
  OBVIOUS
<1>. USE SideFacts
<1>d. /\ DOMAIN copy = Sides /\ DOMAIN peer = Sides /\ DOMAIN out = Sides /\ DOMAIN rx = Sides
      /\ DOMAIN buf = Sides /\ DOMAIN tx = Sides /\ DOMAIN got = Sides
  BY DEF TypeOK
<1>t. \A s \in Sides : /\ rx[s] \in Seq(Data) /\ buf[s] \in Seq(Data) /\ tx[s] \in Seq(Data)
                       /\ got[s] \in Seq(Data) /\ buf[s] \o rx[s] \in Seq(Data)
  BY CatType DEF TypeOK
<1>c. ASSUME Pipe!Cut PROVE Pipe!Next
  BY <1>c DEF Pipe!Next
<1>1. CASE UNCHANGED vars
  BY <1>1, PipeStutter, TransitFrame DEF vars, queues, Live
<1>2. CASE AddressError
  <2>1. \A s \in Sides : ~ Live(s)' /\ Transit(s)' = tx[s]
    BY <1>2 DEF AddressError, queues, Live, Transit
  <2>2. got' = got
    BY <1>2 DEF AddressError, queues
  <2>. QED
    BY <1>c, <2>1, <2>2, PipeCut, TransitFacts
<1>3. CASE bicopy
  <2>1. \A s \in Sides : Live(s)' <=> Live(s)
    BY <1>3 DEF bicopy, Live
  <2>. QED
    BY <1>3, <2>1, PipeStutter, TransitFrame DEF bicopy, queues
<1>4. ASSUME NEW s \in Sides, PeerStep(s) PROVE Pipe!Next \/ UNCHANGED Pipe!vars
  <2>1. CASE PeerWrite(s)
    <3>1. PICK e \in Data : rx' = [rx EXCEPT ![s] = Append(@, e)]
      BY <2>1 DEF PeerWrite
    <3>2. phase' = phase /\ copy' = copy /\ peer' = peer /\ buf' = buf /\ tx' = tx /\ got' = got
      BY <2>1 DEF PeerWrite
    <3>3. \A d \in Sides : Live(d)' <=> Live(d)
      BY <3>2 DEF Live
    <3>4. \A d \in Sides \ {s} : Transit(d)' = Transit(d)
      BY <1>d, <3>1, <3>2, <3>3, TransitFrame
    <3>5. CASE ~ Live(s)
      <4>1. Transit(s)' = Transit(s)
        BY <3>2, <3>3, <3>5, TransitFrame
      <4>. QED
        BY <3>2, <3>3, <3>4, <4>1, PipeStutter
    <3>6. CASE Live(s)
      <4>e. <<e>> \in Seq(Data)
        BY <1>t
      <4>b. buf[s] \in Seq(Data) /\ rx[s] \in Seq(Data)
        BY <1>t
      <4>x. tx[s] \in Seq(Data) /\ buf[s] \o rx[s] \in Seq(Data)
        BY <1>t
      <4>1. rx'[s] = rx[s] \o <<e>>
        BY <1>d, <3>1, <4>b, AppendIsConcat
      <4>2. (buf[s] \o rx[s]) \o <<e>> = buf[s] \o (rx[s] \o <<e>>)
        BY <4>b, <4>e, CatAssoc, Zenon
      <4>3. (tx[s] \o (buf[s] \o rx[s])) \o <<e>> = tx[s] \o ((buf[s] \o rx[s]) \o <<e>>)
        BY <4>e, <4>x, CatAssoc, Zenon
      <4>4. Transit(s) \o <<e>> = Append(Transit(s), e)
        BY TransitFacts, AppendIsConcat
      <4>5. Transit(s) = tx[s] \o (buf[s] \o rx[s])
        BY <3>6 DEF Transit
      <4>6. Transit(s)' = tx[s] \o (buf[s] \o rx'[s])
        BY <3>2, <3>3, <3>6 DEF Transit
      <4>7. Transit(s)' = Append(Transit(s), e)
        BY <4>1, <4>2, <4>3, <4>4, <4>5, <4>6
      <4>8. Pipe!Put(s)
        BY <3>2, <3>3, <3>4, <3>6, <4>7, PipePut
      <4>. QED
        BY <4>8 DEF Pipe!Next
    <3>. QED
      BY <3>5, <3>6
  <2>2. CASE PeerRead(s)
    <3>1. PICK k \in 1..Len(tx[s]) :
            /\ got' = [got EXCEPT ![s] = @ \o SubSeq(tx[s], 1, k)]
            /\ tx' = [tx EXCEPT ![s] = SubSeq(@, k + 1, Len(@))]
      BY <2>2 DEF PeerRead
    <3>2. phase' = phase /\ copy' = copy /\ peer' = peer /\ rx' = rx /\ buf' = buf
      BY <2>2 DEF PeerRead
    <3>3. \A d \in Sides : Live(d)' <=> Live(d)
      BY <3>2 DEF Live
    <3>4. \A d \in Sides \ {s} : Transit(d)' = Transit(d)
      BY <1>d, <3>1, <3>2, <3>3, TransitFrame
    <3>. DEFINE p == SubSeq(tx[s], 1, k)
                q == SubSeq(tx[s], k + 1, Len(tx[s]))
                rest == IF Live(s) THEN buf[s] \o rx[s] ELSE <<>>
    <3>5. p \o q = tx[s] /\ p \in Seq(Data) /\ q \in Seq(Data) /\ Len(p) = k
      BY <1>t, <3>1, Split
    <3>6. tx'[s] = q
      BY <1>d, <3>1
    <3>7. rest \in Seq(Data)
      BY <1>t, EmptySeq
    <3>8. Transit(s) = tx[s] \o rest /\ Transit(s)' = q \o rest
      <4>1. CASE Live(s)
        BY <3>2, <3>3, <3>6, <4>1 DEF Transit
      <4>2. CASE ~ Live(s)
        <5>1. tx[s] \o <<>> = tx[s] /\ q \o <<>> = q
          BY <1>t, <3>5, CatUnit
        <5>. QED
          BY <3>3, <3>6, <4>2, <5>1 DEF Transit
      <4>. QED
        BY <4>1, <4>2
    <3>9. got' = [got EXCEPT ![s] = @ \o p]
      BY <3>1
    <3>. HIDE DEF p, q, rest
    <3>10. (p \o q) \o rest = p \o (q \o rest)
      BY <3>5, <3>7, CatAssoc, Zenon
    <3>11. Transit(s) = p \o (q \o rest)
      BY <3>5, <3>8, <3>10
    <3>12. q \o rest \in Seq(Data)
      BY <3>5, <3>7, CatType
    <3>13. k # 0
      BY <3>1
    <3>14. /\ k \in 1..Len(p \o (q \o rest))
           /\ SubSeq(p \o (q \o rest), 1, k) = p
           /\ SubSeq(p \o (q \o rest), k + 1, Len(p \o (q \o rest))) = q \o rest
      BY <3>5, <3>12, <3>13, CutFront
    <3>15. /\ k \in 1..Len(Transit(s)) /\ SubSeq(Transit(s), 1, k) = p
           /\ Transit(s)' = SubSeq(Transit(s), k + 1, Len(Transit(s)))
      BY <3>8, <3>11, <3>14
    <3>16. Pipe!Take(s)
      BY <3>3, <3>4, <3>9, <3>15, PipeTake
    <3>. QED
      BY <3>16 DEF Pipe!Next
  <2>3. CASE PeerShutdown(s)
    <3>1. \A d \in Sides : Live(d)' <=> Live(d)
      BY <1>d, <2>3 DEF PeerShutdown, Live
    <3>. QED
      BY <2>3, <3>1, PipeStutter, TransitFrame DEF PeerShutdown, queues
  <2>4. CASE PeerReset(s)
    <3>1. /\ ~ Live(Other(s))' /\ Transit(Other(s))' = <<>>
      BY <1>d, <2>4 DEF PeerReset, Live, Transit
    <3>2. Live(s)' <=> Live(s)
      BY <1>d, <2>4 DEF PeerReset, Live
    <3>3. Transit(s)' = Transit(s)
      BY <1>d, <2>4, <3>2, TransitFrame DEF PeerReset
    <3>4. Sides = {s, Other(s)}
      BY DEF Sides, Other
    <3>5. got' = got
      BY <2>4 DEF PeerReset
    <3>6. Pipe!Cut
      <4>. DEFINE S == {Other(s)}
      <4>1. \A d \in Sides : Live(d)' <=> (Live(d) /\ d \notin S)
        BY <3>1, <3>2, <3>4
      <4>2. \A d \in Sides : IF d \in S THEN IsPrefix(Transit(d)', Transit(d))
                                        ELSE Transit(d)' = Transit(d)
        BY <3>1, <3>3, <3>4, TransitFacts
      <4>. QED
        BY <3>5, <4>1, <4>2, PipeCut
    <3>. QED
      BY <1>c, <3>6
  <2>5. CASE ClosedReset(s)
    <3>1. \A d \in Sides : ~ Live(d)' /\ ~ Live(d)
      BY <2>5 DEF ClosedReset, Ended, Live
    <3>2. Transit(Other(s))' = <<>>
      BY <1>d, <2>5, <3>1 DEF ClosedReset, Transit
    <3>3. Transit(s)' = Transit(s)
      BY <1>d, <2>5, <3>1, TransitFrame DEF ClosedReset
    <3>4. Sides = {s, Other(s)}
      BY DEF Sides, Other
    <3>5. got' = got
      BY <2>5 DEF ClosedReset
    <3>6. Pipe!Cut
      <4>. DEFINE S == {Other(s)}
      <4>1. \A d \in Sides : Live(d)' <=> (Live(d) /\ d \notin S)
        BY <3>1
      <4>2. \A d \in Sides : IF d \in S THEN IsPrefix(Transit(d)', Transit(d))
                                        ELSE Transit(d)' = Transit(d)
        BY <3>2, <3>3, <3>4, TransitFacts
      <4>. QED
        BY <3>5, <4>1, <4>2, PipeCut
    <3>. QED
      BY <1>c, <3>6
  <2>. QED
    BY <1>4, <2>1, <2>2, <2>3, <2>4, <2>5 DEF PeerStep
<1>5. ASSUME NEW s \in Sides, CopyStep(s) PROVE Pipe!Next \/ UNCHANGED Pipe!vars
  <2>1. CASE CopyRead(s)
    <3>1. PICK k \in 1..Len(rx[s]) :
            /\ buf' = [buf EXCEPT ![s] = @ \o SubSeq(rx[s], 1, k)]
            /\ rx' = [rx EXCEPT ![s] = SubSeq(@, k + 1, Len(@))]
      BY <2>1 DEF CopyRead
    <3>2. phase' = phase /\ copy' = copy /\ peer' = peer /\ tx' = tx /\ got' = got
      BY <2>1 DEF CopyRead
    <3>3. \A d \in Sides : Live(d)' <=> Live(d)
      BY <3>2 DEF Live
    <3>. DEFINE p == SubSeq(rx[s], 1, k)
                q == SubSeq(rx[s], k + 1, Len(rx[s]))
    <3>4. p \o q = rx[s] /\ p \in Seq(Data) /\ q \in Seq(Data)
      BY <1>t, <3>1, Split
    <3>5. buf'[s] = buf[s] \o p /\ rx'[s] = q
      BY <1>d, <3>1
    <3>. HIDE DEF p, q
    <3>6. buf[s] \in Seq(Data)
      BY <1>t
    <3>7. (buf[s] \o p) \o q = buf[s] \o (p \o q)
      BY <3>4, <3>6, CatAssoc, Zenon
    <3>8. buf'[s] \o rx'[s] = buf[s] \o rx[s]
      BY <3>4, <3>5, <3>7
    <3>9. \A d \in Sides : Transit(d)' = Transit(d)
      <4>. SUFFICES ASSUME NEW d \in Sides PROVE Transit(d)' = Transit(d)
        OBVIOUS
      <4>1. buf'[d] \o rx'[d] = buf[d] \o rx[d]
        BY <1>d, <3>1, <3>8
      <4>. QED
        BY <3>2, <3>3, <4>1, TransitFrame
    <3>. QED
      BY <3>2, <3>3, <3>9, PipeStutter
  <2>2. CASE CopyWrite(s)
    <3>1. PICK k \in 1..Len(buf[s]) :
            /\ tx' = [tx EXCEPT ![s] = @ \o SubSeq(buf[s], 1, k)]
            /\ buf' = [buf EXCEPT ![s] = SubSeq(@, k + 1, Len(@))]
      BY <2>2 DEF CopyWrite, sink
    <3>2. phase' = phase /\ copy' = copy /\ peer' = peer /\ rx' = rx /\ got' = got
      BY <2>2 DEF CopyWrite
    <3>3. (\A d \in Sides : Live(d)' <=> Live(d)) /\ Live(s)
      BY <2>2, <3>2 DEF CopyWrite, Running, Live
    <3>. DEFINE p == SubSeq(buf[s], 1, k)
                q == SubSeq(buf[s], k + 1, Len(buf[s]))
    <3>4. p \o q = buf[s] /\ p \in Seq(Data) /\ q \in Seq(Data)
      BY <1>t, <3>1, Split
    <3>5. tx'[s] = tx[s] \o p /\ buf'[s] = q
      BY <1>d, <3>1
    <3>. HIDE DEF p, q
    <3>6. tx[s] \in Seq(Data) /\ rx[s] \in Seq(Data)
      BY <1>t
    <3>7. q \o rx[s] \in Seq(Data)
      BY <3>4, <3>6, CatType
    <3>8. (tx[s] \o p) \o (q \o rx[s]) = tx[s] \o (p \o (q \o rx[s]))
      BY <3>4, <3>6, <3>7, CatAssoc, Zenon
    <3>9. (p \o q) \o rx[s] = p \o (q \o rx[s])
      BY <3>4, <3>6, CatAssoc, Zenon
    <3>10. Transit(s)' = Transit(s)
      BY <3>2, <3>3, <3>4, <3>5, <3>8, <3>9 DEF Transit
    <3>11. \A d \in Sides \ {s} : Transit(d)' = Transit(d)
      BY <1>d, <3>1, <3>2, <3>3, TransitFrame
    <3>. QED
      BY <3>2, <3>3, <3>10, <3>11, PipeStutter
  <2>3. CASE CopyEof(s) \/ ReadError(s) \/ WriteError(s)
    <3>1. /\ phase' = phase /\ peer' = peer /\ rx' = rx /\ buf' = buf /\ tx' = tx /\ got' = got
          /\ copy'[s] # "running" /\ \A d \in Sides \ {s} : copy'[d] = copy[d]
      BY <1>d, <2>3 DEF CopyEof, ReadError, WriteError, queues
    <3>2. Pipe!Cut
      <4>. DEFINE S == {s}
      <4>1. \A d \in Sides : Live(d)' <=> (Live(d) /\ d \notin S)
        BY <3>1 DEF Live
      <4>2. Transit(s)' = tx[s]
        BY <3>1 DEF Transit, Live
      <4>3. \A d \in Sides \ {s} : Transit(d)' = Transit(d)
        BY <3>1, <4>1, TransitFrame
      <4>4. \A d \in Sides : IF d \in S THEN IsPrefix(Transit(d)', Transit(d))
                                        ELSE Transit(d)' = Transit(d)
        BY <4>2, <4>3, TransitFacts
      <4>. QED
        BY <3>1, <4>1, <4>4, PipeCut
    <3>. QED
      BY <1>c, <3>2
  <2>. QED
    BY <1>5, <2>1, <2>2, <2>3 DEF CopyStep
<1>. QED
  BY <1>1, <1>2, <1>3, <1>4, <1>5 DEF Next, Finished

\* bicopy implements two independent byte pipes: bytes leave each in the order they
\* entered it, and a failure costs at most the tail of what is inside.
THEOREM TunnelRefinesPipe == Spec => ImplementsPipe
<1>. QED
  BY PipeInit, PipeNext, TypeCorrect, PTL DEF Spec, ImplementsPipe, Pipe!Spec
=============================================================================
