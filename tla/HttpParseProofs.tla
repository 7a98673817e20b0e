-------------------------- MODULE HttpParseProofs --------------------------
(***************************************************************************)
(* Proofs about HttpParse, for streams of every length and every way of    *)
(* cutting them into chunks.                                               *)
(***************************************************************************)
EXTENDS HttpParse, SequenceTheorems, WellFoundedInduction, TLAPS

\* The parts of the state the line parser works on have their types.
ParserType ==
  /\ stream \in Seq(ByteKind)
  /\ fed \in Nat
  /\ rest \in Seq(ByteKind)
  /\ lp \in [buf : Seq(ByteKind), saw_return : BOOLEAN]

HeldInv == ParserType /\ HeldIsReturn

\* A piece of a sequence of bytes is one.
LEMMA Piece ==
  ASSUME NEW d \in Seq(ByteKind), NEW m \in Nat \ {0}, NEW n \in Int, n <= Len(d)
  PROVE  SubSeq(d, m, n) \in Seq(ByteKind)
<1>1. \A i \in m..n : d[i] \in ByteKind
  BY ElementOfSeq, LenProperties
<1>. QED
  BY <1>1, SubSeqProperties

\* A set of naturals with an element has a smallest one.
LEMMA Smallest ==
  ASSUME NEW T, T \subseteq Nat, T # {}
  PROVE  \E x \in T : \A y \in T : x <= y
<1>. DEFINE R == OpToRel(<, Nat)
<1>1. PICK x \in T : \A y \in T : ~ (<<y, x>> \in R)
  <2>1. IsWellFoundedOn(R, Nat)
    BY NatLessThanWellFounded
  <2>. HIDE DEF R
  <2>. QED
    BY <2>1, WFMin
<1>2. \A y \in T : ~ (y < x)
  BY <1>1 DEF OpToRel
<1>. QED
  BY <1>2

\* The place of the first line end lies within the chunk.
LEMMA LineEndPlace ==
  ASSUME NEW d \in Seq(ByteKind), LineEnds(d) # {}
  PROVE  FirstLineEnd(d) \in 1..(Len(d) - 1)
<1>1. LineEnds(d) \subseteq 1..(Len(d) - 1) /\ Len(d) \in Nat
  BY LenProperties DEF LineEnds
<1>2. \E i \in LineEnds(d) : \A j \in LineEnds(d) : i <= j
  BY <1>1, Smallest
<1>3. FirstLineEnd(d) \in LineEnds(d)
  BY <1>2 DEF FirstLineEnd
<1>. QED
  BY <1>1, <1>3

LPType == [buf : Seq(ByteKind), saw_return : BOOLEAN]

\* A call that finds no line appends the chunk to the buffer; a call that finds one leaves
\* the buffer empty.
LEMMA ParseLineFacts ==
  ASSUME NEW p \in LPType, NEW d \in Seq(ByteKind)
  PROVE  LET r == parse_line_http(p, d) IN
         /\ r.used = 0 => r.lp = [buf |-> p.buf \o d, saw_return |-> AfterScan(p.saw_return, d)]
         /\ r.used > 0 => r.lp.buf = <<>>
         /\ r.used \in 0..Len(d)
         /\ r.lp \in LPType
<1>. DEFINE r == parse_line_http(p, d)
<1>0. /\ p.buf \in Seq(ByteKind) /\ p.saw_return \in BOOLEAN /\ Len(d) \in Nat
      /\ <<>> \in Seq(ByteKind)
  BY LenProperties, EmptySeq DEF LPType
<1>1. CASE HeldReturn(p, d)
  <2>1. r = [lp |-> [p EXCEPT !.buf = <<>>], line |-> SubSeq(p.buf, 1, Len(p.buf) - 1), used |-> 1]
    BY <1>1 DEF parse_line_http
  <2>2. [p EXCEPT !.buf = <<>>] \in LPType /\ [p EXCEPT !.buf = <<>>].buf = <<>>
    BY <1>0 DEF LPType
  <2>3. r.used = 1 /\ r.lp = [p EXCEPT !.buf = <<>>]
    BY <2>1
  <2>4. Len(d) > 1
    BY <1>1 DEF HeldReturn
  <2>. QED
    BY <1>0, <2>2, <2>3, <2>4
<1>2. CASE ~ HeldReturn(p, d) /\ LineEnds(d) # {}
  <2>. DEFINE i == FirstLineEnd(d)
              q == [buf |-> <<>>, saw_return |-> AfterScan(p.saw_return, SubSeq(d, 1, i - 1))]
  <2>1. i \in 1..(Len(d) - 1)
    BY <1>2, LineEndPlace
  <2>2. r.used = i + 1 /\ r.lp = q
    BY <1>2 DEF parse_line_http
  <2>3. q \in LPType /\ q.buf = <<>>
    BY <1>0 DEF LPType, AfterScan
  <2>. HIDE DEF i, q
  <2>. QED
    BY <1>0, <2>1, <2>2, <2>3
<1>3. CASE ~ HeldReturn(p, d) /\ LineEnds(d) = {}
  <2>. DEFINE q == [buf |-> p.buf \o d, saw_return |-> AfterScan(p.saw_return, d)]
  <2>1. r.used = 0 /\ r.lp = q
    BY <1>3 DEF parse_line_http
  <2>2. q \in LPType
    <3>1. p.buf \o d \in Seq(ByteKind)
      BY <1>0, ConcatProperties
    <3>2. AfterScan(p.saw_return, d) \in BOOLEAN
      BY <1>0 DEF AfterScan
    <3>. QED
      BY <3>1, <3>2 DEF LPType
  <2>3. q = [buf |-> p.buf \o d, saw_return |-> AfterScan(p.saw_return, d)]
    OBVIOUS
  <2>. QED
    BY <1>0, <2>1, <2>2
<1>. QED
  BY <1>1, <1>2, <1>3

\* The parser starts with an empty buffer.
LEMMA HeldInit == Init => HeldInv
BY HttpAssumption, EmptySeq DEF HttpAssumption, Init, HeldInv, ParserType, HeldIsReturn

\* Every step keeps the held carriage return at the end of the buffer: a call that finds
\* no line appends what it scanned last, and a call that finds one empties the buffer.
LEMMA HeldNext == HeldInv /\ [Next]_vars => HeldInv'
<1>. SUFFICES ASSUME HeldInv, [Next]_vars PROVE HeldInv'
  OBVIOUS
<1>. DEFINE r == parse_line_http(lp, rest)
<1>0. /\ lp \in LPType /\ rest \in Seq(ByteKind) /\ stream \in Seq(ByteKind) /\ fed \in Nat
      /\ Len(rest) \in Nat /\ <<>> \in Seq(ByteKind)
      /\ lp.buf \in Seq(ByteKind) /\ lp.saw_return \in BOOLEAN /\ HeldIsReturn
  BY LenProperties, EmptySeq DEF HeldInv, ParserType, LPType
<1>1. /\ r.used = 0 => r.lp = [buf |-> lp.buf \o rest,
                               saw_return |-> AfterScan(lp.saw_return, rest)]
      /\ r.used > 0 => r.lp.buf = <<>>
      /\ r.used \in 0..Len(rest)
      /\ r.lp \in LPType
  BY <1>0, ParseLineFacts
<1>2. ASSUME NEW k \in 1..Len(stream), Call(k) PROVE HeldInv'
  <2>1. rest' \in Seq(ByteKind) /\ fed' \in Nat
    <3>0. Len(stream) \in Nat /\ k \in Nat
      <4>1. Len(stream) \in Nat
        BY <1>0, LenProperties
      <4>. QED
        BY <4>1
    <3>1. fed + 1 \in Nat \ {0} /\ fed + k \in Int /\ fed + k <= Len(stream)
      <4>1. fed + k <= Len(stream)
        BY <1>2 DEF Call
      <4>. QED
        BY <1>0, <3>0, <4>1
    <3>2. SubSeq(stream, fed + 1, fed + k) \in Seq(ByteKind)
      BY <1>0, <3>1, Piece
    <3>3. rest' = SubSeq(stream, fed + 1, fed + k) /\ fed' = fed + k
      BY <1>2 DEF Call
    <3>. QED
      BY <1>0, <3>0, <3>2, <3>3
  <2>. QED
    BY <1>0, <1>2, <2>1 DEF Call, parser, HeldInv, ParserType, HeldIsReturn, LPType
<1>3. CASE Panic
  BY <1>0, <1>3 DEF Panic, parser, HeldInv, ParserType, HeldIsReturn, LPType
<1>4. CASE NoLine
  <2>1. /\ lp' = [buf |-> lp.buf \o rest, saw_return |-> AfterScan(lp.saw_return, rest)]
        /\ lp' \in LPType /\ rest' = <<>> /\ UNCHANGED <<stream, fed>>
    BY <1>1, <1>4 DEF NoLine
  <2>2. HeldIsReturn'
    <3>. SUFFICES ASSUME lp'.saw_return, lp'.buf # <<>> PROVE lp'.buf[Len(lp'.buf)] = CR
      BY DEF HeldIsReturn
    <3>1. lp'.buf = lp.buf \o rest /\ AfterScan(lp.saw_return, rest)
      BY <2>1
    <3>2. CASE rest = <<>>
      <4>1. lp'.buf = lp.buf /\ lp.saw_return
        BY <1>0, <3>1, <3>2, ConcatEmptySeq DEF AfterScan
      <4>. QED
        BY <1>0, <4>1 DEF HeldIsReturn
    <3>3. CASE rest # <<>>
      <4>1. rest[Len(rest)] = CR
        BY <3>1, <3>3 DEF AfterScan
      <4>2. Len(rest) > 0
        BY <1>0, <3>3, EmptySeq
      <4>3. /\ Len(lp.buf \o rest) = Len(lp.buf) + Len(rest)
            /\ (lp.buf \o rest)[Len(lp.buf) + Len(rest)] = rest[Len(rest)]
        BY <1>0, <4>2, ConcatProperties, LenProperties
      <4>. QED
        BY <3>1, <4>1, <4>3
    <3>. QED
      BY <3>2, <3>3
  <2>. QED
    BY <1>0, <2>1, <2>2 DEF HeldInv, ParserType, LPType
<1>5. ASSUME r.used > 0, lp' = r.lp, UNCHANGED <<stream, fed>>, rest' \in Seq(ByteKind)
      PROVE  HeldInv'
  <2>1. lp' \in LPType /\ lp'.buf = <<>>
    BY <1>1, <1>5
  <2>. QED
    BY <1>0, <1>5, <2>1 DEF HeldInv, ParserType, HeldIsReturn, LPType
<1>6. SubSeq(rest, r.used + 1, Len(rest)) \in Seq(ByteKind)
  <2>1. r.used + 1 \in Nat \ {0}
    BY <1>0, <1>1
  <2>. HIDE DEF r
  <2>. QED
    BY <1>0, <2>1, Piece
<1>7. CASE HeaderLine
  BY <1>5, <1>6, <1>7 DEF HeaderLine, TakeLine
<1>8. CASE EmptyLine
  BY <1>0, <1>5, <1>6, <1>8 DEF EmptyLine, TakeLine
<1>9. CASE UNCHANGED vars
  BY <1>0, <1>9 DEF vars, parser, HeldInv, ParserType, HeldIsReturn, LPType
<1>. QED
  BY <1>2, <1>3, <1>4, <1>7, <1>8, <1>9 DEF Next, Finished

\* Removing the last byte of the buffer always removes the carriage return of a line end,
\* for streams of every length, however they are cut into chunks.
THEOREM HeldCorrect == Spec => []HeldIsReturn
<1>1. HeldInv => HeldIsReturn
  BY DEF HeldInv
<1>. QED
  BY HeldInit, HeldNext, <1>1, PTL DEF Spec

-----------------------------------------------------------------------------
(* Where the parser stands in the stream.                                    *)

\* How many bytes have been parsed, or dropped.
Pos == fed - Len(rest)

\* rest is what follows in the stream; and a parser with nothing in its buffer stands after
\* a line end, unless bytes were dropped.
PosInv ==
  /\ fed <= Len(stream) /\ Len(rest) <= fed
  /\ \A i \in 1..Len(rest) : rest[i] = stream[Pos + i]
  /\ status = "idle" => rest = <<>>
  /\ status = "panicked" => HeldReturn(lp, rest) /\ lp.buf = <<>>
  /\ "after_blank" \notin cuts /\ lp.buf = <<>> => Pos = 0 \/ stream[Pos] = LF

\* The first line end is one, and no line end comes before it.
LEMMA FirstIsFirst ==
  ASSUME NEW d \in Seq(ByteKind), LineEnds(d) # {}
  PROVE  LET i == FirstLineEnd(d) IN
         i \in 1..(Len(d) - 1) /\ d[i] = CR /\ d[i + 1] = LF /\ \A j \in LineEnds(d) : i <= j
<1>1. LineEnds(d) \subseteq 1..(Len(d) - 1) /\ Len(d) \in Nat
  BY LenProperties DEF LineEnds
<1>2. \E i \in LineEnds(d) : \A j \in LineEnds(d) : i <= j
  BY <1>1, Smallest
<1>3. FirstLineEnd(d) \in LineEnds(d) /\ \A j \in LineEnds(d) : FirstLineEnd(d) <= j
  BY <1>2 DEF FirstLineEnd
<1>. QED
  BY <1>3 DEF LineEnds

\* A call that finds a line finds it at a line feed.
LEMMA UsedEndsAtLF ==
  ASSUME NEW p \in LPType, NEW d \in Seq(ByteKind), parse_line_http(p, d).used > 0
  PROVE  LET u == parse_line_http(p, d).used IN u \in 1..Len(d) /\ d[u] = LF
<1>1. Len(d) \in Nat
  BY LenProperties
<1>2. CASE HeldReturn(p, d)
  <2>1. parse_line_http(p, d).used = 1
    BY <1>2 DEF parse_line_http
  <2>. QED
    BY <1>1, <1>2, <2>1 DEF HeldReturn
<1>3. CASE ~ HeldReturn(p, d) /\ LineEnds(d) # {}
  <2>1. parse_line_http(p, d).used = FirstLineEnd(d) + 1
    BY <1>3 DEF parse_line_http
  <2>. QED
    BY <1>1, <1>3, <2>1, FirstIsFirst
<1>4. CASE ~ HeldReturn(p, d) /\ LineEnds(d) = {}
  BY <1>4 DEF parse_line_http
<1>. QED
  BY <1>2, <1>3, <1>4

\* What is left of rest after u bytes of it.
LEMMA RestCut ==
  ASSUME NEW d \in Seq(ByteKind), NEW u \in 0..Len(d)
  PROVE  LET q == SubSeq(d, u + 1, Len(d)) IN
         /\ q \in Seq(ByteKind) /\ Len(q) = Len(d) - u
         /\ \A i \in 1..Len(q) : q[i] = d[u + i]
<1>. DEFINE q == SubSeq(d, u + 1, Len(d))
<1>1. Len(d) \in Nat
  BY LenProperties
<1>2. \A i \in (u + 1)..Len(d) : d[i] \in ByteKind
  BY <1>1, ElementOfSeq
<1>3. /\ q \in Seq(ByteKind) /\ Len(q) = IF u + 1 <= Len(d) THEN Len(d) - (u + 1) + 1 ELSE 0
      /\ \A i \in 1..(Len(d) - (u + 1) + 1) : q[i] = d[(u + 1) + i - 1]
  BY <1>1, <1>2, SubSeqProperties
<1>. HIDE DEF q
<1>4. Len(q) = Len(d) - u
  BY <1>1, <1>3
<1>5. \A i \in 1..Len(q) : q[i] = d[u + i]
  BY <1>1, <1>3, <1>4
<1>. QED
  BY <1>3, <1>4, <1>5 DEF q

\* The k bytes after the first f.
LEMMA Chunk ==
  ASSUME NEW d \in Seq(ByteKind), NEW f \in Nat, NEW k \in Nat, f + k <= Len(d)
  PROVE  LET q == SubSeq(d, f + 1, f + k) IN
         q \in Seq(ByteKind) /\ Len(q) = k /\ \A i \in 1..k : q[i] = d[f + i]
<1>. DEFINE m == f + 1
            n == f + k
            q == SubSeq(d, m, n)
<1>1. Len(d) \in Nat /\ m \in Int /\ n \in Int
  BY LenProperties
<1>2. \A i \in m..n : d[i] \in ByteKind
  BY <1>1, ElementOfSeq
<1>3. n - m + 1 = k /\ (m <= n <=> k # 0) /\ \A i \in 1..k : m + i - 1 = f + i
  OBVIOUS
<1>. HIDE DEF m, n
<1>4. /\ q \in Seq(ByteKind) /\ Len(q) = IF m <= n THEN n - m + 1 ELSE 0
      /\ \A i \in 1..(n - m + 1) : q[i] = d[m + i - 1]
  BY <1>1, <1>2, SubSeqProperties
<1>. HIDE DEF q
<1>5. q \in Seq(ByteKind) /\ Len(q) = k /\ \A i \in 1..k : q[i] = d[f + i]
  BY <1>3, <1>4
<1>. QED
  BY <1>5 DEF q, m, n

\* The parser starts at the beginning.
LEMMA PosInit == Init => PosInv
<1>. SUFFICES ASSUME Init PROVE PosInv
  OBVIOUS
<1>1. /\ stream \in Seq(ByteKind) /\ fed = 0 /\ rest = <<>> /\ Len(rest) = 0 /\ status = "idle"
  BY HttpAssumption DEF HttpAssumption, Init
<1>2. Len(stream) \in Nat
  BY <1>1, LenProperties
<1>3. Pos = 0
  <2>1. fed = 0 /\ Len(rest) = 0
    BY <1>1
  <2>. QED
    BY <2>1 DEF Pos
<1>4. /\ fed <= Len(stream) /\ Len(rest) <= fed
      /\ \A i \in 1..Len(rest) : rest[i] = stream[Pos + i]
  BY <1>1, <1>2
<1>. QED
  BY <1>1, <1>3, <1>4 DEF PosInv

\* A step that takes u bytes of rest, and drops the others or not.
LEMMA PosTake ==
  ASSUME HeldInv, PosInv, NEW u \in 1..Len(rest), rest[u] = LF,
         stream' = stream, fed' = fed, status' \in {"loop", "idle", "complete", "error"},
         \/ rest' = SubSeq(rest, u + 1, Len(rest)) /\ status' # "idle"
         \/ rest' = <<>> /\ (u < Len(rest) => "after_blank" \in cuts')
  PROVE  /\ PosInv'
         /\ "after_blank" \notin cuts' => Pos' = Pos + u
<1>0. /\ rest \in Seq(ByteKind) /\ Len(rest) \in Nat /\ fed \in Nat
      /\ Len(stream) \in Nat
  BY LenProperties DEF HeldInv, ParserType
<1>1. CASE rest' = SubSeq(rest, u + 1, Len(rest)) /\ status' # "idle"
  <2>1. Len(rest') = Len(rest) - u /\ \A i \in 1..Len(rest') : rest'[i] = rest[u + i]
    BY <1>0, <1>1, RestCut
  <2>2. Pos' = Pos + u /\ Len(rest') <= fed
    BY <1>0, <2>1 DEF PosInv, Pos
  <2>3. \A i \in 1..Len(rest') : rest'[i] = stream[Pos' + i]
    <3>. TAKE i \in 1..Len(rest')
    <3>1. u + i \in 1..Len(rest) /\ Pos + (u + i) = Pos' + i
      BY <1>0, <2>1, <2>2 DEF PosInv, Pos
    <3>. QED
      BY <2>1, <3>1 DEF PosInv
  <2>4. stream[Pos'] = LF
    BY <2>2 DEF PosInv
  <2>. QED
    BY <1>1, <2>2, <2>3, <2>4 DEF PosInv
<1>2. CASE rest' = <<>> /\ (u < Len(rest) => "after_blank" \in cuts')
  <2>1. Len(rest') = 0 /\ Pos' = fed
    BY <1>0, <1>2 DEF Pos
  <2>2. "after_blank" \notin cuts' => Pos' = Pos + u /\ stream[Pos'] = LF
    <3>. SUFFICES ASSUME "after_blank" \notin cuts' PROVE Pos' = Pos + u /\ stream[Pos'] = LF
      OBVIOUS
    <3>1. u = Len(rest)
      BY <1>0, <1>2
    <3>2. Pos' = Pos + u
      BY <1>0, <2>1, <3>1 DEF Pos
    <3>. QED
      BY <3>2 DEF PosInv
  <2>. QED
    BY <1>0, <1>2, <2>1, <2>2 DEF PosInv
<1>. QED
  BY <1>1, <1>2

\* What a chunk and the state before it make of the position: nothing.
LEMMA PosCall ==
  ASSUME HeldInv, PosInv, NEW k \in 1..Len(stream), Call(k)
  PROVE  PosInv' /\ Pos' = Pos /\ Len(rest') = k
<1>0. /\ stream \in Seq(ByteKind) /\ Len(stream) \in Nat /\ fed \in Nat /\ Len(rest) = 0
  <2>1. stream \in Seq(ByteKind) /\ Len(stream) \in Nat /\ fed \in Nat
    BY LenProperties DEF HeldInv, ParserType
  <2>2. rest = <<>>
    BY DEF Call, PosInv
  <2>. QED
    BY <2>1, <2>2
<1>1. /\ rest' = SubSeq(stream, fed + 1, fed + k) /\ fed' = fed + k /\ fed + k <= Len(stream)
      /\ status' = "loop" /\ stream' = stream /\ lp' = lp
      /\ "after_blank" \notin cuts' => "after_blank" \notin cuts
  BY DEF Call, parser
<1>2. /\ Len(rest') = k /\ \A i \in 1..k : rest'[i] = stream[fed + i]
  <2>1. PICK f \in Nat : f = fed
    BY <1>0
  <2>2. /\ Len(SubSeq(stream, f + 1, f + k)) = k
        /\ \A i \in 1..k : SubSeq(stream, f + 1, f + k)[i] = stream[f + i]
    <3>1. k \in Nat /\ f + k <= Len(stream)
      BY <1>0, <1>1, <2>1
    <3>. QED
      BY <1>0, <3>1, Chunk
  <2>. QED
    BY <1>1, <2>1, <2>2
<1>3. Pos = fed /\ Pos' = fed
  <2>1. fed' = fed + k /\ Len(rest') = k /\ Len(rest) = 0 /\ fed \in Nat /\ k \in Int
    BY <1>0, <1>1, <1>2
  <2>2. fed - 0 = fed /\ (fed + k) - k = fed
    BY <2>1
  <2>. QED
    BY <2>1, <2>2, Zenon DEF Pos
<1>4. \A i \in 1..Len(rest') : rest'[i] = stream[Pos' + i]
  BY <1>2, <1>3
<1>5. fed' <= Len(stream) /\ Len(rest') <= fed'
  BY <1>0, <1>1, <1>2
<1>. QED
  BY <1>1, <1>2, <1>3, <1>4, <1>5 DEF PosInv

\* A call without a line end takes the whole chunk into the buffer.
LEMMA PosNoLine ==
  ASSUME HeldInv, PosInv, NoLine
  PROVE  /\ PosInv' /\ Pos' = fed /\ Pos' = Pos + Len(rest)
         /\ lp' = [buf |-> lp.buf \o rest, saw_return |-> AfterScan(lp.saw_return, rest)]
<1>0. /\ stream \in Seq(ByteKind) /\ Len(stream) \in Nat /\ fed \in Nat
      /\ rest \in Seq(ByteKind) /\ Len(rest) \in Nat /\ lp \in LPType /\ lp.buf \in Seq(ByteKind)
  BY LenProperties DEF HeldInv, ParserType, LPType
<1>1. /\ rest' = <<>> /\ fed' = fed /\ stream' = stream /\ status' = "idle" /\ cuts' = cuts
      /\ lp' = [buf |-> lp.buf \o rest, saw_return |-> AfterScan(lp.saw_return, rest)]
  BY <1>0, ParseLineFacts DEF NoLine
<1>2. Len(rest') = 0 /\ Pos' = fed /\ Pos' = Pos + Len(rest)
  BY <1>0, <1>1 DEF Pos
<1>3. ASSUME lp'.buf = <<>> PROVE lp.buf = <<>> /\ Pos' = Pos
  <2>1. lp.buf \o rest = <<>>
    BY <1>1, <1>3
  <2>2. lp.buf = <<>> /\ rest = <<>>
    BY <1>0, <2>1, ConcatEqualIffEmpty
  <2>3. Len(rest) = 0
    BY <2>2
  <2>. QED
    BY <1>0, <1>2, <2>2, <2>3 DEF Pos
<1>4. \A i \in 1..Len(rest') : rest'[i] = stream[Pos' + i]
  BY <1>2
<1>5. fed <= Len(stream) /\ Len(rest') <= fed
  BY <1>0, <1>2 DEF PosInv
<1>6. "after_blank" \notin cuts' /\ lp'.buf = <<>> => Pos' = 0 \/ stream[Pos'] = LF
  BY <1>1, <1>3 DEF PosInv
<1>. QED
  BY <1>1, <1>2, <1>4, <1>5, <1>6 DEF PosInv

\* A call that finds a line: the parser is behind its line feed, unless bytes were dropped.
LEMMA PosLine ==
  ASSUME HeldInv, PosInv, HeaderLine \/ EmptyLine
  PROVE  LET r == parse_line_http(lp, rest) IN
         /\ PosInv' /\ r.used \in 1..Len(rest) /\ rest[r.used] = LF
         /\ stream' = stream /\ fed' = fed /\ lp' = r.lp
         /\ lines' = Append(lines, r.line) /\ data' = data \o SubSeq(rest, 1, r.used)
         /\ cuts' = cuts \/ cuts' = cuts \cup {"after_blank"}
         /\ "after_blank" \notin cuts' => Pos' = Pos + r.used
<1>. DEFINE r == parse_line_http(lp, rest)
<1>0. rest \in Seq(ByteKind) /\ lp \in LPType
  BY DEF HeldInv, ParserType, LPType
<1>1. /\ status = "loop" /\ r.used > 0 /\ lp' = r.lp /\ lines' = Append(lines, r.line)
      /\ data' = data \o SubSeq(rest, 1, r.used)
  BY DEF HeaderLine, EmptyLine, TakeLine
<1>2. r.used \in 1..Len(rest) /\ rest[r.used] = LF
  BY <1>0, <1>1, UsedEndsAtLF
<1>3. /\ stream' = stream /\ fed' = fed /\ status' \in {"loop", "idle", "complete", "error"}
      /\ cuts' = cuts \/ cuts' = cuts \cup {"after_blank"}
      /\ \/ rest' = SubSeq(rest, r.used + 1, Len(rest)) /\ status' # "idle"
         \/ rest' = <<>> /\ (r.used < Len(rest) => "after_blank" \in cuts')
  <2>1. CASE HeaderLine
    BY <1>1, <2>1 DEF HeaderLine
  <2>2. CASE EmptyLine
    <3>. HIDE DEF r
    <3>1. /\ stream' = stream /\ fed' = fed /\ status' \in httparse(data', lines_cnt)
          /\ rest' = IF status' = "idle" THEN <<>> ELSE SubSeq(rest, r.used + 1, Len(rest))
          /\ cuts' = IF status' = "idle" /\ r.used < Len(rest)
                     THEN cuts \cup {"after_blank"} ELSE cuts
      BY <2>2 DEF EmptyLine, r
    <3>2. status' \in {"idle", "complete", "error"}
      BY <3>1 DEF httparse
    <3>. QED
      BY <3>1, <3>2
  <2>. QED
    BY <2>1, <2>2
<1>. HIDE DEF r
<1>4. PosInv' /\ ("after_blank" \notin cuts' => Pos' = Pos + r.used)
  BY <1>2, <1>3, PosTake
<1>. QED
  BY <1>1, <1>2, <1>3, <1>4 DEF r

\* Each step keeps the position.
LEMMA PosNext == HeldInv /\ PosInv /\ [Next]_vars => PosInv'
<1>. SUFFICES ASSUME HeldInv, PosInv, [Next]_vars PROVE PosInv'
  OBVIOUS
<1>1. CASE Panic
  BY <1>1 DEF Panic, PosInv, Pos, parser
<1>2. CASE UNCHANGED vars \/ Finished
  BY <1>2 DEF Finished, vars, parser, PosInv, Pos
<1>. QED
  BY <1>1, <1>2, PosCall, PosNoLine, PosLine DEF Next

\* Held bytes and position are right in every reachable state.
LEMMA PosCorrect == Spec => [](HeldInv /\ PosInv)
<1>. QED
  BY HeldInit, HeldNext, PosInit, PosNext, PTL DEF Spec

\* parse_line_http removes from an empty buffer only when a line feed comes without its
\* carriage return, or bytes were dropped: for streams of every length.
THEOREM PanicCause == Spec => []PanicNeedsBareLF
<1>1. HeldInv /\ PosInv => PanicNeedsBareLF
  <2>. SUFFICES ASSUME HeldInv, PosInv, status = "panicked", NoBareLF, "after_blank" \notin cuts
                PROVE  FALSE
    BY DEF PanicNeedsBareLF
  <2>1. /\ Len(rest) > 1 /\ rest[1] = LF /\ (Pos = 0 \/ stream[Pos] = LF)
    BY DEF PosInv, HeldReturn
  <2>2. /\ stream \in Seq(ByteKind) /\ DOMAIN stream = 1..Len(stream) /\ Len(stream) \in Nat
        /\ Len(rest) \in Nat /\ fed \in Nat
    BY LenProperties DEF HeldInv, ParserType
  <2>3. stream[Pos + 1] = LF /\ Pos + 1 \in DOMAIN stream /\ Pos \in Nat
    <3>1. rest[1] = stream[Pos + 1]
      BY <2>1, <2>2 DEF PosInv
    <3>. QED
      BY <2>1, <2>2, <3>1 DEF PosInv, Pos
  <2>4. Pos + 1 > 1 /\ stream[(Pos + 1) - 1] = CR
    BY <2>3 DEF NoBareLF
  <2>5. (Pos + 1) - 1 = Pos /\ Pos # 0
    BY <2>3, <2>4
  <2>. QED
    BY <2>1, <2>4, <2>5 DEF CR, LF
<1>. QED
  BY <1>1, PosCorrect, PTL

-----------------------------------------------------------------------------
(* Pieces of the stream.                                                     *)

\* The bytes of a piece.
LEMMA PieceBytes ==
  ASSUME NEW d \in Seq(ByteKind), NEW a \in Nat \ {0}, NEW b \in Nat, a <= b + 1, b <= Len(d)
  PROVE  LET q == SubSeq(d, a, b) IN
         q \in Seq(ByteKind) /\ Len(q) = b - a + 1 /\ \A i \in 1..(b - a + 1) : q[i] = d[a + i - 1]
<1>. DEFINE q == SubSeq(d, a, b)
<1>1. Len(d) \in Nat
  BY LenProperties
<1>2. \A i \in a..b : d[i] \in ByteKind
  BY <1>1, ElementOfSeq
<1>3. /\ q \in Seq(ByteKind) /\ Len(q) = IF a <= b THEN b - a + 1 ELSE 0
      /\ \A i \in 1..(b - a + 1) : q[i] = d[a + i - 1]
  BY <1>2, SubSeqProperties
<1>. HIDE DEF q
<1>4. Len(q) = b - a + 1
  BY <1>3
<1>. QED
  BY <1>3, <1>4 DEF q

\* A piece and what follows it in the stream make a longer piece.
LEMMA Window ==
  ASSUME NEW d \in Seq(ByteKind), NEW a \in Nat \ {0}, NEW p \in Nat, a <= p + 1,
         NEW w \in Seq(ByteKind), p + Len(w) <= Len(d), \A i \in 1..Len(w) : w[i] = d[p + i]
  PROVE  SubSeq(d, a, p) \o w = SubSeq(d, a, p + Len(w))
<1>1. PICK k \in Nat : k = Len(w)
  BY LenProperties
<1>2. PICK n \in Nat : n = Len(d) /\ p + k <= n
  BY <1>1, LenProperties
<1>. DEFINE s == SubSeq(d, a, p)
            q == SubSeq(d, a, p + k)
            c == s \o w
<1>3. s \in Seq(ByteKind) /\ Len(s) = p - a + 1 /\ \A i \in 1..(p - a + 1) : s[i] = d[a + i - 1]
  <2>1. p <= Len(d)
    BY <1>2
  <2>. QED
    BY <2>1, PieceBytes
<1>4. /\ q \in Seq(ByteKind) /\ Len(q) = (p + k) - a + 1
      /\ \A i \in 1..((p + k) - a + 1) : q[i] = d[a + i - 1]
  <2>1. p + k \in Nat /\ a <= (p + k) + 1 /\ p + k <= Len(d)
    BY <1>1, <1>2
  <2>. QED
    BY <2>1, PieceBytes
<1>. HIDE DEF s, q
<1>5. /\ c \in Seq(ByteKind) /\ Len(c) = Len(s) + Len(w)
      /\ \A i \in 1..Len(s) + Len(w) : c[i] = IF i <= Len(s) THEN s[i] ELSE w[i - Len(s)]
  BY <1>3, ConcatProperties, Zenon
<1>. HIDE DEF c
<1>6. Len(c) = Len(q)
  BY <1>1, <1>3, <1>4, <1>5
<1>7. ASSUME NEW i \in 1..Len(c) PROVE c[i] = q[i]
  <2>1. i \in 1..((p + k) - a + 1) /\ i \in 1..(Len(s) + Len(w))
    BY <1>4, <1>5, <1>6
  <2>2. q[i] = d[a + i - 1]
    BY <1>4, <2>1
  <2>3. CASE i <= p - a + 1
    <3>1. i <= Len(s) /\ i \in 1..(p - a + 1)
      BY <1>3, <2>1, <2>3
    <3>. QED
      BY <1>3, <1>5, <2>1, <2>2, <3>1
  <2>4. CASE ~ (i <= p - a + 1)
    <3>1. /\ ~ (i <= Len(s)) /\ i - Len(s) \in 1..Len(w) /\ p + (i - Len(s)) = a + i - 1
      BY <1>1, <1>3, <2>1, <2>4
    <3>2. c[i] = w[i - Len(s)]
      BY <1>5, <2>1, <3>1
    <3>3. w[i - Len(s)] = d[p + (i - Len(s))]
      BY <3>1
    <3>. QED
      BY <2>2, <3>1, <3>2, <3>3
  <2>. QED
    BY <2>3, <2>4
<1>8. c = q
  BY <1>4, <1>5, <1>6, <1>7, SeqEqual
<1>. QED
  BY <1>1, <1>8 DEF c, s, q

-----------------------------------------------------------------------------
(* What httparse is given.                                                   *)

\* When no chunk ends within a line, data and the buffer together are what was parsed, and
\* the buffer is filled only by the last turn of a call.
HeaderInv ==
  /\ data \in Seq(ByteKind)
  /\ cuts \subseteq {"lone_LF"} =>
       /\ data \o lp.buf = SubSeq(stream, 1, Pos)
       /\ status # "idle" => lp.buf = <<>>

\* Both are empty at the start.
LEMMA HeaderInit == Init => HeaderInv
<1>. SUFFICES ASSUME Init PROVE HeaderInv
  OBVIOUS
<1>1. data = <<>> /\ lp.buf = <<>> /\ fed = 0 /\ Len(rest) = 0 /\ status = "idle"
  BY DEF Init
<1>2. Pos = 0
  BY <1>1 DEF Pos
<1>3. SubSeq(stream, 1, Pos) = <<>>
  BY <1>2, SubSeqEmpty
<1>4. <<>> \in Seq(ByteKind) /\ <<>> \o <<>> = <<>>
  BY EmptySeq, ConcatEmptySeq
<1>. QED
  BY <1>1, <1>3, <1>4 DEF HeaderInv

\* The position lies in the stream.
LEMMA PosType ==
  ASSUME HeldInv, PosInv
  PROVE  Pos \in Nat /\ Pos + Len(rest) = fed /\ Pos <= Len(stream)
<1>0. Len(stream) \in Nat /\ fed \in Nat /\ Len(rest) \in Nat
  BY LenProperties DEF HeldInv, ParserType
<1>1. fed <= Len(stream) /\ Len(rest) <= fed
  BY DEF PosInv
<1>. QED
  BY <1>0, <1>1 DEF Pos

\* Taking u bytes of rest.
LEMMA SeenGrows ==
  ASSUME HeldInv, PosInv, NEW u \in 0..Len(rest), NEW a \in Nat \ {0}, a <= Pos + 1
  PROVE  SubSeq(stream, a, Pos) \o SubSeq(rest, 1, u) = SubSeq(stream, a, Pos + u)
<1>0. /\ stream \in Seq(ByteKind) /\ Len(stream) \in Nat /\ fed \in Nat
      /\ rest \in Seq(ByteKind) /\ Len(rest) \in Nat
  BY LenProperties DEF HeldInv, ParserType
<1>1. PICK p \in Nat : p = Pos
  BY PosType
<1>. DEFINE w == SubSeq(rest, 1, u)
<1>2. w \in Seq(ByteKind) /\ Len(w) = u /\ \A i \in 1..u : w[i] = rest[i]
  <2>1. /\ w \in Seq(ByteKind) /\ Len(w) = u - 1 + 1
        /\ \A i \in 1..(u - 1 + 1) : w[i] = rest[1 + i - 1]
    <3>1. 1 \in Nat \ {0} /\ u \in Nat /\ 1 <= u + 1 /\ u <= Len(rest)
      BY <1>0
    <3>. QED
      BY <1>0, <3>1, PieceBytes
  <2>. HIDE DEF w
  <2>. QED
    BY <1>0, <2>1
<1>. HIDE DEF w
<1>3. \A i \in 1..Len(w) : w[i] = stream[p + i]
  <2>. TAKE i \in 1..Len(w)
  <2>1. i \in 1..u /\ i \in 1..Len(rest)
    BY <1>0, <1>2
  <2>. QED
    BY <1>1, <1>2, <2>1 DEF PosInv
<1>4. p + Len(w) <= Len(stream) /\ a <= p + 1
  <2>1. p + Len(rest) = fed /\ fed <= Len(stream)
    BY <1>0, <1>1 DEF PosInv, Pos
  <2>. QED
    BY <1>0, <1>1, <1>2, <2>1
<1>5. SubSeq(stream, a, p) \o w = SubSeq(stream, a, p + Len(w))
  BY <1>0, <1>2, <1>3, <1>4, Window
<1>. QED
  BY <1>1, <1>2, <1>5 DEF w

\* Each step keeps HeaderInv.
LEMMA HeaderNext == HeldInv /\ PosInv /\ HeaderInv /\ [Next]_vars => HeaderInv'
<1>. SUFFICES ASSUME HeldInv, PosInv, HeaderInv, [Next]_vars PROVE HeaderInv'
  OBVIOUS
<1>0. /\ data \in Seq(ByteKind) /\ lp.buf \in Seq(ByteKind) /\ rest \in Seq(ByteKind)
      /\ Len(rest) \in Nat /\ lp \in LPType /\ <<>> \in Seq(ByteKind)
  BY LenProperties, EmptySeq DEF HeldInv, ParserType, HeaderInv, LPType
<1>p. 1 \in Nat \ {0} /\ 1 <= Pos + 1
  BY PosType
<1>1. ASSUME NEW k \in 1..Len(stream), Call(k) PROVE HeaderInv'
  <2>1. Pos' = Pos /\ stream' = stream /\ data' = data /\ lp' = lp
    BY <1>1, PosCall DEF Call, parser
  <2>2. ASSUME cuts' \subseteq {"lone_LF"} PROVE cuts \subseteq {"lone_LF"} /\ lp.buf = <<>>
    <3>1. cuts \subseteq cuts' /\ (lp.buf # <<>> => "within_line" \in cuts')
      BY <1>1 DEF Call
    <3>. QED
      BY <2>2, <3>1
  <2>. QED
    BY <2>1, <2>2 DEF HeaderInv
<1>2. CASE Panic
  <2>1. /\ Pos' = Pos /\ stream' = stream /\ data' = data /\ lp' = lp /\ cuts' = cuts
        /\ status = "loop"
    BY <1>2 DEF Panic, parser, Pos
  <2>. QED
    BY <2>1 DEF HeaderInv
<1>3. CASE NoLine
  <2>1. /\ Pos' = Pos + Len(rest) /\ lp'.buf = lp.buf \o rest /\ status' = "idle"
        /\ data' = data /\ cuts' = cuts /\ stream' = stream
    BY <1>3, PosNoLine DEF NoLine
  <2>2. SubSeq(stream, 1, Pos) \o rest = SubSeq(stream, 1, Pos + Len(rest))
    <3>1. SubSeq(rest, 1, Len(rest)) = rest
      BY <1>0, SubSeqFull
    <3>2. Len(rest) \in 0..Len(rest)
      BY <1>0
    <3>3. SubSeq(stream, 1, Pos) \o SubSeq(rest, 1, Len(rest)) = SubSeq(stream, 1, Pos + Len(rest))
      BY <1>p, <3>2, SeenGrows
    <3>. QED
      BY <3>1, <3>3, Zenon
  <2>3. data \o (lp.buf \o rest) = (data \o lp.buf) \o rest
    <3>1. PICK b \in Seq(ByteKind) : b = lp.buf
      BY <1>0
    <3>2. (data \o b) \o rest = data \o (b \o rest)
      <4>1. data \in Seq(ByteKind) /\ rest \in Seq(ByteKind)
        BY <1>0
      <4>. QED
        BY <4>1, ConcatAssociative
    <3>. QED
      BY <3>1, <3>2, Zenon
  <2>4. cuts \subseteq {"lone_LF"} => data \o lp'.buf = SubSeq(stream, 1, Pos')
    <3>1. cuts \subseteq {"lone_LF"} => data \o lp.buf = SubSeq(stream, 1, Pos)
      BY DEF HeaderInv
    <3>. QED
      BY <2>1, <2>2, <2>3, <3>1, Zenon
  <2>. QED
    BY <1>0, <2>1, <2>4 DEF HeaderInv
<1>4. CASE HeaderLine \/ EmptyLine
  <2>1. PICK u \in 1..Len(rest) : u = parse_line_http(lp, rest).used
    BY <1>4, PosLine
  <2>2. /\ stream' = stream /\ status = "loop" /\ lp'.buf = <<>>
        /\ data' = data \o SubSeq(rest, 1, u)
        /\ cuts' = cuts \/ cuts' = cuts \cup {"after_blank"}
        /\ "after_blank" \notin cuts' => Pos' = Pos + u
    <3>1. parse_line_http(lp, rest).used > 0
      BY <1>0, <2>1
    <3>2. parse_line_http(lp, rest).lp.buf = <<>>
      BY <1>0, <3>1, ParseLineFacts
    <3>3. status = "loop"
      BY <1>4 DEF HeaderLine, EmptyLine, TakeLine
    <3>. QED
      BY <1>4, <2>1, <3>2, <3>3, PosLine
  <2>3. data' \in Seq(ByteKind)
    <3>1. SubSeq(rest, 1, u) \in Seq(ByteKind)
      <4>1. 1 \in Nat \ {0} /\ u \in Int /\ u <= Len(rest)
        BY <1>0
      <4>. QED
        BY <1>0, <4>1, Piece
    <3>. QED
      BY <1>0, <2>2, <3>1, ConcatProperties
  <2>4. ASSUME cuts' \subseteq {"lone_LF"} PROVE data' \o lp'.buf = SubSeq(stream', 1, Pos')
    <3>1. cuts \subseteq {"lone_LF"} /\ Pos' = Pos + u
      BY <2>2, <2>4
    <3>2. data \o <<>> = SubSeq(stream, 1, Pos)
      BY <2>2, <3>1 DEF HeaderInv
    <3>3. data = SubSeq(stream, 1, Pos)
      BY <1>0, <3>2, ConcatEmptySeq
    <3>4. u \in 0..Len(rest)
      BY <1>0
    <3>5. SubSeq(stream, 1, Pos) \o SubSeq(rest, 1, u) = SubSeq(stream, 1, Pos + u)
      BY <1>p, <3>4, SeenGrows
    <3>6. data' = SubSeq(stream', 1, Pos')
      BY <2>2, <3>1, <3>3, <3>5, Zenon
    <3>7. data' \o <<>> = data'
      BY <2>3, ConcatEmptySeq
    <3>. QED
      BY <2>2, <3>6, <3>7, Zenon
  <2>. QED
    BY <2>2, <2>3, <2>4 DEF HeaderInv
<1>5. CASE UNCHANGED vars \/ Finished
  BY <1>5 DEF Finished, vars, parser, HeaderInv, Pos
<1>. QED
  BY <1>1, <1>2, <1>3, <1>4, <1>5 DEF Next

\* httparse is given exactly the bytes of the stream up to the blank line, for streams of
\* every length, when no chunk ends within a line and none is cut after a leading blank one.
THEOREM HeaderKept == Spec => []HeaderIntact
<1>1. HeldInv /\ PosInv /\ HeaderInv => HeaderIntact
  <2>. SUFFICES ASSUME HeldInv, PosInv, HeaderInv, status \in {"complete", "error"},
                       cuts \subseteq {"lone_LF"}
                PROVE  data = Seen
    BY DEF HeaderIntact
  <2>1. data \in Seq(ByteKind) /\ lp.buf = <<>> /\ data \o lp.buf = SubSeq(stream, 1, Pos)
    BY DEF HeaderInv
  <2>2. data \o <<>> = data
    BY <2>1, ConcatEmptySeq
  <2>. QED
    BY <2>1, <2>2, Zenon DEF Seen, Pos
<1>. QED
  BY <1>1, PosCorrect, HeaderInit, HeaderNext, PTL DEF Spec

-----------------------------------------------------------------------------
(* The lines that come out.                                                  *)

\* The line ends of d in its first p bytes.
EndsTo(d, p) == {i \in 1..(p - 1) : d[i] = CR /\ d[i + 1] = LF}

\* ls are the lines of the first p bytes of d, ended at the places e, and t is the line begun.
PartedBy(d, p, ls, t, e) ==
  /\ e \in [1..Len(ls) -> EndsTo(d, p)]
  /\ EndsTo(d, p) = {e[n] : n \in 1..Len(ls)}
  /\ \A n \in 1..Len(ls) : LineStart(e, n - 1) <= e[n]
  /\ \A n \in 1..Len(ls) : ls[n] = SubSeq(d, LineStart(e, n - 1), e[n] - 1)
  /\ t = SubSeq(d, LineStart(e, Len(ls)), p)

\* The lines are those of the stream, and a carriage return at the end of the buffer is
\* remembered.
LinesInv ==
  /\ lines \in Seq(Seq(ByteKind))
  /\ lp.buf # <<>> /\ lp.buf[Len(lp.buf)] = CR => lp.saw_return
  /\ status = "loop" /\ lp.buf # <<>> /\ rest = <<LF>> => "lone_LF" \in cuts
  /\ cuts \subseteq {"within_line"} => \E e : PartedBy(stream, Pos, lines, lp.buf, e)

\* The line begun starts in what was parsed, or right behind it.
LEMMA BegunAt ==
  ASSUME NEW d, NEW p \in Nat, NEW ls, Len(ls) \in Nat, NEW t, NEW e, PartedBy(d, p, ls, t, e)
  PROVE  LineStart(e, Len(ls)) \in Nat \ {0} /\ LineStart(e, Len(ls)) <= p + 1
<1>1. CASE Len(ls) = 0
  BY <1>1 DEF LineStart
<1>2. CASE Len(ls) # 0
  <2>1. Len(ls) \in 1..Len(ls)
    BY <1>2
  <2>2. e[Len(ls)] \in EndsTo(d, p)
    BY <2>1 DEF PartedBy
  <2>3. e[Len(ls)] \in 1..(p - 1)
    BY <2>2 DEF EndsTo
  <2>. QED
    BY <1>2, <2>3 DEF LineStart
<1>. QED
  BY <1>1, <1>2

\* More bytes without a line end make the line begun longer.
LEMMA TailGrows ==
  ASSUME NEW d \in Seq(ByteKind), NEW p \in Nat, NEW ls, Len(ls) \in Nat, NEW t, NEW e,
         PartedBy(d, p, ls, t, e),
         NEW w \in Seq(ByteKind), p + Len(w) <= Len(d), \A i \in 1..Len(w) : w[i] = d[p + i],
         EndsTo(d, p + Len(w)) = EndsTo(d, p)
  PROVE  PartedBy(d, p + Len(w), ls, t \o w, e)
<1>1. PICK a \in Nat \ {0} : a = LineStart(e, Len(ls)) /\ a <= p + 1
  BY BegunAt
<1>2. SubSeq(d, a, p) \o w = SubSeq(d, a, p + Len(w))
  BY <1>1, Window
<1>3. t \o w = SubSeq(d, LineStart(e, Len(ls)), p + Len(w))
  BY <1>1, <1>2, Zenon DEF PartedBy
<1>. QED
  BY <1>3, Zenon DEF PartedBy

\* A line end makes what was begun a line, and nothing is begun behind it.
LEMMA LineGrows ==
  ASSUME NEW d \in Seq(ByteKind), NEW p \in Nat, NEW ls \in Seq(Seq(ByteKind)), NEW t, NEW e,
         PartedBy(d, p, ls, t, e),
         NEW x \in Nat, x + 1 <= Len(d), LineStart(e, Len(ls)) <= x,
         EndsTo(d, x + 1) = EndsTo(d, p) \cup {x},
         NEW l \in Seq(ByteKind), l = SubSeq(d, LineStart(e, Len(ls)), x - 1)
  PROVE  \E f : PartedBy(d, x + 1, Append(ls, l), <<>>, f)
<1>1. PICK m \in Nat : m = Len(ls)
  BY LenProperties
<1>. DEFINE ks == Append(ls, l)
            f == [n \in 1..(m + 1) |-> IF n = m + 1 THEN x ELSE e[n]]
<1>2. Len(ks) = m + 1 /\ ks[m + 1] = l /\ \A n \in 1..m : ks[n] = ls[n]
  BY <1>1, AppendProperties
<1>. HIDE DEF ks
<1>3. f[m + 1] = x /\ (\A n \in 1..m : f[n] = e[n]) /\ DOMAIN f = 1..(m + 1)
  BY <1>1
<1>4. /\ e \in [1..m -> EndsTo(d, p)] /\ EndsTo(d, p) = {e[n] : n \in 1..m}
      /\ \A n \in 1..m : LineStart(e, n - 1) <= e[n]
      /\ \A n \in 1..m : ls[n] = SubSeq(d, LineStart(e, n - 1), e[n] - 1)
  BY <1>1 DEF PartedBy
<1>5. f \in [1..(m + 1) -> EndsTo(d, x + 1)]
  BY <1>4
<1>. HIDE DEF f
<1>6. EndsTo(d, x + 1) = {f[n] : n \in 1..(m + 1)}
  <2>1. ASSUME NEW i \in EndsTo(d, p) PROVE \E n \in 1..(m + 1) : i = f[n]
    <3>1. PICK n \in 1..m : i = e[n]
      BY <1>4
    <3>2. n \in 1..(m + 1) /\ i = f[n]
      BY <1>3, <3>1
    <3>. QED
      BY <3>2
  <2>2. m + 1 \in 1..(m + 1)
    OBVIOUS
  <2>3. ASSUME NEW n \in 1..(m + 1) PROVE f[n] \in EndsTo(d, x + 1)
    BY <1>5
  <2>. QED
    BY <1>3, <2>1, <2>2, <2>3
<1>7. ASSUME NEW n \in 1..(m + 1) PROVE LineStart(f, n - 1) = LineStart(e, n - 1)
  <2>1. n - 1 = 0 \/ n - 1 \in 1..m
    OBVIOUS
  <2>. QED
    BY <1>3, <2>1 DEF LineStart
<1>8. ASSUME NEW n \in 1..(m + 1)
      PROVE  /\ LineStart(f, n - 1) <= f[n]
             /\ ks[n] = SubSeq(d, LineStart(f, n - 1), f[n] - 1)
  <2>1. CASE n = m + 1
    <3>1. n - 1 = Len(ls) /\ f[n] = x /\ ks[n] = l
      BY <1>1, <1>2, <1>3, <2>1
    <3>2. LineStart(f, n - 1) = LineStart(e, Len(ls))
      BY <1>7, <3>1, Zenon
    <3>. QED
      BY <3>1, <3>2
  <2>2. CASE n # m + 1
    <3>1. n \in 1..m
      BY <2>2
    <3>2. f[n] = e[n] /\ ks[n] = ls[n]
      BY <1>2, <1>3, <3>1
    <3>. QED
      BY <1>4, <1>7, <3>1, <3>2
  <2>. QED
    BY <2>1, <2>2
<1>9. <<>> = SubSeq(d, LineStart(f, Len(ks)), x + 1)
  <2>1. LineStart(f, Len(ks)) = x + 2
    BY <1>2, <1>3 DEF LineStart
  <2>2. SubSeq(d, x + 2, x + 1) = <<>>
    BY SubSeqEmpty
  <2>. QED
    BY <2>1, <2>2
<1>10. PartedBy(d, x + 1, ks, <<>>, f)
  BY <1>2, <1>5, <1>6, <1>8, <1>9 DEF PartedBy
<1>. QED
  BY <1>10 DEF ks

\* A piece without its last byte.
LEMMA WithoutLast ==
  ASSUME NEW d \in Seq(ByteKind), NEW a \in Nat \ {0}, NEW p \in Nat, a <= p, p <= Len(d)
  PROVE  LET s == SubSeq(d, a, p) IN
         /\ s \in Seq(ByteKind) /\ s # <<>> /\ s[Len(s)] = d[p]
         /\ SubSeq(s, 1, Len(s) - 1) = SubSeq(d, a, p - 1)
<1>. DEFINE s == SubSeq(d, a, p)
<1>0. Len(d) \in Nat
  BY LenProperties
<1>1. s \in Seq(ByteKind) /\ Len(s) = p - a + 1 /\ \A i \in 1..(p - a + 1) : s[i] = d[a + i - 1]
  <2>1. a <= p + 1
    OBVIOUS
  <2>. QED
    BY <2>1, PieceBytes
<1>. HIDE DEF s
<1>2. PICK k \in Nat : k = p - a
  OBVIOUS
<1>3. Len(s) = k + 1 /\ p - 1 \in Nat /\ p - 1 <= Len(d) /\ a <= (p - 1) + 1 /\ (p - 1) - a + 1 = k
  BY <1>0, <1>1, <1>2
<1>. DEFINE q == SubSeq(d, a, p - 1)
            c == SubSeq(s, 1, k)
<1>4. q \in Seq(ByteKind) /\ Len(q) = k /\ \A i \in 1..k : q[i] = d[a + i - 1]
  <2>1. PICK b \in Nat : b = p - 1 /\ b <= Len(d) /\ a <= b + 1 /\ b - a + 1 = k
    BY <1>3
  <2>2. LET r == SubSeq(d, a, b) IN
        r \in Seq(ByteKind) /\ Len(r) = b - a + 1 /\ \A i \in 1..(b - a + 1) : r[i] = d[a + i - 1]
    BY <2>1, PieceBytes
  <2>. QED
    BY <2>1, <2>2
<1>5. c \in Seq(ByteKind) /\ Len(c) = k /\ \A i \in 1..k : c[i] = s[i]
  <2>1. LET r == SubSeq(s, 0 + 1, 0 + k) IN
        r \in Seq(ByteKind) /\ Len(r) = k /\ \A i \in 1..k : r[i] = s[0 + i]
    BY <1>1, <1>3, Chunk
  <2>. QED
    BY <2>1
<1>. HIDE DEF q, c
<1>6. \A i \in 1..Len(c) : c[i] = q[i]
  BY <1>1, <1>2, <1>4, <1>5
<1>7. c = q
  BY <1>4, <1>5, <1>6, SeqEqual
<1>8. s # <<>> /\ s[Len(s)] = d[p]
  <2>1. k + 1 \in 1..(p - a + 1) /\ a + (k + 1) - 1 = p
    BY <1>2
  <2>2. s[k + 1] = d[a + (k + 1) - 1]
    BY <1>1, <2>1
  <2>3. s # <<>>
    BY <1>3, EmptySeq
  <2>. QED
    BY <1>3, <2>1, <2>2, <2>3
<1>9. Len(s) - 1 = k
  BY <1>3
<1>. QED
  BY <1>1, <1>7, <1>8, <1>9 DEF s, q, c

\* No line end lies across the border between the first p bytes and the next.
Apart(d, p) == ~ (p >= 1 /\ d[p] = CR /\ d[p + 1] = LF)

\* Bytes without a line end bring none.
LEMMA EndsNone ==
  ASSUME NEW d, NEW p \in Nat, NEW w \in Seq(ByteKind), \A i \in 1..Len(w) : w[i] = d[p + i],
         w # <<>> => Apart(d, p), LineEnds(w) = {}
  PROVE  EndsTo(d, p + Len(w)) = EndsTo(d, p)
<1>1. PICK k \in Nat : k = Len(w)
  BY LenProperties
<1>2. \A j \in 1..(k - 1) : ~ (w[j] = CR /\ w[j + 1] = LF)
  BY <1>1 DEF LineEnds
<1>3. ASSUME NEW i \in 1..((p + k) - 1), d[i] = CR, d[i + 1] = LF PROVE i \in 1..(p - 1)
  <2>1. CASE i = p
    <3>1. k >= 1
      BY <2>1
    <3>2. w # <<>>
      BY <1>1, <3>1, EmptySeq
    <3>. QED
      BY <1>3, <2>1, <3>2 DEF Apart
  <2>2. CASE i > p
    <3>1. PICK j \in Nat : j = i - p
      BY <2>2
    <3>2. j \in 1..(k - 1) /\ j \in 1..k /\ j + 1 \in 1..k /\ p + j = i /\ p + (j + 1) = i + 1
      BY <2>2, <3>1
    <3>3. w[j] = d[p + j] /\ w[j + 1] = d[p + (j + 1)]
      BY <1>1, <3>2
    <3>. QED
      BY <1>2, <1>3, <3>2, <3>3
  <2>. QED
    BY <2>1, <2>2
<1>4. \A i \in 1..(p - 1) : i \in 1..((p + k) - 1)
  OBVIOUS
<1>. QED
  BY <1>1, <1>3, <1>4 DEF EndsTo

\* The first line end of the next bytes is the one the stream has next.
LEMMA EndsFirst ==
  ASSUME NEW d, NEW p \in Nat, NEW w \in Seq(ByteKind), \A i \in 1..Len(w) : w[i] = d[p + i],
         Apart(d, p), LineEnds(w) # {}
  PROVE  EndsTo(d, (p + FirstLineEnd(w)) + 1) = EndsTo(d, p) \cup {p + FirstLineEnd(w)}
<1>1. PICK k \in Nat : k = Len(w)
  BY LenProperties
<1>2. PICK f \in 1..(k - 1) : /\ f = FirstLineEnd(w) /\ w[f] = CR /\ w[f + 1] = LF
                              /\ \A j \in LineEnds(w) : f <= j
  BY <1>1, FirstIsFirst
<1>3. ASSUME NEW j \in 1..(f - 1), w[j] = CR, w[j + 1] = LF PROVE FALSE
  <2>1. j \in 1..(k - 1) /\ ~ (f <= j)
    OBVIOUS
  <2>2. j \in LineEnds(w)
    BY <1>1, <1>3, <2>1 DEF LineEnds
  <2>. QED
    BY <1>2, <2>1, <2>2
<1>4. ASSUME NEW i \in 1..(((p + f) + 1) - 1), d[i] = CR, d[i + 1] = LF
      PROVE  i \in 1..(p - 1) \/ i = p + f
  <2>1. CASE i = p
    BY <1>4, <2>1 DEF Apart
  <2>2. CASE i > p /\ i # p + f
    <3>1. PICK j \in Nat : j = i - p
      BY <2>2
    <3>2. j \in 1..(f - 1) /\ j \in 1..k /\ j + 1 \in 1..k /\ p + j = i /\ p + (j + 1) = i + 1
      BY <2>2, <3>1
    <3>3. w[j] = d[p + j] /\ w[j + 1] = d[p + (j + 1)]
      BY <1>1, <3>2
    <3>. QED
      BY <1>3, <1>4, <3>2, <3>3
  <2>. QED
    BY <2>1, <2>2
<1>5. d[p + f] = CR /\ d[(p + f) + 1] = LF
  <2>1. f \in 1..k /\ f + 1 \in 1..k /\ p + (f + 1) = (p + f) + 1
    OBVIOUS
  <2>. QED
    BY <1>1, <1>2, <2>1
<1>6. p + f \in 1..(((p + f) + 1) - 1) /\ \A i \in 1..(p - 1) : i \in 1..(((p + f) + 1) - 1)
  OBVIOUS
<1>. QED
  BY <1>2, <1>4, <1>5, <1>6 DEF EndsTo

\* A line end across the border.
LEMMA EndsAcross ==
  ASSUME NEW d, NEW p \in Nat \ {0}, d[p] = CR, d[p + 1] = LF
  PROVE  EndsTo(d, p + 1) = EndsTo(d, p) \cup {p}
<1>1. \A i \in 1..((p + 1) - 1) : i \in 1..(p - 1) \/ i = p
  OBVIOUS
<1>2. p \in 1..((p + 1) - 1) /\ \A i \in 1..(p - 1) : i \in 1..((p + 1) - 1)
  OBVIOUS
<1>. QED
  BY <1>1, <1>2 DEF EndsTo

\* The last byte parsed, as the buffer and the line begun tell it.
LEMMA LastByte ==
  ASSUME HeldInv, PosInv, LinesInv, NEW e, PartedBy(stream, Pos, lines, lp.buf, e),
         lp.buf # <<>>
  PROVE  LET a == LineStart(e, Len(lines)) IN
         /\ a \in Nat \ {0} /\ a <= Pos /\ lp.buf[Len(lp.buf)] = stream[Pos]
         /\ SubSeq(lp.buf, 1, Len(lp.buf) - 1) = SubSeq(stream, a, Pos - 1)
<1>1. PICK p \in Nat : p = Pos /\ p <= Len(stream)
  BY PosType
<1>2. PICK a \in Nat \ {0} : a = LineStart(e, Len(lines)) /\ a <= p + 1
  BY <1>1, BegunAt, LenProperties DEF LinesInv
<1>3. lp.buf = SubSeq(stream, a, p) /\ stream \in Seq(ByteKind)
  BY <1>1, <1>2 DEF PartedBy, HeldInv, ParserType
<1>4. a <= p
  <2>. SUFFICES ASSUME ~ (a <= p) PROVE FALSE
    OBVIOUS
  <2>1. SubSeq(stream, a, p) = <<>>
    BY SubSeqEmpty
  <2>. QED
    BY <1>3, <2>1
<1>5. LET s == SubSeq(stream, a, p) IN
      /\ s[Len(s)] = stream[p] /\ SubSeq(s, 1, Len(s) - 1) = SubSeq(stream, a, p - 1)
  BY <1>1, <1>3, <1>4, WithoutLast
<1>. QED
  BY <1>1, <1>2, <1>3, <1>4, <1>5, Zenon

\* A call that does not take the test on the first byte finds no line feed there whose
\* carriage return came before, unless it was called with a lone line feed.
LEMMA NoLineAcross ==
  ASSUME HeldInv, PosInv, LinesInv, NEW e, PartedBy(stream, Pos, lines, lp.buf, e),
         status = "loop", cuts \subseteq {"within_line"}, rest # <<>>, ~ HeldReturn(lp, rest)
  PROVE  Apart(stream, Pos)
<1>. SUFFICES ASSUME Pos >= 1, stream[Pos] = CR, stream[Pos + 1] = LF PROVE FALSE
  BY DEF Apart
<1>0. Pos \in Nat /\ Len(rest) \in Nat /\ Len(rest) # 0 /\ rest \in Seq(ByteKind)
  BY PosType, LenProperties, EmptySeq DEF HeldInv, ParserType
<1>1. rest[1] = LF
  <2>1. 1 \in 1..Len(rest)
    BY <1>0
  <2>. QED
    BY <2>1 DEF PosInv
<1>2. lp.buf # <<>>
  <2>1. "after_blank" \notin cuts
    OBVIOUS
  <2>. QED
    BY <1>0, <2>1 DEF PosInv, CR, LF
<1>3. lp.saw_return
  BY <1>2, LastByte DEF LinesInv
<1>4. Len(rest) = 1
  <2>1. ~ (Len(rest) > 1)
    BY <1>1, <1>3, Zenon DEF HeldReturn
  <2>2. PICK k \in Nat : k = Len(rest)
    BY <1>0
  <2>3. ~ (k > 1) /\ k # 0
    BY <1>0, <2>1, <2>2, Zenon
  <2>4. k = 1
    BY <2>3
  <2>. QED
    BY <2>2, <2>4
<1>5. rest = <<LF>>
  <2>1. <<LF>> \in Seq(ByteKind) /\ Len(<<LF>>) = 1 /\ <<LF>>[1] = LF
    BY DEF ByteKind, LF
  <2>2. \A i \in 1..Len(rest) : rest[i] = <<LF>>[i]
    BY <1>1, <1>4, <2>1
  <2>. QED
    BY <1>0, <1>4, <2>1, <2>2, SeqEqual
<1>. QED
  BY <1>2, <1>5 DEF LinesInv

\* It starts with no line and nothing begun.
LEMMA LinesInit == Init => LinesInv
<1>. SUFFICES ASSUME Init PROVE LinesInv
  OBVIOUS
<1>1. /\ lines = <<>> /\ lp.buf = <<>> /\ status = "idle" /\ fed = 0 /\ Len(rest) = 0
      /\ Len(lines) = 0
  BY DEF Init
<1>2. Pos = 0
  BY <1>1 DEF Pos
<1>. DEFINE e == [n \in 1..Len(lines) |-> 0]
<1>3. PartedBy(stream, Pos, lines, lp.buf, e)
  <2>1. EndsTo(stream, Pos) = {} /\ 1..Len(lines) = {}
    BY <1>1, <1>2 DEF EndsTo
  <2>2. LineStart(e, Len(lines)) = 1
    BY <1>1 DEF LineStart
  <2>3. SubSeq(stream, 1, 0) = <<>>
    BY SubSeqEmpty
  <2>4. lp.buf = SubSeq(stream, LineStart(e, Len(lines)), Pos)
    BY <1>1, <1>2, <2>2, <2>3, Zenon
  <2>5. e \in [1..Len(lines) -> EndsTo(stream, Pos)]
    BY <2>1
  <2>. HIDE DEF e
  <2>. QED
    BY <2>1, <2>4, <2>5 DEF PartedBy
<1>4. <<>> \in Seq(Seq(ByteKind))
  BY EmptySeq
<1>. QED
  BY <1>1, <1>3, <1>4 DEF LinesInv

\* A call without a line end.
LEMMA LinesNoLine ==
  ASSUME HeldInv, PosInv, LinesInv, NoLine
  PROVE  LinesInv'
<1>0. /\ lp \in LPType /\ lp.buf \in Seq(ByteKind) /\ rest \in Seq(ByteKind) /\ Len(rest) \in Nat
      /\ stream \in Seq(ByteKind) /\ Len(lp.buf) \in Nat
      /\ lines \in Seq(Seq(ByteKind)) /\ Len(lines) \in Nat
  BY LenProperties DEF HeldInv, ParserType, LPType, LinesInv
<1>1. /\ Pos' = Pos + Len(rest) /\ lp'.buf = lp.buf \o rest
      /\ lp'.saw_return = AfterScan(lp.saw_return, rest)
      /\ status = "loop" /\ status' = "idle" /\ lines' = lines /\ cuts' = cuts /\ stream' = stream
  BY PosNoLine DEF NoLine
<1>2. PICK p \in Nat : p = Pos /\ p + Len(rest) <= Len(stream)
  BY PosType DEF PosInv
<1>3. ~ HeldReturn(lp, rest) /\ LineEnds(rest) = {}
  <2>1. parse_line_http(lp, rest).used = 0
    BY DEF NoLine
  <2>2. HeldReturn(lp, rest) => parse_line_http(lp, rest).used = 1
    BY DEF parse_line_http
  <2>3. ~ HeldReturn(lp, rest) /\ LineEnds(rest) # {} =>
          parse_line_http(lp, rest).used = FirstLineEnd(rest) + 1
    BY DEF parse_line_http
  <2>4. LineEnds(rest) # {} => FirstLineEnd(rest) + 1 # 0
    BY <1>0, LineEndPlace
  <2>. QED
    BY <2>1, <2>2, <2>3, <2>4
<1>4. ASSUME lp'.buf # <<>>, lp'.buf[Len(lp'.buf)] = CR PROVE lp'.saw_return
  <2>1. PICK b \in Seq(ByteKind) : b = lp.buf
    BY <1>0
  <2>2. CASE rest = <<>>
    <3>1. b \o rest = b
      BY <2>2, ConcatEmptySeq
    <3>2. lp'.buf = lp.buf /\ lp'.saw_return = lp.saw_return
      BY <1>1, <2>1, <2>2, <3>1 DEF AfterScan
    <3>. QED
      BY <1>4, <3>2 DEF LinesInv
  <2>3. CASE rest # <<>>
    <3>1. Len(rest) > 0
      BY <1>0, <2>3, EmptySeq
    <3>2. (b \o rest)[Len(b \o rest)] = rest[Len(rest)]
      BY <1>0, <2>1, <3>1, ConcatProperties, LenProperties
    <3>3. rest[Len(rest)] = CR
      BY <1>1, <1>4, <2>1, <3>2
    <3>. QED
      BY <1>1, <2>3, <3>3 DEF AfterScan
  <2>. QED
    BY <2>2, <2>3
<1>5. ASSUME cuts \subseteq {"within_line"}
      PROVE  \E e : PartedBy(stream, Pos + Len(rest), lines, lp.buf \o rest, e)
  <2>1. PICK e : PartedBy(stream, Pos, lines, lp.buf, e)
    BY <1>5 DEF LinesInv
  <2>2. rest # <<>> => Apart(stream, Pos)
    BY <1>1, <1>3, <1>5, <2>1, NoLineAcross
  <2>3. \A i \in 1..Len(rest) : rest[i] = stream[p + i]
    BY <1>2 DEF PosInv
  <2>4. EndsTo(stream, p + Len(rest)) = EndsTo(stream, p)
    BY <1>0, <1>2, <1>3, <2>2, <2>3, EndsNone
  <2>5. PartedBy(stream, p, lines, lp.buf, e)
    BY <1>2, <2>1
  <2>6. PartedBy(stream, p + Len(rest), lines, lp.buf \o rest, e)
    BY <1>0, <1>2, <2>3, <2>4, <2>5, TailGrows
  <2>. QED
    BY <1>2, <2>6
<1>. QED
  BY <1>0, <1>1, <1>4, <1>5 DEF LinesInv

\* A line is a sequence of bytes.
LEMMA LineType ==
  ASSUME NEW p \in LPType, NEW d \in Seq(ByteKind), ~ (HeldReturn(p, d) /\ p.buf = <<>>)
  PROVE  parse_line_http(p, d).line \in Seq(ByteKind)
<1>. DEFINE r == parse_line_http(p, d)
<1>1. PICK b \in Seq(ByteKind) : b = p.buf
  BY DEF LPType
<1>2. CASE HeldReturn(p, d)
  <2>1. r.line = SubSeq(b, 1, Len(b) - 1)
    BY <1>1, <1>2 DEF parse_line_http
  <2>2. 1 \in Nat \ {0} /\ Len(b) - 1 \in Int /\ Len(b) - 1 <= Len(b)
    BY LenProperties
  <2>3. SubSeq(b, 1, Len(b) - 1) \in Seq(ByteKind)
    BY <2>2, Piece
  <2>. QED
    BY <2>1, <2>3
<1>3. CASE ~ HeldReturn(p, d) /\ LineEnds(d) # {}
  <2>1. PICK i \in 1..(Len(d) - 1) : i = FirstLineEnd(d)
    BY <1>3, LineEndPlace
  <2>2. r.line = b \o SubSeq(d, 1, i - 1)
    BY <1>1, <1>3, <2>1 DEF parse_line_http
  <2>3. 1 \in Nat \ {0} /\ i - 1 \in Int /\ i - 1 <= Len(d)
    BY LenProperties
  <2>4. SubSeq(d, 1, i - 1) \in Seq(ByteKind)
    BY <2>3, Piece
  <2>. QED
    BY <2>2, <2>4, ConcatProperties
<1>4. CASE ~ HeldReturn(p, d) /\ LineEnds(d) = {}
  <2>1. r.line = <<>>
    BY <1>4 DEF parse_line_http
  <2>. QED
    BY <2>1, EmptySeq
<1>. QED
  BY <1>2, <1>3, <1>4

\* A call that finds a line: it is the line begun, up to the next line end of the stream.
LEMMA LinesLine ==
  ASSUME HeldInv, PosInv, LinesInv, HeaderLine \/ EmptyLine
  PROVE  LinesInv'
<1>. DEFINE r == parse_line_http(lp, rest)
<1>0. /\ lp \in LPType /\ lp.buf \in Seq(ByteKind) /\ rest \in Seq(ByteKind) /\ Len(rest) \in Nat
      /\ stream \in Seq(ByteKind) /\ Len(lp.buf) \in Nat
      /\ lines \in Seq(Seq(ByteKind)) /\ Len(lines) \in Nat
  BY LenProperties DEF HeldInv, ParserType, LPType, LinesInv
<1>1. /\ r.used \in 1..Len(rest) /\ rest[r.used] = LF /\ stream' = stream /\ lp' = r.lp
      /\ lines' = Append(lines, r.line) /\ (cuts' = cuts \/ cuts' = cuts \cup {"after_blank"})
      /\ "after_blank" \notin cuts' => Pos' = Pos + r.used
  BY PosLine
<1>2. status = "loop" /\ ~ (HeldReturn(lp, rest) /\ lp.buf = <<>>)
  BY DEF HeaderLine, EmptyLine, TakeLine
<1>3. lp'.buf = <<>>
  <2>1. r.used > 0
    BY <1>0, <1>1
  <2>. QED
    BY <1>0, <1>1, <2>1, ParseLineFacts
<1>4. PICK p \in Nat : p = Pos /\ p + Len(rest) <= Len(stream)
  BY PosType DEF PosInv
<1>5. \A i \in 1..Len(rest) : rest[i] = stream[p + i]
  BY <1>4 DEF PosInv
<1>6. r.line \in Seq(ByteKind)
  BY <1>0, <1>1, <1>2, LineType
<1>7. ASSUME cuts \subseteq {"within_line"}
      PROVE  \E f : PartedBy(stream, Pos + r.used, Append(lines, r.line), <<>>, f)
  <2>1. PICK e : PartedBy(stream, p, lines, lp.buf, e)
    BY <1>4, <1>7 DEF LinesInv
  <2>2. PICK a \in Nat \ {0} : a = LineStart(e, Len(lines)) /\ a <= p + 1
    BY <1>0, <2>1, BegunAt
  <2>3. CASE HeldReturn(lp, rest)
    <3>1. r.used = 1 /\ r.line = SubSeq(lp.buf, 1, Len(lp.buf) - 1)
      BY <2>3 DEF parse_line_http
    <3>2. lp.buf # <<>> /\ lp.saw_return /\ rest[1] = LF
      BY <1>2, <2>3, Zenon DEF HeldReturn
    <3>3. /\ a <= p /\ lp.buf[Len(lp.buf)] = stream[p]
          /\ SubSeq(lp.buf, 1, Len(lp.buf) - 1) = SubSeq(stream, a, p - 1)
      BY <1>4, <2>1, <2>2, <3>2, LastByte
    <3>4. stream[p] = CR /\ stream[p + 1] = LF /\ p \in Nat \ {0} /\ p + 1 <= Len(stream)
      BY <1>0, <1>1, <1>4, <1>5, <2>2, <3>1, <3>2, <3>3, LenProperties DEF HeldInv, HeldIsReturn
    <3>5. EndsTo(stream, p + 1) = EndsTo(stream, p) \cup {p}
      BY <3>4, EndsAcross
    <3>6. r.line = SubSeq(stream, LineStart(e, Len(lines)), p - 1) /\ LineStart(e, Len(lines)) <= p
      BY <2>2, <3>1, <3>3, Zenon
    <3>. HIDE DEF r
    <3>7. \E f : PartedBy(stream, p + 1, Append(lines, r.line), <<>>, f)
      BY <1>0, <1>6, <2>1, <3>4, <3>5, <3>6, LineGrows
    <3>. QED
      BY <1>4, <3>1, <3>7
  <2>4. CASE ~ HeldReturn(lp, rest)
    <3>1. LineEnds(rest) # {}
      BY <1>0, <1>1, <2>4 DEF parse_line_http
    <3>2. PICK i \in 1..(Len(rest) - 1) : i = FirstLineEnd(rest)
      BY <1>0, <3>1, FirstIsFirst
    <3>3. r.used = i + 1 /\ r.line = lp.buf \o SubSeq(rest, 1, i - 1)
      BY <2>4, <3>1, <3>2 DEF parse_line_http
    <3>4. rest # <<>>
      BY <1>0, <3>2
    <3>5. Apart(stream, p)
      BY <1>2, <1>4, <1>7, <2>1, <2>4, <3>4, NoLineAcross
    <3>6. EndsTo(stream, (p + i) + 1) = EndsTo(stream, p) \cup {p + i}
      <4>1. EndsTo(stream, (p + FirstLineEnd(rest)) + 1)
              = EndsTo(stream, p) \cup {p + FirstLineEnd(rest)}
        BY <1>0, <1>5, <3>1, <3>5, EndsFirst
      <4>. QED
        BY <3>2, <4>1, Zenon
    <3>7. SubSeq(stream, a, p) \o SubSeq(rest, 1, i - 1) = SubSeq(stream, a, (p + i) - 1)
      <4>1. PICK u \in 0..Len(rest) : u = i - 1
        BY <1>0
      <4>2. SubSeq(stream, a, Pos) \o SubSeq(rest, 1, u) = SubSeq(stream, a, Pos + u)
        BY <1>4, <2>2, SeenGrows
      <4>3. p + u = (p + i) - 1
        BY <4>1
      <4>. QED
        BY <1>4, <4>1, <4>2, <4>3, Zenon
    <3>8. lp.buf = SubSeq(stream, a, p)
      BY <2>1, <2>2, Zenon DEF PartedBy
    <3>9. r.line = SubSeq(stream, LineStart(e, Len(lines)), (p + i) - 1)
      BY <2>2, <3>3, <3>7, <3>8, Zenon
    <3>10. PICK x \in Nat : x = p + i /\ x + 1 <= Len(stream) /\ LineStart(e, Len(lines)) <= x
      BY <1>0, <1>4, <2>2, LenProperties
    <3>. HIDE DEF r
    <3>11. \E f : PartedBy(stream, x + 1, Append(lines, r.line), <<>>, f)
      BY <1>0, <1>6, <2>1, <3>6, <3>9, <3>10, LineGrows
    <3>12. Pos + r.used = x + 1
      BY <1>4, <3>3, <3>10
    <3>. QED
      BY <3>11, <3>12
  <2>. QED
    BY <2>3, <2>4
<1>. HIDE DEF r
<1>8. lines' \in Seq(Seq(ByteKind))
  BY <1>0, <1>1, <1>6, AppendProperties
<1>9. ASSUME cuts' \subseteq {"within_line"} PROVE \E f : PartedBy(stream', Pos', lines', lp'.buf, f)
  <2>1. cuts \subseteq {"within_line"} /\ Pos' = Pos + r.used
    BY <1>1, <1>9
  <2>. QED
    BY <1>1, <1>3, <1>7, <2>1
<1>. QED
  BY <1>3, <1>8, <1>9 DEF LinesInv

\* Each step keeps LinesInv.
LEMMA LinesNext == HeldInv /\ PosInv /\ LinesInv /\ [Next]_vars => LinesInv'
<1>. SUFFICES ASSUME HeldInv, PosInv, LinesInv, [Next]_vars PROVE LinesInv'
  OBVIOUS
<1>1. ASSUME NEW k \in 1..Len(stream), Call(k) PROVE LinesInv'
  <2>1. Pos' = Pos /\ stream' = stream /\ lines' = lines /\ lp' = lp /\ cuts \subseteq cuts'
    BY <1>1, PosCall DEF Call, parser
  <2>2. rest' = <<LF>> => "lone_LF" \in cuts'
    BY <1>1 DEF Call
  <2>3. cuts' \subseteq {"within_line"} => cuts \subseteq {"within_line"}
    BY <2>1
  <2>. QED
    BY <2>1, <2>2, <2>3 DEF LinesInv
<1>2. CASE Panic
  BY <1>2 DEF Panic, parser, LinesInv, Pos
<1>3. CASE UNCHANGED vars \/ Finished
  BY <1>3 DEF Finished, vars, parser, LinesInv, Pos
<1>. QED
  BY <1>1, <1>2, <1>3, LinesNoLine, LinesLine DEF Next

\* The lines that come out of parse_line_http are the lines of the stream, for streams of
\* every length and wherever the chunks are cut, even between a carriage return and its
\* line feed, as long as no chunk is a lone line feed or goes on after a leading blank line.
THEOREM LinesCorrect == Spec => []LinesMatch
<1>1. HeldInv /\ PosInv /\ LinesInv => LinesMatch
  <2>. SUFFICES ASSUME HeldInv, PosInv, LinesInv, cuts \subseteq {"within_line"}
                PROVE  Split(Seen, lines, lp.buf)
    BY DEF LinesMatch
  <2>0. stream \in Seq(ByteKind) /\ lines \in Seq(Seq(ByteKind)) /\ Len(lines) \in Nat
    BY LenProperties DEF HeldInv, ParserType, LinesInv
  <2>1. PICK p \in Nat : p = Pos /\ p <= Len(stream)
    BY PosType
  <2>2. PICK e : PartedBy(stream, p, lines, lp.buf, e)
    BY <2>1 DEF LinesInv
  <2>3. Seen = SubSeq(stream, 1, p)
    BY <2>1 DEF Seen, Pos
  <2>4. Len(Seen) = p /\ Seen \in Seq(ByteKind) /\ \A i \in 1..p : Seen[i] = stream[i]
    <3>1. LET q == SubSeq(stream, 0 + 1, 0 + p) IN
          q \in Seq(ByteKind) /\ Len(q) = p /\ \A i \in 1..p : q[i] = stream[0 + i]
      BY <2>0, <2>1, Chunk
    <3>. QED
      BY <2>3, <3>1
  <2>5. LineEnds(Seen) = EndsTo(stream, p)
    <3>1. \A i \in 1..(p - 1) : i \in 1..p /\ i + 1 \in 1..p
      OBVIOUS
    <3>. QED
      BY <2>4, <3>1 DEF LineEnds, EndsTo
  <2>6. ASSUME NEW m \in Nat \ {0}, NEW n \in Nat, m <= n + 1, n <= p
        PROVE  SubSeq(Seen, m, n) = SubSeq(stream, m, n)
    <3>. DEFINE s == SubSeq(Seen, m, n)
                q == SubSeq(stream, m, n)
    <3>1. s \in Seq(ByteKind) /\ Len(s) = n - m + 1 /\ \A i \in 1..(n - m + 1) : s[i] = Seen[m + i - 1]
      BY <2>4, <2>6, PieceBytes
    <3>2. q \in Seq(ByteKind) /\ Len(q) = n - m + 1 /\ \A i \in 1..(n - m + 1) : q[i] = stream[m + i - 1]
      <4>1. n <= Len(stream)
        BY <2>0, <2>1, <2>6, LenProperties
      <4>. QED
        BY <2>0, <2>6, <4>1, PieceBytes
    <3>. HIDE DEF s, q
    <3>3. \A i \in 1..Len(s) : s[i] = q[i]
      <4>. TAKE i \in 1..Len(s)
      <4>1. i \in 1..(n - m + 1) /\ m + i - 1 \in 1..p
        BY <2>6, <3>1
      <4>. QED
        BY <2>4, <3>1, <3>2, <4>1
    <3>4. s = q
      BY <3>1, <3>2, <3>3, SeqEqual
    <3>. QED
      BY <3>4 DEF s, q
  <2>7. DOMAIN lines = 1..Len(lines)
    BY <2>0, LenProperties
  <2>8. /\ e \in [1..Len(lines) -> EndsTo(stream, p)]
        /\ EndsTo(stream, p) = {e[n] : n \in 1..Len(lines)}
        /\ \A n \in 1..Len(lines) : LineStart(e, n - 1) <= e[n]
        /\ \A n \in 1..Len(lines) : lines[n] = SubSeq(stream, LineStart(e, n - 1), e[n] - 1)
        /\ lp.buf = SubSeq(stream, LineStart(e, Len(lines)), p)
    BY <2>2 DEF PartedBy
  <2>9. \A n \in 1..Len(lines) : e[n] \in 1..(p - 1)
    BY <2>8 DEF EndsTo
  <2>10. ASSUME NEW n \in 1..Len(lines)
         PROVE  lines[n] = SubSeq(Seen, LineStart(e, n - 1), e[n] - 1)
    <3>1. n - 1 = 0 \/ n - 1 \in 1..Len(lines)
      BY <2>0
    <3>2. LineStart(e, n - 1) \in Nat \ {0}
      BY <2>9, <3>1 DEF LineStart
    <3>3. PICK a \in Nat \ {0} : a = LineStart(e, n - 1)
      BY <3>2
    <3>4. PICK c \in 1..(p - 1) : c = e[n]
      BY <2>9
    <3>5. a <= c
      BY <2>8, <3>3, <3>4, Zenon
    <3>6. PICK b \in Nat : b = e[n] - 1 /\ a <= b + 1 /\ b <= p
      <4>1. c - 1 \in Nat /\ a <= (c - 1) + 1 /\ c - 1 <= p
        BY <3>5
      <4>. QED
        BY <3>4, <4>1
    <3>7. SubSeq(Seen, a, b) = SubSeq(stream, a, b)
      BY <2>6, <3>6
    <3>. QED
      BY <2>8, <3>3, <3>6, <3>7
  <2>11. lp.buf = SubSeq(Seen, LineStart(e, Len(lines)), Len(Seen))
    <3>1. PICK a \in Nat \ {0} : a = LineStart(e, Len(lines)) /\ a <= p + 1
      BY <2>0, <2>2, BegunAt
    <3>2. SubSeq(Seen, a, p) = SubSeq(stream, a, p)
      <4>1. a <= p + 1 /\ p <= p
        BY <3>1
      <4>. QED
        BY <2>6, <4>1
    <3>. QED
      BY <2>4, <2>8, <3>1, <3>2, Zenon
  <2>. QED
    BY <2>5, <2>7, <2>8, <2>10, <2>11 DEF Split
<1>. QED
  BY <1>1, PosCorrect, LinesInit, LinesNext, PTL DEF Spec
=============================================================================
