----------------------------- MODULE HttpParse -----------------------------
(***************************************************************************)
(* The incremental HTTP header parser of the Rocks server: LineParser      *)
(* (http_parse/line_parser.rs) and HttpHeaderParser (http_parse/mod.rs).   *)
(* The caller hands parse_http one chunk after another as they arrive from *)
(* the network; a step is one turn of its loop, so one call of             *)
(* parse_line_http on what is left of the chunk.                           *)
(***************************************************************************)
EXTENDS Integers, Sequences

CONSTANTS Streams     \* what may arrive: sequences of bytes

\* The only bytes the parser tells apart.
CR == "CR"
LF == "LF"
ByteKind == {CR, LF, "x"}

ASSUME HttpAssumption == Streams \subseteq Seq(ByteKind)

VARIABLES
  stream,      \* the bytes of the connection
  fed,         \* how many of them have been handed to parse_http
  rest,        \* &data[start..] of the call under way
  status,      \* "idle" (between calls), "loop", "complete", "error", "panicked"
  lp,          \* the LineParser: buf and saw_return
  data,        \* HttpHeaderParser.data: what httparse is given
  lines_cnt,   \* HttpHeaderParser.lines_cnt
  lines,       \* observer: the lines parse_line_http returned
  cuts         \* observer: how chunks have been cut so far (a subset of Cut)

parser == <<lp, data, lines_cnt>>
vars == <<stream, fed, rest, status, parser, lines, cuts>>

\* A chunk that is a line feed only; a chunk that ends within a line; a chunk that goes on
\* after a blank line in front of the request.
Cut == {"lone_LF", "within_line", "after_blank"}

Init ==
  /\ stream \in Streams
  /\ fed = 0
  /\ rest = <<>>
  /\ status = "idle"
  /\ lp = [buf |-> <<>>, saw_return |-> FALSE]
  /\ data = <<>>
  /\ lines_cnt = 0
  /\ lines = <<>>
  /\ cuts = {}

-----------------------------------------------------------------------------
\* parse_line_http

LineEnds(d) == {i \in 1..(Len(d) - 1) : d[i] = CR /\ d[i + 1] = LF}
FirstLineEnd(d) == CHOOSE i \in LineEnds(d) : \A j \in LineEnds(d) : i <= j

BadAfterScan(saw, d) == saw \/ \E i \in DOMAIN d : d[i] = CR

\* The for loop leaves saw_return as the last byte it looked at says: the one before the
\* line end, or the last one; a loop that looked at none leaves it as it was.
AfterScan(saw, d) == IF d = <<>> THEN saw ELSE d[Len(d)] = CR

BadHeldReturn(p, d) == p.saw_return /\ Len(d) > 1

\* The test on the first byte.  It asks for a second byte to follow.
HeldReturn(p, d) == p.saw_return /\ Len(d) > 1 /\ d[1] = LF

BadParseLine(p, d) ==
  IF HeldReturn(p, d)
  THEN [lp |-> [p EXCEPT !.buf = <<>>], line |-> p.buf, used |-> 1]
  ELSE IF LineEnds(d) # {}
  THEN LET i == FirstLineEnd(d) IN
       [lp |-> [buf |-> <<>>, saw_return |-> AfterScan(p.saw_return, SubSeq(d, 1, i - 1))],
        line |-> p.buf \o SubSeq(d, 1, i - 1), used |-> i + 1]
  ELSE [lp |-> [buf |-> p.buf \o d, saw_return |-> AfterScan(p.saw_return, d)],
        line |-> <<>>, used |-> 0]

\* The line parser after a call, the line it returned, and how many bytes of d that took
\* (none: no line).  The carriage return held in buf is removed from the line.
parse_line_http(p, d) ==
  IF HeldReturn(p, d)
  THEN [lp |-> [p EXCEPT !.buf = <<>>], line |-> SubSeq(p.buf, 1, Len(p.buf) - 1), used |-> 1]
  ELSE IF LineEnds(d) # {}
  THEN LET i == FirstLineEnd(d) IN
       [lp |-> [buf |-> <<>>, saw_return |-> AfterScan(p.saw_return, SubSeq(d, 1, i - 1))],
        line |-> p.buf \o SubSeq(d, 1, i - 1), used |-> i + 1]
  ELSE [lp |-> [buf |-> p.buf \o d, saw_return |-> AfterScan(p.saw_return, d)],
        line |-> <<>>, used |-> 0]

-----------------------------------------------------------------------------
\* parse_http

\* The caller has read k more bytes and calls parse_http with them.
Call(k) ==
  /\ status = "idle" /\ fed + k <= Len(stream)
  /\ rest' = SubSeq(stream, fed + 1, fed + k)
  /\ fed' = fed + k
  /\ status' = "loop"
  /\ cuts' = cuts \cup (IF rest' = <<LF>> THEN {"lone_LF"} ELSE {})
                   \cup (IF lp.buf # <<>> THEN {"within_line"} ELSE {})
  /\ UNCHANGED <<stream, parser, lines>>

\* r.remove(r.len() - 1) on an empty buffer.
Panic ==
  /\ status = "loop" /\ HeldReturn(lp, rest) /\ lp.buf = <<>>
  /\ status' = "panicked"
  /\ UNCHANGED <<stream, fed, rest, parser, lines, cuts>>

\* No line end in what is left: the call returns Ok(None).
NoLine ==
  LET r == parse_line_http(lp, rest) IN
  /\ status = "loop" /\ r.used = 0
  /\ lp' = r.lp
  /\ rest' = <<>>
  /\ status' = "idle"
  /\ UNCHANGED <<stream, fed, data, lines_cnt, lines, cuts>>

BadTakeLine(r) ==
  /\ status = "loop" /\ r.used > 0 /\ ~ (HeldReturn(lp, rest) /\ lp.buf = <<>>)
  /\ lp' = r.lp
  /\ lines' = Append(lines, r.line)
  /\ data' = data \o r.line

\* What the calls of parse_line_http that return a line have in common.
TakeLine(r) ==
  /\ status = "loop" /\ r.used > 0 /\ ~ (HeldReturn(lp, rest) /\ lp.buf = <<>>)
  /\ lp' = r.lp
  /\ lines' = Append(lines, r.line)
  /\ data' = data \o SubSeq(rest, 1, r.used)

HeaderLine ==
  LET r == parse_line_http(lp, rest) IN
  /\ TakeLine(r) /\ r.line # <<>>
  /\ lines_cnt' = lines_cnt + 1
  /\ rest' = SubSeq(rest, r.used + 1, Len(rest))
  /\ UNCHANGED <<stream, fed, status, cuts>>

\* httparse on data (external): line ends alone are an incomplete request, for which
\* parse_http returns Ok(None); otherwise a request or an error, which the text decides.
httparse(d, cnt) ==
  IF \E i \in DOMAIN d : d[i] = "x" THEN {"complete", "error"}
  ELSE IF cnt = 0 THEN {"idle"} ELSE {"idle", "error"}

\* An empty line: httparse is given data.  Whatever the outcome, what is left of the
\* chunk is not looked at again.
EmptyLine ==
  LET r == parse_line_http(lp, rest) IN
  /\ TakeLine(r) /\ r.line = <<>>
  /\ status' \in httparse(data', lines_cnt)
  /\ rest' = IF status' = "idle" THEN <<>> ELSE SubSeq(rest, r.used + 1, Len(rest))
  /\ cuts' = IF status' = "idle" /\ r.used < Len(rest) THEN cuts \cup {"after_blank"} ELSE cuts
  /\ UNCHANGED <<stream, fed, lines_cnt>>

\* The connection has no more bytes, or the caller has its answer.
Finished ==
  /\ status \in {"complete", "error", "panicked"} \/ (status = "idle" /\ fed = Len(stream))
  /\ UNCHANGED vars

Next ==
  \/ \E k \in 1..Len(stream) : Call(k)
  \/ Panic \/ NoLine \/ HeaderLine \/ EmptyLine
  \/ Finished

Spec == Init /\ [][Next]_vars

-----------------------------------------------------------------------------
\* Properties.

\* What has been parsed so far.
Seen == SubSeq(stream, 1, fed - Len(rest))

\* Every line feed ends a line: true of every header an HTTP client sends.
NoBareLF == \A i \in DOMAIN stream : stream[i] = LF => i > 1 /\ stream[i - 1] = CR

\* Where the line after the first n of the line ends e begins.
LineStart(e, n) == IF n = 0 THEN 1 ELSE e[n] + 2

\* ls are the lines of s and t is the line begun: what stands between two line ends, and
\* after the last one.  e[n] is the place of the n-th line end.
Split(s, ls, t) ==
  \E e \in [DOMAIN ls -> LineEnds(s)] :
    /\ LineEnds(s) = {e[n] : n \in DOMAIN ls}
    /\ \A n \in DOMAIN ls : LineStart(e, n - 1) <= e[n]
    /\ \A n \in DOMAIN ls : ls[n] = SubSeq(s, LineStart(e, n - 1), e[n] - 1)
    /\ t = SubSeq(s, LineStart(e, Len(ls)), Len(s))

\* The lines that come out are the lines of the stream and the buffer is the line begun,
\* wherever the chunks are cut, even between a carriage return and its line feed, as long
\* as no chunk is a lone line feed or goes on after a leading blank line.
LinesMatch == cuts \subseteq {"within_line"} => Split(Seen, lines, lp.buf)

\* A flag left over from an earlier line does no harm to a stream in which every line
\* feed follows a carriage return, as long as no bytes are dropped after a leading blank
\* line: parse_line_http never removes from an empty buffer.
PanicNeedsBareLF == status = "panicked" => ~ NoBareLF \/ "after_blank" \in cuts

\* A carriage return the parser remembers is the last byte it holds: removing the last
\* byte of the buffer removes that carriage return and nothing else.
HeldIsReturn == lp.saw_return /\ lp.buf # <<>> => lp.buf[Len(lp.buf)] = CR

\* httparse is given the header as it arrived, when no chunk ends within a line and none
\* goes on after a leading blank line.
HeaderIntact == status \in {"complete", "error"} /\ cuts \subseteq {"lone_LF"} => data = Seen
=============================================================================
