----------------------------- MODULE TlsStream -----------------------------
(***************************************************************************)
(* TlsStream (tls_stream.rs): a TcpStream and a rustls session behind the  *)
(* Read, Write and AsyncWrite traits, as the front end of rocks/mod.rs     *)
(* uses it: copy reads from it and writes to it in one task, and repeats a *)
(* call that returned WouldBlock.  The session, the socket and copy are    *)
(* external, modelled from how tls_stream.rs uses them.                    *)
(*                                                                         *)
(* A call is one step.  What moves is whole TLS records; a peer that acts  *)
(* during a call only changes how many of them one of its loops moves.     *)
(***************************************************************************)
EXTENDS Integers, FiniteSets, Sequences, SequencesExt

CONSTANTS
  MaxIn,        \* bound: application records the peer sends
  Chunks,       \* how many chunks copy has to write; chunk i is the number i
  SndBuf,       \* records the socket's send queue takes
  MaxRefused    \* bound: writes that find the socket full

ASSUME TlsAssumption ==
  MaxIn \in Nat /\ Chunks \in Nat /\ SndBuf \in Nat \ {0} /\ MaxRefused \in Nat

VARIABLES
  t,         \* the TlsStream, its session and its socket (see StreamType)
  peer,      \* the peer's side of the connection: "open", "fin", "reset"
  stage,     \* the peer: "new", "hello", "flight" (has seen the server's), "data", "mute"
  psent,     \* how many application records the peer has sent
  got,       \* chunks the peer has received
  up,        \* application records copy has read from the stream
  rd,        \* the reading half of copy: "open", "eof", "err"
  pos,       \* chunks whose write returned Ok
  wr,        \* the writing half: "open", "closed", "err"
  refused    \* the writes that returned WouldBlock after the session took their chunk

vars == <<t, peer, stage, psent, got, up, rd, pos, wr, refused>>
peerVars == <<peer, stage, psent, got>>

Rec(k, v) == [kind |-> k, val |-> v]
Records == [kind : {"hello", "flight", "finished", "data", "notify", "bad"}, val : Nat]

\* The payloads of the application-data records among s, in their order.
Values(s) ==
  LET D == {i \in DOMAIN s : s[i].kind = "data"}
  IN  [k \in 1..Cardinality(D) |-> s[CHOOSE i \in D : Cardinality({j \in D : j <= i}) = k].val]

StreamType ==
  [rx : Seq(Records),      \* received by the kernel
   eof : BOOLEAN,          \* TlsStream::eof
   hs : 0..2,              \* handshake flights of the peer the session has processed
   plain : Seq(Nat),       \* decrypted and not yet read
   notified : BOOLEAN,     \* a close_notify has arrived
   outq : Seq(Records),    \* encrypted and not yet written to the socket
   held : Seq(Nat),        \* plaintext the session keeps until the handshake is over
   tx : Seq(Records),      \* the socket's send queue
   shut : BOOLEAN]         \* the socket is shut down for writing

Init ==
  /\ t = [rx |-> <<>>, eof |-> FALSE, hs |-> 0, plain |-> <<>>, notified |-> FALSE,
          outq |-> <<>>, held |-> <<>>, tx |-> <<>>, shut |-> FALSE]
  /\ peer = "open" /\ stage = "new" /\ psent = 0 /\ got = <<>>
  /\ up = <<>> /\ rd = "open"
  /\ pos = 0 /\ wr = "open" /\ refused = <<>>

-----------------------------------------------------------------------------
\* The session (external): rustls::Session as tls_stream.rs calls it.

wants_read(s) == s.plain = <<>>
wants_write(s) == s.outq # <<>>
is_handshaking(s) == s.hs < 2

Has(rs, k) == \E i \in DOMAIN rs : rs[i].kind = k

\* The records up to the first that does not decrypt.
Valid(rs) ==
  LET bad == SelectInSeq(rs, LAMBDA r : r.kind = "bad")
  IN  IF bad = 0 THEN rs ELSE SubSeq(rs, 1, bad - 1)

\* process_new_packets on records rs.
process_new_packets(s, rs) ==
  LET ok == Valid(rs)
  IN  [s EXCEPT !.hs = IF Has(ok, "finished") THEN 2 ELSE IF Has(ok, "hello") THEN 1 ELSE @,
                !.outq = IF Has(ok, "hello") THEN Append(@, Rec("flight", 0))
                         ELSE IF Has(ok, "finished")
                         THEN @ \o [i \in DOMAIN s.held |-> Rec("data", s.held[i])]
                         ELSE @,
                !.held = IF Has(ok, "finished") THEN <<>> ELSE @,
                !.plain = IF Has(ok, "data") THEN @ \o Values(ok) ELSE @,
                !.notified = @ \/ Has(ok, "notify")]

\* Session::write takes the whole chunk.
session_write(s, c) ==
  IF is_handshaking(s) THEN [s EXCEPT !.held = Append(@, c)]
                       ELSE [s EXCEPT !.outq = Append(@, Rec("data", c))]

-----------------------------------------------------------------------------
\* The helpers of TlsStream: each yields the stream afterwards and the Poll it returns.

Ret(s, r) == [s |-> s, res |-> r]

BadCheckRead(s) ==
  LET all == [process_new_packets(s, s.rx) EXCEPT !.rx = <<>>]
  IN  IF s.eof THEN {Ret(s, "ok")}
      ELSE IF Has(s.rx, "bad") THEN {Ret(all, "err")}
      ELSE CASE peer = "open"  -> {Ret(all, "pending")}
             [] peer = "fin"   -> {Ret([all EXCEPT !.eof = TRUE], "ok")}
             [] peer = "reset" -> {Ret(all, "err")}

\* read_tls of the first n records the kernel has, with process_new_packets.
Take(s, n) ==
  [process_new_packets(s, SubSeq(s.rx, 1, n)) EXCEPT !.rx = SubSeq(s.rx, n + 1, Len(s.rx))]

\* The loop ends with the first read_tls that brings plaintext or an invalid record, which
\* may bring more records along, or when the socket has nothing left.
check_read(s) ==
  LET first == SelectInSeq(s.rx, LAMBDA r : r.kind \in {"data", "bad"})
      all == Take(s, Len(s.rx))
  IN  IF s.eof \/ ~ wants_read(s) THEN {Ret(s, "ok")}
      ELSE IF first # 0
        THEN {Ret(Take(s, n), IF Has(SubSeq(s.rx, 1, n), "bad") THEN "err" ELSE "ok") :
                n \in first..Len(s.rx)}
      ELSE CASE peer = "open"  -> {Ret(all, "pending")}
             [] peer = "fin"   -> {Ret([all EXCEPT !.eof = TRUE], "ok")}
             [] peer = "reset" -> {Ret(all, "err")}

\* The loop writes until the session has nothing left or the socket is full.
check_write(s) ==
  LET n == IF Len(s.outq) <= SndBuf - Len(s.tx) THEN Len(s.outq) ELSE SndBuf - Len(s.tx)
      moved == [s EXCEPT !.tx = @ \o SubSeq(s.outq, 1, n),
                         !.outq = SubSeq(@, n + 1, Len(@))]
  IN  IF ~ wants_write(s) THEN Ret(s, "ok")
      ELSE IF s.shut \/ peer = "reset" THEN Ret(s, "err")
      ELSE Ret(moved, IF wants_write(moved) THEN "pending" ELSE "ok")

BadCompleteIo(s) ==
  {LET r1 == IF r.res = "pending" /\ ~ is_handshaking(r.s) THEN "ok" ELSE r.res IN Ret(r.s, r1) :
     r \in check_read(s)}

\* Both loops run whatever the other one returns.  After the handshake a loop that is
\* pending does not hold up the caller.
complete_io(s) ==
  {LET w == check_write(r.s)
       both == {r.res, w.res}
   IN  Ret(w.s, IF "err" \in both THEN "err"
                ELSE IF both = {"ok"} \/ ~ is_handshaking(w.s) THEN "ok" ELSE "pending") :
     r \in check_read(s)}

-----------------------------------------------------------------------------
\* The calls, with what copy makes of their results.

\* Read::read: the end of the stream is Ok(0), an empty session WouldBlock, and a session
\* that was closed by the peer an error.
read ==
  /\ rd = "open"
  /\ \E c \in complete_io(t) :
       CASE c.res = "err"     -> t' = c.s /\ rd' = "err" /\ UNCHANGED up
         [] c.res = "pending" -> t' = c.s /\ UNCHANGED <<rd, up>>
         [] c.res = "ok" /\ c.s.eof -> t' = c.s /\ rd' = "eof" /\ UNCHANGED up
         [] c.res = "ok" /\ ~ c.s.eof /\ c.s.plain # <<>> ->
              \E k \in 1..Len(c.s.plain) :
                /\ up' = up \o SubSeq(c.s.plain, 1, k)
                /\ t' = [c.s EXCEPT !.plain = SubSeq(@, k + 1, Len(@))]
                /\ UNCHANGED rd
         [] OTHER -> /\ t' = c.s /\ UNCHANGED up
                     /\ rd' = IF c.s.notified THEN "err" ELSE rd
  /\ UNCHANGED <<peerVars, pos, wr, refused>>

BadWriteRest(s) ==
  LET w == [check_write(session_write(s, pos + 1)) EXCEPT !.res = IF @ = "pending" THEN "ok" ELSE @]
  IN  /\ t' = w.s
      /\ pos' = IF w.res = "ok" THEN pos + 1 ELSE pos
      /\ wr' = IF w.res = "err" THEN "err" ELSE wr
      /\ UNCHANGED refused

\* The second half of Write::write: the session takes the chunk, then the socket takes
\* what it can.  If that is not all, the caller is told WouldBlock and will come again with
\* the same chunk.
write_rest(s) ==
  LET w == check_write(session_write(s, pos + 1))
  IN  /\ t' = w.s
      /\ pos' = IF w.res = "ok" THEN pos + 1 ELSE pos
      /\ wr' = IF w.res = "err" THEN "err" ELSE wr
      /\ refused' = IF w.res = "pending" THEN Append(refused, pos + 1) ELSE refused

BadWrite ==
  /\ wr = "open" /\ pos < Chunks
  /\ \E c \in complete_io(session_write(t, pos + 1)) :
       /\ t' = c.s
       /\ wr' = IF c.res = "err" THEN "err" ELSE wr
       /\ pos' = IF c.res = "ok" THEN pos + 1 ELSE pos
  /\ UNCHANGED <<peerVars, up, rd, refused>>

\* Write::write of the next chunk.  After the end of the peer's stream it is Ok(0), which
\* copy reports as WriteZero.
write ==
  /\ wr = "open" /\ pos < Chunks
  /\ Len(refused) < MaxRefused \/ Len(t.tx) + Len(t.outq) < SndBuf \/ peer = "reset"
  /\ IF t.eof
     THEN wr' = "err" /\ UNCHANGED <<t, pos, refused>>
     ELSE \E c \in complete_io(t) :
            CASE c.res = "err"     -> t' = c.s /\ wr' = "err" /\ UNCHANGED <<pos, refused>>
              [] c.res = "pending" -> t' = c.s /\ UNCHANGED <<wr, pos, refused>>
              [] c.res = "ok"      -> write_rest(c.s)
  /\ UNCHANGED <<peerVars, up, rd>>

\* Write::write of an empty buffer shuts the socket down for writing.
write_empty ==
  /\ wr = "open" /\ pos = Chunks
  /\ IF peer = "reset" THEN wr' = "err" /\ UNCHANGED t
                       ELSE wr' = "closed" /\ t' = [t EXCEPT !.shut = TRUE]
  /\ UNCHANGED <<peerVars, up, rd, pos, refused>>

Closing(r) == CASE r = "ok" -> "closed" [] r = "err" -> "err" [] r = "pending" -> wr

flush ==
  /\ wr = "open" /\ pos = Chunks
  /\ LET w == check_write(t) IN t' = w.s /\ wr' = Closing(w.res)
  /\ UNCHANGED <<peerVars, up, rd, pos, refused>>

\* AsyncWrite::shutdown: that of the TcpStream does nothing.
shutdown ==
  /\ wr = "open" /\ pos = Chunks
  /\ \E c \in complete_io(t) : t' = c.s /\ wr' = Closing(c.res)
  /\ UNCHANGED <<peerVars, up, rd, pos, refused>>

-----------------------------------------------------------------------------
\* The peer (external).

streamVars == <<up, rd, pos, wr, refused>>
Send(r) == t' = [t EXCEPT !.rx = Append(@, r)]

PeerHello ==
  /\ peer = "open" /\ stage = "new"
  /\ Send(Rec("hello", 0)) /\ stage' = "hello"
  /\ UNCHANGED <<peer, psent, got, streamVars>>

PeerFinished ==
  /\ peer = "open" /\ stage = "flight"
  /\ Send(Rec("finished", 0)) /\ stage' = "data"
  /\ UNCHANGED <<peer, psent, got, streamVars>>

PeerSend ==
  /\ peer = "open" /\ stage = "data" /\ psent < MaxIn
  /\ Send(Rec("data", psent + 1)) /\ psent' = psent + 1
  /\ UNCHANGED <<peer, stage, got, streamVars>>

\* The last thing a peer sends: a close_notify, or a record that does not decrypt.
PeerLast ==
  /\ peer = "open" /\ stage # "mute"
  /\ \E k \in {"bad"} \cup (IF stage = "data" THEN {"notify"} ELSE {}) : Send(Rec(k, 0))
  /\ stage' = "mute"
  /\ UNCHANGED <<peer, psent, got, streamVars>>

PeerFin ==
  /\ peer = "open" /\ peer' = "fin"
  /\ UNCHANGED <<t, stage, psent, got, streamVars>>

\* The kernel may drop what it has received together with what it was to send.
PeerReset ==
  /\ peer # "reset" /\ peer' = "reset"
  /\ \E q \in {t.rx, <<>>} : t' = [t EXCEPT !.rx = q, !.tx = <<>>]
  /\ UNCHANGED <<stage, psent, got, streamVars>>

PeerRead ==
  /\ peer # "reset" /\ t.tx # <<>>
  /\ t' = [t EXCEPT !.tx = Tail(@)]
  /\ stage' = IF Head(t.tx).kind = "flight" /\ stage = "hello" THEN "flight" ELSE stage
  /\ got' = IF Head(t.tx).kind = "data" THEN Append(got, Head(t.tx).val) ELSE got
  /\ UNCHANGED <<peer, psent, streamVars>>

-----------------------------------------------------------------------------
Peer ==
  PeerHello \/ PeerFinished \/ PeerSend \/ PeerLast \/ PeerFin \/ PeerReset \/ PeerRead

\* copy has returned.
Done == rd # "open" /\ wr # "open" /\ UNCHANGED vars

Next == read \/ write \/ write_empty \/ flush \/ shutdown \/ Peer \/ Done

\* The task is polled when its socket is ready, and polls both halves.  A peer goes on with
\* its handshake and reads; nothing is assumed of what else it does.
Fairness ==
  /\ WF_vars(read) /\ WF_vars(write)
  /\ WF_vars(PeerFinished) /\ WF_vars(PeerRead)

Spec == Init /\ [][Next]_vars /\ Fairness

-----------------------------------------------------------------------------
\* Properties.

\* copy reads what the peer sent, in order, and is told that the stream has ended only
\* when it has read all of it: eof is noticed only with no plaintext left in the session.
ReadComplete ==
  /\ \A i \in DOMAIN up : up[i] = i
  /\ rd = "eof" => Len(up) = psent

Count(s, c) == Cardinality({i \in DOMAIN s : s[i] = c})

\* The peer receives the chunks in order and without gaps, and a chunk once more only for
\* every write that handed it to the session, found the socket full and was refused.
WrittenInOrder ==
  /\ \A i \in DOMAIN got : IF i = 1 THEN got[i] = 1 ELSE got[i] - got[i - 1] \in {0, 1}
  /\ \A c \in 1..Chunks : Count(got, c) <= 1 + Count(refused, c)

\* A chunk whose write returned Ok has left the session: closing the stream in any of the
\* three ways, or dropping it, loses nothing.  The exception is a peer that leaves during
\* the handshake: the write that notices the end of its stream still returns Ok.
OkMeansHandedOver ==
  \A i \in 1..pos :
    \/ i \in ToSet(got) \/ Rec("data", i) \in ToSet(t.tx)
    \/ peer = "reset"
    \/ t.eof /\ is_handshaking(t)

\* A handshake with a peer that plays its part comes to an end, although it is driven by
\* the reads and writes of copy alone, each of which may wait for the other's records.
HandshakeCompletes ==
  stage = "hello" ~> (~ is_handshaking(t) \/ peer # "open" \/ stage = "mute")
=============================================================================
