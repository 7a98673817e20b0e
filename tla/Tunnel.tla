------------------------------- MODULE Tunnel -------------------------------
(***************************************************************************)
(* bicopy (connection.rs): the data phase of a session.  Two               *)
(* tokio::io::copy futures, one per direction, joined in one task over the *)
(* two TcpStreams.  tokio::io::copy and the kernel's socket queues are     *)
(* external and modelled from how bicopy uses them.                        *)
(*                                                                         *)
(* A direction is named after the side it reads from.  Its bytes move      *)
(*   out -> rx (kernel) -> buf (copy) -> tx (kernel) -> got                *)
(***************************************************************************)
EXTENDS Integers, Sequences, SequencesExt

CONSTANTS
  Data,      \* the bytes the two ends send
  BufLen,    \* the copy buffer
  SndBuf,    \* the kernel's send queue towards an end
  MaxOut     \* bound: bytes an end sends

ASSUME TunnelAssumption ==
  /\ BufLen \in Nat \ {0} /\ SndBuf \in Nat \ {0} /\ MaxOut \in Nat

Sides == {"client", "remote"}
Other(s) == IF s = "client" THEN "remote" ELSE "client"

VARIABLES
  phase,   \* "start": before the address queries of bicopy; "copy"; "failed"
  copy,    \* copy[s]: the copy future reading from s: "running", "ok", "err"
  peer,    \* peer[s]: what the end does with its socket: "open", "eof", "reset"
  out,     \* out[s]: everything end s has sent
  rx,      \* rx[s]: bytes from s in the kernel, not yet read by copy
  buf,     \* buf[s]: bytes read by copy and not yet written
  tx,      \* tx[s]: bytes from s written to the other end's socket
  got      \* got[s]: bytes from s the other end has read

queues == <<out, rx, buf, tx, got>>
vars == <<phase, copy, peer, queues>>

Init ==
  /\ phase = "start"
  /\ copy = [s \in Sides |-> "running"]
  /\ peer = [s \in Sides |-> "open"]
  /\ out = [s \in Sides |-> <<>>]
  /\ rx = [s \in Sides |-> <<>>]
  /\ buf = [s \in Sides |-> <<>>]
  /\ tx = [s \in Sides |-> <<>>]
  /\ got = [s \in Sides |-> <<>>]

BadEndedSelect == phase = "failed" \/ \E s \in Sides : copy[s] # "running"
BadEndedOkOnly == phase = "failed" \/ \A s \in Sides : copy[s] = "ok"

\* bicopy has returned, and both TcpStreams are dropped in the same poll: join! is done
\* when both futures are.
Ended == phase = "failed" \/ \A s \in Sides : copy[s] # "running"

BadResult ==
  CASE phase = "failed"      -> "address error"
    [] copy["remote"] = "ok"  -> "Ok"
    [] copy["remote"] = "err" -> "copy error second half"
    [] OTHER                  -> "pending"

\* The match on the joined results.
result ==
  CASE phase = "failed"                              -> "address error"
    [] copy["client"] = "ok" /\ copy["remote"] = "ok"  -> "Ok"
    [] copy["client"] = "err" /\ copy["remote"] = "ok" -> "copy error first half"
    [] copy["remote"] = "err"                          -> "copy error second half"
    [] OTHER                                           -> "pending"

-----------------------------------------------------------------------------
\* The two ends (external).

PeerWrite(s) ==
  /\ peer[s] = "open" /\ ~ Ended /\ Len(out[s]) < MaxOut
  /\ \E d \in Data :
       /\ out' = [out EXCEPT ![s] = Append(@, d)]
       /\ rx' = [rx EXCEPT ![s] = Append(@, d)]
  /\ UNCHANGED <<phase, copy, peer, buf, tx, got>>

PeerRead(s) ==
  /\ peer[Other(s)] # "reset"
  /\ \E k \in 1..Len(tx[s]) :
       /\ got' = [got EXCEPT ![s] = @ \o SubSeq(tx[s], 1, k)]
       /\ tx' = [tx EXCEPT ![s] = SubSeq(@, k + 1, Len(@))]
  /\ UNCHANGED <<phase, copy, peer, out, rx, buf>>

PeerShutdown(s) ==
  /\ peer[s] = "open" /\ ~ Ended
  /\ peer' = [peer EXCEPT ![s] = "eof"]
  /\ UNCHANGED <<phase, copy, queues>>

\* The end is gone: what was queued for it is lost.
PeerReset(s) ==
  /\ peer[s] # "reset" /\ ~ Ended
  /\ peer' = [peer EXCEPT ![s] = "reset"]
  /\ tx' = [tx EXCEPT ![Other(s)] = <<>>]
  /\ UNCHANGED <<phase, copy, out, rx, buf, got>>

\* The proxy's socket is closed while s has bytes in it nobody read, or may still send
\* some: the kernel answers with RST, which can cost s what was queued for it.
ClosedReset(s) ==
  /\ Ended /\ tx[Other(s)] # <<>> /\ (rx[s] # <<>> \/ peer[s] = "open")
  /\ tx' = [tx EXCEPT ![Other(s)] = <<>>]
  /\ UNCHANGED <<phase, copy, peer, out, rx, buf, got>>

-----------------------------------------------------------------------------
\* bicopy

\* incoming.p_addr()? and outgoing.p_addr()?: getpeername fails on a reset socket.
AddressError ==
  /\ phase = "start" /\ \E s \in Sides : peer[s] = "reset"
  /\ phase' = "failed"
  /\ UNCHANGED <<copy, peer, queues>>

bicopy ==
  /\ phase = "start" /\ \A s \in Sides : peer[s] # "reset"
  /\ phase' = "copy"
  /\ UNCHANGED <<copy, peer, queues>>

Running(s) == phase = "copy" /\ copy[s] = "running" /\ ~ Ended

BadSink(s) == Other(s)

\* The direction whose send queue the copy reading from s fills: i2o is given rin and
\* wout, o2i is given rout and win.
sink(s) == s

\* poll_read into the free part of the copy buffer.
CopyRead(s) ==
  /\ Running(s)
  /\ \E k \in 1..Len(rx[s]) :
       /\ Len(buf[s]) + k <= BufLen
       /\ buf' = [buf EXCEPT ![s] = @ \o SubSeq(rx[s], 1, k)]
       /\ rx' = [rx EXCEPT ![s] = SubSeq(@, k + 1, Len(@))]
  /\ UNCHANGED <<phase, copy, peer, out, tx, got>>

BadCopyWrite(s) ==
  /\ Running(s) /\ peer[Other(s)] # "reset"
  /\ \E k \in 1..Len(buf[s]) :
       /\ tx' = [tx EXCEPT ![sink(s)] = @ \o SubSeq(buf[s], 1, k)]
       /\ buf' = [buf EXCEPT ![s] = SubSeq(@, k + 1, Len(@))]
  /\ UNCHANGED <<phase, copy, peer, out, rx, got>>

\* poll_write takes as much as fits the send queue.
CopyWrite(s) ==
  /\ Running(s) /\ peer[Other(s)] # "reset"
  /\ \E k \in 1..Len(buf[s]) :
       /\ Len(tx[sink(s)]) + k <= SndBuf
       /\ tx' = [tx EXCEPT ![sink(s)] = @ \o SubSeq(buf[s], 1, k)]
       /\ buf' = [buf EXCEPT ![s] = SubSeq(@, k + 1, Len(@))]
  /\ UNCHANGED <<phase, copy, peer, out, rx, got>>

\* A read of zero bytes after everything before it was written: copy flushes and returns
\* Ok.  It does not shut down the writer, and neither does bicopy.
CopyEof(s) ==
  /\ Running(s) /\ peer[s] = "eof" /\ rx[s] = <<>> /\ buf[s] = <<>>
  /\ copy' = [copy EXCEPT ![s] = "ok"]
  /\ UNCHANGED <<phase, peer, queues>>

ReadError(s) ==
  /\ Running(s) /\ peer[s] = "reset" /\ Len(buf[s]) < BufLen
  /\ copy' = [copy EXCEPT ![s] = "err"]
  /\ UNCHANGED <<phase, peer, queues>>

WriteError(s) ==
  /\ Running(s) /\ peer[Other(s)] = "reset" /\ buf[s] # <<>>
  /\ copy' = [copy EXCEPT ![s] = "err"]
  /\ UNCHANGED <<phase, peer, queues>>

-----------------------------------------------------------------------------
CopyStep(s) == CopyRead(s) \/ CopyWrite(s) \/ CopyEof(s) \/ ReadError(s) \/ WriteError(s)
PeerStep(s) == PeerWrite(s) \/ PeerRead(s) \/ PeerShutdown(s) \/ PeerReset(s) \/ ClosedReset(s)

\* bicopy has returned and both ends have read what reached them.
Finished == Ended /\ (\A s \in Sides : tx[s] = <<>>) /\ UNCHANGED vars

Next ==
  \/ AddressError \/ bicopy
  \/ \E s \in Sides : CopyStep(s) \/ PeerStep(s)
  \/ Finished

\* The task is polled whenever one of its sockets is ready, and join! polls both futures
\* each time, so each direction makes progress of its own; an end reads what it is sent.
\* Nothing is assumed of when an end sends, shuts down or resets.
Fairness ==
  /\ WF_vars(AddressError \/ bicopy)
  /\ \A s \in Sides : WF_vars(CopyStep(s)) /\ WF_vars(PeerRead(s))

Spec == Init /\ [][Next]_vars /\ Fairness

-----------------------------------------------------------------------------
\* Properties.

TypeOK ==
  /\ phase \in {"start", "copy", "failed"}
  /\ copy \in [Sides -> {"running", "ok", "err"}]
  /\ peer \in [Sides -> {"open", "eof", "reset"}]
  /\ out \in [Sides -> Seq(Data)]
  /\ rx \in [Sides -> Seq(Data)]
  /\ buf \in [Sides -> Seq(Data)]
  /\ tx \in [Sides -> Seq(Data)]
  /\ got \in [Sides -> Seq(Data)]
  /\ \A s \in Sides : Len(buf[s]) <= BufLen /\ Len(tx[s]) <= SndBuf

\* The direction from s still takes every byte to the other end.
Live(s) == phase # "failed" /\ copy[s] = "running" /\ peer[Other(s)] # "reset"

\* While a direction is live, every byte sent is in exactly one of the four places it
\* passes through, in order; afterwards what was delivered, with what is on its way in the
\* send queue, is still a beginning of what was sent.
Conservation ==
  \A s \in Sides :
    IF Live(s) THEN out[s] = (got[s] \o tx[s]) \o (buf[s] \o rx[s])
               ELSE IsPrefix(got[s] \o tx[s], out[s])

\* What an end has received is a beginning of what the other end sent: bicopy loses,
\* repeats, reorders and invents nothing in the middle of a stream.
Integrity == \A s \in Sides : IsPrefix(got[s], out[s])

\* When bicopy returns Ok, nothing either end sent is left behind in the proxy: it has
\* been handed to the other end's socket, unless that end reset it.
OkMeansComplete ==
  result = "Ok" => \A s \in Sides : peer[Other(s)] # "reset" => got[s] \o tx[s] = out[s]

\* The two directions are pipes of their own, as DuplexPipe describes them: a byte is
\* inside the pipe until copy gives up on it.
Pipe == INSTANCE DuplexPipe WITH
  open <- [s \in Sides |-> Live(s)],
  transit <- [s \in Sides |-> IF Live(s) THEN tx[s] \o (buf[s] \o rx[s]) ELSE tx[s]]
ImplementsPipe == Pipe!Spec

NoReset == \A s \in Sides : peer[s] # "reset"

\* What an end sends arrives, also after the opposite direction has finished, as long as
\* neither end resets its connection.
Delivered ==
  \A s \in Sides : \A n \in 1..MaxOut :
    Len(out[s]) >= n ~> (Len(got[s]) >= n \/ ~ NoReset)

\* When both ends have shut down or reset their connections, bicopy returns and the two
\* sockets are released.
Released == (\A s \in Sides : peer[s] # "open") ~> Ended

\* The end of a stream is part of it: when one end has shut down its side, the other
\* end comes to see the end of the stream (the proxy's socket closed and nothing queued
\* before that), unless a connection is reset.
SeesEof(s) == Ended /\ tx[Other(s)] = <<>>
EofReaches == \A s \in Sides : peer[s] = "eof" ~> (SeesEof(Other(s)) \/ ~ NoReset)
=============================================================================
