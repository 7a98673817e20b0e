----------------------------- MODULE RocksQueue -----------------------------
(***************************************************************************)
(* The request queue of the Rocks front end (rocks/actix_app.rs): an HTTP  *)
(* handler turns a form into a RocksPacket, pushes it on a SegQueue shared *)
(* with the tunnel tasks, and waits for the answer on a channel of one     *)
(* place, for five seconds.  The tunnel tasks pop packets and answer them  *)
(* (process_packet in rocks/mod.rs).                                       *)
(*                                                                         *)
(* Neither ReceiverFuture nor SegQueueFuture keeps a waker: a task that    *)
(* got Pending is polled again for other reasons only, here the timer of   *)
(* the timeout and whatever else its connection does.                      *)
(***************************************************************************)
EXTENDS Integers, Sequences, SequencesExt

CONSTANTS
  Requests,    \* the requests
  Forms,       \* the forms they may send (a subset of FormType)
  Consumers,   \* the tasks that wait for packets
  NoPacket     \* no request

\* The decoded form and the method: which fields it has, and whether they parse.
FormType ==
  [method : {"GET", "POST", "PUT"}, user : {"none", "valid", "invalid"},
   host : {"none", "ip", "name"}, port : {"none", "valid", "invalid"},
   conn : {"none", "valid", "invalid"}]

ASSUME QueueAssumption == Forms \subseteq FormType /\ NoPacket \notin Requests

VARIABLES
  form,     \* form[r]: what request r sends
  pc,       \* pc[r]: "body", "pushed", "checked" (amid a poll), "waiting", or one of Over
  due,      \* due[r]: the five seconds are over
  woken,    \* woken[r]: the handler's task is scheduled
  queue,    \* the SegQueue
  chan,     \* chan[r]: "none", "empty", "full", "late" (full, since the poll under way looked
            \* into it), "gone" (empty, and its sender dropped)
  cons      \* cons[k]: the packet consumer k is processing, or NoPacket

queueVars == <<form, pc, due, woken, queue, chan, cons>>

Over == {"answered", "elapsed", "failed", "cancelled"}

QueueInit ==
  /\ form \in [Requests -> Forms]
  /\ pc = [r \in Requests |-> "body"]
  /\ due = [r \in Requests |-> FALSE]
  /\ woken = [r \in Requests |-> FALSE]
  /\ queue = <<>>
  /\ chan = [r \in Requests |-> "none"]
  /\ cons = [k \in Consumers |-> NoPacket]

-----------------------------------------------------------------------------
\* RocksPacket::new: the packet a form stands for, or "error".
RocksPacket_new(f) ==
  LET address == f.user # "none" /\ f.host # "none" /\ f.port # "none" /\ f.conn = "none"
      conn_only == f.user = "none" /\ f.host = "none" /\ f.port = "none" /\ f.conn # "none"
  IN  CASE address /\ f.user = "valid" /\ f.port = "valid"          -> "Connect"
        [] conn_only /\ f.method = "GET" /\ f.conn = "valid"        -> "Get"
        [] conn_only /\ f.method = "POST" /\ f.conn = "valid"       -> "Post"
        [] OTHER                                                    -> "error"

-----------------------------------------------------------------------------
\* rocks_handler_impl.  The body has arrived: a packet is made and pushed, or the request
\* fails.  The answer may come before the receiver is polled for the first time.
rocks_handler_impl(r) ==
  /\ pc[r] = "body"
  /\ IF RocksPacket_new(form[r]) = "error"
     THEN pc' = [pc EXCEPT ![r] = "failed"] /\ UNCHANGED <<queue, chan, woken>>
     ELSE /\ pc' = [pc EXCEPT ![r] = "pushed"]
          /\ queue' = Append(queue, r)
          /\ chan' = [chan EXCEPT ![r] = "empty"]
          /\ woken' = [woken EXCEPT ![r] = TRUE]
  /\ UNCHANGED <<form, due, cons>>

\* req.urlencoded() fails, the timer of the timeout does when poll asks it, or the
\* connection is closed and actix drops the handler.
GivenUp(r) ==
  /\ \/ pc[r] \in {"body", "checked"} /\ pc' = [pc EXCEPT ![r] = "failed"]
     \/ pc[r] \in {"body", "waiting"} /\ pc' = [pc EXCEPT ![r] = "cancelled"]
  /\ UNCHANGED <<form, due, woken, queue, chan, cons>>

BadTryRecv(r) ==
  /\ woken[r] /\ pc[r] \in {"pushed", "waiting"}
  /\ woken' = [woken EXCEPT ![r] = FALSE]
  /\ pc' = [pc EXCEPT ![r] = IF due[r] THEN "elapsed"
                             ELSE IF chan[r] = "full" THEN "answered" ELSE "checked"]
  /\ UNCHANGED <<form, due, queue, chan, cons>>

\* Timeout::poll asks the inner future first: ReceiverFuture::poll takes the answer.  It
\* makes no difference between an empty channel and one whose sender is gone.
try_recv(r) ==
  /\ woken[r] /\ pc[r] \in {"pushed", "waiting"}
  /\ woken' = [woken EXCEPT ![r] = FALSE]
  /\ pc' = [pc EXCEPT ![r] = IF chan[r] = "full" THEN "answered" ELSE "checked"]
  /\ UNCHANGED <<form, due, queue, chan, cons>>

\* The rest of Timeout::poll, with the inner future pending: has the time elapsed?  The
\* consumers run on other threads and may act between the two halves.
poll(r) ==
  /\ pc[r] = "checked" \/ (pc[r] = "body" /\ woken[r])
  /\ woken' = [woken EXCEPT ![r] = @ /\ pc[r] = "checked"]
  /\ pc' = [pc EXCEPT ![r] = IF due[r] THEN "elapsed" ELSE IF @ = "checked" THEN "waiting" ELSE @]
  /\ chan' = [chan EXCEPT ![r] = IF @ = "late" /\ ~ due[r] THEN "full" ELSE @]
  /\ UNCHANGED <<form, due, queue, cons>>

BadTimer(r) ==
  /\ ~ due[r] /\ pc[r] \notin Over
  /\ due' = [due EXCEPT ![r] = TRUE]
  /\ UNCHANGED <<form, pc, woken, queue, chan, cons>>

\* Five seconds are over: the timer wakes the task that polls the timeout.
Timer(r) ==
  /\ ~ due[r] /\ pc[r] \notin Over
  /\ due' = [due EXCEPT ![r] = TRUE]
  /\ woken' = [woken EXCEPT ![r] = TRUE]
  /\ UNCHANGED <<form, pc, queue, chan, cons>>

\* The task is woken by its connection.
Wake(r) ==
  /\ ~ woken[r] /\ pc[r] \notin Over
  /\ woken' = [woken EXCEPT ![r] = TRUE]
  /\ UNCHANGED <<form, pc, due, queue, chan, cons>>

-----------------------------------------------------------------------------
BadPop(k) ==
  /\ cons[k] = NoPacket /\ queue # <<>>
  /\ cons' = [cons EXCEPT ![k] = Head(queue)]
  /\ UNCHANGED <<form, pc, due, woken, chan, queue>>

\* SegQueueFuture::poll with a packet in the queue.
pop(k) ==
  /\ cons[k] = NoPacket /\ queue # <<>>
  /\ cons' = [cons EXCEPT ![k] = Head(queue)]
  /\ queue' = Tail(queue)
  /\ UNCHANGED <<form, pc, due, woken, chan>>

\* process_packet: a Connect is answered, another packet is dropped and its sender with it.
\* The channel has room for the one answer it is made for; with the receiver gone send
\* fails, and the error is ignored.
process_packet(k) ==
  LET r == cons[k]
      listening == pc[r] \notin Over
      connect == RocksPacket_new(form[r]) = "Connect"
  IN  /\ r # NoPacket
      /\ chan' = [chan EXCEPT ![r] = IF ~ connect \/ ~ listening THEN "gone"
                                     ELSE IF pc[r] = "checked" THEN "late" ELSE "full"]
      /\ cons' = [cons EXCEPT ![k] = NoPacket]
      /\ UNCHANGED <<form, pc, due, woken, queue>>

QueueIdle == (\A r \in Requests : pc[r] \in Over) /\ UNCHANGED queueVars

QueueNext ==
  \/ \E r \in Requests : \/ rocks_handler_impl(r) \/ GivenUp(r)
                           \/ try_recv(r) \/ poll(r) \/ Timer(r) \/ Wake(r)
  \/ \E k \in Consumers : pop(k) \/ process_packet(k)
  \/ QueueIdle

-----------------------------------------------------------------------------
\* Properties.

\* A request is turned away for lack of time only if there was no answer to it: one that
\* arrived unnoticed, or at the same time as the end of the five seconds, is delivered.  The
\* exception is the answer that slips in between the two halves of the last poll.
AnswerBeatsTimeout == \A r \in Requests : pc[r] = "elapsed" => chan[r] # "full"

\* Every packet is in one place, the queue or the hands of one task, until it has been
\* processed, also when its request is long over; nobody answers a request twice.
PacketOnce ==
  \A r \in Requests :
    LET places == {<<"queue", i>> : i \in {j \in DOMAIN queue : queue[j] = r}}
                  \cup {<<"task", k>> : k \in {j \in Consumers : cons[j] = r}}
    IN  IF chan[r] = "empty" THEN \E p \in places : places = {p} ELSE places = {}

\* Every request comes to an end although nothing wakes the handler when its answer comes.
RequestEnds == \A r \in Requests : <>(pc[r] \in Over)
=============================================================================
