# A TLA+ verification of rocks

rocks is a SOCKS5 proxy written in Rust on tokio. This directory holds TLA+ models of its
parts, the TLC configurations that check them on small instances, and TLAPS proofs of the
properties that matter most for every instance. Source lines are given relative to the
repository's `src/` directory.

## Inventory

What the binary consists of (the modules `main.rs` declares):

| Part | State it keeps | Operations | Correct when |
| --- | --- | --- | --- |
| `main.rs`, `incoming.rs` | the configuration, the listener | start, accept, spawn a task per client, leave the loop on an accept error | clients do not starve each other, the end of the loop ends everything |
| `client_manager.rs` | the control flow of one session | `handle_client`, `process_request`, `abort` | every accepted request is answered, with the truth |
| `socks5/incoming.rs` | the client's stream | `authenticate_client`, `get_request`, `abort`, `ready_for_connect`, `send_final_response` | reads exactly the handshake, replies in protocol order |
| `socks5/mod.rs` | none | constants, `try_from` | as in RFC 1928 |
| `req_addr.rs` | none | three parsers, `resolve_local`, default address | the address dialled is the one asked for |
| `outgoing.rs` | none | `get_outgoing`, `process_request_impl`, error mapping | an error becomes the reply code that names it |
| `connection.rs` | two streams, two copies | `bicopy` | each direction is a byte pipe |
| `config.rs` | none | `into_addr`, the type fields | an unusable configuration stops the start |
| `error.rs` | none | text for the log | nothing depends on it |

What the repository holds besides, for the Rocks protocol the project's README calls planned
(`mod rocks`, `stream_wrap` and `tls_stream` are commented out in `main.rs`, the others are
not declared). It does not compile with the crate and is modelled as it stands:

| Part | State it keeps | Operations | Correct when |
| --- | --- | --- | --- |
| `http_parse/` | a partial line, the header so far | `parse_line_http`, `parse_http` | the cut of the chunks does not matter |
| `future_ext.rs`, `wrap_future` | the results of two futures | `poll` | no result and no wakeup is lost |
| `tls_stream.rs` | socket, rustls session, `eof` | `read`, `write`, `flush`, `shutdown` | each direction is a byte pipe, the handshake ends |
| `rocks/actix_app.rs` | a queue of packets, a channel per request | push, pop, answer, five second timeout | every request ends, with its answer if there is one |
| `rocks/connection_manager.rs` | a table of connections | `get_connection`, `add_connection` | a connection has one owner |
| `rocks/mod.rs`, `rocks/hyper_svr.rs`, `rocks/hyper_service_helper.rs` | listener, an HTTP server behind it | accept, TLS, tunnel, answer | clients do not depend on each other |
| `hyper_tls_server.rs` | listener | two serving loops | as above |
| `wsocket.rs` | one session | upgrade, request, connect, reply, copy | dials for its user only, and tells it the truth |
| `stream_wrap.rs` | bytes read ahead | `read` | not used anywhere |

How the parts interact: `main` accepts a connection and spawns `handle_client`. The task reads
greeting and request from the client, resolves and connects, answers, and hands both streams
to `bicopy`. Sessions share no memory. They do share the worker threads of the runtime
(`resolve_local` blocks one for the length of a name lookup), the descriptors of the process,
and its life: an accept error, for instance for want of descriptors, ends `main` and drops
every task.

What is hard to test here: a peer that acts between any two awaits (segmentation, early
payload, shutdown, reset), errors of the operating system, resource limits, what happens when
one direction of a tunnel ends, where chunk boundaries fall in the HTTP parser, a socket that
is full in the middle of a TLS write, an answer that races a timeout, and futures that are not
woken. The list
`hazards` in PROJECT.json gives each at its line, with the properties aimed at it.

## Modules

| Module | Models | Runs |
| --- | --- | --- |
| `Socks5Wire` | codes, address parsers, response encoder, error mapping (pure functions) | through the next two |
| `Socks5Session` | one task per client from accept to `bicopy` | `session`, `session_code` |
| `Socks5Codec` | the address of one request: parsed, dialled, echoed | `codec`, `codec_v4` |
| `Tunnel` | `bicopy` over two sockets | `tunnel`, `tunnel_eof` |
| `DuplexPipe` | what a tunnel promises: two byte pipes (abstract) | refined by `Tunnel` |
| `RocksServer` | `main` around the sessions (extends `Socks5Session`) | `server` |
| `HttpParse` | `LineParser` and `HttpHeaderParser` | `http` |
| `FutureExt` | `alt`, `join`, `join_on_ok`, `FlagFuture`, `wrap_future` | `futures` |
| `TlsStream` | `TlsStream` between `copy` and a rustls session | `tls` |
| `RocksQueue` | the request queue, its consumers and the timeout | `rocks` |
| `ConnectionTable` | `ConnectionManager` | `rocks` |
| `RocksFront` | the four servers of the Rocks side, from accept to answer | `front` |
| `Socks5SessionProofs`, `Socks5CodecProofs`, `TunnelProofs`, `HttpParseProofs`, `FutureExtProofs`, `TlsStreamProofs`, `RocksSharedProofs`, `RocksFrontProofs` | proofs | |
| `MCSession`, `MCCodec`, `MCServer`, `MCHttp`, `MCFront` | values of constants for TLC | |
| `MCRocks` | `RocksQueue` and `ConnectionTable` side by side, and values of constants | |

Operators named `Bad...` are plausible mistakes in the definition that follows them. They are
used nowhere in the specifications; each run's properties are known to fail when one replaces
the definition (list `mutants` in PROJECT.json).

### Socks5Session

`pc[c]` is the await at which the task of client `c` is suspended; an action runs from one
await to the next, as a poll does. A client's byte stream is a script: the values of the
fields the code branches on, and a length. `sent[c]` counts bytes that reached the server's
socket, `consumed[c]` bytes the task has read. `read_exact` waits for all its bytes; on a
reset socket it may either still read what is queued or fail, as the kernel may do. A peer
may send in any chunks, also before it is accepted and ahead of the answers, and may shut
down or reset at any point. Two things end a task in a panic: a host name of 254 or 255 bytes
overruns the slice of the request buffer, and one that is not UTF-8 is unwrapped by a log
statement when the level is debug. `conn[c]` is the socket towards the destination, `err[c]`
the error handed to `abort`, `errno[c]` what the operating system reported. The numbers are
those of Linux.

### Socks5Codec

The same request followed through the data: the octets after ATYP are parsed into a `ReqAddr`,
resolved (a name to any of the addresses in `Hosts`) and encoded into the response. A host
name is a sequence of octets; only single-byte UTF-8 is told apart from bytes that are never
valid on their own.

### Tunnel and DuplexPipe

Per direction, a byte moves `out -> rx -> buf -> tx -> got`: sent by an end, in the kernel's
receive queue, in the buffer of `tokio::io::copy`, in the kernel's send queue, read by the
other end. `tokio::io::copy` and the sockets are external and modelled from how `bicopy` uses
them: partial reads and writes, bounded buffer and send queue, end of stream, errors on both
sides. `Ended` is the completion of `join!`; both sockets are dropped in that poll, after
which a socket with unread bytes may be reset and lose what is queued for its end.
`ImplementsPipe` maps the queues of a live direction to the pipe's content.

### RocksServer

Adds to the sessions the listener, the descriptor limit, the worker threads and the end of the
process. `Busy` is the set of tasks inside the blocking lookup. With every worker busy no other
task proceeds; accept runs on the main thread and may still find a connection it knows of, but is
promised nothing. `Used` counts the descriptors that are open and `Needed` those the stages of the
live sessions call for; `FullOnlyWithLive` compares the two where it hurts, when a connect or an
accept fails for want of one. Any accept error leaves the loop; the runtime then drops tasks
at their awaits, and waits for a lookup under way.

### HttpParse

`Call(k)` hands the parser the next `k` bytes; each further step is one turn of the loop in
`parse_http`. Bytes are CR, LF or anything else. The variable `cuts` records how chunks have
been cut, because the properties hold for some cuts only, which is what the run finds out:
lines are right unless a chunk is a lone LF or goes on after a blank line before the request;
the header handed to `httparse` is whole only if no chunk ends within a line.

### FutureExt

A poll of a combinator polls its futures as the code's match does. An executor polls a task
once and whenever it is woken, on any thread. A leaf either keeps the waker or is a
`FlagFuture`, which does not. `wrap_future` polls its future on the thread `start_server` was
first polled on; elsewhere it wakes `start_server` and returns, with nobody to wake its own
task. `OnlyFlagsAreMissed` says that these are the only two ways to miss a completion.

### TlsStream

A call of `read`, `write`, `flush` or `shutdown` is one step, and TLS records are the unit that
moves: `rx` (kernel) to `plain` (decrypted) to the caller, and from the caller through `outq`
(encrypted) to `tx` (send queue). The session is external and modelled by the methods
`tls_stream.rs` calls: what it wants to read and write, the two flights of a handshake,
plaintext held back until the handshake is over. The caller is `copy`, which repeats a call
that returned `WouldBlock`. The variable `refused` lists the writes that returned `WouldBlock`
after the session had taken their chunk: each of them may send a chunk a second time, and
`WrittenInOrder` says that nothing else does. `write` accepts a chunk in the poll in which it
learns that the peer left during the handshake; `OkMeansHandedOver` names this exception.

### RocksQueue and ConnectionTable

The side that answers is commented out at this commit: `process_packet` and the start of the
queue's HTTP server (`rocks/mod.rs` 63-73, 97-102, 107-119). It is modelled as it is written there,
to close the loop around the code that is there (`actix_app.rs`).

A request is turned into a packet, pushed, and waits. `Timeout::poll` is two steps, because
consumers run on other threads: `try_recv` looks into the channel, `poll` at the clock. The
channel value `late` marks an answer that arrived between them. Neither future keeps a waker,
so `woken` is set by the timer, by the first poll and by whatever else the connection does
(`Wake`), never by an answer. Consumers are not fair: nothing makes a task look into the queue.
`get_connection` moves a connection from the table into the hands of one user and
`add_connection` moves it back, or drops it if its identifier was taken meanwhile.

### RocksFront

One module for four servers, because what is asked of them is the same: what one connection
costs the others. `mode` tells them apart. `loop` is the connection an accept loop awaits
(`Serial`: two of the servers do), `fatal` says whose errors end the server. A client is a
script: does its handshake succeed, fail or stall; does its request arrive, stop or stall; is
it there for the answer. In mode `rocks` the HTTP server behind the TLS front may not be up
yet, or be gone. In mode `temp` a client that closes within its request sends the loop into
reading zero bytes for ever (`spin`), and one that resets ends the server. In mode `rocks` the
service's future is inside `wrap_future`: a poll on `start_server`'s thread answers, a poll on
another leaves the connection `strayed`, with nobody to wake its task. Which thread polls is not
determined. Another event of the connection polls again (`PolledAgain`), which nothing
guarantees, so it has no fairness. In mode `ws` nobody is served if the configured user is no uuid
(`enabled`).

## Runs

| Run | Result | What it shows |
| --- | --- | --- |
| `session` | holds | The task reads exactly the handshake, answers in protocol order, announces success only for an open connection, connects only for a valid CONNECT, leaks no upstream socket, answers every complete CONNECT once, with the two exceptions below, reports every outgoing failure, and never waits on a client that is done. |
| `codec` | holds | For IPv6 and names: the port dialled is the one asked for, the response repeats the request's address octet by octet and is well framed up to the longest name. |
| `tunnel` | holds | Conservation of both directions, Ok only when all was handed over, refinement of `DuplexPipe`, delivery, release when both ends are finished. |
| `server` | holds | A client is turned away for want of a descriptor only while live sessions need all of them, no starvation while the process serves, and a complete end once the loop is left. |
| `http` | holds | The cuts the header parser survives, and that it panics only on a bare LF or after dropped bytes. |
| `futures` | holds | No result lost, no future polled twice, failure at once, no missed wakeup except a flag's or after a poll on the wrong thread. |
| `tls` | holds | No plaintext lost before the end of a stream is reported, chunks in order and repeated only after a refused write, Ok only for what has left the session, and a handshake that never waits on itself. |
| `rocks` | holds | A packet and a connection have one owner at a time, an answer that is there when the time is up is delivered, every request ends. |
| `front` | holds | In which servers, and how, a bad client keeps a good one from its answer; a websocket session dials for its user only and tells it the truth. |
| `session_code` | violated | The Linux numbers of an unreachable host and a timeout are exchanged (`outgoing.rs` 90, 91). |
| `codec_v4` | violated | The port of an IPv4 request is taken from the wrong octets (`req_addr.rs` 34). |
| `tunnel_eof` | violated | The end of a stream is not passed on (`connection.rs` 42 to 44). |

Where the code does less than one would ask, a property that holds says exactly how much less:

* `RepliesInOrder`: a CONNECT with an unknown address type is answered twice
  (`socks5/incoming.rs` 175 and 181).
* `AnsweredUnlessPanic`: a host name of 254 or 255 bytes overruns the request buffer (168), and
  one that is not UTF-8 is unwrapped by a log statement at debug level (171); both end the task
  in a panic, without an answer.
* `WrittenInOrder`: a TLS write that finds the socket full is repeated with the same chunk
  although the session has taken it (`tls_stream.rs` 119, 120).
* `OkMeansHandedOver`: a write during a handshake the peer has left is Ok (`tls_stream.rs` 118).
* `AnswerBeatsTimeout`: an answer between the two halves of the last poll is lost
  (`rocks/actix_app.rs` 102).
* `OnlyFlagsAreMissed`: a flag wakes nobody (`future_ext.rs` 166), nor does a `wrap_future`
  polled on another thread (`rocks/hyper_svr.rs` 132).
* `GoodIsServed`: `temp` and `hyper_serving` can be held up or ended by one bad client, and
  `RocksIncoming` refuses clients while its HTTP server is not up. It may also leave a complete
  request unanswered for ever, which `HandshakenIsServed` excepts as well: a `wrap_future` polled
  on a foreign thread keeps no waker (`hyper_svr.rs` 139-142).
* `LinesMatch`, `HeaderIntact`: only for some cuts of the input (see HttpParse).

### Bounds, and why they are enough

* `session`: one client, because sessions share nothing in that module. The scripts take every
  value the code's branches tell apart (wrong versions, zero to two methods, other commands and
  address types, names of 0, 2, 253, 254 and 255 bytes) and bytes arrive one by one or in a
  piece of up to 300, so every read is both satisfied by one segment and stretched over many.
* `codec`: parsing and encoding move single octets, so one octet set per position and one
  input with all octets different tell every wrong index apart; names of 0 to 253 octets cross
  the boundary of a signed octet.
* `tunnel`: two values, up to two bytes per end, a buffer of two and a send queue of one. That
  fills both queues, forces partial writes and lets an order be wrong.
* `server`: two clients, one worker thread, and descriptor limits of 3 (accept or connect fails) and
  5 (nothing fails). Two sessions suffice for one to block, starve or outlive another.
* `http`: all streams up to five bytes and requests of up to ten, cut in every way.
* `futures`: no bound; the state space is finite.
* `tls`: two records from the peer, three chunks to it, a send queue of one record and up to
  three refused writes: a chunk can be repeated, followed by the next one and refused again.
* `rocks`: two requests, two consumers, and one identifier for two connections and two users,
  so that an identifier is taken while its connection is out.
* `front`: two clients, each good or bad in one of up to eleven ways: one to be served and one
  to be in the way.

### Fairness

* `Socks5Session`: weak fairness of each task. tokio polls a task that was woken; a lookup or
  connect ends by the limits of resolver and kernel. Nothing is assumed of clients: a client that
  stays silent keeps its task, for the code sets no time limit.
* `Tunnel`: weak fairness of the start, of each direction (`join!` polls both futures whenever
  the task runs) and of an end reading what it is sent. Nothing about sending or closing.
* `RocksServer`: weak fairness of start, accept (while a worker is free to drive I/O), each task, the
  drop of each task and the exit.
  None for the end of a tunnel, which depends on its ends.
* `FutureExt`: the executor polls a scheduled task.
* `TlsStream`: `copy` polls both halves when the socket is ready; a peer goes on with its
  handshake and reads. Nothing about what else it sends or when it leaves.
* `RocksQueue`: a task that was woken is polled, and timers fire. Nothing about consumers.
* `RocksFront`: loops and woken tasks are polled, on any thread, and the spawned HTTP server is
  started. None for `PolledAgain`: nobody wakes a task that strayed. A client does what its script
  says and no more; one that stalls does so for ever.

Deadlock is checked in every run: the only states without a step are the ones each module
names (`AllSettled`, `Done`, `Finished`, `Quiet`, `Idle`, `QueueIdle`, `TableIdle`).

## Proofs

All for arbitrary values of the constants, under the assumptions named in the modules
(`SessionAssumption`, `CodecAssumption`, `TunnelAssumption`, `HttpAssumption`, `TlsAssumption`,
`QueueAssumption`, `TableAssumption`, `ServerAssumption`, `FrontAssumption`). They give the
constants their types, require the octets of a request to be as many as its type and length
octet say, and keep the markers for "no connection" and "no packet" apart from real ones. Each
proof has the same shape: an invariant that each action preserves, from which the properties
follow.

* `Socks5SessionProofs`. `TypeCorrect` proves `TypeOK`, of which the part that is not typing
  is that a task never reads past what has arrived. The properties of the handshake are not
  inductive, as they speak of the last stages and are established by the first. `HandshakeInv`
  says for every stage how much has been read (`ReadPosition`), what has been checked
  (`Checked`) and what the upstream socket is (`Upstream`). It is inductive relative to
  `TypeOK` (`HandshakeCorrect`), and `ConsumedExactly`, `UpstreamValid` and `UpstreamReleased`
  follow. The step that carries the argument is `TailComplete`: five bytes and what
  `RequestTail` adds are the length RFC 1928 gives the request. `ReplyInv` adds, for every
  stage, the whole list of what the client has been told, the error on its way to `abort`, and,
  for a task that has ended, why it may have said nothing: its read or write failed
  (`IoErrorExcused`), which takes a reset or a request that is not complete. `RepliesOrdered`,
  `SuccessTrue` and `AnsweredOrPanic` follow from it by the shapes of the log (`LogCases`).
* `Socks5SessionProofs`, on `RocksServer`. `SessionsInProcess`: a step of the process is a step of
  the sessions or the drop of one task, which the invariants above survive, so the guarantees of a
  session hold in the process as well. `FullWithLive`: what fails for want
  of a descriptor finds the limit reached (`TurnsAwayWhenFull`), and then every descriptor is one a
  live session needs (`FullMeansNeeded`), because `HandshakeInv`, which the drop of a task keeps,
  ties the upstream sockets to the stages that need them. The counting needs `FdInv`: the limit is
  never exceeded (`HandshakeOpensNothing`, `FdGrow`), and only finitely many tasks and sockets
  exist, since cardinalities mean nothing otherwise and the set of clients may be infinite.
* `TunnelProofs`. `Conservation` is inductive relative to `TypeOK`: each action cuts a chunk off
  one queue and appends it to the next (`Split` and the associativity of concatenation), or
  ends the direction, after which what was delivered remains a beginning of what was sent
  (`PrefixIff`). `IntegrityCorrect` follows: what an end has received is always a beginning of
  what the other sent. `OkComplete` needs `CompleteInv`: a copy that has returned without an
  error had seen the end of its input, and from then on nothing is added to that direction.
  `TunnelRefinesPipe` is the refinement of `DuplexPipe`: `PipeInit` and `PipeNext` show that
  moving bytes between the socket queues and the buffer is a stutter of the pipe, that sending
  and reading are its steps, and that a direction that gives up cuts the end of its content.
* `Socks5CodecProofs`. `V6RoundTrip`: parser and encoder are inverse on all IPv6 addresses.
  `Encoded` gives the octets of every response, position by position, for the three address
  types. With `CodecInv` (which address was parsed, dialled and answered with, by stage),
  `RepliesFramed` follows for all requests. `EchoedUnlessV4` and `DialledUnlessV4` exclude IPv4:
  there both properties are false, which is the finding of run `codec_v4`.
* `HttpParseProofs`. `HeldCorrect`: the byte that is removed from the buffer is the carriage
  return. The invariant needs the types of the parser's state and that a scan without a line
  end leaves `saw_return` about the last byte of the buffer. `PosInv` relates the parser to the
  stream: what is left of the chunk is what follows in the stream, and an empty buffer means
  that the last byte parsed was a line feed; `PanicCause` follows. `HeaderInv` says that the
  header collected and the buffer are together what was parsed, hence `HeaderKept`.
  `LinesInv` says the same of lines: some list of places parts what was parsed into the lines
  returned and the buffer, and those places are exactly the line ends. `LinesNoLine` and
  `LinesLine` show how the list grows; the hard case is a CR and its LF in different chunks
  (`EndsAcross`, `NoLineAcross`). `LinesCorrect` follows.
* `TlsStreamProofs`. `HandedOver`. A write that returned Ok has run `complete_io` after handing
  its chunk over, and that leaves the session empty only if the handshake is over, as until
  then a chunk is held back. `HandedInv` therefore follows the handshake: the order of the
  records received (`InOrder`), that there is no plaintext before its end (`Sound`), and that
  once the end of the stream has been seen it never proceeds (`Steady`), so that the exception
  in the property stays an exception. There is one lemma for each method, on any stream
  (`CheckRead`, `CheckWrite`, `CompleteIo`, `SessionWrite`), and one for each call.
  `WrittenOnce`. The peer's view is only the front of a longer queue, so `WriteInv` speaks of all
  that was written: what the peer has got, what the kernel holds and what the session holds, one
  after the other (`Sent(got) \o Queued(t)`), are a `Chain`: chunks without a gap up to the last
  accepted one, or one further, with each too many paid for by a refused write. Moving records
  from queue to queue leaves the chain as it is (`CutJoin`, `MoveJoin`); only a write adds to it
  (`ChainAppend`). The chain exists once the handshake is over, so the invariant also needs that
  nothing but the session's flight is under way before (`Early`), which needs that the peer says
  hello once and finishes after it has been answered (`Greeting`). A reset drops the kernel's
  queue, after which nothing more arrives and only `Ordered`, the peer's part, is kept.
  `ReadAll`. `ReadInv` is the same for the other direction: what was read, the plaintext in the
  session and the data records in the kernel are, one after the other, what the peer sent. The
  data records in the kernel are neighbours (`DataAt`), as the handshake goes before and a
  close notification or a bad record after them; `ValuesAt` says what `Values` returns for such
  a queue. `Values` is written with positions and cardinalities, without recursion, for this.
* `FutureExtProofs`. The model has no constants and its state space is finite, so TLC's answer
  was already general; the proof says why it holds. The three properties are not inductive:
  `FutureInv` adds that a combinator that goes on has not got what it waits for (`Waiting`, hence
  nothing it took is polled again: `PollsFresh`), and that in a task that is not scheduled each
  pending future holds the waker, is a flag, or was left out by a poll on a foreign thread
  (`Watched`). `PolledOnce`, `ResultsKept` and `WakersKept` follow, and `FailureSeen`, the safety
  half of `FailsFast`: a `join_on_ok` never rests while one of its futures has failed.
* `RocksSharedProofs`. `TableInv` splits `OwnedOnce` into three parts that can be used one by
  one (`OnlyOpen`, `NotShared`, `NotLost`), `QueueInv` does so for `PacketOnce`, for a queue of
  any length, and adds which channels a request at a given stage can have (`Handled`).
  `ConnectionOwnedOnce`, `PacketHandledOnce` and `AnswerWins` follow.
* `RocksFrontProofs`. `WebsocketIsHonest`, from `HonestInv`: for each stage of a connection, what
  is known of its request (`Vetted`), what its connection to the destination is (`Dialled`) and
  what it has been told (`Told`).

Only model-checked:

* Liveness, which is beyond the prover: `FailureReported`, `HandshakeSettles`, `Delivered`,
  `Released`, `NobodyStarves`, `ServerExits`, `FailsFast`, `HandshakeCompletes`, `RequestEnds`,
  `GoodIsServed`, `HandshakenIsServed`.
* That the properties fail where they should: the three runs that expect a violation, and the
  excluded IPv4 case of `EchoIsRequest` and `DialsRequestedPort`.

Every invariant of a passing run, and the refinement of `DuplexPipe`, is stated by a theorem
(`EchoIsRequest` and `DialsRequestedPort` for the requests that are not IPv4, as in run `codec`).

## Not modelled

* Log output and its wording, command line and TOML parsing, `Display` implementations.
* Multi-byte UTF-8 (only whether a host name is valid matters to the control flow).
* Windows and macOS error numbers.
* The end of a process by signal: nothing is persisted, so nothing is left to recover.
* `drop_guard`, `payload_future`, `service_fn_once_clone` and `stream_wrap.rs`: nothing calls
  them.
* What `serving` and `tls_acceptor` read at startup, and the half of `config.rs` that is
  commented out.
* The insides of rustls, hyper, actix, the websocket library and `tokio::io::copy`: modelled
  from how the code uses them.

## Plan

Done, in this order: `Socks5Wire`, `Socks5Session`, `Socks5Codec`, `Tunnel` with `DuplexPipe`,
`RocksServer`, their first proofs, `HttpParse` with its proof, `FutureExt`, `TlsStream`,
`RocksQueue` with `ConnectionTable`, `RocksFront`; then the proofs of the safety properties of
the sessions, the process, the tunnel and its refinement, the codec, the parser, the TLS stream in
both directions, the combinators, the queue, the table and the websocket server.

Left: liveness, which the prover cannot reach and the runs check on their instances; and a time
limit for the handshake, which the code does not have (the hazard without a property).
