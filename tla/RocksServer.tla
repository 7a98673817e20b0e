---------------------------- MODULE RocksServer ----------------------------
(***************************************************************************)
(* The whole process: main.rs around the sessions of Socks5Session.  What  *)
(* the sessions share is modelled here: the configuration read at startup, *)
(* the accept loop, the descriptor limit of the process, the worker        *)
(* threads of the tokio runtime (which resolve_local blocks), and the end  *)
(* of the process, which drops every task.                                 *)
(***************************************************************************)
EXTENDS Socks5Session

CONSTANTS
  ListenConfigs,   \* [incoming] sections (a subset of ListenType)
  FdLimits,        \* descriptor limits the process may run under
  Workers          \* worker threads of the runtime

\* IncomingType, and CfgAddr: what ip and domain hold, if anything.
ListenType ==
  [type : {"Socks5", "Rocks", "Deny", "Redirect"},
   ip : {"none", "valid", "invalid"}, domain : {"none", "known", "unknown"}]

ASSUME ServerAssumption ==
  /\ ListenConfigs \subseteq ListenType
  /\ FdLimits \subseteq Nat \ {0}
  /\ Workers \in Nat \ {0}

VARIABLES
  listen,   \* the [incoming] section of the configuration
  limit,    \* RLIMIT_NOFILE, less what the runtime itself uses
  server    \* main: "starting", "accepting", "down" (left the loop), "exited"

serverVars == <<listen, limit, server>>
allVars == <<vars, serverVars>>

ServerInit ==
  /\ Init
  /\ listen \in ListenConfigs
  /\ limit \in FdLimits
  /\ server = "starting"

-----------------------------------------------------------------------------
\* Startup.

\* CfgAddr::into_addr: an ip wins over a domain, also when it does not parse.
into_addr_ok(l) == IF l.ip # "none" THEN l.ip = "valid" ELSE l.domain = "known"

get_incoming_ok(l) == l.type = "Socks5" /\ into_addr_ok(l)

main_start ==
  /\ server = "starting" /\ get_incoming_ok(listen)
  /\ server' = "accepting"
  /\ UNCHANGED <<vars, listen, limit>>

\* A ? of main: the configuration file cannot be read or is not one, or get_incoming fails,
\* for an unsupported type, an address that does not resolve or one that cannot be bound.
main_fails ==
  /\ server = "starting"
  /\ server' = "exited"
  /\ UNCHANGED <<vars, listen, limit>>

-----------------------------------------------------------------------------
\* Shared resources.

\* Descriptors: the listener, the client's socket of every task, and the socket towards
\* the destination while there is one.
Tasks == {c \in Clients : pc[c] \notin Ended \cup {"accept"}}
Used ==
  1 + Cardinality(Tasks) + Cardinality({c \in Clients : conn[c] \in {"connecting", "open"}})
FdFree == Used < limit

BadBusy == {c \in Clients : pc[c] \in {"resolve", "tunnel"}}

\* resolve_local calls the blocking to_socket_addrs inside the task, so a worker thread
\* stays with the task until the lookup returns.
Busy == {c \in Clients : pc[c] = "resolve"}

\* A task is polled by a worker that is not blocked.  main itself runs on a thread of its
\* own, but with all workers blocked nothing drives the I/O events: its accept may still
\* find a connection it has been told of, and need not.
WorkerFree == Cardinality(Busy) < Workers

-----------------------------------------------------------------------------
\* The loop of main.

Accept(c) ==
  /\ server = "accepting" /\ FdFree
  /\ next_client(c)
  /\ UNCHANGED serverVars

\* accept fails: no descriptor is left, or the connection was reset in the queue.  Any
\* error leaves the loop, and main returns Ok(()).
AcceptError(c) ==
  /\ server = "accepting" /\ pc[c] = "accept"
  /\ ~ FdFree \/ peer[c] = "reset"
  /\ server' = "down"
  /\ UNCHANGED <<vars, listen, limit>>

\* A spawned task runs beside the others until the runtime drops it.  A task whose lookup
\* returns has its worker already.
Run(c) ==
  /\ server \in {"accepting", "down"}
  /\ \/ WorkerFree /\ Handshake(c)
     \/ ResolveFails(c)
     \/ FdFree /\ StartConnect(c)
     \/ ~ FdFree /\ OpenSocketFails(c)
  /\ UNCHANGED serverVars

BadCloseTask(c) ==
  /\ Goto(c, "closed")
  /\ UNCHANGED <<conf, clientVars, consumed, replies, conn, err, errno>>

\* The task is over, and its two sockets are dropped with it.
CloseTask(c) ==
  /\ Goto(c, "closed")
  /\ conn' = [conn EXCEPT ![c] = IF @ \in {"open", "connecting"} THEN "closed" ELSE @]
  /\ UNCHANGED <<conf, clientVars, consumed, replies, err, errno>>

\* bicopy returns (see Tunnel) and handle_client ends.
TunnelEnds(c) ==
  /\ server \in {"accepting", "down"} /\ WorkerFree /\ pc[c] = "tunnel"
  /\ CloseTask(c)
  /\ UNCHANGED serverVars

-----------------------------------------------------------------------------
\* The end of the process: #[tokio::main] drops the runtime, which drops each task at
\* the await it is suspended at.  A task inside a lookup is not suspended: it is dropped
\* at its next await.

BadDropTask(c) ==
  /\ server = "down" /\ c \in Tasks \ Busy /\ pc[c] # "tunnel"
  /\ CloseTask(c)
  /\ UNCHANGED serverVars

DropTask(c) ==
  /\ server = "down" /\ c \in Tasks \ Busy
  /\ CloseTask(c)
  /\ UNCHANGED serverVars

\* The runtime's drop waits for its worker threads, and so for a lookup under way.
Exit ==
  /\ server = "down" /\ Tasks = {}
  /\ server' = "exited"
  /\ UNCHANGED <<vars, listen, limit>>

Client(c) == ClientStep(c) /\ UNCHANGED serverVars

\* The process is gone, or waits for clients that do not exist.
Quiet ==
  /\ server = "exited" \/ (server = "accepting" /\ \A c \in Clients : pc[c] \in Ended)
  /\ UNCHANGED allVars

ServerNext ==
  \/ main_start \/ main_fails \/ Exit \/ Quiet
  \/ \E c \in Clients :
       Accept(c) \/ AcceptError(c) \/ Run(c) \/ TunnelEnds(c) \/ DropTask(c) \/ Client(c)

\* The runtime polls what was woken, lookups and connects end, and a runtime that is
\* dropped drops its tasks.  Nothing is assumed of clients, or of when a tunnel ends.
ServerFairness ==
  /\ WF_allVars(main_start \/ main_fails)
  /\ WF_allVars(Exit)
  /\ \A c \in Clients :
       /\ WF_allVars(WorkerFree /\ (Accept(c) \/ AcceptError(c)))
       /\ WF_allVars(Run(c))
       /\ WF_allVars(DropTask(c))

ServerSpec == ServerInit /\ [][ServerNext]_allVars /\ ServerFairness

-----------------------------------------------------------------------------
\* Properties.

\* The descriptors the live sessions need: the client's socket, and from connect to the end
\* of the tunnel a second one.
Needed ==
  1 + Cardinality(Tasks) + Cardinality({c \in Clients : pc[c] \in {"connect", "ready", "tunnel"}})

\* A connect fails for lack of a descriptor, or main leaves its loop with no connection
\* that was reset in the queue.
TurnsAway ==
  \/ \E c \in Clients : errno'[c] = Errno.EMFILE /\ errno[c] # Errno.EMFILE
  \/ /\ server = "accepting" /\ server' = "down"
     /\ \A c \in Clients : pc[c] = "accept" => peer[c] # "reset"

\* The process turns a client away, or gives up serving, for lack of descriptors only while
\* the sessions that are alive need every one of them: what failed, refused, dropped and
\* finished sessions had opened has been given back, to the last socket.
FullOnlyWithLive == [][TurnsAway => Needed = limit]_allVars

\* While the process serves, no client that has sent its whole handshake, or is gone, is
\* kept waiting for ever by the others: neither by their lookups on the same worker, nor
\* by their tunnels.
NobodyStarves ==
  \A c \in Clients :
    (server = "accepting" /\ (peer[c] # "open" \/ sent[c] = StreamLen(script[c])))
      ~> (pc[c] \in Settled \/ server # "accepting")

\* Once main has left its loop, the process ends: no task keeps it alive, whatever its
\* clients and tunnels do, and no session or upstream socket outlives it.
ServerExits ==
  server = "down" ~>
    /\ server = "exited"
    /\ \A c \in Clients : pc[c] \in Ended \cup {"accept"} /\ conn[c] \notin {"connecting", "open"}
=============================================================================
