-------------------------- MODULE ConnectionTable --------------------------
(***************************************************************************)
(* ConnectionManager (rocks/connection_manager.rs): a table of connections *)
(* under a mutex.  get_connection takes a connection out of the table, so  *)
(* that its user can await on it without the lock, and add_connection puts *)
(* one in.  Each call holds the lock from its first test to its last       *)
(* change, and nothing it does under the lock can panic and poison it.     *)
(***************************************************************************)
EXTENDS Integers

CONSTANTS
  Users,    \* tasks that share the table
  Ids,      \* the identifiers of connections
  Conns,    \* the connections that are opened
  Nobody    \* no connection

ASSUME TableAssumption == Nobody \notin Conns

VARIABLES
  conns,     \* conns[i]: the connection under identifier i, or Nobody
  hand,      \* hand[u]: the connection user u owns, or Nobody
  opened,    \* connections that were opened
  dropped    \* connections that were closed by being dropped

tableVars == <<conns, hand, opened, dropped>>

TableInit ==
  /\ conns = [i \in Ids |-> Nobody]
  /\ hand = [u \in Users |-> Nobody]
  /\ opened = {} /\ dropped = {}

\* A user opens a connection (external).
Open(u) ==
  /\ hand[u] = Nobody
  /\ \E c \in Conns \ opened :
       /\ hand' = [hand EXCEPT ![u] = c]
       /\ opened' = opened \cup {c}
  /\ UNCHANGED <<conns, dropped>>

BadGet(u, i) ==
  /\ hand[u] = Nobody /\ conns[i] # Nobody
  /\ hand' = [hand EXCEPT ![u] = conns[i]]
  /\ UNCHANGED <<conns, opened, dropped>>

\* With no connection under i the call fails and changes nothing.
get_connection(u, i) ==
  /\ hand[u] = Nobody /\ conns[i] # Nobody
  /\ hand' = [hand EXCEPT ![u] = conns[i]]
  /\ conns' = [conns EXCEPT ![i] = Nobody]
  /\ UNCHANGED <<opened, dropped>>

\* add_connection owns its argument: when the identifier is taken the call fails and the
\* connection is dropped.
add_connection(u, i) ==
  /\ hand[u] # Nobody
  /\ hand' = [hand EXCEPT ![u] = Nobody]
  /\ IF conns[i] = Nobody
     THEN conns' = [conns EXCEPT ![i] = hand[u]] /\ UNCHANGED dropped
     ELSE dropped' = dropped \cup {hand[u]} /\ UNCHANGED conns
  /\ UNCHANGED opened

TableIdle == dropped = Conns /\ UNCHANGED tableVars

TableNext ==
  \/ \E u \in Users : Open(u) \/ \E i \in Ids : get_connection(u, i) \/ add_connection(u, i)
  \/ TableIdle

-----------------------------------------------------------------------------
\* Properties.

\* Every connection that was opened and not closed is in exactly one place, the table or
\* the hands of one user: two requests never share one, and none is forgotten while it is
\* open, whichever of them takes it out, puts it back or finds its identifier taken.
OwnedOnce ==
  \A c \in Conns :
    LET places == {<<"table", i>> : i \in {j \in Ids : conns[j] = c}}
                  \cup {<<"user", u>> : u \in {v \in Users : hand[v] = c}}
    IN  IF c \in opened \ dropped THEN \E p \in places : places = {p} ELSE places = {}
=============================================================================
