------------------------------ MODULE MCRocks ------------------------------
(***************************************************************************)
(* What the tasks of the Rocks front end share, the request queue and the  *)
(* table of connections, side by side as in RocksIncoming, with instances  *)
(* of both for TLC.                                                        *)
(***************************************************************************)
EXTENDS RocksQueue, ConnectionTable

vars == <<queueVars, tableVars>>

Init == QueueInit /\ TableInit

Next ==
  \/ QueueNext /\ UNCHANGED tableVars
  \/ TableNext /\ UNCHANGED queueVars

\* The runtime polls a task that was woken and its timers fire.  Nothing makes a task look
\* into the queue.
Fairness ==
  \A r \in Requests :
    /\ WF_vars((try_recv(r) \/ poll(r)) /\ UNCHANGED tableVars)
    /\ WF_vars(Timer(r) /\ UNCHANGED tableVars)

Spec == Init /\ [][Next]_vars /\ Fairness

-----------------------------------------------------------------------------
Empty == [method |-> "GET", user |-> "none", host |-> "none", port |-> "none", conn |-> "none"]
Address == [Empty EXCEPT !.user = "valid", !.host = "name", !.port = "valid"]

\* A connect, a packet nobody answers, and a form that is none of the three packets.
MCForms ==
  {Address, [Empty EXCEPT !.method = "POST", !.conn = "valid"], [Address EXCEPT !.port = "invalid"]}
=============================================================================
