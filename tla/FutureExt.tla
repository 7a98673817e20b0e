----------------------------- MODULE FutureExt -----------------------------
(***************************************************************************)
(* The future combinators of future_ext.rs, alt, join and join_on_ok over  *)
(* two futures, and the adapter wrap_future of rocks/hyper_svr.rs around   *)
(* one, polled by an executor that polls a task once after it is spawned   *)
(* and then whenever its waker is called, on any of its threads.  A leaf   *)
(* future is either one that keeps the waker it is polled with and calls   *)
(* it when it completes (sockets, timers, channels), or a FlagFuture,      *)
(* which ignores its context.  A flag yields (), so join_on_ok is never    *)
(* given one, and neither is wrap_future, whose future yields a response.  *)
(***************************************************************************)
EXTENDS Integers, FiniteSets

Sides == {1, 2}
Threads == {"home", "other"}   \* home: the thread start_server was first polled on

VARIABLES
  kind,    \* the combinator: "alt", "join", "join_on_ok", "wrap"
  leaf,    \* leaf[i]: "waking" or "flag"
  value,   \* value[i]: what future i yields, "Ok" or "Err"
  fut,     \* fut[i]: "pending", "ready" (not yet polled again), "taken" (returned Ready)
  waker,   \* waker[i]: future i holds the waker of the task
  woken,   \* the task is scheduled
  slot,    \* slot[i]: the Option<T> of the combinator: "None" or the value of future i
  out,     \* out[i]: the result, once the combinator is done
  done,    \* the combinator has returned Ready
  again,   \* a future was polled after it had returned Ready
  strayed  \* the latest poll of a WrapFuture was on another thread than home

vars == <<kind, leaf, value, fut, waker, woken, slot, out, done, again, strayed>>

\* The futures the combinator is given.
Parts == IF kind = "wrap" THEN {1} ELSE Sides

Init ==
  /\ kind \in {"alt", "join", "join_on_ok", "wrap"}
  /\ leaf \in [Sides -> IF kind \in {"join_on_ok", "wrap"} THEN {"waking"} ELSE {"waking", "flag"}]
  /\ value \in {v \in [Sides -> {"Ok", "Err"}] : \A i \in Sides : leaf[i] = "flag" => v[i] = "Ok"}
  /\ fut = [i \in Sides |-> "pending"]
  /\ waker = [i \in Sides |-> FALSE]
  /\ woken = TRUE
  /\ slot = [i \in Sides |-> "None"]
  /\ out = [i \in Sides |-> "None"]
  /\ done = FALSE
  /\ again = FALSE
  /\ strayed = FALSE

-----------------------------------------------------------------------------
BadWaker(i, polled) == waker[i]

\* FlagFuture::poll takes no notice of its Context.
keeps_waker(i, polled) == waker[i] \/ (i \in polled /\ fut[i] = "pending" /\ leaf[i] = "waking")

\* The event future i waits for; FlagFuture::set for a flag.
Complete(i) ==
  /\ i \in Parts /\ fut[i] = "pending"
  /\ fut' = [fut EXCEPT ![i] = "ready"]
  /\ woken' = (woken \/ waker[i])
  /\ waker' = [waker EXCEPT ![i] = FALSE]
  /\ UNCHANGED <<kind, leaf, value, slot, out, done, again, strayed>>

\* The task is woken for a reason of its own, or of another future in it.
Wake ==
  /\ ~ woken /\ ~ done
  /\ woken' = TRUE
  /\ UNCHANGED <<kind, leaf, value, fut, waker, slot, out, done, again, strayed>>

\* WrapFuture polls its future on the home thread only.  On another it calls the waker of
\* start_server, which is not that of the task being polled.
wrap_polls(th) == IF th = "home" THEN {1} ELSE {}

BadPolled(th) == Parts

\* The futures a poll of the combinator on thread th polls: alt polls both each time, the
\* joins only those without a stored value.
Polled(th) ==
  CASE kind = "alt"                    -> Sides
    [] kind \in {"join", "join_on_ok"} -> {i \in Sides : slot[i] = "None"}
    [] kind = "wrap"                   -> wrap_polls(th)

\* What the poll of future i returns: its value, or None for Pending.
Poll(i, th) == IF i \in Polled(th) /\ fut[i] # "pending" THEN value[i] ELSE "None"

BadFinal(r) ==
  CASE kind = "alt"        -> \E i \in Sides : r[i] # "None"
    [] kind = "join"       -> \A i \in Sides : r[i] # "None"
    [] kind = "join_on_ok" -> \A i \in Sides : r[i] # "None"
    [] kind = "wrap"       -> r[1] # "None"

\* Whether the combinator returns Ready with the results r (stored or just polled).
final(r) ==
  CASE kind = "alt"        -> \E i \in Sides : r[i] # "None"
    [] kind = "join"       -> \A i \in Sides : r[i] # "None"
    [] kind = "join_on_ok" -> (\A i \in Sides : r[i] # "None") \/ \E i \in Sides : r[i] = "Err"
    [] kind = "wrap"       -> r[1] # "None"

BadResults(th) == [i \in Sides |-> Poll(i, th)]

\* The values in hand: taken out of the slots, or returned by this poll.
results(th) == [i \in Sides |-> IF slot[i] # "None" THEN slot[i] ELSE Poll(i, th)]

\* One poll of the combinator.  A value that does not complete it goes into its slot.
poll(th) ==
  /\ woken /\ ~ done
  /\ woken' = FALSE
  /\ fut' = [i \in Sides |-> IF Poll(i, th) # "None" THEN "taken" ELSE fut[i]]
  /\ waker' = [i \in Sides |-> keeps_waker(i, Polled(th))]
  /\ again' = (again \/ \E i \in Polled(th) : fut[i] = "taken")
  /\ done' = final(results(th))
  /\ out' = IF done' THEN results(th) ELSE out
  /\ slot' = [i \in Sides |-> IF done' THEN "None" ELSE results(th)[i]]
  /\ strayed' = (kind = "wrap" /\ th # "home")
  /\ UNCHANGED <<kind, leaf, value>>

\* The combinator is done, or waits for an event.
Idle == (done \/ ~ woken) /\ UNCHANGED vars

PollTask == \E th \in Threads : poll(th)

Next == PollTask \/ Wake \/ Idle \/ \E i \in Sides : Complete(i)

\* The executor polls a task that is scheduled.  Nothing is assumed of when a future
\* completes.
Spec == Init /\ [][Next]_vars /\ WF_vars(PollTask)

-----------------------------------------------------------------------------
\* Properties.

\* No combinator polls a future again after it returned Ready (which panics in the
\* futures async functions compile to), and join never reaches its unreachable!().
NeverPolledAgain == ~ again /\ (~ done => \E i \in Sides : slot[i] = "None")

\* A value a future has given away is in its slot or in the result, and in the result
\* there is nothing else: storing the first result and taking it out again loses nothing.
NoResultLost ==
  \A i \in Sides :
    /\ fut[i] = "taken" => (IF done THEN out[i] ELSE slot[i]) = value[i]
    /\ fut[i] # "taken" => slot[i] = "None" /\ out[i] = "None"

\* join_on_ok returns as soon as a future it waits for has failed, whether the other has
\* finished before, finishes at the same time or never finishes.
FailsFast ==
  \A i \in Sides :
    (kind = "join_on_ok" /\ leaf[i] = "waking" /\ value[i] = "Err" /\ fut[i] # "pending") ~> done

\* A completed future is overlooked in two ways only: a task that is not scheduled waits
\* for futures that are still pending, or for a flag that was set without waking anyone, or
\* its WrapFuture was last polled on a thread where it does not poll its future.
OnlyFlagsAreMissed ==
  ~ done /\ ~ woken => \A i \in Sides : fut[i] = "ready" => leaf[i] = "flag" \/ strayed
=============================================================================
