-------------------------- MODULE FutureExtProofs --------------------------
(***************************************************************************)
(* Proofs about FutureExt: every combinator, every mix of leaf futures and *)
(* results, every schedule and every thread.                               *)
(***************************************************************************)
EXTENDS FutureExt, TLAPS

Kinds == {"alt", "join", "join_on_ok", "wrap"}
Answers == {"Ok", "Err"}

\* The types, what a combinator may be given, and which polls stray.
TypeInv ==
  /\ kind \in Kinds
  /\ leaf \in [Sides -> {"waking", "flag"}]
  /\ value \in [Sides -> Answers]
  /\ fut \in [Sides -> {"pending", "ready", "taken"}]
  /\ waker \in [Sides -> BOOLEAN]
  /\ slot \in [Sides -> Answers \cup {"None"}]
  /\ out \in [Sides -> Answers \cup {"None"}]
  /\ woken \in BOOLEAN /\ done \in BOOLEAN /\ again \in BOOLEAN /\ strayed \in BOOLEAN
  /\ kind = "wrap" => fut[2] = "pending"
  /\ kind = "join_on_ok" => \A i \in Sides : leaf[i] = "waking"
  /\ kind # "wrap" => ~ strayed

\* Where the value of future i is: with the future until a poll takes it, then in the slot
\* of a combinator that goes on, then in the result.
Kept(i) ==
  /\ fut[i] = "taken" => (IF done THEN out[i] ELSE slot[i]) = value[i]
  /\ fut[i] # "taken" => slot[i] = "None" /\ out[i] = "None"

\* A combinator that goes on has not got what it needs.
Waiting == ~ done => ~ final(slot)

\* A task that is not scheduled will be by the event of future i, unless the future is a
\* flag or the wrapper did not poll it.
Watched(i) ==
  ~ done /\ ~ woken =>
    /\ fut[i] = "ready" => leaf[i] = "flag" \/ strayed
    /\ fut[i] = "pending" /\ i \in Parts => waker[i] \/ leaf[i] = "flag" \/ strayed

\* The inductive invariant: NoResultLost and OnlyFlagsAreMissed need to know which values
\* the combinator waits for (Waiting) and that a pending future holds the waker.
FutureInv == TypeInv /\ Waiting /\ ~ again /\ \A i \in Sides : Kept(i) /\ Watched(i)

\* The values a poll of the combinator can find.
LEMMA ResultTypes ==
  ASSUME TypeInv, NEW th
  PROVE  results(th) \in [Sides -> Answers \cup {"None"}]
BY DEF TypeInv, results, Poll

\* A combinator that goes on has taken nothing it would poll again.
LEMMA PollsFresh ==
  ASSUME FutureInv, ~ done, NEW th, NEW i \in Polled(th)
  PROVE  i \in Sides /\ fut[i] # "taken" /\ slot[i] = "None"
<1>1. i \in Sides
  BY DEF FutureInv, TypeInv, Kinds, Polled, wrap_polls, Sides
<1>2. fut[i] = "taken" => slot[i] = value[i] /\ slot[i] # "None"
  BY <1>1 DEF FutureInv, Kept, TypeInv, Answers
<1>3. fut[i] # "taken" => slot[i] = "None"
  BY <1>1 DEF FutureInv, Kept
<1>4. fut[i] # "taken"
  <2>1. CASE kind = "alt"
    BY <1>1, <1>2, <2>1 DEF FutureInv, Waiting, final
  <2>2. CASE kind \in {"join", "join_on_ok"}
    BY <1>2, <2>2 DEF Polled
  <2>3. CASE kind = "wrap"
    <3>1. i = 1
      BY <2>3 DEF Polled, wrap_polls
    <3>. QED
      BY <1>2, <2>3, <3>1 DEF FutureInv, Waiting, final
  <2>. QED
    BY <2>1, <2>2, <2>3 DEF FutureInv, TypeInv, Kinds
<1>. QED
  BY <1>1, <1>3, <1>4

\* A future with nothing in its slot that a poll leaves out is the one of a WrapFuture
\* polled away from home, or none at all.
LEMMA LeftOut ==
  ASSUME FutureInv, ~ done, NEW th \in Threads, NEW i \in Sides, i \notin Polled(th),
         fut[i] # "taken"
  PROVE  kind = "wrap" /\ (th # "home" \/ i \notin Parts)
<1>1. slot[i] = "None"
  BY DEF FutureInv, Kept
<1>. QED
  BY <1>1 DEF FutureInv, TypeInv, Kinds, Polled, wrap_polls, Sides, Parts

\* The combinators start with two pending futures and empty slots.
LEMMA FutureInit == Init => FutureInv
<1>. SUFFICES ASSUME Init PROVE FutureInv
  OBVIOUS
<1>1. leaf \in [Sides -> {"waking", "flag"}]
  BY DEF Init
<1>2. kind = "join_on_ok" => \A i \in Sides : leaf[i] = "waking"
  BY DEF Init
<1>3. TypeInv
  BY <1>1, <1>2 DEF Init, TypeInv, Kinds, Answers, Sides
<1>4. Waiting
  BY DEF Init, Waiting, final, Sides
<1>5. \A i \in Sides : Kept(i) /\ Watched(i)
  BY DEF Init, Kept, Watched
<1>. QED
  BY <1>3, <1>4, <1>5 DEF Init, FutureInv

\* The event of a future keeps the invariant: the waker it holds schedules the task.
LEMMA CompleteKeeps ==
  ASSUME FutureInv, NEW j \in Sides, Complete(j)
  PROVE  FutureInv'
<1>1. /\ j \in Parts /\ fut[j] = "pending" /\ fut' = [fut EXCEPT ![j] = "ready"]
      /\ woken' = (woken \/ waker[j]) /\ waker' = [waker EXCEPT ![j] = FALSE]
      /\ UNCHANGED <<kind, leaf, value, slot, out, done, again, strayed>>
  BY DEF Complete
<1>2. TypeInv
  BY DEF FutureInv
<1>3. woken' \in BOOLEAN /\ waker' \in [Sides -> BOOLEAN]
  BY <1>1, <1>2, Zenon DEF TypeInv
<1>4. TypeInv'
  <2>1. fut' \in [Sides -> {"pending", "ready", "taken"}]
    BY <1>1, <1>2 DEF TypeInv
  <2>2. kind = "wrap" => fut'[2] = "pending"
    BY <1>1, <1>2 DEF TypeInv, Parts, Sides
  <2>. QED
    BY <1>1, <1>2, <1>3, <2>1, <2>2 DEF TypeInv
<1>5. Waiting'
  BY <1>1 DEF FutureInv, Waiting, final
<1>6. ASSUME NEW i \in Sides PROVE Kept(i)'
  BY <1>1, <1>2 DEF FutureInv, TypeInv, Kept
<1>7. ASSUME NEW i \in Sides PROVE Watched(i)'
  <2>1. CASE i = j
    <3>1. fut'[i] = "ready"
      BY <1>1, <1>2, <2>1 DEF TypeInv
    <3>2. ~ done /\ ~ woken /\ ~ waker[j] => leaf[j] = "flag" \/ strayed
      BY <1>1 DEF FutureInv, Watched
    <3>. QED
      BY <1>1, <2>1, <3>1, <3>2 DEF Watched
  <2>2. CASE i # j
    <3>1. fut'[i] = fut[i] /\ waker'[i] = waker[i] /\ Parts' = Parts
      BY <1>1, <1>2, <2>2 DEF TypeInv, Parts
    <3>2. Watched(i)
      BY DEF FutureInv
    <3>. QED
      BY <1>1, <3>1, <3>2 DEF Watched
  <2>. QED
    BY <2>1, <2>2
<1>. QED
  BY <1>1, <1>4, <1>5, <1>6, <1>7 DEF FutureInv

\* A poll keeps the invariant: what it takes goes into a slot or the result, and what it
\* finds pending keeps the waker.
LEMMA PollKeeps ==
  ASSUME FutureInv, NEW th \in Threads, poll(th)
  PROVE  FutureInv'
<1>1. /\ woken /\ ~ done /\ ~ woken'
      /\ fut' = [i \in Sides |-> IF Poll(i, th) # "None" THEN "taken" ELSE fut[i]]
      /\ waker' = [i \in Sides |-> keeps_waker(i, Polled(th))]
      /\ done' = final(results(th))
      /\ out' = IF done' THEN results(th) ELSE out
      /\ slot' = [i \in Sides |-> IF done' THEN "None" ELSE results(th)[i]]
      /\ UNCHANGED <<kind, leaf, value>>
  BY DEF poll
<1>2. TypeInv
  BY DEF FutureInv
<1>3. ~ again'
  BY PollsFresh, <1>1 DEF poll, FutureInv
<1>4. results(th) \in [Sides -> Answers \cup {"None"}]
  BY <1>2, ResultTypes
<1>5. /\ strayed' \in BOOLEAN
      /\ kind # "wrap" => ~ strayed'
      /\ kind = "wrap" /\ th # "home" => strayed'
  BY DEF poll
<1>6. woken' \in BOOLEAN /\ done' \in BOOLEAN /\ again' \in BOOLEAN
  <2>1. final(results(th)) \in BOOLEAN
    BY <1>2 DEF final, TypeInv, Kinds
  <2>. QED
    BY <1>1, <1>3, <2>1 DEF poll
<1>7. waker' \in [Sides -> BOOLEAN]
  <2>1. \A i \in Sides : keeps_waker(i, Polled(th)) \in BOOLEAN
    BY DEF keeps_waker
  <2>. QED
    BY <1>1, <2>1, Zenon
<1>8. TypeInv'
  <2>1. fut' \in [Sides -> {"pending", "ready", "taken"}]
    BY <1>1, <1>2 DEF TypeInv
  <2>2. /\ slot' \in [Sides -> Answers \cup {"None"}]
        /\ out' \in [Sides -> Answers \cup {"None"}]
    BY <1>1, <1>2, <1>4 DEF TypeInv
  <2>3. kind = "wrap" => fut'[2] = "pending"
    <3>. SUFFICES ASSUME kind = "wrap" PROVE fut'[2] = "pending"
      OBVIOUS
    <3>1. 2 \notin Polled(th)
      BY DEF Polled, wrap_polls
    <3>. QED
      BY <1>1, <1>2, <3>1 DEF Poll, TypeInv, Sides
  <2>. QED
    BY <1>1, <1>2, <1>5, <1>6, <1>7, <2>1, <2>2, <2>3 DEF TypeInv
<1>9. Waiting'
  <2>. SUFFICES ASSUME ~ done' PROVE ~ final(slot)'
    BY DEF Waiting
  <2>1. slot' = results(th)
    BY <1>1, <1>4
  <2>2. ~ final(results(th))
    BY <1>1
  <2>. QED
    BY <1>1, <2>1, <2>2 DEF final
<1>10. ASSUME NEW i \in Sides PROVE Kept(i)'
  <2>1. Kept(i) /\ fut[i] \in {"pending", "ready", "taken"} /\ value[i] \in Answers
    BY <1>2 DEF FutureInv, TypeInv
  <2>2. fut[i] = "taken" => results(th)[i] = value[i] /\ Poll(i, th) = "None"
    <3>. SUFFICES ASSUME fut[i] = "taken" PROVE results(th)[i] = value[i] /\ Poll(i, th) = "None"
      OBVIOUS
    <3>1. slot[i] = value[i] /\ slot[i] # "None"
      BY <1>1, <2>1 DEF Kept, Answers
    <3>2. i \notin Polled(th)
      BY <1>1, PollsFresh
    <3>. QED
      BY <3>1, <3>2 DEF results, Poll
  <2>3. fut[i] # "taken" => slot[i] = "None" /\ out[i] = "None" /\ results(th)[i] = Poll(i, th)
    BY <2>1 DEF Kept, results
  <2>4. Poll(i, th) \in {value[i], "None"}
    BY DEF Poll
  <2>5. /\ fut'[i] = IF Poll(i, th) # "None" THEN "taken" ELSE fut[i]
        /\ slot'[i] = IF done' THEN "None" ELSE results(th)[i]
        /\ out'[i] = IF done' THEN results(th)[i] ELSE out[i]
        /\ value'[i] = value[i]
    BY <1>1
  <2>. QED
    BY <2>1, <2>2, <2>3, <2>4, <2>5 DEF Kept
<1>11. ASSUME NEW i \in Sides PROVE Watched(i)'
  <2>1. CASE i \in Polled(th)
    <3>1. fut'[i] # "ready"
      <4>1. fut[i] # "pending" => Poll(i, th) = value[i]
        BY <2>1 DEF Poll
      <4>2. value[i] \in Answers
        BY <1>2 DEF TypeInv
      <4>. QED
        BY <1>1, <4>1, <4>2 DEF Answers
    <3>2. fut'[i] = "pending" => waker'[i] \/ leaf[i] = "flag"
      <4>1. fut'[i] = "pending" => fut[i] = "pending"
        BY <1>1
      <4>2. leaf[i] \in {"waking", "flag"}
        BY <1>2 DEF TypeInv
      <4>3. fut[i] = "pending" /\ leaf[i] = "waking" => keeps_waker(i, Polled(th))
        BY <2>1 DEF keeps_waker
      <4>4. waker'[i] = keeps_waker(i, Polled(th))
        BY <1>1
      <4>. QED
        BY <4>1, <4>2, <4>3, <4>4
    <3>. QED
      BY <1>1, <3>1, <3>2 DEF Watched
  <2>2. CASE i \notin Polled(th)
    <3>1. fut'[i] = fut[i]
      BY <1>1, <2>2 DEF Poll
    <3>2. fut[i] # "taken" => kind = "wrap" /\ (th # "home" \/ i \notin Parts)
      BY <1>1, <2>2, LeftOut
    <3>3. fut[i] = "ready" => i \in Parts
      BY <1>2 DEF TypeInv, Parts, Sides
    <3>4. Parts' = Parts
      BY <1>1 DEF Parts
    <3>. QED
      BY <1>5, <3>1, <3>2, <3>3, <3>4 DEF Watched
  <2>. QED
    BY <2>1, <2>2
<1>. QED
  BY <1>3, <1>8, <1>9, <1>10, <1>11 DEF FutureInv

\* Each step keeps the invariant.
LEMMA FutureNext ==
  ASSUME FutureInv, [Next]_vars
  PROVE  FutureInv'
<1>1. CASE Idle \/ UNCHANGED vars
  <2>1. /\ UNCHANGED <<kind, leaf, value, fut, waker, woken, slot, out, done, again, strayed>>
        /\ Parts' = Parts
    BY <1>1 DEF Idle, vars, Parts
  <2>2. TypeInv' /\ Waiting' /\ ~ again'
    BY <2>1 DEF FutureInv, TypeInv, Waiting, final
  <2>3. ASSUME NEW i \in Sides PROVE Kept(i)' /\ Watched(i)'
    BY <2>1 DEF FutureInv, Kept, Watched
  <2>. QED
    BY <2>2, <2>3 DEF FutureInv
<1>2. CASE Wake
  <2>1. woken' /\ woken' \in BOOLEAN
    BY <1>2 DEF Wake
  <2>2. UNCHANGED <<kind, leaf, value, fut, waker, slot, out, done, again, strayed>>
    BY <1>2 DEF Wake
  <2>3. TypeInv' /\ Waiting' /\ ~ again'
    BY <2>1, <2>2 DEF FutureInv, TypeInv, Waiting, final
  <2>4. ASSUME NEW i \in Sides PROVE Kept(i)' /\ Watched(i)'
    BY <2>1, <2>2 DEF FutureInv, Kept, Watched
  <2>. QED
    BY <2>3, <2>4 DEF FutureInv
<1>. QED
  BY <1>1, <1>2, CompleteKeeps, PollKeeps DEF Next, PollTask

\* The inductive invariant holds in every reachable state.
LEMMA FutureCorrect == Spec => []FutureInv
<1>1. FutureInv /\ [Next]_vars => FutureInv'
  BY FutureNext
<1>. QED
  BY FutureInit, <1>1, PTL DEF Spec

\* No combinator of future_ext.rs, nor WrapFuture, polls a future after it returned Ready,
\* and join never reaches its unreachable!().
THEOREM PolledOnce == Spec => []NeverPolledAgain
<1>1. FutureInv => NeverPolledAgain
  <2>. SUFFICES ASSUME FutureInv, ~ done, \A i \in Sides : slot[i] # "None" PROVE FALSE
    BY DEF NeverPolledAgain, FutureInv
  <2>1. final(slot)
    BY DEF FutureInv, TypeInv, Kinds, final, Sides
  <2>. QED
    BY <2>1 DEF FutureInv, Waiting
<1>. QED
  BY <1>1, FutureCorrect, PTL

\* A value the first future to finish has given away is stored by the joins until the
\* combinator returns, and is returned by it; nothing else is.
THEOREM ResultsKept == Spec => []NoResultLost
<1>1. FutureInv => NoResultLost
  BY DEF FutureInv, Kept, NoResultLost
<1>. QED
  BY <1>1, FutureCorrect, PTL

\* A task left unscheduled overlooks no completed future but a flag, which FlagFuture::set
\* does not announce, and the future of a WrapFuture polled away from its thread.
THEOREM WakersKept == Spec => []OnlyFlagsAreMissed
<1>1. FutureInv => OnlyFlagsAreMissed
  BY DEF FutureInv, Watched, OnlyFlagsAreMissed
<1>. QED
  BY <1>1, FutureCorrect, PTL

\* The safety half of FailsFast.  A join_on_ok that has not returned has not yet been told
\* of a failure: it stores no Err, and a future that has failed has scheduled the task.
ErrNeverWaits ==
  kind = "join_on_ok" /\ ~ done =>
    \A i \in Sides : /\ slot[i] # "Err"
                     /\ value[i] = "Err" /\ fut[i] # "pending" => woken

\* join_on_ok never rests on a failed future, whichever of the two finished first.
THEOREM FailureSeen == Spec => []ErrNeverWaits
<1>1. FutureInv => ErrNeverWaits
  <2>. SUFFICES ASSUME FutureInv, kind = "join_on_ok", ~ done, NEW i \in Sides
                PROVE  slot[i] # "Err" /\ (value[i] = "Err" /\ fut[i] # "pending" => woken)
    BY DEF ErrNeverWaits
  <2>1. slot[i] # "Err"
    BY DEF FutureInv, Waiting, final
  <2>2. fut[i] = "taken" => slot[i] = value[i]
    BY DEF FutureInv, Kept
  <2>3. fut[i] = "ready" => woken
    BY DEF FutureInv, TypeInv, Watched
  <2>4. fut[i] \in {"pending", "ready", "taken"}
    BY DEF FutureInv, TypeInv
  <2>. QED
    BY <2>1, <2>2, <2>3, <2>4
<1>. QED
  BY <1>1, FutureCorrect, PTL
=============================================================================
