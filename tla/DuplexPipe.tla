----------------------------- MODULE DuplexPipe -----------------------------
(***************************************************************************)
(* What a tunnel promises its two ends: two independent byte pipes.  Bytes *)
(* come out of a pipe in the order they went in, none twice and none made  *)
(* up.  A pipe can stop taking bytes at any time, and then loses at most   *)
(* the tail of what is still inside it.                                    *)
(***************************************************************************)
EXTENDS Integers, Sequences, SequencesExt

CONSTANTS Sides, Data

VARIABLES
  open,      \* open[s]: the pipe from s takes bytes
  transit,   \* transit[s]: bytes inside it
  got        \* got[s]: bytes that came out of it

vars == <<open, transit, got>>

Init ==
  /\ open = [s \in Sides |-> TRUE]
  /\ transit = [s \in Sides |-> <<>>]
  /\ got = [s \in Sides |-> <<>>]

Put(s) ==
  /\ open[s]
  /\ \E d \in Data : transit' = [transit EXCEPT ![s] = Append(@, d)]
  /\ UNCHANGED <<open, got>>

Take(s) ==
  /\ \E k \in 1..Len(transit[s]) :
       /\ got' = [got EXCEPT ![s] = @ \o SubSeq(transit[s], 1, k)]
       /\ transit' = [transit EXCEPT ![s] = SubSeq(@, k + 1, Len(@))]
  /\ UNCHANGED open

\* One event may cut both pipes: the loss of an end, or of the tunnel.
Cut ==
  \E S \in SUBSET Sides :
    /\ open' = [s \in Sides |-> open[s] /\ s \notin S]
    /\ \A s \in Sides : IF s \in S THEN IsPrefix(transit'[s], transit[s])
                                   ELSE transit'[s] = transit[s]
    /\ DOMAIN transit' = Sides
    /\ UNCHANGED got

Next == Cut \/ \E s \in Sides : Put(s) \/ Take(s)

Spec == Init /\ [][Next]_vars
=============================================================================
