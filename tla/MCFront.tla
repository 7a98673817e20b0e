------------------------------ MODULE MCFront ------------------------------
(***************************************************************************)
(* An instance of RocksFront for TLC: two clients, each either good or bad *)
(* in one way.                                                             *)
(***************************************************************************)
EXTENDS RocksFront

Plain(r) == [tls |-> "ok", head |-> "whole", body |-> "whole", stays |-> TRUE, req |-> r]

\* Everything that can go wrong with a client beside its request.
Faults(s) ==
  {[s EXCEPT !.tls = "bad"], [s EXCEPT !.tls = "silent"], [s EXCEPT !.head = "cut"],
   [s EXCEPT !.head = "stall"], [s EXCEPT !.body = "cut"], [s EXCEPT !.body = "stall"],
   [s EXCEPT !.stays = FALSE]}
With(good, other) == {Plain(good)} \cup Faults(Plain(good)) \cup {Plain(r) : r \in other}

Form == [path |-> "/rocks", form |-> TRUE, len |-> "valid", chunked |-> FALSE]
Request == [proto |-> TRUE, msg |-> "request", user |-> TRUE]

MCScripts ==
  [m \in {"rocks", "temp", "hyper", "ws"} |->
     CASE m = "rocks" -> With(Form, {[Form EXCEPT !.path = "/"], [Form EXCEPT !.len = "invalid"],
                                     [Form EXCEPT !.chunked = TRUE], [Form EXCEPT !.form = FALSE]})
       [] m = "temp"  -> With("complete", {"malformed"})
       [] m = "hyper" -> With("HTTP/1.1", {"other"})
       [] m = "ws"    -> With(Request, {[Request EXCEPT !.proto = FALSE], [Request EXCEPT !.user = FALSE],
                                        [Request EXCEPT !.msg = "garbage"], [Request EXCEPT !.msg = "text"]})]
=============================================================================
