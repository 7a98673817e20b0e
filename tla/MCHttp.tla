------------------------------- MODULE MCHttp -------------------------------
(***************************************************************************)
(* An instance of HttpParse for TLC: every stream of up to five bytes, and *)
(* requests of one and two lines with something after the blank line.      *)
(***************************************************************************)
EXTENDS HttpParse

Short == UNION {[1..n -> ByteKind] : n \in 0..5}
Request(name) == <<name, CR, LF>>
Requests ==
  {Request("x") \o Request("x") \o <<CR, LF>>,
   Request("x") \o <<"x", CR, CR, LF, CR, LF, "x">>,
   <<CR, LF>> \o Request("x") \o <<CR, LF>>}

MCStreams == Short \cup Requests
=============================================================================
