-------------------------- MODULE RocksFrontProofs --------------------------
(***************************************************************************)
(* Proof that serve_websocket (RocksFront, mode "ws") is honest, for every *)
(* set of clients and whatever they do: the invariant relates how far a    *)
(* connection is to what was checked of its request, to its connection to  *)
(* the destination and to the answer it was given.                         *)
(***************************************************************************)
EXTENDS RocksFront, TLAPS

\* The per-client variables have an entry for each client.
Shape ==
  /\ pc \in [Clients -> {"queued", "connect", "tls", "head", "strayed", "message", "dial", "reply"}
                      \cup Over]
  /\ code \in [Clients -> {"none", "200", "404", "reject", "success", "failure"}]
  /\ up \in [Clients -> {"none", "open", "failed", "dropped"}]

\* What is known of a request at the stage it has reached.
Vetted(c) ==
  /\ pc[c] \in {"message", "dial", "reply", "tunnel"} \/ up[c] # "none" =>
       enabled /\ script[c].req.proto
  /\ pc[c] \in {"dial", "reply", "tunnel"} \/ up[c] # "none" => request_ok(c)

\* The connection to the destination, by stage: it is made between dial and reply, and
\* only a tunnel keeps it.
Dialled(c) ==
  /\ pc[c] \notin {"reply", "tunnel", "closed"} => up[c] = "none"
  /\ pc[c] = "reply" => up[c] \in {"open", "failed"}
  /\ pc[c] = "tunnel" => up[c] = "open"
  /\ pc[c] = "closed" => up[c] # "open"

\* The answer: none while the request is on its way, and the outcome of the connect.
Told(c) ==
  /\ pc[c] \notin {"answered", "tunnel", "closed"} => code[c] = "none"
  /\ pc[c] = "answered" => code[c] \in {"200", "404", "reject"}
  /\ code[c] = "success" => pc[c] = "tunnel"
  /\ code[c] = "failure" => pc[c] = "closed" /\ up[c] = "failed"

HonestInv == Shape /\ \A c \in Clients : Vetted(c) /\ Dialled(c) /\ Told(c)

-----------------------------------------------------------------------------
\* Nothing is known, made or told before a connection is accepted.
LEMMA HonestStart == Init => HonestInv
BY DEF Init, HonestInv, Shape, Over, Vetted, Dialled, Told

\* What holds of a client is kept by a step that does not concern it.
LEMMA HonestFrame ==
  ASSUME NEW d \in Clients, Vetted(d), Dialled(d), Told(d), UNCHANGED <<enabled, script>>,
         pc'[d] = pc[d], code'[d] = code[d], up'[d] = up[d]
  PROVE  Vetted(d)' /\ Dialled(d)' /\ Told(d)'
BY DEF Vetted, Dialled, Told, request_ok

\* The services answer with 200 or 404, or fail.
LEMMA CallAnswers ==
  ASSUME NEW c \in Clients, mode \in {"rocks", "hyper"}
  PROVE  call(c) \in {"200", "404", "error"}
BY DEF call, serve_rocks_async, handle_rocks

\* A poll of the task of a connection to one of the services.
LEMMA Polled ==
  ASSUME NEW c \in Clients, Serve(c) \/ PolledAgain(c)
  PROVE  /\ pc[c] \in {"head", "strayed"} /\ UNCHANGED <<enabled, script, up>>
         /\ \/ (Goto(c, "closed") \/ Goto(c, "strayed")) /\ UNCHANGED code
            \/ Goto(c, "answered") /\ call(c) \in {"200", "404"} /\ Reply(c, call(c))
<1>1. /\ mode \in {"rocks", "hyper"} /\ pc[c] \in {"head", "strayed"}
      /\ UNCHANGED <<enabled, script, up>>
      /\ Answer(c) \/ \E th \in Threads : wrap_future(c, th)
  BY DEF Serve, PolledAgain
<1>. QED
  BY <1>1, CallAnswers DEF Answer, wrap_future, Lose

\* A step of one connection concerns no other, and keeps the shape.
LEMMA HonestLocal ==
  ASSUME Shape, NEW c \in Clients, Accept(c) \/ AcceptError(c) \/ Step(c) \/ PolledAgain(c)
  PROVE  /\ Shape' /\ UNCHANGED <<enabled, script>>
         /\ \A d \in Clients \ {c} : pc'[d] = pc[d] /\ code'[d] = code[d] /\ up'[d] = up[d]
<1>1. CASE Accept(c) \/ AcceptError(c) \/ handle_client(c) \/ TlsOk(c) \/ TlsFails(c) \/ HeadCut(c)
           \/ temp_eof(c) \/ message(c)
  BY <1>1 DEF Shape, Over, Accept, AcceptError, handle_client, TlsOk, TlsFails, HeadCut, temp_eof,
     message, Goto, Lose
<1>2. CASE Serve(c) \/ PolledAgain(c)
  BY <1>2, Polled DEF Shape, Over, Goto, Reply
<1>3. CASE temp(c)
  BY <1>3 DEF Shape, Over, temp, Goto, Reply, Lose
<1>4. CASE upgrade(c)
  <2>1. /\ UNCHANGED <<enabled, script, up>>
        /\ \/ (Goto(c, "message") \/ Goto(c, "closed")) /\ UNCHANGED code
           \/ Goto(c, "answered") /\ Reply(c, "reject")
    BY <1>4 DEF upgrade
  <2>. QED
    BY <2>1 DEF Shape, Over, Goto, Reply
<1>5. CASE dial(c)
  BY <1>5 DEF Shape, dial, Goto
<1>6. CASE reply(c)
  <2>1. /\ UNCHANGED <<enabled, script>>
        /\ Goto(c, "tunnel") \/ Goto(c, "closed")
        /\ code' = code \/ Reply(c, "success") \/ Reply(c, "failure")
        /\ up' = up \/ up' = [up EXCEPT ![c] = "dropped"]
    <3>1. [up EXCEPT ![c] = @] = up
      BY DEF Shape
    <3>. QED
      BY <1>6, <3>1 DEF reply, Shape
  <2>. QED
    BY <2>1 DEF Shape, Over, Goto, Reply
<1>. QED
  BY <1>1, <1>2, <1>3, <1>4, <1>5, <1>6 DEF Step

\* Every step keeps HonestInv.
LEMMA HonestNext ==
  ASSUME HonestInv, [Next]_vars
  PROVE  HonestInv'
<1>0. Shape
  BY DEF HonestInv
<1>1. CASE UNCHANGED vars \/ Quiet
  BY <1>1 DEF Quiet, vars, HonestInv, Shape, Vetted, Dialled, Told, request_ok
<1>2. CASE start_server
  <2>1. /\ UNCHANGED <<enabled, script, code, up>>
        /\ pc' \in [Clients -> {"refused"} \cup {pc[c] : c \in Clients}]
        /\ \A d \in Clients :
             pc'[d] = pc[d] \/ (pc[d] \in {"tls", "head"} /\ pc'[d] = "refused")
    <3>1. CASE UNCHANGED pc
      BY <1>0, <1>2, <3>1 DEF start_server, Shape
    <3>2. CASE ~ UNCHANGED pc
      <4>1. PICK held \in SUBSET {c \in Clients : pc[c] \in {"tls", "head"}} :
                   pc' = [c \in Clients |-> IF c \in held THEN "refused" ELSE pc[c]]
        BY <1>2, <3>2 DEF start_server
      <4>. QED
        BY <1>2, <4>1 DEF start_server
    <3>. QED
      BY <3>1, <3>2
  <2>2. Shape'
    BY <1>0, <2>1 DEF Shape, Over
  <2>3. ASSUME NEW d \in Clients PROVE Vetted(d)' /\ Dialled(d)' /\ Told(d)'
    <3>0. Vetted(d) /\ Dialled(d) /\ Told(d)
      BY DEF HonestInv
    <3>1. CASE pc'[d] = pc[d]
      BY <2>1, <3>0, <3>1, HonestFrame
    <3>2. CASE pc[d] \in {"tls", "head"} /\ pc'[d] = "refused"
      BY <2>1, <3>0, <3>2 DEF Vetted, Dialled, Told
    <3>. QED
      BY <2>1, <3>1, <3>2
  <2>. QED
    BY <2>2, <2>3 DEF HonestInv
<1>3. ASSUME NEW c \in Clients, Accept(c) \/ AcceptError(c) \/ Step(c) \/ PolledAgain(c)
      PROVE  HonestInv'
  <2>1. /\ Shape' /\ UNCHANGED <<enabled, script>>
        /\ \A d \in Clients \ {c} : pc'[d] = pc[d] /\ code'[d] = code[d] /\ up'[d] = up[d]
    BY <1>0, <1>3, HonestLocal
  <2>2. Vetted(c) /\ Dialled(c) /\ Told(c)
    BY DEF HonestInv
  <2>3. Vetted(c)' /\ Dialled(c)' /\ Told(c)'
    <3>1. CASE Accept(c) \/ AcceptError(c) \/ handle_client(c) \/ TlsOk(c) \/ TlsFails(c)
               \/ HeadCut(c) \/ temp_eof(c)
      <4>1. /\ pc[c] \in {"queued", "connect", "tls", "head"} /\ UNCHANGED <<code, up>>
            /\ pc'[c] \in {"connect", "tls", "head", "aborted", "closed", "refused", "spin"}
        BY <1>0, <3>1 DEF Shape, Accept, AcceptError, handle_client, TlsOk, TlsFails, HeadCut,
           temp_eof, Goto, Lose
      <4>. QED
        BY <2>1, <2>2, <4>1 DEF Vetted, Dialled, Told
    <3>2. CASE Serve(c) \/ PolledAgain(c) \/ temp(c)
      <4>1. /\ pc[c] \in {"head", "strayed"} /\ up' = up
            /\ \/ pc'[c] \in {"closed", "strayed"} /\ code'[c] = code[c]
               \/ pc'[c] = "answered" /\ code'[c] \in {"200", "404"}
        <5>1. CASE Serve(c) \/ PolledAgain(c)
          BY <1>0, <5>1, Polled DEF Shape, Goto, Reply
        <5>2. CASE temp(c)
          BY <1>0, <5>2 DEF Shape, temp, Goto, Reply, Lose
        <5>. QED
          BY <3>2, <5>1, <5>2
      <4>. QED
        BY <2>1, <2>2, <4>1 DEF Vetted, Dialled, Told
    <3>3. CASE upgrade(c)
      <4>1. /\ pc[c] = "head" /\ up' = up
            /\ \/ pc'[c] = "message" /\ enabled /\ script[c].req.proto /\ code'[c] = code[c]
               \/ pc'[c] = "closed" /\ code'[c] = code[c]
               \/ pc'[c] = "answered" /\ code'[c] = "reject"
        BY <1>0, <3>3 DEF Shape, upgrade, Goto, Reply
      <4>. QED
        BY <2>1, <2>2, <4>1 DEF Vetted, Dialled, Told
    <3>4. CASE message(c)
      <4>1. /\ pc[c] = "message" /\ UNCHANGED <<code, up>>
            /\ pc'[c] = "closed" \/ (pc'[c] = "dial" /\ request_ok(c))
        BY <1>0, <3>4 DEF Shape, message, Goto
      <4>. QED
        BY <2>1, <2>2, <4>1 DEF Vetted, Dialled, Told, request_ok
    <3>5. CASE dial(c)
      <4>1. /\ pc[c] = "dial" /\ code' = code
            /\ pc'[c] = "reply" /\ up'[c] \in {"open", "failed"}
        BY <1>0, <3>5 DEF Shape, dial, Goto
      <4>. QED
        BY <2>1, <2>2, <4>1 DEF Vetted, Dialled, Told, request_ok
    <3>6. CASE reply(c)
      <4>1. /\ pc[c] = "reply" /\ up[c] \in {"open", "failed"}
            /\ code[c] = "none"
        BY <2>2, <3>6 DEF reply, Dialled, Told
      <4>2. \/ up[c] = "open" /\ up'[c] = "open" /\ pc'[c] = "tunnel" /\ code'[c] = "success"
            \/ up[c] = "failed" /\ up'[c] = "failed" /\ pc'[c] = "closed" /\ code'[c] = "failure"
            \/ up'[c] \in {"dropped", "failed"} /\ pc'[c] = "closed" /\ code'[c] = "none"
        BY <1>0, <3>6, <4>1 DEF Shape, reply, Goto, Reply
      <4>. QED
        BY <2>1, <2>2, <4>1, <4>2 DEF Vetted, Dialled, Told, request_ok
    <3>. QED
      BY <1>3, <3>1, <3>2, <3>3, <3>4, <3>5, <3>6 DEF Step
  <2>4. ASSUME NEW d \in Clients \ {c} PROVE Vetted(d)' /\ Dialled(d)' /\ Told(d)'
    BY <2>1, HonestFrame DEF HonestInv
  <2>. QED
    BY <2>1, <2>3, <2>4 DEF HonestInv
<1>. QED
  BY <1>1, <1>2, <1>3 DEF Next

\* serve_websocket contacts a destination only for the enabled user, tells success and
\* failure only where they are true, and keeps no connection for a client that is gone.
THEOREM WebsocketIsHonest == Spec => []WebsocketHonest
<1>1. Init => HonestInv
  BY HonestStart
<1>2. HonestInv /\ [Next]_vars => HonestInv'
  BY HonestNext
<1>3. HonestInv => WebsocketHonest
  BY DEF HonestInv, Shape, Over, Vetted, Dialled, Told, WebsocketHonest, request_ok
<1>. QED
  BY <1>1, <1>2, <1>3, PTL DEF Spec
=============================================================================
