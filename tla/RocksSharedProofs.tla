------------------------- MODULE RocksSharedProofs -------------------------
(***************************************************************************)
(* Proofs about what the tasks of the Rocks front end share, the table of  *)
(* connections and the request queue, for every number of users, requests, *)
(* consumers, identifiers and connections.                                 *)
(***************************************************************************)
EXTENDS MCRocks, SequenceTheorems, TLAPS

-----------------------------------------------------------------------------
(* The table of connections.                                                 *)

TableType ==
  /\ conns \in [Ids -> Conns \cup {Nobody}]
  /\ hand \in [Users -> Conns \cup {Nobody}]
  /\ opened \subseteq Conns /\ dropped \subseteq opened

\* What is in the table or in somebody's hands is open.
OnlyOpen ==
  /\ \A i \in Ids : conns[i] # Nobody => conns[i] \in opened \ dropped
  /\ \A u \in Users : hand[u] # Nobody => hand[u] \in opened \ dropped

\* No connection is in two places.
NotShared ==
  /\ \A i, j \in Ids : conns[i] # Nobody /\ conns[i] = conns[j] => i = j
  /\ \A u, v \in Users : hand[u] # Nobody /\ hand[u] = hand[v] => u = v
  /\ \A i \in Ids, u \in Users : conns[i] # Nobody => conns[i] # hand[u]

\* No open connection is nowhere.
NotLost ==
  \A c \in opened \ dropped : (\E i \in Ids : conns[i] = c) \/ (\E u \in Users : hand[u] = c)

TableInv == TableType /\ OnlyOpen /\ NotShared /\ NotLost

\* RocksIncoming starts with an empty table.
LEMMA TableInvInit == TableInit => TableInv
BY DEF TableInit, TableInv, TableType, OnlyOpen, NotShared, NotLost

\* Every call on the table moves at most one connection, and moves it whole.
LEMMA TableInvNext ==
  ASSUME TableInv, TableNext \/ UNCHANGED tableVars
  PROVE  TableInv'
<1>0. TableType /\ OnlyOpen /\ NotShared /\ NotLost /\ Nobody \notin Conns
  BY TableAssumption DEF TableInv, TableAssumption
<1>1. CASE UNCHANGED tableVars
  BY <1>0, <1>1 DEF tableVars, TableInv, TableType, OnlyOpen, NotShared, NotLost
<1>2. ASSUME NEW u \in Users, Open(u) PROVE TableInv'
  <2>1. PICK c \in Conns \ opened : hand' = [hand EXCEPT ![u] = c] /\ opened' = opened \cup {c}
    BY <1>2 DEF Open
  <2>2. hand[u] = Nobody /\ conns' = conns /\ dropped' = dropped
    BY <1>2 DEF Open
  <2>3. TableType'
    BY <1>0, <2>1, <2>2 DEF TableType
  <2>4. OnlyOpen'
    BY <1>0, <2>1, <2>2 DEF OnlyOpen, TableType
  <2>5. NotShared'
    BY <1>0, <2>1, <2>2 DEF NotShared, OnlyOpen, TableType
  <2>6. NotLost'
    BY <1>0, <2>1, <2>2 DEF NotLost, TableType
  <2>. QED
    BY <2>3, <2>4, <2>5, <2>6 DEF TableInv
<1>3. ASSUME NEW u \in Users, NEW i \in Ids, get_connection(u, i) PROVE TableInv'
  <2>1. /\ hand[u] = Nobody /\ conns[i] # Nobody
        /\ hand' = [hand EXCEPT ![u] = conns[i]] /\ conns' = [conns EXCEPT ![i] = Nobody]
        /\ opened' = opened /\ dropped' = dropped
    BY <1>3 DEF get_connection
  <2>2. TableType'
    BY <1>0, <2>1 DEF TableType
  <2>3. OnlyOpen'
    BY <1>0, <2>1 DEF OnlyOpen, TableType
  <2>4. NotShared'
    BY <1>0, <2>1 DEF NotShared, TableType
  <2>5. NotLost'
    BY <1>0, <2>1 DEF NotLost, TableType
  <2>. QED
    BY <2>2, <2>3, <2>4, <2>5 DEF TableInv
<1>4. ASSUME NEW u \in Users, NEW i \in Ids, add_connection(u, i) PROVE TableInv'
  <2>1. hand[u] # Nobody /\ hand' = [hand EXCEPT ![u] = Nobody] /\ opened' = opened
    BY <1>4 DEF add_connection
  <2>2. CASE conns[i] = Nobody
    <3>1. conns' = [conns EXCEPT ![i] = hand[u]] /\ dropped' = dropped
      BY <1>4, <2>2 DEF add_connection
    <3>2. TableType'
      BY <1>0, <2>1, <3>1 DEF TableType
    <3>3. OnlyOpen'
      BY <1>0, <2>1, <3>1 DEF OnlyOpen, TableType
    <3>4. NotShared'
      BY <1>0, <2>1, <2>2, <3>1 DEF NotShared, TableType
    <3>5. NotLost'
      BY <1>0, <2>1, <2>2, <3>1 DEF NotLost, TableType
    <3>. QED
      BY <3>2, <3>3, <3>4, <3>5 DEF TableInv
  <2>3. CASE conns[i] # Nobody
    <3>1. dropped' = dropped \cup {hand[u]} /\ conns' = conns
      BY <1>4, <2>3 DEF add_connection
    <3>2. TableType'
      BY <1>0, <2>1, <3>1 DEF TableType, OnlyOpen
    <3>3. OnlyOpen'
      BY <1>0, <2>1, <3>1 DEF OnlyOpen, NotShared, TableType
    <3>4. NotShared'
      BY <1>0, <2>1, <3>1 DEF NotShared, TableType
    <3>5. NotLost'
      BY <1>0, <2>1, <3>1 DEF NotLost, TableType
    <3>. QED
      BY <3>2, <3>3, <3>4, <3>5 DEF TableInv
  <2>. QED
    BY <2>2, <2>3
<1>. QED
  BY <1>1, <1>2, <1>3, <1>4 DEF TableNext, TableIdle

\* Every open connection has exactly one owner, the table or one user.
LEMMA TableOwned == TableInv => OwnedOnce
<1>. SUFFICES ASSUME TableInv, NEW c \in Conns
     PROVE LET places == {<<"table", i>> : i \in {j \in Ids : conns[j] = c}}
                         \cup {<<"user", u>> : u \in {v \in Users : hand[v] = c}}
           IN  IF c \in opened \ dropped THEN \E p \in places : places = {p} ELSE places = {}
  BY DEF OwnedOnce
<1>. DEFINE places == {<<"table", i>> : i \in {j \in Ids : conns[j] = c}}
                      \cup {<<"user", u>> : u \in {v \in Users : hand[v] = c}}
<1>0. OnlyOpen /\ NotShared /\ NotLost /\ c # Nobody
  BY TableAssumption DEF TableInv, TableAssumption
<1>1. CASE c \notin opened \ dropped
  <2>1. (\A i \in Ids : conns[i] # c) /\ (\A u \in Users : hand[u] # c)
    BY <1>0, <1>1 DEF OnlyOpen
  <2>2. places = {}
    BY <2>1
  <2>. QED
    BY <1>1, <2>2
<1>2. CASE \E i \in Ids : conns[i] = c
  <2>1. PICK i \in Ids : conns[i] = c
    BY <1>2
  <2>2. (\A j \in Ids : conns[j] = c => j = i) /\ (\A u \in Users : hand[u] # c)
    BY <1>0, <2>1 DEF NotShared
  <2>3. places = {<<"table", i>>}
    BY <2>1, <2>2
  <2>4. c \in opened \ dropped
    BY <1>0, <2>1 DEF OnlyOpen
  <2>. QED
    BY <2>3, <2>4
<1>3. CASE \E u \in Users : hand[u] = c
  <2>1. PICK u \in Users : hand[u] = c
    BY <1>3
  <2>2. (\A v \in Users : hand[v] = c => v = u) /\ (\A i \in Ids : conns[i] # c)
    BY <1>0, <2>1 DEF NotShared
  <2>3. places = {<<"user", u>>}
    BY <2>1, <2>2
  <2>4. c \in opened \ dropped
    BY <1>0, <2>1 DEF OnlyOpen
  <2>. QED
    BY <2>3, <2>4
<1>. QED
  BY <1>0, <1>1, <1>2, <1>3 DEF NotLost

\* Two requests never share a connection and none is forgotten while it is open.
THEOREM ConnectionOwnedOnce == Spec => []OwnedOnce
<1>1. Init => TableInv
  BY TableInvInit DEF Init
<1>2. TableInv /\ [Next]_vars => TableInv'
  BY TableInvNext DEF Next, vars
<1>. QED
  BY <1>1, <1>2, TableOwned, PTL DEF Spec

-----------------------------------------------------------------------------
(* The request queue.  PacketOnce speaks of a packet while nobody has        *)
(* answered it; what makes it inductive is that a request which has not been *)
(* pushed has no channel, and what makes AnswerBeatsTimeout so is that an    *)
(* answer which comes amid a poll is told apart ("late").                    *)

QueueType ==
  /\ form \in [Requests -> Forms]
  /\ pc \in [Requests -> {"body", "pushed", "checked", "waiting"} \cup Over]
  /\ queue \in Seq(Requests)
  /\ chan \in [Requests -> {"none", "empty", "full", "late", "gone"}]
  /\ cons \in [Consumers -> Requests \cup {NoPacket}]

\* A packet on its way has an open and empty channel.
OnlyUnanswered ==
  /\ \A i \in DOMAIN queue : chan[queue[i]] = "empty"
  /\ \A k \in Consumers : cons[k] # NoPacket => chan[cons[k]] = "empty"

\* No packet is in two places.
NotTwice ==
  /\ \A i, j \in DOMAIN queue : queue[i] = queue[j] => i = j
  /\ \A k, l \in Consumers : cons[k] # NoPacket /\ cons[k] = cons[l] => k = l
  /\ \A i \in DOMAIN queue, k \in Consumers : queue[i] # cons[k]

\* No packet with an open and empty channel is nowhere.
NotDropped ==
  \A r \in Requests : chan[r] = "empty" =>
    (\E i \in DOMAIN queue : queue[i] = r) \/ (\E k \in Consumers : cons[k] = r)

\* What the handler of a request knows of its channel.
Handled ==
  \A r \in Requests :
    /\ pc[r] = "body" => chan[r] = "none"
    /\ pc[r] \in {"checked", "elapsed"} => chan[r] # "full"

QueueInv == QueueType /\ OnlyUnanswered /\ NotTwice /\ NotDropped /\ Handled

\* RocksIncoming starts with an empty queue.
LEMMA QueueInvInit == QueueInit => QueueInv
<1>. SUFFICES ASSUME QueueInit PROVE QueueInv
  OBVIOUS
<1>1. queue \in Seq(Requests) /\ DOMAIN queue = {}
  BY EmptySeq DEF QueueInit
<1>. QED
  BY <1>1 DEF QueueInit, QueueInv, QueueType, OnlyUnanswered, NotTwice, NotDropped, Handled

\* A step that leaves queue and consumers, and changes no channel from or to "empty".
LEMMA QueueFrame ==
  ASSUME QueueInv, QueueType', Handled', queue' = queue, cons' = cons,
         \A r \in Requests : chan'[r] = "empty" <=> chan[r] = "empty"
  PROVE  QueueInv'
<1>0. OnlyUnanswered /\ NotTwice /\ NotDropped /\ QueueType
  BY DEF QueueInv
<1>1. \A i \in DOMAIN queue : queue[i] \in Requests
  BY <1>0 DEF QueueType
<1>2. OnlyUnanswered'
  BY <1>0, <1>1 DEF OnlyUnanswered, QueueType
<1>3. NotTwice'
  BY <1>0 DEF NotTwice
<1>4. NotDropped'
  BY <1>0 DEF NotDropped
<1>. QED
  BY <1>2, <1>3, <1>4 DEF QueueInv

\* Every step of a handler or a consumer preserves QueueInv.
LEMMA QueueInvNext ==
  ASSUME QueueInv, QueueNext \/ UNCHANGED queueVars
  PROVE  QueueInv'
<1>0. /\ QueueType /\ OnlyUnanswered /\ NotTwice /\ NotDropped /\ Handled
      /\ NoPacket \notin Requests
  BY QueueAssumption DEF QueueInv, QueueAssumption
<1>q. /\ queue \in Seq(Requests) /\ Len(queue) \in Nat /\ DOMAIN queue = 1..Len(queue)
      /\ \A i \in DOMAIN queue : queue[i] \in Requests
  BY <1>0, LenProperties DEF QueueType
<1>1. CASE UNCHANGED queueVars
  BY <1>0, <1>1 DEF queueVars, QueueInv, QueueType, OnlyUnanswered, NotTwice, NotDropped, Handled
<1>2. ASSUME NEW r \in Requests, rocks_handler_impl(r) PROVE QueueInv'
  <2>0. pc[r] = "body" /\ chan[r] = "none" /\ form' = form /\ cons' = cons
    BY <1>0, <1>2 DEF rocks_handler_impl, Handled
  <2>1. CASE RocksPacket_new(form[r]) = "error"
    <3>1. pc' = [pc EXCEPT ![r] = "failed"] /\ queue' = queue /\ chan' = chan
      BY <1>2, <2>1 DEF rocks_handler_impl
    <3>2. QueueType' /\ Handled'
      BY <1>0, <2>0, <3>1 DEF QueueType, Handled, Over
    <3>. QED
      BY <2>0, <3>1, <3>2, QueueFrame
  <2>2. CASE RocksPacket_new(form[r]) # "error"
    <3>1. /\ pc' = [pc EXCEPT ![r] = "pushed"] /\ queue' = Append(queue, r)
          /\ chan' = [chan EXCEPT ![r] = "empty"]
      BY <1>2, <2>2 DEF rocks_handler_impl
    <3>. DEFINE n == Len(queue) + 1
    <3>2. /\ queue' \in Seq(Requests) /\ DOMAIN queue' = 1..n /\ n \in Nat
          /\ queue'[n] = r /\ \A i \in DOMAIN queue : i \in 1..n /\ i # n /\ queue'[i] = queue[i]
          /\ \A i \in 1..n : i = n \/ i \in DOMAIN queue
      BY <1>q, <3>1, AppendProperties, LenProperties
    <3>. HIDE DEF n
    <3>3. (\A i \in DOMAIN queue : queue[i] # r) /\ (\A k \in Consumers : cons[k] # r)
      BY <1>0, <2>0 DEF OnlyUnanswered
    <3>4. QueueType'
      BY <1>0, <2>0, <3>1, <3>2 DEF QueueType
    <3>5. OnlyUnanswered'
      <4>1. \A i \in DOMAIN queue' : chan'[queue'[i]] = "empty"
        BY <1>0, <1>q, <3>1, <3>2, <3>3 DEF OnlyUnanswered, QueueType
      <4>2. \A k \in Consumers : cons'[k] # NoPacket => chan'[cons'[k]] = "empty"
        BY <1>0, <2>0, <3>1, <3>3 DEF OnlyUnanswered, QueueType
      <4>. QED
        BY <4>1, <4>2 DEF OnlyUnanswered
    <3>6. NotTwice'
      <4>1. \A i, j \in DOMAIN queue' : queue'[i] = queue'[j] => i = j
        BY <1>0, <3>2, <3>3 DEF NotTwice
      <4>2. \A i \in DOMAIN queue', k \in Consumers : queue'[i] # cons'[k]
        BY <1>0, <2>0, <3>2, <3>3 DEF NotTwice
      <4>. QED
        BY <1>0, <2>0, <4>1, <4>2 DEF NotTwice
    <3>7. NotDropped'
      BY <1>0, <2>0, <3>1, <3>2 DEF NotDropped, QueueType
    <3>8. Handled'
      BY <1>0, <3>1 DEF Handled, QueueType
    <3>. QED
      BY <3>4, <3>5, <3>6, <3>7, <3>8 DEF QueueInv
  <2>. QED
    BY <2>1, <2>2
<1>3. ASSUME NEW r \in Requests, GivenUp(r) PROVE QueueInv'
  <2>1. /\ form' = form /\ queue' = queue /\ chan' = chan /\ cons' = cons
        /\ pc' = [pc EXCEPT ![r] = "failed"] \/ pc' = [pc EXCEPT ![r] = "cancelled"]
    BY <1>3 DEF GivenUp
  <2>2. QueueType' /\ Handled'
    BY <1>0, <2>1 DEF QueueType, Handled, Over
  <2>. QED
    BY <2>1, <2>2, QueueFrame
<1>4. ASSUME NEW r \in Requests, try_recv(r) PROVE QueueInv'
  <2>1. /\ form' = form /\ queue' = queue /\ chan' = chan /\ cons' = cons
        /\ pc' = [pc EXCEPT ![r] = IF chan[r] = "full" THEN "answered" ELSE "checked"]
    BY <1>4 DEF try_recv
  <2>2. QueueType' /\ Handled'
    BY <1>0, <2>1 DEF QueueType, Handled, Over
  <2>. QED
    BY <2>1, <2>2, QueueFrame
<1>5. ASSUME NEW r \in Requests, poll(r) PROVE QueueInv'
  <2>1. /\ form' = form /\ queue' = queue /\ cons' = cons /\ pc[r] \in {"checked", "body"}
        /\ pc' = [pc EXCEPT ![r] = IF due[r] THEN "elapsed"
                                   ELSE IF @ = "checked" THEN "waiting" ELSE @]
        /\ chan' = [chan EXCEPT ![r] = IF @ = "late" /\ ~ due[r] THEN "full" ELSE @]
    BY <1>5 DEF poll
  <2>2. QueueType'
    BY <1>0, <2>1 DEF QueueType, Over
  <2>3. Handled'
    <3>1. CASE due[r]
      BY <1>0, <2>1, <3>1 DEF Handled, QueueType
    <3>2. CASE ~ due[r]
      BY <1>0, <2>1, <3>2 DEF Handled, QueueType
    <3>. QED
      BY <3>1, <3>2
  <2>4. \A s \in Requests : chan'[s] = "empty" <=> chan[s] = "empty"
    BY <1>0, <2>1 DEF QueueType
  <2>. QED
    BY <2>1, <2>2, <2>3, <2>4, QueueFrame
<1>6. ASSUME NEW r \in Requests, Timer(r) \/ Wake(r) PROVE QueueInv'
  <2>1. UNCHANGED <<form, pc, queue, chan, cons>>
    BY <1>6 DEF Timer, Wake
  <2>2. QueueType' /\ Handled'
    BY <1>0, <2>1 DEF QueueType, Handled
  <2>. QED
    BY <2>1, <2>2, QueueFrame
<1>7. ASSUME NEW k \in Consumers, pop(k) PROVE QueueInv'
  <2>1. /\ cons[k] = NoPacket /\ queue # <<>>
        /\ cons' = [cons EXCEPT ![k] = Head(queue)] /\ queue' = Tail(queue)
        /\ form' = form /\ pc' = pc /\ chan' = chan
    BY <1>7 DEF pop
  <2>2. /\ queue' \in Seq(Requests) /\ DOMAIN queue' = 1..(Len(queue) - 1)
        /\ \A i \in DOMAIN queue' : queue'[i] = queue[i + 1]
        /\ Head(queue) \in Requests
    BY <1>q, <2>1, HeadTailProperties, LenProperties
  <2>3. Len(queue) # 0 /\ Head(queue) = queue[1]
    BY <1>q, <2>1, EmptySeq
  <2>4. /\ 1 \in DOMAIN queue
        /\ \A i \in DOMAIN queue' : i + 1 \in DOMAIN queue /\ i + 1 # 1
        /\ \A i \in DOMAIN queue : i = 1 \/ (i - 1 \in DOMAIN queue' /\ queue'[i - 1] = queue[i])
    BY <1>q, <2>2, <2>3
  <2>5. /\ cons'[k] = queue[1] /\ \A l \in Consumers : l # k => cons'[l] = cons[l]
    BY <1>0, <2>1, <2>3 DEF QueueType
  <2>6. QueueType'
    BY <1>0, <2>1, <2>2 DEF QueueType
  <2>7. OnlyUnanswered'
    <3>1. \A i \in DOMAIN queue' : chan'[queue'[i]] = "empty"
      BY <1>0, <2>1, <2>2, <2>4 DEF OnlyUnanswered
    <3>2. \A l \in Consumers : cons'[l] # NoPacket => chan'[cons'[l]] = "empty"
      BY <1>0, <2>1, <2>4, <2>5 DEF OnlyUnanswered
    <3>. QED
      BY <3>1, <3>2 DEF OnlyUnanswered
  <2>8. NotTwice'
    <3>1. ASSUME NEW i \in DOMAIN queue', NEW j \in DOMAIN queue', queue'[i] = queue'[j]
          PROVE  i = j
      <4>1. i + 1 = j + 1
        BY <1>0, <2>2, <2>4, <3>1 DEF NotTwice
      <4>. QED
        BY <1>q, <2>2, <4>1
    <3>2. \A l, m \in Consumers : cons'[l] # NoPacket /\ cons'[l] = cons'[m] => l = m
      BY <1>0, <2>4, <2>5 DEF NotTwice
    <3>3. ASSUME NEW i \in DOMAIN queue', NEW l \in Consumers PROVE queue'[i] # cons'[l]
      <4>1. queue'[i] = queue[i + 1] /\ i + 1 \in DOMAIN queue /\ i + 1 # 1
        BY <2>2, <2>4
      <4>. QED
        BY <1>0, <2>4, <2>5, <4>1 DEF NotTwice
    <3>. QED
      BY <3>1, <3>2, <3>3 DEF NotTwice
  <2>9. NotDropped'
    <3>. SUFFICES ASSUME NEW r \in Requests, chan[r] = "empty"
                  PROVE  (\E i \in DOMAIN queue' : queue'[i] = r) \/ (\E l \in Consumers : cons'[l] = r)
      BY <2>1 DEF NotDropped
    <3>1. CASE \E i \in DOMAIN queue : queue[i] = r
      BY <2>4, <2>5, <3>1
    <3>2. CASE \E l \in Consumers : cons[l] = r
      BY <1>0, <2>1, <2>5, <3>2
    <3>. QED
      BY <1>0, <3>1, <3>2 DEF NotDropped
  <2>10. Handled'
    BY <1>0, <2>1 DEF Handled
  <2>. QED
    BY <2>6, <2>7, <2>8, <2>9, <2>10 DEF QueueInv
<1>8. ASSUME NEW k \in Consumers, process_packet(k) PROVE QueueInv'
  <2>. DEFINE r == cons[k]
  <2>1. /\ r # NoPacket /\ r \in Requests
        /\ cons' = [cons EXCEPT ![k] = NoPacket]
        /\ form' = form /\ pc' = pc /\ queue' = queue
    BY <1>0, <1>8 DEF process_packet, QueueType
  <2>2. PICK a \in {"gone", "late", "full"} :
          /\ chan' = [chan EXCEPT ![r] = a]
          /\ pc[r] \in {"checked", "elapsed"} => a # "full"
    BY <1>8 DEF process_packet, Over
  <2>3. chan[r] = "empty"
    BY <1>0, <2>1 DEF OnlyUnanswered
  <2>. HIDE DEF r
  <2>4. /\ \A i \in DOMAIN queue : queue[i] # r
        /\ \A l \in Consumers : l # k => cons[l] # r
    BY <1>0, <2>1 DEF NotTwice, r
  <2>5. cons'[k] = NoPacket /\ \A l \in Consumers : l # k => cons'[l] = cons[l]
    BY <1>0, <2>1 DEF QueueType
  <2>6. chan'[r] = a /\ \A s \in Requests : s # r => chan'[s] = chan[s]
    BY <1>0, <2>1, <2>2 DEF QueueType
  <2>7. QueueType'
    BY <1>0, <2>1, <2>2 DEF QueueType
  <2>8. OnlyUnanswered'
    <3>1. \A i \in DOMAIN queue' : chan'[queue'[i]] = "empty"
      BY <1>0, <1>q, <2>1, <2>4, <2>6 DEF OnlyUnanswered
    <3>2. \A l \in Consumers : cons'[l] # NoPacket => chan'[cons'[l]] = "empty"
      BY <1>0, <2>4, <2>5, <2>6 DEF OnlyUnanswered, QueueType
    <3>. QED
      BY <3>1, <3>2 DEF OnlyUnanswered
  <2>9. NotTwice'
    <3>1. \A l, m \in Consumers : cons'[l] # NoPacket /\ cons'[l] = cons'[m] => l = m
      BY <1>0, <2>5 DEF NotTwice
    <3>2. \A i \in DOMAIN queue', l \in Consumers : queue'[i] # cons'[l]
      BY <1>0, <1>q, <2>1, <2>5 DEF NotTwice
    <3>. QED
      BY <1>0, <2>1, <3>1, <3>2 DEF NotTwice
  <2>10. NotDropped'
    <3>. SUFFICES ASSUME NEW s \in Requests, chan'[s] = "empty"
                  PROVE  (\E i \in DOMAIN queue' : queue'[i] = s) \/ (\E l \in Consumers : cons'[l] = s)
      BY DEF NotDropped
    <3>1. s # r /\ chan[s] = "empty"
      BY <2>6
    <3>. QED
      BY <1>0, <2>1, <2>5, <3>1 DEF NotDropped, r
  <2>11. Handled'
    BY <1>0, <2>1, <2>2, <2>3, <2>6 DEF Handled
  <2>. QED
    BY <2>7, <2>8, <2>9, <2>10, <2>11 DEF QueueInv
<1>. QED
  BY <1>1, <1>2, <1>3, <1>4, <1>5, <1>6, <1>7, <1>8 DEF QueueNext, QueueIdle

\* Every unanswered packet is in exactly one place, the queue or one consumer.
LEMMA QueueOnce == QueueInv => PacketOnce
<1>. SUFFICES ASSUME QueueInv, NEW r \in Requests
     PROVE LET places == {<<"queue", i>> : i \in {j \in DOMAIN queue : queue[j] = r}}
                         \cup {<<"task", k>> : k \in {j \in Consumers : cons[j] = r}}
           IN  IF chan[r] = "empty" THEN \E p \in places : places = {p} ELSE places = {}
  BY DEF PacketOnce
<1>. DEFINE places == {<<"queue", i>> : i \in {j \in DOMAIN queue : queue[j] = r}}
                      \cup {<<"task", k>> : k \in {j \in Consumers : cons[j] = r}}
<1>0. OnlyUnanswered /\ NotTwice /\ NotDropped /\ r # NoPacket
  BY QueueAssumption DEF QueueInv, QueueAssumption
<1>1. CASE chan[r] # "empty"
  <2>1. (\A i \in DOMAIN queue : queue[i] # r) /\ (\A k \in Consumers : cons[k] # r)
    BY <1>0, <1>1 DEF OnlyUnanswered
  <2>2. places = {}
    BY <2>1
  <2>. QED
    BY <1>1, <2>2
<1>2. CASE \E i \in DOMAIN queue : queue[i] = r
  <2>1. PICK i \in DOMAIN queue : queue[i] = r
    BY <1>2
  <2>2. (\A j \in DOMAIN queue : queue[j] = r => j = i) /\ (\A k \in Consumers : cons[k] # r)
    BY <1>0, <2>1 DEF NotTwice
  <2>3. places = {<<"queue", i>>}
    BY <2>1, <2>2
  <2>4. chan[r] = "empty"
    BY <1>0, <2>1 DEF OnlyUnanswered
  <2>. QED
    BY <2>3, <2>4
<1>3. CASE \E k \in Consumers : cons[k] = r
  <2>1. PICK k \in Consumers : cons[k] = r
    BY <1>3
  <2>2. (\A l \in Consumers : cons[l] = r => l = k) /\ (\A i \in DOMAIN queue : queue[i] # r)
    BY <1>0, <2>1 DEF NotTwice
  <2>3. places = {<<"task", k>>}
    BY <2>1, <2>2
  <2>4. chan[r] = "empty"
    BY <1>0, <2>1 DEF OnlyUnanswered
  <2>. QED
    BY <2>3, <2>4
<1>. QED
  BY <1>0, <1>1, <1>2, <1>3 DEF NotDropped

\* QueueInv is an invariant of the tasks together.
LEMMA QueueCorrect == Spec => []QueueInv
<1>1. Init => QueueInv
  BY QueueInvInit DEF Init
<1>2. QueueInv /\ [Next]_vars => QueueInv'
  BY QueueInvNext DEF Next, vars
<1>. QED
  BY <1>1, <1>2, PTL DEF Spec

\* No packet is popped twice, answered twice or forgotten, for any number of handlers and
\* consumers.
THEOREM PacketHandledOnce == Spec => []PacketOnce
<1>. QED
  BY QueueCorrect, QueueOnce, PTL

\* A handler whose five seconds end never throws away an answer it could have seen.
THEOREM AnswerWins == Spec => []AnswerBeatsTimeout
<1>1. QueueInv => AnswerBeatsTimeout
  BY DEF QueueInv, Handled, AnswerBeatsTimeout
<1>. QED
  BY <1>1, QueueCorrect, PTL
=============================================================================
