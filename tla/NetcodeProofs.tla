--------------------------- MODULE NetcodeProofs ---------------------------
(***************************************************************************)
(* The netcode connection, for any clients, tokens and limits, and the     *)
(* replay protection of its packets, for every size of the window.         *)
(*                                                                         *)
(* A frame of the server reads any number of packets, one after the other, *)
(* and its tables disagree in the middle of it.  Sound says how much they  *)
(* may: every packet keeps it, and draining the callbacks leaves nothing   *)
(* to disagree about.  Trusted follows the tokens from the response that   *)
(* was accepted to the keep-alive that tells the client.                   *)
(***************************************************************************)
EXTENDS Netcode, ReplayProtection, CommonLemmas, FiniteSetTheorems, SequenceTheorems

-----------------------------------------------------------------------------
(* Packets that are read one after the other.  A step that keeps a set of states   *)
(* keeps it however many packets a frame reads.                                     *)

\* What every packet from a socket keeps, the frame's packets keep.
LEMMA UdpReadsStays ==
    ASSUME NEW S, NEW s \in S, NEW b, NEW n \in Nat, n = Len(b),
           \A x \in S : \A k \in 1 .. n : UdpReceive(x, b[k]) \in S
    PROVE  UdpReads(s, b) \in S
<1> DEFINE After(f) == [k \in 0 .. n |-> IF k = 0 THEN s ELSE UdpReceive(f[k - 1], b[k])]
           step == [k \in 1 .. n |-> [x \in S |-> UdpReceive(x, b[k])]]
           run == CHOOSE f : f = After(f)
<1>1. n \in Nat /\ s \in S /\ step \in [1 .. n -> [S -> S]]
  OBVIOUS
<1>2. PICK f \in [0 .. n -> S] : f[0] = s /\ \A k \in 1 .. n : f[k] = step[k][f[k - 1]]
  <2> HIDE DEF step
  <2> QED  BY ONLY <1>1, RunExists
<1>3. f = After(f)
  <2>1. ASSUME NEW k \in 1 .. n PROVE f[k] = UdpReceive(f[k - 1], b[k])
    <3>1. f[k - 1] \in S
      OBVIOUS
    <3>2. f[k] = step[k][f[k - 1]]
      BY <1>2
    <3> QED  BY <3>1, <3>2
  <2> QED  BY <1>2, <2>1
<1>4. run = After(run)
  <2> HIDE DEF After
  <2> QED  BY <1>3
<1>5. run[0] = s
  <2> HIDE DEF run
  <2> QED  BY <1>4
<1>6. ASSUME NEW k \in 1 .. n, run[k - 1] \in S PROVE run[k] \in S
  <2>1. k \in 0 .. n /\ k # 0
    OBVIOUS
  <2>2. run[k] = UdpReceive(run[k - 1], b[k])
    <3> HIDE DEF run
    <3> QED  BY <1>4, <2>1
  <2> QED  BY <2>2, <1>6
<1>7. run[n] \in S
  <2> HIDE DEF run
  <2> QED  BY <1>5, <1>6, RunStays
<1>8. UdpReads(s, b) = run[n]
  BY DEF UdpReads
<1> QED  BY <1>7, <1>8

\* What every packet from a link keeps, the frame's packets keep.
LEMMA ProcessInboxStays ==
    ASSUME NEW S, NEW s \in S, NEW n \in Nat, n = Len(s.inbox),
           \A x \in S : \A k \in 1 .. n : ProcessPacket(x, s.inbox[k][1], s.inbox[k][2]) \in S
    PROVE  ProcessInbox(s) \in S
<1> DEFINE After(f) == [k \in 0 .. n |-> IF k = 0 THEN s ELSE ProcessPacket(f[k - 1], s.inbox[k][1], s.inbox[k][2])]
           step == [k \in 1 .. n |-> [x \in S |-> ProcessPacket(x, s.inbox[k][1], s.inbox[k][2])]]
           run == CHOOSE f : f = After(f)
<1>1. n \in Nat /\ s \in S /\ step \in [1 .. n -> [S -> S]]
  OBVIOUS
<1>2. PICK f \in [0 .. n -> S] : f[0] = s /\ \A k \in 1 .. n : f[k] = step[k][f[k - 1]]
  <2> HIDE DEF step
  <2> QED  BY ONLY <1>1, RunExists
<1>3. f = After(f)
  <2>1. ASSUME NEW k \in 1 .. n PROVE f[k] = ProcessPacket(f[k - 1], s.inbox[k][1], s.inbox[k][2])
    <3>1. f[k - 1] \in S
      OBVIOUS
    <3>2. f[k] = step[k][f[k - 1]]
      BY <1>2
    <3> QED  BY <3>1, <3>2
  <2> QED  BY <1>2, <2>1
<1>4. run = After(run)
  <2> HIDE DEF After
  <2> QED  BY <1>3
<1>5. run[0] = s
  <2> HIDE DEF run
  <2> QED  BY <1>4
<1>6. ASSUME NEW k \in 1 .. n, run[k - 1] \in S PROVE run[k] \in S
  <2>1. k \in 0 .. n /\ k # 0
    OBVIOUS
  <2>2. run[k] = ProcessPacket(run[k - 1], s.inbox[k][1], s.inbox[k][2])
    <3> HIDE DEF run
    <3> QED  BY <1>4, <2>1
  <2> QED  BY <2>2, <1>6
<1>7. run[n] \in S
  <2> HIDE DEF run
  <2> QED  BY <1>5, <1>6, RunStays
<1>8. ProcessInbox(s) = run[n]
  BY DEF ProcessInbox
<1> QED  BY <1>7, <1>8

\* What every packet a client reads keeps, the frame's packets keep.
LEMMA ClientReadsStays ==
    ASSUME NEW S, NEW s \in S, NEW b, NEW n \in Nat, n = Len(b),
           \A x \in S : \A k \in 1 .. n : ClientProcess(x, b[k]) \in S
    PROVE  ClientReads(s, b) \in S
<1> DEFINE After(f) == [k \in 0 .. n |-> IF k = 0 THEN s ELSE ClientProcess(f[k - 1], b[k])]
           step == [k \in 1 .. n |-> [x \in S |-> ClientProcess(x, b[k])]]
           run == CHOOSE f : f = After(f)
<1>1. n \in Nat /\ s \in S /\ step \in [1 .. n -> [S -> S]]
  OBVIOUS
<1>2. PICK f \in [0 .. n -> S] : f[0] = s /\ \A k \in 1 .. n : f[k] = step[k][f[k - 1]]
  <2> HIDE DEF step
  <2> QED  BY ONLY <1>1, RunExists
<1>3. f = After(f)
  <2>1. ASSUME NEW k \in 1 .. n PROVE f[k] = ClientProcess(f[k - 1], b[k])
    <3>1. f[k - 1] \in S
      OBVIOUS
    <3>2. f[k] = step[k][f[k - 1]]
      BY <1>2
    <3> QED  BY <3>1, <3>2
  <2> QED  BY <1>2, <2>1
<1>4. run = After(run)
  <2> HIDE DEF After
  <2> QED  BY <1>3
<1>5. run[0] = s
  <2> HIDE DEF run
  <2> QED  BY <1>4
<1>6. ASSUME NEW k \in 1 .. n, run[k - 1] \in S PROVE run[k] \in S
  <2>1. k \in 0 .. n /\ k # 0
    OBVIOUS
  <2>2. run[k] = ClientProcess(run[k - 1], b[k])
    <3> HIDE DEF run
    <3> QED  BY <1>4, <2>1
  <2> QED  BY <2>2, <1>6
<1>7. run[n] \in S
  <2> HIDE DEF run
  <2> QED  BY <1>5, <1>6, RunStays
<1>8. ClientReads(s, b) = run[n]
  BY DEF ClientReads
<1> QED  BY <1>7, <1>8

-----------------------------------------------------------------------------
(* Types. *)

Conns == {NoConn} \cup [state : {"Pending", "Connected"}, cid : Ids, entity : Links, tok : Tokens]
Marks == [id : Ids \cup {None}, state : {"Unused", "Linked", "Connecting", "Connected", "Gone"}]

\* The states of the server within a frame.
Frames ==
    [clients : [Ids -> Conns], idMap : [Links -> Ids \cup {None}], queue : [Links -> SUBSET Packets],
     link : [Clients -> Links \cup {NoLink}], mark : [Links -> Marks],
     peerMap : [Ids -> Links \cup {NoLink}], accepted : SUBSET Tokens,
     connections : SUBSET (Ids \X Links), disconnections : SUBSET (Ids \X Links),
     spawning : SUBSET Clients, inbox : Seq(Links \X Packets)]

\* Tokens have one owner.
LEMMA TokensAre ==
    /\ \A t \in Tokens : Owner(t) \in Clients /\ t \in TokensOf[Owner(t)] /\ IdOf[t] \in Ids
    /\ \A c \in Clients : \A t \in TokensOf[c] : t \in Tokens /\ Owner(t) = c
<1>1. ASSUME NEW t \in Tokens PROVE Owner(t) \in Clients /\ t \in TokensOf[Owner(t)] /\ IdOf[t] \in Ids
  BY DEF Owner, Tokens, Ids
<1>2. ASSUME NEW c \in Clients, NEW t \in TokensOf[c] PROVE t \in Tokens /\ Owner(t) = c
  <2>1. t \in Tokens
    BY DEF Tokens
  <2> QED  BY <2>1, <1>1, NetcodeAssumption
<1> QED  BY <1>1, <1>2

\* What the values that stand for nothing are not.
LEMMA ConstantsAre ==
    /\ None \notin Ids /\ NoLink \notin Links /\ Links \subseteq Nat /\ MaxClients \in Nat
    /\ \A c \in Conns : c # NoConn => c.cid \in Ids /\ c.entity \in Links /\ c.tok \in Tokens
    /\ \A c \in Conns : c.state = "Connected" \/ c.state = "Pending" => c # NoConn
    /\ \A c \in Conns : c # NoConn => c.state = "Connected" \/ c.state = "Pending"
    /\ Unused \in Marks /\ Gone \in Marks /\ NoConn \in Conns
BY NetcodeAssumption DEF Links, NoLink, Conns, NoConn, Unused, Gone, Marks, None

\* The types of the fields of a frame.
LEMMA FrameHas ==
    ASSUME NEW s \in Frames
    PROVE  /\ s.clients \in [Ids -> Conns] /\ s.idMap \in [Links -> Ids \cup {None}]
           /\ s.queue \in [Links -> SUBSET Packets] /\ s.link \in [Clients -> Links \cup {NoLink}]
           /\ s.mark \in [Links -> Marks] /\ s.peerMap \in [Ids -> Links \cup {NoLink}]
           /\ s.accepted \subseteq Tokens /\ s.connections \subseteq Ids \X Links
           /\ s.disconnections \subseteq Ids \X Links /\ s.spawning \subseteq Clients
           /\ s.inbox \in Seq(Links \X Packets)
BY DEF Frames

\* The connection found under a link.
LEMMA FindIs ==
    ASSUME NEW s \in Frames, NEW e \in Links
    PROVE  /\ Find(s, e) \in Conns
           /\ Find(s, e) # NoConn => s.idMap[e] \in Ids /\ Find(s, e) = s.clients[s.idMap[e]]
           /\ s.idMap[e] = None => Find(s, e) = NoConn
BY FrameHas, ConstantsAre DEF Find

\* A frame with some fields changed.
LEMMA FrameWith ==
    ASSUME NEW s \in Frames
    PROVE  /\ \A x \in [Ids -> Conns], y \in [Links -> Ids \cup {None}] :
                 [s EXCEPT !.clients = x, !.idMap = y] \in Frames
           /\ \A x \in [Links -> SUBSET Packets] : [s EXCEPT !.queue = x] \in Frames
           /\ \A x \in [Links -> Marks] : [s EXCEPT !.mark = x] \in Frames
           /\ \A x \in [Links -> Marks], y \in [Ids -> Links \cup {NoLink}] :
                 [s EXCEPT !.mark = x, !.peerMap = y] \in Frames
BY DEF Frames

\* Two frames that differ in the queue of packets to send only.
OnlyQueued(s, r) ==
    /\ r.clients = s.clients /\ r.idMap = s.idMap /\ r.link = s.link /\ r.mark = s.mark
    /\ r.peerMap = s.peerMap /\ r.accepted = s.accepted /\ r.connections = s.connections
    /\ r.disconnections = s.disconnections /\ r.spawning = s.spawning /\ r.inbox = s.inbox

\* Queueing a packet changes the queue of its link only.
LEMMA QueueToIs ==
    ASSUME NEW s \in Frames, NEW e \in Links, NEW kind, NEW t, Packet("client", kind, t) \in Packets
    PROVE  LET r == QueueTo(s, e, kind, t)
           IN  /\ r \in Frames /\ OnlyQueued(s, r)
               /\ r.queue = [s.queue EXCEPT ![e] = @ \cup {Packet("client", kind, t)}]
<1> DEFINE q == [s.queue EXCEPT ![e] = @ \cup {Packet("client", kind, t)}]
           r == QueueTo(s, e, kind, t)
<1>1. q \in [Links -> SUBSET Packets]
  BY FrameHas
<1>2. r = [s EXCEPT !.queue = q]
  BY DEF QueueTo
<1> HIDE DEF q
<1>3. r \in Frames
  BY <1>1, <1>2, FrameWith
<1>4. OnlyQueued(s, r) /\ r.queue = q
  <2> HIDE DEF r
  <2> QED  BY <1>2 DEF Frames, OnlyQueued
<1> QED  BY <1>3, <1>4 DEF q
-----------------------------------------------------------------------------
(* What the server does with a packet, as relations between two states of a frame. *)

SameSockets(s, r) == r.link = s.link /\ r.spawning = s.spawning /\ r.inbox = s.inbox /\ r.peerMap = s.peerMap

Queues(s, r, e, kind, t) == r.queue = [s.queue EXCEPT ![e] = @ \cup {Packet("client", kind, t)}]

Denies(s, r, e, t) == OnlyQueued(s, r) /\ Queues(s, r, e, "Denied", t)

\* A request is challenged: its connection is pending, and its link connecting.
Asked(s, r, t, e) ==
    /\ Find(s, e).state # "Connected" /\ IdOf[t] \notin Connected(s)
    /\ IF Find(s, e) # NoConn
       THEN /\ r.clients = [s.clients EXCEPT ![s.idMap[e]] = [@ EXCEPT !.cid = IdOf[t], !.tok = t]]
            /\ r.idMap = s.idMap
       ELSE /\ r.clients = [s.clients EXCEPT ![IdOf[t]] =
                               [state |-> "Pending", cid |-> IdOf[t], entity |-> e, tok |-> t]]
            /\ r.idMap = [s.idMap EXCEPT ![e] = IdOf[t]]
    /\ r.mark = [s.mark EXCEPT ![e] = [state |-> "Connecting", id |-> @.id]]
    /\ Queues(s, r, e, "Challenge", t)
    /\ SameSockets(s, r) /\ r.accepted = s.accepted
    /\ r.connections = s.connections /\ r.disconnections = s.disconnections

\* A challenge is answered: the connection is connected.
Answered(s, r, t, e) ==
    /\ s.clients[IdOf[t]].state = "Pending" /\ ~ (Cardinality(Connected(s)) >= MaxClients)
    /\ r.clients = [s.clients EXCEPT ![IdOf[t]] = [@ EXCEPT !.state = "Connected"]]
    /\ r.idMap = s.idMap /\ r.mark = s.mark
    /\ Queues(s, r, e, "KeepAlive", s.clients[IdOf[t]].tok)
    /\ SameSockets(s, r) /\ r.accepted = s.accepted \cup {t}
    /\ r.connections = s.connections \cup {<<IdOf[t], e>>} /\ r.disconnections = s.disconnections

\* A client leaves; its connection is removed if it was connected.
Left(s, r, e) ==
    LET i == Find(s, e).cid
    IN  /\ IF i \in Connected(s)
           THEN /\ r.clients = [s.clients EXCEPT ![i] = NoConn]
                /\ r.idMap = [s.idMap EXCEPT ![s.clients[i].entity] = None]
           ELSE r.clients = s.clients /\ r.idMap = s.idMap
        /\ r.mark = s.mark /\ r.queue = s.queue
        /\ SameSockets(s, r) /\ r.accepted = s.accepted
        /\ r.connections = s.connections /\ r.disconnections = s.disconnections \cup {<<i, e>>}

\* A connection whose fields are rewritten is a connection.
LEMMA ConnWith ==
    ASSUME NEW c \in Conns, c # NoConn
    PROVE  /\ \A i \in Ids, t \in Tokens : [c EXCEPT !.cid = i, !.tok = t] \in Conns
           /\ [c EXCEPT !.state = "Connected"] \in Conns
<1>1. c \in [state : {"Pending", "Connected"}, cid : Ids, entity : Links, tok : Tokens]
  BY DEF Conns
<1> QED  BY <1>1 DEF Conns

\* Server::process_connection_request: it ignores, denies or asks.
LEMMA RequestIs ==
    ASSUME NEW s \in Frames, NEW e \in Links, NEW t \in Tokens
    PROVE  LET r == ProcessRequest(s, t, e)
           IN  r \in Frames /\ (r = s \/ Denies(s, r, e, t) \/ Asked(s, r, t, e))
<1> DEFINE r == ProcessRequest(s, t, e)
<1>1. Packet("client", "Denied", t) \in Packets /\ Packet("client", "Challenge", t) \in Packets
  BY DEF Packet, Packets
<1>2. CASE Find(s, e).state = "Connected" \/ IdOf[t] \in Connected(s)
  BY <1>2 DEF ProcessRequest
<1>3. CASE /\ ~ (Find(s, e).state = "Connected" \/ IdOf[t] \in Connected(s))
           /\ Cardinality(Connected(s)) >= MaxClients \/ IdOf[t] \in Refused
  <2>1. r = QueueTo(s, e, "Denied", t)
    BY <1>3 DEF ProcessRequest
  <2> QED  BY <2>1, <1>1, QueueToIs DEF Denies, Queues
<1>4. CASE /\ ~ (Find(s, e).state = "Connected" \/ IdOf[t] \in Connected(s))
           /\ ~ (Cardinality(Connected(s)) >= MaxClients \/ IdOf[t] \in Refused)
  <2> DEFINE q == QueueTo(s, e, "Challenge", t)
             a == AddConnection(q, t, e)
             m == [q.mark EXCEPT ![e] = [state |-> "Connecting", id |-> @.id]]
             c == IF Find(s, e) # NoConn
                  THEN [s.clients EXCEPT ![s.idMap[e]] = [@ EXCEPT !.cid = IdOf[t], !.tok = t]]
                  ELSE [s.clients EXCEPT ![IdOf[t]] =
                               [state |-> "Pending", cid |-> IdOf[t], entity |-> e, tok |-> t]]
             d == IF Find(s, e) # NoConn THEN s.idMap ELSE [s.idMap EXCEPT ![e] = IdOf[t]]
  <2>1. r = [a EXCEPT !.mark[e] = [state |-> "Connecting", id |-> @.id]]
    BY <1>4 DEF ProcessRequest
  <2>2. q \in Frames /\ OnlyQueued(s, q) /\ Queues(s, q, e, "Challenge", t)
    BY <1>1, QueueToIs DEF Queues
  <2> HIDE DEF q
  <2>3. Find(q, e) = Find(s, e)
    BY <2>2 DEF OnlyQueued, Find
  <2>4. IdOf[t] \in Ids
    BY TokensAre
  <2>5. c \in [Ids -> Conns]
    <3>1. CASE Find(s, e) # NoConn
      <4>1. s.idMap[e] \in Ids /\ s.clients[s.idMap[e]] = Find(s, e)
        BY <3>1, FindIs
      <4>2. [s.clients[s.idMap[e]] EXCEPT !.cid = IdOf[t], !.tok = t] \in Conns
        BY <3>1, <4>1, <2>4, FrameHas, ConnWith
      <4> QED  BY <3>1, <4>1, <4>2, FrameHas
    <3>2. CASE Find(s, e) = NoConn
      <4>1. [state |-> "Pending", cid |-> IdOf[t], entity |-> e, tok |-> t] \in Conns
        BY <2>4 DEF Conns
      <4> QED  BY <3>2, <4>1, <2>4, FrameHas
    <3> QED  BY <3>1, <3>2
  <2>6. d \in [Links -> Ids \cup {None}]
    BY <2>4, FrameHas
  <2>7. a = [q EXCEPT !.clients = c, !.idMap = d]
    <3>1. CASE Find(s, e) # NoConn
      <4>1. a = [q EXCEPT !.clients[q.idMap[e]] = [@ EXCEPT !.cid = IdOf[t], !.tok = t]]
        BY <3>1, <2>3 DEF AddConnection
      <4>2. q.idMap = s.idMap /\ q.clients = s.clients
        BY <2>2 DEF OnlyQueued
      <4> QED  BY <3>1, <4>1, <4>2, <2>2 DEF Frames
    <3>2. CASE Find(s, e) = NoConn
      <4>1. q.idMap = s.idMap /\ q.clients = s.clients
        BY <2>2 DEF OnlyQueued
      <4> QED  BY <3>2, <2>3, <4>1, <2>2 DEF AddConnection, Frames
    <3> QED  BY <3>1, <3>2
  <2>8. m \in [Links -> Marks]
    BY <2>2, FrameHas DEF Marks
  <2> HIDE DEF c, d, m, a
  <2>9. a \in Frames /\ a.clients = c /\ a.idMap = d /\ a.mark = q.mark
    <3>1. a \in Frames
      BY <2>2, <2>5, <2>6, <2>7, FrameWith
    <3> QED  BY <2>2, <2>7, <3>1 DEF Frames
  <2>10. r = [a EXCEPT !.mark = m]
    BY <2>1, <2>9 DEF m
  <2> HIDE DEF r
  <2>11. r \in Frames /\ r.mark = m /\ r.clients = c /\ r.idMap = d
    <3>1. r \in Frames
      BY <2>8, <2>9, <2>10, FrameWith
    <3> QED  BY <2>9, <2>10, <3>1 DEF Frames
  <2>12. /\ r.queue = q.queue /\ r.link = q.link /\ r.spawning = q.spawning /\ r.inbox = q.inbox
         /\ r.peerMap = q.peerMap /\ r.accepted = q.accepted /\ r.connections = q.connections
         /\ r.disconnections = q.disconnections
    BY <2>2, <2>7, <2>10 DEF Frames
  <2>13. SameSockets(s, r) /\ r.accepted = s.accepted /\ r.connections = s.connections
         /\ r.disconnections = s.disconnections /\ Queues(s, r, e, "Challenge", t)
    BY <2>2, <2>12 DEF SameSockets, OnlyQueued, Queues
  <2>14. r.mark = [s.mark EXCEPT ![e] = [state |-> "Connecting", id |-> @.id]]
    BY <2>2, <2>11 DEF OnlyQueued, m
  <2>15. Find(s, e).state # "Connected" /\ IdOf[t] \notin Connected(s)
    BY <1>4
  <2>16. Asked(s, r, t, e)
    <3>1. CASE Find(s, e) # NoConn
      BY <3>1, <2>11, <2>13, <2>14, <2>15 DEF Asked, c, d
    <3>2. CASE Find(s, e) = NoConn
      BY <3>2, <2>11, <2>13, <2>14, <2>15 DEF Asked, c, d
    <3> QED  BY <3>1, <3>2
  <2> QED  BY <2>11, <2>16 DEF r
<1> QED  BY <1>2, <1>3, <1>4

\* Server::process_connection_response: it ignores, denies or connects.
LEMMA ResponseIs ==
    ASSUME NEW s \in Frames, NEW e \in Links, NEW t \in Tokens
    PROVE  LET r == ProcessResponse(s, t, e)
           IN  r \in Frames /\ (r = s \/ Denies(s, r, e, s.clients[IdOf[t]].tok) \/ Answered(s, r, t, e))
<1> DEFINE r == ProcessResponse(s, t, e)
           i == IdOf[t]
           u == s.clients[i].tok
<1>1. CASE s.clients[i].state # "Pending"
  BY <1>1 DEF ProcessResponse
<1>2. ASSUME s.clients[i].state = "Pending" PROVE r \in Frames /\ (Denies(s, r, e, u) \/ Answered(s, r, t, e))
  <2>1. i \in Ids /\ s.clients[i] \in Conns /\ s.clients[i] # NoConn /\ u \in Tokens
    BY <1>2, TokensAre, FrameHas, ConstantsAre
  <2>2. Packet("client", "Denied", u) \in Packets /\ Packet("client", "KeepAlive", u) \in Packets
    BY <2>1 DEF Packet, Packets
  <2>3. CASE Cardinality(Connected(s)) >= MaxClients
    <3>1. r = QueueTo(s, e, "Denied", u)
      BY <1>2, <2>3 DEF ProcessResponse
    <3> QED  BY <3>1, <2>2, QueueToIs DEF Denies, Queues
  <2>4. CASE ~ (Cardinality(Connected(s)) >= MaxClients)
    <3> DEFINE q == QueueTo(s, e, "KeepAlive", u)
               c == [s.clients EXCEPT ![i] = [@ EXCEPT !.state = "Connected"]]
    <3>1. r = [q EXCEPT !.clients[i].state = "Connected",
                        !.connections = @ \cup {<<i, e>>}, !.accepted = @ \cup {t}]
      BY <1>2, <2>4 DEF ProcessResponse
    <3>2. q \in Frames /\ OnlyQueued(s, q) /\ Queues(s, q, e, "KeepAlive", u)
      BY <2>2, QueueToIs DEF Queues
    <3>3. c \in [Ids -> Conns]
      BY <2>1, ConnWith, FrameHas
    <3> HIDE DEF q
    <3>4. r = [q EXCEPT !.clients = c,
                        !.connections = @ \cup {<<i, e>>}, !.accepted = @ \cup {t}]
      BY <3>1, <3>2 DEF OnlyQueued, Frames
    <3> HIDE DEF c, r
    <3>5. r \in Frames
      <4>1. q.connections \cup {<<i, e>>} \in SUBSET (Ids \X Links) /\ q.accepted \cup {t} \in SUBSET Tokens
        BY <2>1, <3>2, FrameHas
      <4> QED  BY <3>2, <3>3, <3>4, <4>1 DEF Frames
    <3>6. /\ r.clients = c /\ r.connections = q.connections \cup {<<i, e>>}
          /\ r.accepted = q.accepted \cup {t}
          /\ r.queue = q.queue /\ r.link = q.link /\ r.spawning = q.spawning /\ r.inbox = q.inbox
          /\ r.peerMap = q.peerMap /\ r.disconnections = q.disconnections /\ r.mark = q.mark
          /\ r.idMap = q.idMap
      BY <3>2, <3>4 DEF Frames
    <3>7. SameSockets(s, r) /\ Queues(s, r, e, "KeepAlive", u)
      BY <3>2, <3>6 DEF SameSockets, OnlyQueued, Queues
    <3>8. Answered(s, r, t, e)
      BY <1>2, <2>4, <3>2, <3>6, <3>7 DEF Answered, OnlyQueued, c
    <3> QED  BY <3>5, <3>8 DEF r
  <2> QED  BY <2>3, <2>4
<1> QED  BY <1>1, <1>2

\* The Disconnect arm of Server::process_packet removes what is connected under the link.
LEMMA DisconnectIs ==
    ASSUME NEW s \in Frames, NEW e \in Links, Find(s, e) # NoConn
    PROVE  LET r == ProcessDisconnect(s, e)
           IN  r \in Frames /\ Left(s, r, e)
<1> DEFINE r == ProcessDisconnect(s, e)
           i == Find(s, e).cid
           q == [s EXCEPT !.disconnections = @ \cup {<<i, e>>}]
<1>1. i \in Ids
  BY FindIs, ConstantsAre
<1>2. r = RemoveConnection(q, i)
  BY DEF ProcessDisconnect
<1>3. q \in Frames
  <2>1. s.disconnections \cup {<<i, e>>} \in SUBSET (Ids \X Links)
    BY <1>1, FrameHas
  <2> QED  BY <2>1 DEF Frames
<1>4. /\ q.disconnections = s.disconnections \cup {<<i, e>>}
      /\ q.clients = s.clients /\ q.idMap = s.idMap /\ q.link = s.link /\ q.mark = s.mark /\ q.queue = s.queue
      /\ q.peerMap = s.peerMap /\ q.accepted = s.accepted /\ q.connections = s.connections
      /\ q.spawning = s.spawning /\ q.inbox = s.inbox
  BY DEF Frames
<1>5. Connected(q) = Connected(s)
  BY <1>4 DEF Connected
<1> HIDE DEF q
<1>6. CASE i \notin Connected(s)
  <2>1. r = q
    BY <1>2, <1>5, <1>6 DEF RemoveConnection
  <2> QED  BY <2>1, <1>3, <1>4, <1>6 DEF Left, SameSockets
<1>7. CASE i \in Connected(s)
  <2> DEFINE c == [s.clients EXCEPT ![i] = NoConn]
             d == [s.idMap EXCEPT ![s.clients[i].entity] = None]
  <2>1. r = [q EXCEPT !.idMap[q.clients[i].entity] = None, !.clients[i] = NoConn]
    BY <1>2, <1>5, <1>7 DEF RemoveConnection
  <2>2. r = [q EXCEPT !.clients = c, !.idMap = d]
    BY <2>1, <1>3, <1>4 DEF Frames
  <2>3. c \in [Ids -> Conns] /\ d \in [Links -> Ids \cup {None}]
    BY <1>1, FrameHas, ConstantsAre
  <2> HIDE DEF c, d, r
  <2>4. r \in Frames
    BY <2>2, <2>3, <1>3, FrameWith
  <2>5. /\ r.clients = c /\ r.idMap = d /\ r.link = q.link /\ r.mark = q.mark /\ r.queue = q.queue
        /\ r.peerMap = q.peerMap /\ r.accepted = q.accepted /\ r.connections = q.connections
        /\ r.disconnections = q.disconnections /\ r.spawning = q.spawning /\ r.inbox = q.inbox
    BY <1>3, <2>2 DEF Frames
  <2>6. SameSockets(s, r)
    BY <2>5, <1>4 DEF SameSockets
  <2>7. Left(s, r, e)
    BY <1>4, <1>7, <2>5, <2>6 DEF Left, c, d
  <2> QED  BY <2>4, <2>7 DEF r
<1> QED  BY <1>6, <1>7

\* What the server does with a packet from a link.
LEMMA PacketIs ==
    ASSUME NEW s \in Frames, NEW e \in Links, NEW p \in Packets
    PROVE  LET r == ProcessPacket(s, e, p)
               opened == Find(s, e) # NoConn /\ s.clients[Find(s, e).cid].tok = p.tok
           IN  /\ r \in Frames
               /\ \/ r = s
                  \/ Denies(s, r, e, p.tok)
                  \/ Asked(s, r, p.tok, e)
                  \/ opened /\ Denies(s, r, e, s.clients[IdOf[p.tok]].tok)
                  \/ opened /\ Answered(s, r, p.tok, e)
                  \/ opened /\ Left(s, r, e)
<1> DEFINE r == ProcessPacket(s, e, p)
<1>1. p.tok \in Tokens
  BY DEF Packets
<1>2. CASE p.kind = "Request"
  <2>1. r = ProcessRequest(s, p.tok, e)
    BY <1>2 DEF ProcessPacket
  <2> QED  BY <2>1, <1>1, RequestIs
<1>3. CASE p.kind # "Request" /\ (Find(s, e) = NoConn \/ s.clients[Find(s, e).cid].tok # p.tok)
  BY <1>3 DEF ProcessPacket
<1>4. CASE /\ p.kind # "Request" /\ Find(s, e) # NoConn /\ s.clients[Find(s, e).cid].tok = p.tok
           /\ p.kind = "Response"
  <2>1. r = ProcessResponse(s, p.tok, e)
    BY <1>4 DEF ProcessPacket
  <2> QED  BY <2>1, <1>1, <1>4, ResponseIs
<1>5. CASE /\ p.kind # "Request" /\ Find(s, e) # NoConn /\ s.clients[Find(s, e).cid].tok = p.tok
           /\ p.kind = "Disconnect"
  <2>1. r = ProcessDisconnect(s, e)
    BY <1>5 DEF ProcessPacket
  <2> QED  BY <2>1, <1>5, DisconnectIs
<1>6. CASE /\ p.kind # "Request" /\ Find(s, e) # NoConn /\ s.clients[Find(s, e).cid].tok = p.tok
           /\ p.kind # "Response" /\ p.kind # "Disconnect"
  BY <1>6 DEF ProcessPacket
<1> QED  BY <1>2, <1>3, <1>4, <1>5, <1>6

\* Two states of a frame with the same connections.
SameCache(s, r) ==
    /\ r.clients = s.clients /\ r.idMap = s.idMap /\ r.queue = s.queue /\ r.peerMap = s.peerMap
    /\ r.accepted = s.accepted /\ r.connections = s.connections /\ r.disconnections = s.disconnections

\* The first packet of an unknown address spawns a link.
Spawned(s, r, p, e) ==
    /\ s.link[Owner(p.tok)] = NoLink /\ s.mark[e] = Unused
    /\ r.link = [s.link EXCEPT ![Owner(p.tok)] = e]
    /\ r.mark = [s.mark EXCEPT ![e] = [state |-> "Linked", id |-> None]]
    /\ r.inbox = Append(s.inbox, <<e, p>>)
    /\ SameCache(s, r)

\* The address of a link that is gone is forgotten.
Forgotten(s, r, p) ==
    /\ s.link[Owner(p.tok)] # NoLink /\ s.mark[s.link[Owner(p.tok)]] = Gone
    /\ r.link = [s.link EXCEPT ![Owner(p.tok)] = NoLink]
    /\ r.mark = s.mark /\ r.inbox = s.inbox
    /\ SameCache(s, r)

Received(s, r, p) ==
    /\ s.link[Owner(p.tok)] # NoLink /\ s.mark[s.link[Owner(p.tok)]] # Gone
    /\ r.link = s.link /\ r.mark = s.mark /\ r.inbox = Append(s.inbox, <<s.link[Owner(p.tok)], p>>)
    /\ SameCache(s, r)

\* A datagram is dropped, spawns a link, makes its address forgotten, or is read.
LEMMA UdpReceiveIs ==
    ASSUME NEW s \in Frames, NEW p \in Packets
    PROVE  LET r == UdpReceive(s, p)
           IN  /\ r \in Frames
               /\ r = s \/ (\E e \in Links : Spawned(s, r, p, e)) \/ Forgotten(s, r, p) \/ Received(s, r, p)
<1> DEFINE r == UdpReceive(s, p)
           c == Owner(p.tok)
           fresh == {e \in Links : s.mark[e] = Unused}
           e == s.link[c]
<1>1. c \in Clients /\ e \in Links \cup {NoLink}
  BY TokensAre, FrameHas DEF Packets
<1>2. CASE e = NoLink /\ fresh = {}
  BY <1>2 DEF UdpReceive
<1>3. CASE e = NoLink /\ fresh # {}
  <2> DEFINE new == CHOOSE f \in fresh : \A g \in fresh : f <= g
  <2>1. fresh \subseteq Nat
    BY ConstantsAre
  <2>2. new \in fresh
    <3> HIDE DEF fresh
    <3> QED  BY <2>1, <1>3, LeastOf
  <2>3. r = [s EXCEPT !.link[c] = new, !.mark[new] = [state |-> "Linked", id |-> None],
                      !.spawning = @ \cup {c}, !.inbox = Append(@, <<new, p>>)]
    BY <1>3 DEF UdpReceive
  <2>4. new \in Links /\ s.mark[new] = Unused
    BY <2>2
  <2> HIDE DEF new, fresh
  <2> DEFINE l == [s.link EXCEPT ![c] = new]
             m == [s.mark EXCEPT ![new] = [state |-> "Linked", id |-> None]]
             w == s.spawning \cup {c}
             x == Append(s.inbox, <<new, p>>)
  <2>5. r = [s EXCEPT !.link = l, !.mark = m, !.spawning = w, !.inbox = x]
    BY <2>3 DEF Frames
  <2>6. l \in [Clients -> Links \cup {NoLink}] /\ m \in [Links -> Marks] /\ w \in SUBSET Clients
    BY <2>4, <1>1, FrameHas DEF Marks
  <2>7. x \in Seq(Links \X Packets)
    <3>1. <<new, p>> \in Links \X Packets /\ s.inbox \in Seq(Links \X Packets)
      BY <2>4, FrameHas
    <3> QED  BY <3>1, AppendProperties
  <2> HIDE DEF l, m, w, x, r
  <2>8. r \in Frames
    BY <2>5, <2>6, <2>7 DEF Frames
  <2>9. r.link = l /\ r.mark = m /\ r.inbox = x /\ SameCache(s, r)
    BY <2>5 DEF Frames, SameCache
  <2>10. Spawned(s, r, p, new)
    BY <2>4, <2>9, <1>3 DEF Spawned, l, m, x
  <2> QED  BY <2>4, <2>8, <2>10 DEF r
<1>4. CASE e # NoLink /\ c \in s.spawning
  BY <1>4 DEF UdpReceive
<1>5. CASE e # NoLink /\ c \notin s.spawning /\ s.mark[e] = Gone
  <2> DEFINE l == [s.link EXCEPT ![c] = NoLink]
  <2>1. r = [s EXCEPT !.link = l]
    BY <1>5 DEF UdpReceive
  <2>2. l \in [Clients -> Links \cup {NoLink}]
    BY FrameHas
  <2> HIDE DEF l, r
  <2>3. r \in Frames
    BY <2>1, <2>2 DEF Frames
  <2>4. r.link = l /\ r.mark = s.mark /\ r.inbox = s.inbox /\ SameCache(s, r)
    BY <2>1 DEF Frames, SameCache
  <2> QED  BY <1>5, <2>3, <2>4 DEF Forgotten, l, r
<1>6. CASE e # NoLink /\ c \notin s.spawning /\ s.mark[e] # Gone
  <2> DEFINE x == Append(s.inbox, <<e, p>>)
  <2>1. r = [s EXCEPT !.inbox = x]
    BY <1>6 DEF UdpReceive
  <2>2. x \in Seq(Links \X Packets)
    <3>1. <<e, p>> \in Links \X Packets /\ s.inbox \in Seq(Links \X Packets)
      BY <1>1, <1>6, FrameHas
    <3> QED  BY <3>1, AppendProperties
  <2> HIDE DEF x, r
  <2>3. r \in Frames
    BY <2>1, <2>2 DEF Frames
  <2>4. r.link = s.link /\ r.mark = s.mark /\ r.inbox = x /\ SameCache(s, r)
    BY <2>1 DEF Frames, SameCache
  <2> QED  BY <1>6, <2>3, <2>4 DEF Received, x, r
<1> QED  BY <1>1, <1>2, <1>3, <1>4, <1>5, <1>6

\* Connections that time out are removed.
TimedOut(s, r, late) ==
    /\ r.disconnections = s.disconnections \cup {<<i, s.clients[i].entity>> : i \in late}
    /\ r.idMap = [e \in Links |-> IF \E i \in late : s.clients[i].entity = e THEN None ELSE s.idMap[e]]
    /\ r.clients = [i \in Ids |-> IF i \in late THEN NoConn ELSE s.clients[i]]
    /\ r.queue = s.queue /\ r.link = s.link /\ r.mark = s.mark /\ r.peerMap = s.peerMap
    /\ r.accepted = s.accepted /\ r.connections = s.connections /\ r.inbox = s.inbox

\* What a timeout leaves behind.
LEMMA TimeOutIs ==
    ASSUME NEW s \in Frames, NEW late, late \subseteq Connected(s)
    PROVE  TimeOut(s, late) \in Frames /\ TimedOut(s, TimeOut(s, late), late)
<1> DEFINE r == TimeOut(s, late)
           d == s.disconnections \cup {<<i, s.clients[i].entity>> : i \in late}
           m == [e \in Links |-> IF \E i \in late : s.clients[i].entity = e THEN None ELSE s.idMap[e]]
           c == [i \in Ids |-> IF i \in late THEN NoConn ELSE s.clients[i]]
<1>1. r = [s EXCEPT !.disconnections = d, !.idMap = m, !.clients = c]
  BY DEF TimeOut, Frames
<1>2. d \in SUBSET (Ids \X Links)
  <2>1. ASSUME NEW i \in late PROVE i \in Ids /\ s.clients[i].entity \in Links
    BY FrameHas, ConstantsAre DEF Connected
  <2> QED  BY <2>1, FrameHas
<1>3. m \in [Links -> Ids \cup {None}] /\ c \in [Ids -> Conns]
  BY FrameHas, ConstantsAre
<1> HIDE DEF d, m, c, r
<1>4. r \in Frames
  BY <1>1, <1>2, <1>3 DEF Frames
<1>5. /\ r.disconnections = d /\ r.idMap = m /\ r.clients = c /\ r.queue = s.queue /\ r.link = s.link
      /\ r.mark = s.mark /\ r.peerMap = s.peerMap /\ r.accepted = s.accepted
      /\ r.connections = s.connections /\ r.inbox = s.inbox
  BY <1>1 DEF Frames
<1> QED  BY <1>4, <1>5 DEF TimedOut, d, m, c, r

\* The markers and the peer map after the callbacks of a frame.
NewMark(s, e) ==
    IF \E i \in Ids : <<i, e>> \in s.connections
    THEN [state |-> "Connected", id |-> CHOOSE i \in Ids : <<i, e>> \in s.connections]
    ELSE s.mark[e]

NewPeer(s, i) ==
    IF \E e \in Links : <<i, e>> \in s.connections
    THEN CHOOSE e \in Links : <<i, e>> \in s.connections ELSE s.peerMap[i]

Doomed(s, e) == \E i \in Ids : <<i, e>> \in s.disconnections

\* What the callbacks of a frame leave behind.
LEMMA DrainIs ==
    ASSUME NEW s \in Frames
    PROVE  LET r == Drain(s)
           IN  /\ r \in Frames
               /\ r.mark = [e \in Links |-> IF Doomed(s, e) THEN Gone ELSE NewMark(s, e)]
               /\ r.peerMap = [i \in Ids |-> IF \E e \in Links : Doomed(s, e) /\ NewMark(s, e).id = i
                                             THEN NoLink ELSE NewPeer(s, i)]
               /\ r.clients = s.clients /\ r.idMap = s.idMap /\ r.queue = s.queue /\ r.link = s.link
               /\ r.accepted = s.accepted
<1> DEFINE r == Drain(s)
           n == [e \in Links |-> NewMark(s, e)]
           q == [i \in Ids |-> NewPeer(s, i)]
           m == [s EXCEPT !.mark = n, !.peerMap = q]
           gone == {d[2] : d \in s.disconnections}
           v == [i \in Ids |-> IF \E e \in gone : n[e].id = i THEN NoLink ELSE q[i]]
           w == [e \in Links |-> IF e \in gone THEN Gone ELSE n[e]]
<1>1. n \in [Links -> Marks]
  BY FrameHas DEF NewMark, Marks
<1>2. q \in [Ids -> Links \cup {NoLink}]
  BY FrameHas DEF NewPeer
<1>3. r = Despawn(m, gone)
  BY DEF Drain, NewMark, NewPeer
<1>4. \A e \in Links : e \in gone <=> Doomed(s, e)
  <2>1. ASSUME NEW e \in gone PROVE e \in Links /\ Doomed(s, e)
    <3>1. PICK d \in s.disconnections : e = d[2]
      OBVIOUS
    <3>2. d \in Ids \X Links
      BY FrameHas
    <3>3. d = <<d[1], e>> /\ d[1] \in Ids /\ e \in Links
      BY <3>1, <3>2
    <3> QED  BY <3>3 DEF Doomed
  <2>2. ASSUME NEW e \in Links, Doomed(s, e) PROVE e \in gone
    BY <2>2 DEF Doomed
  <2> QED  BY <2>1, <2>2
<1>5. \A e \in gone : e \in Links
  BY FrameHas
<1> HIDE DEF n, q, gone
<1>6. m \in Frames /\ m.mark = n /\ m.peerMap = q
  <2>1. m \in Frames
    BY <1>1, <1>2, FrameWith
  <2>2. m.mark = n /\ m.peerMap = q
    BY DEF Frames
  <2> QED  BY <2>1, <2>2
<1>7. r = [m EXCEPT !.peerMap = v, !.mark = w]
  BY <1>3, <1>6 DEF Despawn, Frames
<1>8. v \in [Ids -> Links \cup {NoLink}] /\ w \in [Links -> Marks]
  BY <1>1, <1>2, ConstantsAre
<1> HIDE DEF v, w, r
<1>9. r \in Frames
  BY <1>6, <1>7, <1>8 DEF Frames
<1>10. r.mark = w /\ r.peerMap = v
  BY <1>6, <1>7 DEF Frames
<1>11. /\ r.clients = s.clients /\ r.idMap = s.idMap /\ r.queue = s.queue /\ r.link = s.link
       /\ r.accepted = s.accepted
  BY <1>6, <1>7 DEF Frames
<1>12. w = [e \in Links |-> IF Doomed(s, e) THEN Gone ELSE NewMark(s, e)]
  BY <1>4 DEF w, n
<1>13. v = [i \in Ids |-> IF \E e \in Links : Doomed(s, e) /\ NewMark(s, e).id = i
                          THEN NoLink ELSE NewPeer(s, i)]
  BY <1>4, <1>5 DEF v, n, q
<1> QED  BY <1>9, <1>10, <1>11, <1>12, <1>13 DEF r
-----------------------------------------------------------------------------
(* The limit on clients. *)

HasRoom(s) == IsFiniteSet(Connected(s)) /\ Cardinality(Connected(s)) <= MaxClients

\* Fewer connections are within the limit too.
LEMMA FewerHaveRoom ==
    ASSUME NEW s, NEW r, HasRoom(s), Connected(r) \subseteq Connected(s)
    PROVE  HasRoom(r)
BY FS_Subset, FS_CardinalityType, ConstantsAre DEF HasRoom

\* One connection more is within a limit that was not reached.
LEMMA OneMoreHasRoom ==
    ASSUME NEW s, NEW r, NEW i, HasRoom(s), ~ (Cardinality(Connected(s)) >= MaxClients),
           Connected(r) \subseteq Connected(s) \cup {i}
    PROVE  HasRoom(r)
<1>1. /\ IsFiniteSet(Connected(s) \cup {i})
      /\ Cardinality(Connected(s) \cup {i}) <= Cardinality(Connected(s)) + 1
  BY FS_AddElement, FS_CardinalityType DEF HasRoom
<1>2. Cardinality(Connected(s)) \in Nat /\ Cardinality(Connected(s)) < MaxClients
  BY FS_CardinalityType, ConstantsAre DEF HasRoom
<1>3. Cardinality(Connected(s) \cup {i}) \in Nat
  BY <1>1, FS_CardinalityType
<1>4. IsFiniteSet(Connected(r)) /\ Cardinality(Connected(r)) <= Cardinality(Connected(s) \cup {i})
  BY <1>1, FS_Subset
<1>5. Cardinality(Connected(r)) \in Nat
  BY <1>4, FS_CardinalityType
<1> QED  BY <1>1, <1>2, <1>3, <1>4, <1>5, ConstantsAre DEF HasRoom

\* The limit is checked where a connection is connected.
LEMMA PacketKeepsRoom ==
    ASSUME NEW s \in Frames, NEW e \in Links, NEW p \in Packets, HasRoom(s)
    PROVE  HasRoom(ProcessPacket(s, e, p))
<1> DEFINE r == ProcessPacket(s, e, p)
           t == p.tok
<1>0. t \in Tokens /\ IdOf[t] \in Ids
  BY TokensAre DEF Packets
<1>1. CASE r.clients = s.clients
  <2>1. Connected(r) = Connected(s)
    BY <1>1 DEF Connected
  <2> QED  BY <2>1, FewerHaveRoom
<1>2. CASE Asked(s, r, t, e)
  <2>1. ASSUME NEW j \in Connected(r) PROVE j \in Connected(s)
    <3>1. j \in Ids /\ r.clients[j].state = "Connected"
      BY DEF Connected
    <3>2. CASE Find(s, e) # NoConn
      <4>1. s.idMap[e] \in Ids /\ s.clients[s.idMap[e]] \in Conns /\ s.clients[s.idMap[e]] # NoConn
        BY <3>2, FindIs, FrameHas
      <4>2. r.clients[j] = IF j = s.idMap[e] THEN [s.clients[j] EXCEPT !.cid = IdOf[t], !.tok = t]
                           ELSE s.clients[j]
        <5> HIDE DEF r
        <5>1. r.clients = [s.clients EXCEPT ![s.idMap[e]] = [@ EXCEPT !.cid = IdOf[t], !.tok = t]]
          BY <1>2, <3>2 DEF Asked
        <5> QED  BY <5>1, <3>1, <4>1, FrameHas
      <4>3. s.clients[j].state = "Connected"
        <5>1. s.clients[s.idMap[e]] \in [state : {"Pending", "Connected"}, cid : Ids, entity : Links, tok : Tokens]
          BY <4>1 DEF Conns
        <5>2. [s.clients[s.idMap[e]] EXCEPT !.cid = IdOf[t], !.tok = t].state = s.clients[s.idMap[e]].state
          BY <5>1
        <5> QED  BY <3>1, <4>2, <5>2
      <4> QED  BY <3>1, <4>3 DEF Connected
    <3>3. CASE Find(s, e) = NoConn
      <4>1. r.clients[j] = IF j = IdOf[t] THEN [state |-> "Pending", cid |-> IdOf[t], entity |-> e, tok |-> t]
                           ELSE s.clients[j]
        BY <1>2, <3>1, <3>3, FrameHas DEF Asked
      <4> QED  BY <3>1, <4>1 DEF Connected
    <3> QED  BY <3>2, <3>3
  <2> QED  BY <2>1, FewerHaveRoom
<1>3. CASE Answered(s, r, t, e)
  <2>1. ASSUME NEW j \in Connected(r) PROVE j \in Connected(s) \cup {IdOf[t]}
    BY <1>3, FrameHas DEF Answered, Connected
  <2> HIDE DEF r
  <2>2. ~ (Cardinality(Connected(s)) >= MaxClients) /\ Connected(r) \subseteq Connected(s) \cup {IdOf[t]}
    BY <1>3, <2>1 DEF Answered
  <2> QED  BY <2>2, OneMoreHasRoom DEF r
<1>4. CASE Left(s, r, e)
  <2>1. ASSUME NEW j \in Connected(r) PROVE j \in Connected(s)
    BY <1>4, FrameHas DEF Left, Connected, NoConn
  <2> QED  BY <2>1, FewerHaveRoom
<1> QED  BY <1>0, <1>1, <1>2, <1>3, <1>4, PacketIs DEF Denies, OnlyQueued
-----------------------------------------------------------------------------
(* The tables.  A client is a user, and has one link at a time; what the cache,    *)
(* the markers, the peer map and the callbacks of a frame say of a user is about    *)
(* that link.                                                                      *)

\* A client plays under one id, and nobody else under that id.
OneUserEach ==
    \A c, d \in Clients : \A t \in TokensOf[c], u \in TokensOf[d] : IdOf[t] = IdOf[u] <=> c = d

UserOf(c) == IdOf[CHOOSE t \in TokensOf[c] : TRUE]

\* A token names the user of its owner, and users are distinct.
LEMMA UsersAre ==
    ASSUME OneUserEach
    PROVE  /\ \A t \in Tokens : IdOf[t] = UserOf(Owner(t)) /\ IdOf[t] \in Ids
           /\ \A c, d \in Clients : UserOf(c) = UserOf(d) => c = d
<1>1. ASSUME NEW c \in Clients PROVE (CHOOSE t \in TokensOf[c] : TRUE) \in TokensOf[c]
  BY NetcodeAssumption
<1>2. ASSUME NEW t \in Tokens PROVE IdOf[t] = UserOf(Owner(t)) /\ IdOf[t] \in Ids
  BY <1>1, TokensAre DEF UserOf, OneUserEach
<1>3. ASSUME NEW c \in Clients, NEW d \in Clients, UserOf(c) = UserOf(d) PROVE c = d
  BY <1>1, <1>3 DEF UserOf, OneUserEach
<1> QED  BY <1>2, <1>3

Live(s, e) == s.mark[e] \notin {Unused, Gone}

\* The link e is that of user i.
Belongs(s, i, e) == \E c \in Clients : s.link[c] = e /\ UserOf(c) = i

\* The connection of user i is connected over link e.
Held(s, i, e) == s.clients[i].state = "Connected" /\ s.clients[i].entity = e

\* A live link has an address, and an address a link of its own.
LinksOwned(s) ==
    /\ \A c, d \in Clients : s.link[c] = s.link[d] /\ c # d => s.link[c] = NoLink
    /\ \A c \in Clients : s.link[c] # NoLink => s.mark[s.link[c]] # Unused
    /\ \A e \in Links : Live(s, e) => \E c \in Clients : s.link[c] = e

\* A connection is filed under its id, and the id map leads from its link to it.
EntriesNamed(s) ==
    \A i \in Ids : s.clients[i] # NoConn =>
        s.clients[i].cid = i /\ IdOf[s.clients[i].tok] = i /\ s.idMap[s.clients[i].entity] = i

\* The id map leads from a live link to the connection of its user.
LinksKnown(s) ==
    \A e \in Links :
        /\ Live(s, e) /\ s.idMap[e] # None =>
              /\ Belongs(s, s.idMap[e], e)
              /\ s.clients[s.idMap[e]] # NoConn /\ s.clients[s.idMap[e]].entity = e
        /\ s.mark[e] = Unused => s.idMap[e] = None

\* A marker names the user of its link, who is connected over it unless the link is
\* about to be despawned.
MarksKnown(s) ==
    \A e \in Links :
        /\ s.mark[e].id # None =>
              Belongs(s, s.mark[e].id, e) /\ (Doomed(s, e) \/ s.mark[e].state = "Connected")
        /\ s.mark[e].state = "Connected" =>
              /\ s.mark[e].id \in Ids /\ s.peerMap[s.mark[e].id] = e
              /\ Doomed(s, e) \/ Held(s, s.mark[e].id, e)

\* A connect callback is about a live link of its user.
CallbacksKnown(s) ==
    \A i \in Ids, e \in Links : <<i, e>> \in s.connections =>
        Live(s, e) /\ Belongs(s, i, e) /\ (Doomed(s, e) \/ Held(s, i, e))

\* Whoever is connected has a marked link, or one that is marked or despawned in this
\* frame, or one that is gone.
ConnectedKnown(s) ==
    \A i \in Ids : s.clients[i].state = "Connected" =>
        LET e == s.clients[i].entity
        IN  \/ s.mark[e] = Gone \/ Doomed(s, e)
            \/ s.mark[e] = [state |-> "Connected", id |-> i] \/ <<i, e>> \in s.connections

\* What is read came over the link of its sender.
InboxKnown(s) ==
    \A k \in DOMAIN s.inbox :
        Live(s, s.inbox[k][1]) /\ s.link[Owner(s.inbox[k][2].tok)] = s.inbox[k][1]

Sound(s) ==
    /\ LinksOwned(s) /\ EntriesNamed(s) /\ LinksKnown(s) /\ MarksKnown(s)
    /\ CallbacksKnown(s) /\ ConnectedKnown(s) /\ InboxKnown(s)

\* Two live links of one user are the same.
LEMMA LinkOfUser ==
    ASSUME OneUserEach, NEW s \in Frames, NEW i, NEW e, NEW f, Belongs(s, i, e), Belongs(s, i, f)
    PROVE  e = f
BY UsersAre DEF Belongs

\* And a link has one user.
LEMMA UserOfLink ==
    ASSUME NEW s \in Frames, LinksOwned(s), NEW e \in Links, NEW i, NEW j, Belongs(s, i, e), Belongs(s, j, e)
    PROVE  i = j
BY ConstantsAre DEF Belongs, LinksOwned

-----------------------------------------------------------------------------
(* Reading the sockets. *)

\* An inbox with one packet more.
LEMMA InboxGrows ==
    ASSUME NEW s \in Frames, NEW r \in Frames, NEW e \in Links, NEW p \in Packets,
           r.inbox = Append(s.inbox, <<e, p>>), InboxKnown(s), Live(r, e), r.link[Owner(p.tok)] = e,
           \A k \in DOMAIN s.inbox :
               Live(s, s.inbox[k][1]) /\ s.link[Owner(s.inbox[k][2].tok)] = s.inbox[k][1] =>
               Live(r, s.inbox[k][1]) /\ r.link[Owner(s.inbox[k][2].tok)] = s.inbox[k][1]
    PROVE  InboxKnown(r)
<1>1. s.inbox \in Seq(Links \X Packets) /\ <<e, p>> \in Links \X Packets
  BY FrameHas
<1>2. \A k \in DOMAIN r.inbox : \/ k \in DOMAIN s.inbox /\ r.inbox[k] = s.inbox[k]
                                \/ r.inbox[k] = <<e, p>>
  BY <1>1, AppendProperties
<1> QED  BY <1>2 DEF InboxKnown

\* Datagrams keep the tables sound: a link is given to an address that has none.
LEMMA UdpKeepsSound ==
    ASSUME OneUserEach, NEW s \in Frames, NEW p \in Packets, Sound(s)
    PROVE  Sound(UdpReceive(s, p))
<1> DEFINE r == UdpReceive(s, p)
           c == Owner(p.tok)
<1>0. c \in Clients /\ r \in Frames
  BY TokensAre, UdpReceiveIs DEF Packets
<1> HIDE DEF r
<1>1. ASSUME NEW f \in Links, Spawned(s, r, p, f) PROVE Sound(r)
  <2>1. /\ s.link[c] = NoLink /\ s.mark[f] = Unused
        /\ r.link = [s.link EXCEPT ![c] = f]
        /\ r.mark = [s.mark EXCEPT ![f] = [state |-> "Linked", id |-> None]]
        /\ r.inbox = Append(s.inbox, <<f, p>>)
        /\ r.clients = s.clients /\ r.idMap = s.idMap /\ r.peerMap = s.peerMap
        /\ r.connections = s.connections /\ r.disconnections = s.disconnections
    BY <1>1 DEF Spawned, SameCache
  <2>2. /\ \A e \in Links : e # f => r.mark[e] = s.mark[e]
        /\ r.mark[f] = [state |-> "Linked", id |-> None]
        /\ \A d \in Clients : d # c => r.link[d] = s.link[d]
        /\ r.link[c] = f
    BY <2>1, <1>0, FrameHas
  <2>3. Live(r, f) /\ ~ Live(s, f) /\ \A e \in Links : e # f => (Live(r, e) <=> Live(s, e))
    BY <2>1, <2>2 DEF Live, Unused, Gone
  <2>4. \A i, e : Belongs(s, i, e) /\ e \in Links => Belongs(r, i, e)
    BY <2>1, <2>2, ConstantsAre DEF Belongs
  <2>5. \A d \in Clients : s.link[d] # f
    BY <2>1, ConstantsAre DEF Sound, LinksOwned
  <2>6. s.idMap[f] = None
    BY <2>1 DEF Sound, LinksKnown
  <2>7. LinksOwned(r)
    <3>1. \A a, d \in Clients : r.link[a] = r.link[d] /\ a # d => r.link[a] = NoLink
      BY <2>2, <2>5 DEF Sound, LinksOwned
    <3>2. \A d \in Clients : r.link[d] # NoLink => r.mark[r.link[d]] # Unused
      BY <2>2, <2>5, FrameHas DEF Sound, LinksOwned, Unused
    <3>3. ASSUME NEW e \in Links, Live(r, e) PROVE \E d \in Clients : r.link[d] = e
      <4>1. CASE e = f
        BY <4>1, <2>2, <1>0
      <4>2. CASE e # f
        <5>1. PICK d \in Clients : s.link[d] = e
          BY <3>3, <4>2, <2>3 DEF Sound, LinksOwned
        <5> QED  BY <5>1, <2>1, <2>2, ConstantsAre
      <4> QED  BY <4>1, <4>2
    <3> QED  BY <3>1, <3>2, <3>3 DEF LinksOwned
  <2>8. EntriesNamed(r)
    BY <2>1 DEF Sound, EntriesNamed
  <2>9. LinksKnown(r)
    BY <2>1, <2>2, <2>3, <2>4, <2>6 DEF Sound, LinksKnown
  <2>10. MarksKnown(r)
    <3>1. \A e : Doomed(r, e) <=> Doomed(s, e)
      BY <2>1 DEF Doomed
    <3>2. \A i, e : Held(r, i, e) <=> Held(s, i, e)
      BY <2>1 DEF Held
    <3>3. ASSUME NEW e \in Links, e # f
          PROVE  /\ r.mark[e].id # None =>
                       Belongs(r, r.mark[e].id, e) /\ (Doomed(r, e) \/ r.mark[e].state = "Connected")
                 /\ r.mark[e].state = "Connected" =>
                       /\ r.mark[e].id \in Ids /\ r.peerMap[r.mark[e].id] = e
                       /\ Doomed(r, e) \/ Held(r, r.mark[e].id, e)
      <4>1. r.mark[e] = s.mark[e]
        BY <3>3, <2>2
      <4> QED  BY <4>1, <2>1, <2>4, <3>1, <3>2 DEF Sound, MarksKnown
    <3> QED  BY <3>3, <2>2 DEF MarksKnown
  <2>11. CallbacksKnown(r)
    <3>1. \A e : Doomed(r, e) <=> Doomed(s, e)
      BY <2>1 DEF Doomed
    <3>2. \A i, e : Held(r, i, e) <=> Held(s, i, e)
      BY <2>1 DEF Held
    <3> QED  BY <2>1, <2>3, <2>4, <3>1, <3>2 DEF Sound, CallbacksKnown
  <2>12. ConnectedKnown(r)
    <3>1. \A e : Doomed(r, e) <=> Doomed(s, e)
      BY <2>1 DEF Doomed
    <3>2. ASSUME NEW i \in Ids, s.clients[i].state = "Connected"
          PROVE  s.clients[i].entity \in Links /\ s.clients[i].entity # f
      BY <3>2, <2>6, FrameHas, ConstantsAre DEF Sound, EntriesNamed
    <3> QED  BY <2>1, <2>2, <3>1, <3>2 DEF Sound, ConnectedKnown
  <2>13. InboxKnown(r)
    <3>1. ASSUME NEW k \in DOMAIN s.inbox
          PROVE  Live(s, s.inbox[k][1]) /\ s.link[Owner(s.inbox[k][2].tok)] = s.inbox[k][1] =>
                 Live(r, s.inbox[k][1]) /\ r.link[Owner(s.inbox[k][2].tok)] = s.inbox[k][1]
      <4>1. s.inbox[k] \in Links \X Packets
        BY FrameHas
      <4>2. s.inbox[k][1] \in Links /\ Owner(s.inbox[k][2].tok) \in Clients
        BY <4>1, TokensAre DEF Packets
      <4> QED  BY <4>2, <2>1, <2>2, <2>3, ConstantsAre
    <3>2. InboxKnown(s) /\ f \in Links /\ p \in Packets /\ s \in Frames
      BY DEF Sound
    <3>3. r.link[Owner(p.tok)] = f
      BY <2>2
    <3> QED  BY ONLY <3>1, <3>2, <3>3, <1>0, <2>1, <2>3, InboxGrows
  <2> QED  BY <2>7, <2>8, <2>9, <2>10, <2>11, <2>12, <2>13 DEF Sound
<1>2. ASSUME Forgotten(s, r, p) PROVE Sound(r)
  <2>1. /\ s.link[c] # NoLink /\ s.mark[s.link[c]] = Gone
        /\ r.link = [s.link EXCEPT ![c] = NoLink] /\ r.mark = s.mark /\ r.inbox = s.inbox
        /\ r.clients = s.clients /\ r.idMap = s.idMap /\ r.peerMap = s.peerMap
        /\ r.connections = s.connections /\ r.disconnections = s.disconnections
    BY <1>2 DEF Forgotten, SameCache
  <2>2. r.link[c] = NoLink /\ \A d \in Clients : d # c => r.link[d] = s.link[d]
    BY <2>1, <1>0, FrameHas
  <2>3. \A e : Live(r, e) <=> Live(s, e)
    BY <2>1 DEF Live
  <2>4. \A i, e : Belongs(s, i, e) /\ s.mark[e] # Gone => Belongs(r, i, e)
    BY <2>1, <2>2 DEF Belongs
  <2>5. \A e : Doomed(r, e) <=> Doomed(s, e)
    BY <2>1 DEF Doomed
  <2>6. \A i, e : Held(r, i, e) <=> Held(s, i, e)
    BY <2>1 DEF Held
  <2>7. LinksOwned(r)
    <3>1. \A a, d \in Clients : r.link[a] = r.link[d] /\ a # d => r.link[a] = NoLink
      BY <2>2 DEF Sound, LinksOwned
    <3>2. \A d \in Clients : r.link[d] # NoLink => r.mark[r.link[d]] # Unused
      BY <2>1, <2>2 DEF Sound, LinksOwned
    <3>3. ASSUME NEW e \in Links, Live(r, e) PROVE \E d \in Clients : r.link[d] = e
      <4>1. PICK d \in Clients : s.link[d] = e
        BY <3>3, <2>3 DEF Sound, LinksOwned
      <4>2. d # c
        BY <4>1, <3>3, <2>1, <2>3 DEF Live
      <4> QED  BY <4>1, <4>2, <2>2
    <3> QED  BY <3>1, <3>2, <3>3 DEF LinksOwned
  <2>8. EntriesNamed(r)
    BY <2>1 DEF Sound, EntriesNamed
  <2>9. LinksKnown(r)
    BY <2>1, <2>3, <2>4 DEF Sound, LinksKnown, Live
  <2>10. MarksKnown(r)
    <3>1. \A e \in Links : s.mark[e].id # None => s.mark[e] # Gone
      BY DEF Gone
    <3> QED  BY <2>1, <2>4, <2>5, <2>6, <3>1 DEF Sound, MarksKnown
  <2>11. CallbacksKnown(r)
    BY <2>1, <2>3, <2>4, <2>5, <2>6 DEF Sound, CallbacksKnown, Live
  <2>12. ConnectedKnown(r)
    BY <2>1, <2>5 DEF Sound, ConnectedKnown
  <2>13. InboxKnown(r)
    <3>1. ASSUME NEW k \in DOMAIN s.inbox
          PROVE  Live(r, s.inbox[k][1]) /\ r.link[Owner(s.inbox[k][2].tok)] = s.inbox[k][1]
      <4>1. s.inbox[k] \in Links \X Packets
        BY FrameHas
      <4>2. Owner(s.inbox[k][2].tok) \in Clients
        BY <4>1, TokensAre DEF Packets
      <4>3. Live(s, s.inbox[k][1]) /\ s.link[Owner(s.inbox[k][2].tok)] = s.inbox[k][1]
        BY DEF Sound, InboxKnown
      <4>4. Owner(s.inbox[k][2].tok) # c
        BY <4>3, <2>1 DEF Live
      <4> QED  BY <4>2, <4>3, <4>4, <2>2, <2>3
    <3> QED  BY <3>1, <2>1 DEF InboxKnown
  <2> QED  BY <2>7, <2>8, <2>9, <2>10, <2>11, <2>12, <2>13 DEF Sound
<1>3. ASSUME Received(s, r, p) PROVE Sound(r)
  <2>1. /\ s.link[c] # NoLink /\ s.mark[s.link[c]] # Gone
        /\ r.link = s.link /\ r.mark = s.mark /\ r.inbox = Append(s.inbox, <<s.link[c], p>>)
        /\ r.clients = s.clients /\ r.idMap = s.idMap /\ r.peerMap = s.peerMap
        /\ r.connections = s.connections /\ r.disconnections = s.disconnections
    BY <1>3 DEF Received, SameCache
  <2>2. s.link[c] \in Links /\ Live(s, s.link[c])
    BY <2>1, <1>0, FrameHas DEF Sound, LinksOwned, Live
  <2>3. InboxKnown(r)
    <3>1. \A e : Live(s, e) => Live(r, e)
      BY <2>1 DEF Live
    <3> QED  BY <3>1, <1>0, <2>1, <2>2, InboxGrows DEF Sound
  <2>4. /\ LinksOwned(r) /\ EntriesNamed(r) /\ LinksKnown(r) /\ MarksKnown(r)
        /\ CallbacksKnown(r) /\ ConnectedKnown(r)
    <3>1. /\ \A e : Live(r, e) <=> Live(s, e)
          /\ \A e : Doomed(r, e) <=> Doomed(s, e)
          /\ \A i, e : Held(r, i, e) <=> Held(s, i, e)
          /\ \A i, e : Belongs(r, i, e) <=> Belongs(s, i, e)
      BY <2>1 DEF Live, Doomed, Held, Belongs
    <3>2. LinksOwned(r)
      BY <2>1, <3>1 DEF Sound, LinksOwned
    <3>3. EntriesNamed(r)
      BY <2>1 DEF Sound, EntriesNamed
    <3>4. LinksKnown(r)
      BY <2>1, <3>1 DEF Sound, LinksKnown
    <3>5. MarksKnown(r)
      BY <2>1, <3>1 DEF Sound, MarksKnown
    <3>6. CallbacksKnown(r)
      BY <2>1, <3>1 DEF Sound, CallbacksKnown
    <3>7. ConnectedKnown(r)
      BY <2>1, <3>1 DEF Sound, ConnectedKnown
    <3> QED  BY <3>2, <3>3, <3>4, <3>5, <3>6, <3>7
  <2> QED  BY <2>3, <2>4 DEF Sound
<1> QED  BY <1>1, <1>2, <1>3, UdpReceiveIs DEF r

-----------------------------------------------------------------------------
(* Timeouts, packets, and the end of a frame. *)

\* Timeouts keep the tables sound: what they remove is marked as about to be despawned.
LEMMA TimeOutKeepsSound ==
    ASSUME NEW s \in Frames, NEW late, late \subseteq Connected(s), Sound(s)
    PROVE  Sound(TimeOut(s, late))
<1> DEFINE r == TimeOut(s, late)
<1>1. r \in Frames /\ TimedOut(s, r, late)
  BY TimeOutIs
<1> HIDE DEF r
<1>2. /\ r.disconnections = s.disconnections \cup {<<i, s.clients[i].entity>> : i \in late}
      /\ \A e \in Links : r.idMap[e] = IF \E i \in late : s.clients[i].entity = e THEN None ELSE s.idMap[e]
      /\ \A i \in Ids : r.clients[i] = IF i \in late THEN NoConn ELSE s.clients[i]
      /\ r.link = s.link /\ r.mark = s.mark /\ r.peerMap = s.peerMap
      /\ r.connections = s.connections /\ r.inbox = s.inbox
  BY <1>1 DEF TimedOut
<1>3. \A i \in late : /\ i \in Ids /\ s.clients[i].state = "Connected" /\ s.clients[i] # NoConn
                      /\ s.clients[i].entity \in Links /\ s.idMap[s.clients[i].entity] = i
  <2> SUFFICES ASSUME NEW i \in late
               PROVE  /\ i \in Ids /\ s.clients[i].state = "Connected" /\ s.clients[i] # NoConn
                      /\ s.clients[i].entity \in Links /\ s.idMap[s.clients[i].entity] = i
    OBVIOUS
  <2>1. i \in Ids /\ s.clients[i].state = "Connected"
    BY DEF Connected
  <2> QED  BY <2>1, FrameHas, ConstantsAre DEF Sound, EntriesNamed
<1>4. \A e : Live(r, e) <=> Live(s, e)
  BY <1>2 DEF Live
<1>5. \A i, e : Belongs(r, i, e) <=> Belongs(s, i, e)
  BY <1>2 DEF Belongs
<1>6. \A e : Doomed(s, e) => Doomed(r, e)
  BY <1>2 DEF Doomed
<1>7. \A i \in late : Doomed(r, s.clients[i].entity)
  BY <1>2, <1>3 DEF Doomed
<1>8. ASSUME NEW i \in Ids, NEW e, Held(s, i, e) PROVE Doomed(r, e) \/ Held(r, i, e)
  BY <1>8, <1>2, <1>7 DEF Held
<1>9. LinksOwned(r)
  BY <1>2, <1>4 DEF Sound, LinksOwned
<1>10. EntriesNamed(r)
  <2> SUFFICES ASSUME NEW i \in Ids, r.clients[i] # NoConn
               PROVE  r.clients[i].cid = i /\ IdOf[r.clients[i].tok] = i /\ r.idMap[r.clients[i].entity] = i
    BY DEF EntriesNamed
  <2>1. i \notin late /\ r.clients[i] = s.clients[i]
    BY <1>2
  <2>2. s.clients[i].cid = i /\ IdOf[s.clients[i].tok] = i /\ s.idMap[s.clients[i].entity] = i
    BY <2>1 DEF Sound, EntriesNamed
  <2>3. s.clients[i].entity \in Links
    BY <2>1, FrameHas, ConstantsAre
  <2>4. ~ \E j \in late : s.clients[j].entity = s.clients[i].entity
    BY <2>1, <2>2, <1>3
  <2> QED  BY <1>2, <2>1, <2>2, <2>3, <2>4
<1>11. LinksKnown(r)
  <2> SUFFICES ASSUME NEW e \in Links
               PROVE  /\ Live(r, e) /\ r.idMap[e] # None =>
                            /\ Belongs(r, r.idMap[e], e)
                            /\ r.clients[r.idMap[e]] # NoConn /\ r.clients[r.idMap[e]].entity = e
                      /\ r.mark[e] = Unused => r.idMap[e] = None
    BY DEF LinksKnown
  <2>1. r.mark[e] = Unused => r.idMap[e] = None
    BY <1>2 DEF Sound, LinksKnown
  <2>2. ASSUME Live(r, e), r.idMap[e] # None
        PROVE  /\ Belongs(r, r.idMap[e], e)
               /\ r.clients[r.idMap[e]] # NoConn /\ r.clients[r.idMap[e]].entity = e
    <3>1. r.idMap[e] = s.idMap[e] /\ s.idMap[e] \in Ids /\ ~ \E i \in late : s.clients[i].entity = e
      BY <2>2, <1>2, FrameHas
    <3>2. /\ Belongs(s, s.idMap[e], e)
          /\ s.clients[s.idMap[e]] # NoConn /\ s.clients[s.idMap[e]].entity = e
      BY <2>2, <3>1, <1>4 DEF Sound, LinksKnown
    <3> QED  BY <3>1, <3>2, <1>2, <1>5
  <2> QED  BY <2>1, <2>2
<1>12. MarksKnown(r)
  <2> SUFFICES ASSUME NEW e \in Links
               PROVE  /\ r.mark[e].id # None =>
                            Belongs(r, r.mark[e].id, e) /\ (Doomed(r, e) \/ r.mark[e].state = "Connected")
                      /\ r.mark[e].state = "Connected" =>
                            /\ r.mark[e].id \in Ids /\ r.peerMap[r.mark[e].id] = e
                            /\ Doomed(r, e) \/ Held(r, r.mark[e].id, e)
    BY DEF MarksKnown
  <2> QED  BY <1>2, <1>5, <1>6, <1>8 DEF Sound, MarksKnown
<1>13. CallbacksKnown(r)
  BY <1>2, <1>4, <1>5, <1>6, <1>8 DEF Sound, CallbacksKnown
<1>14. ConnectedKnown(r)
  <2> SUFFICES ASSUME NEW i \in Ids, r.clients[i].state = "Connected"
               PROVE  LET e == r.clients[i].entity
                      IN  \/ r.mark[e] = Gone \/ Doomed(r, e)
                          \/ r.mark[e] = [state |-> "Connected", id |-> i] \/ <<i, e>> \in r.connections
    BY DEF ConnectedKnown
  <2>1. r.clients[i] = s.clients[i]
    BY <1>2 DEF NoConn
  <2> QED  BY <2>1, <1>2, <1>6 DEF Sound, ConnectedKnown
<1>15. InboxKnown(r)
  BY <1>2, <1>4 DEF Sound, InboxKnown
<1> QED  BY <1>9, <1>10, <1>11, <1>12, <1>13, <1>14, <1>15 DEF Sound, r

\* Two states of a frame with the same tables, but for links that are to be despawned.
Unmoved(s, r) ==
    /\ r.clients = s.clients /\ r.idMap = s.idMap /\ r.mark = s.mark /\ r.link = s.link
    /\ r.inbox = s.inbox /\ r.peerMap = s.peerMap /\ r.connections = s.connections
    /\ s.disconnections \subseteq r.disconnections

\* Whatever leaves the tables alone keeps them sound.
LEMMA SoundUnmoved ==
    ASSUME NEW s, NEW r, Sound(s), Unmoved(s, r)
    PROVE  Sound(r)
<1> USE DEF Unmoved
<1>1. /\ \A f : Live(r, f) <=> Live(s, f)
      /\ \A f : Doomed(s, f) => Doomed(r, f)
      /\ \A j, f : Held(r, j, f) <=> Held(s, j, f)
      /\ \A j, f : Belongs(r, j, f) <=> Belongs(s, j, f)
  BY DEF Live, Doomed, Held, Belongs
<1>2. LinksOwned(r)
  BY <1>1 DEF Sound, LinksOwned
<1>3. EntriesNamed(r)
  BY DEF Sound, EntriesNamed
<1>4. LinksKnown(r)
  BY <1>1 DEF Sound, LinksKnown
<1>5. MarksKnown(r)
  BY <1>1 DEF Sound, MarksKnown
<1>6. CallbacksKnown(r)
  BY <1>1 DEF Sound, CallbacksKnown
<1>7. ConnectedKnown(r)
  BY <1>1 DEF Sound, ConnectedKnown
<1>8. InboxKnown(r)
  BY <1>1 DEF Sound, InboxKnown
<1> QED  BY <1>2, <1>3, <1>4, <1>5, <1>6, <1>7, <1>8 DEF Sound

\* A packet of the inbox is handled where the tables are sound.
LEMMA PacketKeepsSound ==
    ASSUME OneUserEach, NEW s \in Frames, Sound(s), NEW e \in Links, NEW p \in Packets,
           Live(s, e), s.link[Owner(p.tok)] = e
    PROVE  Sound(ProcessPacket(s, e, p))
<1> DEFINE r == ProcessPacket(s, e, p)
           t == p.tok
           i == IdOf[t]
<1>0. /\ t \in Tokens /\ i \in Ids /\ Owner(t) \in Clients /\ r \in Frames
      /\ Belongs(s, i, e) /\ e # NoLink
  BY TokensAre, UsersAre, PacketIs, ConstantsAre DEF Packets, Belongs
<1> HIDE DEF r
\* The link is known under the user's id or not at all.
<1>a. s.idMap[e] # None => s.idMap[e] = i /\ s.clients[i] # NoConn /\ s.clients[i].entity = e
  BY <1>0, UserOfLink DEF Sound, LinksKnown
<1>b. Find(s, e) # NoConn => /\ s.idMap[e] = i /\ Find(s, e) = s.clients[i] /\ s.clients[i] # NoConn
                             /\ s.clients[i].entity = e /\ s.clients[i].cid = i
  BY <1>0, <1>a, FindIs DEF Sound, EntriesNamed
<1>c. Find(s, e) = NoConn => s.idMap[e] = None
  BY <1>a DEF Find
<1>1. ASSUME Unmoved(s, r) PROVE Sound(r)
  BY <1>1, SoundUnmoved
<1>2. ASSUME Asked(s, r, t, e) PROVE Sound(r)
  <2>1. /\ i \notin Connected(s) /\ s.clients[i].state # "Connected"
        /\ r.mark = [s.mark EXCEPT ![e] = [state |-> "Connecting", id |-> @.id]]
        /\ r.link = s.link /\ r.inbox = s.inbox /\ r.peerMap = s.peerMap
        /\ r.connections = s.connections /\ r.disconnections = s.disconnections
    BY <1>0, <1>2 DEF Asked, SameSockets, Connected
  <2>2. /\ r.clients[i].state = "Pending" /\ r.clients[i] # NoConn
        /\ r.clients[i].cid = i /\ r.clients[i].tok = t /\ r.clients[i].entity = e
        /\ \A j \in Ids : j # i => r.clients[j] = s.clients[j]
        /\ r.idMap[e] = i /\ \A f \in Links : f # e => r.idMap[f] = s.idMap[f]
    <3>1. CASE Find(s, e) # NoConn
      <4>1. r.clients = [s.clients EXCEPT ![i] = [@ EXCEPT !.cid = IdOf[t], !.tok = t]] /\ r.idMap = s.idMap
        BY <1>2, <3>1, <1>b DEF Asked
      <4>2. s.clients[i] \in [state : {"Pending", "Connected"}, cid : Ids, entity : Links, tok : Tokens]
        BY <1>0, <1>b, <3>1, FrameHas DEF Conns
      <4>3. r.clients[i] = [s.clients[i] EXCEPT !.cid = i, !.tok = t]
            /\ \A j \in Ids : j # i => r.clients[j] = s.clients[j]
        BY <4>1, <1>0, FrameHas
      <4>4. r.clients[i].state = s.clients[i].state /\ r.clients[i].cid = i /\ r.clients[i].tok = t
            /\ r.clients[i].entity = s.clients[i].entity
        BY <4>2, <4>3
      <4>5. s.clients[i].state = "Pending"
        BY <4>2, <2>1
      <4>6. r.clients[i] # NoConn
        BY <4>4, <4>5 DEF NoConn
      <4>7. s.idMap[e] = i /\ s.clients[i].entity = e
        BY <3>1, <1>b
      <4>8. r.idMap = s.idMap
        BY <4>1
      <4> QED  BY ONLY <4>3, <4>4, <4>5, <4>6, <4>7, <4>8
    <3>2. CASE Find(s, e) = NoConn
      <4>1. /\ r.clients = [s.clients EXCEPT ![i] = [state |-> "Pending", cid |-> i, entity |-> e, tok |-> t]]
            /\ r.idMap = [s.idMap EXCEPT ![e] = i]
        BY <1>2, <3>2 DEF Asked
      <4>2. /\ r.clients[i] = [state |-> "Pending", cid |-> i, entity |-> e, tok |-> t]
            /\ \A j \in Ids : j # i => r.clients[j] = s.clients[j]
            /\ r.idMap[e] = i /\ \A f \in Links : f # e => r.idMap[f] = s.idMap[f]
        BY <4>1, <1>0, FrameHas
      <4> QED  BY <4>2 DEF NoConn
    <3> QED  BY <3>1, <3>2
  <2>3. /\ r.mark[e] = [state |-> "Connecting", id |-> s.mark[e].id]
        /\ \A f \in Links : f # e => r.mark[f] = s.mark[f]
    BY <2>1, FrameHas
  <2>4. \A f \in Links : Live(r, f) <=> Live(s, f)
    BY <2>3 DEF Live, Unused, Gone
  <2>5. \A j, f : Belongs(r, j, f) <=> Belongs(s, j, f)
    BY <2>1 DEF Belongs
  <2>6. \A f : Doomed(r, f) <=> Doomed(s, f)
    BY <2>1 DEF Doomed
  <2>7. \A j \in Ids : \A f : Held(s, j, f) <=> Held(r, j, f)
    BY <2>1, <2>2 DEF Held
  \* A link that was marked is to be despawned, since its user is not connected.
  <2>8. s.mark[e].state = "Connected" \/ s.mark[e].id # None => Doomed(s, e)
    <3>1. ASSUME s.mark[e].id # None PROVE s.mark[e].id = i
      BY <3>1, <1>0, UserOfLink DEF Sound, MarksKnown
    <3>2. ASSUME s.mark[e].state = "Connected" PROVE Doomed(s, e)
      <4>1. s.mark[e].id \in Ids /\ (Doomed(s, e) \/ Held(s, s.mark[e].id, e))
        BY <3>2 DEF Sound, MarksKnown
      <4>2. s.mark[e].id = i
        BY <3>1, <4>1, ConstantsAre
      <4> QED  BY <4>1, <4>2, <2>1 DEF Held
    <3> QED  BY <3>2 DEF Sound, MarksKnown
  <2>9. LinksOwned(r)
    <3>1. \A d \in Clients : r.link[d] # NoLink => r.mark[r.link[d]] # Unused
      BY <2>1, <2>3, FrameHas DEF Sound, LinksOwned, Unused
    <3> QED  BY <3>1, <2>1, <2>4 DEF Sound, LinksOwned
  <2>10. EntriesNamed(r)
    <3> SUFFICES ASSUME NEW j \in Ids, r.clients[j] # NoConn
                 PROVE  r.clients[j].cid = j /\ IdOf[r.clients[j].tok] = j /\ r.idMap[r.clients[j].entity] = j
      BY DEF EntriesNamed
    <3>1. CASE j = i
      BY <3>1, <2>2
    <3>2. CASE j # i
      <4>1. r.clients[j] = s.clients[j] /\ s.clients[j] # NoConn
        BY <3>2, <2>2
      <4>2. s.clients[j].cid = j /\ IdOf[s.clients[j].tok] = j /\ s.idMap[s.clients[j].entity] = j
        BY <4>1 DEF Sound, EntriesNamed
      <4>3. s.clients[j].entity \in Links
        BY <4>1, FrameHas, ConstantsAre
      <4>4. s.clients[j].entity # e
        BY <4>2, <3>2, <1>a, ConstantsAre
      <4>5. r.idMap[s.clients[j].entity] = s.idMap[s.clients[j].entity]
        BY ONLY <4>3, <4>4, <2>2
      <4> QED  BY ONLY <4>1, <4>2, <4>5
    <3> QED  BY <3>1, <3>2
  <2>11. LinksKnown(r)
    <3> SUFFICES ASSUME NEW f \in Links
                 PROVE  /\ Live(r, f) /\ r.idMap[f] # None =>
                              /\ Belongs(r, r.idMap[f], f)
                              /\ r.clients[r.idMap[f]] # NoConn /\ r.clients[r.idMap[f]].entity = f
                        /\ r.mark[f] = Unused => r.idMap[f] = None
      BY DEF LinksKnown
    <3>1. CASE f = e
      BY <3>1, <1>0, <2>2, <2>3, <2>5 DEF Unused
    <3>2. CASE f # e
      <4>1. r.mark[f] = s.mark[f] /\ r.idMap[f] = s.idMap[f]
        BY <3>2, <2>2, <2>3
      <4>2. ASSUME Live(s, f), s.idMap[f] # None
            PROVE  /\ Belongs(s, s.idMap[f], f) /\ s.idMap[f] # i /\ s.idMap[f] \in Ids
                   /\ s.clients[s.idMap[f]] # NoConn /\ s.clients[s.idMap[f]].entity = f
        <5>1. /\ Belongs(s, s.idMap[f], f) /\ s.idMap[f] \in Ids
              /\ s.clients[s.idMap[f]] # NoConn /\ s.clients[s.idMap[f]].entity = f
          BY <4>2, FrameHas DEF Sound, LinksKnown
        <5> QED  BY <5>1, <3>2, <1>0, LinkOfUser
      <4>3. s.mark[f] = Unused => s.idMap[f] = None
        BY DEF Sound, LinksKnown
      <4> QED  BY <4>1, <4>2, <4>3, <2>2, <2>4, <2>5
    <3> QED  BY <3>1, <3>2
  <2>12. MarksKnown(r)
    <3> SUFFICES ASSUME NEW f \in Links
                 PROVE  /\ r.mark[f].id # None =>
                              Belongs(r, r.mark[f].id, f) /\ (Doomed(r, f) \/ r.mark[f].state = "Connected")
                        /\ r.mark[f].state = "Connected" =>
                              /\ r.mark[f].id \in Ids /\ r.peerMap[r.mark[f].id] = f
                              /\ Doomed(r, f) \/ Held(r, r.mark[f].id, f)
      BY DEF MarksKnown
    <3>1. CASE f = e
      <4>1. r.mark[e].id = s.mark[e].id /\ r.mark[e].state = "Connecting"
        BY <2>3
      <4> QED  BY <3>1, <4>1, <2>5, <2>6, <2>8 DEF Sound, MarksKnown
    <3>2. CASE f # e
      <4>1. r.mark[f] = s.mark[f]
        BY <3>2, <2>3
      <4> QED  BY <4>1, <2>1, <2>5, <2>6, <2>7 DEF Sound, MarksKnown
    <3> QED  BY <3>1, <3>2
  <2>13. CallbacksKnown(r)
    BY <2>1, <2>4, <2>5, <2>6, <2>7 DEF Sound, CallbacksKnown
  <2>14. ConnectedKnown(r)
    <3> SUFFICES ASSUME NEW j \in Ids, r.clients[j].state = "Connected"
                 PROVE  LET f == r.clients[j].entity
                        IN  \/ r.mark[f] = Gone \/ Doomed(r, f)
                            \/ r.mark[f] = [state |-> "Connected", id |-> j] \/ <<j, f>> \in r.connections
      BY DEF ConnectedKnown
    <3> DEFINE f == s.clients[j].entity
    <3>1. j # i /\ r.clients[j] = s.clients[j]
      BY <2>2
    <3>2. \/ s.mark[f] = Gone \/ Doomed(s, f)
          \/ s.mark[f] = [state |-> "Connected", id |-> j] \/ <<j, f>> \in s.connections
      BY <3>1 DEF Sound, ConnectedKnown
    <3>3. f \in Links
      BY <3>1, FrameHas, ConstantsAre
    <3>4. f = e => Doomed(s, f) \/ <<j, f>> \in s.connections
      BY <3>2, <2>8 DEF Live
    <3> QED  BY <3>1, <3>2, <3>3, <3>4, <2>1, <2>3, <2>6
  <2>15. InboxKnown(r)
    <3>1. \A k \in DOMAIN s.inbox : s.inbox[k][1] \in Links
      BY FrameHas
    <3> QED  BY <3>1, <2>1, <2>4 DEF Sound, InboxKnown
  <2> QED  BY <2>9, <2>10, <2>11, <2>12, <2>13, <2>14, <2>15 DEF Sound
<1>3. ASSUME Find(s, e) # NoConn, Answered(s, r, t, e) PROVE Sound(r)
  <2>1. /\ s.clients[i].state = "Pending" /\ s.clients[i] # NoConn
        /\ s.clients[i].entity = e /\ s.clients[i].cid = i /\ s.idMap[e] = i
    BY <1>3, <1>b DEF Answered
  <2>2. /\ r.clients = [s.clients EXCEPT ![i] = [@ EXCEPT !.state = "Connected"]]
        /\ r.idMap = s.idMap /\ r.mark = s.mark
        /\ r.link = s.link /\ r.inbox = s.inbox /\ r.peerMap = s.peerMap
        /\ r.connections = s.connections \cup {<<i, e>>} /\ r.disconnections = s.disconnections
    BY <1>3 DEF Answered, SameSockets
  <2>3. /\ r.clients[i].state = "Connected" /\ r.clients[i].entity = e /\ r.clients[i].cid = i
        /\ r.clients[i].tok = s.clients[i].tok /\ r.clients[i] # NoConn
        /\ \A j \in Ids : j # i => r.clients[j] = s.clients[j]
    <3>1. s.clients[i] \in [state : {"Pending", "Connected"}, cid : Ids, entity : Links, tok : Tokens]
      BY <2>1, <1>0, FrameHas DEF Conns
    <3>2. r.clients[i] = [s.clients[i] EXCEPT !.state = "Connected"]
          /\ \A j \in Ids : j # i => r.clients[j] = s.clients[j]
      BY <2>2, <1>0, FrameHas
    <3> QED  BY <3>1, <3>2, <2>1 DEF NoConn
  <2>4. /\ \A f : Live(r, f) <=> Live(s, f)
        /\ \A f : Doomed(s, f) <=> Doomed(r, f)
        /\ \A j, f : Belongs(r, j, f) <=> Belongs(s, j, f)
    BY <2>2 DEF Live, Doomed, Belongs
  <2>5. \A j \in Ids : \A f : Held(s, j, f) => Held(r, j, f)
    BY <2>1, <2>3 DEF Held
  <2>6. Held(r, i, e)
    BY <2>3 DEF Held
  <2>7. LinksOwned(r)
    BY <2>2, <2>4 DEF Sound, LinksOwned
  <2>8. EntriesNamed(r)
    <3>1. EntriesNamed(s)
      BY DEF Sound
    <3>2. IdOf[r.clients[i].tok] = i /\ r.idMap[r.clients[i].entity] = i
      BY <3>1, <2>1, <2>2, <2>3, <1>0 DEF EntriesNamed
    <3>3. ASSUME NEW j \in Ids, r.clients[j] # NoConn
          PROVE  r.clients[j].cid = j /\ IdOf[r.clients[j].tok] = j /\ r.idMap[r.clients[j].entity] = j
      <4>1. CASE j = i
        BY <4>1, <3>2, <2>3
      <4>2. CASE j # i
        BY <4>2, <3>1, <3>3, <2>2, <2>3 DEF EntriesNamed
      <4> QED  BY <4>1, <4>2
    <3> QED  BY <3>3 DEF EntriesNamed
  <2>9. LinksKnown(r)
    <3> SUFFICES ASSUME NEW f \in Links
                 PROVE  /\ Live(r, f) /\ r.idMap[f] # None =>
                              /\ Belongs(r, r.idMap[f], f)
                              /\ r.clients[r.idMap[f]] # NoConn /\ r.clients[r.idMap[f]].entity = f
                        /\ r.mark[f] = Unused => r.idMap[f] = None
      BY DEF LinksKnown
    <3>1. ASSUME NEW j \in Ids, s.clients[j] # NoConn
          PROVE  r.clients[j] # NoConn /\ r.clients[j].entity = s.clients[j].entity
      BY <3>1, <2>1, <2>3
    <3> QED  BY <3>1, <2>2, <2>4, FrameHas DEF Sound, LinksKnown
  <2>10. MarksKnown(r)
    BY <2>2, <2>4, <2>5 DEF Sound, MarksKnown
  <2>11. CallbacksKnown(r)
    BY <1>0, <2>2, <2>4, <2>5, <2>6 DEF Sound, CallbacksKnown
  <2>12. ConnectedKnown(r)
    <3> SUFFICES ASSUME NEW j \in Ids, r.clients[j].state = "Connected"
                 PROVE  LET f == r.clients[j].entity
                        IN  \/ r.mark[f] = Gone \/ Doomed(r, f)
                            \/ r.mark[f] = [state |-> "Connected", id |-> j] \/ <<j, f>> \in r.connections
      BY DEF ConnectedKnown
    <3>1. CASE j = i
      BY <3>1, <2>2, <2>3
    <3>2. CASE j # i
      <4>1. r.clients[j] = s.clients[j]
        BY <3>2, <2>3
      <4> QED  BY <4>1, <2>2, <2>4 DEF Sound, ConnectedKnown
    <3> QED  BY <3>1, <3>2
  <2>13. InboxKnown(r)
    BY <2>2, <2>4 DEF Sound, InboxKnown
  <2> QED  BY <2>7, <2>8, <2>9, <2>10, <2>11, <2>12, <2>13 DEF Sound
<1>4. ASSUME Find(s, e) # NoConn, Left(s, r, e) PROVE Sound(r)
  <2>1. Find(s, e).cid = i /\ s.idMap[e] = i /\ s.clients[i] # NoConn /\ s.clients[i].entity = e
    BY <1>4, <1>b
  <2>2. /\ r.mark = s.mark /\ r.link = s.link /\ r.inbox = s.inbox /\ r.peerMap = s.peerMap
        /\ r.connections = s.connections /\ r.disconnections = s.disconnections \cup {<<i, e>>}
    BY <1>4, <2>1 DEF Left, SameSockets
  <2>3. CASE i \notin Connected(s)
    <3>1. r.clients = s.clients /\ r.idMap = s.idMap
      BY <1>4, <2>1, <2>3 DEF Left
    <3> QED  BY <3>1, <2>2, <1>1 DEF Unmoved
  <2>4. CASE i \in Connected(s)
    <3>1. /\ r.clients = [s.clients EXCEPT ![i] = NoConn] /\ r.idMap = [s.idMap EXCEPT ![e] = None]
      BY <1>4, <2>1, <2>4 DEF Left
    <3>2. /\ r.clients[i] = NoConn /\ r.idMap[e] = None
          /\ \A j \in Ids : j # i => r.clients[j] = s.clients[j]
          /\ \A f \in Links : f # e => r.idMap[f] = s.idMap[f]
      BY <3>1, <1>0, FrameHas
    <3>3. /\ \A f : Live(r, f) <=> Live(s, f)
          /\ \A f : Doomed(s, f) => Doomed(r, f)
          /\ \A j, f : Belongs(r, j, f) <=> Belongs(s, j, f)
      BY <2>2 DEF Live, Doomed, Belongs
    <3>4. Doomed(r, e)
      BY <2>2, <1>0 DEF Doomed
    <3>5. ASSUME NEW j \in Ids, NEW f, Held(s, j, f) PROVE Doomed(r, f) \/ Held(r, j, f)
      BY <3>5, <3>2, <3>4, <2>1 DEF Held
    <3>6. LinksOwned(r)
      BY <2>2, <3>3 DEF Sound, LinksOwned
    <3>7. EntriesNamed(r)
      <4> SUFFICES ASSUME NEW j \in Ids, r.clients[j] # NoConn
                   PROVE  r.clients[j].cid = j /\ IdOf[r.clients[j].tok] = j /\ r.idMap[r.clients[j].entity] = j
        BY DEF EntriesNamed
      <4>1. j # i /\ r.clients[j] = s.clients[j]
        BY <3>2
      <4>2. s.clients[j].cid = j /\ IdOf[s.clients[j].tok] = j /\ s.idMap[s.clients[j].entity] = j
        BY <4>1 DEF Sound, EntriesNamed
      <4>3. s.clients[j].entity \in Links /\ s.clients[j].entity # e
        BY <4>1, <4>2, <2>1, FrameHas, ConstantsAre
      <4> QED  BY <4>1, <4>2, <4>3, <3>2
    <3>8. LinksKnown(r)
      <4> SUFFICES ASSUME NEW f \in Links
                   PROVE  /\ Live(r, f) /\ r.idMap[f] # None =>
                                /\ Belongs(r, r.idMap[f], f)
                                /\ r.clients[r.idMap[f]] # NoConn /\ r.clients[r.idMap[f]].entity = f
                          /\ r.mark[f] = Unused => r.idMap[f] = None
        BY DEF LinksKnown
      <4>1. CASE f = e
        BY <4>1, <3>2
      <4>2. CASE f # e
        <5>1. r.mark[f] = s.mark[f] /\ r.idMap[f] = s.idMap[f]
          BY <4>2, <2>2, <3>2
        <5>2. ASSUME Live(s, f), s.idMap[f] # None
              PROVE  /\ Belongs(s, s.idMap[f], f) /\ s.idMap[f] # i /\ s.idMap[f] \in Ids
                     /\ s.clients[s.idMap[f]] # NoConn /\ s.clients[s.idMap[f]].entity = f
          <6>1. /\ Belongs(s, s.idMap[f], f) /\ s.idMap[f] \in Ids
                /\ s.clients[s.idMap[f]] # NoConn /\ s.clients[s.idMap[f]].entity = f
            BY <5>2, FrameHas DEF Sound, LinksKnown
          <6> QED  BY <6>1, <4>2, <1>0, LinkOfUser
        <5>3. s.mark[f] = Unused => s.idMap[f] = None
          BY DEF Sound, LinksKnown
        <5> QED  BY <5>1, <5>2, <5>3, <3>2, <3>3
      <4> QED  BY <4>1, <4>2
    <3>9. MarksKnown(r)
      BY <2>2, <3>3, <3>5 DEF Sound, MarksKnown
    <3>10. CallbacksKnown(r)
      BY <2>2, <3>3, <3>5 DEF Sound, CallbacksKnown
    <3>11. ConnectedKnown(r)
      <4> SUFFICES ASSUME NEW j \in Ids, r.clients[j].state = "Connected"
                   PROVE  LET f == r.clients[j].entity
                          IN  \/ r.mark[f] = Gone \/ Doomed(r, f)
                              \/ r.mark[f] = [state |-> "Connected", id |-> j] \/ <<j, f>> \in r.connections
        BY DEF ConnectedKnown
      <4>1. r.clients[j] = s.clients[j]
        BY <3>2 DEF NoConn
      <4> QED  BY <4>1, <2>2, <3>3 DEF Sound, ConnectedKnown
    <3>12. InboxKnown(r)
      BY <2>2, <3>3 DEF Sound, InboxKnown
    <3> QED  BY <3>6, <3>7, <3>8, <3>9, <3>10, <3>11, <3>12 DEF Sound
  <2> QED  BY <2>3, <2>4
<1>5. ASSUME NEW u, Denies(s, r, e, u) PROVE Sound(r)
  BY <1>1, <1>5 DEF Denies, OnlyQueued, Unmoved
<1>6. r = s => Sound(r)
  OBVIOUS
<1> QED  BY <1>2, <1>3, <1>4, <1>5, <1>6, PacketIs DEF r

\* At the end of a frame the callbacks have run.
LEMMA DrainKeepsSound ==
    ASSUME OneUserEach, NEW s \in Frames, Sound(s), NEW r \in Frames,
           r.clients = s.clients, r.idMap = s.idMap, r.link = s.link,
           r.mark = Drain(s).mark, r.peerMap = Drain(s).peerMap,
           r.connections = {}, r.disconnections = {}, r.inbox = <<>>
    PROVE  Sound(r)
<1>1. /\ \A e \in Links : r.mark[e] = IF Doomed(s, e) THEN Gone ELSE NewMark(s, e)
      /\ \A i \in Ids : r.peerMap[i] = IF \E e \in Links : Doomed(s, e) /\ NewMark(s, e).id = i
                                       THEN NoLink ELSE NewPeer(s, i)
  <2> DEFINE d == Drain(s)
  <2>1. /\ d.mark = [e \in Links |-> IF Doomed(s, e) THEN Gone ELSE NewMark(s, e)]
        /\ d.peerMap = [i \in Ids |-> IF \E e \in Links : Doomed(s, e) /\ NewMark(s, e).id = i
                                      THEN NoLink ELSE NewPeer(s, i)]
    BY DrainIs
  <2>2. r.mark = d.mark /\ r.peerMap = d.peerMap
    OBVIOUS
  <2> HIDE DEF d
  <2> QED  BY ONLY <2>1, <2>2
<1>2. \A i, e : Belongs(r, i, e) <=> Belongs(s, i, e)
  BY DEF Belongs
<1>3. \A i, e : Held(r, i, e) <=> Held(s, i, e)
  BY DEF Held
\* A connected callback names the user of the link.
<1>4. ASSUME NEW e \in Links, NEW i \in Ids, <<i, e>> \in s.connections
      PROVE  /\ NewMark(s, e) = [state |-> "Connected", id |-> i]
             /\ Belongs(s, i, e) /\ Live(s, e) /\ (Doomed(s, e) \/ Held(s, i, e))
  <2>1. Belongs(s, i, e) /\ Live(s, e) /\ (Doomed(s, e) \/ Held(s, i, e))
    BY <1>4 DEF Sound, CallbacksKnown
  <2> DEFINE j == CHOOSE k \in Ids : <<k, e>> \in s.connections
  <2>2. j \in Ids /\ <<j, e>> \in s.connections
    BY <1>4
  <2> HIDE DEF j
  <2>3. Belongs(s, j, e)
    BY <2>2 DEF Sound, CallbacksKnown
  <2>4. j = i
    BY <2>1, <2>3, UserOfLink DEF Sound
  <2>5. NewMark(s, e) = [state |-> "Connected", id |-> j]
    BY <1>4 DEF NewMark, j
  <2> QED  BY <2>1, <2>4, <2>5
<1>5. ASSUME NEW e \in Links, ~ \E i \in Ids : <<i, e>> \in s.connections
      PROVE  NewMark(s, e) = s.mark[e]
  BY <1>5 DEF NewMark
\* A marker names the user of its link.
<1>6. ASSUME NEW e \in Links, NewMark(s, e).id # None
      PROVE  Belongs(s, NewMark(s, e).id, e) /\ (Doomed(s, e) \/ NewMark(s, e).state = "Connected")
  <2>1. CASE \E i \in Ids : <<i, e>> \in s.connections
    BY <2>1, <1>4
  <2>2. CASE ~ \E i \in Ids : <<i, e>> \in s.connections
    BY <2>2, <1>5, <1>6 DEF Sound, MarksKnown
  <2> QED  BY <2>1, <2>2
<1>7. ASSUME NEW e \in Links, NewMark(s, e).state = "Connected"
      PROVE  NewMark(s, e).id \in Ids /\ (Doomed(s, e) \/ Held(s, NewMark(s, e).id, e))
  <2>1. CASE \E i \in Ids : <<i, e>> \in s.connections
    BY <2>1, <1>4
  <2>2. CASE ~ \E i \in Ids : <<i, e>> \in s.connections
    BY <2>2, <1>5, <1>7 DEF Sound, MarksKnown
  <2> QED  BY <2>1, <2>2
<1>8. \A e \in Links : Live(r, e) => Live(s, e) /\ r.mark[e] = NewMark(s, e) /\ ~ Doomed(s, e)
  <2> SUFFICES ASSUME NEW e \in Links, Live(r, e)
               PROVE  Live(s, e) /\ r.mark[e] = NewMark(s, e) /\ ~ Doomed(s, e)
    OBVIOUS
  <2>1. r.mark[e] = NewMark(s, e) /\ ~ Doomed(s, e)
    BY <1>1 DEF Live
  <2>2. CASE \E i \in Ids : <<i, e>> \in s.connections
    BY <2>1, <2>2, <1>4
  <2>3. CASE ~ \E i \in Ids : <<i, e>> \in s.connections
    BY <2>1, <2>3, <1>5 DEF Live
  <2> QED  BY <2>1, <2>2, <2>3
<1>9. \A e \in Links : r.mark[e] = Unused => s.mark[e] = Unused
  <2> SUFFICES ASSUME NEW e \in Links, r.mark[e] = Unused PROVE s.mark[e] = Unused
    OBVIOUS
  <2>1. r.mark[e] = NewMark(s, e)
    BY <1>1 DEF Unused, Gone
  <2>2. ~ \E i \in Ids : <<i, e>> \in s.connections
    <3> SUFFICES ASSUME NEW i \in Ids, <<i, e>> \in s.connections PROVE FALSE
      OBVIOUS
    <3>1. NewMark(s, e) = [state |-> "Connected", id |-> i]
      BY <1>4
    <3> QED  BY <2>1, <3>1 DEF Unused
  <2> QED  BY <2>1, <2>2, <1>5
<1>10. LinksOwned(r)
  <2>1. \A c \in Clients : r.link[c] # NoLink => r.mark[r.link[c]] # Unused
    BY <1>9, FrameHas DEF Sound, LinksOwned
  <2> QED  BY <2>1, <1>8 DEF Sound, LinksOwned
<1>11. EntriesNamed(r)
  BY DEF Sound, EntriesNamed
<1>12. LinksKnown(r)
  BY <1>2, <1>8, <1>9 DEF Sound, LinksKnown
<1>13. MarksKnown(r)
  <2> SUFFICES ASSUME NEW e \in Links
               PROVE  /\ r.mark[e].id # None =>
                            Belongs(r, r.mark[e].id, e) /\ (Doomed(r, e) \/ r.mark[e].state = "Connected")
                      /\ r.mark[e].state = "Connected" =>
                            /\ r.mark[e].id \in Ids /\ r.peerMap[r.mark[e].id] = e
                            /\ Doomed(r, e) \/ Held(r, r.mark[e].id, e)
    BY DEF MarksKnown
  <2>1. CASE Doomed(s, e)
    <3>1. r.mark[e] = Gone
      BY <2>1, <1>1
    <3> QED  BY <3>1 DEF Gone
  <2>2. CASE ~ Doomed(s, e)
    <3>1. r.mark[e] = NewMark(s, e)
      BY <2>2, <1>1
    <3>2. ASSUME NewMark(s, e).id # None
          PROVE  Belongs(r, NewMark(s, e).id, e) /\ NewMark(s, e).state = "Connected"
      BY <3>2, <2>2, <1>2, <1>6
    <3>3. ASSUME NewMark(s, e).state = "Connected"
          PROVE  /\ NewMark(s, e).id \in Ids /\ r.peerMap[NewMark(s, e).id] = e
                 /\ Held(r, NewMark(s, e).id, e)
      <4> DEFINE i == NewMark(s, e).id
      <4>1. i \in Ids /\ Held(s, i, e)
        BY <3>3, <2>2, <1>7
      <4>2. Belongs(s, i, e)
        BY <4>1, <1>6, ConstantsAre
      <4>3. ~ \E f \in Links : Doomed(s, f) /\ NewMark(s, f).id = i
        <5> SUFFICES ASSUME NEW f \in Links, Doomed(s, f), NewMark(s, f).id = i PROVE FALSE
          OBVIOUS
        <5>1. Belongs(s, i, f)
          BY <4>1, <1>6, ConstantsAre
        <5>2. f = e
          BY <5>1, <4>2, LinkOfUser
        <5> QED  BY <5>2, <2>2
      <4>4. NewPeer(s, i) = e
        <5>1. CASE \E f \in Links : <<i, f>> \in s.connections
          <6> DEFINE f == CHOOSE g \in Links : <<i, g>> \in s.connections
          <6>1. f \in Links /\ <<i, f>> \in s.connections
            BY <5>1
          <6>2. NewPeer(s, i) = f
            BY <5>1 DEF NewPeer
          <6> HIDE DEF f
          <6>3. Belongs(s, i, f)
            BY <6>1, <1>4, <4>1
          <6> QED  BY <6>2, <6>3, <4>2, LinkOfUser
        <5>2. CASE ~ \E f \in Links : <<i, f>> \in s.connections
          <6>1. ~ \E j \in Ids : <<j, e>> \in s.connections
            <7> SUFFICES ASSUME NEW j \in Ids, <<j, e>> \in s.connections PROVE FALSE
              OBVIOUS
            <7>1. NewMark(s, e) = [state |-> "Connected", id |-> j]
              BY <1>4
            <7> QED  BY <7>1, <5>2
          <6>2. NewMark(s, e) = s.mark[e]
            BY <6>1, <1>5
          <6>3. s.peerMap[i] = e
            BY <6>2, <3>3 DEF Sound, MarksKnown
          <6> QED  BY <5>2, <6>3 DEF NewPeer
        <5> QED  BY <5>1, <5>2
      <4>5. r.peerMap[i] = e
        <5> HIDE DEF i
        <5> QED  BY <1>1, <4>1, <4>3, <4>4
      <4> QED  BY <4>1, <4>5, <1>3
    <3> QED  BY <3>1, <3>2, <3>3
  <2> QED  BY <2>1, <2>2
<1>14. CallbacksKnown(r)
  BY DEF CallbacksKnown
<1>15. ConnectedKnown(r)
  <2> SUFFICES ASSUME NEW i \in Ids, s.clients[i].state = "Connected"
               PROVE  LET e == s.clients[i].entity
                      IN  r.mark[e] = Gone \/ r.mark[e] = [state |-> "Connected", id |-> i]
    BY DEF ConnectedKnown
  <2> DEFINE e == s.clients[i].entity
  <2>1. e \in Links
    BY FrameHas, ConstantsAre
  <2>2. \/ s.mark[e] = Gone \/ Doomed(s, e)
        \/ s.mark[e] = [state |-> "Connected", id |-> i] \/ <<i, e>> \in s.connections
    BY DEF Sound, ConnectedKnown
  <2> HIDE DEF e
  <2>3. CASE Doomed(s, e)
    BY <2>1, <2>3, <1>1 DEF e
  <2>4. CASE ~ Doomed(s, e) /\ \E j \in Ids : <<j, e>> \in s.connections
    <3>1. PICK j \in Ids : <<j, e>> \in s.connections
      BY <2>4
    <3>2. NewMark(s, e) = [state |-> "Connected", id |-> j] /\ Belongs(s, j, e) /\ Live(s, e)
      BY <2>1, <3>1, <1>4
    <3>3. j = i
      <4>1. CASE s.mark[e] = [state |-> "Connected", id |-> i]
        <5>1. s.mark[e].id = i /\ i # None
          BY <4>1, ConstantsAre
        <5>2. Belongs(s, i, e)
          BY <5>1, <2>1 DEF Sound, MarksKnown
        <5> QED  BY <5>2, <3>2, <2>1, UserOfLink DEF Sound
      <4>2. CASE <<i, e>> \in s.connections
        <5>1. NewMark(s, e) = [state |-> "Connected", id |-> i]
          BY <4>2, <2>1, <1>4
        <5> QED  BY <5>1, <3>2
      <4> QED  BY <4>1, <4>2, <2>2, <2>4, <3>2 DEF Live
    <3> QED  BY <2>1, <2>4, <3>2, <3>3, <1>1 DEF e
  <2>5. CASE ~ Doomed(s, e) /\ ~ \E j \in Ids : <<j, e>> \in s.connections
    <3>1. r.mark[e] = s.mark[e]
      BY <2>1, <2>5, <1>1, <1>5
    <3> QED  BY <3>1, <2>2, <2>5 DEF e
  <2> QED  BY <2>3, <2>4, <2>5
<1>16. InboxKnown(r)
  BY DEF InboxKnown
<1> QED  BY <1>10, <1>11, <1>12, <1>13, <1>14, <1>15, <1>16 DEF Sound

-----------------------------------------------------------------------------
(* Tokens.  Whatever is under way was made with a token that was used, and a       *)
(* keep-alive with one that the server had accepted.                               *)

\* us are the tokens used so far.
Trusted(s, us) ==
    /\ \A i \in Ids : /\ s.clients[i] # NoConn => s.clients[i].tok \in us
                      /\ s.clients[i].state = "Connected" => s.clients[i].tok \in s.accepted
    /\ \A e \in Links : \A m \in s.queue[e] :
          m.tok \in us /\ (m.kind = "KeepAlive" => m.tok \in s.accepted)
    /\ \A k \in DOMAIN s.inbox : s.inbox[k][2].tok \in us

\* Reading a datagram trusts no token.
LEMMA UdpKeepsTrusted ==
    ASSUME NEW us, NEW s \in Frames, NEW p \in Packets, Trusted(s, us), p.tok \in us
    PROVE  Trusted(UdpReceive(s, p), us)
<1> DEFINE r == UdpReceive(s, p)
<1>1. r \in Frames
  BY UdpReceiveIs
<1> HIDE DEF r
<1>2. ASSUME NEW e \in Links, r.inbox = Append(s.inbox, <<e, p>>), SameCache(s, r) PROVE Trusted(r, us)
  <2>1. s.inbox \in Seq(Links \X Packets) /\ <<e, p>> \in Links \X Packets
    BY FrameHas
  <2>2. \A k \in DOMAIN r.inbox : \/ k \in DOMAIN s.inbox /\ r.inbox[k] = s.inbox[k]
                                  \/ r.inbox[k] = <<e, p>>
    BY <1>2, <2>1, AppendProperties
  <2>3. \A k \in DOMAIN r.inbox : r.inbox[k][2].tok \in us
    BY <2>2 DEF Trusted
  <2> QED  BY <1>2, <2>3 DEF Trusted, SameCache
<1>3. ASSUME r.inbox = s.inbox, SameCache(s, r) PROVE Trusted(r, us)
  BY <1>3 DEF Trusted, SameCache
<1>4. Owner(p.tok) \in Clients
  BY TokensAre DEF Packets
<1>5. ASSUME NEW e \in Links, Spawned(s, r, p, e) PROVE Trusted(r, us)
  BY <1>2, <1>5 DEF Spawned
<1>6. Forgotten(s, r, p) => Trusted(r, us)
  BY <1>3 DEF Forgotten
<1>7. ASSUME Received(s, r, p) PROVE Trusted(r, us)
  <2>1. s.link[Owner(p.tok)] \in Links
    BY <1>4, <1>7, FrameHas DEF Received
  <2> QED  BY <2>1, <1>2, <1>7 DEF Received
<1> QED  BY <1>5, <1>6, <1>7, UdpReceiveIs DEF r

\* A timeout trusts no token.
LEMMA TimeOutKeepsTrusted ==
    ASSUME NEW us, NEW s \in Frames, NEW late, late \subseteq Connected(s), Trusted(s, us)
    PROVE  Trusted(TimeOut(s, late), us)
<1> DEFINE r == TimeOut(s, late)
<1>1. /\ \A i \in Ids : r.clients[i] = IF i \in late THEN NoConn ELSE s.clients[i]
      /\ r.queue = s.queue /\ r.accepted = s.accepted /\ r.inbox = s.inbox
  <2>1. TimedOut(s, r, late)
    BY TimeOutIs
  <2> HIDE DEF r
  <2> QED  BY <2>1 DEF TimedOut
<1> HIDE DEF r
<1> QED  BY <1>1 DEF Trusted, NoConn, r

\* A keep-alive is queued, and a connection connected, with the token that was accepted.
LEMMA PacketKeepsTrusted ==
    ASSUME OneUserEach, NEW us, NEW s \in Frames, Sound(s), Trusted(s, us),
           NEW e \in Links, NEW p \in Packets,
           Live(s, e), s.link[Owner(p.tok)] = e, p.tok \in us
    PROVE  Trusted(ProcessPacket(s, e, p), us)
<1> DEFINE r == ProcessPacket(s, e, p)
           t == p.tok
           i == IdOf[t]
<1>0. /\ t \in Tokens /\ i \in Ids /\ Owner(t) \in Clients /\ r \in Frames /\ Belongs(s, i, e)
  BY TokensAre, UsersAre, PacketIs DEF Packets, Belongs
<1> HIDE DEF r
<1>a. Find(s, e) # NoConn => Find(s, e) = s.clients[i] /\ s.idMap[e] = i /\ s.clients[i].cid = i
  <2>1. Find(s, e) # NoConn => s.idMap[e] \in Ids /\ Find(s, e) = s.clients[s.idMap[e]] /\ s.idMap[e] # None
    BY FindIs
  <2>2. s.idMap[e] # None => s.idMap[e] = i
    BY <1>0, UserOfLink DEF Sound, LinksKnown
  <2> QED  BY <2>1, <2>2 DEF Sound, EntriesNamed
\* What is queued.
<1>b. ASSUME NEW kind, NEW u \in us, Queues(s, r, e, kind, u), s.accepted \subseteq r.accepted,
             kind = "KeepAlive" => u \in r.accepted
      PROVE  \A f \in Links : \A m \in r.queue[f] :
                m.tok \in us /\ (m.kind = "KeepAlive" => m.tok \in r.accepted)
  <2>1. \A f \in Links : \A m \in r.queue[f] : m \in s.queue[f] \/ m = Packet("client", kind, u)
    BY <1>b, FrameHas DEF Queues
  <2> QED  BY <2>1, <1>b DEF Trusted, Packet
<1>1. ASSUME NEW u \in us, Denies(s, r, e, u) PROVE Trusted(r, us)
  <2>1. /\ r.clients = s.clients /\ r.accepted = s.accepted /\ r.inbox = s.inbox
        /\ Queues(s, r, e, "Denied", u)
    BY <1>1 DEF Denies, OnlyQueued
  <2>2. \A f \in Links : \A m \in r.queue[f] :
            m.tok \in us /\ (m.kind = "KeepAlive" => m.tok \in r.accepted)
    BY <2>1, <1>b
  <2> QED  BY <2>1, <2>2 DEF Trusted
<1>2. ASSUME Asked(s, r, t, e) PROVE Trusted(r, us)
  <2>1. r.accepted = s.accepted /\ r.inbox = s.inbox /\ Queues(s, r, e, "Challenge", t)
    BY <1>2 DEF Asked, SameSockets
  <2>2. \A f \in Links : \A m \in r.queue[f] :
            m.tok \in us /\ (m.kind = "KeepAlive" => m.tok \in r.accepted)
    BY <2>1, <1>b
  <2>3. /\ r.clients[i].tok = t /\ r.clients[i].state # "Connected"
        /\ \A j \in Ids : j # i => r.clients[j] = s.clients[j]
    <3>1. CASE Find(s, e) # NoConn
      <4>1. r.clients = [s.clients EXCEPT ![i] = [@ EXCEPT !.cid = IdOf[t], !.tok = t]]
        BY <1>2, <3>1, <1>a DEF Asked
      <4>2. s.clients[i] \in [state : {"Pending", "Connected"}, cid : Ids, entity : Links, tok : Tokens]
        BY <1>0, <1>a, <3>1, FrameHas DEF Conns
      <4>3. r.clients[i] = [s.clients[i] EXCEPT !.cid = i, !.tok = t]
            /\ \A j \in Ids : j # i => r.clients[j] = s.clients[j]
        BY <4>1, <1>0, FrameHas
      <4>4. r.clients[i].state = s.clients[i].state /\ r.clients[i].tok = t
        BY <4>2, <4>3
      <4>5. s.clients[i].state # "Connected"
        BY <1>2, <1>0 DEF Asked, Connected
      <4> QED  BY <4>3, <4>4, <4>5
    <3>2. CASE Find(s, e) = NoConn
      <4>1. r.clients = [s.clients EXCEPT ![i] = [state |-> "Pending", cid |-> i, entity |-> e, tok |-> t]]
        BY <1>2, <3>2 DEF Asked
      <4>2. r.clients[i] = [state |-> "Pending", cid |-> i, entity |-> e, tok |-> t]
            /\ \A j \in Ids : j # i => r.clients[j] = s.clients[j]
        BY <4>1, <1>0, FrameHas
      <4> QED  BY <4>2
    <3> QED  BY <3>1, <3>2
  <2> QED  BY <2>1, <2>2, <2>3 DEF Trusted
<1>3. ASSUME Find(s, e) # NoConn, s.clients[Find(s, e).cid].tok = t, Answered(s, r, t, e) PROVE Trusted(r, us)
  <2>1. s.clients[i].tok = t
    BY <1>3, <1>a
  <2>2. /\ r.clients = [s.clients EXCEPT ![i] = [@ EXCEPT !.state = "Connected"]]
        /\ r.accepted = s.accepted \cup {t} /\ r.inbox = s.inbox /\ Queues(s, r, e, "KeepAlive", t)
    BY <1>3, <2>1 DEF Answered, SameSockets
  <2>3. \A f \in Links : \A m \in r.queue[f] :
            m.tok \in us /\ (m.kind = "KeepAlive" => m.tok \in r.accepted)
    BY <2>2, <1>b
  <2>4. r.clients[i].tok = t /\ \A j \in Ids : j # i => r.clients[j] = s.clients[j]
    <3>1. s.clients[i] \in [state : {"Pending", "Connected"}, cid : Ids, entity : Links, tok : Tokens]
      BY <1>0, <1>a, <1>3, FrameHas DEF Conns
    <3>2. r.clients[i] = [s.clients[i] EXCEPT !.state = "Connected"]
          /\ \A j \in Ids : j # i => r.clients[j] = s.clients[j]
      BY <2>2, <1>0, FrameHas
    <3> QED  BY <3>1, <3>2, <2>1
  <2> QED  BY <2>2, <2>3, <2>4 DEF Trusted
<1>4. ASSUME Left(s, r, e) PROVE Trusted(r, us)
  <2>1. r.queue = s.queue /\ r.accepted = s.accepted /\ r.inbox = s.inbox
    BY <1>4 DEF Left, SameSockets
  <2>2. \A j \in Ids : r.clients[j] = s.clients[j] \/ r.clients[j] = NoConn
    BY <1>4, FrameHas DEF Left
  <2> QED  BY <2>1, <2>2 DEF Trusted, NoConn
<1>5. ASSUME Find(s, e) # NoConn, s.clients[Find(s, e).cid].tok = t, Denies(s, r, e, s.clients[i].tok)
      PROVE  Trusted(r, us)
  <2>1. s.clients[i].tok = t
    BY <1>5, <1>a
  <2> QED  BY <2>1, <1>1, <1>5
<1>6. r = s => Trusted(r, us)
  OBVIOUS
<1> QED  BY <1>1, <1>2, <1>3, <1>4, <1>5, <1>6, PacketIs DEF r

-----------------------------------------------------------------------------
(* A frame of the server. *)

FrameInv(s, us) ==
    /\ HasRoom(s)
    /\ OneUserEach => Sound(s)
    /\ OneUserEach /\ ~ ReuseTokens => Trusted(s, us)

\* A datagram of the frame.
LEMMA UdpKeepsFrame ==
    ASSUME NEW us, NEW s \in Frames, NEW p \in Packets, FrameInv(s, us),
           OneUserEach /\ ~ ReuseTokens => p.tok \in us
    PROVE  LET r == UdpReceive(s, p)
           IN  r \in Frames /\ FrameInv(r, us) /\ r.clients = s.clients /\ r.accepted = s.accepted
<1> DEFINE r == UdpReceive(s, p)
<1>1. r \in Frames /\ r.clients = s.clients /\ r.accepted = s.accepted
  <2>1. r \in Frames /\ (r = s \/ (\E e \in Links : Spawned(s, r, p, e)) \/ Forgotten(s, r, p) \/ Received(s, r, p))
    BY UdpReceiveIs
  <2> HIDE DEF r
  <2> QED  BY <2>1 DEF Spawned, Forgotten, Received, SameCache
<1>2. HasRoom(r)
  <2> HIDE DEF r
  <2>1. Connected(r) = Connected(s)
    BY <1>1 DEF Connected
  <2> QED  BY <2>1, FewerHaveRoom DEF FrameInv
<1>3. OneUserEach => Sound(r)
  BY UdpKeepsSound DEF FrameInv
<1>4. OneUserEach /\ ~ ReuseTokens => Trusted(r, us)
  BY UdpKeepsTrusted DEF FrameInv
<1> HIDE DEF r
<1> QED  BY <1>1, <1>2, <1>3, <1>4 DEF FrameInv, r

\* A packet of the frame.
LEMMA PacketKeepsFrame ==
    ASSUME NEW us, NEW s \in Frames, FrameInv(s, us), NEW k \in 1 .. Len(s.inbox)
    PROVE  LET r == ProcessPacket(s, s.inbox[k][1], s.inbox[k][2])
           IN  r \in Frames /\ FrameInv(r, us) /\ r.inbox = s.inbox /\ s.accepted \subseteq r.accepted
<1> DEFINE e == s.inbox[k][1]
           p == s.inbox[k][2]
           r == ProcessPacket(s, e, p)
<1>1. e \in Links /\ p \in Packets /\ k \in DOMAIN s.inbox
  <2>1. s.inbox \in Seq(Links \X Packets)
    BY FrameHas
  <2>2. s.inbox[k] \in Links \X Packets /\ k \in DOMAIN s.inbox
    BY <2>1
  <2> QED  BY <2>2
<1>2. /\ OneUserEach => Live(s, e) /\ s.link[Owner(p.tok)] = e
      /\ OneUserEach /\ ~ ReuseTokens => p.tok \in us
  BY <1>1 DEF FrameInv, Sound, InboxKnown, Trusted
<1> HIDE DEF e, p
<1>3. r \in Frames /\ r.inbox = s.inbox /\ s.accepted \subseteq r.accepted
  <2> DEFINE opened == Find(s, e) # NoConn /\ s.clients[Find(s, e).cid].tok = p.tok
  <2>1. /\ r \in Frames
        /\ \/ r = s
           \/ Denies(s, r, e, p.tok)
           \/ Asked(s, r, p.tok, e)
           \/ opened /\ Denies(s, r, e, s.clients[IdOf[p.tok]].tok)
           \/ opened /\ Answered(s, r, p.tok, e)
           \/ opened /\ Left(s, r, e)
    BY <1>1, PacketIs
  <2> HIDE DEF r, opened
  <2> QED  BY <2>1 DEF Denies, OnlyQueued, Asked, Answered, Left, SameSockets
<1>4. HasRoom(r)
  BY <1>1, PacketKeepsRoom DEF FrameInv
<1>5. OneUserEach => Sound(r)
  BY <1>1, <1>2, PacketKeepsSound DEF FrameInv
<1>6. OneUserEach /\ ~ ReuseTokens => Trusted(r, us)
  BY <1>1, <1>2, PacketKeepsTrusted DEF FrameInv
<1> HIDE DEF r
<1> QED  BY <1>3, <1>4, <1>5, <1>6 DEF FrameInv, r, e, p

\* A batch is a sequence of packets.
LEMMA BatchesAre ==
    ASSUME NEW N, NEW b \in Batches(N)
    PROVE  Len(b) \in Nat /\ \A k \in 1 .. Len(b) : b[k] \in N
<1>1. PICK n \in 0 .. MaxBatch : b \in [1 .. n -> N]
  BY DEF Batches
<1>2. b \in Seq(N) /\ Len(b) = n
  BY <1>1, NetcodeAssumption
<1> QED  BY <1>1, <1>2

\* The frame up to its callbacks.
LEMMA ReadingKeepsFrame ==
    ASSUME NEW us, NEW s \in Frames, FrameInv(s, us), NEW N, N \subseteq Packets,
           OneUserEach /\ ~ ReuseTokens => \A p \in N : p.tok \in us,
           NEW b \in Batches(N), NEW late, late \subseteq Connected(s)
    PROVE  LET r == ProcessInbox(TimeOut(UdpReads(s, b), late))
           IN  r \in Frames /\ FrameInv(r, us) /\ s.accepted \subseteq r.accepted
<1> DEFINE u == UdpReads(s, b)
           v == TimeOut(u, late)
           r == ProcessInbox(v)
           S == {x \in Frames : FrameInv(x, us) /\ x.clients = s.clients /\ x.accepted = s.accepted}
<1>1. u \in S
  <2>1. Len(b) \in Nat /\ \A k \in 1 .. Len(b) : b[k] \in N
    BY BatchesAre
  <2>2. ASSUME NEW x \in S, NEW k \in 1 .. Len(b) PROVE UdpReceive(x, b[k]) \in S
    <3>1. x \in Frames /\ FrameInv(x, us) /\ x.clients = s.clients /\ x.accepted = s.accepted
      OBVIOUS
    <3>2. b[k] \in Packets /\ (OneUserEach /\ ~ ReuseTokens => b[k].tok \in us)
      BY <2>1
    <3> DEFINE y == UdpReceive(x, b[k])
    <3>3. y \in Frames /\ FrameInv(y, us) /\ y.clients = x.clients /\ y.accepted = x.accepted
      BY <3>1, <3>2, UdpKeepsFrame
    <3> HIDE DEF y
    <3>4. y \in S
      BY <3>1, <3>3
    <3> QED  BY <3>4 DEF y
  <2>3. s \in S
    OBVIOUS
  <2> HIDE DEF S
  <2> QED  BY <2>1, <2>2, <2>3, UdpReadsStays
<1>2. u \in Frames /\ FrameInv(u, us) /\ u.clients = s.clients /\ u.accepted = s.accepted
  BY <1>1
<1> HIDE DEF u, S
<1>3. late \subseteq Connected(u)
  BY <1>2 DEF Connected
<1>4. v \in Frames /\ FrameInv(v, us) /\ v.accepted = s.accepted
  <2>1. v \in Frames /\ TimedOut(u, v, late)
    BY <1>2, <1>3, TimeOutIs
  <2>2. OneUserEach => Sound(v)
    BY <1>2, <1>3, TimeOutKeepsSound DEF FrameInv
  <2>3. OneUserEach /\ ~ ReuseTokens => Trusted(v, us)
    BY <1>2, <1>3, TimeOutKeepsTrusted DEF FrameInv
  <2> HIDE DEF v
  <2>4. Connected(v) \subseteq Connected(u)
    BY <2>1 DEF TimedOut, Connected, NoConn
  <2>5. HasRoom(v)
    BY <2>4, <1>2, FewerHaveRoom DEF FrameInv
  <2> QED  BY <1>2, <2>1, <2>2, <2>3, <2>5 DEF FrameInv, TimedOut
<1> DEFINE T == {x \in Frames : FrameInv(x, us) /\ x.inbox = v.inbox /\ s.accepted \subseteq x.accepted}
<1> HIDE DEF v
<1>5. r \in T
  <2>1. Len(v.inbox) \in Nat
    BY <1>4, FrameHas
  <2>2. ASSUME NEW x \in T, NEW k \in 1 .. Len(v.inbox)
        PROVE  ProcessPacket(x, v.inbox[k][1], v.inbox[k][2]) \in T
    <3>1. x \in Frames /\ FrameInv(x, us) /\ x.inbox = v.inbox /\ s.accepted \subseteq x.accepted
      OBVIOUS
    <3> DEFINE y == ProcessPacket(x, x.inbox[k][1], x.inbox[k][2])
    <3>2. y \in Frames /\ FrameInv(y, us) /\ y.inbox = x.inbox /\ x.accepted \subseteq y.accepted
      BY <3>1, PacketKeepsFrame
    <3> HIDE DEF y
    <3>3. y \in T
      BY <3>1, <3>2
    <3> QED  BY <3>1, <3>3 DEF y
  <2>3. v \in T
    BY <1>4
  <2> HIDE DEF T
  <2> QED  BY <2>1, <2>2, <2>3, ProcessInboxStays
<1> HIDE DEF r
<1> QED  BY <1>5 DEF r, v, u

-----------------------------------------------------------------------------
(* A frame of a client. *)

\* A client that is connected was accepted; ok says that its token was.
ClientRuns(ok) ==
    {r \in [st : {"SendingConnectionRequest", "SendingChallengeResponse", "Connected"},
            leave : BOOLEAN, heard : BOOLEAN] : r.st = "Connected" => ok}

\* A client becomes connected by a keep-alive only, or stays so.
LEMMA ReadingKeepsRun ==
    ASSUME NEW ok \in BOOLEAN, NEW r \in ClientRuns(ok), NEW N, NEW b \in Batches(N),
           \A p \in N : p.kind = "KeepAlive" => ok
    PROVE  ClientReads(r, b) \in ClientRuns(ok)
<1>1. Len(b) \in Nat /\ \A k \in 1 .. Len(b) : b[k] \in N
  BY BatchesAre
<1>2. ASSUME NEW x \in ClientRuns(ok), NEW p \in N PROVE ClientProcess(x, p) \in ClientRuns(ok)
  BY DEF ClientProcess, ClientRuns
<1> DEFINE S == ClientRuns(ok)
<1>3. \A x \in S : \A k \in 1 .. Len(b) : ClientProcess(x, b[k]) \in S
  BY <1>1, <1>2
<1> HIDE DEF S
<1>4. r \in S
  BY DEF S
<1>5. ClientReads(r, b) \in S
  BY <1>1, <1>3, <1>4, ClientReadsStays
<1> QED  BY <1>5 DEF S

\* Clients send to the server, under their token.
LEMMA SendsAre ==
    ASSUME NEW st, NEW t \in Tokens, NEW p \in ClientSends(st, t)
    PROVE  p \in Packets /\ p.to = "server" /\ p.tok = t
BY DEF ClientSends, Packet, Packets

-----------------------------------------------------------------------------
(* The invariant. *)

ClientsTyped ==
    /\ cst \in [Clients -> {"Disconnected", "SendingConnectionRequest",
                            "SendingChallengeResponse", "Connected"}]
    /\ tok \in [Clients -> Tokens] /\ \A c \in Clients : tok[c] \in TokensOf[c]
    /\ used \subseteq Tokens /\ net \subseteq Packets

\* Where no token is used twice, the packets under way and the clients that are not
\* disconnected have tokens that were used, and keep-alives tokens that were accepted.
NetTrusted ==
    /\ \A m \in net : /\ m.tok \in used
                      /\ m.to = "client" /\ m.kind = "KeepAlive" => m.tok \in accepted
    /\ \A c \in Clients : cst[c] # "Disconnected" => tok[c] \in used
    /\ ConnectedIsAccepted

\* The state between two frames is one in which a frame may start.
IsStart(s) ==
    /\ s \in Frames
    /\ s.clients = clients /\ s.idMap = idMap /\ s.queue = queue /\ s.link = link /\ s.mark = mark
    /\ s.peerMap = peerMap /\ s.accepted = accepted
    /\ s.connections = {} /\ s.disconnections = {} /\ s.spawning = {} /\ s.inbox = <<>>

NetcodeInv ==
    /\ ClientsTyped
    /\ \E s : IsStart(s) /\ FrameInv(s, used)
    /\ OneUserEach /\ ~ ReuseTokens => NetTrusted

\* Frames are records of their fields.
LEMMA StartIs ==
    ASSUME NEW s, IsStart(s)
    PROVE  s = FrameStart
BY DEF IsStart, FrameStart, Frames

\* Nobody is connected at the start.
LEMMA NetcodeInitInv == NetcodeInit => NetcodeInv
<1> SUFFICES ASSUME NetcodeInit PROVE NetcodeInv
  OBVIOUS
<1>1. ClientsTyped
  <2>1. \A c \in Clients : (CHOOSE t \in TokensOf[c] : TRUE) \in TokensOf[c]
    BY NetcodeAssumption
  <2>2. \A c \in Clients : tok[c] \in TokensOf[c] /\ tok[c] \in Tokens
    BY <2>1, TokensAre DEF NetcodeInit
  <2>3. DOMAIN tok = Clients /\ tok = [c \in Clients |-> tok[c]]
    BY DEF NetcodeInit
  <2> QED  BY <2>2, <2>3 DEF NetcodeInit, ClientsTyped
<1>2. PICK s \in Frames : IsStart(s)
  <2>1. clients \in [Ids -> Conns] /\ idMap \in [Links -> Ids \cup {None}] /\ queue \in [Links -> SUBSET Packets]
    BY ConstantsAre DEF NetcodeInit
  <2>2. link \in [Clients -> Links \cup {NoLink}] /\ mark \in [Links -> Marks]
    BY ConstantsAre DEF NetcodeInit
  <2>3. peerMap \in [Ids -> Links \cup {NoLink}] /\ accepted \in SUBSET Tokens
    BY DEF NetcodeInit
  <2>4. FrameStart \in Frames
    BY <2>1, <2>2, <2>3 DEF FrameStart, Frames
  <2> QED  BY <2>4 DEF IsStart, FrameStart
<1>3. /\ s.clients = [i \in Ids |-> NoConn] /\ s.idMap = [e \in Links |-> None]
      /\ s.queue = [e \in Links |-> {}] /\ s.link = [c \in Clients |-> NoLink]
      /\ s.mark = [e \in Links |-> Unused] /\ s.connections = {} /\ s.disconnections = {}
      /\ s.inbox = <<>>
  BY <1>2 DEF IsStart, NetcodeInit
<1>4. HasRoom(s)
  <2>1. Connected(s) = {}
    BY <1>3 DEF Connected, NoConn
  <2> QED  BY <2>1, FS_EmptySet, ConstantsAre DEF HasRoom
<1>5. Sound(s)
  <2>1. \A e \in Links : s.mark[e] = Unused /\ ~ Live(s, e)
    BY <1>3 DEF Live
  <2>2. LinksOwned(s) /\ EntriesNamed(s) /\ LinksKnown(s)
    BY <1>3, <2>1 DEF LinksOwned, EntriesNamed, LinksKnown
  <2>3. MarksKnown(s)
    BY <2>1 DEF MarksKnown, Unused
  <2>4. CallbacksKnown(s) /\ InboxKnown(s)
    BY <1>3 DEF CallbacksKnown, InboxKnown
  <2>5. ConnectedKnown(s)
    BY <1>3 DEF ConnectedKnown, NoConn
  <2> QED  BY <2>2, <2>3, <2>4, <2>5 DEF Sound
<1>6. Trusted(s, used)
  BY <1>3 DEF Trusted, NoConn
<1>7. NetTrusted
  BY DEF NetcodeInit, NetTrusted, ConnectedIsAccepted
<1> QED  BY <1>1, <1>2, <1>4, <1>5, <1>6, <1>7 DEF NetcodeInv, FrameInv

\* A frame of the server: what it reads keeps its tables, its callbacks make the markers agree
\* with them, and it sends keep-alives for tokens it accepted.
LEMMA ServerFrameInv == NetcodeInv /\ ServerFrame => NetcodeInv'
<1> SUFFICES ASSUME NetcodeInv, ServerFrame PROVE NetcodeInv'
  OBVIOUS
<1>1. PICK s0 \in Frames : IsStart(s0) /\ FrameInv(s0, used)
  BY DEF NetcodeInv, IsStart
<1>2. s0 = FrameStart
  BY <1>1, StartIs
<1> DEFINE N == {p \in net : p.to = "server"}
<1>3. PICK b \in Batches(N), late \in SUBSET Connected(s0) :
         \E s \in {Drain(ProcessInbox(TimeOut(UdpReads(s0, b), late)))} :
             /\ net' = net \cup ServerSends(s)
             /\ clients' = s.clients /\ idMap' = s.idMap
             /\ queue' = [e \in Links |-> IF s.mark[e] \in {Gone, Unused} THEN s.queue[e] ELSE {}]
             /\ link' = s.link /\ mark' = s.mark /\ peerMap' = s.peerMap
             /\ accepted' = s.accepted
             /\ UNCHANGED clientVars
  BY <1>2, Zenon DEF ServerFrame
<1> DEFINE q == ProcessInbox(TimeOut(UdpReads(s0, b), late))
           s == Drain(q)
<1>4. q \in Frames /\ FrameInv(q, used) /\ s0.accepted \subseteq q.accepted
  <2>1. N \subseteq Packets
    BY DEF NetcodeInv, ClientsTyped
  <2>2. OneUserEach /\ ~ ReuseTokens => \A p \in N : p.tok \in used
    BY DEF NetcodeInv, NetTrusted
  <2> QED  BY <1>1, <2>1, <2>2, ReadingKeepsFrame
<1> HIDE DEF q
<1>5. /\ s \in Frames
      /\ s.clients = q.clients /\ s.idMap = q.idMap /\ s.queue = q.queue /\ s.link = q.link
      /\ s.accepted = q.accepted
  BY <1>4, DrainIs
<1>6. /\ net' = net \cup ServerSends(s)
      /\ clients' = q.clients /\ idMap' = q.idMap
      /\ queue' = [e \in Links |-> IF s.mark[e] \in {Gone, Unused} THEN q.queue[e] ELSE {}]
      /\ link' = q.link /\ mark' = s.mark /\ peerMap' = s.peerMap
      /\ accepted' = q.accepted
      /\ cst' = cst /\ tok' = tok /\ used' = used
  <2>1. PICK x \in {s} :
             /\ net' = net \cup ServerSends(x)
             /\ clients' = x.clients /\ idMap' = x.idMap
             /\ queue' = [e \in Links |-> IF x.mark[e] \in {Gone, Unused} THEN x.queue[e] ELSE {}]
             /\ link' = x.link /\ mark' = x.mark /\ peerMap' = x.peerMap
             /\ accepted' = x.accepted
             /\ UNCHANGED clientVars
    BY <1>3 DEF q
  <2>2. x = s
    BY <2>1
  <2> HIDE DEF s
  <2> QED  BY <2>1, <2>2, <1>5 DEF clientVars
<1> HIDE DEF s
<1>7. \A m \in ServerSends(s) :
         \/ \E e \in Links : m \in q.queue[e]
         \/ \E i \in Ids : /\ q.clients[i].state = "Connected"
                           /\ m = Packet("client", "KeepAlive", q.clients[i].tok)
  BY <1>5 DEF ServerSends, Connected
<1>8. ClientsTyped'
  <2>1. ServerSends(s) \subseteq Packets
    <3> SUFFICES ASSUME NEW m \in ServerSends(s) PROVE m \in Packets
      OBVIOUS
    <3>1. CASE \E e \in Links : m \in q.queue[e]
      BY <3>1, <1>4, FrameHas
    <3>2. ASSUME NEW i \in Ids, q.clients[i].state = "Connected",
                 m = Packet("client", "KeepAlive", q.clients[i].tok)
          PROVE  m \in Packets
      <4>1. q.clients[i].tok \in Tokens
        BY <3>2, <1>4, FrameHas, ConstantsAre
      <4> QED  BY <4>1, <3>2 DEF Packet, Packets
    <3> QED  BY <3>1, <3>2, <1>7
  <2> QED  BY <2>1, <1>6 DEF NetcodeInv, ClientsTyped
<1>9. PICK r \in Frames :
         /\ r.clients = q.clients /\ r.idMap = q.idMap
         /\ r.queue = [e \in Links |-> IF s.mark[e] \in {Gone, Unused} THEN q.queue[e] ELSE {}]
         /\ r.link = q.link /\ r.mark = s.mark /\ r.peerMap = s.peerMap /\ r.accepted = q.accepted
         /\ r.connections = {} /\ r.disconnections = {} /\ r.spawning = {} /\ r.inbox = <<>>
  <2>1. [e \in Links |-> IF s.mark[e] \in {Gone, Unused} THEN q.queue[e] ELSE {}] \in [Links -> SUBSET Packets]
    BY <1>4, FrameHas
  <2>2. /\ q.clients \in [Ids -> Conns] /\ q.idMap \in [Links -> Ids \cup {None}]
        /\ q.link \in [Clients -> Links \cup {NoLink}] /\ q.accepted \in SUBSET Tokens
    BY <1>4, FrameHas
  <2>3. s.mark \in [Links -> Marks] /\ s.peerMap \in [Ids -> Links \cup {NoLink}]
    BY <1>5, FrameHas
  <2> DEFINE w == [e \in Links |-> IF s.mark[e] \in {Gone, Unused} THEN q.queue[e] ELSE {}]
  <2>4. w \in [Links -> SUBSET Packets]
    BY <2>1
  <2> HIDE DEF w
  <2> DEFINE x == [clients |-> q.clients, idMap |-> q.idMap, queue |-> w, link |-> q.link,
                   mark |-> s.mark, peerMap |-> s.peerMap, accepted |-> q.accepted,
                   connections |-> {}, disconnections |-> {}, spawning |-> {}, inbox |-> <<>>]
  <2>5. x \in Frames
    BY <2>2, <2>3, <2>4 DEF Frames
  <2> QED  BY <2>5 DEF w
<1>10. IsStart(r)'
  BY <1>6, <1>9 DEF IsStart
<1>11. FrameInv(r, used)
  <2>1. HasRoom(r)
    <3>1. Connected(r) = Connected(q)
      BY <1>9 DEF Connected
    <3> QED  BY <3>1, <1>4, FewerHaveRoom DEF FrameInv
  <2>2. ASSUME OneUserEach PROVE Sound(r)
    BY <2>2, <1>4, <1>9, DrainKeepsSound DEF FrameInv, s
  <2>3. ASSUME OneUserEach /\ ~ ReuseTokens PROVE Trusted(r, used)
    <3>1. Trusted(q, used)
      BY <2>3, <1>4 DEF FrameInv
    <3>2. \A e \in Links : \A m \in r.queue[e] : m \in q.queue[e]
      BY <1>9
    <3> QED  BY <3>1, <3>2, <1>9 DEF Trusted
  <2> QED  BY <2>1, <2>2, <2>3 DEF FrameInv
<1>12. ASSUME OneUserEach /\ ~ ReuseTokens PROVE NetTrusted'
  <2>1. Trusted(q, used)
    BY <1>12, <1>4 DEF FrameInv
  <2>2. accepted \subseteq accepted'
    BY <1>1, <1>4, <1>6 DEF IsStart
  <2>3. NetTrusted
    BY <1>12 DEF NetcodeInv
  <2>4. ASSUME NEW m \in net' PROVE m.tok \in used /\ (m.to = "client" /\ m.kind = "KeepAlive" => m.tok \in accepted')
    <3>1. CASE m \in net
      BY <3>1, <2>2, <2>3 DEF NetTrusted
    <3>2. CASE \E e \in Links : m \in q.queue[e]
      BY <3>2, <2>1, <1>6 DEF Trusted
    <3>3. ASSUME NEW i \in Ids, q.clients[i].state = "Connected",
                 m = Packet("client", "KeepAlive", q.clients[i].tok)
          PROVE  m.tok \in used /\ m.tok \in accepted'
      <4>1. q.clients[i] # NoConn
        BY <3>3 DEF NoConn
      <4> QED  BY <4>1, <3>3, <2>1, <1>6 DEF Trusted, Packet
    <3> QED  BY <3>1, <3>2, <3>3, <1>6, <1>7
  <2>5. ConnectedIsAccepted'
    BY <2>2, <2>3, <1>6 DEF NetTrusted, ConnectedIsAccepted
  <2> QED  BY <2>3, <2>4, <2>5, <1>6 DEF NetTrusted
<1>13. IsStart(r)' /\ FrameInv(r, used')
  BY <1>6, <1>10, <1>11
<1> QED  BY <1>8, <1>12, <1>13 DEF NetcodeInv

-----------------------------------------------------------------------------
(* The steps of the clients. *)

SameTables(s, r) ==
    /\ r.clients = s.clients /\ r.idMap = s.idMap /\ r.queue = s.queue /\ r.link = s.link
    /\ r.mark = s.mark /\ r.peerMap = s.peerMap /\ r.connections = s.connections
    /\ r.disconnections = s.disconnections /\ r.spawning = s.spawning /\ r.inbox = s.inbox

\* The tables do not depend on which tokens are recorded as accepted, and the trust
\* in tokens only on those in use.
LEMMA StartMoves ==
    ASSUME NEW us, NEW vs, us \subseteq vs, NEW s \in Frames, FrameInv(s, us), NEW a, a \subseteq s.accepted,
           ~ ReuseTokens => \A t \in us : t \in s.accepted => t \in a
    PROVE  \E r \in Frames : FrameInv(r, vs) /\ r.accepted = a /\ SameTables(s, r)
<1> DEFINE r == [s EXCEPT !.accepted = a]
<1>1. /\ r \in Frames /\ r.accepted = a
      /\ r.clients = s.clients /\ r.idMap = s.idMap /\ r.queue = s.queue /\ r.link = s.link
      /\ r.mark = s.mark /\ r.peerMap = s.peerMap /\ r.connections = s.connections
      /\ r.disconnections = s.disconnections /\ r.spawning = s.spawning /\ r.inbox = s.inbox
  BY DEF Frames
<1> HIDE DEF r
<1>2. HasRoom(r)
  <2>1. Connected(r) = Connected(s)
    BY <1>1 DEF Connected
  <2> QED  BY <2>1, FewerHaveRoom DEF FrameInv
<1>3. ASSUME OneUserEach PROVE Sound(r)
  <2>1. Unmoved(s, r) /\ Sound(s)
    BY <1>1, <1>3 DEF Unmoved, FrameInv
  <2> QED  BY <2>1, SoundUnmoved
<1>4. ASSUME OneUserEach /\ ~ ReuseTokens PROVE Trusted(r, vs)
  <2>1. Trusted(s, us)
    BY <1>4 DEF FrameInv
  <2>2. \A i \in Ids : s.clients[i].state = "Connected" => s.clients[i].tok \in us
    BY <2>1 DEF Trusted, NoConn
  <2>3. \A t \in us : t \in s.accepted => t \in a
    BY <1>4
  <2> QED  BY <1>1, <2>1, <2>2, <2>3 DEF Trusted
<1>5. FrameInv(r, vs)
  BY <1>2, <1>3, <1>4 DEF FrameInv
<1> QED  BY <1>1, <1>5 DEF SameTables

\* A new attempt: its token was not used, so that nothing under way is about it.
LEMMA ConnectInv ==
    ASSUME NEW c \in Clients
    PROVE  NetcodeInv /\ Connect(c) => NetcodeInv'
<1> SUFFICES ASSUME NetcodeInv, Connect(c) PROVE NetcodeInv'
  OBVIOUS
<1>1. PICK s \in Frames : IsStart(s) /\ FrameInv(s, used)
  BY DEF NetcodeInv, IsStart
<1>2. /\ cst' = [cst EXCEPT ![c] = "SendingConnectionRequest"] /\ tok' = tok
      /\ used' = used \cup {tok[c]} /\ net' = net
      /\ accepted' \in {accepted, accepted \ {tok[c]}}
      /\ ~ ReuseTokens => tok[c] \notin used
      /\ clients' = clients /\ idMap' = idMap /\ queue' = queue /\ link' = link /\ mark' = mark
      /\ peerMap' = peerMap
  BY NetcodeAssumption DEF Connect, serverVars
<1>3. ClientsTyped'
  BY <1>2 DEF NetcodeInv, ClientsTyped
<1>4. PICK r \in Frames : FrameInv(r, used') /\ r.accepted = accepted' /\ SameTables(s, r)
  <2>1. s.accepted = accepted
    BY <1>1 DEF IsStart
  <2>2. used \subseteq used' /\ accepted' \subseteq s.accepted
    BY <1>2, <2>1
  <2>3. ~ ReuseTokens => \A t \in used : t \in s.accepted => t \in accepted'
    BY <1>2, <2>1
  <2>4. FrameInv(s, used)
    BY <1>1
  <2>5. ASSUME NEW us, us = used, NEW vs, vs = used', NEW a, a = accepted'
        PROVE  \E r \in Frames : FrameInv(r, vs) /\ r.accepted = a /\ SameTables(s, r)
    <3>1. /\ us \subseteq vs /\ FrameInv(s, us) /\ a \subseteq s.accepted
          /\ ~ ReuseTokens => \A t \in us : t \in s.accepted => t \in a
      BY <2>2, <2>3, <2>4, <2>5
    <3> QED  BY ONLY <3>1, StartMoves
  <2> QED  BY <2>5
<1>5. IsStart(r)'
  BY <1>1, <1>2, <1>4 DEF IsStart, SameTables
<1>6. ASSUME OneUserEach /\ ~ ReuseTokens PROVE NetTrusted'
  <2>1. NetTrusted /\ tok[c] \notin used
    BY <1>2, <1>6 DEF NetcodeInv
  <2>2. \A d \in Clients : d # c => tok[d] # tok[c]
    BY TokensAre DEF NetcodeInv, ClientsTyped
  <2>3. \A d \in Clients : cst'[d] # "Disconnected" => tok'[d] \in used'
    BY <1>2, <2>1 DEF NetTrusted, NetcodeInv, ClientsTyped
  <2>4. ConnectedIsAccepted'
    BY <1>2, <2>1, <2>2 DEF NetTrusted, ConnectedIsAccepted, NetcodeInv, ClientsTyped
  <2>5. \A m \in net' : m.tok \in used' /\ (m.to = "client" /\ m.kind = "KeepAlive" => m.tok \in accepted')
    BY <1>2, <2>1 DEF NetTrusted
  <2> QED  BY <2>3, <2>4, <2>5 DEF NetTrusted
<1> QED  BY <1>3, <1>4, <1>5, <1>6 DEF NetcodeInv

\* Only a disconnected client changes its token.
LEMMA NewTokenInv ==
    ASSUME NEW c \in Clients
    PROVE  NetcodeInv /\ NewToken(c) => NetcodeInv'
<1> SUFFICES ASSUME NetcodeInv, NewToken(c) PROVE NetcodeInv'
  OBVIOUS
<1>1. PICK s \in Frames : IsStart(s) /\ FrameInv(s, used)
  BY DEF NetcodeInv, IsStart
<1>2. PICK t \in TokensOf[c] : tok' = [tok EXCEPT ![c] = t]
  BY DEF NewToken
<1>3. /\ cst[c] = "Disconnected" /\ cst' = cst /\ used' = used /\ net' = net /\ accepted' = accepted
      /\ clients' = clients /\ idMap' = idMap /\ queue' = queue /\ link' = link /\ mark' = mark
      /\ peerMap' = peerMap
  BY DEF NewToken, serverVars
<1>4. ClientsTyped'
  BY <1>2, <1>3, TokensAre DEF NetcodeInv, ClientsTyped
<1>5. IsStart(s)' /\ FrameInv(s, used')
  BY <1>1, <1>3 DEF IsStart
<1>6. ASSUME OneUserEach /\ ~ ReuseTokens PROVE NetTrusted'
  <2>1. NetTrusted
    BY <1>6 DEF NetcodeInv
  <2>2. \A d \in Clients : cst[d] # "Disconnected" => tok'[d] = tok[d]
    BY <1>2, <1>3 DEF NetcodeInv, ClientsTyped
  <2> QED  BY <1>3, <2>1, <2>2 DEF NetTrusted, ConnectedIsAccepted
<1> QED  BY <1>4, <1>5, <1>6 DEF NetcodeInv

\* A client that leaves sends what the server has heard of.
LEMMA DisconnectInv ==
    ASSUME NEW c \in Clients
    PROVE  NetcodeInv /\ Disconnect(c) => NetcodeInv'
<1> SUFFICES ASSUME NetcodeInv, Disconnect(c) PROVE NetcodeInv'
  OBVIOUS
<1>1. PICK s \in Frames : IsStart(s) /\ FrameInv(s, used)
  BY DEF NetcodeInv, IsStart
<1>2. /\ cst[c] # "Disconnected" /\ net' = net \cup {Packet("server", "Disconnect", tok[c])}
      /\ cst' = [cst EXCEPT ![c] = "Disconnected"] /\ tok' = tok /\ used' = used /\ accepted' = accepted
      /\ clients' = clients /\ idMap' = idMap /\ queue' = queue /\ link' = link /\ mark' = mark
      /\ peerMap' = peerMap
  BY DEF Disconnect, serverVars
<1>3. ClientsTyped'
  <2>1. Packet("server", "Disconnect", tok[c]) \in Packets
    BY DEF NetcodeInv, ClientsTyped, Packet, Packets
  <2> QED  BY <1>2, <2>1 DEF NetcodeInv, ClientsTyped
<1>4. IsStart(s)' /\ FrameInv(s, used')
  BY <1>1, <1>2 DEF IsStart
<1>5. ASSUME OneUserEach /\ ~ ReuseTokens PROVE NetTrusted'
  <2>1. NetTrusted
    BY <1>5 DEF NetcodeInv
  <2>2. \A d \in Clients : cst'[d] # "Disconnected" => cst'[d] = cst[d]
    BY <1>2 DEF NetcodeInv, ClientsTyped
  <2>3. \A m \in net' : m.tok \in used' /\ (m.to = "client" /\ m.kind = "KeepAlive" => m.tok \in accepted')
    BY <1>2, <2>1 DEF NetTrusted, Packet
  <2> QED  BY <1>2, <2>1, <2>2, <2>3 DEF NetTrusted, ConnectedIsAccepted
<1> QED  BY <1>3, <1>4, <1>5 DEF NetcodeInv

\* A frame of a client: only a keep-alive under its token connects it.
LEMMA ClientFrameInv ==
    ASSUME NEW c \in Clients
    PROVE  NetcodeInv /\ ClientFrame(c) => NetcodeInv'
<1> SUFFICES ASSUME NetcodeInv, ClientFrame(c) PROVE NetcodeInv'
  OBVIOUS
<1>1. PICK s \in Frames : IsStart(s) /\ FrameInv(s, used)
  BY DEF NetcodeInv, IsStart
<1> DEFINE N == {p \in net : p.to = "client" /\ p.tok = tok[c]}
           r0 == [st |-> cst[c], leave |-> FALSE, heard |-> FALSE]
<1>2. PICK b \in Batches(N) :
         /\ net' = net \cup ClientSends(ClientReads(r0, b).st, tok[c])
         /\ \E st \in ClientEnds(ClientReads(r0, b)) : cst' = [cst EXCEPT ![c] = st]
  BY DEF ClientFrame
<1>3. /\ cst[c] # "Disconnected" /\ tok' = tok /\ used' = used /\ accepted' = accepted
      /\ clients' = clients /\ idMap' = idMap /\ queue' = queue /\ link' = link /\ mark' = mark
      /\ peerMap' = peerMap
  BY DEF ClientFrame, serverVars
<1> DEFINE r == ClientReads(r0, b)
<1>4. ASSUME NEW ok \in BOOLEAN, cst[c] = "Connected" => ok, \A p \in N : p.kind = "KeepAlive" => ok
      PROVE  r \in ClientRuns(ok)
  <2>1. cst[c] \in {"SendingConnectionRequest", "SendingChallengeResponse", "Connected"}
    BY <1>3 DEF NetcodeInv, ClientsTyped
  <2>2. r0 \in ClientRuns(ok)
    BY <2>1, <1>4 DEF ClientRuns
  <2> HIDE DEF r0, N
  <2> QED  BY <2>2, <1>4, ReadingKeepsRun
<1> HIDE DEF r
<1>5. PICK st : st \in ClientEnds(r) /\ cst' = [cst EXCEPT ![c] = st]
  BY <1>2 DEF r
<1>6. net' = net \cup ClientSends(r.st, tok[c])
  BY <1>2 DEF r
<1>7. r \in ClientRuns(TRUE)
  BY <1>4
<1>8. tok[c] \in Tokens /\ \A m \in net' : m \in net \/ (m \in Packets /\ m.to = "server" /\ m.tok = tok[c])
  BY <1>6, SendsAre DEF NetcodeInv, ClientsTyped
<1>9. ClientsTyped'
  <2>1. st \in {"Disconnected", "SendingConnectionRequest", "SendingChallengeResponse", "Connected"}
    BY <1>5, <1>7 DEF ClientEnds, ClientRuns
  <2> QED  BY <1>3, <1>5, <1>8, <2>1 DEF NetcodeInv, ClientsTyped
<1>10. IsStart(s)' /\ FrameInv(s, used')
  BY <1>1, <1>3 DEF IsStart
<1>11. ASSUME OneUserEach /\ ~ ReuseTokens PROVE NetTrusted'
  <2>1. NetTrusted
    BY <1>11 DEF NetcodeInv
  <2>2. tok[c] \in accepted \/ r \in ClientRuns(FALSE)
    BY <1>4, <2>1 DEF NetTrusted, ConnectedIsAccepted
  <2>3. st = "Connected" => tok[c] \in accepted
    BY <1>5, <2>2 DEF ClientEnds, ClientRuns
  <2>4. \A d \in Clients : IF d = c THEN cst'[d] = st ELSE cst'[d] = cst[d]
    BY <1>5 DEF NetcodeInv, ClientsTyped
  <2>5. tok[c] \in used
    BY <1>3, <2>1 DEF NetTrusted
  <2>6. \A m \in net' : m.tok \in used' /\ (m.to = "client" /\ m.kind = "KeepAlive" => m.tok \in accepted')
    BY <1>3, <1>8, <2>1, <2>5 DEF NetTrusted
  <2>7. ConnectedIsAccepted'
    BY <1>3, <2>1, <2>3, <2>4 DEF NetTrusted, ConnectedIsAccepted
  <2>8. \A d \in Clients : cst'[d] # "Disconnected" => tok'[d] \in used'
    BY <1>3, <2>1, <2>4, <2>5 DEF NetTrusted
  <2> QED  BY <2>6, <2>7, <2>8 DEF NetTrusted
<1> QED  BY <1>9, <1>10, <1>11 DEF NetcodeInv

-----------------------------------------------------------------------------
(* A link that is despawned behind the back of the connection cache. *)

\* The marker and the peer of a link that is kicked go together, and no other link is its user's.
LEMMA KickKeepsSound ==
    ASSUME OneUserEach, NEW s \in Frames, NEW r \in Frames, Sound(s), NEW e \in Links,
           s.mark[e].state = "Connected", s.connections = {}, s.disconnections = {}, s.inbox = <<>>,
           r.connections = {}, r.disconnections = {}, r.inbox = <<>>,
           r.clients = s.clients, r.idMap = s.idMap, r.link = s.link,
           \A f \in Links : r.mark[f] = IF f = e THEN Gone ELSE s.mark[f],
           \A i \in Ids : r.peerMap[i] = IF s.mark[e].id = i THEN NoLink ELSE s.peerMap[i]
    PROVE  Sound(r)
<1>1. /\ \A f \in Links : Live(r, f) <=> Live(s, f) /\ f # e
      /\ \A j, f : Held(r, j, f) <=> Held(s, j, f)
      /\ \A j, f : Belongs(r, j, f) <=> Belongs(s, j, f)
      /\ \A f : ~ Doomed(s, f) /\ ~ Doomed(r, f)
      /\ s.mark[e] # Unused /\ Gone # Unused
  BY DEF Live, Held, Belongs, Doomed, Unused, Gone
<1>2. LinksOwned(r)
  <2>1. LinksOwned(s)
    BY DEF Sound
  <2>2. \A c \in Clients : s.link[c] # NoLink => s.link[c] \in Links
    BY FrameHas
  <2> QED  BY <1>1, <2>1, <2>2 DEF LinksOwned
<1>3. EntriesNamed(r)
  BY DEF Sound, EntriesNamed
<1>4. LinksKnown(r)
  BY <1>1 DEF Sound, LinksKnown
<1>5. MarksKnown(r)
  <2>1. ASSUME NEW f \in Links, f # e
        PROVE  /\ r.mark[f].id # None => Belongs(r, r.mark[f].id, f) /\ r.mark[f].state = "Connected"
               /\ r.mark[f].state = "Connected" =>
                     /\ r.mark[f].id \in Ids /\ r.peerMap[r.mark[f].id] = f
                     /\ Held(r, r.mark[f].id, f)
    <3>1. r.mark[f] = s.mark[f]
      BY <2>1
    <3>2. s.mark[f].id # None => Belongs(s, s.mark[f].id, f) /\ s.mark[f].state = "Connected"
      BY <1>1 DEF Sound, MarksKnown
    <3>3. s.mark[f].state = "Connected" =>
             s.mark[f].id \in Ids /\ s.peerMap[s.mark[f].id] = f /\ Held(s, s.mark[f].id, f)
      BY <1>1 DEF Sound, MarksKnown
    <3>4. Belongs(s, s.mark[e].id, e)
      BY <1>1, ConstantsAre DEF Sound, MarksKnown
    <3>5. s.mark[f].state = "Connected" => s.mark[e].id # s.mark[f].id
      BY <2>1, <3>2, <3>3, <3>4, LinkOfUser, ConstantsAre
    <3> QED  BY <1>1, <3>1, <3>2, <3>3, <3>5
  <2>2. r.mark[e].id = None /\ r.mark[e].state # "Connected"
    BY DEF Gone
  <2> QED  BY <2>1, <2>2 DEF MarksKnown
<1>6. CallbacksKnown(r) /\ InboxKnown(r)
  BY DEF CallbacksKnown, InboxKnown
<1>7. ConnectedKnown(r)
  <2> SUFFICES ASSUME NEW i \in Ids, r.clients[i].state = "Connected"
               PROVE  LET f == r.clients[i].entity
                      IN  r.mark[f] = Gone \/ r.mark[f] = [state |-> "Connected", id |-> i]
    BY DEF ConnectedKnown
  <2> DEFINE f == s.clients[i].entity
  <2>1. f \in Links
    BY FrameHas, ConstantsAre
  <2>2. s.mark[f] = Gone \/ s.mark[f] = [state |-> "Connected", id |-> i]
    BY <1>1 DEF Sound, ConnectedKnown
  <2> QED  BY <2>1, <2>2
<1> QED  BY <1>2, <1>3, <1>4, <1>5, <1>6, <1>7 DEF Sound

\* A kick leaves the connection in the cache, over a link that is gone.
LEMMA KickInv ==
    ASSUME NEW e \in Links
    PROVE  NetcodeInv /\ Kick(e) => NetcodeInv'
<1> SUFFICES ASSUME NetcodeInv, Kick(e) PROVE NetcodeInv'
  OBVIOUS
<1>1. PICK s \in Frames : IsStart(s) /\ FrameInv(s, used)
  BY DEF NetcodeInv, IsStart
<1> DEFINE n == [f \in Links |-> IF f = e THEN Gone ELSE s.mark[f]]
           q == [i \in Ids |-> IF s.mark[e].id = i THEN NoLink ELSE s.peerMap[i]]
           r == [s EXCEPT !.mark = n, !.peerMap = q]
<1>2. /\ mark[e].state = "Connected" /\ mark' = n /\ peerMap' = q
      /\ cst' = cst /\ tok' = tok /\ used' = used /\ net' = net /\ clients' = clients
      /\ idMap' = idMap /\ queue' = queue /\ link' = link /\ accepted' = accepted
  <2>1. s.mark = mark /\ s.peerMap = peerMap
    BY <1>1 DEF IsStart
  <2>2. /\ mark' = [f \in Links |-> IF f \in {e} THEN Gone ELSE mark[f]]
        /\ peerMap' = [i \in Ids |-> IF \E f \in {e} : mark[f].id = i THEN NoLink ELSE peerMap[i]]
    BY DEF Kick, Despawn
  <2>3. mark' = n
    BY <2>1, <2>2
  <2>4. peerMap' = q
    BY <2>1, <2>2
  <2> QED  BY <2>3, <2>4 DEF Kick, clientVars
<1>3. n \in [Links -> Marks] /\ q \in [Ids -> Links \cup {NoLink}]
  BY FrameHas, ConstantsAre
<1>4. /\ \A f \in Links : n[f] = IF f = e THEN Gone ELSE s.mark[f]
      /\ \A i \in Ids : q[i] = IF s.mark[e].id = i THEN NoLink ELSE s.peerMap[i]
  OBVIOUS
<1> HIDE DEF n, q
<1>5. r \in Frames
  BY <1>3, FrameWith
<1>6. /\ r.mark = n /\ r.peerMap = q /\ r.clients = s.clients /\ r.idMap = s.idMap /\ r.queue = s.queue
      /\ r.link = s.link /\ r.accepted = s.accepted /\ r.connections = s.connections
      /\ r.disconnections = s.disconnections /\ r.spawning = s.spawning /\ r.inbox = s.inbox
  BY DEF Frames
<1> HIDE DEF r
<1>7. IsStart(r)'
  BY <1>1, <1>2, <1>5, <1>6 DEF IsStart
<1>8. HasRoom(r)
  <2>1. Connected(r) = Connected(s)
    BY <1>6 DEF Connected
  <2> QED  BY <1>1, <2>1, FewerHaveRoom DEF FrameInv
<1>9. ASSUME OneUserEach PROVE Sound(r)
  <2>1. s.mark[e].state = "Connected" /\ s.connections = {} /\ s.disconnections = {} /\ s.inbox = <<>>
    BY <1>1, <1>2 DEF IsStart
  <2>2. Sound(s)
    BY <1>1, <1>9 DEF FrameInv
  <2> QED  BY <1>4, <1>5, <1>6, <1>9, <2>1, <2>2, KickKeepsSound
<1>10. ASSUME OneUserEach /\ ~ ReuseTokens PROVE Trusted(r, used)
  BY <1>1, <1>6, <1>10 DEF FrameInv, Trusted
<1>11. FrameInv(r, used')
  BY <1>2, <1>8, <1>9, <1>10 DEF FrameInv
<1>12. ClientsTyped'
  BY <1>2 DEF NetcodeInv, ClientsTyped
<1>13. OneUserEach /\ ~ ReuseTokens => NetTrusted'
  BY <1>2 DEF NetcodeInv, NetTrusted, ConnectedIsAccepted
<1> QED  BY <1>7, <1>11, <1>12, <1>13 DEF NetcodeInv

-----------------------------------------------------------------------------
(* The theorems. *)

\* The inductive invariant: between two frames, the state is one from which the reading of
\* a frame keeps the tables sound, the limit respected and the tokens trusted.
THEOREM NetcodeInvAlways == NetcodeSpec => []NetcodeInv
<1>1. NetcodeInit => NetcodeInv
  BY NetcodeInitInv
<1>2. NetcodeInv /\ [NetcodeNext]_netcodeVars => NetcodeInv'
  <2> SUFFICES ASSUME NetcodeInv, [NetcodeNext]_netcodeVars PROVE NetcodeInv'
    OBVIOUS
  <2>1. ASSUME NEW c \in Clients, Connect(c) PROVE NetcodeInv'
    BY <2>1, ConnectInv
  <2>2. ASSUME NEW c \in Clients, NewToken(c) PROVE NetcodeInv'
    BY <2>2, NewTokenInv
  <2>3. ASSUME NEW c \in Clients, Disconnect(c) PROVE NetcodeInv'
    BY <2>3, DisconnectInv
  <2>4. ASSUME NEW c \in Clients, ClientFrame(c) PROVE NetcodeInv'
    BY <2>4, ClientFrameInv
  <2>5. CASE ServerFrame
    BY <2>5, ServerFrameInv
  <2>6. ASSUME NEW e \in Links, Kick(e) PROVE NetcodeInv'
    BY <2>6, KickInv
  <2>7. CASE UNCHANGED netcodeVars
    <3>1. PICK s \in Frames : IsStart(s) /\ FrameInv(s, used)
      BY DEF NetcodeInv, IsStart
    <3>2. IsStart(s)' /\ FrameInv(s, used') /\ ClientsTyped'
      BY <2>7, <3>1 DEF netcodeVars, IsStart, NetcodeInv, ClientsTyped
    <3>3. OneUserEach /\ ~ ReuseTokens => NetTrusted'
      BY <2>7 DEF netcodeVars, NetcodeInv, NetTrusted, ConnectedIsAccepted
    <3> QED  BY <3>2, <3>3 DEF NetcodeInv
  <2> QED  BY <2>1, <2>2, <2>3, <2>4, <2>5, <2>6, <2>7 DEF NetcodeNext
<1> QED  BY <1>1, <1>2, PTL DEF NetcodeSpec

\* However handshakes overlap, links are kicked and connections time out, at most
\* max_clients clients are connected: the second check of the limit, where the
\* response is processed (server.rs), is what keeps it, whatever the ids and tokens.
THEOREM CapacityRespectedAlways == NetcodeSpec => []CapacityRespected
<1>1. NetcodeInv => CapacityRespected
  <2> SUFFICES ASSUME NetcodeInv PROVE CapacityRespected
    OBVIOUS
  <2>1. PICK s \in Frames : IsStart(s) /\ FrameInv(s, used)
    BY DEF NetcodeInv, IsStart
  <2>2. Connected(s) = ConnectedIds
    BY <2>1 DEF IsStart, Connected, ConnectedIds
  <2> QED  BY <2>1, <2>2 DEF FrameInv, HasRoom, CapacityRespected
<1> QED  BY <1>1, NetcodeInvAlways, PTL

\* Where no two clients share an id, the connection cache, the lifecycle markers of
\* the link entities and the peer map agree at the end of every frame of the server.
THEOREM TablesAgreeAlways ==
    ASSUME OneUserEach
    PROVE  NetcodeSpec => []TablesAgree
<1>1. NetcodeInv => TablesAgree
  <2> SUFFICES ASSUME NetcodeInv PROVE TablesAgree
    OBVIOUS
  <2>1. PICK s \in Frames : IsStart(s) /\ FrameInv(s, used)
    BY DEF NetcodeInv, IsStart
  <2>2. /\ s.clients = clients /\ s.idMap = idMap /\ s.queue = queue /\ s.link = link /\ s.mark = mark
        /\ s.peerMap = peerMap /\ s.accepted = accepted /\ s.connections = {} /\ s.disconnections = {}
    BY <2>1 DEF IsStart
  <2>3. Sound(s)
    BY <2>1 DEF FrameInv
  <2>4. \A e : ~ Doomed(s, e)
    BY <2>2 DEF Doomed
  <2>5. TypeOK
    <3>1. ClientsTyped
      BY DEF NetcodeInv
    <3>2. /\ clients \in [Ids -> Conns] /\ idMap \in [Links -> Ids \cup {None}]
          /\ queue \in [Links -> SUBSET Packets] /\ link \in [Clients -> Links \cup {NoLink}]
          /\ mark \in [Links -> Marks] /\ peerMap \in [Ids -> Links \cup {NoLink}]
          /\ accepted \subseteq Tokens
      BY <2>1, <2>2, FrameHas
    <3> QED  BY <3>1, <3>2, Zenon DEF TypeOK, ClientsTyped, Conns, Marks
  <2>6. \A e \in Links : mark[e].state = "Connected" =>
           /\ mark[e].id \in Ids /\ peerMap[mark[e].id] = e
           /\ clients[mark[e].id].state = "Connected" /\ clients[mark[e].id].entity = e
    BY <2>2, <2>3, <2>4 DEF Sound, MarksKnown, Held
  <2>7. \A i \in Ids : clients[i].state = "Connected" =>
           mark[clients[i].entity] \in {Gone, [state |-> "Connected", id |-> i]}
    BY <2>2, <2>3, <2>4 DEF Sound, ConnectedKnown
  <2>8. MarkersMatch /\ PeerMapExact
    BY <2>6, <2>7 DEF MarkersMatch, PeerMapExact, ConnectedIds
  <2> QED  BY <2>5, <2>8 DEF TablesAgree
<1> QED  BY <1>1, NetcodeInvAlways, PTL

\* Where, besides, no token is used for two attempts, a client that believes itself
\* connected was accepted by the server in this attempt, whatever is lost, duplicated,
\* delayed or reordered.
THEOREM ConnectedIsAcceptedAlways ==
    ASSUME OneUserEach, ~ ReuseTokens
    PROVE  NetcodeSpec => []ConnectedIsAccepted
<1>1. NetcodeInv => ConnectedIsAccepted
  BY DEF NetcodeInv, NetTrusted
<1> QED  BY <1>1, NetcodeInvAlways, PTL

-----------------------------------------------------------------------------
(* Replay protection.  NoReplay alone is not inductive: what refuses a second copy *)
(* of a packet is that a slot holds the latest packet read of its residue.         *)

ReplayInv == ReplayTypeOK /\ RingExact /\ NoReplay

\* Every sequence number has a slot.
LEMMA SlotRange == \A s \in Seqs : s % Size \in 0..(Size - 1)
  BY ReplayAssumption DEF Seqs

\* Two sequence numbers of one slot less than Size apart are equal.
LEMMA SameSlot ==
  ASSUME NEW x \in Seqs, NEW y \in Seqs, x % Size = y % Size, x <= y, y < x + Size
  PROVE  x = y
<1>1. x \in Int /\ y \in Int /\ Size \in Nat /\ Size > 0
  BY ReplayAssumption DEF Seqs
<1>2. PICK p \in Int : x = Size * p + (x % Size)
  BY <1>1
<1>3. PICK q \in Int : y = Size * q + (y % Size)
  BY <1>1
<1>4. y - x = Size * (q - p)
  BY <1>1, <1>2, <1>3
<1>5. y - x = 0
  BY <1>1, <1>4
<1> QED BY <1>1, <1>5

\* Nothing is received at the start.
LEMMA ReplayInitInv == ReplayInit => ReplayInv
<1> SUFFICES ASSUME ReplayInit PROVE ReplayInv
  OBVIOUS
<1>1. ReplayTypeOK
  BY ReplayAssumption DEF ReplayInit, ReplayTypeOK, Seqs, UNRECEIVED
<1>2. RingExact
  BY ReplayAssumption, SlotRange DEF ReplayInit, RingExact, Seqs, UNRECEIVED
<1>3. NoReplay
  BY DEF ReplayInit, NoReplay
<1> QED BY <1>1, <1>2, <1>3 DEF ReplayInv

\* A packet that was read is refused from then on.
LEMMA ReadIsRefused ==
  ASSUME ReplayInv, NEW s \in Seqs, reads[s] > 0
  PROVE  AlreadyReceived(s)
  BY DEF ReplayInv, RingExact, AlreadyReceived

\* Reading a packet records it in its slot, where it is the latest of its residue.
LEMMA ReadPreserves ==
  ASSUME ReplayInv, NEW s \in Seqs, Read(s)
  PROVE  ReplayInv'
<1>1. /\ reads[s] = 0
      /\ reads' = [reads EXCEPT ![s] = 1]
  <2>1. reads[s] \in Nat
    BY DEF ReplayInv, ReplayTypeOK
  <2>2. reads[s] = 0
    BY <2>1, ReadIsRefused DEF Read
  <2> QED BY <2>2 DEF Read
<1>2. s % Size \in 0..(Size - 1)
  BY SlotRange
<1>3. ReplayTypeOK'
  <2>1. most' \in Seqs
    BY DEF Read, Advance, ReplayInv, ReplayTypeOK
  <2>2. received' \in [0..(Size - 1) -> Seqs \cup {UNRECEIVED}]
    BY <1>2 DEF Read, Advance, ReplayInv, ReplayTypeOK
  <2>3. reads' \in [Seqs -> Nat]
    BY <1>1 DEF ReplayInv, ReplayTypeOK
  <2> QED BY <2>1, <2>2, <2>3 DEF Read, ReplayInv, ReplayTypeOK
<1>4. s # UNRECEIVED
  BY ReplayAssumption DEF Seqs, UNRECEIVED
<1>5. ASSUME NEW t \in Seqs, reads'[t] > 0
      PROVE  /\ t <= most'
             /\ received'[t % Size] # UNRECEIVED
             /\ received'[t % Size] >= t
  <2>1. t % Size \in 0..(Size - 1)
    BY SlotRange
  <2>2. CASE t = s
    <3>1. received'[t % Size] = s
      BY <2>2, <1>2 DEF Read, Advance, ReplayInv, ReplayTypeOK
    <3>2. s <= most'
      BY DEF Read, Advance, ReplayInv, ReplayTypeOK, Seqs
    <3> QED BY <2>2, <3>1, <3>2, <1>4 DEF Seqs
  <2>3. CASE t # s
    <3>1. reads[t] > 0
      BY <1>1, <1>5, <2>3 DEF ReplayInv, ReplayTypeOK
    <3>2. t <= most /\ received[t % Size] # UNRECEIVED /\ received[t % Size] >= t
      BY <3>1 DEF ReplayInv, RingExact
    <3>3. t <= most'
      BY <3>2 DEF Read, Advance, ReplayInv, ReplayTypeOK, Seqs
    <3>4. CASE t % Size # s % Size
      BY <3>2, <3>3, <3>4, <2>1, <1>2 DEF Read, Advance, ReplayInv, ReplayTypeOK
    <3>5. CASE t % Size = s % Size
      <4>1. received'[t % Size] = s
        BY <3>5, <1>2 DEF Read, Advance, ReplayInv, ReplayTypeOK
      <4>2. ~(received[s % Size] >= s)
        BY <3>2, <3>5 DEF Read, AlreadyReceived
      <4>3. received[s % Size] \in Seqs
        BY <3>2, <3>5, <1>2 DEF ReplayInv, ReplayTypeOK
      <4>4. s >= t
        BY <4>2, <4>3, <3>2, <3>5 DEF Seqs
      <4> QED BY <4>1, <4>4, <3>3, <1>4
    <3> QED BY <3>4, <3>5
  <2> QED BY <2>2, <2>3
<1>6. ASSUME NEW i \in 0..(Size - 1), received'[i] # UNRECEIVED
      PROVE  received'[i] % Size = i /\ reads'[received'[i]] > 0
  <2>1. CASE i = s % Size
    <3>1. received'[i] = s
      BY <2>1, <1>2 DEF Read, Advance, ReplayInv, ReplayTypeOK
    <3>2. reads'[s] = 1
      BY <1>1 DEF ReplayInv, ReplayTypeOK
    <3> QED BY <2>1, <3>1, <3>2
  <2>2. CASE i # s % Size
    <3>1. received'[i] = received[i]
      BY <2>2, <1>2 DEF Read, Advance, ReplayInv, ReplayTypeOK
    <3>2. received[i] % Size = i /\ reads[received[i]] > 0
      BY <3>1, <1>6 DEF ReplayInv, RingExact
    <3>3. received[i] \in Seqs
      BY <3>1, <1>6 DEF ReplayInv, ReplayTypeOK
    <3>4. received[i] # s
      BY <3>2, <2>2
    <3>5. reads'[received[i]] = reads[received[i]]
      BY <1>1, <3>3, <3>4 DEF ReplayInv, ReplayTypeOK
    <3> QED BY <3>1, <3>2, <3>5
  <2> QED BY <2>1, <2>2
<1>7. RingExact'
  BY <1>5, <1>6 DEF RingExact, UNRECEIVED
<1>8. NoReplay'
  BY <1>1 DEF ReplayInv, NoReplay, ReplayTypeOK
<1> QED BY <1>3, <1>7, <1>8 DEF ReplayInv

\* Every step keeps the ring exact.
LEMMA ReplayNextInv == ReplayInv /\ [ReplayNext]_replayVars => ReplayInv'
<1> SUFFICES ASSUME ReplayInv, [ReplayNext]_replayVars PROVE ReplayInv'
  OBVIOUS
<1>1. CASE Send
  BY <1>1, ReplayAssumption DEF Send, ReplayInv, ReplayTypeOK, RingExact, NoReplay, UNRECEIVED, Seqs
<1>2. ASSUME NEW s \in Seqs, Read(s) PROVE ReplayInv'
  BY <1>2, ReadPreserves
<1>3. CASE UNCHANGED replayVars
  BY <1>3 DEF replayVars, ReplayInv, ReplayTypeOK, RingExact, NoReplay, UNRECEIVED
<1>4. ASSUME NEW s \in Seqs, ReadDamaged(s) PROVE ReplayInv'
  BY <1>4, <1>3 DEF ReadDamaged
<1> QED BY <1>1, <1>2, <1>3, <1>4 DEF ReplayNext

\* The ring is exact in every reachable state of every instance.
THEOREM ReplayInvAlways == ReplaySpec => []ReplayInv
  BY ReplayInitInv, ReplayNextInv, PTL DEF ReplaySpec

\* No packet of a connection is read twice: Packet::read refuses what
\* advance_sequence recorded, or what has left the window.
THEOREM NoReplayAlways == ReplaySpec => []NoReplay
<1>1. ReplayInv => NoReplay
  BY DEF ReplayInv
<1> QED BY <1>1, ReplayInvAlways, PTL

\* is_already_received has no false positives inside the window.
LEMMA FreshFromInv == ReplayInv => FreshAccepted
<1> SUFFICES ASSUME ReplayInv, NEW s \in Seqs, reads[s] = 0, s + Size > most, AlreadyReceived(s)
             PROVE  FALSE
  BY DEF FreshAccepted
<1> DEFINE r == received[s % Size]
<1>1. r \in Seqs /\ r >= s /\ r % Size = s % Size /\ reads[r] > 0
  <2>1. s % Size \in 0..(Size - 1)
    BY SlotRange
  <2>2. ~(s + Size <= most)
    BY ReplayAssumption DEF ReplayInv, ReplayTypeOK, Seqs
  <2>3. r # UNRECEIVED /\ r >= s
    BY <2>2 DEF AlreadyReceived
  <2> QED BY <2>1, <2>3 DEF ReplayInv, ReplayTypeOK, RingExact
<1>2. r <= most
  BY <1>1 DEF ReplayInv, RingExact
<1>3. r < s + Size
  BY <1>1, <1>2, ReplayAssumption DEF ReplayInv, ReplayTypeOK, Seqs
<1>4. s = r
  BY <1>1, <1>3, SameSlot DEF Seqs
<1> QED BY <1>1, <1>4

\* No packet inside the window is refused before it was read.
THEOREM FreshAcceptedAlways == ReplaySpec => []FreshAccepted
  BY FreshFromInv, ReplayInvAlways, PTL
=============================================================================
