------------------------------ MODULE Netcode ------------------------------
(***************************************************************************)
(* The netcode connection protocol of crates/connection/netcode: the       *)
(* handshake of client.rs, the connection cache of server.rs, and the ECS  *)
(* markers that server_plugin.rs derives from them, over the link entities *)
(* of the UDP server (io/udp/src/server.rs).                               *)
(*                                                                         *)
(* The grain is one frame: ClientFrame is one run of the client's receive  *)
(* and send systems, ServerFrame one run of the server's.  Frames last     *)
(* arbitrarily long, so a peer that has heard nothing in a frame may have  *)
(* timed out in it.                                                        *)
(*                                                                         *)
(* A packet once sent stays in `net' for ever and a frame reads any few of *)
(* them in any order: the network loses, duplicates, delays and reorders.  *)
(* A packet carries the connect token under whose key it is encrypted.     *)
(***************************************************************************)
EXTENDS Naturals, Sequences, FiniteSets, Functions

CONSTANTS
    Clients,      \* client processes, each with one remote address
    TokensOf,     \* the connect tokens each client may use
    IdOf,         \* the client_id sealed in each token
    Refused,      \* ids the ConnectionRequestHandler denies
    MaxClients,   \* ServerConfig::max_clients
    MaxLinks,     \* bound: link entities the server spawns
    MaxBatch,     \* bound: packets one frame reads
    MaxTokens,    \* bound: tokens used by all clients
    ReuseTokens   \* whether a client may connect twice with one token

Tokens == UNION {TokensOf[c] : c \in Clients}
Ids == {IdOf[t] : t \in Tokens}
Links == 1..MaxLinks
Owner(t) == CHOOSE c \in Clients : t \in TokensOf[c]

None == "None"    \* no id, no token
NoLink == 0       \* no entity
NoConn == [state |-> "Absent", cid |-> None, entity |-> NoLink, tok |-> None]

ASSUME NetcodeAssumption ==
    /\ MaxClients \in Nat /\ MaxLinks \in Nat /\ MaxBatch \in Nat /\ MaxTokens \in Nat
    /\ ReuseTokens \in BOOLEAN
    /\ \A c \in Clients : TokensOf[c] # {}
    /\ \A c, d \in Clients : c # d => TokensOf[c] \cap TokensOf[d] = {}
    /\ Refused \subseteq Ids /\ None \notin Ids

VARIABLES
    cst,       \* Client::state; Disconnected stands for the error states too
    tok,       \* Client::token
    used,      \* the tokens some client has connected with
    net,       \* every packet sent so far
    clients,   \* ConnectionCache::clients
    idMap,     \* ConnectionCache::client_id_map
    queue,     \* Server::send_queue
    link,      \* ServerUdpIo::connected_addresses
    mark,      \* the lifecycle marker and RemoteId of every link entity
    peerMap,   \* NetworkingMetadata::peer_map of the server
    accepted   \* history: the tokens the server was connected with at some time
               \* since their client last called connect

clientVars == <<cst, tok, used>>
serverVars == <<clients, idMap, queue, link, mark, peerMap>>
netcodeVars == <<cst, tok, used, net, clients, idMap, queue, link, mark, peerMap, accepted>>

Packet(to, kind, t) == [to |-> to, kind |-> kind, tok |-> t]
Packets == [to : {"server", "client"}, tok : Tokens,
            kind : {"Request", "Response", "KeepAlive", "Disconnect", "Challenge", "Denied"}]

\* Sequences of at most MaxBatch different packets of S: what one frame reads.
Batches(S) == UNION {{b \in [1..n -> S] : Cardinality(Range(b)) = n} : n \in 0..MaxBatch}

Unused == [state |-> "Unused", id |-> None]
Gone == [state |-> "Gone", id |-> None]

NetcodeInit ==
    /\ cst = [c \in Clients |-> "Disconnected"]
    /\ tok = [c \in Clients |-> CHOOSE t \in TokensOf[c] : TRUE]
    /\ used = {}
    /\ net = {}
    /\ clients = [i \in Ids |-> NoConn]
    /\ idMap = [e \in Links |-> None]
    /\ queue = [e \in Links |-> {}]
    /\ link = [c \in Clients |-> NoLink]
    /\ mark = [e \in Links |-> Unused]
    /\ peerMap = [i \in Ids |-> NoLink]
    /\ accepted = {}
-----------------------------------------------------------------------------
(***************************************************************************)
(* The client.                                                             *)
(***************************************************************************)
\* Connect: the observer runs only Without<Connected>; Client::connect starts
\* a new attempt whatever the state is.
Connect(c) ==
    /\ cst[c] # "Connected"
    /\ ReuseTokens \/ tok[c] \notin used
    /\ Cardinality(used \cup {tok[c]}) <= MaxTokens
    /\ cst' = [cst EXCEPT ![c] = "SendingConnectionRequest"]
    /\ used' = used \cup {tok[c]}
    /\ accepted' = IF \E i \in Ids : clients[i].state = "Connected" /\ clients[i].tok = tok[c]
                   THEN accepted ELSE accepted \ {tok[c]}
    /\ UNCHANGED <<tok, net, serverVars>>

\* The application replaces its NetcodeClient, once it was used, by one with
\* another token.
NewToken(c) ==
    /\ cst[c] = "Disconnected"
    /\ tok[c] \in used
    /\ \E t \in TokensOf[c] \ {tok[c]} : tok' = [tok EXCEPT ![c] = t]
    /\ UNCHANGED <<cst, used, net, serverVars, accepted>>

\* Disconnect: redundant disconnect packets, then Client::reset.
Disconnect(c) ==
    /\ cst[c] # "Disconnected"
    /\ net' = net \cup {Packet("server", "Disconnect", tok[c])}
    /\ cst' = [cst EXCEPT ![c] = "Disconnected"]
    /\ UNCHANGED <<tok, used, serverVars, accepted>>

\* One packet that decrypted, in the state r.st: Client::process_packet.
ClientProcess(r, p) ==
    CASE p.kind = "Denied" /\ r.st \in {"SendingConnectionRequest", "SendingChallengeResponse"} ->
             [r EXCEPT !.leave = TRUE, !.heard = TRUE]
      [] p.kind = "Challenge" /\ r.st = "SendingConnectionRequest" ->
             [r EXCEPT !.st = "SendingChallengeResponse", !.heard = TRUE]
      [] p.kind = "KeepAlive" /\ r.st \in {"SendingChallengeResponse", "Connected"} ->
             [r EXCEPT !.st = "Connected", !.heard = TRUE]
      [] p.kind = "Disconnect" /\ r.st = "Connected" ->
             [r EXCEPT !.leave = TRUE, !.heard = TRUE]
      [] OTHER -> r

\* What Client::send_packets sends in each state.  The rate limit is left out:
\* it only delays packets that the network may delay.
ClientSends(st, t) ==
    CASE st = "SendingConnectionRequest" -> {Packet("server", "Request", t)}
      [] st = "SendingChallengeResponse" -> {Packet("server", "Response", t)}
      [] st = "Connected" -> {Packet("server", "KeepAlive", t)}
      [] OTHER -> {}

\* The states Client::update_state may end in: the server told the client to
\* leave, the token expires while the attempt is pending, or silence lasts.
\* A token names one server address, so there is no next server to try.
ClientEnds(r) ==
    IF r.leave THEN {"Disconnected"}
    ELSE IF r.st = "Connected" /\ r.heard THEN {"Connected"}
    ELSE {r.st, "Disconnected"}

\* The packets b of a frame, one after the other: Client::recv_packets.
ClientReads(r, b) ==
    LET after[k \in 0..Len(b)] == IF k = 0 THEN r ELSE ClientProcess(after[k - 1], b[k])
    IN  after[Len(b)]

\* One frame: Client::try_update (receive, send, update_state) and the send
\* system that flushes the queue.  Packets under another key do not decrypt.
ClientFrame(c) ==
    LET inbox == {p \in net : p.to = "client" /\ p.tok = tok[c]} IN
    /\ cst[c] # "Disconnected"
    /\ \E b \in Batches(inbox) :
         LET r == ClientReads([st |-> cst[c], leave |-> FALSE, heard |-> FALSE], b) IN
         /\ net' = net \cup ClientSends(r.st, tok[c])
         /\ \E st \in ClientEnds(r) : cst' = [cst EXCEPT ![c] = st]
    /\ UNCHANGED <<tok, used, serverVars, accepted>>
-----------------------------------------------------------------------------
(***************************************************************************)
(* The server.  Within a frame the state is a record s: the cache, the     *)
(* send queue, the markers, and the callbacks on_connect and on_disconnect *)
(* queued in NetcodeServerContext until the frame's packets are read.      *)
(***************************************************************************)
Connected(s) == {i \in Ids : s.clients[i].state = "Connected"}

\* ConnectionCache::find_by_entity.
Find(s, e) == IF s.idMap[e] = None THEN NoConn ELSE s.clients[s.idMap[e]]

\* Mutant: a pending connection of this id is updated wherever it came from,
\* and keeps the entity it had.
AddConnectionKeepsEntity(s, t, e) ==
    IF Find(s, e) # NoConn \/ s.clients[IdOf[t]] # NoConn
    THEN [s EXCEPT !.clients[IdOf[t]] = [@ EXCEPT !.tok = t], !.idMap[e] = IdOf[t]]
    ELSE [s EXCEPT
            !.clients[IdOf[t]] = [state |-> "Pending", cid |-> IdOf[t], entity |-> e, tok |-> t],
            !.idMap[e] = IdOf[t]]

\* ConnectionCache::add: a connection known under this entity is rewritten in
\* place; otherwise a new one replaces whatever had this id.
AddConnection(s, t, e) ==
    IF Find(s, e) # NoConn
    THEN [s EXCEPT !.clients[s.idMap[e]] = [@ EXCEPT !.cid = IdOf[t], !.tok = t]]
    ELSE [s EXCEPT
            !.clients[IdOf[t]] = [state |-> "Pending", cid |-> IdOf[t], entity |-> e, tok |-> t],
            !.idMap[e] = IdOf[t]]

\* Mutant: the connection is marked but its entry stays.
RemoveConnectionKeepsEntry(s, i) ==
    IF i \notin Connected(s) THEN s
    ELSE [s EXCEPT !.idMap[s.clients[i].entity] = None, !.clients[i].state = "Absent"]

\* ConnectionCache::remove, which leaves pending connections alone.
RemoveConnection(s, i) ==
    IF i \notin Connected(s) THEN s
    ELSE [s EXCEPT !.idMap[s.clients[i].entity] = None, !.clients[i] = NoConn]

QueueTo(s, e, kind, t) == [s EXCEPT !.queue[e] = @ \cup {Packet("client", kind, t)}]

\* Server::process_connection_request.  The token entries never refuse.
ProcessRequest(s, t, e) ==
    IF \/ Find(s, e).state = "Connected"
       \/ IdOf[t] \in Connected(s)
    THEN s
    ELSE IF Cardinality(Connected(s)) >= MaxClients \/ IdOf[t] \in Refused
    THEN QueueTo(s, e, "Denied", t)
    ELSE [AddConnection(QueueTo(s, e, "Challenge", t), t, e) EXCEPT
             !.mark[e] = [state |-> "Connecting", id |-> @.id]]

\* Mutant: the limit is checked when the request comes only.
ProcessResponseNoLimit(s, t, e) ==
    LET i == IdOf[t] IN
    IF s.clients[i].state # "Pending" THEN s
    ELSE [QueueTo(s, e, "KeepAlive", s.clients[i].tok) EXCEPT
             !.clients[i].state = "Connected",
             !.connections = @ \cup {<<i, e>>},
             !.accepted = @ \cup {t}]

\* Server::process_connection_response: the challenge token names the id.
ProcessResponse(s, t, e) ==
    LET i == IdOf[t] IN
    IF s.clients[i].state # "Pending" THEN s
    ELSE IF Cardinality(Connected(s)) >= MaxClients
    THEN QueueTo(s, e, "Denied", s.clients[i].tok)
    ELSE [QueueTo(s, e, "KeepAlive", s.clients[i].tok) EXCEPT
             !.clients[i].state = "Connected",
             !.connections = @ \cup {<<i, e>>},
             !.accepted = @ \cup {t}]

\* The Disconnect arm of Server::process_packet.
ProcessDisconnect(s, e) ==
    LET i == Find(s, e).cid IN
    RemoveConnection([s EXCEPT !.disconnections = @ \cup {<<i, e>>}], i)

\* Server::recv_packet on a packet read from link entity e: a request opens
\* with the private key, any other packet with the receive key of the
\* connection named by the client_id of the one found under e.
ProcessPacket(s, e, p) ==
    IF p.kind = "Request" THEN ProcessRequest(s, p.tok, e)
    ELSE LET c == Find(s, e) IN
         IF c = NoConn THEN s
         ELSE IF s.clients[c.cid].tok # p.tok THEN s
         ELSE CASE p.kind = "Response" -> ProcessResponse(s, p.tok, e)
                [] p.kind = "Disconnect" -> ProcessDisconnect(s, e)
                [] OTHER -> s

\* ServerUdpPlugin::receive: a packet from an unknown address spawns a link,
\* later ones of the same frame are dropped while it spawns; a packet for a
\* despawned link is dropped and the address forgotten.
UdpReceive(s, p) ==
    LET c == Owner(p.tok)
        fresh == {e \in Links : s.mark[e] = Unused}
        e == s.link[c]
    IN IF e = NoLink
       THEN IF fresh = {} THEN s
            ELSE LET new == CHOOSE f \in fresh : \A g \in fresh : f <= g IN
                 [s EXCEPT !.link[c] = new, !.mark[new] = [state |-> "Linked", id |-> None],
                           !.spawning = @ \cup {c}, !.inbox = Append(@, <<new, p>>)]
       ELSE IF c \in s.spawning THEN s
       ELSE IF s.mark[e] = Gone THEN [s EXCEPT !.link[c] = NoLink]
       ELSE [s EXCEPT !.inbox = Append(@, <<e, p>>)]

\* The datagrams b of a frame, one after the other.
UdpReads(s, b) ==
    LET after[k \in 0..Len(b)] == IF k = 0 THEN s ELSE UdpReceive(after[k - 1], b[k])
    IN  after[Len(b)]

\* Server::recv_packets: the links are read one after the other.
ProcessInbox(s) ==
    LET after[k \in 0..Len(s.inbox)] ==
            IF k = 0 THEN s ELSE ProcessPacket(after[k - 1], s.inbox[k][1], s.inbox[k][2])
    IN  after[Len(s.inbox)]

\* Server::check_for_timeouts for the connections in late.
TimeOut(s, late) ==
    [s EXCEPT
        !.disconnections = @ \cup {<<i, s.clients[i].entity>> : i \in late},
        !.idMap = [e \in Links |-> IF \E i \in late : s.clients[i].entity = e THEN None ELSE @[e]],
        !.clients = [i \in Ids |-> IF i \in late THEN NoConn ELSE @[i]]]

\* Disconnected::on_add takes the peer of the entity out of the peer map, and
\* the entity is despawned; nothing happens to one that is gone already.
Despawn(s, gone) ==
    [s EXCEPT
        !.peerMap = [i \in Ids |-> IF \E e \in gone : s.mark[e].id = i THEN NoLink ELSE @[i]],
        !.mark = [e \in Links |-> IF e \in gone THEN Gone ELSE @[e]]]

\* Mutant: a disconnection takes its id out of the peer map even when its
\* entity is gone or has another peer.
DrainById(s) ==
    LET new == s.connections
        m == [s EXCEPT
                !.mark = [e \in Links |->
                    IF \E i \in Ids : <<i, e>> \in new
                    THEN [state |-> "Connected", id |-> CHOOSE i \in Ids : <<i, e>> \in new]
                    ELSE @[e]],
                !.peerMap = [i \in Ids |->
                    IF \E e \in Links : <<i, e>> \in s.disconnections THEN NoLink
                    ELSE IF \E e \in Links : <<i, e>> \in new
                    THEN CHOOSE e \in Links : <<i, e>> \in new ELSE @[i]]]
    IN Despawn(m, {d[2] : d \in s.disconnections})

\* The tail of NetcodeServerPlugin::receive: first the connections, then the
\* disconnections of the frame.
Drain(s) ==
    LET new == s.connections
        m == [s EXCEPT
                !.mark = [e \in Links |->
                    IF \E i \in Ids : <<i, e>> \in new
                    THEN [state |-> "Connected", id |-> CHOOSE i \in Ids : <<i, e>> \in new]
                    ELSE @[e]],
                !.peerMap = [i \in Ids |->
                    IF \E e \in Links : <<i, e>> \in new
                    THEN CHOOSE e \in Links : <<i, e>> \in new ELSE @[i]]]
    IN Despawn(m, {d[2] : d \in s.disconnections})

\* Mutant: keep-alives go to clients that have not answered the challenge too.
ServerSendsPending(s) ==
    (UNION {s.queue[e] : e \in {l \in Links : s.mark[l] \notin {Gone, Unused}}})
    \cup {Packet("client", "KeepAlive", s.clients[i].tok) :
             i \in {j \in Ids : s.clients[j] # NoConn /\ s.mark[s.clients[j].entity] # Gone}}

\* NetcodeServerPlugin::send: keep-alives to every Connected link whose
\* connection is connected, and the queued packets of every link.
ServerSends(s) ==
    (UNION {s.queue[e] : e \in {l \in Links : s.mark[l] \notin {Gone, Unused}}})
    \cup {Packet("client", "KeepAlive", s.clients[i].tok) :
             i \in {j \in Connected(s) : \E e \in Links : s.mark[e] = [state |-> "Connected", id |-> j]}}

\* The state in which a frame of the server starts.
FrameStart ==
    [clients |-> clients, idMap |-> idMap, queue |-> queue, link |-> link, mark |-> mark,
     peerMap |-> peerMap, accepted |-> accepted,
     connections |-> {}, disconnections |-> {}, spawning |-> {}, inbox |-> <<>>]

\* One frame of the server: the UDP and netcode receive systems, then send.
ServerFrame ==
    \E b \in Batches({p \in net : p.to = "server"}), late \in SUBSET Connected(FrameStart) :
    \E s \in {Drain(ProcessInbox(TimeOut(UdpReads(FrameStart, b), late)))} :
        /\ net' = net \cup ServerSends(s)
        /\ clients' = s.clients /\ idMap' = s.idMap
        /\ queue' = [e \in Links |-> IF s.mark[e] \in {Gone, Unused} THEN s.queue[e] ELSE {}]
        /\ link' = s.link /\ mark' = s.mark /\ peerMap' = s.peerMap
        /\ accepted' = s.accepted
        /\ UNCHANGED clientVars

\* The application inserts Disconnecting on a connected link: it is despawned
\* at the end of the frame, and the connection cache is not told.
Kick(e) ==
    /\ mark[e].state = "Connected"
    /\ LET s == Despawn([mark |-> mark, peerMap |-> peerMap], {e}) IN
       mark' = s.mark /\ peerMap' = s.peerMap
    /\ UNCHANGED <<clientVars, net, clients, idMap, queue, link, accepted>>
-----------------------------------------------------------------------------
NetcodeNext ==
    \/ \E c \in Clients : Connect(c) \/ NewToken(c) \/ Disconnect(c) \/ ClientFrame(c)
    \/ ServerFrame
    \/ \E e \in Links : Kick(e)

NetcodeSpec == NetcodeInit /\ [][NetcodeNext]_netcodeVars
-----------------------------------------------------------------------------
TypeOK ==
    /\ cst \in [Clients -> {"Disconnected", "SendingConnectionRequest",
                            "SendingChallengeResponse", "Connected"}]
    /\ tok \in [Clients -> Tokens] /\ used \subseteq Tokens /\ accepted \subseteq Tokens
    /\ net \subseteq Packets
    /\ clients \in [Ids -> {NoConn} \cup
           [state : {"Pending", "Connected"}, cid : Ids, entity : Links, tok : Tokens]]
    /\ idMap \in [Links -> Ids \cup {None}]
    /\ queue \in [Links -> SUBSET Packets]
    /\ link \in [Clients -> Links \cup {NoLink}]
    /\ mark \in [Links -> [id : Ids \cup {None},
                           state : {"Unused", "Linked", "Connecting", "Connected", "Gone"}]]
    /\ peerMap \in [Ids -> Links \cup {NoLink}]

ConnectedIds == {i \in Ids : clients[i].state = "Connected"}

\* However handshakes overlap, at most max_clients are connected: the limit is
\* checked when the request comes and must be checked again at the response.
CapacityRespected == Cardinality(ConnectedIds) <= MaxClients

\* The markers the rest of lightyear sees agree with the connection cache: a
\* link entity is Connected for the id whose connected entry names it, and a
\* connected entry names a Connected link unless that link is gone.
MarkersMatch ==
    /\ \A e \in Links : mark[e].state = "Connected" =>
          mark[e].id \in ConnectedIds /\ clients[mark[e].id].entity = e
    /\ \A i \in ConnectedIds :
          mark[clients[i].entity] \in {Gone, [state |-> "Connected", id |-> i]}

\* Every Connected link is reachable by its peer id.
PeerMapExact ==
    \A e \in Links : mark[e].state = "Connected" => peerMap[mark[e].id] = e

\* The connection cache, the markers of the link entities and the peer map tell the
\* same story at the end of every frame.
TablesAgree == TypeOK /\ MarkersMatch /\ PeerMapExact

\* A client in state Connected was accepted by the server in this attempt.
ConnectedIsAccepted ==
    \A c \in Clients : cst[c] = "Connected" => tok[c] \in accepted

\* The cache keeps no connection of a client that left during the handshake:
\* a pending entry names a link that still exists.
PendingIsLive ==
    \A i \in Ids : clients[i].state = "Pending" => mark[clients[i].entity] # Gone
=============================================================================
