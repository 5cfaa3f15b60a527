------------------------------ MODULE LateJoin ------------------------------
(***************************************************************************)
(* Late join catch-up of deterministic replication: the request, snapshot  *)
(* and activation protocol of late_join/client.rs and late_join/server.rs. *)
(*                                                                         *)
(* The server hides the gated components of its CatchUpGated entities from *)
(* a client until that client has asked for them with a tick up to which   *)
(* it has everybody's input.  Requests, snapshot events and replicated     *)
(* state travel independently of each other and may overtake each other.   *)
(* All clients run JoinLead ticks ahead of the server.                     *)
(***************************************************************************)
EXTENDS Integers, FiniteSets

CONSTANTS Joiners,        \* the clients
          JoinLead,       \* ticks a synchronised client is ahead of the server
          RetryTicks,     \* CATCH_UP_REQUEST_RETRY_TICKS: 16
          MaxRequests,    \* CATCH_UP_MAX_REQUESTS: 10
          JoinRollback,   \* effective_max_rollback_ticks
          InputLag,       \* bound: ticks by which the inputs of the others may be late
          KeepsEntity,    \* BOOLEAN: a client connects again with the same entity
          MaxJoinTick,    \* bound: the last server tick
          MaxJoins,       \* bound: connections in all
          NoTick,         \* None
          NotRequired     \* CatchUpSnapshotReady::not_required()

ASSUME JoinAssumption ==
    /\ {JoinLead, JoinRollback, InputLag, MaxJoinTick, MaxJoins} \subseteq Nat
    /\ {RetryTicks, MaxRequests} \subseteq Nat \ {0}
    /\ KeepsEntity \in BOOLEAN
    /\ NoTick \notin Int /\ NotRequired \notin Int /\ NoTick # NotRequired

VARIABLES
    serverTick,    \* LocalTimeline of the server
    gated,         \* the CatchUpGated entities: "none", "prespawned" or "spawned"
    revealed,      \* CatchUpServerState::has_revealed_catchup_state
    joined,        \* per client: Connected, on both sides
    caughtUp,      \* per client: HasCaughtUp on its link
    meta,          \* per client: ServerCatchUpMetadata, [safe, ready], or NoTick
    joins,         \* connections so far
    requests,      \* per client: input_safe_ticks of requests under way
    readyNet,      \* per client: snapshot events under way
    stateNet,      \* per client: ticks of gated state under way
    manager,       \* per client: CatchUpManager
    held,          \* per client: whether it knows the gated entities, whether they
                   \* carry CatchUpGated, and the ticks of state it has of them
    safe           \* per client: LastConfirmedInput, or NoTick

serverVars == <<serverTick, gated, revealed, caughtUp, meta, joins, joined>>
joinVars == <<serverVars, requests, readyNet, stateNet, manager, held, safe>>

NewManager == [completed |-> FALSE, pending |-> NoTick, sent |-> 0, sentAt |-> NoTick,
               suppress |-> FALSE, activated |-> NoTick, panicked |-> FALSE]
NothingHeld == [known |-> FALSE, marker |-> FALSE, state |-> {}]

Now == serverTick + JoinLead
Others(c) == {d \in Joiners \ {c} : joined[d]}
HasAnyGated == gated # "none"
HasNonPrespawnGated == gated = "spawned"

\* A client that goes on has not exceeded its requests.
JoinTypeOK ==
    /\ serverTick \in 0 .. MaxJoinTick /\ gated \in {"none", "prespawned", "spawned"}
    /\ {revealed} \subseteq BOOLEAN /\ joined \in [Joiners -> BOOLEAN]
    /\ caughtUp \in [Joiners -> BOOLEAN] /\ joins \in 0 .. MaxJoins
    /\ \A c \in Joiners : manager[c].sent \in 0 .. (IF manager[c].panicked THEN MaxRequests + 1 ELSE MaxRequests)

JoinInit ==
    /\ serverTick = 0 /\ gated = "none" /\ revealed = FALSE /\ joins = 0
    /\ joined = [c \in Joiners |-> FALSE]
    /\ caughtUp = [c \in Joiners |-> FALSE]
    /\ meta = [c \in Joiners |-> NoTick]
    /\ requests = [c \in Joiners |-> {}]
    /\ readyNet = [c \in Joiners |-> {}]
    /\ stateNet = [c \in Joiners |-> {}]
    /\ manager = [c \in Joiners |-> NewManager]
    /\ held = [c \in Joiners |-> NothingHeld]
    /\ safe = [c \in Joiners |-> NoTick]

-----------------------------------------------------------------------------
(* The server. *)

\* needs_catchup of mark_client_caught_up_if_no_gated_on_connect
NeedsCatchup(c) ==
    IF revealed THEN HasAnyGated
    ELSE HasNonPrespawnGated /\ \E d \in Others(c) : caughtUp[d]

\* Mutant of MarkOnConnect: the client is told to skip, HasCaughtUp is forgotten.
MarkOnConnectHalf(c) ==
    IF NeedsCatchup(c)
    THEN UNCHANGED <<meta, caughtUp, revealed>>
    ELSE /\ meta' = [meta EXCEPT ![c] = [safe |-> NoTick, ready |-> NotRequired]]
         /\ UNCHANGED <<caughtUp, revealed>>

\* mark_client_caught_up_if_no_gated_on_connect, and the observer of HasCaughtUp
MarkOnConnect(c) ==
    IF revealed /\ HasAnyGated /\ ~ \E d \in Others(c) : caughtUp[d]
    THEN /\ meta' = [meta EXCEPT ![c] = [safe |-> 0, ready |-> NoTick]]
         /\ UNCHANGED <<caughtUp, revealed>>
    ELSE IF NeedsCatchup(c)
         THEN UNCHANGED <<meta, caughtUp, revealed>>
         ELSE /\ meta' = [meta EXCEPT ![c] = [safe |-> NoTick, ready |-> NotRequired]]
              /\ caughtUp' = [caughtUp EXCEPT ![c] = TRUE]
              /\ revealed' = TRUE

\* A client connects: its application is started again, or (KeepsEntity) uses
\* the Client entity, and with it the CatchUpManager, that it had.
JoinConnect(c) ==
    /\ ~ joined[c] /\ joins < MaxJoins
    /\ MarkOnConnect(c)
    /\ joined' = [joined EXCEPT ![c] = TRUE]
    /\ joins' = joins + 1
    /\ manager' = IF KeepsEntity /\ ~ manager[c].panicked THEN manager
                  ELSE [manager EXCEPT ![c] = NewManager]
    /\ safe' = [d \in Joiners |-> NoTick]      \* somebody's first input is missing
    /\ UNCHANGED <<serverTick, gated, requests, readyNet, stateNet, held>>

\* A client goes: its link and what was under way are gone.
\* reset_server_catchup_state_without_connected_clients
JoinDisconnect(c) ==
    /\ joined[c]
    /\ joined' = [joined EXCEPT ![c] = FALSE]
    /\ revealed' = (revealed /\ Others(c) # {})
    /\ caughtUp' = [caughtUp EXCEPT ![c] = FALSE]
    /\ meta' = [meta EXCEPT ![c] = NoTick]
    /\ requests' = [requests EXCEPT ![c] = {}]
    /\ readyNet' = [readyNet EXCEPT ![c] = {}]
    /\ stateNet' = [stateNet EXCEPT ![c] = {}]
    /\ held' = [held EXCEPT ![c] = NothingHeld]
    /\ safe' = [d \in Joiners |-> IF d = c \/ Others(d) \subseteq {c} THEN NoTick ELSE safe[d]]
    /\ UNCHANGED <<serverTick, gated, joins, manager>>

Later(a, b) == IF a < b THEN b ELSE a

\* buffer_catch_up_requests: the newest input-safe tick is kept.
BufferRequest(c, tick) ==
    /\ tick \in requests[c]
    /\ requests' = [requests EXCEPT ![c] = @ \ {tick}]
    /\ meta' = IF caughtUp[c] THEN meta
               ELSE IF meta[c] = NoTick
                    THEN [meta EXCEPT ![c] = [safe |-> tick, ready |-> NoTick]]
                    ELSE [meta EXCEPT ![c].safe = Later(@, tick)]
    /\ UNCHANGED <<serverTick, gated, revealed, caughtUp, joins, joined, readyNet, stateNet,
                   manager, held, safe>>

\* accept_buffered_catch_up_requests
Acceptable(c, tick) ==
    meta[c] # NoTick /\ ~ caughtUp[c] /\ meta[c].ready = NoTick /\ tick > meta[c].safe

\* The gated components have not been sent to the client since they became visible.
NotSentTo(c) == held[c].state \cup stateNet[c] = {}

\* snapshot_ready.is_some()
ReadyToTell(c) == meta[c] # NoTick /\ meta[c].ready # NoTick

\* A frame with a replication send pass: accept_buffered_catch_up_requests, then
\* the send of replicated state (what a client that is caught up newly sees is
\* sent with this tick), then emit_catch_up_snapshot_ready.
ServerFrame ==
    /\ serverTick < MaxJoinTick
    /\ serverTick' = serverTick + 1
    /\ \E accepted \in {{c \in Joiners : Acceptable(c, serverTick + 1)}} :
          /\ caughtUp' = [c \in Joiners |-> caughtUp[c] \/ c \in accepted]
          /\ revealed' = (revealed \/ accepted # {})
          /\ stateNet' = [c \in Joiners |->
                            stateNet[c] \cup
                              (IF HasAnyGated /\ (c \in accepted \/ (caughtUp[c] /\ NotSentTo(c)))
                               THEN {serverTick + 1} ELSE {})]
          /\ readyNet' = [c \in Joiners |->
                            readyNet[c] \cup
                              (IF c \in accepted THEN {serverTick + 1}
                               ELSE IF ReadyToTell(c) THEN {meta[c].ready} ELSE {})]
          /\ meta' = [c \in Joiners |->
                        IF c \in accepted \/ ReadyToTell(c) THEN NoTick ELSE meta[c]]
    /\ UNCHANGED <<gated, joins, joined, requests, manager, held, safe>>

\* The application spawns its gated entities.
SpawnGated(kind) ==
    /\ gated = "none"
    /\ gated' = kind
    /\ UNCHANGED <<serverTick, revealed, caughtUp, meta, joins, joined, requests, readyNet, stateNet,
                   manager, held, safe>>

-----------------------------------------------------------------------------
(* The client. *)

Running(c) == joined[c] /\ ~ manager[c].panicked
CatchingUp(c) == Running(c) /\ ~ manager[c].completed

\* complete_catch_up: the manager, and the markers of the gated entities
Completed(m) == [m EXCEPT !.completed = TRUE, !.pending = NoTick, !.sent = 0, !.sentAt = NoTick,
                          !.suppress = FALSE]
Ungated(h) == [h EXCEPT !.marker = FALSE]

\* Mutant of ReceiveGated: checksums go on until the first request is sent.
ReceiveGatedSending(c) ==
    /\ Running(c) /\ HasAnyGated /\ ~ held[c].known
    /\ held' = [held EXCEPT ![c].known = TRUE, ![c].marker = ~ manager[c].completed]
    /\ UNCHANGED <<serverVars, requests, readyNet, stateNet, manager, safe>>

\* The entity with its CatchUpGated marker is replicated: on_receive_catchup_gated
\* suppresses checksums, or takes the marker away again.
ReceiveGated(c) ==
    /\ Running(c) /\ HasAnyGated /\ ~ held[c].known
    /\ held' = [held EXCEPT ![c].known = TRUE, ![c].marker = ~ manager[c].completed]
    /\ manager' = [manager EXCEPT ![c].suppress = @ \/ ~ manager[c].completed]
    /\ UNCHANGED <<serverVars, requests, readyNet, stateNet, safe>>

\* Replicated state of the gated entities arrives.
ReceiveState(c, tick) ==
    /\ Running(c) /\ tick \in stateNet[c]
    /\ stateNet' = [stateNet EXCEPT ![c] = @ \ {tick}]
    /\ held' = [held EXCEPT ![c].state = @ \cup {tick}]
    /\ UNCHANGED <<serverVars, requests, readyNet, manager, safe>>

\* Inputs of all other clients arrive up to some tick.
ReceiveInputs(c) ==
    /\ Running(c) /\ Others(c) # {}
    /\ \E tick \in {t \in 0 .. Now : /\ t >= Now - InputLag
                                       /\ IF safe[c] = NoTick THEN TRUE ELSE safe[c] < t} :
          safe' = [safe EXCEPT ![c] = tick]
    /\ UNCHANGED <<serverVars, requests, readyNet, stateNet, manager, held>>

\* The early returns of send_catchup_request
MayRequest(c) ==
    /\ CatchingUp(c) /\ safe[c] # NoTick /\ held[c].marker
    /\ manager[c].pending = NoTick
    /\ manager[c].sentAt # NoTick => Now - manager[c].sentAt >= RetryTicks

\* Mutant of SendRequest: the limit is checked after the request was sent.
SendRequestBeyond(c) ==
    /\ MayRequest(c) /\ manager[c].sent <= MaxRequests
    /\ requests' = [requests EXCEPT ![c] = @ \cup {safe[c]}]
    /\ manager' = [manager EXCEPT ![c].sent = @ + 1, ![c].sentAt = Now, ![c].suppress = TRUE]
    /\ UNCHANGED <<serverVars, readyNet, stateNet, held, safe>>

\* send_catchup_request
SendRequest(c) ==
    /\ MayRequest(c) /\ manager[c].sent < MaxRequests
    /\ requests' = [requests EXCEPT ![c] = @ \cup {safe[c]}]
    /\ manager' = [manager EXCEPT ![c].sent = @ + 1, ![c].sentAt = Now, ![c].suppress = TRUE]
    /\ UNCHANGED <<serverVars, readyNet, stateNet, held, safe>>

\* send_catchup_request at its limit: the client panics.
PanicOnRequest(c) ==
    /\ MayRequest(c) /\ manager[c].sent = MaxRequests
    /\ manager' = [manager EXCEPT ![c].sent = @ + 1, ![c].panicked = TRUE]
    /\ UNCHANGED <<serverVars, requests, readyNet, stateNet, held, safe>>

\* receive_catch_up_snapshot_ready
ReceiveReady(c, event) ==
    /\ Running(c) /\ event \in readyNet[c]
    /\ readyNet' = [readyNet EXCEPT ![c] = @ \ {event}]
    /\ IF manager[c].completed THEN UNCHANGED <<manager, held>>
       ELSE IF event = NotRequired
            THEN /\ manager' = [manager EXCEPT ![c] = Completed(@)]
                 /\ held' = [held EXCEPT ![c] = Ungated(@)]
            ELSE /\ manager' = [manager EXCEPT ![c].pending =
                                  IF @ = NoTick THEN event ELSE Later(@, event)]
                 /\ UNCHANGED held
    /\ UNCHANGED <<serverVars, requests, stateNet, safe>>

\* Mutant of Confirmed: the checkpoint of the snapshot is not waited for.
ConfirmedAnyway(c, tick) == TRUE

\* server_mutate_ticks.contains: all state of that tick has been received.
Confirmed(c, tick) == tick \in held[c].state

\* trigger_snapshot_rollback when the snapshot can be used.  The forced rollback,
\* trigger_catch_up_snapshot_activation and finish_catch_up_snapshot_activation
\* follow in the same frame.
Activate(c) ==
    /\ CatchingUp(c) /\ manager[c].pending # NoTick
    /\ \E tick \in {manager[c].pending} :
          /\ Now - tick \in 0 .. JoinRollback
          /\ IF Others(c) = {} THEN TRUE ELSE IF safe[c] = NoTick THEN FALSE ELSE safe[c] >= tick
          /\ Confirmed(c, tick)
          /\ manager' = [manager EXCEPT ![c] = [Completed(@) EXCEPT !.activated = tick]]
    /\ held' = [held EXCEPT ![c] = Ungated(@)]
    /\ UNCHANGED <<serverVars, requests, readyNet, stateNet, safe>>

\* trigger_snapshot_rollback when the snapshot is too old: the client disconnects.
TooOld(c) ==
    /\ CatchingUp(c) /\ manager[c].pending # NoTick
    /\ Now - manager[c].pending > JoinRollback
    /\ JoinDisconnect(c)

JoinNext ==
    \/ ServerFrame
    \/ \E kind \in {"prespawned", "spawned"} : SpawnGated(kind)
    \/ \E c \in Joiners : \/ JoinConnect(c) \/ JoinDisconnect(c) \/ ReceiveGated(c)
                          \/ ReceiveInputs(c) \/ SendRequest(c) \/ PanicOnRequest(c) \/ Activate(c) \/ TooOld(c)
                          \/ \E tick \in requests[c] : BufferRequest(c, tick)
                          \/ \E tick \in stateNet[c] : ReceiveState(c, tick)
                          \/ \E event \in readyNet[c] : ReceiveReady(c, event)

JoinSpec == JoinInit /\ [][JoinNext]_joinVars

-----------------------------------------------------------------------------
(* The properties. *)

\* A client whose catch-up is over is one to which the server shows the gated
\* components: nobody simulates and sends checksums of entities whose state
\* will never come.  (With KeepsEntity a client that connects again keeps
\* `completed`, and is adrift.)
NoneAdrift == \A c \in Joiners : joined[c] /\ manager[c].completed => caughtUp[c]

\* The forced rollback of a catch-up goes to a tick whose authoritative state the
\* client has completely received, whichever of the event and the state came
\* first and however often a request was repeated.
ActivatedOnSnapshot ==
    \A c \in Joiners : joined[c] /\ manager[c].activated # NoTick
        => manager[c].activated \in held[c].state

\* A client that joins a running game never sends checksums of gated entities
\* before their state is at least under way to it.
HonestChecksums ==
    \A c \in Joiners : joined[c] /\ held[c].known /\ ~ manager[c].suppress
        => caughtUp[c]

\* Catch-up of a late joiner (late_join/client.rs, late_join/server.rs).
CatchUpIsHonest == JoinTypeOK /\ NoneAdrift /\ ActivatedOnSnapshot /\ HonestChecksums
=============================================================================
