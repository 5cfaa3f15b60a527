----------------------------- MODULE P2PSession -----------------------------
(***************************************************************************)
(* The start barrier of a deterministic peer-to-peer session               *)
(* (connection/p2p/src/session.rs).  Every peer freezes the Links it has   *)
(* declared into a cohort, proposes the earliest tick it can start at,     *)
(* takes the maximum of all proposals, acknowledges it, and starts         *)
(* immediately before that tick once everybody has acknowledged it.        *)
(*                                                                         *)
(* SessionFrame(p, ...) is one frame of peer p: messages are received,     *)
(* drive_session runs in PreUpdate, start_session_before_agreed_tick runs  *)
(* before each fixed tick, and unread messages are dropped at the end.     *)
(* The control channel is reliable and unordered: a message is delivered   *)
(* once, in any frame, as long as the receiver's Link stays connected.     *)
(* A roster hash is the roster itself.                                     *)
(***************************************************************************)
EXTENDS Integers, FiniteSets, FiniteSetsExt

CONSTANTS
    Scenarios,     \* the peers that declare Links to each other, their
                   \* start_timeout in frames, the bounds on their start attempts,
                   \* their ticks and the fixed ticks of a frame, and the faults
                   \* that may happen
    Delay,         \* start_delay_ticks
    MaxFaults      \* bound: faults

Peers == UNION {s.peers : s \in Scenarios}

Faults == {"Stop", "Restart", "LinkDown", "Undeclare", "TickJump"}

\* Option<Tick>::None
NoTick == -1

ASSUME P2PAssumption ==
    /\ {Delay, MaxFaults} \subseteq Nat
    /\ \A s \in Scenarios : {s.timeout, s.attempts, s.ticks, s.catchUp} \subseteq Nat /\ s.faults \subseteq Faults

VARIABLES
    scenario,  \* a member of Scenarios, fixed
    ses,       \* P2PSession of each peer
    p2p,       \* the P2P component of p's Link to q, "None" when it has none
    conn,      \* pairs <<p, q>>: p's Link to q has Connected
    mail,      \* messages under way
    ltick,     \* LocalTimeline of each peer
    faults,    \* number of faults so far
    acksQueued      \* history: every StartAcknowledgement ever queued

p2pVars == <<scenario, ses, p2p, conn, mail, ltick, faults, acksQueued>>

cohort == scenario.peers

Timeout == scenario.timeout

MaxTick == scenario.ticks

MaxCatchUp == scenario.catchUp

\* P2PSession::default; `remote` is remote_peers, `age` counts frames since
\* start_started_at.
Idle(gen) ==
    [state |-> "Stopped", gen |-> gen, start |-> NoTick, ready |-> NoTick,
     readySent |-> FALSE, ackSent |-> FALSE, roster |-> {}, age |-> 0,
     remote |-> <<>>, mismatch |-> FALSE]

Candidates(p) == {q \in cohort : p2p[p][q] = "Candidate"}

AllConnected(p) == \A q \in Candidates(p) : <<p, q>> \in conn

-----------------------------------------------------------------------------
(* P2PSession: the functions on one peer's state.                          *)

\* Mutant: the generation of a message is not compared.
RelevantAnyGeneration(s, m) == m.from \in DOMAIN s.remote

\* receive: an older attempt, and a Link outside the cohort, are ignored.
Relevant(s, m) == m.gen = s.gen /\ m.from \in DOMAIN s.remote

\* receive: the first value of a peer stays.  Which of several in one frame is
\* first does not matter: each may also come in a frame of its own.
First(old, ticks) == IF old # NoTick \/ ticks = {} THEN old ELSE CHOOSE t \in ticks : TRUE

\* receive, for all the messages of a frame.
Receive(s, msgs) ==
    LET rel == {m \in msgs : Relevant(s, m)}
        good == {m \in rel : m.roster = s.roster}
        Ticks(q, kind) == {m.tick : m \in {g \in good : g.from = q /\ g.kind = kind}}
    IN  [s EXCEPT
            !.mismatch = s.mismatch \/ good # rel,
            !.remote = [q \in DOMAIN s.remote |->
                [ready |-> First(s.remote[q].ready, Ticks(q, "Ready")),
                 ack |-> First(s.remote[q].ack, Ticks(q, "Ack"))]]]

\* Mutant: the tick is chosen from the proposals that have arrived.
ProposalsArrived(s) ==
    {s.ready} \cup ({s.remote[q].ready : q \in DOMAIN s.remote} \ {NoTick})

\* The proposals that advance folds over.
Proposals(s) == {s.ready} \cup {s.remote[q].ready : q \in DOMAIN s.remote}

\* agreed_start_tick
AgreedStartTick(s) ==
    IF s.state = "Starting" /\ \A q \in DOMAIN s.remote : s.remote[q].ack = s.start
    THEN s.start ELSE NoTick

\* Consensus reached at or after the target tick.
Late(s, tick) == tick >= s.start

\* advance: the session it leaves, and whether it failed.
Advanced(s, tick, synced) ==
    LET r == IF synced /\ s.ready = NoTick THEN [s EXCEPT !.ready = tick + Delay] ELSE s
        complete == NoTick \notin Proposals(r)
        t == IF complete THEN [r EXCEPT !.start = Max(Proposals(r))] ELSE r
        acks == {t.remote[q].ack : q \in DOMAIN t.remote}
    IN  [ses |-> t,
         failed |-> /\ complete
                    /\ NoTick \notin acks
                    /\ acks # {t.start} \/ Late(t, tick)]

\* collect_outbound: the kinds of message that are due.
Due(s) == (IF s.ready # NoTick /\ ~s.readySent THEN {"Ready"} ELSE {})
          \cup (IF s.start # NoTick /\ ~s.ackSent THEN {"Ack"} ELSE {})

Outbound(p, s) ==
    {[from |-> p, to |-> q, kind |-> k, gen |-> s.gen, roster |-> s.roster,
      tick |-> IF k = "Ready" THEN s.ready ELSE s.start] : q \in DOMAIN s.remote, k \in Due(s)}

Sent(s) == [s EXCEPT !.readySent = s.readySent \/ s.ready # NoTick,
                     !.ackSent = s.ackSent \/ s.start # NoTick]

\* Mutant: the timeout also ends a barrier that has agreed.
ExpiredAlways(s) == s.age >= Timeout

\* Mutant: a barrier never times out.
ExpiredNever(s) == FALSE

\* timed_out_at, which an agreed barrier does not look at.
Expired(s) == AgreedStartTick(s) = NoTick /\ s.age >= Timeout

\* drive_session: "idle" (not starting), "fail", "wait" or "go", with the
\* session and what it sends.
Drive(p, s, synced) ==
    LET step == Advanced(s, ltick[p], synced)
    IN  IF s.state # "Starting" THEN [kind |-> "idle", ses |-> s]
        ELSE IF \/ Candidates(p) # DOMAIN s.remote
                \/ s.mismatch
                \/ ~AllConnected(p) /\ s.age >= Timeout
             THEN [kind |-> "fail", ses |-> s]
        ELSE IF ~AllConnected(p) THEN [kind |-> "wait", ses |-> s]
        ELSE IF step.failed \/ Expired(step.ses) THEN [kind |-> "fail", ses |-> s]
        ELSE [kind |-> "go", ses |-> step.ses]

-----------------------------------------------------------------------------

P2PInit ==
    /\ scenario \in Scenarios
    /\ ses = [p \in Peers |-> Idle(0)]
    /\ p2p = [p \in Peers |-> [q \in Peers |->
                 IF p # q /\ {p, q} \subseteq cohort THEN "Inactive" ELSE "None"]]
    /\ conn = {c \in cohort \X cohort : c[1] # c[2]}
    /\ mail = {}
    /\ ltick = [p \in Peers |-> 0]
    /\ faults = 0
    /\ acksQueued = {}

\* start_session
Begin(p) ==
    LET found == {q \in cohort : p2p[p][q] = "Inactive"}
    IN  /\ ses[p].state = "Stopped"
        /\ found # {}
        /\ ses[p].gen < scenario.attempts
        /\ ses' = [ses EXCEPT ![p] =
                     [Idle(ses[p].gen + 1) EXCEPT
                         !.state = "Starting", !.roster = found \cup {p},
                         !.remote = [q \in found |-> [ready |-> NoTick, ack |-> NoTick]]]]
        /\ p2p' = [p2p EXCEPT ![p] = [q \in Peers |->
                     IF q \in found THEN "Candidate" ELSE p2p[p][q]]]
        /\ UNCHANGED <<scenario, conn, mail, ltick, faults, acksQueued>>

\* transition_candidates(next), for the Links in `from`
Moved(p, from, next) ==
    [p2p EXCEPT ![p] = [q \in Peers |-> IF p2p[p][q] \in from THEN next ELSE p2p[p][q]]]

Fault(kind) == kind \in scenario.faults /\ faults < MaxFaults /\ faults' = faults + 1

\* Mutant: stop_session leaves the Links of the session as they are.
StopKeepsLinks(p) ==
    /\ Fault("Stop")
    /\ ses[p].state # "Stopped"
    /\ ses' = [ses EXCEPT ![p] = Idle(ses[p].gen)]
    /\ UNCHANGED <<scenario, p2p, conn, mail, ltick, acksQueued>>

\* stop_session with unlink = false; with unlink = true LinkDown follows.
Stop(p) ==
    /\ Fault("Stop")
    /\ ses[p].state # "Stopped"
    /\ ses' = [ses EXCEPT ![p] = Idle(ses[p].gen)]
    /\ p2p' = Moved(p, {"Candidate", "Joined"}, "Inactive")
    /\ UNCHANGED <<scenario, conn, mail, ltick, acksQueued>>

\* start_session_before_agreed_tick sees every boundary before+1 .. before+n.
Boundary(s, before, n) == AgreedStartTick(s) \in (before + 1)..(before + n)

\* The rest of a frame of p, after receive has left s and drive_session decided d.
SessionBody(p, msgs, n, s, d) ==
    LET aged == IF s.state = "Starting"
                THEN [d.ses EXCEPT !.age = Min({Timeout, s.age + 1})] ELSE d.ses
        out == IF d.kind = "go" THEN Outbound(p, d.ses) ELSE {}
        next == IF d.kind = "go" THEN Sent(aged) ELSE aged
        starts == /\ d.kind # "fail"
                  /\ Boundary(next, ltick[p], n)
                  /\ AllConnected(p)
                  /\ Candidates(p) # {} /\ Cardinality(Candidates(p)) = Cardinality(DOMAIN next.remote)
    IN  /\ ltick' = [ltick EXCEPT ![p] = @ + n]
        /\ mail' = (mail \ msgs) \cup out
        /\ acksQueued' = acksQueued \cup {[peer |-> p, gen |-> m.gen, tick |-> m.tick] :
                                  m \in {o \in out : o.kind = "Ack"}}
        /\ ses' = [ses EXCEPT ![p] =
                     IF d.kind = "fail" THEN Idle(s.gen)
                     ELSE IF starts THEN [Idle(s.gen) EXCEPT !.state = "Started", !.start = next.start]
                     ELSE next]
        /\ p2p' = IF d.kind = "fail" THEN Moved(p, {"Candidate"}, "Inactive")
                  ELSE IF starts THEN Moved(p, {"Candidate"}, "Joined")
                  ELSE p2p
        /\ UNCHANGED <<scenario, conn, faults>>

(***************************************************************************)
(* A frame of p that receives `msgs` and runs n fixed ticks.               *)
(***************************************************************************)
SessionFrame(p, msgs, synced, n) ==
    \E s \in {IF ses[p].state = "Starting"
              THEN Receive(ses[p], {m \in msgs : p2p[p][m.from] = "Candidate"})
              ELSE ses[p]} :
    \E d \in {Drive(p, s, synced)} : SessionBody(p, msgs, n, s, d)

Inbox(p) == {m \in mail : m.to = p /\ <<p, m.from>> \in conn}

\* Whether the input timeline is synchronised matters until a tick is proposed.
Synced(p) == IF ses[p].state = "Starting" /\ ses[p].ready = NoTick /\ ltick[p] + Delay <= MaxTick THEN BOOLEAN ELSE {FALSE}

RunFrame(p) ==
    \E msgs \in SUBSET Inbox(p), synced \in Synced(p), n \in 0..Min({MaxCatchUp, MaxTick - ltick[p]}) :
        SessionFrame(p, msgs, synced, n)

\* The io and connection layers: p's end of a Link comes up or goes down.
LinkUp(p, q) ==
    /\ p2p[p][q] # "None" /\ <<p, q>> \notin conn
    /\ conn' = conn \cup {<<p, q>>}
    /\ UNCHANGED <<scenario, ses, p2p, mail, ltick, faults, acksQueued>>

LinkDown(p, q) ==
    /\ Fault("LinkDown")
    /\ <<p, q>> \in conn
    /\ conn' = conn \ {<<p, q>>}
    /\ mail' = {m \in mail : ~(m.to = p /\ m.from = q)}
    /\ UNCHANGED <<scenario, ses, p2p, ltick, acksQueued>>

\* The application takes the P2P component off a Link.
Undeclare(p, q) ==
    /\ Fault("Undeclare")
    /\ p2p[p][q] # "None"
    /\ p2p' = [p2p EXCEPT ![p][q] = "None"]
    /\ conn' = conn \ {<<p, q>>}
    /\ mail' = {m \in mail : ~(m.to = p /\ m.from = q)}
    /\ UNCHANGED <<scenario, ses, ltick, acksQueued>>

\* The application ends and starts again; the session starts from nothing.
Restart(p) ==
    /\ Fault("Restart")
    /\ ses' = [ses EXCEPT ![p] = Idle(0)]
    /\ p2p' = Moved(p, {"Candidate", "Joined"}, "Inactive")
    /\ conn' = {c \in conn : c[1] # p}
    /\ mail' = {m \in mail : m.to # p}
    /\ UNCHANGED <<scenario, ltick, acksQueued>>

\* Time synchronisation moves the local timeline without running ticks.
TickJump(p) ==
    /\ Fault("TickJump")
    /\ ltick[p] < MaxTick
    /\ ltick' = [ltick EXCEPT ![p] = @ + 1]
    /\ UNCHANGED <<scenario, ses, p2p, conn, mail, acksQueued>>

P2PNext ==
    \E p \in cohort :
        \/ Begin(p) \/ Stop(p) \/ RunFrame(p) \/ Restart(p) \/ TickJump(p)
        \/ \E q \in cohort \ {p} : LinkUp(p, q) \/ LinkDown(p, q) \/ Undeclare(p, q)

P2PSpec == P2PInit /\ [][P2PNext]_p2pVars

-----------------------------------------------------------------------------
(* Properties.                                                             *)

\* Two peers count each other in the same attempt.
SameAttempt(p, q) ==
    /\ ses[p].gen = ses[q].gen
    /\ p2p[p][q] \in {"Candidate", "Joined"} /\ p2p[q][p] \in {"Candidate", "Joined"}

\* Once one peer has started, no peer of the same attempt has fixed another
\* tick: the maximum of the proposals does not depend on the order they arrive
\* in, and the first proposal of a peer stays.  (A peer whose application was
\* restarted counts its attempts from the beginning and may be about to negotiate.)
OneStartTick ==
    \A p, q \in cohort :
        (SameAttempt(p, q) /\ ses[p].state = "Started" /\ ses[q].state # "Stopped")
            => ses[q].start \in {NoTick, ses[p].start}

\* A peer that has started has, for each Link that joined, an acknowledgement
\* of that very tick sent by the peer behind it in the same attempt.
StartedIsAcknowledged ==
    \A p, q \in cohort :
        (ses[p].state = "Started" /\ p2p[p][q] = "Joined")
            => [peer |-> q, gen |-> ses[p].gen, tick |-> ses[p].start] \in acksQueued

\* The P2P components follow the session whatever ends an attempt: candidates
\* exist only while it is starting, joined Links only while it has started.
LinksFollowSession ==
    \A p, q \in cohort :
        /\ p2p[p][q] = "Candidate" => ses[p].state = "Starting"
        /\ p2p[p][q] = "Joined" => ses[p].state = "Started"

\* A session that has started is backed by its peers, and no Link is left in a state
\* that belongs to an attempt that ended (session.rs: receive, transition_candidates).
StartedIsBacked == StartedIsAcknowledged /\ LinksFollowSession

\* A peer for which everybody has acknowledged the tick starts: without a stop,
\* a lost Link or a moved timeline it does not fall back to the lobby, because the
\* timeout no longer counts and the fixed ticks pass every boundary one by one.
AgreedBarrierHolds ==
    [][\A p \in cohort :
        (AgreedStartTick(ses[p]) # NoTick /\ ses'[p].state = "Stopped") => faults' > 0]_p2pVars

-----------------------------------------------------------------------------
(* Liveness.                                                               *)

\* A frame that runs a fixed tick, as every peer does again and again.
TickingFrame(p) ==
    \E msgs \in SUBSET Inbox(p), synced \in Synced(p) :
        SessionFrame(p, msgs, synced, Min({1, MaxTick - ltick[p]}))

\* An attempt does not stay open: it starts, or it fails and its Links return
\* to Inactive, whatever is lost and although an agreed barrier has no timeout.
AttemptEnds == \A p \in Peers : (ses[p].state = "Starting") ~> (ses[p].state # "Starting")
=============================================================================
