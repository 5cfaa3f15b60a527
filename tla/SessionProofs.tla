--------------------------- MODULE SessionProofs ---------------------------
(***************************************************************************)
(* P2PSession: a session that has started is backed by its peers, the      *)
(* peers of an attempt start at one tick, and an agreed boundary is never  *)
(* passed: for any number of peers, attempts, ticks and faults.            *)
(*                                                                         *)
(* An acknowledgement is remembered from the moment it is queued.  It can  *)
(* be followed from there: a message under way was queued, what a peer has *)
(* noted for the others came in such messages of its own attempt, and a    *)
(* peer starts only when it has noted one for every Link of its cohort.    *)
(*                                                                         *)
(* Messages: what a connection delivers, for any number of messages, ticks *)
(* and connections.  The names of the messages of a timeline are in the    *)
(* order of sending along one chain: what the application was given, what  *)
(* waits by (tick, sequence), what is on the wire, what the writer still   *)
(* holds of a failed serialization, and the sender's queue.  Each turn of  *)
(* a loop of the frame moves one message along that chain.                 *)
(*                                                                         *)
(* NetworkTarget: a target that combines others stands for the set that    *)
(* their operations make, in whatever form it ends, and both resolutions   *)
(* reach that set: for any peers, lists and inline capacity.               *)
(***************************************************************************)
EXTENDS P2PSession, Messages, NetworkTarget, CommonLemmas, FiniteSetTheorems, SequenceTheorems

-----------------------------------------------------------------------------
(* The barrier of a session.                                               *)

AckOf(q, gen, tick) == [peer |-> q, gen |-> gen, tick |-> tick]

SessionFields == {"state", "gen", "start", "ready", "readySent", "ackSent", "roster", "age",
                  "remote", "mismatch"}

\* The fields of a P2PSession.
Shaped(s) ==
    s = [f \in SessionFields |-> s[f]]

\* What a session has noted was queued, in its own attempt.
Noted(s, queued) ==
    \A q \in DOMAIN s.remote :
        s.remote[q].ack # NoTick => AckOf(q, s.gen, s.remote[q].ack) \in queued

\* Every acknowledgement under way was queued.
MailQueued(msgs, queued) == \A m \in msgs : m.kind = "Ack" => AckOf(m.from, m.gen, m.tick) \in queued

P2PInv ==
    /\ scenario \in Scenarios
    /\ DOMAIN ses = Peers /\ ltick \in [Peers -> Nat]
    /\ p2p = [p \in Peers |-> [q \in Peers |-> p2p[p][q]]]
    /\ \A p \in Peers : Shaped(ses[p]) /\ Noted(ses[p], acksQueued)
    /\ MailQueued(mail, acksQueued)
    /\ StartedIsAcknowledged
    /\ LinksFollowSession

LEMMA CohortOfPeers == ASSUME scenario \in Scenarios PROVE cohort \subseteq Peers
  BY DEF cohort, Peers

LEMMA IdleIsSound ==
    ASSUME NEW gen, NEW queued
    PROVE  Shaped(Idle(gen)) /\ Noted(Idle(gen), queued) /\ Idle(gen).gen = gen
           /\ Idle(gen).state = "Stopped"
<1>1. DOMAIN Idle(gen).remote = {}
  BY DEF Idle
<1>2. Idle(gen) = [f \in SessionFields |-> Idle(gen)[f]]
  BY DEF Idle, SessionFields
<1>3. Idle(gen).gen = gen /\ Idle(gen).state = "Stopped"
  BY DEF Idle
<1> QED BY <1>1, <1>2, <1>3 DEF Shaped, Noted

\* receive keeps the attempt and the cohort, and notes only what was queued.
LEMMA ReceiveIsSound ==
    ASSUME NEW s, NEW msgs, NEW queued, Shaped(s), Noted(s, queued), MailQueued(msgs, queued)
    PROVE  /\ Shaped(Receive(s, msgs)) /\ Noted(Receive(s, msgs), queued)
           /\ Receive(s, msgs).state = s.state /\ Receive(s, msgs).gen = s.gen
           /\ DOMAIN Receive(s, msgs).remote = DOMAIN s.remote
<1> DEFINE rel == {m \in msgs : Relevant(s, m)}
           good == {m \in rel : m.roster = s.roster}
           Of(q, kind) == {m.tick : m \in {g \in good : g.from = q /\ g.kind = kind}}
           remote == [q \in DOMAIN s.remote |->
                         [ready |-> First(s.remote[q].ready, Of(q, "Ready")),
                          ack |-> First(s.remote[q].ack, Of(q, "Ack"))]]
           mismatch == s.mismatch \/ good # rel
           r == [s EXCEPT !.mismatch = mismatch, !.remote = remote]
<1>1. Receive(s, msgs) = r
  BY DEF Receive
<1>a. DOMAIN remote = DOMAIN s.remote
  OBVIOUS
<1>2. /\ r.state = s.state /\ r.gen = s.gen /\ r.remote = remote
      /\ r = [f \in SessionFields |-> r[f]]
  <2> HIDE DEF remote, mismatch
  <2> QED BY DEF Shaped, SessionFields
<1>3. Shaped(r)
  BY <1>a, <1>2 DEF Shaped
<1>4. ASSUME NEW q \in DOMAIN s.remote, remote[q].ack # NoTick
      PROVE  AckOf(q, s.gen, remote[q].ack) \in queued
  <2>1. remote[q].ack = First(s.remote[q].ack, Of(q, "Ack"))
    OBVIOUS
  <2>2. CASE s.remote[q].ack # NoTick \/ Of(q, "Ack") = {}
    BY <2>1, <2>2, <1>4 DEF First, Noted
  <2>3. CASE s.remote[q].ack = NoTick /\ Of(q, "Ack") # {}
    <3>1. remote[q].ack \in Of(q, "Ack")
      BY <2>1, <2>3 DEF First
    <3>2. PICK m \in good : m.from = q /\ m.kind = "Ack" /\ m.tick = remote[q].ack
      BY <3>1
    <3>3. m \in msgs /\ m.gen = s.gen
      BY <3>2 DEF Relevant
    <3> QED BY <3>2, <3>3 DEF MailQueued
  <2> QED BY <2>2, <2>3
<1> QED BY <1>1, <1>a, <1>2, <1>3, <1>4 DEF Noted

\* advance changes the proposal and the tick, and nothing that was noted.
LEMMA AdvancedIsSound ==
    ASSUME NEW s, NEW tick, NEW synced, NEW queued, Shaped(s), Noted(s, queued)
    PROVE  /\ Shaped(Advanced(s, tick, synced).ses) /\ Noted(Advanced(s, tick, synced).ses, queued)
           /\ Advanced(s, tick, synced).ses.state = s.state
           /\ Advanced(s, tick, synced).ses.gen = s.gen
           /\ Advanced(s, tick, synced).ses.remote = s.remote
<1> DEFINE r == IF synced /\ s.ready = NoTick THEN [s EXCEPT !.ready = tick + Delay] ELSE s
           t == IF NoTick \notin Proposals(r) THEN [r EXCEPT !.start = Max(Proposals(r))] ELSE r
<1>1. Advanced(s, tick, synced).ses = t
  BY DEF Advanced
<1>2. Shaped(r) /\ r.state = s.state /\ r.gen = s.gen /\ r.remote = s.remote
  BY DEF Shaped, SessionFields
<1> HIDE DEF r
<1>3. Shaped(t) /\ t.state = r.state /\ t.gen = r.gen /\ t.remote = r.remote
  BY <1>2 DEF Shaped, SessionFields
<1> QED BY <1>1, <1>2, <1>3 DEF Noted

\* What drive_session decides.
LEMMA DriveIsSound ==
    ASSUME NEW p, NEW s, NEW synced, NEW queued, Shaped(s), Noted(s, queued)
    PROVE  LET d == Drive(p, s, synced)
           IN  /\ Shaped(d.ses) /\ Noted(d.ses, queued)
               /\ d.ses.state = s.state /\ d.ses.gen = s.gen /\ d.ses.remote = s.remote
               /\ d.kind \in {"idle", "fail", "wait", "go"}
               /\ d.kind = "idle" <=> s.state # "Starting"
               /\ d.kind \in {"idle", "wait"} => d.ses = s
               /\ d.kind = "wait" => ~ AllConnected(p)
               /\ d.kind = "go" => Candidates(p) = DOMAIN s.remote
  BY AdvancedIsSound DEF Drive
-----------------------------------------------------------------------------
(* The steps. *)

\* More acknowledgements queued never hurt.
LEMMA NotedGrows ==
    ASSUME NEW s, NEW queued, NEW more, queued \subseteq more, Noted(s, queued)
    PROVE  Noted(s, more)
  BY DEF Noted

\* The parts of a frame of p: the session after receive, drive_session's decision, and
\* the session that is left, unless the frame fails or starts.
Taken(p, msgs) ==
    IF ses[p].state = "Starting"
    THEN Receive(ses[p], {m \in msgs : p2p[p][m.from] = "Candidate"}) ELSE ses[p]

Decided(p, msgs, synced) == Drive(p, Taken(p, msgs), synced)

Aged(s, d) == IF s.state = "Starting" THEN [d.ses EXCEPT !.age = Min({Timeout, s.age + 1})] ELSE d.ses

Queued(p, d) == IF d.kind = "go" THEN Outbound(p, d.ses) ELSE {}

Following(s, d) == IF d.kind = "go" THEN Sent(Aged(s, d)) ELSE Aged(s, d)

Begins(p, n, d, next) ==
    /\ d.kind # "fail"
    /\ Boundary(next, ltick[p], n)
    /\ AllConnected(p)
    /\ Candidates(p) # {} /\ Cardinality(Candidates(p)) = Cardinality(DOMAIN next.remote)

Begun(gen, next) == [Idle(gen) EXCEPT !.state = "Started", !.start = next.start]

\* A frame, with its parts named.
LEMMA FrameUnfolds ==
    ASSUME NEW p, NEW msgs, NEW synced, NEW n, SessionFrame(p, msgs, synced, n)
    PROVE  LET s == Taken(p, msgs)
               d == Decided(p, msgs, synced)
               next == Following(s, d)
           IN  /\ ltick' = [ltick EXCEPT ![p] = @ + n]
               /\ mail' = (mail \ msgs) \cup Queued(p, d)
               /\ acksQueued' = acksQueued \cup {[peer |-> p, gen |-> m.gen, tick |-> m.tick] :
                                                    m \in {o \in Queued(p, d) : o.kind = "Ack"}}
               /\ ses' = [ses EXCEPT ![p] = IF d.kind = "fail" THEN Idle(s.gen)
                                            ELSE IF Begins(p, n, d, next) THEN Begun(s.gen, next)
                                            ELSE next]
               /\ p2p' = IF d.kind = "fail" THEN Moved(p, {"Candidate"}, "Inactive")
                         ELSE IF Begins(p, n, d, next) THEN Moved(p, {"Candidate"}, "Joined")
                         ELSE p2p
               /\ scenario' = scenario /\ conn' = conn /\ faults' = faults
<1> DEFINE s == Taken(p, msgs)
           d == Decided(p, msgs, synced)
<1>1. SessionFrame(p, msgs, synced, n) <=>
        \E s0 \in {s} : \E d0 \in {Drive(p, s0, synced)} : SessionBody(p, msgs, n, s0, d0)
  BY DEF SessionFrame, SessionBody, Taken
<1>2. SessionBody(p, msgs, n, s, d)
  BY <1>1 DEF Decided
<1> HIDE DEF s, d
<1>3. /\ ltick' = [ltick EXCEPT ![p] = @ + n]
      /\ mail' = (mail \ msgs) \cup Queued(p, d)
      /\ acksQueued' = acksQueued \cup {[peer |-> p, gen |-> m.gen, tick |-> m.tick] :
                                           m \in {o \in Queued(p, d) : o.kind = "Ack"}}
      /\ ses' = [ses EXCEPT ![p] = IF d.kind = "fail" THEN Idle(s.gen)
                                   ELSE IF Begins(p, n, d, Following(s, d)) THEN Begun(s.gen, Following(s, d))
                                   ELSE Following(s, d)]
      /\ p2p' = IF d.kind = "fail" THEN Moved(p, {"Candidate"}, "Inactive")
                ELSE IF Begins(p, n, d, Following(s, d)) THEN Moved(p, {"Candidate"}, "Joined")
                ELSE p2p
      /\ scenario' = scenario /\ conn' = conn /\ faults' = faults
  BY <1>2 DEF SessionBody, Queued, Following, Aged, Begins, Begun
<1> QED BY <1>3 DEF s, d

\* A frame that starts the session has an acknowledgement of its tick from
\* every Link that joins; a frame that fails leaves no candidate.
LEMMA FrameStep ==
    ASSUME P2PInv, NEW p \in cohort, NEW msgs \in SUBSET Inbox(p), NEW synced, NEW n \in Nat,
           SessionFrame(p, msgs, synced, n)
    PROVE  P2PInv'
<1> DEFINE s == Taken(p, msgs)
           d == Decided(p, msgs, synced)
           aged == Aged(s, d)
           out == Queued(p, d)
           next == Following(s, d)
           starts == Begins(p, n, d, next)
           begun == Begun(s.gen, next)
           new == IF d.kind = "fail" THEN Idle(s.gen) ELSE IF starts THEN begun ELSE next
<1>0. p \in Peers /\ cohort \subseteq Peers /\ Shaped(ses[p]) /\ Noted(ses[p], acksQueued)
      /\ ltick[p] \in Nat
  BY CohortOfPeers DEF P2PInv
<1>1. /\ ltick' = [ltick EXCEPT ![p] = @ + n]
      /\ mail' = (mail \ msgs) \cup out
      /\ acksQueued' = acksQueued \cup {[peer |-> p, gen |-> m.gen, tick |-> m.tick] :
                                          m \in {o \in out : o.kind = "Ack"}}
      /\ ses' = [ses EXCEPT ![p] = new]
      /\ p2p' = IF d.kind = "fail" THEN Moved(p, {"Candidate"}, "Inactive")
                ELSE IF starts THEN Moved(p, {"Candidate"}, "Joined") ELSE p2p
      /\ scenario' = scenario
  BY FrameUnfolds
<1>2. Shaped(s) /\ Noted(s, acksQueued) /\ s.state = ses[p].state /\ s.gen = ses[p].gen
      /\ (s.state # "Starting" => s = ses[p])
  <2>1. MailQueued({m \in msgs : p2p[p][m.from] = "Candidate"}, acksQueued)
    BY DEF P2PInv, MailQueued, Inbox
  <2> QED BY <1>0, <2>1, ReceiveIsSound DEF Taken
<1>a. d = Drive(p, s, synced)
  BY DEF Decided
<1> HIDE DEF s
<1>3. /\ Shaped(d.ses) /\ Noted(d.ses, acksQueued)
      /\ d.ses.state = s.state /\ d.ses.gen = s.gen /\ d.ses.remote = s.remote
      /\ d.kind \in {"idle", "fail", "wait", "go"}
      /\ d.kind = "idle" <=> s.state # "Starting"
      /\ d.kind \in {"idle", "wait"} => d.ses = s
      /\ d.kind = "wait" => ~ AllConnected(p)
      /\ d.kind = "go" => Candidates(p) = DOMAIN s.remote
  <2> HIDE DEF d
  <2> QED BY <1>a, <1>2, DriveIsSound
<1> HIDE DEF d
<1>4. /\ Shaped(aged) /\ aged.state = s.state /\ aged.gen = s.gen /\ aged.remote = s.remote
      /\ (s.state # "Starting" => aged = s)
  BY <1>3 DEF Shaped, SessionFields, Aged
<1> HIDE DEF aged
<1>5. /\ Shaped(next) /\ next.state = s.state /\ next.gen = s.gen /\ next.remote = s.remote
      /\ (s.state # "Starting" => next = s)
  <2>1. next = IF d.kind = "go" THEN Sent(aged) ELSE aged
    BY DEF Following, aged
  <2> HIDE DEF next
  <2> QED BY <1>3, <1>4, <2>1 DEF Shaped, SessionFields, Sent
<1>6. Noted(next, acksQueued)
  BY <1>2, <1>5 DEF Noted
<1> HIDE DEF next
<1>7. ASSUME starts
      PROVE  /\ s.state = "Starting" /\ Candidates(p) = DOMAIN s.remote
             /\ next.start # NoTick /\ \A q \in DOMAIN s.remote : s.remote[q].ack = next.start
  <2>1. AgreedStartTick(next) # NoTick
    BY <1>0, <1>7 DEF Begins, Boundary, NoTick
  <2>2. next.state = "Starting" /\ AgreedStartTick(next) = next.start
        /\ \A q \in DOMAIN next.remote : next.remote[q].ack = next.start
    BY <2>1 DEF AgreedStartTick
  <2>3. d.kind = "go"
    BY <1>3, <1>5, <1>7, <2>2 DEF Begins
  <2> QED BY <1>3, <1>5, <2>1, <2>2, <2>3
<1>8. Shaped(begun) /\ Noted(begun, acksQueued) /\ begun.state = "Started" /\ begun.gen = s.gen
      /\ begun.start = next.start
  <2> DEFINE i == Idle(s.gen)
  <2>1. Shaped(i) /\ i.gen = s.gen /\ DOMAIN i.remote = {}
    BY IdleIsSound DEF Idle
  <2> HIDE DEF i
  <2>2. begun = [i EXCEPT !.state = "Started", !.start = next.start]
    BY DEF i, Begun
  <2> QED BY <2>1, <2>2 DEF Shaped, SessionFields, Noted
<1> HIDE DEF begun
<1>9. Shaped(new) /\ Noted(new, acksQueued)
  BY <1>5, <1>6, <1>8, IdleIsSound
<1>10. acksQueued \subseteq acksQueued'
  BY <1>1
<1>11. DOMAIN ses' = Peers /\ ses'[p] = new /\ \A q \in Peers \ {p} : ses'[q] = ses[q]
  BY <1>0, <1>1 DEF P2PInv
<1>12. (\A q \in Peers : Shaped(ses[q]) /\ Noted(ses[q], acksQueued))'
  BY <1>9, <1>10, <1>11, NotedGrows DEF P2PInv
<1>13. ltick' \in [Peers -> Nat]
  BY <1>0, <1>1 DEF P2PInv
<1>14. (p2p = [q \in Peers |-> [r \in Peers |-> p2p[q][r]]])'
  BY <1>1, <1>0 DEF P2PInv, Moved
<1>15. MailQueued(mail', acksQueued')
  <2>1. ASSUME NEW m \in out, m.kind = "Ack"
        PROVE  AckOf(m.from, m.gen, m.tick) \in acksQueued'
    <3>1. m.from = p
      BY <2>1 DEF Queued, Outbound
    <3> QED BY <1>1, <2>1, <3>1 DEF AckOf
  <2> QED BY <1>1, <1>10, <2>1 DEF P2PInv, MailQueued
<1>16. \A q \in Peers, r \in Peers :
          p2p'[q][r] = IF q # p THEN p2p[q][r]
                       ELSE IF d.kind = "fail" /\ p2p[p][r] = "Candidate" THEN "Inactive"
                       ELSE IF d.kind # "fail" /\ starts /\ p2p[p][r] = "Candidate" THEN "Joined"
                       ELSE p2p[p][r]
  BY <1>0, <1>1 DEF P2PInv, Moved
<1> HIDE DEF starts
<1>17. cohort' = cohort
  BY <1>1 DEF cohort
<1>18. LinksFollowSession'
  <2> SUFFICES ASSUME NEW q \in cohort, NEW r \in cohort
               PROVE  /\ p2p'[q][r] = "Candidate" => ses'[q].state = "Starting"
                      /\ p2p'[q][r] = "Joined" => ses'[q].state = "Started"
    BY <1>17 DEF LinksFollowSession
  <2>1. /\ p2p[q][r] = "Candidate" => ses[q].state = "Starting"
        /\ p2p[q][r] = "Joined" => ses[q].state = "Started"
    BY DEF P2PInv, LinksFollowSession
  <2>2. CASE q # p
    BY <2>1, <2>2, <1>0, <1>11, <1>16
  <2>3. CASE q = p /\ d.kind = "fail"
    BY <2>1, <2>3, <1>0, <1>2, <1>3, <1>16
  <2>4. CASE q = p /\ d.kind # "fail" /\ starts
    BY <2>1, <2>4, <1>0, <1>2, <1>7, <1>8, <1>11, <1>16
  <2>5. CASE q = p /\ d.kind # "fail" /\ ~ starts
    BY <2>1, <2>5, <1>0, <1>2, <1>5, <1>11, <1>16
  <2> QED BY <2>2, <2>3, <2>4, <2>5
<1>19. StartedIsAcknowledged'
  <2> SUFFICES ASSUME NEW q \in cohort, NEW r \in cohort, ses'[q].state = "Started",
                      p2p'[q][r] = "Joined"
               PROVE  AckOf(r, ses'[q].gen, ses'[q].start) \in acksQueued'
    BY <1>17 DEF StartedIsAcknowledged, AckOf
  <2>1. ses[q].state = "Started" /\ p2p[q][r] = "Joined"
            => AckOf(r, ses[q].gen, ses[q].start) \in acksQueued
    BY DEF P2PInv, StartedIsAcknowledged, AckOf
  <2>2. CASE q # p
    BY <2>1, <2>2, <1>0, <1>10, <1>11, <1>16
  <2>3. CASE q = p /\ d.kind = "fail"
    BY <2>3, <1>11, IdleIsSound
  <2>4. CASE q = p /\ d.kind # "fail" /\ starts
    <3>1. p2p[p][r] # "Joined"
      BY <2>4, <1>2, <1>7 DEF P2PInv, LinksFollowSession
    <3>2. p2p[p][r] = "Candidate"
      BY <2>4, <3>1, <1>0, <1>16
    <3>3. r \in DOMAIN s.remote
      BY <3>2, <2>4, <1>7 DEF Candidates
    <3>4. AckOf(r, s.gen, next.start) \in acksQueued
      BY <3>3, <2>4, <1>2, <1>7 DEF Noted
    <3>5. ses'[q].gen = s.gen /\ ses'[q].start = next.start
      BY <2>4, <1>8, <1>11
    <3> QED BY <3>4, <3>5, <1>10
  <2>5. CASE q = p /\ d.kind # "fail" /\ ~ starts
    <3>1. ses'[p] = next
      BY <2>5, <1>11
    <3>2. s.state = "Started" /\ next = s /\ s = ses[p]
      BY <3>1, <2>5, <1>2, <1>5
    <3>3. p2p[p][r] = "Joined"
      BY <2>5, <1>0, <1>16
    <3> QED BY <2>1, <2>5, <3>1, <3>2, <3>3, <1>10
  <2> QED BY <2>2, <2>3, <2>4, <2>5
<1> QED BY <1>1, <1>11, <1>12, <1>13, <1>14, <1>15, <1>18, <1>19 DEF P2PInv

\* start_session begins a new attempt and moves Inactive Links only.
LEMMA BeginStep ==
    ASSUME P2PInv, NEW p \in cohort, Begin(p)
    PROVE  P2PInv'
<1> DEFINE found == {q \in cohort : p2p[p][q] = "Inactive"}
           i == Idle(ses[p].gen + 1)
           remote == [q \in found |-> [ready |-> NoTick, ack |-> NoTick]]
           new == [i EXCEPT !.state = "Starting", !.roster = found \cup {p}, !.remote = remote]
<1>0. p \in Peers /\ cohort \subseteq Peers
  BY CohortOfPeers DEF P2PInv
<1>1. /\ ses[p].state = "Stopped"
      /\ ses' = [ses EXCEPT ![p] = new]
      /\ p2p' = [p2p EXCEPT ![p] = [q \in Peers |-> IF q \in found THEN "Candidate" ELSE p2p[p][q]]]
      /\ UNCHANGED <<scenario, mail, ltick, acksQueued>>
  BY DEF Begin
<1>2. Shaped(i)
  BY IdleIsSound
<1>3. DOMAIN remote = found /\ \A q \in found : remote[q].ack = NoTick
  OBVIOUS
<1> HIDE DEF i, remote
<1>4. Shaped(new) /\ new.state = "Starting" /\ new.remote = remote
  BY <1>2 DEF Shaped, SessionFields
<1>5. Noted(new, acksQueued)
  BY <1>3, <1>4 DEF Noted
<1> HIDE DEF new
<1>6. DOMAIN ses' = Peers /\ ses'[p] = new /\ \A q \in Peers \ {p} : ses'[q] = ses[q]
  BY <1>0, <1>1 DEF P2PInv
<1>7. \A q \in Peers, r \in Peers :
          p2p'[q][r] = IF q = p /\ r \in found THEN "Candidate" ELSE p2p[q][r]
  BY <1>0, <1>1 DEF P2PInv
<1>8. (p2p = [q \in Peers |-> [r \in Peers |-> p2p[q][r]]])'
  BY <1>0, <1>1 DEF P2PInv
<1>9. cohort' = cohort
  BY <1>1 DEF cohort
<1> HIDE DEF found
<1>10. \A r \in cohort : p2p[p][r] # "Joined"
  BY <1>1 DEF P2PInv, LinksFollowSession
<1>11. LinksFollowSession'
  <2> SUFFICES ASSUME NEW x \in cohort, NEW y \in cohort
               PROVE  /\ p2p'[x][y] = "Candidate" => ses'[x].state = "Starting"
                      /\ p2p'[x][y] = "Joined" => ses'[x].state = "Started"
    BY <1>9 DEF LinksFollowSession
  <2>1. /\ p2p[x][y] = "Candidate" => ses[x].state = "Starting"
        /\ p2p[x][y] = "Joined" => ses[x].state = "Started"
    BY DEF P2PInv, LinksFollowSession
  <2>2. CASE x = p
    BY <2>1, <2>2, <1>0, <1>4, <1>6, <1>7, <1>10
  <2>3. CASE x # p
    BY <2>1, <2>3, <1>0, <1>6, <1>7
  <2> QED BY <2>2, <2>3
<1>12. StartedIsAcknowledged'
  <2> SUFFICES ASSUME NEW x \in cohort, NEW y \in cohort, ses'[x].state = "Started",
                      p2p'[x][y] = "Joined"
               PROVE  AckOf(y, ses'[x].gen, ses'[x].start) \in acksQueued'
    BY <1>9 DEF StartedIsAcknowledged, AckOf
  <2>1. ses[x].state = "Started" /\ p2p[x][y] = "Joined"
            => AckOf(y, ses[x].gen, ses[x].start) \in acksQueued
    BY DEF P2PInv, StartedIsAcknowledged, AckOf
  <2>2. CASE x = p
    BY <2>1, <2>2, <1>4, <1>6
  <2>3. CASE x # p
    BY <2>1, <2>3, <1>0, <1>1, <1>6, <1>7
  <2> QED BY <2>2, <2>3
<1>13. (\A q \in Peers : Shaped(ses[q]) /\ Noted(ses[q], acksQueued))'
  BY <1>1, <1>4, <1>5, <1>6 DEF P2PInv
<1> QED BY <1>1, <1>6, <1>8, <1>11, <1>12, <1>13 DEF P2PInv, MailQueued

\* stop_session, and a restart: the session is idle and its Links are Inactive again.
LEMMA EndStep ==
    ASSUME P2PInv, NEW p \in cohort, NEW gen,
           ses' = [ses EXCEPT ![p] = Idle(gen)],
           p2p' = Moved(p, {"Candidate", "Joined"}, "Inactive"),
           mail' \subseteq mail, UNCHANGED <<scenario, ltick, acksQueued>>
    PROVE  P2PInv'
<1>0. p \in Peers /\ cohort \subseteq Peers /\ cohort' = cohort
  BY CohortOfPeers DEF P2PInv, cohort
<1>1. DOMAIN ses' = Peers /\ ses'[p] = Idle(gen) /\ \A q \in Peers \ {p} : ses'[q] = ses[q]
  BY <1>0 DEF P2PInv
<1>2. Shaped(ses'[p]) /\ Noted(ses'[p], acksQueued) /\ ses'[p].state = "Stopped"
  BY <1>1, IdleIsSound
<1>3. \A q \in Peers, r \in Peers :
          p2p'[q][r] = IF q = p /\ p2p[p][r] \in {"Candidate", "Joined"} THEN "Inactive" ELSE p2p[q][r]
  BY <1>0 DEF P2PInv, Moved
<1>4. (p2p = [q \in Peers |-> [r \in Peers |-> p2p[q][r]]])'
  BY <1>0 DEF P2PInv, Moved
<1>5. LinksFollowSession'
  <2> SUFFICES ASSUME NEW x \in cohort, NEW y \in cohort
               PROVE  /\ p2p'[x][y] = "Candidate" => ses'[x].state = "Starting"
                      /\ p2p'[x][y] = "Joined" => ses'[x].state = "Started"
    BY <1>0 DEF LinksFollowSession
  <2>1. /\ p2p[x][y] = "Candidate" => ses[x].state = "Starting"
        /\ p2p[x][y] = "Joined" => ses[x].state = "Started"
    BY DEF P2PInv, LinksFollowSession
  <2>2. CASE x = p
    BY <2>1, <2>2, <1>0, <1>3
  <2>3. CASE x # p
    BY <2>1, <2>3, <1>0, <1>1, <1>3
  <2> QED BY <2>2, <2>3
<1>6. StartedIsAcknowledged'
  <2> SUFFICES ASSUME NEW x \in cohort, NEW y \in cohort, ses'[x].state = "Started",
                      p2p'[x][y] = "Joined"
               PROVE  AckOf(y, ses'[x].gen, ses'[x].start) \in acksQueued'
    BY <1>0 DEF StartedIsAcknowledged, AckOf
  <2>1. ses[x].state = "Started" /\ p2p[x][y] = "Joined"
            => AckOf(y, ses[x].gen, ses[x].start) \in acksQueued
    BY DEF P2PInv, StartedIsAcknowledged, AckOf
  <2>2. CASE x = p
    BY <2>1, <2>2, <1>2
  <2>3. CASE x # p
    BY <2>1, <2>3, <1>0, <1>1, <1>3
  <2> QED BY <2>2, <2>3
<1>7. (\A q \in Peers : Shaped(ses[q]) /\ Noted(ses[q], acksQueued))'
  BY <1>1, <1>2 DEF P2PInv
<1> QED BY <1>1, <1>4, <1>5, <1>6, <1>7 DEF P2PInv, MailQueued

\* A Link that comes up, goes down or is no longer declared, and a moved timeline.
LEMMA OutsideStep ==
    ASSUME P2PInv, NEW p \in cohort, NEW q \in cohort,
           LinkUp(p, q) \/ LinkDown(p, q) \/ Undeclare(p, q) \/ TickJump(p)
    PROVE  P2PInv'
<1>0. p \in Peers /\ q \in Peers /\ cohort \subseteq Peers
  BY CohortOfPeers DEF P2PInv
<1>1. UNCHANGED <<scenario, ses, acksQueued>> /\ mail' \subseteq mail
      /\ (p2p' = p2p \/ p2p' = [p2p EXCEPT ![p][q] = "None"])
      /\ (ltick' = ltick \/ ltick' = [ltick EXCEPT ![p] = @ + 1])
  BY DEF LinkUp, LinkDown, Undeclare, TickJump
<1>2. ltick' \in [Peers -> Nat]
  BY <1>0, <1>1 DEF P2PInv
<1>3. \A x \in Peers, y \in Peers : p2p'[x][y] \in {p2p[x][y], "None"}
  BY <1>0, <1>1 DEF P2PInv
<1>4. (p2p = [x \in Peers |-> [y \in Peers |-> p2p[x][y]]])'
  BY <1>0, <1>1 DEF P2PInv
<1>5. cohort' = cohort
  BY <1>1 DEF cohort
<1>6. LinksFollowSession'
  <2> SUFFICES ASSUME NEW x \in cohort, NEW y \in cohort
               PROVE  /\ p2p'[x][y] = "Candidate" => ses'[x].state = "Starting"
                      /\ p2p'[x][y] = "Joined" => ses'[x].state = "Started"
    BY <1>5 DEF LinksFollowSession
  <2>1. /\ p2p[x][y] = "Candidate" => ses[x].state = "Starting"
        /\ p2p[x][y] = "Joined" => ses[x].state = "Started"
    BY DEF P2PInv, LinksFollowSession
  <2> QED BY <2>1, <1>0, <1>1, <1>3
<1>7. StartedIsAcknowledged'
  <2> SUFFICES ASSUME NEW x \in cohort, NEW y \in cohort, ses'[x].state = "Started",
                      p2p'[x][y] = "Joined"
               PROVE  AckOf(y, ses'[x].gen, ses'[x].start) \in acksQueued'
    BY <1>5 DEF StartedIsAcknowledged, AckOf
  <2>1. ses[x].state = "Started" /\ p2p[x][y] = "Joined"
            => AckOf(y, ses[x].gen, ses[x].start) \in acksQueued
    BY DEF P2PInv, StartedIsAcknowledged, AckOf
  <2> QED BY <2>1, <1>0, <1>1, <1>3
<1> QED BY <1>1, <1>2, <1>4, <1>6, <1>7 DEF P2PInv, MailQueued

LEMMA P2PInitially == P2PInit => P2PInv
<1> SUFFICES ASSUME P2PInit PROVE P2PInv
  OBVIOUS
<1>0. scenario \in Scenarios /\ cohort \subseteq Peers
  BY CohortOfPeers DEF P2PInit
<1>1. DOMAIN ses = Peers /\ \A p \in Peers : ses[p] = Idle(0)
  BY DEF P2PInit
<1>2. \A p \in Peers : Shaped(ses[p]) /\ Noted(ses[p], acksQueued) /\ ses[p].state = "Stopped"
  BY <1>1, IdleIsSound
<1>3. \A p \in Peers, q \in Peers : p2p[p][q] \in {"Inactive", "None"}
  BY DEF P2PInit
<1>4. p2p = [p \in Peers |-> [q \in Peers |-> p2p[p][q]]]
  BY DEF P2PInit
<1>5. ltick \in [Peers -> Nat] /\ mail = {}
  BY DEF P2PInit
<1> QED BY <1>0, <1>1, <1>2, <1>3, <1>4, <1>5
        DEF P2PInv, MailQueued, StartedIsAcknowledged, LinksFollowSession

\* One step per action of the session.
LEMMA P2PStep == P2PInv /\ [P2PNext]_p2pVars => P2PInv'
<1> SUFFICES ASSUME P2PInv, [P2PNext]_p2pVars PROVE P2PInv'
  OBVIOUS
<1>1. ASSUME NEW p \in cohort, Begin(p) PROVE P2PInv'
  BY <1>1, BeginStep
<1>2. ASSUME NEW p \in cohort, Stop(p) PROVE P2PInv'
  BY <1>2, EndStep DEF Stop
<1>3. ASSUME NEW p \in cohort, Restart(p) PROVE P2PInv'
  BY <1>3, EndStep DEF Restart
<1>4. ASSUME NEW p \in cohort, RunFrame(p) PROVE P2PInv'
  <2>1. PICK msgs \in SUBSET Inbox(p), synced \in Synced(p),
             n \in 0..Min({MaxCatchUp, MaxTick - ltick[p]}) : SessionFrame(p, msgs, synced, n)
    BY <1>4 DEF RunFrame
  <2>2. n \in Nat
    OBVIOUS
  <2> QED BY <2>1, <2>2, FrameStep
<1>5. ASSUME NEW p \in cohort, NEW q \in cohort \ {p},
             LinkUp(p, q) \/ LinkDown(p, q) \/ Undeclare(p, q)
      PROVE  P2PInv'
  BY <1>5, OutsideStep
<1>6. ASSUME NEW p \in cohort, TickJump(p) PROVE P2PInv'
  BY <1>6, OutsideStep
<1>7. CASE UNCHANGED p2pVars
  BY <1>7 DEF p2pVars, P2PInv, MailQueued, Noted, StartedIsAcknowledged, LinksFollowSession, cohort
<1> QED BY <1>1, <1>2, <1>3, <1>4, <1>5, <1>6, <1>7 DEF P2PNext

\* Whatever is stopped, restarted, disconnected, reordered or moved, a peer that has
\* started holds for every joined Link an acknowledgement of its tick and its attempt,
\* and no Link is left in a state of an attempt that ended
\* (session.rs: receive, drive_session, start_session_before_agreed_tick).
THEOREM StartedIsBackedAlways == P2PSpec => []StartedIsBacked
<1>1. P2PInv => StartedIsBacked
  BY DEF P2PInv, StartedIsBacked
<1> QED BY <1>1, P2PInitially, P2PStep, PTL DEF P2PSpec
-----------------------------------------------------------------------------
(* One tick per attempt.  A peer fixes its tick when it has everybody's    *)
(* proposal; the first proposal of a peer stays, so the tick it            *)
(* acknowledges is the tick of its attempt from then on.                   *)

\* The tick of a session is fixed: it is the latest of a complete set of proposals.
StartIsLatest(s) ==
    s.state = "Starting" /\ s.start # NoTick =>
        NoTick \notin Proposals(s) /\ s.start = Max(Proposals(s))

\* An acknowledgement names the tick of the attempt it was sent in.
AckIsStart(k) ==
    /\ k.peer \in Peers /\ k.gen \in Nat /\ k.tick # NoTick
    /\ k.gen <= ses[k.peer].gen
    /\ k.gen = ses[k.peer].gen /\ ses[k.peer].state # "Stopped" => ses[k.peer].start = k.tick

AttemptInv ==
    /\ P2PInv
    /\ \A p \in Peers : ses[p].gen \in Nat /\ StartIsLatest(ses[p])
    /\ \A k \in acksQueued : AckIsStart(k)

\* Nobody's application ends and starts again during the session.
NoRestarts == \A s \in Scenarios : "Restart" \notin s.faults

\* receive keeps a complete set of proposals as it is.
LEMMA ReceiveKeepsProposals ==
    ASSUME NEW s, NEW msgs, Shaped(s)
    PROVE  LET r == Receive(s, msgs)
           IN  /\ r.start = s.start /\ r.ready = s.ready /\ r.state = s.state
               /\ NoTick \notin Proposals(s) => Proposals(r) = Proposals(s)
<1> DEFINE rel == {m \in msgs : Relevant(s, m)}
           good == {m \in rel : m.roster = s.roster}
           Of(q, kind) == {m.tick : m \in {g \in good : g.from = q /\ g.kind = kind}}
           remote == [q \in DOMAIN s.remote |->
                         [ready |-> First(s.remote[q].ready, Of(q, "Ready")),
                          ack |-> First(s.remote[q].ack, Of(q, "Ack"))]]
           mismatch == s.mismatch \/ good # rel
           r == [s EXCEPT !.mismatch = mismatch, !.remote = remote]
<1>1. Receive(s, msgs) = r
  BY DEF Receive
<1>2. /\ DOMAIN remote = DOMAIN s.remote
      /\ \A q \in DOMAIN s.remote : s.remote[q].ready # NoTick => remote[q].ready = s.remote[q].ready
  BY DEF First
<1>3. r.start = s.start /\ r.ready = s.ready /\ r.state = s.state /\ r.remote = remote
  <2> HIDE DEF remote, mismatch
  <2> QED BY DEF Shaped, SessionFields
<1> HIDE DEF remote, r
<1>4. ASSUME NoTick \notin Proposals(s) PROVE Proposals(r) = Proposals(s)
  <2>1. \A q \in DOMAIN s.remote : r.remote[q].ready = s.remote[q].ready
    BY <1>2, <1>3, <1>4 DEF Proposals
  <2> QED BY <1>2, <1>3, <2>1 DEF Proposals
<1> QED BY <1>1, <1>3, <1>4

\* advance fixes the tick once.
LEMMA AdvancedKeepsStart ==
    ASSUME NEW s, NEW tick, NEW synced, Shaped(s), s.state = "Starting", StartIsLatest(s)
    PROVE  LET t == Advanced(s, tick, synced).ses
           IN  /\ StartIsLatest(t)
               /\ s.start # NoTick => t.start = s.start /\ t.ready = s.ready
<1> DEFINE r == IF synced /\ s.ready = NoTick THEN [s EXCEPT !.ready = tick + Delay] ELSE s
           t == IF NoTick \notin Proposals(r) THEN [r EXCEPT !.start = Max(Proposals(r))] ELSE r
<1>1. Advanced(s, tick, synced).ses = t
  BY DEF Advanced
<1>2. Shaped(r) /\ r.state = s.state /\ r.start = s.start /\ r.remote = s.remote
      /\ (s.ready # NoTick => r = s)
  BY DEF Shaped, SessionFields
<1>3. s.start # NoTick => r = s /\ NoTick \notin Proposals(s) /\ s.start = Max(Proposals(s))
  BY <1>2 DEF StartIsLatest, Proposals
<1> HIDE DEF r
<1>4. CASE NoTick \notin Proposals(r)
  <2>1. t.start = Max(Proposals(r)) /\ t.ready = r.ready /\ t.remote = r.remote /\ t.state = r.state
    BY <1>2, <1>4 DEF Shaped, SessionFields
  <2> HIDE DEF t
  <2>2. Proposals(t) = Proposals(r)
    BY <2>1 DEF Proposals
  <2> QED BY <1>1, <1>3, <1>4, <2>1, <2>2 DEF StartIsLatest
<1>5. CASE NoTick \in Proposals(r)
  BY <1>1, <1>2, <1>3, <1>5 DEF StartIsLatest
<1> QED BY <1>4, <1>5

\* What a frame makes of the session of its peer: the attempt stays, and a tick that
\* was fixed stays until the attempt ends; what it acknowledges is that tick.
LEMMA FrameOutcome ==
    ASSUME P2PInv, NEW p \in cohort, NEW msgs \in SUBSET Inbox(p), NEW synced, NEW n \in Nat,
           SessionFrame(p, msgs, synced, n), StartIsLatest(ses[p])
    PROVE  /\ ses'[p].gen = ses[p].gen /\ StartIsLatest(ses'[p])
           /\ ses'[p].state # "Stopped" =>
                 ses[p].state # "Stopped" /\ (ses[p].start # NoTick => ses'[p].start = ses[p].start)
           /\ \A q \in Peers \ {p} : ses'[q] = ses[q]
           /\ \A k \in acksQueued' \ acksQueued :
                 /\ k.peer = p /\ k.gen = ses[p].gen /\ k.tick # NoTick
                 /\ ses'[p].state # "Stopped" => ses'[p].start = k.tick
           /\ acksQueued \subseteq acksQueued'
<1> DEFINE s == Taken(p, msgs)
           d == Decided(p, msgs, synced)
           aged == Aged(s, d)
           next == Following(s, d)
           starts == Begins(p, n, d, next)
           begun == Begun(s.gen, next)
           new == IF d.kind = "fail" THEN Idle(s.gen) ELSE IF starts THEN begun ELSE next
<1>0. p \in Peers /\ Shaped(ses[p]) /\ Noted(ses[p], acksQueued) /\ StartIsLatest(ses[p])
      /\ ltick[p] \in Nat
  BY CohortOfPeers DEF P2PInv
<1>1. /\ ses' = [ses EXCEPT ![p] = new]
      /\ acksQueued' = acksQueued \cup {[peer |-> p, gen |-> m.gen, tick |-> m.tick] :
                                          m \in {o \in Queued(p, d) : o.kind = "Ack"}}
  BY FrameUnfolds
<1>2. /\ Shaped(s) /\ s.state = ses[p].state /\ s.gen = ses[p].gen /\ s.start = ses[p].start
      /\ (s.state # "Starting" => s = ses[p])
      /\ StartIsLatest(s) /\ Noted(s, acksQueued)
  <2>1. MailQueued({m \in msgs : p2p[p][m.from] = "Candidate"}, acksQueued)
    BY DEF P2PInv, MailQueued, Inbox
  <2>2. Shaped(s) /\ s.state = ses[p].state /\ s.gen = ses[p].gen /\ s.start = ses[p].start
        /\ (s.state # "Starting" => s = ses[p]) /\ Noted(s, acksQueued)
    BY <1>0, <2>1, ReceiveIsSound, ReceiveKeepsProposals DEF Taken
  <2>3. CASE ses[p].state = "Starting"
    BY <1>0, <2>2, <2>3, ReceiveKeepsProposals DEF Taken, StartIsLatest
  <2>4. CASE ses[p].state # "Starting"
    BY <2>2, <2>4 DEF StartIsLatest
  <2> QED BY <2>2, <2>3, <2>4
<1>a. d = Drive(p, s, synced)
  BY DEF Decided
<1> HIDE DEF s
<1>3. /\ Shaped(d.ses) /\ d.ses.state = s.state /\ d.ses.gen = s.gen
      /\ d.kind \in {"idle", "fail", "wait", "go"}
      /\ d.kind = "idle" <=> s.state # "Starting"
      /\ d.kind \in {"idle", "wait"} => d.ses = s
  <2> HIDE DEF d
  <2> QED BY <1>2, <1>a, DriveIsSound
<1>4. StartIsLatest(d.ses) /\ (s.start # NoTick => d.ses.start = s.start)
  <2>1. CASE s.state = "Starting"
    <3>1. d.ses \in {s, Advanced(s, ltick[p], synced).ses}
      BY <1>a DEF Drive
    <3> HIDE DEF d
    <3> QED BY <1>2, <2>1, <3>1, AdvancedKeepsStart
  <2>2. CASE s.state # "Starting"
    BY <1>2, <1>3, <2>2
  <2> QED BY <2>1, <2>2
<1> HIDE DEF d
<1>5. /\ Shaped(aged) /\ aged.state = s.state /\ aged.gen = s.gen /\ aged.start = d.ses.start
      /\ aged.ready = d.ses.ready /\ aged.remote = d.ses.remote
  BY <1>3 DEF Shaped, SessionFields, Aged
<1>6. /\ next.state = s.state /\ next.gen = s.gen /\ next.start = d.ses.start
      /\ next.ready = d.ses.ready /\ next.remote = d.ses.remote
  <2>1. next = IF d.kind = "go" THEN Sent(aged) ELSE aged
    BY DEF Following
  <2> HIDE DEF aged, next
  <2> QED BY <1>5, <2>1 DEF Shaped, SessionFields, Sent
<1> HIDE DEF next
<1>7. StartIsLatest(next)
  BY <1>3, <1>4, <1>6 DEF StartIsLatest, Proposals
<1>8. begun.state = "Started" /\ begun.gen = s.gen /\ begun.start = next.start
  BY DEF Begun, Idle
<1>9. starts => s.state = "Starting"
  <2>1. starts => AgreedStartTick(next) # NoTick
    BY <1>0 DEF Begins, Boundary, NoTick
  <2> QED BY <1>6, <2>1 DEF AgreedStartTick
<1> HIDE DEF begun, starts
<1>10. /\ new.gen = ses[p].gen /\ StartIsLatest(new)
       /\ new.state # "Stopped" =>
             s.state # "Stopped" /\ new.start = d.ses.start
  BY <1>2, <1>6, <1>7, <1>8, <1>9, IdleIsSound DEF StartIsLatest
<1>11. ses'[p] = new /\ \A q \in Peers \ {p} : ses'[q] = ses[q]
  BY <1>0, <1>1 DEF P2PInv
<1> HIDE DEF new
<1>12. ASSUME NEW k \in acksQueued' \ acksQueued
       PROVE  k.peer = p /\ k.gen = ses[p].gen /\ k.tick # NoTick /\ k.tick = d.ses.start
  <2>1. PICK m \in Queued(p, d) : m.kind = "Ack" /\ k = [peer |-> p, gen |-> m.gen, tick |-> m.tick]
    BY <1>1, <1>12
  <2>2. m.gen = d.ses.gen /\ m.tick = d.ses.start /\ d.ses.start # NoTick
    BY <2>1 DEF Queued, Outbound, Due
  <2> QED BY <1>2, <1>3, <2>1, <2>2
<1> QED BY <1>1, <1>2, <1>4, <1>10, <1>11, <1>12

\* One step per action: an attempt that begins is a new one, and one that ends leaves
\* no tick; every other step leaves the sessions alone.
LEMMA AttemptStep ==
    ASSUME NoRestarts, AttemptInv, [P2PNext]_p2pVars
    PROVE  AttemptInv'
<1>0. P2PInv /\ P2PInv' /\ cohort \subseteq Peers
  BY P2PStep, CohortOfPeers DEF AttemptInv, P2PInv
<1>1. CASE ses' = ses /\ acksQueued' = acksQueued
  <2>1. \A q \in Peers : ses'[q].gen \in Nat /\ StartIsLatest(ses'[q])
    BY <1>1 DEF AttemptInv
  <2>2. ASSUME NEW k \in acksQueued PROVE AckIsStart(k)'
    <3>1. AckIsStart(k)
      BY DEF AttemptInv
    <3> QED BY <1>1, <3>1 DEF AckIsStart
  <2> QED BY <1>0, <1>1, <2>1, <2>2 DEF AttemptInv, StartIsLatest
<1>2. ASSUME NEW p \in cohort, NEW gen \in Nat, gen >= ses[p].gen, acksQueued' = acksQueued,
             ses'[p].gen = gen, StartIsLatest(ses'[p]), DOMAIN ses' = Peers,
             ses'[p].state = "Stopped" \/ gen > ses[p].gen,
             \A q \in Peers \ {p} : ses'[q] = ses[q]
      PROVE  AttemptInv'
  <2>1. \A q \in Peers : ses'[q].gen \in Nat /\ StartIsLatest(ses'[q])
    BY <1>0, <1>2 DEF AttemptInv
  <2>2. ASSUME NEW k \in acksQueued PROVE AckIsStart(k)'
    <3>1. AckIsStart(k)
      BY DEF AttemptInv
    <3>2. CASE k.peer = p
      BY <1>2, <3>1, <3>2 DEF AckIsStart, AttemptInv
    <3>3. CASE k.peer # p
      BY <1>2, <3>1, <3>3 DEF AckIsStart
    <3> QED BY <3>2, <3>3
  <2> QED BY <1>0, <1>2, <2>1, <2>2 DEF AttemptInv, StartIsLatest
<1>3. ASSUME NEW p \in cohort, Begin(p) PROVE AttemptInv'
  <2> DEFINE found == {q \in cohort : p2p[p][q] = "Inactive"}
             remote == [q \in found |-> [ready |-> NoTick, ack |-> NoTick]]
             new == [Idle(ses[p].gen + 1) EXCEPT !.state = "Starting", !.roster = found \cup {p},
                                                 !.remote = remote]
  <2>1. ses' = [ses EXCEPT ![p] = new] /\ acksQueued' = acksQueued
    BY <1>3 DEF Begin
  <2> HIDE DEF remote
  <2>2. new.gen = ses[p].gen + 1 /\ new.start = NoTick
    BY DEF Idle
  <2> HIDE DEF new
  <2>3. DOMAIN ses' = Peers /\ ses'[p] = new /\ \A q \in Peers \ {p} : ses'[q] = ses[q]
    BY <1>0, <2>1 DEF P2PInv
  <2>4. ses[p].gen + 1 \in Nat /\ ses[p].gen + 1 > ses[p].gen /\ ses[p].gen + 1 >= ses[p].gen
    BY <1>0 DEF AttemptInv
  <2>5. StartIsLatest(ses'[p]) /\ ses'[p].gen = ses[p].gen + 1
    BY <2>2, <2>3 DEF StartIsLatest
  <2> QED BY <1>2, <2>1, <2>3, <2>4, <2>5
<1>4. ASSUME NEW p \in cohort, Stop(p) PROVE AttemptInv'
  <2>1. ses' = [ses EXCEPT ![p] = Idle(ses[p].gen)] /\ acksQueued' = acksQueued
    BY <1>4 DEF Stop
  <2>2. DOMAIN ses' = Peers /\ ses'[p] = Idle(ses[p].gen) /\ \A q \in Peers \ {p} : ses'[q] = ses[q]
    BY <1>0, <2>1 DEF P2PInv
  <2>3. ses'[p].gen = ses[p].gen /\ ses'[p].state = "Stopped"
    BY <2>2, IdleIsSound
  <2>4. ses[p].gen \in Nat /\ ses[p].gen >= ses[p].gen
    BY <1>0 DEF AttemptInv
  <2> QED BY <1>2, <2>1, <2>2, <2>3, <2>4 DEF StartIsLatest
<1>5. ASSUME NEW p \in cohort, RunFrame(p) PROVE AttemptInv'
  <2>1. PICK msgs \in SUBSET Inbox(p), synced \in Synced(p),
             n \in 0..Min({MaxCatchUp, MaxTick - ltick[p]}) : SessionFrame(p, msgs, synced, n)
    BY <1>5 DEF RunFrame
  <2>2. n \in Nat
    OBVIOUS
  <2>3. /\ ses'[p].gen = ses[p].gen /\ StartIsLatest(ses'[p])
        /\ ses'[p].state # "Stopped" =>
              ses[p].state # "Stopped" /\ (ses[p].start # NoTick => ses'[p].start = ses[p].start)
        /\ \A q \in Peers \ {p} : ses'[q] = ses[q]
        /\ \A k \in acksQueued' \ acksQueued :
              /\ k.peer = p /\ k.gen = ses[p].gen /\ k.tick # NoTick
              /\ ses'[p].state # "Stopped" => ses'[p].start = k.tick
        /\ acksQueued \subseteq acksQueued'
    BY <1>0, <2>1, <2>2, FrameOutcome DEF AttemptInv
  <2>4. \A q \in Peers : ses'[q].gen \in Nat /\ StartIsLatest(ses'[q])
    BY <1>0, <2>3 DEF AttemptInv
  <2>5. ASSUME NEW k \in acksQueued' PROVE AckIsStart(k)'
    <3>1. CASE k \in acksQueued
      BY <2>3, <2>4, <3>1 DEF AttemptInv, AckIsStart
    <3>2. CASE k \notin acksQueued
      BY <1>0, <2>3, <2>4, <3>2 DEF AckIsStart
    <3> QED BY <3>1, <3>2
  <2> QED BY <1>0, <2>4, <2>5 DEF AttemptInv, StartIsLatest
<1>6. ASSUME NEW p \in cohort, Restart(p) PROVE FALSE
  BY <1>0, <1>6 DEF Restart, Fault, NoRestarts, P2PInv
<1>7. ASSUME NEW p \in cohort, TickJump(p) PROVE ses' = ses /\ acksQueued' = acksQueued
  BY <1>7 DEF TickJump
<1>8. ASSUME NEW p \in cohort, NEW q \in cohort \ {p}, LinkUp(p, q) \/ LinkDown(p, q) \/ Undeclare(p, q)
      PROVE  ses' = ses /\ acksQueued' = acksQueued
  BY <1>8 DEF LinkUp, LinkDown, Undeclare
<1>9. CASE UNCHANGED p2pVars
  BY <1>1, <1>9 DEF p2pVars
<1> QED BY <1>1, <1>3, <1>4, <1>5, <1>6, <1>7, <1>8, <1>9 DEF P2PNext

\* Peers of the same attempt start at one tick, for any number of peers, attempts and
\* ticks and whatever is stopped, disconnected, undeclared, reordered or moved, as long as
\* no application is restarted: a restarted one counts its attempts from the beginning, and
\* two restarts can pair a peer with a tick of an attempt it has forgotten
\* (session.rs: receive, advance, collect_outbound).
THEOREM OneStartTickAlways ==
    ASSUME NoRestarts
    PROVE  P2PSpec => []OneStartTick
<1>1. P2PInit => AttemptInv
  <2> SUFFICES ASSUME P2PInit PROVE AttemptInv
    OBVIOUS
  <2>1. \A p \in Peers : ses[p] = Idle(0) /\ Idle(0).gen = 0 /\ Idle(0).state = "Stopped"
    BY IdleIsSound DEF P2PInit
  <2> QED BY <2>1, P2PInitially DEF AttemptInv, P2PInit, StartIsLatest
<1>2. AttemptInv /\ [P2PNext]_p2pVars => AttemptInv'
  BY AttemptStep
<1>3. AttemptInv => OneStartTick
  <2> SUFFICES ASSUME AttemptInv, NEW p \in cohort, NEW q \in cohort, SameAttempt(p, q),
                      ses[p].state = "Started", ses[q].state # "Stopped"
               PROVE  ses[q].start = ses[p].start
    BY DEF OneStartTick
  <2>1. p2p[p][q] = "Joined"
    BY DEF AttemptInv, P2PInv, LinksFollowSession, SameAttempt
  <2>2. AckIsStart([peer |-> q, gen |-> ses[p].gen, tick |-> ses[p].start])
    BY <2>1 DEF AttemptInv, P2PInv, StartedIsAcknowledged
  <2> QED BY <2>2 DEF AckIsStart, SameAttempt
<1> QED BY <1>1, <1>2, <1>3, PTL DEF P2PSpec

-----------------------------------------------------------------------------
(* The barrier holds.  As long as nothing goes wrong all Links of a peer   *)
(* move together and all rosters are the cohort, so the only thing that    *)
(* could undo an agreement is the tick itself passing unnoticed.           *)

Ticks == 0 .. MaxTick

SessionTicks(s) ==
    /\ s.start \in Ticks \cup {NoTick} /\ s.ready \in Ticks \cup {NoTick}
    /\ \A q \in DOMAIN s.remote : s.remote[q].ready \in Ticks \cup {NoTick}

\* The state of every Link of a peer whose session is in a state.
LinkIn(state) ==
    IF state = "Stopped" THEN "Inactive" ELSE IF state = "Starting" THEN "Candidate" ELSE "Joined"

\* A session of a peer to which nothing has happened.
CalmSession(p, s) ==
    /\ s.state \in {"Stopped", "Starting", "Started"}
    /\ s.state = "Starting" => /\ DOMAIN s.remote = cohort \ {p} /\ cohort \ {p} # {}
                               /\ s.roster = cohort /\ ~ s.mismatch

\* An agreed tick is ahead of the peer that has agreed to it.
TickAhead(s, tick) == AgreedStartTick(s) # NoTick => tick < s.start

Calm ==
    /\ conn = {c \in cohort \X cohort : c[1] # c[2]}
    /\ \A m \in mail : m.roster = cohort
    /\ \A p \in cohort :
          /\ CalmSession(p, ses[p]) /\ TickAhead(ses[p], ltick[p])
          /\ p2p[p][p] = "None"
          /\ \A q \in cohort \ {p} : p2p[p][q] = LinkIn(ses[p].state)

BarrierInv ==
    /\ P2PInv
    /\ \A p \in Peers : StartIsLatest(ses[p]) /\ SessionTicks(ses[p]) /\ ltick[p] \in Ticks
    /\ \A m \in mail : m.tick \in Ticks
    /\ faults \in Nat
    /\ faults = 0 => Calm

\* A set of bounded natural numbers that is not empty has a maximum, and Max names it.
LEMMA MaxOfBounded ==
    ASSUME NEW N \in Nat, NEW S, S \subseteq 0 .. N, S # {}
    PROVE  Max(S) \in S
<1> DEFINE T == {x \in Nat : \E y \in S : x = N - y}
<1>1. T \subseteq Nat /\ T # {}
  <2>1. PICK y \in S : TRUE
    OBVIOUS
  <2>2. N - y \in T
    BY <2>1
  <2> QED BY <2>2
<1>2. \E x \in T : \A y \in T : ~ (<<y, x>> \in OpToRel(<, Nat))
  BY <1>1, WFMin, NatLessThanWellFounded
<1>3. ASSUME NEW x \in T, NEW y \in T, y < x PROVE <<y, x>> \in OpToRel(<, Nat)
  BY <1>1, <1>3 DEF OpToRel
<1>4. PICK x \in T : \A y \in T : ~ (y < x)
  BY <1>2, <1>3
<1>5. PICK z \in S : x = N - z
  OBVIOUS
<1>6. ASSUME NEW y \in S PROVE z >= y
  <2>1. N - y \in T /\ y \in 0 .. N /\ z \in 0 .. N
    OBVIOUS
  <2>2. ~ (N - y < N - z)
    BY <1>4, <1>5, <2>1
  <2> QED BY <2>1, <2>2
<1> QED BY <1>6 DEF Max

LEMMA MinOfTwo ==
    ASSUME NEW a \in Int, NEW b \in Int
    PROVE  Min({a, b}) \in {a, b} /\ Min({a, b}) <= a /\ Min({a, b}) <= b
<1>1. \E x \in {a, b} : \A y \in {a, b} : x <= y
  BY DEF Min
<1> QED BY <1>1 DEF Min

\* receive, when every roster is the one of the session: no mismatch, and no
\* acknowledgement that was noted is lost.
LEMMA ReceiveIsCalm ==
    ASSUME NEW s, NEW msgs, Shaped(s), scenario \in Scenarios, SessionTicks(s),
           \A m \in msgs : m.tick \in Ticks
    PROVE  LET r == Receive(s, msgs)
           IN  /\ r.roster = s.roster /\ DOMAIN r.remote = DOMAIN s.remote
               /\ (\A m \in msgs : m.roster = s.roster) /\ ~ s.mismatch => ~ r.mismatch
               /\ \A q \in DOMAIN s.remote :
                     s.remote[q].ack # NoTick => r.remote[q].ack = s.remote[q].ack
               /\ SessionTicks(r)
<1> DEFINE rel == {m \in msgs : Relevant(s, m)}
           good == {m \in rel : m.roster = s.roster}
           Of(q, kind) == {m.tick : m \in {g \in good : g.from = q /\ g.kind = kind}}
           remote == [q \in DOMAIN s.remote |->
                         [ready |-> First(s.remote[q].ready, Of(q, "Ready")),
                          ack |-> First(s.remote[q].ack, Of(q, "Ack"))]]
           mismatch == s.mismatch \/ good # rel
           r == [s EXCEPT !.mismatch = mismatch, !.remote = remote]
<1>1. Receive(s, msgs) = r
  BY DEF Receive
<1>2. /\ DOMAIN remote = DOMAIN s.remote
      /\ \A q \in DOMAIN s.remote : s.remote[q].ack # NoTick => remote[q].ack = s.remote[q].ack
  BY DEF First
<1>3. (\A m \in msgs : m.roster = s.roster) /\ ~ s.mismatch => ~ mismatch
  OBVIOUS
<1>4. ASSUME NEW q \in DOMAIN s.remote PROVE remote[q].ready \in Ticks \cup {NoTick}
  <2>1. Of(q, "Ready") \subseteq Ticks
    OBVIOUS
  <2>2. remote[q].ready = First(s.remote[q].ready, Of(q, "Ready"))
    OBVIOUS
  <2> HIDE DEF Of, remote
  <2> QED BY <2>1, <2>2 DEF First, SessionTicks
<1> HIDE DEF remote, mismatch
<1>5. /\ r.roster = s.roster /\ r.mismatch = mismatch /\ r.remote = remote
      /\ r.start = s.start /\ r.ready = s.ready
  BY DEF Shaped, SessionFields
<1> HIDE DEF r
<1>6. SessionTicks(r)
  BY <1>2, <1>4, <1>5 DEF SessionTicks
<1> QED BY <1>1, <1>2, <1>3, <1>5, <1>6

\* advance proposes a tick within the bound, and only then fixes one.
LEMMA AdvancedIsCalm ==
    ASSUME NEW s, NEW tick \in Nat, NEW synced, Shaped(s), scenario \in Scenarios, SessionTicks(s),
           synced /\ s.ready = NoTick => tick + Delay \in Ticks
    PROVE  LET t == Advanced(s, tick, synced).ses
           IN  SessionTicks(t) /\ t.roster = s.roster /\ t.mismatch = s.mismatch
<1> DEFINE r == IF synced /\ s.ready = NoTick THEN [s EXCEPT !.ready = tick + Delay] ELSE s
           t == IF NoTick \notin Proposals(r) THEN [r EXCEPT !.start = Max(Proposals(r))] ELSE r
<1>1. Advanced(s, tick, synced).ses = t
  BY DEF Advanced
<1>2. /\ Shaped(r) /\ r.start = s.start /\ r.remote = s.remote /\ r.roster = s.roster
      /\ r.mismatch = s.mismatch
      /\ r.ready = s.ready \/ r.ready \in Ticks
  <2>1. CASE synced /\ s.ready = NoTick
    BY <2>1 DEF Shaped, SessionFields
  <2>2. CASE ~ (synced /\ s.ready = NoTick)
    BY <2>2
  <2> QED BY <2>1, <2>2
<1>3. SessionTicks(r)
  BY <1>2 DEF SessionTicks
<1> HIDE DEF r
<1>4. CASE NoTick \notin Proposals(r)
  <2>1. Proposals(r) \subseteq Ticks /\ Proposals(r) # {} /\ MaxTick \in Nat
    BY <1>3, <1>4, P2PAssumption DEF Proposals, SessionTicks, MaxTick
  <2>2. Max(Proposals(r)) \in Ticks
    BY <2>1, MaxOfBounded DEF Ticks
  <2>3. /\ t.start = Max(Proposals(r)) /\ t.ready = r.ready /\ t.remote = r.remote
        /\ t.roster = r.roster /\ t.mismatch = r.mismatch
    BY <1>2, <1>4 DEF Shaped, SessionFields
  <2> HIDE DEF t
  <2> QED BY <1>1, <1>2, <1>3, <2>2, <2>3 DEF SessionTicks
<1>5. CASE NoTick \in Proposals(r)
  BY <1>1, <1>2, <1>3, <1>5
<1> QED BY <1>4, <1>5

\* drive_session of a calm peer goes on or fails; it goes on when the tick is agreed and
\* ahead, and an agreement it goes on with is ahead.
LEMMA DriveIsCalm ==
    ASSUME NEW p \in cohort, NEW s, NEW synced, Shaped(s), s.state = "Starting",
           scenario \in Scenarios, CalmSession(p, s), StartIsLatest(s),
           Candidates(p) = DOMAIN s.remote, AllConnected(p), ltick[p] \in Nat,
           NEW t, t = Advanced(s, ltick[p], synced).ses, SessionTicks(t)
    PROVE  LET d == Drive(p, s, synced)
           IN  /\ d.kind \in {"fail", "go"}
               /\ d.kind = "go" => d.ses = t /\ TickAhead(t, ltick[p])
               /\ AgreedStartTick(s) # NoTick /\ ltick[p] < s.start => d.kind = "go"
<1> DEFINE step == Advanced(s, ltick[p], synced)
           r == IF synced /\ s.ready = NoTick THEN [s EXCEPT !.ready = ltick[p] + Delay] ELSE s
           acks == {t.remote[q].ack : q \in DOMAIN t.remote}
<1>1. /\ step.ses = t
      /\ step.failed = (/\ NoTick \notin Proposals(r)
                        /\ NoTick \notin acks
                        /\ acks # {t.start} \/ Late(t, ltick[p]))
  BY DEF Advanced
<1>2. t.remote = s.remote /\ t.state = s.state /\ DOMAIN s.remote # {}
  <2>1. Noted(s, {AckOf(q, s.gen, s.remote[q].ack) : q \in DOMAIN s.remote})
    BY DEF Noted
  <2> QED BY <2>1, AdvancedIsSound DEF CalmSession
<1>3. StartIsLatest(t) /\ (s.start # NoTick => t.start = s.start)
  BY AdvancedKeepsStart
<1>4. t.start # NoTick => NoTick \notin Proposals(r)
  <2>1. Shaped(r)
    BY DEF Shaped, SessionFields
  <2>2. t = IF NoTick \notin Proposals(r) THEN [r EXCEPT !.start = Max(Proposals(r))] ELSE r
    BY DEF Advanced
  <2>3. r.start = s.start
    BY DEF Shaped, SessionFields
  <2>4. s.start # NoTick => r = s /\ NoTick \notin Proposals(s)
    BY DEF StartIsLatest, Proposals
  <2> HIDE DEF r
  <2> QED BY <2>1, <2>2, <2>3, <2>4
<1> HIDE DEF r, step
<1>5. Drive(p, s, synced) = IF step.failed \/ Expired(t)
                            THEN [kind |-> "fail", ses |-> s] ELSE [kind |-> "go", ses |-> t]
  BY <1>1 DEF Drive, CalmSession, step
<1>6. ASSUME AgreedStartTick(t) # NoTick
      PROVE  /\ ~ Expired(t) /\ t.start # NoTick
             /\ NoTick \notin Proposals(r) /\ NoTick \notin acks /\ acks = {t.start}
  <2>1. t.start # NoTick /\ \A q \in DOMAIN t.remote : t.remote[q].ack = t.start
    BY <1>6 DEF AgreedStartTick
  <2> QED BY <1>2, <1>4, <1>6, <2>1 DEF Expired
<1>7. t.start \in Int
  BY P2PAssumption DEF SessionTicks, Ticks, NoTick, MaxTick
<1>8. ASSUME AgreedStartTick(s) # NoTick, ltick[p] < s.start
      PROVE  ~ step.failed /\ ~ Expired(t)
  <2>1. s.start # NoTick /\ \A q \in DOMAIN s.remote : s.remote[q].ack = s.start
    BY <1>8 DEF AgreedStartTick
  <2>2. AgreedStartTick(t) # NoTick /\ t.start = s.start
    BY <1>2, <1>3, <2>1 DEF AgreedStartTick
  <2>3. ~ Expired(t) /\ acks = {t.start}
    BY <1>6, <2>2
  <2>4. ~ Late(t, ltick[p])
    BY <1>7, <1>8, <2>2 DEF Late
  <2> HIDE DEF acks
  <2> QED  BY <1>1, <2>3, <2>4
<1>9. ASSUME ~ step.failed PROVE TickAhead(t, ltick[p])
  <2>1. CASE AgreedStartTick(t) # NoTick
    <3>1. NoTick \notin Proposals(r) /\ NoTick \notin acks
      BY <1>6, <2>1
    <3>2. ~ Late(t, ltick[p])
      <4> HIDE DEF acks
      <4> QED  BY <1>1, <1>9, <3>1
    <3>3. ltick[p] < t.start
      BY <3>2, <1>7 DEF Late
    <3> QED  BY <3>3 DEF TickAhead
  <2>2. CASE AgreedStartTick(t) = NoTick
    BY <2>2 DEF TickAhead
  <2> QED  BY <2>1, <2>2
<1> QED BY <1>5, <1>8, <1>9

\* A frame keeps the barrier: an agreement of a calm peer ends in a start.
LEMMA FrameBarrier ==
    ASSUME BarrierInv, NEW p \in cohort, NEW msgs \in SUBSET Inbox(p), NEW synced \in Synced(p),
           NEW n \in Nat, ltick[p] + n \in Ticks, SessionFrame(p, msgs, synced, n)
    PROVE  /\ BarrierInv'
           /\ faults = 0 /\ AgreedStartTick(ses[p]) # NoTick => ses'[p].state # "Stopped"
<1> DEFINE s == Taken(p, msgs)
           d == Decided(p, msgs, synced)
           aged == Aged(s, d)
           next == Following(s, d)
           starts == Begins(p, n, d, next)
           begun == Begun(s.gen, next)
           new == IF d.kind = "fail" THEN Idle(s.gen) ELSE IF starts THEN begun ELSE next
           got == {m \in msgs : p2p[p][m.from] = "Candidate"}
           t == Advanced(s, ltick[p], synced).ses
<1>0. /\ P2PInv /\ P2PInv' /\ p \in Peers /\ cohort \subseteq Peers /\ scenario \in Scenarios
      /\ Shaped(ses[p]) /\ StartIsLatest(ses[p]) /\ SessionTicks(ses[p]) /\ ltick[p] \in Nat
      /\ Noted(ses[p], acksQueued) /\ MaxTick \in Nat
  BY CohortOfPeers, FrameStep, P2PAssumption DEF BarrierInv, P2PInv, MaxTick
<1>1. /\ ltick' = [ltick EXCEPT ![p] = @ + n]
      /\ mail' = (mail \ msgs) \cup Queued(p, d)
      /\ ses' = [ses EXCEPT ![p] = new]
      /\ p2p' = IF d.kind = "fail" THEN Moved(p, {"Candidate"}, "Inactive")
                ELSE IF starts THEN Moved(p, {"Candidate"}, "Joined") ELSE p2p
      /\ scenario' = scenario /\ conn' = conn /\ faults' = faults
  BY FrameUnfolds
<1>2. cohort' = cohort /\ MaxTick' = MaxTick /\ Ticks' = Ticks
  BY <1>1 DEF cohort, MaxTick, Ticks
<1>3. MailQueued(got, acksQueued) /\ \A m \in got : m.tick \in Ticks
  BY DEF BarrierInv, P2PInv, MailQueued, Inbox
<1>4. /\ Shaped(s) /\ Noted(s, acksQueued) /\ s.state = ses[p].state /\ s.start = ses[p].start
      /\ s.ready = ses[p].ready /\ DOMAIN s.remote = DOMAIN ses[p].remote
      /\ s.state # "Starting" => s = ses[p]
      /\ SessionTicks(s) /\ s.gen = ses[p].gen /\ s.roster = ses[p].roster
      /\ \A q \in DOMAIN s.remote : ses[p].remote[q].ack # NoTick => s.remote[q].ack = ses[p].remote[q].ack
      /\ (\A m \in got : m.roster = s.roster) /\ ~ ses[p].mismatch => ~ s.mismatch
  <2>1. CASE ses[p].state = "Starting"
    <3>1. s = Receive(ses[p], got)
      BY <2>1 DEF Taken
    <3> HIDE DEF s, got
    <3>2. Shaped(s) /\ Noted(s, acksQueued) /\ s.state = ses[p].state /\ s.gen = ses[p].gen
      BY <1>0, <1>3, <3>1, ReceiveIsSound
    <3>3. s.start = ses[p].start /\ s.ready = ses[p].ready
      BY <1>0, <3>1, ReceiveKeepsProposals
    <3>4. /\ DOMAIN s.remote = DOMAIN ses[p].remote /\ SessionTicks(s) /\ s.roster = ses[p].roster
          /\ \A q \in DOMAIN ses[p].remote :
                ses[p].remote[q].ack # NoTick => s.remote[q].ack = ses[p].remote[q].ack
          /\ (\A m \in got : m.roster = ses[p].roster) /\ ~ ses[p].mismatch => ~ s.mismatch
      BY <1>0, <1>3, <3>1, ReceiveIsCalm
    <3> QED BY <2>1, <3>2, <3>3, <3>4
  <2>2. CASE ses[p].state # "Starting"
    BY <1>0, <2>2 DEF Taken
  <2> QED BY <2>1, <2>2
<1>5. StartIsLatest(s)
  <2>1. CASE ses[p].state = "Starting"
    BY <1>0, <1>4, <2>1, ReceiveKeepsProposals DEF Taken, StartIsLatest
  <2> QED BY <1>4, <2>1 DEF StartIsLatest
<1>a. d = Drive(p, s, synced)
  BY DEF Decided
<1> HIDE DEF s, got
<1>6. synced /\ s.ready = NoTick => ltick[p] + Delay \in Ticks
  <2> DEFINE proposes == ses[p].state = "Starting" /\ ses[p].ready = NoTick /\ ltick[p] + Delay <= MaxTick
  <2>1. CASE proposes
    BY <1>0, <2>1, P2PAssumption DEF Ticks
  <2>2. CASE ~ proposes
    BY <2>2, Zenon DEF Synced
  <2> QED BY <2>1, <2>2
<1>7. /\ SessionTicks(t) /\ t.roster = s.roster /\ t.mismatch = s.mismatch
  BY <1>0, <1>4, <1>6, AdvancedIsCalm
<1>8. s.state = "Starting" => StartIsLatest(t)
  BY <1>4, <1>5, AdvancedKeepsStart
<1>b. t = Advanced(s, ltick[p], synced).ses
  OBVIOUS
<1> HIDE DEF t
<1>9. /\ Shaped(d.ses) /\ d.ses.state = s.state /\ d.ses.gen = s.gen /\ d.ses.remote = s.remote
      /\ d.kind \in {"idle", "fail", "wait", "go"}
      /\ d.kind = "idle" <=> s.state # "Starting"
      /\ d.kind \in {"idle", "wait"} => d.ses = s
  <2> HIDE DEF d
  <2> QED BY <1>4, <1>a, DriveIsSound
<1>10. d.ses \in {s, t}
  BY <1>a DEF Drive, t
<1> HIDE DEF d
<1>11. SessionTicks(d.ses) /\ d.ses.roster = s.roster /\ d.ses.mismatch = s.mismatch
       /\ StartIsLatest(d.ses)
  BY <1>4, <1>5, <1>7, <1>8, <1>9, <1>10 DEF StartIsLatest
<1>12. /\ Shaped(aged) /\ aged.state = s.state /\ aged.start = d.ses.start /\ aged.ready = d.ses.ready
       /\ aged.remote = d.ses.remote /\ aged.roster = s.roster /\ aged.mismatch = s.mismatch
       /\ s.state # "Starting" => aged = s
  BY <1>9, <1>11 DEF Shaped, SessionFields, Aged
<1>13. /\ next.state = s.state /\ next.start = d.ses.start /\ next.ready = d.ses.ready
       /\ next.remote = d.ses.remote /\ next.roster = s.roster /\ next.mismatch = s.mismatch
       /\ s.state # "Starting" => next = s
  <2>1. next = IF d.kind = "go" THEN Sent(aged) ELSE aged
    BY DEF Following
  <2> HIDE DEF aged, next
  <2> QED BY <1>9, <1>12, <2>1 DEF Shaped, SessionFields, Sent
<1> HIDE DEF next
<1>14. StartIsLatest(next) /\ SessionTicks(next)
  BY <1>9, <1>11, <1>13 DEF StartIsLatest, Proposals, SessionTicks
<1>15. /\ begun.state = "Started" /\ begun.start = next.start /\ begun.ready = NoTick
       /\ DOMAIN begun.remote = {}
  BY DEF Begun, Idle
<1>16. /\ Idle(s.gen).start = NoTick /\ Idle(s.gen).ready = NoTick /\ DOMAIN Idle(s.gen).remote = {}
       /\ Idle(s.gen).state = "Stopped"
  BY DEF Idle
<1>17. starts => AgreedStartTick(next) # NoTick /\ s.state = "Starting" /\ AgreedStartTick(next) = next.start
  <2>1. starts => AgreedStartTick(next) # NoTick
    BY <1>0 DEF Begins, Boundary, NoTick
  <2> QED BY <1>13, <2>1 DEF AgreedStartTick
<1> HIDE DEF begun
<1>18. StartIsLatest(new) /\ SessionTicks(new)
  BY <1>14, <1>15, <1>16 DEF StartIsLatest, SessionTicks
<1>19. ses'[p] = new /\ ltick'[p] = ltick[p] + n
       /\ \A q \in Peers \ {p} : ses'[q] = ses[q] /\ ltick'[q] = ltick[q]
  BY <1>0, <1>1 DEF P2PInv
<1> HIDE DEF new
<1>20. \A q \in Peers : StartIsLatest(ses'[q]) /\ SessionTicks(ses'[q]) /\ ltick'[q] \in Ticks
  BY <1>18, <1>19 DEF BarrierInv
<1>21. ASSUME NEW m \in mail' PROVE m.tick \in Ticks
  <2>1. CASE m \in mail
    BY <2>1 DEF BarrierInv
  <2>2. CASE m \in Queued(p, d)
    <3>1. m.tick \in {d.ses.ready, d.ses.start} /\ m.tick # NoTick
      BY <2>2 DEF Queued, Outbound, Due
    <3> QED BY <1>11, <3>1 DEF SessionTicks
  <2> QED BY <1>1, <2>1, <2>2
<1>22. ASSUME faults = 0
       PROVE  Calm' /\ (AgreedStartTick(ses[p]) # NoTick => new.state # "Stopped")
  <2>1. /\ Calm /\ CalmSession(p, ses[p]) /\ TickAhead(ses[p], ltick[p])
        /\ p2p[p][p] = "None" /\ \A q \in cohort \ {p} : p2p[p][q] = LinkIn(ses[p].state)
        /\ \A m \in mail : m.roster = cohort
    BY <1>22 DEF BarrierInv, Calm
  <2>2. CASE s.state # "Starting"
    <3>1. new = ses[p] /\ p2p' = p2p /\ Queued(p, d) = {}
      BY <1>1, <1>4, <1>9, <1>13, <1>17, <2>2 DEF new, Queued
    <3>2. (\A q \in Peers : ses'[q] = ses[q]) /\ AgreedStartTick(ses[p]) = NoTick
      BY <1>4, <1>19, <2>2, <3>1 DEF AgreedStartTick
    <3>3. TickAhead(ses[p], ltick'[p])
      BY <3>2 DEF TickAhead
    <3>4. mail' \subseteq mail
      BY <1>1, <3>1
    <3> QED BY <1>0, <1>1, <1>2, <1>19, <2>1, <3>1, <3>2, <3>3, <3>4
            DEF Calm, CalmSession, TickAhead, AgreedStartTick
  <2>3. CASE s.state = "Starting"
    <3>1. CalmSession(p, s) /\ s.roster = cohort /\ DOMAIN s.remote = cohort \ {p} /\ cohort \ {p} # {}
      BY <1>4, <2>1, <2>3 DEF CalmSession, got, Inbox
    <3>2. Candidates(p) = DOMAIN s.remote /\ AllConnected(p)
      <4>1. p \notin Candidates(p) /\ \A q \in cohort \ {p} : q \in Candidates(p)
        BY <1>4, <2>1, <2>3 DEF Candidates, LinkIn
      <4>2. Candidates(p) \subseteq cohort
        BY DEF Candidates
      <4>3. \A q \in cohort \ {p} : <<p, q>> \in conn
        BY <2>1 DEF Calm
      <4> QED BY <3>1, <4>1, <4>2, <4>3 DEF AllConnected
    <3>3. /\ d.kind \in {"fail", "go"}
          /\ d.kind = "go" => d.ses = t /\ TickAhead(t, ltick[p])
          /\ AgreedStartTick(s) # NoTick /\ ltick[p] < s.start => d.kind = "go"
      <4>1. /\ Shaped(s) /\ s.state = "Starting" /\ scenario \in Scenarios /\ CalmSession(p, s)
            /\ StartIsLatest(s) /\ Candidates(p) = DOMAIN s.remote /\ AllConnected(p)
            /\ ltick[p] \in Nat /\ t = Advanced(s, ltick[p], synced).ses /\ SessionTicks(t)
        BY <1>0, <1>4, <1>5, <1>7, <1>b, <2>3, <3>1, <3>2
      <4> QED BY <1>a, <4>1, DriveIsCalm
    <3>4. AgreedStartTick(ses[p]) # NoTick => d.kind = "go"
      <4>1. AgreedStartTick(ses[p]) # NoTick => AgreedStartTick(s) # NoTick /\ ltick[p] < s.start
        BY <1>4, <2>1, <2>3 DEF TickAhead, AgreedStartTick
      <4> QED BY <3>3, <4>1
    <3>5. ASSUME d.kind = "go", ~ starts PROVE TickAhead(next, ltick[p] + n)
      <4> SUFFICES ASSUME AgreedStartTick(next) # NoTick PROVE ltick[p] + n < next.start
        BY DEF TickAhead
      <4>1. AgreedStartTick(t) = AgreedStartTick(next) /\ AgreedStartTick(next) = next.start
            /\ next.start = t.start
        BY <1>9, <1>13, <3>3, <3>5 DEF AgreedStartTick
      <4>2. ltick[p] < next.start /\ next.start \in Int
        BY <1>7, <3>3, <3>5, <4>1 DEF TickAhead, SessionTicks, Ticks, NoTick
      <4>3. next.start \notin ltick[p] + 1 .. ltick[p] + n
        BY <1>9, <1>13, <3>1, <3>2, <3>5, <4>1 DEF Begins, Boundary
      <4> QED BY <1>0, <4>2, <4>3
    <3>6. /\ CalmSession(p, new) /\ TickAhead(new, ltick[p] + n)
          /\ d.kind = "go" => new.state # "Stopped"
      <4>1. CASE d.kind = "fail"
        BY <1>16, <4>1 DEF new, CalmSession, TickAhead, AgreedStartTick
      <4>2. CASE d.kind = "go" /\ starts
        BY <1>15, <4>2 DEF new, CalmSession, TickAhead, AgreedStartTick
      <4>3. CASE d.kind = "go" /\ ~ starts
        BY <1>9, <1>13, <2>3, <3>1, <3>5, <4>3 DEF new, CalmSession
      <4> QED BY <3>3, <4>1, <4>2, <4>3
    <3>7. /\ p2p'[p][p] = "None" /\ \A q \in cohort \ {p} : p2p'[p][q] = LinkIn(new.state)
          /\ \A q \in cohort \ {p} : p2p'[q] = p2p[q]
      <4>1. p2p[p][p] = "None" /\ \A q \in cohort \ {p} : p2p[p][q] = "Candidate"
        BY <1>4, <2>1, <2>3 DEF LinkIn
      <4>2. CASE d.kind = "fail"
        <5>1. new.state = "Stopped" /\ p2p' = Moved(p, {"Candidate"}, "Inactive")
          BY <1>1, <1>16, <4>2 DEF new
        <5> QED BY <1>0, <4>1, <5>1 DEF Moved, P2PInv, LinkIn
      <4>3. CASE d.kind = "go" /\ starts
        <5>1. new.state = "Started" /\ p2p' = Moved(p, {"Candidate"}, "Joined")
          BY <1>1, <1>15, <4>3 DEF new
        <5> QED BY <1>0, <4>1, <5>1 DEF Moved, P2PInv, LinkIn
      <4>4. CASE d.kind = "go" /\ ~ starts
        <5>1. new.state = "Starting" /\ p2p' = p2p
          BY <1>1, <1>13, <2>3, <4>4 DEF new
        <5> QED BY <1>0, <4>1, <5>1 DEF P2PInv, LinkIn
      <4> QED BY <3>3, <4>2, <4>3, <4>4
    <3>8. \A m \in Queued(p, d) : m.roster = cohort
      BY <1>11, <3>1 DEF Queued, Outbound
    <3>9. Calm'
      <4>1. \A m \in mail' : m.roster = cohort
        BY <1>1, <2>1, <3>8
      <4>2. ASSUME NEW a \in cohort
            PROVE  /\ CalmSession(a, ses'[a]) /\ TickAhead(ses'[a], ltick'[a])
                   /\ p2p'[a][a] = "None"
                   /\ \A q \in cohort \ {a} : p2p'[a][q] = LinkIn(ses'[a].state)
        <5>1. CASE a = p
          BY <1>19, <3>6, <3>7, <5>1
        <5>2. CASE a # p
          <6>1. ses'[a] = ses[a] /\ ltick'[a] = ltick[a] /\ p2p'[a] = p2p[a]
            BY <1>0, <1>19, <3>7, <5>2
          <6> QED BY <2>1, <6>1 DEF Calm
        <5> QED BY <5>1, <5>2
      <4> QED BY <1>1, <1>2, <2>1, <4>1, <4>2 DEF Calm, CalmSession, TickAhead, AgreedStartTick
    <3> QED BY <3>4, <3>6, <3>9
  <2> QED BY <2>2, <2>3
<1>23. BarrierInv'
  BY <1>0, <1>1, <1>2, <1>20, <1>21, <1>22
     DEF BarrierInv, StartIsLatest, SessionTicks
<1> QED BY <1>19, <1>22, <1>23

\* start_session of a calm peer takes every other peer of the cohort.
LEMMA BeginBarrier ==
    ASSUME BarrierInv, NEW p \in cohort, Begin(p)
    PROVE  BarrierInv'
<1> DEFINE found == {q \in cohort : p2p[p][q] = "Inactive"}
           i == Idle(ses[p].gen + 1)
           remote == [q \in found |-> [ready |-> NoTick, ack |-> NoTick]]
           new == [i EXCEPT !.state = "Starting", !.roster = found \cup {p}, !.remote = remote]
<1>0. P2PInv /\ P2PInv' /\ p \in Peers /\ cohort \subseteq Peers
  BY BeginStep, CohortOfPeers DEF BarrierInv, P2PInv
<1>1. /\ ses[p].state = "Stopped" /\ found # {}
      /\ ses' = [ses EXCEPT ![p] = new]
      /\ p2p' = [p2p EXCEPT ![p] = [q \in Peers |-> IF q \in found THEN "Candidate" ELSE p2p[p][q]]]
      /\ scenario' = scenario /\ conn' = conn /\ mail' = mail /\ ltick' = ltick /\ faults' = faults
  BY DEF Begin
<1>2. cohort' = cohort /\ Ticks' = Ticks
  BY <1>1 DEF cohort, Ticks, MaxTick
<1>3. DOMAIN remote = found /\ \A q \in found : remote[q].ready = NoTick /\ remote[q].ack = NoTick
  OBVIOUS
<1> HIDE DEF remote
<1>4. /\ new.state = "Starting" /\ new.remote = remote /\ new.roster = found \cup {p}
      /\ new.start = NoTick /\ new.ready = NoTick /\ new.mismatch = FALSE
  BY DEF Idle
<1> HIDE DEF new
<1>5. ses'[p] = new /\ \A q \in Peers \ {p} : ses'[q] = ses[q]
  BY <1>0, <1>1 DEF P2PInv
<1>6. \A q \in Peers : StartIsLatest(ses'[q]) /\ SessionTicks(ses'[q]) /\ ltick'[q] \in Ticks
  BY <1>1, <1>3, <1>4, <1>5 DEF BarrierInv, StartIsLatest, SessionTicks
<1>7. ASSUME faults = 0 PROVE Calm'
  <2>1. /\ Calm /\ p2p[p][p] = "None" /\ \A q \in cohort \ {p} : p2p[p][q] = "Inactive"
    BY <1>1, <1>7 DEF BarrierInv, Calm, LinkIn
  <2>2. found = cohort \ {p}
    BY <2>1
  <2> HIDE DEF found
  <2>3. ASSUME NEW a \in cohort
        PROVE  /\ CalmSession(a, ses'[a]) /\ TickAhead(ses'[a], ltick'[a])
               /\ p2p'[a][a] = "None"
               /\ \A q \in cohort \ {a} : p2p'[a][q] = LinkIn(ses'[a].state)
    <3>1. CASE a = p
      <4>1. CalmSession(p, new)
        BY <1>1, <1>3, <1>4, <2>2 DEF CalmSession
      <4>2. TickAhead(new, ltick'[p])
        BY <1>4 DEF TickAhead, AgreedStartTick
      <4>3. p2p'[p][p] = "None" /\ \A q \in cohort \ {p} : p2p'[p][q] = "Candidate"
        BY <1>0, <1>1, <2>1, <2>2 DEF P2PInv
      <4> QED BY <1>4, <1>5, <3>1, <4>1, <4>2, <4>3 DEF LinkIn
    <3>2. CASE a # p
      <4>1. ses'[a] = ses[a] /\ ltick'[a] = ltick[a] /\ p2p'[a] = p2p[a]
        BY <1>0, <1>1, <1>5, <3>2 DEF P2PInv
      <4> QED BY <2>1, <4>1 DEF Calm
    <3> QED BY <3>1, <3>2
  <2> QED BY <1>1, <1>2, <2>1, <2>3 DEF Calm, CalmSession, TickAhead, AgreedStartTick
<1> QED BY <1>0, <1>1, <1>2, <1>6, <1>7 DEF BarrierInv, StartIsLatest, SessionTicks

\* Every other step either is a fault, after which nothing is promised, or leaves all alone.
LEMMA OtherBarrier ==
    ASSUME BarrierInv, [P2PNext]_p2pVars, \A p \in cohort : ~ Begin(p) /\ ~ RunFrame(p)
    PROVE  BarrierInv'
<1>0. P2PInv /\ P2PInv' /\ cohort \subseteq Peers
  BY P2PStep, CohortOfPeers DEF BarrierInv, P2PInv
<1>1. ASSUME faults' = faults + 1, scenario' = scenario, mail' \subseteq mail,
             \A p \in Peers : ltick'[p] \in Ticks,
             \A p \in Peers : ses'[p] = ses[p] \/ \E gen : ses'[p] = Idle(gen)
      PROVE  BarrierInv'
  <2>1. Ticks' = Ticks
    BY <1>1 DEF Ticks, MaxTick
  <2>2. \A gen : StartIsLatest(Idle(gen)) /\ SessionTicks(Idle(gen))
    BY DEF Idle, StartIsLatest, SessionTicks
  <2>3. \A p \in Peers : StartIsLatest(ses'[p]) /\ SessionTicks(ses'[p])
    BY <1>1, <2>2 DEF BarrierInv
  <2> QED BY <1>0, <1>1, <2>1, <2>3 DEF BarrierInv, StartIsLatest, SessionTicks
<1>2. \A p \in Peers : ltick[p] \in Ticks
  BY DEF BarrierInv
<1>3. ASSUME NEW p \in cohort, Stop(p) \/ Restart(p) PROVE BarrierInv'
  <2>1. /\ faults' = faults + 1 /\ scenario' = scenario /\ mail' \subseteq mail /\ ltick' = ltick
        /\ \E gen : ses' = [ses EXCEPT ![p] = Idle(gen)]
    BY <1>3 DEF Stop, Restart, Fault
  <2>2. \A q \in Peers : ses'[q] = ses[q] \/ \E gen : ses'[q] = Idle(gen)
    BY <1>0, <2>1 DEF P2PInv
  <2> QED BY <1>1, <1>2, <2>1, <2>2
<1>4. ASSUME NEW p \in cohort, TickJump(p) PROVE BarrierInv'
  <2>1. /\ faults' = faults + 1 /\ scenario' = scenario /\ mail' = mail /\ ses' = ses
        /\ ltick[p] < MaxTick /\ ltick' = [ltick EXCEPT ![p] = @ + 1]
    BY <1>4 DEF TickJump, Fault
  <2>2. \A q \in Peers : ltick'[q] \in Ticks
    BY <1>0, <1>2, <2>1, P2PAssumption DEF P2PInv, Ticks, MaxTick
  <2> QED BY <1>1, <2>1, <2>2
<1>5. ASSUME NEW p \in cohort, NEW q \in cohort \ {p}, LinkDown(p, q) \/ Undeclare(p, q)
      PROVE  BarrierInv'
  <2>1. /\ faults' = faults + 1 /\ scenario' = scenario /\ mail' \subseteq mail /\ ses' = ses
        /\ ltick' = ltick
    BY <1>5 DEF LinkDown, Undeclare, Fault
  <2> QED BY <1>1, <1>2, <2>1
<1>6. ASSUME NEW p \in cohort, NEW q \in cohort \ {p}, LinkUp(p, q) PROVE BarrierInv'
  <2>1. UNCHANGED <<scenario, ses, p2p, mail, ltick, faults>> /\ <<p, q>> \notin conn
    BY <1>6 DEF LinkUp
  <2>2. ~ Calm
    BY <2>1 DEF Calm
  <2>3. Ticks' = Ticks
    BY <2>1 DEF Ticks, MaxTick
  <2> QED BY <1>0, <2>1, <2>2, <2>3 DEF BarrierInv, StartIsLatest, SessionTicks
<1>7. CASE UNCHANGED p2pVars
  <2>1. UNCHANGED <<scenario, ses, p2p, conn, mail, ltick, faults>>
    BY <1>7 DEF p2pVars
  <2>2. Ticks' = Ticks /\ cohort' = cohort
    BY <2>1 DEF Ticks, MaxTick, cohort
  <2> QED BY <1>0, <2>1, <2>2
          DEF BarrierInv, StartIsLatest, SessionTicks, Calm, CalmSession, TickAhead, AgreedStartTick
<1> QED BY <1>3, <1>4, <1>5, <1>6, <1>7 DEF P2PNext

\* A peer for which everybody has acknowledged the tick starts, for any number of peers,
\* attempts, ticks and ticks per frame: unless something was stopped, restarted,
\* disconnected, undeclared or moved, no frame takes it back to the lobby
\* (session.rs: drive_session, timed_out_at, start_session_before_agreed_tick).
THEOREM AgreedBarrierHoldsAlways == P2PSpec => AgreedBarrierHolds
<1>1. P2PInit => BarrierInv
  <2> SUFFICES ASSUME P2PInit PROVE BarrierInv
    OBVIOUS
  <2>1. /\ \A p \in Peers : ses[p] = Idle(0) /\ ltick[p] = 0
        /\ scenario \in Scenarios /\ mail = {} /\ faults = 0 /\ cohort \subseteq Peers
    BY CohortOfPeers DEF P2PInit
  <2>2. /\ Idle(0).state = "Stopped" /\ Idle(0).start = NoTick /\ Idle(0).ready = NoTick
        /\ DOMAIN Idle(0).remote = {}
    BY DEF Idle
  <2>3. \A p \in Peers : StartIsLatest(ses[p]) /\ SessionTicks(ses[p]) /\ ltick[p] \in Ticks
    BY <2>1, <2>2, P2PAssumption DEF StartIsLatest, SessionTicks, Ticks, MaxTick
  <2>4. \A p \in cohort : /\ CalmSession(p, ses[p]) /\ TickAhead(ses[p], ltick[p])
                          /\ p2p[p][p] = "None"
                          /\ \A q \in cohort \ {p} : p2p[p][q] = LinkIn(ses[p].state)
    BY <2>1, <2>2 DEF P2PInit, CalmSession, TickAhead, AgreedStartTick, LinkIn
  <2>5. conn = {c \in cohort \X cohort : c[1] # c[2]}
    BY DEF P2PInit
  <2> QED BY <2>1, <2>3, <2>4, <2>5, P2PInitially DEF BarrierInv, Calm
<1>2. ASSUME BarrierInv, [P2PNext]_p2pVars
      PROVE  /\ BarrierInv'
             /\ [\A p \in cohort : AgreedStartTick(ses[p]) # NoTick /\ ses'[p].state = "Stopped"
                    => faults' > 0]_p2pVars
  <2>0. cohort \subseteq Peers /\ DOMAIN ses = Peers /\ faults \in Nat /\ ltick \in [Peers -> Nat]
    BY <1>2, CohortOfPeers DEF BarrierInv, P2PInv
  <2>1. ASSUME NEW p \in cohort, RunFrame(p)
        PROVE  /\ BarrierInv' /\ faults' = faults
               /\ \A q \in cohort : faults = 0 /\ AgreedStartTick(ses[q]) # NoTick => ses'[q].state # "Stopped"
    <3>1. PICK msgs \in SUBSET Inbox(p), synced \in Synced(p),
               n \in 0..Min({MaxCatchUp, MaxTick - ltick[p]}) : SessionFrame(p, msgs, synced, n)
      BY <2>1 DEF RunFrame
    <3>2. MaxCatchUp \in Int /\ MaxTick \in Int /\ ltick[p] \in Nat
      <4>1. scenario \in Scenarios
        BY <1>2 DEF BarrierInv, P2PInv
      <4> QED BY <2>0, <4>1, P2PAssumption DEF MaxCatchUp, MaxTick
    <3>3. Min({MaxCatchUp, MaxTick - ltick[p]}) \in Int
          /\ Min({MaxCatchUp, MaxTick - ltick[p]}) <= MaxTick - ltick[p]
      <4>1. MaxTick - ltick[p] \in Int
        BY <3>2
      <4>2. /\ Min({MaxCatchUp, MaxTick - ltick[p]}) \in {MaxCatchUp, MaxTick - ltick[p]}
            /\ Min({MaxCatchUp, MaxTick - ltick[p]}) <= MaxTick - ltick[p]
        BY <3>2, <4>1, MinOfTwo, Zenon
      <4> QED BY <3>2, <4>1, <4>2
    <3>4. n \in Nat /\ ltick[p] + n \in Ticks
      BY <3>2, <3>3 DEF Ticks
    <3>5. BarrierInv' /\ (faults = 0 /\ AgreedStartTick(ses[p]) # NoTick => ses'[p].state # "Stopped")
      BY <1>2, <3>1, <3>4, FrameBarrier
    <3>6. faults' = faults /\ \A q \in Peers \ {p} : ses'[q] = ses[q]
      <4>1. faults' = faults /\ \E new : ses' = [ses EXCEPT ![p] = new]
        BY <3>1, FrameUnfolds
      <4> QED BY <2>0, <4>1
    <3> QED BY <2>0, <3>5, <3>6 DEF AgreedStartTick
  <2>2. ASSUME NEW p \in cohort, Begin(p)
        PROVE  /\ BarrierInv'
               /\ \A q \in cohort : AgreedStartTick(ses[q]) # NoTick => ses'[q].state # "Stopped"
    <3>1. BarrierInv'
      BY <1>2, <2>2, BeginBarrier
    <3>2. ses[p].state = "Stopped" /\ \E new : ses' = [ses EXCEPT ![p] = new]
      BY <2>2 DEF Begin
    <3> QED BY <2>0, <3>1, <3>2 DEF AgreedStartTick
  <2>3. CASE \A p \in cohort : ~ Begin(p) /\ ~ RunFrame(p)
    <3>1. BarrierInv'
      BY <1>2, <2>3, OtherBarrier
    <3>2. ses' = ses \/ faults' = faults + 1
      BY <1>2, <2>3 DEF P2PNext, p2pVars, Stop, Restart, TickJump, LinkUp, LinkDown, Undeclare, Fault
    <3> QED BY <2>0, <3>1, <3>2 DEF AgreedStartTick
  <2> QED BY <2>0, <2>1, <2>2, <2>3 DEF BarrierInv
<1> QED BY <1>1, <1>2, PTL DEF P2PSpec, AgreedBarrierHolds

-----------------------------------------------------------------------------
(* What the queues hold.                                                   *)

InSendQueue == [id : Nat, ch : MsgChannels]
OnWire == [ids : Seq(Nat) \ {<<>>}, ch : MsgChannels, tick : Nat, epoch : Nat]
Waiters == [key : [tick : Nat, seq : Nat], msg : OnWire]
Handed == [id : Nat, ch : MsgChannels, tick : Nat, at : Nat, sent : Nat, taken : Nat,
           whole : BOOLEAN]

\* The message a payload begins with.
Name(m) == m.ids[1]

MsgTypes ==
    /\ sendq \in Seq(InSendQueue) /\ writer \in Seq(Nat)
    /\ inq \in [MsgChannels -> Seq(OnWire)]
    /\ timed \subseteq Waiters /\ IsFiniteSet(timed)
    /\ ready = <<>>
    /\ {nextSeq, sendTick, lineTick, epoch, numSent} \subseteq Nat
    /\ taken \in Seq(Handed)

\* x was sent before everything the sender still holds.
Ahead(x, wr, q, n) == /\ x \in Nat /\ x <= n
                      /\ wr # <<>> => x < wr[1]
                      /\ \A k \in 1 .. Len(q) : x < q[k].id

\* The sender holds its messages in the order they were sent in.
Unsent(wr, q, n) == /\ \A k \in 1 .. Len(q) : q[k].id <= n
                    /\ \A j, k \in 1 .. Len(q) : j < k => q[j].id < q[k].id
                    /\ wr # <<>> => Ahead(wr[1], <<>>, q, n)

\* What is on the wire is of this connection.
OfThis(in, st, ep) ==
    \A ch \in MsgChannels : \A k \in 1 .. Len(in[ch]) :
        in[ch][k].ch = ch /\ in[ch][k].epoch = ep /\ in[ch][k].tick <= st

\* The timed messages on the wire are in the order they were sent in.
Wired(wr, q, line, n) ==
    /\ \A k \in 1 .. Len(line) : Ahead(Name(line[k]), wr, q, n)
    /\ \A j, k \in 1 .. Len(line) :
          j < k => Name(line[j]) < Name(line[k]) /\ line[j].tick <= line[k].tick

\* m was sent before everything on the wire.
Before(m, line) == \A k \in 1 .. Len(line) : Name(m) < Name(line[k]) /\ m.tick <= line[k].tick

\* The messages that wait were sent before those on the wire, in the order of
\* their keys.
Kept(wr, q, line, wt, n, st, ep, seq) ==
    /\ \A w \in wt : /\ w.msg.ch = "Timed" /\ w.msg.epoch = ep /\ w.msg.tick <= st
                     /\ w.key.tick = w.msg.tick /\ w.key.seq < seq
                     /\ Ahead(Name(w.msg), wr, q, n) /\ Before(w.msg, line)
    /\ \A v, w \in wt : KeyLess(v, w) => Name(v.msg) < Name(w.msg)

\* What was handed out was sent before all of them.
Past(wr, q, line, wt, tk, n) ==
    \A t \in 1 .. Len(tk) : Timed(tk[t]) =>
        /\ Ahead(tk[t].id, wr, q, n)
        /\ \A k \in 1 .. Len(line) : tk[t].id < Name(line[k])
        /\ \A w \in wt : tk[t].id < Name(w.msg)

\* A timed message goes from the sender to the application without being passed.
Chain(wr, q, in, wt, tk, n, st, ep, seq) ==
    /\ Unsent(wr, q, n)
    /\ OfThis(in, st, ep)
    /\ Wired(wr, q, in["Timed"], n)
    /\ Kept(wr, q, in["Timed"], wt, n, st, ep, seq)
    /\ Past(wr, q, in["Timed"], wt, tk, n)

MsgInv ==
    /\ MsgTypes
    /\ Chain(writer, sendq, inq, timed, taken, numSent, sendTick, epoch, nextSeq)
    /\ DeliveredAsSent

-----------------------------------------------------------------------------
(* Sequences.                                                              *)

LEMMA AppendIs ==
    ASSUME NEW S, NEW s \in Seq(S), NEW x \in S
    PROVE  /\ Append(s, x) \in Seq(S) /\ Len(Append(s, x)) = Len(s) + 1
           /\ Append(s, x) # <<>> /\ Len(s) \in Nat
           /\ Append(s, x)[Len(s) + 1] = x
           /\ \A k \in 1 .. Len(s) : Append(s, x)[k] = s[k]
OBVIOUS

LEMMA TailIs ==
    ASSUME NEW S, NEW s \in Seq(S), s # <<>>
    PROVE  /\ Head(s) = s[1] /\ s[1] \in S /\ 1 \in 1 .. Len(s) /\ Len(s) \in Nat
           /\ Tail(s) \in Seq(S) /\ Len(Tail(s)) = Len(s) - 1
           /\ \A k \in 1 .. Len(Tail(s)) : k + 1 \in 1 .. Len(s) /\ Tail(s)[k] = s[k + 1]
<1>1. Len(s) \in Nat /\ Len(s) # 0
  BY EmptySeq
<1>2. Tail(s) \in Seq(S) /\ Len(Tail(s)) = Len(s) - 1 /\ \A k \in 1 .. Len(Tail(s)) : Tail(s)[k] = s[k + 1]
  BY HeadTailProperties
<1> QED  BY <1>1, <1>2

\* The bytes of the next message, and what the sender holds after it.
LEMMA NextName ==
    ASSUME NEW n \in Nat, NEW wr \in Seq(Nat), NEW q \in Seq(InSendQueue), q # <<>>,
           Unsent(wr, q, n), NEW bytes, bytes = Append(wr, Head(q).id)
    PROVE  /\ bytes \in Seq(Nat) \ {<<>>} /\ bytes[1] \in Nat
           /\ Unsent(<<>>, Tail(q), n) /\ Unsent(bytes, <<>>, n)
           /\ Ahead(bytes[1], <<>>, Tail(q), n)
           /\ \A x : Ahead(x, wr, q, n) =>
                 x < bytes[1] /\ Ahead(x, <<>>, Tail(q), n) /\ Ahead(x, bytes, <<>>, n)
<1>1. /\ Head(q) = q[1] /\ q[1] \in InSendQueue /\ 1 \in 1 .. Len(q) /\ Len(q) \in Nat
      /\ Len(Tail(q)) = Len(q) - 1
      /\ \A k \in 1 .. Len(Tail(q)) : k + 1 \in 1 .. Len(q) /\ Tail(q)[k] = q[k + 1]
  BY TailIs
<1>2. q[1].id \in Nat /\ \A k \in 1 .. Len(q) : q[k].id \in Nat
  <2>1. \A k \in 1 .. Len(q) : q[k] \in InSendQueue
    BY ElementOfSeq
  <2> QED  BY <2>1, <1>1 DEF InSendQueue
<1>3. /\ bytes \in Seq(Nat) /\ bytes # <<>> /\ bytes[Len(wr) + 1] = q[1].id
      /\ \A k \in 1 .. Len(wr) : bytes[k] = wr[k]
  BY <1>1, <1>2, AppendIs
<1>4. bytes[1] = IF wr = <<>> THEN q[1].id ELSE wr[1]
  BY <1>3, EmptySeq
<1>5. wr # <<>> => wr[1] \in Nat
  BY EmptySeq, ElementOfSeq
<1>6. bytes[1] \in Nat
  BY <1>4, <1>2, <1>5
<1>7. \A k \in 1 .. Len(Tail(q)) : q[1].id < Tail(q)[k].id /\ Tail(q)[k].id <= n
  BY <1>1 DEF Unsent
<1>8. q[1].id <= n
  BY <1>1 DEF Unsent
<1>9. Ahead(bytes[1], <<>>, Tail(q), n)
  <2>1. CASE wr = <<>>
    BY <2>1, <1>4, <1>2, <1>7, <1>8 DEF Ahead
  <2>2. CASE wr # <<>>
    BY <2>2, <1>4, <1>5, <1>1 DEF Ahead, Unsent
  <2> QED  BY <2>1, <2>2
<1>10. Unsent(<<>>, Tail(q), n)
  <2>1. \A j, k \in 1 .. Len(Tail(q)) : j < k => Tail(q)[j].id < Tail(q)[k].id
    BY <1>1 DEF Unsent
  <2> QED  BY <2>1, <1>7 DEF Unsent
<1>11. Len(<<>>) = 0 /\ bytes[1] <= n
  BY <1>9 DEF Ahead
<1>12. Unsent(bytes, <<>>, n)
  BY <1>11, <1>6 DEF Unsent, Ahead
<1>13. ASSUME NEW x, Ahead(x, wr, q, n)
       PROVE  x < bytes[1] /\ Ahead(x, <<>>, Tail(q), n) /\ Ahead(x, bytes, <<>>, n)
  <2>1. x \in Nat /\ x <= n /\ x < bytes[1]
    BY <1>13, <1>4, <1>1 DEF Ahead
  <2>2. \A k \in 1 .. Len(Tail(q)) : x < Tail(q)[k].id
    BY <1>13, <1>1 DEF Ahead
  <2> QED  BY <2>1, <2>2, <1>11 DEF Ahead
<1> QED  BY <1>3, <1>6, <1>9, <1>10, <1>12, <1>13

\* An order of ahead is kept when the sender sends more.
LEMMA StillAhead ==
    ASSUME NEW n \in Nat, NEW wr, NEW q \in Seq(InSendQueue), NEW ch \in MsgChannels, NEW q2,
           q2 = Append(q, [id |-> n + 1, ch |-> ch])
    PROVE  /\ q2 \in Seq(InSendQueue)
           /\ \A x : Ahead(x, wr, q, n) => Ahead(x, wr, q2, n + 1)
           /\ (wr \in Seq(Nat) /\ Unsent(wr, q, n)) => Unsent(wr, q2, n + 1)
<1> DEFINE m == [id |-> n + 1, ch |-> ch]
<1>1. m \in InSendQueue /\ m.id = n + 1
  BY DEF InSendQueue
<1>2. /\ q2 \in Seq(InSendQueue) /\ Len(q2) = Len(q) + 1 /\ q2[Len(q) + 1] = m /\ Len(q) \in Nat
      /\ \A k \in 1 .. Len(q) : q2[k] = q[k]
  <2>1. q2 = Append(q, m)
    OBVIOUS
  <2> HIDE DEF m
  <2> QED  BY ONLY q \in Seq(InSendQueue), <2>1, <1>1, AppendIs
<1> HIDE DEF m
<1>3. \A k \in 1 .. Len(q) : q[k].id \in Nat
  <2>1. \A k \in 1 .. Len(q) : q[k] \in InSendQueue
    BY ElementOfSeq
  <2> QED  BY <2>1 DEF InSendQueue
<1>4. ASSUME NEW x, NEW u, Ahead(x, u, q, n) PROVE Ahead(x, u, q2, n + 1)
  <2>1. ASSUME NEW k \in 1 .. Len(q2) PROVE x < q2[k].id
    <3>1. CASE k \in 1 .. Len(q)
      BY <3>1, <1>2, <1>4 DEF Ahead
    <3>2. CASE k = Len(q) + 1
      BY <3>2, <1>1, <1>2, <1>4 DEF Ahead
    <3> QED  BY <3>1, <3>2, <1>2
  <2> QED  BY <2>1, <1>4 DEF Ahead
<1>5. ASSUME Unsent(wr, q, n) PROVE Unsent(wr, q2, n + 1)
  <2>1. ASSUME NEW k \in 1 .. Len(q2) PROVE q2[k].id <= n + 1
    <3>1. CASE k \in 1 .. Len(q)
      BY <3>1, <1>2, <1>3, <1>5 DEF Unsent
    <3>2. CASE k = Len(q) + 1
      BY <3>2, <1>1, <1>2
    <3> QED  BY <3>1, <3>2, <1>2
  <2>2. ASSUME NEW j \in 1 .. Len(q2), NEW k \in 1 .. Len(q2), j < k PROVE q2[j].id < q2[k].id
    <3>0. j \in 1 .. Len(q) /\ q2[j] = q[j] /\ q[j].id \in Nat /\ q[j].id <= n
      BY <2>2, <1>2, <1>3, <1>5 DEF Unsent
    <3>1. CASE k \in 1 .. Len(q)
      BY <3>0, <3>1, <2>2, <1>2, <1>5 DEF Unsent
    <3>2. CASE k = Len(q) + 1
      BY <3>0, <3>2, <1>1, <1>2
    <3> QED  BY <3>1, <3>2, <1>2
  <2>3. wr # <<>> => Ahead(wr[1], <<>>, q2, n + 1)
    BY <1>4, <1>5 DEF Unsent
  <2> QED  BY <2>1, <2>2, <2>3 DEF Unsent
<1> QED  BY <1>2, <1>4, <1>5

-----------------------------------------------------------------------------
(* The loops over the sender's queue and over a channel.                   *)

Sending == [queue : Seq(InSendQueue), writer : Seq(Nat), wire : [MsgChannels -> Seq(OnWire)],
            failed : SUBSET Nat]

Reading == [ready : Seq(OnWire), timed : SUBSET Waiters, seq : Nat,
            left : [MsgChannels -> Seq(OnWire)], failed : SUBSET Nat, stopped : BOOLEAN]

\* r is h after a turn that takes the message m from the queue.
Turned(h, r, m, bytes, w) ==
    /\ r \in Sending /\ Len(r.queue) <= Len(h.queue) - 1 /\ Len(h.queue) \in Nat
    /\ m.id \in Unserializable =>
          /\ r.queue = <<>> /\ r.writer = bytes /\ r.wire = h.wire
          /\ r.failed = {h.queue[k].id : k \in 1 .. Len(h.queue)}
    /\ m.id \notin Unserializable =>
          /\ r.queue = Tail(h.queue) /\ r.writer = <<>> /\ r.failed = h.failed
          /\ r.wire = [h.wire EXCEPT ![m.ch] = Append(@, w)]

\* A turn of the sender, field by field.
LEMMA SendOneIs ==
    ASSUME NEW h \in Sending, h.queue # <<>>, {sendTick, epoch} \subseteq Nat,
           NEW m, m = Head(h.queue), NEW bytes, bytes = Append(h.writer, m.id),
           NEW w, w = [ids |-> bytes, ch |-> m.ch, tick |-> sendTick, epoch |-> epoch]
    PROVE  m \in InSendQueue /\ w \in OnWire /\ Turned(h, SendOne(h), m, bytes, w)
<1> DEFINE r == SendOne(h)
           lost == {h.queue[k].id : k \in 1 .. Len(h.queue)}
<1>1. /\ h.queue \in Seq(InSendQueue) /\ h.writer \in Seq(Nat) /\ h.failed \in SUBSET Nat
      /\ h.wire \in [MsgChannels -> Seq(OnWire)]
  BY DEF Sending
<1>2. /\ m \in InSendQueue /\ Tail(h.queue) \in Seq(InSendQueue) /\ Len(h.queue) \in Nat /\ Len(h.queue) # 0
      /\ Len(Tail(h.queue)) = Len(h.queue) - 1
  BY ONLY <1>1, h.queue # <<>>, m = Head(h.queue), TailIs
<1>3. m.id \in Nat /\ m.ch \in MsgChannels
  BY <1>2 DEF InSendQueue
<1>4. bytes \in Seq(Nat) /\ bytes # <<>>
  <2>1. PICK u \in Seq(Nat), i \in Nat : u = h.writer /\ i = m.id
    BY <1>1, <1>3
  <2>2. bytes = Append(u, i)
    BY <2>1
  <2> QED  BY ONLY <2>2, AppendIs
<1>5. w \in OnWire
  BY <1>3, <1>4 DEF OnWire
<1>6. lost \in SUBSET Nat
  <2>1. \A k \in 1 .. Len(h.queue) : h.queue[k] \in InSendQueue
    BY <1>1, ElementOfSeq
  <2> QED  BY <2>1 DEF InSendQueue
<1>7. Append(h.wire[m.ch], w) \in Seq(OnWire)
  BY <1>1, <1>3, <1>5, AppendIs
<1>8. <<>> \in Seq(InSendQueue) /\ <<>> \in Seq(Nat) /\ Len(<<>>) = 0
  BY EmptySeq
<1>9. ASSUME m.id \in Unserializable
      PROVE  r \in Sending /\ r.queue = <<>> /\ r.writer = bytes /\ r.wire = h.wire /\ r.failed = lost
  <2>1. r = [h EXCEPT !.queue = <<>>, !.writer = bytes, !.failed = lost]
    BY <1>9 DEF SendOne
  <2> HIDE DEF r, lost
  <2> QED  BY <2>1, <1>4, <1>6, <1>8 DEF Sending
<1>10. ASSUME m.id \notin Unserializable
       PROVE  /\ r \in Sending /\ r.queue = Tail(h.queue) /\ r.writer = <<>> /\ r.failed = h.failed
              /\ r.wire = [h.wire EXCEPT ![m.ch] = Append(@, w)]
  <2>1. r = [h EXCEPT !.queue = Tail(@), !.writer = <<>>, !.wire[m.ch] = Append(@, w)]
    BY <1>10 DEF SendOne
  <2>2. [h.wire EXCEPT ![m.ch] = Append(@, w)] \in [MsgChannels -> Seq(OnWire)]
    BY <1>1, <1>3, <1>7
  <2>3. r = [h EXCEPT !.queue = Tail(h.queue), !.writer = <<>>,
                      !.wire = [h.wire EXCEPT ![m.ch] = Append(@, w)]]
    BY <2>1 DEF Sending
  <2> HIDE DEF r, lost
  <2> QED  BY <2>2, <2>3, <1>2, <1>8 DEF Sending
<1>11. Len(r.queue) <= Len(h.queue) - 1
  <2> HIDE DEF r, lost
  <2>1. CASE m.id \in Unserializable
    <3>1. Len(r.queue) = 0
      BY <1>9, <1>8, <2>1
    <3> QED  BY <3>1, <1>2
  <2>2. CASE m.id \notin Unserializable
    <3>1. Len(r.queue) = Len(h.queue) - 1
      BY <1>10, <1>2, <2>2
    <3> QED  BY <3>1, <1>2
  <2> QED  BY <2>1, <2>2
<1> QED  BY <1>2, <1>5, <1>9, <1>10, <1>11 DEF Turned

\* What every turn keeps, the frame keeps, and it leaves nothing in the queue.
LEMMA SendAllStays ==
    ASSUME NEW S, S \subseteq Sending, sendq \in Seq(InSendQueue), Outgoing \in S,
           {sendTick, epoch} \subseteq Nat,
           \A x \in S : x.queue # <<>> => SendOne(x) \in S
    PROVE  SendAll \in S /\ SendAll.queue = <<>>
<1> DEFINE n == Len(sendq)
           Turn(x) == IF x.queue = <<>> THEN x ELSE SendOne(x)
           After(f) == [k \in 0 .. n |-> IF k = 0 THEN Outgoing
                                         ELSE IF f[k - 1].queue = <<>> THEN f[k - 1]
                                         ELSE SendOne(f[k - 1])]
           step == [k \in 1 .. n |-> [x \in S |-> Turn(x)]]
           run == CHOOSE f : f = After(f)
<1>1. n \in Nat /\ Outgoing \in S /\ step \in [1 .. n -> [S -> S]]
  BY LenProperties
<1>2. PICK f \in [0 .. n -> S] : f[0] = Outgoing /\ \A k \in 1 .. n : f[k] = step[k][f[k - 1]]
  <2> HIDE DEF step, n
  <2> QED  BY ONLY <1>1, RunExists
<1>3. f = After(f)
  <2>1. ASSUME NEW k \in 1 .. n PROVE f[k] = Turn(f[k - 1])
    <3>1. f[k - 1] \in S
      BY <1>1
    <3>2. f[k] = step[k][f[k - 1]]
      BY <1>2
    <3> QED  BY <3>1, <3>2
  <2>2. f = [k \in 0 .. n |-> f[k]]
    BY <1>2
  <2>3. \A k \in 0 .. n : k # 0 => k \in 1 .. n
    BY <1>1
  <2> HIDE DEF n, step
  <2> QED  BY ONLY <1>2, <2>1, <2>2, <2>3
<1>4. run = After(run)
  <2> HIDE DEF After
  <2> QED  BY <1>3
<1>5. run[0] = Outgoing
  <2> HIDE DEF run, n
  <2> QED  BY <1>4, <1>1
<1>6. \A k \in 1 .. n : run[k] = Turn(run[k - 1])
  <2> HIDE DEF run, n
  <2> QED  BY <1>4, <1>1
<1> DEFINE P == [k \in 0 .. n |-> {x \in S : Len(x.queue) <= n - k}]
<1>7. ASSUME NEW k \in 1 .. n, run[k - 1] \in P[k - 1] PROVE run[k] \in P[k]
  <2> HIDE DEF run, n
  <2>1. PICK x : x = run[k - 1]
    OBVIOUS
  <2>2. k - 1 \in 0 .. n /\ k \in 0 .. n /\ k \in Nat
    BY <1>1
  <2>3. x \in S /\ Len(x.queue) <= n - (k - 1) /\ x.queue \in Seq(InSendQueue)
    BY <1>7, <2>1, <2>2 DEF Sending
  <2>4. run[k] = Turn(x)
    BY <1>6, <2>1
  <2>5. CASE x.queue = <<>>
    BY <2>3, <2>4, <2>5, <2>2, <1>1
  <2>6. CASE x.queue # <<>>
    <3>1. x \in Sending
      BY <2>3
    <3>2. Len(SendOne(x).queue) <= Len(x.queue) - 1 /\ Len(x.queue) \in Nat /\ SendOne(x) \in Sending
      <4>1. PICK m, bytes, w :
               /\ m = Head(x.queue) /\ bytes = Append(x.writer, m.id)
               /\ w = [ids |-> bytes, ch |-> m.ch, tick |-> sendTick, epoch |-> epoch]
        OBVIOUS
      <4>2. Turned(x, SendOne(x), m, bytes, w)
        BY <4>1, <3>1, <2>6, SendOneIs
      <4> QED  BY <4>2 DEF Turned
    <3>3. Len(SendOne(x).queue) \in Nat
      BY <3>2, LenProperties DEF Sending
    <3>4. SendOne(x) \in S
      BY <2>3, <2>6
    <3>5. SendOne(x) \in P[k]
      BY <3>2, <3>3, <3>4, <2>2, <2>3, <1>1
    <3> QED  BY <2>4, <2>6, <3>5
  <2> QED  BY <2>5, <2>6
<1>8. run[0] \in P[0]
  <2>1. Outgoing.queue = sendq
    BY DEF Outgoing
  <2> HIDE DEF run
  <2> QED  BY <1>5, <1>1, <2>1
<1>9. run[n] \in P[n]
  <2> HIDE DEF run, P, n
  <2> QED  BY ONLY <1>1, <1>7, <1>8, RunPasses
<1>10. run[n] \in S /\ Len(run[n].queue) <= n - n
  <2> HIDE DEF run, n
  <2> QED  BY <1>9, <1>1
<1>11. run[n] \in S /\ run[n].queue = <<>>
  <2>1. PICK x : x = run[n]
    OBVIOUS
  <2> HIDE DEF run, n, P, step
  <2>2. x \in S /\ Len(x.queue) <= 0
    BY <1>10, <1>1, <2>1
  <2>3. x.queue \in Seq(InSendQueue)
    BY <2>2 DEF Sending
  <2>4. x.queue = <<>>
    BY ONLY <2>2, <2>3, EmptySeq
  <2> QED  BY <2>1, <2>2, <2>4
<1>12. SendAll = run[n]
  BY DEF SendAll
<1> QED  BY <1>11, <1>12

\* What every message keeps, a channel keeps.
LEMMA DrainStays ==
    ASSUME NEW S, S \subseteq Reading, NEW ch \in MsgChannels, NEW g \in S,
           \A x \in S : x.left[ch] # <<>> => ReceiveOne(x, ch) \in S
    PROVE  DrainChannel(g, ch) \in S
<1> DEFINE n == Len(g.left[ch])
           Turn(x) == IF x.stopped \/ x.left[ch] = <<>> THEN x ELSE ReceiveOne(x, ch)
           After(f) == [k \in 0 .. n |-> IF k = 0 THEN g
                                         ELSE IF f[k - 1].stopped \/ f[k - 1].left[ch] = <<>> THEN f[k - 1]
                                         ELSE ReceiveOne(f[k - 1], ch)]
           step == [k \in 1 .. n |-> [x \in S |-> Turn(x)]]
           run == CHOOSE f : f = After(f)
<1>1. n \in Nat /\ g \in S /\ step \in [1 .. n -> [S -> S]]
  <2>1. g \in Reading
    OBVIOUS
  <2>2. g.left[ch] \in Seq(OnWire)
    BY <2>1 DEF Reading
  <2>3. n \in Nat
    BY <2>2, LenProperties
  <2> QED  BY <2>3
<1>2. PICK f \in [0 .. n -> S] : f[0] = g /\ \A k \in 1 .. n : f[k] = step[k][f[k - 1]]
  <2>1. ASSUME NEW m \in Nat, NEW t \in [1 .. m -> [S -> S]]
        PROVE  \E f \in [0 .. m -> S] : f[0] = g /\ \A k \in 1 .. m : f[k] = t[k][f[k - 1]]
    BY ONLY g \in S, RunExists
  <2> HIDE DEF step, n
  <2> QED  BY ONLY <1>1, <2>1
<1>3. f = After(f)
  <2>1. ASSUME NEW k \in 1 .. n PROVE f[k] = Turn(f[k - 1])
    <3>1. f[k - 1] \in S
      BY <1>1
    <3>2. f[k] = step[k][f[k - 1]]
      BY <1>2
    <3> QED  BY <3>1, <3>2
  <2>2. f = [k \in 0 .. n |-> f[k]]
    BY <1>2
  <2>3. \A k \in 0 .. n : k # 0 => k \in 1 .. n
    BY <1>1
  <2> HIDE DEF n, step
  <2> QED  BY ONLY <1>2, <2>1, <2>2, <2>3
<1>4. run = After(run)
  <2> HIDE DEF After
  <2> QED  BY <1>3
<1>5. run[0] = g
  <2> HIDE DEF run, n
  <2> QED  BY <1>4, <1>1
<1>6. ASSUME NEW k \in 1 .. n, run[k - 1] \in S PROVE run[k] \in S
  <2> HIDE DEF run, n
  <2>1. run[k] = Turn(run[k - 1])
    BY <1>4, <1>1
  <2> QED  BY <1>6, <2>1
<1>7. run[n] \in S
  <2> HIDE DEF run, n
  <2> QED  BY <1>1, <1>5, <1>6, RunStays
<1>8. DrainChannel(g, ch) = run[n]
  BY DEF DrainChannel
<1> QED  BY <1>7, <1>8

LEMMA DrainedStays ==
    ASSUME NEW S, S \subseteq Reading, NEW first \in MsgChannels, Progress \in S,
           \A x \in S : \A ch \in MsgChannels : x.left[ch] # <<>> => ReceiveOne(x, ch) \in S
    PROVE  Drained(first) \in S
<1> DEFINE second == CHOOSE ch \in MsgChannels : ch # first
<1>1. second \in MsgChannels
  <2>1. \E ch \in MsgChannels : ch # first
    BY DEF MsgChannels
  <2> QED  BY <2>1
<1> HIDE DEF second
<1>2. DrainChannel(Progress, first) \in S
  BY DrainStays
<1>3. DrainChannel(DrainChannel(Progress, first), second) \in S
  BY <1>1, <1>2, DrainStays
<1> QED  BY <1>3 DEF Drained, second

-----------------------------------------------------------------------------
(* The turns keep the chain.                                               *)

\* The sender goes on: what is ahead stays ahead.
LEMMA SenderMoves ==
    ASSUME NEW wr, NEW q, NEW in, NEW wt, NEW tk, NEW n, NEW st, NEW ep, NEW seq,
           NEW wr2, NEW q2, NEW n2,
           Chain(wr, q, in, wt, tk, n, st, ep, seq), Unsent(wr2, q2, n2),
           \A x : Ahead(x, wr, q, n) => Ahead(x, wr2, q2, n2)
    PROVE  Chain(wr2, q2, in, wt, tk, n2, st, ep, seq)
<1>1. Wired(wr2, q2, in["Timed"], n2)
  BY DEF Chain, Wired
<1>2. Kept(wr2, q2, in["Timed"], wt, n2, st, ep, seq)
  BY DEF Chain, Kept
<1>3. Past(wr2, q2, in["Timed"], wt, tk, n2)
  BY DEF Chain, Past
<1> QED  BY <1>1, <1>2, <1>3 DEF Chain

\* A message is put on the wire, or stays in the writer.
LEMMA OneSent ==
    ASSUME NEW wr \in Seq(Nat), NEW q \in Seq(InSendQueue), q # <<>>,
           NEW in \in [MsgChannels -> Seq(OnWire)], NEW wt \in SUBSET Waiters, NEW tk \in Seq(Handed),
           NEW n \in Nat, NEW st \in Nat, NEW ep \in Nat, NEW seq \in Nat,
           Chain(wr, q, in, wt, tk, n, st, ep, seq),
           NEW m, m = Head(q), NEW bytes, bytes = Append(wr, m.id),
           NEW w, w = [ids |-> bytes, ch |-> m.ch, tick |-> st, epoch |-> ep],
           NEW in2, in2 = [in EXCEPT ![m.ch] = Append(@, w)]
    PROVE  /\ Chain(bytes, <<>>, in, wt, tk, n, st, ep, seq)
           /\ Chain(<<>>, Tail(q), in2, wt, tk, n, st, ep, seq)
<1>1. Unsent(wr, q, n)
  BY DEF Chain
<1>2. /\ bytes \in Seq(Nat) \ {<<>>} /\ bytes[1] \in Nat
      /\ Unsent(<<>>, Tail(q), n) /\ Unsent(bytes, <<>>, n)
      /\ Ahead(bytes[1], <<>>, Tail(q), n)
      /\ \A x : Ahead(x, wr, q, n) =>
            x < bytes[1] /\ Ahead(x, <<>>, Tail(q), n) /\ Ahead(x, bytes, <<>>, n)
  <2>1. bytes = Append(wr, Head(q).id)
    OBVIOUS
  <2> QED  BY ONLY q # <<>>, <1>1, <2>1, NextName
<1>3. Chain(bytes, <<>>, in, wt, tk, n, st, ep, seq)
  BY <1>2, SenderMoves
<1>4. Chain(<<>>, Tail(q), in, wt, tk, n, st, ep, seq)
  BY <1>2, SenderMoves
<1>5. m \in InSendQueue
  BY TailIs
<1>6. w \in OnWire /\ m.ch \in MsgChannels /\ Name(w) = bytes[1]
  BY <1>2, <1>5 DEF OnWire, InSendQueue, Name
<1>7. /\ in2 \in [MsgChannels -> Seq(OnWire)] /\ in2[m.ch] = Append(in[m.ch], w)
      /\ \A ch \in MsgChannels : ch # m.ch => in2[ch] = in[ch]
  <2>1. Append(in[m.ch], w) \in Seq(OnWire)
    BY <1>6, AppendIs
  <2> QED  BY <1>6, <2>1
<1>8. /\ Len(in2[m.ch]) = Len(in[m.ch]) + 1 /\ Len(in[m.ch]) \in Nat /\ in2[m.ch][Len(in[m.ch]) + 1] = w
      /\ \A k \in 1 .. Len(in[m.ch]) : in2[m.ch][k] = in[m.ch][k]
  <2>1. in[m.ch] \in Seq(OnWire)
    BY <1>6
  <2> QED  BY ONLY <2>1, <1>6, <1>7, AppendIs
<1>9. OfThis(in2, st, ep)
  <2>1. OfThis(in, st, ep)
    BY DEF Chain
  <2>2. ASSUME NEW k \in 1 .. Len(in2[m.ch])
        PROVE  in2[m.ch][k].ch = m.ch /\ in2[m.ch][k].epoch = ep /\ in2[m.ch][k].tick <= st
    <3>1. CASE k \in 1 .. Len(in[m.ch])
      <4>1. in[m.ch][k].ch = m.ch /\ in[m.ch][k].epoch = ep /\ in[m.ch][k].tick <= st
        BY <3>1, <2>1, <1>6 DEF OfThis
      <4> QED  BY <4>1, <3>1, <1>8
    <3>2. CASE k = Len(in[m.ch]) + 1
      BY <3>2, <1>8
    <3>3. PICK l \in Nat : l = Len(in[m.ch]) /\ Len(in2[m.ch]) = l + 1
      BY <1>8
    <3>4. k \in 1 .. l + 1
      BY <3>3
    <3>5. k \in 1 .. l \/ k = l + 1
      BY ONLY <3>3, <3>4
    <3> QED  BY ONLY <3>1, <3>2, <3>3, <3>5
  <2>3. ASSUME NEW ch \in MsgChannels, ch # m.ch, NEW k \in 1 .. Len(in2[ch])
        PROVE  in2[ch][k].ch = ch /\ in2[ch][k].epoch = ep /\ in2[ch][k].tick <= st
    BY <2>1, <2>3, <1>7 DEF OfThis
  <2>4. ASSUME NEW ch \in MsgChannels, NEW k \in 1 .. Len(in2[ch])
        PROVE  in2[ch][k].ch = ch /\ in2[ch][k].epoch = ep /\ in2[ch][k].tick <= st
    <3>1. CASE ch = m.ch
      <4>1. k \in 1 .. Len(in2[m.ch])
        BY <3>1
      <4> QED  BY ONLY <2>2, <3>1, <4>1
    <3>2. CASE ch # m.ch
      BY <2>3, <3>2
    <3> QED  BY <3>1, <3>2
  <2> QED  BY ONLY <2>4 DEF OfThis
<1> DEFINE line == in["Timed"]
           line2 == in2["Timed"]
<1>10. CASE m.ch # "Timed"
  <2>1. line2 = line
    BY <1>10, <1>7 DEF MsgChannels
  <2> QED  BY <1>3, <1>4, <1>9, <2>1 DEF Chain
<1>11. CASE m.ch = "Timed"
  <2>1. /\ Len(line2) = Len(line) + 1 /\ Len(line) \in Nat /\ line2[Len(line) + 1] = w
        /\ \A k \in 1 .. Len(line) : line2[k] = line[k]
    BY <1>8, <1>11
  <2>2. \A k \in 1 .. Len(line) : Ahead(Name(line[k]), wr, q, n) /\ line[k].tick <= st
    BY DEF Chain, Wired, OfThis, MsgChannels
  <2>3. w.tick = st /\ \A k \in 1 .. Len(line) : Name(line[k]) < Name(w) /\ line[k].tick <= w.tick
    BY <2>2, <1>2, <1>6
  <2> HIDE DEF line, line2
  <2>4. ASSUME NEW k \in 1 .. Len(line2) PROVE k \in 1 .. Len(line) \/ k = Len(line) + 1
    BY <2>1
  <2>5. Wired(<<>>, Tail(q), line2, n)
    <3>1. Wired(<<>>, Tail(q), line, n)
      BY <1>4 DEF Chain, line
    <3>2. ASSUME NEW k \in 1 .. Len(line2) PROVE Ahead(Name(line2[k]), <<>>, Tail(q), n)
      BY <2>4, <2>1, <3>1, <1>2, <1>6 DEF Wired
    <3>3. ASSUME NEW j \in 1 .. Len(line2), NEW k \in 1 .. Len(line2), j < k
          PROVE  Name(line2[j]) < Name(line2[k]) /\ line2[j].tick <= line2[k].tick
      <4>1. j \in 1 .. Len(line)
        BY <3>3, <2>1
      <4>2. CASE k \in 1 .. Len(line)
        BY <4>1, <4>2, <3>3, <2>1, <3>1 DEF Wired
      <4>3. CASE k = Len(line) + 1
        BY <4>1, <4>3, <2>1, <2>3
      <4> QED  BY <4>2, <4>3, <2>4
    <3> QED  BY <3>2, <3>3 DEF Wired
  <2>6. Kept(<<>>, Tail(q), line2, wt, n, st, ep, seq)
    <3>1. Kept(<<>>, Tail(q), line, wt, n, st, ep, seq) /\ Kept(wr, q, line, wt, n, st, ep, seq)
      BY <1>4 DEF Chain, line
    <3>2. ASSUME NEW v \in wt PROVE Before(v.msg, line2)
      <4>1. Before(v.msg, line) /\ Name(v.msg) < Name(w) /\ v.msg.tick <= w.tick
        BY <3>1, <1>2, <1>6, <2>3 DEF Kept
      <4>2. ASSUME NEW k \in 1 .. Len(line2)
            PROVE  Name(v.msg) < Name(line2[k]) /\ v.msg.tick <= line2[k].tick
        <5>1. CASE k \in 1 .. Len(line)
          BY <5>1, <4>1, <2>1 DEF Before
        <5>2. CASE k = Len(line) + 1
          BY <5>2, <4>1, <2>1
        <5> QED  BY <5>1, <5>2, <2>4
      <4> QED  BY <4>2 DEF Before
    <3> QED  BY <3>1, <3>2 DEF Kept
  <2>7. Past(<<>>, Tail(q), line2, wt, tk, n)
    <3>1. Past(<<>>, Tail(q), line, wt, tk, n) /\ Past(wr, q, line, wt, tk, n)
      BY <1>4 DEF Chain, line
    <3>2. ASSUME NEW t \in 1 .. Len(tk), Timed(tk[t]), NEW k \in 1 .. Len(line2)
          PROVE  tk[t].id < Name(line2[k])
      <4>1. CASE k \in 1 .. Len(line)
        BY <4>1, <3>2, <3>1, <2>1 DEF Past
      <4>2. CASE k = Len(line) + 1
        <5>1. Ahead(tk[t].id, wr, q, n)
          BY <3>1, <3>2 DEF Past
        <5> QED  BY <5>1, <1>2, <1>6, <2>1, <4>2
      <4> QED  BY <4>1, <4>2, <2>4
    <3> QED  BY <3>1, <3>2 DEF Past
  <2> QED  BY <1>2, <1>3, <1>9, <2>5, <2>6, <2>7 DEF Chain, line2
<1> QED  BY <1>10, <1>11

\* A channel without its first message.
Popped(in, ch) == [in EXCEPT ![ch] = Tail(@)]

\* m was sent on this channel of this connection.
SentOn(m, ch, st, ep) == m \in OnWire /\ m.ch = ch /\ m.epoch = ep /\ m.tick <= st

\* A message is read from a channel.
LEMMA OneRead ==
    ASSUME NEW wr, NEW q, NEW in \in [MsgChannels -> Seq(OnWire)], NEW wt, NEW tk,
           NEW n, NEW st, NEW ep, NEW seq,
           Chain(wr, q, in, wt, tk, n, st, ep, seq),
           NEW ch \in MsgChannels, in[ch] # <<>>
    PROVE  /\ Popped(in, ch) \in [MsgChannels -> Seq(OnWire)]
           /\ Chain(wr, q, Popped(in, ch), wt, tk, n, st, ep, seq)
           /\ SentOn(Head(in[ch]), ch, st, ep)
<1> DEFINE in2 == Popped(in, ch)
<1>1. /\ Head(in[ch]) = in[ch][1] /\ in[ch][1] \in OnWire /\ 1 \in 1 .. Len(in[ch]) /\ Len(in[ch]) \in Nat
      /\ Tail(in[ch]) \in Seq(OnWire) /\ Len(Tail(in[ch])) = Len(in[ch]) - 1
      /\ \A k \in 1 .. Len(Tail(in[ch])) : k + 1 \in 1 .. Len(in[ch]) /\ Tail(in[ch])[k] = in[ch][k + 1]
  BY TailIs
<1>2. /\ in2 \in [MsgChannels -> Seq(OnWire)] /\ in2[ch] = Tail(in[ch])
      /\ \A c \in MsgChannels : c # ch => in2[c] = in[c]
  BY <1>1 DEF Popped
<1> HIDE DEF in2
<1>3. ASSUME NEW c \in MsgChannels
      PROVE  /\ \A k \in 1 .. Len(in2[c]) : \E i \in 1 .. Len(in[c]) : in2[c][k] = in[c][i]
             /\ \A j, k \in 1 .. Len(in2[c]) : j < k =>
                   \E i, l \in 1 .. Len(in[c]) : i < l /\ in2[c][j] = in[c][i] /\ in2[c][k] = in[c][l]
  <2>1. CASE c = ch
    <3>1. \A k \in 1 .. Len(in2[c]) : k + 1 \in 1 .. Len(in[c]) /\ in2[c][k] = in[c][k + 1]
      BY <2>1, <1>1, <1>2
    <3>2. ASSUME NEW j \in 1 .. Len(in2[c]), NEW k \in 1 .. Len(in2[c]), j < k
          PROVE  \E i, l \in 1 .. Len(in[c]) : i < l /\ in2[c][j] = in[c][i] /\ in2[c][k] = in[c][l]
      <4>1. j + 1 < k + 1
        BY <3>2
      <4> QED  BY <3>1, <4>1
    <3> QED  BY <3>1, <3>2
  <2>2. CASE c # ch
    <3>1. in2[c] = in[c]
      BY <2>2, <1>2
    <3> QED  BY <3>1
  <2> QED  BY <2>1, <2>2
<1>4. "Timed" \in MsgChannels
  BY DEF MsgChannels
<1> DEFINE line == in["Timed"]
           line2 == in2["Timed"]
<1>5. /\ \A k \in 1 .. Len(line2) : \E i \in 1 .. Len(line) : line2[k] = line[i]
      /\ \A j, k \in 1 .. Len(line2) : j < k =>
            \E i, l \in 1 .. Len(line) : i < l /\ line2[j] = line[i] /\ line2[k] = line[l]
  BY <1>3, <1>4
<1>6. OfThis(in2, st, ep) /\ SentOn(Head(in[ch]), ch, st, ep)
  <2>1. OfThis(in, st, ep)
    BY DEF Chain
  <2>2. OfThis(in2, st, ep)
    BY <2>1, <1>3 DEF OfThis
  <2> QED  BY <2>1, <2>2, <1>1 DEF OfThis, SentOn
<1>7. /\ Unsent(wr, q, n) /\ Wired(wr, q, line, n) /\ Kept(wr, q, line, wt, n, st, ep, seq)
      /\ Past(wr, q, line, wt, tk, n)
  BY DEF Chain
<1> HIDE DEF line, line2
<1>8. Wired(wr, q, line2, n)
  <2>1. \A k \in 1 .. Len(line2) : Ahead(Name(line2[k]), wr, q, n)
    BY <1>5, <1>7 DEF Wired
  <2>2. ASSUME NEW j \in 1 .. Len(line2), NEW k \in 1 .. Len(line2), j < k
        PROVE  Name(line2[j]) < Name(line2[k]) /\ line2[j].tick <= line2[k].tick
    <3>1. PICK i \in 1 .. Len(line), l \in 1 .. Len(line) :
             i < l /\ line2[j] = line[i] /\ line2[k] = line[l]
      BY <1>5, <2>2
    <3>2. Name(line[i]) < Name(line[l]) /\ line[i].tick <= line[l].tick
      BY <3>1, <1>7 DEF Wired
    <3> QED  BY <3>1, <3>2
  <2> QED  BY <2>1, <2>2 DEF Wired
<1>9. Kept(wr, q, line2, wt, n, st, ep, seq)
  <2>1. ASSUME NEW w \in wt PROVE Before(w.msg, line2)
    <3>1. Before(w.msg, line)
      BY <1>7 DEF Kept
    <3> QED  BY <3>1, <1>5 DEF Before
  <2> QED  BY <2>1, <1>7 DEF Kept
<1>10. Past(wr, q, line2, wt, tk, n)
  BY <1>5, <1>7 DEF Past
<1> QED  BY <1>1, <1>2, <1>6, <1>7, <1>8, <1>9, <1>10 DEF Chain, line2, in2

\* The next message of the timeline goes from the channel to those that wait.
LEMMA OneKept ==
    ASSUME NEW wr, NEW q, NEW in \in [MsgChannels -> Seq(OnWire)], NEW wt \in SUBSET Waiters, NEW tk,
           NEW n \in Nat, NEW st \in Nat, NEW ep \in Nat, NEW seq \in Nat,
           Chain(wr, q, in, wt, tk, n, st, ep, seq), in["Timed"] # <<>>,
           NEW m, m = Head(in["Timed"]), NEW x, x = [key |-> Key(m, seq), msg |-> m]
    PROVE  /\ x \in Waiters
           /\ Chain(wr, q, Popped(in, "Timed"), wt \cup {x}, tk, n, st, ep, seq + 1)
<1> DEFINE in2 == Popped(in, "Timed")
           line == in["Timed"]
           line2 == in2["Timed"]
<1>1. "Timed" \in MsgChannels
  BY DEF MsgChannels
<1>2. /\ Chain(wr, q, in2, wt, tk, n, st, ep, seq)
      /\ m \in OnWire /\ m.ch = "Timed" /\ m.epoch = ep /\ m.tick <= st
  <2>1. ASSUME NEW c \in MsgChannels, in[c] # <<>>
        PROVE  Chain(wr, q, Popped(in, c), wt, tk, n, st, ep, seq) /\ SentOn(Head(in[c]), c, st, ep)
    BY <2>1, OneRead
  <2>2. in["Timed"] # <<>> /\ m = Head(in["Timed"])
    OBVIOUS
  <2> QED  BY <1>1, <2>1, <2>2 DEF SentOn
<1>3. x \in Waiters /\ x.msg = m /\ x.key.tick = m.tick /\ x.key.seq = seq /\ m.tick \in Nat
  BY <1>2 DEF Waiters, Key, OnWire
<1>4. /\ m = line[1] /\ 1 \in 1 .. Len(line) /\ line2 = Tail(line)
      /\ \A k \in 1 .. Len(line2) : 1 < k + 1 /\ k + 1 \in 1 .. Len(line) /\ line2[k] = line[k + 1]
  <2>1. line \in Seq(OnWire) /\ line2 = Tail(line) /\ line # <<>>
    BY <1>1 DEF Popped
  <2> HIDE DEF line, line2
  <2>2. /\ Head(line) = line[1] /\ 1 \in 1 .. Len(line) /\ Len(line) \in Nat
        /\ Len(Tail(line)) = Len(line) - 1
        /\ \A k \in 1 .. Len(Tail(line)) : k + 1 \in 1 .. Len(line) /\ Tail(line)[k] = line[k + 1]
    BY ONLY <2>1, TailIs
  <2>3. m = Head(line)
    BY DEF line
  <2> QED  BY <2>1, <2>2, <2>3
<1>5. /\ Wired(wr, q, line, n) /\ Kept(wr, q, line, wt, n, st, ep, seq)
      /\ Past(wr, q, line, wt, tk, n)
  BY DEF Chain
<1>6. /\ Unsent(wr, q, n) /\ OfThis(in2, st, ep) /\ Wired(wr, q, line2, n)
      /\ Kept(wr, q, line2, wt, n, st, ep, seq) /\ Past(wr, q, line2, wt, tk, n)
  BY <1>2 DEF Chain
<1> HIDE DEF line, line2
<1>7. Ahead(Name(m), wr, q, n) /\ Before(m, line2)
  <2>1. Ahead(Name(m), wr, q, n)
    BY <1>4, <1>5 DEF Wired
  <2>2. \A k \in 1 .. Len(line2) : Name(m) < Name(line2[k]) /\ m.tick <= line2[k].tick
    BY <1>4, <1>5 DEF Wired
  <2> QED  BY <2>1, <2>2 DEF Before
<1>8. ASSUME NEW v \in wt
      PROVE  /\ Name(v.msg) < Name(m) /\ v.key.tick <= m.tick /\ v.key.seq < seq
             /\ v.key.tick \in Nat /\ v.key.seq \in Nat
  <2>1. Before(v.msg, line) /\ v.key.tick = v.msg.tick /\ v.key.seq < seq
    BY <1>5 DEF Kept
  <2>2. v \in Waiters
    OBVIOUS
  <2>3. v.key.tick \in Nat /\ v.key.seq \in Nat
    BY <2>2 DEF Waiters
  <2> QED  BY <2>1, <2>3, <1>4 DEF Before
<1>9. Kept(wr, q, line2, wt \cup {x}, n, st, ep, seq + 1)
  <2>1. ASSUME NEW w \in wt \cup {x}
        PROVE  /\ w.msg.ch = "Timed" /\ w.msg.epoch = ep /\ w.msg.tick <= st
               /\ w.key.tick = w.msg.tick /\ w.key.seq < seq + 1
               /\ Ahead(Name(w.msg), wr, q, n) /\ Before(w.msg, line2)
    <3>1. CASE w \in wt
      BY <3>1, <1>6, <1>8 DEF Kept
    <3>2. CASE w = x
      BY <3>2, <1>2, <1>3, <1>7
    <3> QED  BY <3>1, <3>2
  <2>2. ASSUME NEW v \in wt \cup {x}, NEW w \in wt \cup {x}, KeyLess(v, w)
        PROVE  Name(v.msg) < Name(w.msg)
    <3>1. CASE v \in wt /\ w \in wt
      BY <3>1, <2>2, <1>6 DEF Kept
    <3>2. CASE v \in wt /\ w = x
      BY <3>2, <1>8, <1>3
    <3>3. CASE v = x /\ w \in wt
      BY <3>3, <2>2, <1>8, <1>3 DEF KeyLess
    <3>4. CASE v = x /\ w = x
      BY <3>4, <2>2, <1>3 DEF KeyLess
    <3> QED  BY <3>1, <3>2, <3>3, <3>4
  <2> QED  BY <2>1, <2>2 DEF Kept
<1>10. Past(wr, q, line2, wt \cup {x}, tk, n)
  <2>1. ASSUME NEW t \in 1 .. Len(tk), Timed(tk[t]), NEW w \in wt \cup {x}
        PROVE  tk[t].id < Name(w.msg)
    <3>1. CASE w \in wt
      BY <3>1, <2>1, <1>6 DEF Past
    <3>2. CASE w = x
      BY <3>2, <2>1, <1>3, <1>4, <1>5 DEF Past
    <3> QED  BY <3>1, <3>2
  <2> QED  BY <2>1, <1>6 DEF Past
<1> QED  BY <1>3, <1>6, <1>9, <1>10 DEF Chain, line2

-----------------------------------------------------------------------------
(* The receiver's turns.                                                   *)

\* A turn of the receiver, field by field: an error, a message that waits, or
\* one that is ready.
LEMMA ReceiveOneIs ==
    ASSUME NEW x \in Reading, NEW ch \in MsgChannels, x.left[ch] # <<>>,
           NEW m, m = Head(x.left[ch]), NEW v, v = [key |-> Key(m, x.seq), msg |-> m],
           NEW r, r = ReceiveOne(x, ch)
    PROVE  /\ m \in OnWire /\ v \in Waiters /\ r \in Reading /\ r.left = Popped(x.left, ch)
           /\ \/ /\ r.ready = x.ready /\ r.timed = x.timed /\ r.seq = x.seq
                 /\ r.failed = x.failed \cup {Name(m)}
              \/ /\ ch = "Timed" /\ r.ready = x.ready /\ r.failed = x.failed
                 /\ r.timed = x.timed \cup {v} /\ r.seq = x.seq + 1
              \/ /\ ch # "Timed" /\ r.ready = Append(x.ready, m) /\ r.failed = x.failed
                 /\ r.timed = x.timed /\ r.seq = x.seq
<1>1. /\ x.ready \in Seq(OnWire) /\ x.timed \in SUBSET Waiters /\ x.seq \in Nat
      /\ x.left \in [MsgChannels -> Seq(OnWire)] /\ x.failed \in SUBSET Nat /\ x.stopped \in BOOLEAN
  BY DEF Reading
<1>2. m \in OnWire /\ Tail(x.left[ch]) \in Seq(OnWire)
  <2>1. PICK s \in Seq(OnWire) : s = x.left[ch]
    BY <1>1
  <2>2. s # <<>> /\ m = Head(s)
    BY <2>1
  <2>3. Head(s) \in OnWire /\ Tail(s) \in Seq(OnWire)
    BY ONLY <2>2, HeadTailProperties
  <2> QED  BY <2>1, <2>2, <2>3
<1>3. Popped(x.left, ch) \in [MsgChannels -> Seq(OnWire)]
  BY <1>1, <1>2 DEF Popped
<1>4. v \in Waiters /\ Name(m) \in Nat
  <2>1. m.ids \in Seq(Nat) /\ m.ids # <<>> /\ m.tick \in Nat
    BY <1>2 DEF OnWire
  <2>2. m.ids[1] \in Nat
    BY <2>1, TailIs
  <2> QED  BY <2>1, <2>2, <1>1, <1>2 DEF Waiters, Key, Name
<1>5. Append(x.ready, m) \in Seq(OnWire)
  BY <1>1, <1>2, AppendIs
<1> DEFINE Full == ch = "Timed" /\ Cardinality(x.timed) >= MaxPending
<1>6. CASE TooFarBehind(m) \/ (Full /\ present)
  <2>1. r = [x EXCEPT !.failed = @ \cup {m.ids[1]}, !.left[ch] = Tail(@), !.stopped = TRUE]
    BY <1>6 DEF ReceiveOne, AfterError
  <2>2. r = [x EXCEPT !.failed = x.failed \cup {Name(m)}, !.left = Popped(x.left, ch), !.stopped = TRUE]
    BY <2>1 DEF Reading, Popped, Name
  <2>3. x.failed \cup {Name(m)} \in SUBSET Nat
    BY <1>1, <1>4
  <2> QED  BY <2>2, <2>3, <1>2, <1>3, <1>4 DEF Reading
<1>7. CASE ~ (TooFarBehind(m) \/ (Full /\ present)) /\ Full
  <2>1. r = [x EXCEPT !.failed = @ \cup {m.ids[1]}, !.left[ch] = Tail(@)]
    BY <1>7 DEF ReceiveOne, AfterLazyError
  <2>2. r = [x EXCEPT !.failed = x.failed \cup {Name(m)}, !.left = Popped(x.left, ch)]
    BY <2>1 DEF Reading, Popped, Name
  <2>3. x.failed \cup {Name(m)} \in SUBSET Nat
    BY <1>1, <1>4
  <2> QED  BY <2>2, <2>3, <1>2, <1>3, <1>4 DEF Reading
<1>8. CASE ~ (TooFarBehind(m) \/ (Full /\ present)) /\ ~ Full /\ ch = "Timed"
  <2>1. r = [x EXCEPT !.timed = @ \cup {v}, !.seq = @ + 1, !.left[ch] = Tail(@)]
    BY <1>8 DEF ReceiveOne
  <2>2. r = [x EXCEPT !.timed = x.timed \cup {v}, !.seq = x.seq + 1, !.left = Popped(x.left, ch)]
    BY <2>1 DEF Reading, Popped
  <2>3. x.timed \cup {v} \in SUBSET Waiters /\ x.seq + 1 \in Nat
    BY <1>1, <1>4
  <2> QED  BY <2>2, <2>3, <1>2, <1>3, <1>4, <1>8 DEF Reading
<1>9. CASE ~ (TooFarBehind(m) \/ (Full /\ present)) /\ ~ Full /\ ch # "Timed"
  <2>1. r = [x EXCEPT !.ready = Append(@, m), !.left[ch] = Tail(@)]
    BY <1>9 DEF ReceiveOne
  <2>2. r = [x EXCEPT !.ready = Append(x.ready, m), !.left = Popped(x.left, ch)]
    BY <2>1 DEF Reading, Popped
  <2> QED  BY <2>2, <1>2, <1>3, <1>4, <1>5, <1>9 DEF Reading
<1> QED  BY <1>6, <1>7, <1>8, <1>9

\* What recv keeps while it runs over the channels.
ReadInv(g) ==
    /\ g \in Reading /\ IsFiniteSet(g.timed)
    /\ \A k \in 1 .. Len(g.ready) : g.ready[k].ch = "Plain" /\ g.ready[k].epoch = epoch
    /\ Chain(writer, sendq, g.left, g.timed, taken, numSent, sendTick, epoch, g.seq)

LEMMA ReadKept ==
    ASSUME {numSent, sendTick, epoch} \subseteq Nat, NEW x, ReadInv(x),
           NEW ch \in MsgChannels, x.left[ch] # <<>>
    PROVE  ReadInv(ReceiveOne(x, ch))
<1>1. PICK m, v, r : /\ m = Head(x.left[ch]) /\ v = [key |-> Key(m, x.seq), msg |-> m]
                     /\ r = ReceiveOne(x, ch)
  OBVIOUS
<1>2. /\ x \in Reading /\ IsFiniteSet(x.timed) /\ x.seq \in Nat /\ x.timed \in SUBSET Waiters
      /\ x.left \in [MsgChannels -> Seq(OnWire)] /\ x.ready \in Seq(OnWire)
      /\ Chain(writer, sendq, x.left, x.timed, taken, numSent, sendTick, epoch, x.seq)
  BY DEF ReadInv, Reading
<1>3. /\ m \in OnWire /\ v \in Waiters /\ r \in Reading /\ r.left = Popped(x.left, ch)
      /\ \/ /\ r.ready = x.ready /\ r.timed = x.timed /\ r.seq = x.seq
            /\ r.failed = x.failed \cup {Name(m)}
         \/ /\ ch = "Timed" /\ r.ready = x.ready /\ r.failed = x.failed
            /\ r.timed = x.timed \cup {v} /\ r.seq = x.seq + 1
         \/ /\ ch # "Timed" /\ r.ready = Append(x.ready, m) /\ r.failed = x.failed
            /\ r.timed = x.timed /\ r.seq = x.seq
  BY <1>1, <1>2, ReceiveOneIs
<1>4. /\ Chain(writer, sendq, r.left, x.timed, taken, numSent, sendTick, epoch, x.seq)
      /\ SentOn(m, ch, sendTick, epoch)
  <2>1. /\ Chain(writer, sendq, Popped(x.left, ch), x.timed, taken, numSent, sendTick, epoch, x.seq)
        /\ SentOn(Head(x.left[ch]), ch, sendTick, epoch)
    BY <1>2, OneRead
  <2> QED  BY <2>1, <1>1, <1>3
<1>5. CASE r.ready = x.ready /\ r.timed = x.timed /\ r.seq = x.seq
  BY <1>1, <1>2, <1>3, <1>4, <1>5 DEF ReadInv
<1>6. CASE ch = "Timed" /\ r.ready = x.ready /\ r.timed = x.timed \cup {v} /\ r.seq = x.seq + 1
  <2>1. IsFiniteSet(r.timed)
    <3>1. PICK W : W = x.timed
      OBVIOUS
    <3>2. IsFiniteSet(W)
      BY <3>1, <1>2
    <3>3. IsFiniteSet(W \cup {v})
      BY ONLY <3>2, FS_AddElement
    <3> QED  BY <3>1, <3>3, <1>6
  <2>2. x.left["Timed"] # <<>> /\ m = Head(x.left["Timed"])
    BY <1>1, <1>6
  <2>3. Chain(writer, sendq, Popped(x.left, "Timed"), x.timed \cup {v}, taken, numSent, sendTick,
              epoch, x.seq + 1)
    BY <1>1, <1>2, <2>2, OneKept
  <2> QED  BY <1>1, <1>3, <1>6, <2>1, <2>3 DEF ReadInv
<1>7. CASE ch # "Timed" /\ r.ready = Append(x.ready, m) /\ r.timed = x.timed /\ r.seq = x.seq
  <2>1. m.ch = "Plain" /\ m.epoch = epoch
    BY <1>4, <1>7 DEF SentOn, MsgChannels
  <2>2. /\ Len(r.ready) = Len(x.ready) + 1 /\ Len(x.ready) \in Nat /\ r.ready[Len(x.ready) + 1] = m
        /\ \A k \in 1 .. Len(x.ready) : r.ready[k] = x.ready[k]
    BY <1>2, <1>3, <1>7, AppendIs
  <2>3. ASSUME NEW k \in 1 .. Len(r.ready) PROVE r.ready[k].ch = "Plain" /\ r.ready[k].epoch = epoch
    <3>1. CASE k \in 1 .. Len(x.ready)
      BY <3>1, <2>2 DEF ReadInv
    <3>2. CASE k = Len(x.ready) + 1
      BY <3>2, <2>1, <2>2
    <3> QED  BY <3>1, <3>2, <2>2
  <2> QED  BY <1>1, <1>2, <1>3, <1>4, <1>7, <2>3 DEF ReadInv
<1> QED  BY <1>3, <1>5, <1>6, <1>7

\* What recv leaves.
LEMMA DrainedKept ==
    ASSUME MsgInv, NEW first \in MsgChannels
    PROVE  ReadInv(Drained(first))
<1> DEFINE S == {g \in Reading : ReadInv(g)}
<1>1. {numSent, sendTick, epoch} \subseteq Nat
  BY DEF MsgInv, MsgTypes
<1>2. Progress \in S
  <2>1. ready = <<>> /\ Len(<<>>) = 0 /\ <<>> \in Seq(OnWire)
    BY EmptySeq DEF MsgInv, MsgTypes
  <2>2. Progress \in Reading
    BY <2>1 DEF Progress, Reading, MsgInv, MsgTypes
  <2>3. /\ Progress.ready = <<>> /\ Progress.timed = timed /\ Progress.left = inq
        /\ Progress.seq = nextSeq
    BY <2>1 DEF Progress
  <2>4. ReadInv(Progress)
    BY <2>1, <2>2, <2>3 DEF ReadInv, MsgInv, MsgTypes
  <2> QED  BY <2>2, <2>4
<1>3. \A x \in S : \A ch \in MsgChannels : x.left[ch] # <<>> => ReceiveOne(x, ch) \in S
  <2>1. ASSUME NEW x \in S, NEW ch \in MsgChannels, x.left[ch] # <<>> PROVE ReadInv(ReceiveOne(x, ch))
    BY <1>1, <2>1, ReadKept
  <2>2. \A g : ReadInv(g) => g \in Reading
    BY DEF ReadInv
  <2> QED  BY <2>1, <2>2
<1>4. Drained(first) \in S
  <2>1. S \subseteq Reading
    OBVIOUS
  <2> HIDE DEF S
  <2> QED  BY <1>2, <1>3, <2>1, DrainedStays
<1> QED  BY <1>4

-----------------------------------------------------------------------------
(* What a frame hands to the application.                                  *)

\* DeliveredAsSent of any list of messages.
Fine(tk) ==
    /\ \A k \in 1 .. Len(tk) : Timed(tk[k]) => tk[k].tick <= tk[k].at
    /\ \A j, k \in 1 .. Len(tk) : (j < k /\ Timed(tk[j]) /\ Timed(tk[k])) => tk[j].id < tk[k].id
    /\ \A k \in 1 .. Len(tk) : tk[k].sent = tk[k].taken

\* What is released, in order.
LEMMA ReleasedIs ==
    ASSUME NEW W \in SUBSET Waiters, IsFiniteSet(W), NEW due \in Released(W)
    PROVE  /\ due \in Seq(OnWire)
           /\ \E s \in [1 .. Len(due) -> DueNow(W)] :
                 /\ \A k \in 1 .. Len(due) : due[k] = s[k].msg
                 /\ \A v \in DueNow(W) : \E k \in 1 .. Len(due) : s[k] = v
                 /\ \A j, k \in 1 .. Len(due) : j < k => KeyLess(s[j], s[k])
<1>1. PICK s \in InOrder(DueNow(W)) : due = [k \in DOMAIN s |-> s[k].msg]
  BY DEF Released
<1> DEFINE n == Cardinality(DueNow(W))
<1>2. n \in Nat
  <2>1. DueNow(W) \in SUBSET W
    BY DEF DueNow
  <2>2. IsFiniteSet(DueNow(W))
    BY <2>1, FS_Subset
  <2> QED  BY <2>2, FS_CardinalityType
<1>3. s \in [1 .. n -> DueNow(W)]
  BY DEF InOrder
<1>4. /\ \A v \in DueNow(W) : \E k \in 1 .. n : s[k] = v
      /\ \A j, k \in 1 .. n : j < k => KeyLess(s[j], s[k])
  BY <1>3 DEF InOrder
<1> HIDE DEF n
<1>5. due = [k \in 1 .. n |-> s[k].msg]
  BY <1>1, <1>3
<1>6. \A k \in 1 .. n : s[k].msg \in OnWire
  <2>1. DueNow(W) \subseteq Waiters
    BY DEF DueNow
  <2>2. \A k \in 1 .. n : s[k] \in Waiters
    BY <1>3, <2>1
  <2> QED  BY <2>2 DEF Waiters
<1>7. due \in Seq(OnWire) /\ Len(due) = n
  BY <1>2, <1>5, <1>6
<1> QED  BY <1>3, <1>4, <1>5, <1>7

\* A list of what was ready and of what is due, with the timed messages in order.
ListOf(all, rd, D, ep) ==
    /\ all \in Seq(OnWire) /\ Len(all) \in Nat
    /\ \A k \in 1 .. Len(all) : all[k].epoch = ep
    /\ \A k \in 1 .. Len(all) : all[k].ch = "Timed" => \E w \in D : all[k] = w.msg
    /\ \A j, k \in 1 .. Len(all) : (j < k /\ all[j].ch = "Timed" /\ all[k].ch = "Timed") =>
          \E v, w \in D : all[j] = v.msg /\ all[k] = w.msg /\ KeyLess(v, w)
    /\ \A k \in 1 .. Len(rd) : \E i \in 1 .. Len(all) : all[i] = rd[k]
    /\ \A w \in D : \E i \in 1 .. Len(all) : all[i] = w.msg

\* The list of a frame: what was ready, then what is released.
LEMMA AllIs ==
    ASSUME NEW g, ReadInv(g), NEW due \in Released(g.timed), NEW all, all = g.ready \o due
    PROVE  ListOf(all, g.ready, DueNow(g.timed), epoch)
<1>1. PICK W, L : W = g.timed /\ L = g.ready
  OBVIOUS
<1>2. /\ W \in SUBSET Waiters /\ IsFiniteSet(W) /\ L \in Seq(OnWire)
      /\ \A k \in 1 .. Len(L) : L[k].ch = "Plain" /\ L[k].epoch = epoch
      /\ \A w \in W : w.msg.epoch = epoch /\ w.msg.ch = "Timed"
  BY <1>1 DEF ReadInv, Reading, Chain, Kept
<1>3. due \in Released(W) /\ all = L \o due
  BY <1>1
<1>4. due \in Seq(OnWire)
  BY ONLY <1>2, <1>3, ReleasedIs
<1>5. PICK s \in [1 .. Len(due) -> DueNow(W)] :
         /\ \A k \in 1 .. Len(due) : due[k] = s[k].msg
         /\ \A v \in DueNow(W) : \E k \in 1 .. Len(due) : s[k] = v
         /\ \A j, k \in 1 .. Len(due) : j < k => KeyLess(s[j], s[k])
  BY ONLY <1>2, <1>3, ReleasedIs
<1>6. DueNow(W) \subseteq W
  BY DEF DueNow
<1>7. /\ all \in Seq(OnWire) /\ Len(all) = Len(L) + Len(due)
      /\ \A i \in 1 .. Len(L) + Len(due) : all[i] = IF i <= Len(L) THEN L[i] ELSE due[i - Len(L)]
  BY ONLY <1>2, <1>3, <1>4, ConcatProperties
<1>8. Len(L) \in Nat /\ Len(due) \in Nat
  BY <1>2, <1>4, LenProperties
<1>9. ASSUME NEW k \in 1 .. Len(all)
      PROVE  \/ k \in 1 .. Len(L) /\ all[k] = L[k]
             \/ k - Len(L) \in 1 .. Len(due) /\ all[k] = s[k - Len(L)].msg /\ s[k - Len(L)] \in DueNow(W)
  <2>1. CASE k <= Len(L)
    BY <2>1, <1>7, <1>8
  <2>2. CASE ~ (k <= Len(L))
    <3>1. k - Len(L) \in 1 .. Len(due) /\ all[k] = due[k - Len(L)]
      BY <2>2, <1>7, <1>8
    <3> QED  BY <3>1, <1>5
  <2> QED  BY <2>1, <2>2
<1>10. ASSUME NEW k \in 1 .. Len(all) PROVE all[k].epoch = epoch
  BY <1>9, <1>2, <1>6
<1>11. ASSUME NEW k \in 1 .. Len(all), all[k].ch = "Timed"
       PROVE  k - Len(L) \in 1 .. Len(due) /\ all[k] = s[k - Len(L)].msg /\ s[k - Len(L)] \in DueNow(W)
  BY <1>9, <1>11, <1>2
<1>12. ASSUME NEW j \in 1 .. Len(all), NEW k \in 1 .. Len(all), j < k,
              all[j].ch = "Timed", all[k].ch = "Timed"
       PROVE  \E v, w \in DueNow(W) : all[j] = v.msg /\ all[k] = w.msg /\ KeyLess(v, w)
  <2>1. /\ j - Len(L) \in 1 .. Len(due) /\ all[j] = s[j - Len(L)].msg /\ s[j - Len(L)] \in DueNow(W)
        /\ k - Len(L) \in 1 .. Len(due) /\ all[k] = s[k - Len(L)].msg /\ s[k - Len(L)] \in DueNow(W)
    BY <1>11, <1>12
  <2>2. j - Len(L) < k - Len(L)
    <3>1. j \in Nat /\ k \in Nat /\ Len(L) \in Nat /\ j < k
      BY <1>12, <1>8
    <3> QED  BY ONLY <3>1
  <2>3. KeyLess(s[j - Len(L)], s[k - Len(L)])
    BY <2>1, <2>2, <1>5
  <2> QED  BY <2>1, <2>3
<1>13. ASSUME NEW k \in 1 .. Len(L) PROVE \E i \in 1 .. Len(all) : all[i] = L[k]
  <2>1. k \in 1 .. Len(L) + Len(due) /\ k <= Len(L)
    BY <1>8
  <2>2. all[k] = L[k] /\ k \in 1 .. Len(all)
    BY <1>7, <2>1
  <2> QED  BY <2>2
<1>14. ASSUME NEW w \in DueNow(W) PROVE \E i \in 1 .. Len(all) : all[i] = w.msg
  <2>1. PICK k \in 1 .. Len(due) : s[k] = w
    BY <1>5
  <2>2. due[k] = w.msg
    BY <2>1, <1>5
  <2>3. Len(L) + k \in 1 .. Len(all) /\ all[Len(L) + k] = due[k]
    <3>1. Len(L) + k \in 1 .. Len(L) + Len(due) /\ ~ (Len(L) + k <= Len(L)) /\ Len(L) + k - Len(L) = k
      BY <1>8
    <3>2. PICK i \in 1 .. Len(L) + Len(due) : i = Len(L) + k
      BY <3>1
    <3>3. all[i] = due[k]
      <4>1. all[i] = IF i <= Len(L) THEN L[i] ELSE due[i - Len(L)]
        BY <1>7
      <4>2. ~ (i <= Len(L)) /\ i - Len(L) = k
        BY <3>1, <3>2
      <4> QED  BY <4>1, <4>2
    <3> QED  BY <3>2, <3>3, <1>7
  <2> QED  BY <2>2, <2>3
<1>15. Len(all) \in Nat
  BY <1>7, <1>8
<1> QED  BY SMT, ZenonT(60), <1>1, <1>7, <1>10, <1>11, <1>12, <1>13, <1>14, <1>15 DEF ListOf

\* more is the list `all`, handed out now.
GivenOf(more, all) ==
    \A k \in 1 .. Len(all) :
        /\ more[k].id = Name(all[k]) /\ more[k].ch = all[k].ch /\ more[k].tick = all[k].tick
        /\ more[k].at = lineTick /\ more[k].sent = epoch /\ more[k].taken = epoch

\* What the application is given of a list.
LEMMA MoreIs ==
    ASSUME MsgTypes, NEW all, NEW rd, NEW D, ListOf(all, rd, D, epoch),
           NEW more, more = [k \in 1 .. Len(all) |-> Given(all[k])]
    PROVE  more \in Seq(Handed) /\ Len(more) = Len(all) /\ GivenOf(more, all)
<1>1. /\ all \in Seq(OnWire) /\ Len(all) \in Nat /\ \A k \in 1 .. Len(all) : all[k].epoch = epoch
  BY DEF ListOf
<1>2. lineTick \in Nat /\ epoch \in Nat
  BY DEF MsgTypes
<1>3. ASSUME NEW k \in 1 .. Len(all)
      PROVE  /\ Given(all[k]) \in Handed /\ Given(all[k]).id = Name(all[k])
             /\ Given(all[k]).ch = all[k].ch /\ Given(all[k]).tick = all[k].tick
             /\ Given(all[k]).at = lineTick /\ Given(all[k]).sent = epoch /\ Given(all[k]).taken = epoch
  <2>1. PICK m \in OnWire : m = all[k]
    BY <1>1, ElementOfSeq
  <2>2. m.ids \in Seq(Nat) /\ m.ids # <<>> /\ m.tick \in Nat /\ m.ch \in MsgChannels /\ m.epoch \in Nat
    BY DEF OnWire
  <2>3. m.ids[1] \in Nat
    BY <2>2, TailIs
  <2>4. m.epoch = epoch
    BY <1>1, <2>1
  <2> QED  BY <2>1, <2>2, <2>3, <2>4, <1>2 DEF Given, Handed, Name
<1>4. more \in Seq(Handed) /\ Len(more) = Len(all)
  BY <1>1, <1>3
<1> QED  BY <1>3, <1>4 DEF GivenOf

\* What is handed out in order, at its time, before all that stays.
LEMMA HandedFine ==
    ASSUME MsgInv, NEW g, ReadInv(g), NEW due \in Released(g.timed),
           NEW all, all = g.ready \o due,
           NEW more, more = [k \in 1 .. Len(all) |-> Given(all[k])],
           NEW tk, tk = taken \o more, NEW W2, W2 = g.timed \ DueNow(g.timed)
    PROVE  /\ tk \in Seq(Handed) /\ Fine(tk)
           /\ Past(writer, sendq, g.left["Timed"], W2, tk, numSent)
<1> DEFINE D == DueNow(g.timed)
           line == g.left["Timed"]
<1>1. /\ all \in Seq(OnWire) /\ Len(all) \in Nat
      /\ \A k \in 1 .. Len(all) : all[k].epoch = epoch
      /\ \A k \in 1 .. Len(all) : all[k].ch = "Timed" => \E w \in D : all[k] = w.msg
      /\ \A j, k \in 1 .. Len(all) : (j < k /\ all[j].ch = "Timed" /\ all[k].ch = "Timed") =>
            \E v, w \in D : all[j] = v.msg /\ all[k] = w.msg /\ KeyLess(v, w)
  <2>1. ListOf(all, g.ready, DueNow(g.timed), epoch)
    BY AllIs
  <2> QED  BY <2>1 DEF ListOf
<1>2. /\ taken \in Seq(Handed) /\ Len(taken) \in Nat /\ lineTick \in Nat /\ epoch \in Nat
      /\ Fine(taken)
  BY LenProperties DEF MsgInv, MsgTypes, Fine, DeliveredAsSent, NotEarly, TimelineInOrder, OwnConnectionOnly
<1>4. more \in Seq(Handed) /\ Len(more) = Len(all) /\ GivenOf(more, all)
  <2>1. MsgTypes /\ ListOf(all, g.ready, D, epoch)
    BY AllIs DEF MsgInv
  <2> QED  BY <2>1, MoreIs
<1>3. ASSUME NEW k \in 1 .. Len(all)
      PROVE  /\ Given(all[k]).id = Name(all[k])
             /\ Given(all[k]).ch = all[k].ch /\ Given(all[k]).tick = all[k].tick
             /\ Given(all[k]).at = lineTick /\ Given(all[k]).sent = epoch /\ Given(all[k]).taken = epoch
  <2>1. more[k] = Given(all[k])
    OBVIOUS
  <2> QED  BY ONLY <2>1, <1>4 DEF GivenOf
<1>5. \A k \in 1 .. Len(all) : more[k] = Given(all[k])
  OBVIOUS
<1>6. /\ tk \in Seq(Handed) /\ Len(tk) = Len(taken) + Len(all)
      /\ \A i \in 1 .. Len(taken) + Len(all) :
            tk[i] = IF i <= Len(taken) THEN taken[i] ELSE more[i - Len(taken)]
  <2>1. PICK T : T = taken
    OBVIOUS
  <2>2. T \in Seq(Handed) /\ tk = T \o more
    BY <2>1, <1>2
  <2>3. /\ T \o more \in Seq(Handed) /\ Len(T \o more) = Len(T) + Len(more)
        /\ \A i \in 1 .. Len(T) + Len(more) : (T \o more)[i] = IF i <= Len(T) THEN T[i] ELSE more[i - Len(T)]
    BY ONLY <1>4, <2>2, ConcatProperties
  <2> QED  BY ONLY <2>1, <2>2, <2>3, <1>4
\* Where a message of the list comes from.
<1>7. ASSUME NEW i \in 1 .. Len(tk)
      PROVE  \/ i \in 1 .. Len(taken) /\ tk[i] = taken[i]
             \/ /\ i > Len(taken) /\ i - Len(taken) \in 1 .. Len(all)
                /\ tk[i] = Given(all[i - Len(taken)])
  <2>1. CASE i <= Len(taken)
    <3>1. i \in 1 .. Len(taken) /\ i \in 1 .. Len(taken) + Len(all)
      BY <2>1, <1>1, <1>2, <1>6
    <3>2. tk[i] = IF i <= Len(taken) THEN taken[i] ELSE more[i - Len(taken)]
      BY ONLY <3>1, <1>6
    <3> QED  BY ONLY <3>1, <3>2, <2>1
  <2>2. CASE ~ (i <= Len(taken))
    <3>1. i > Len(taken) /\ i - Len(taken) \in 1 .. Len(all) /\ tk[i] = more[i - Len(taken)]
      BY <2>2, <1>1, <1>2, <1>6
    <3> QED  BY <3>1, <1>5
  <2> QED  BY <2>1, <2>2
<1>8. /\ Kept(writer, sendq, line, g.timed, numSent, sendTick, epoch, g.seq)
      /\ Past(writer, sendq, line, g.timed, taken, numSent) /\ g.timed \in SUBSET Waiters
  BY DEF ReadInv, Chain, Reading
<1>9. ASSUME NEW w \in D
      PROVE  /\ w \in g.timed /\ w.msg.tick <= lineTick /\ w.key.tick <= lineTick
             /\ Ahead(Name(w.msg), writer, sendq, numSent) /\ Before(w.msg, line)
  <2>1. w \in g.timed /\ w.key.tick <= lineTick
    BY DEF DueNow
  <2> QED  BY <2>1, <1>8 DEF Kept
<1>10. ASSUME NEW w \in D, NEW v \in W2 PROVE Name(w.msg) < Name(v.msg)
  <2>1. v \in g.timed /\ ~ (v.key.tick <= lineTick)
    BY DEF DueNow
  <2>2. v \in Waiters /\ w \in Waiters
    BY <2>1, <1>8, <1>9
  <2>3. KeyLess(w, v)
    BY <1>9, <2>1, <2>2, <1>2 DEF KeyLess, Waiters
  <2> QED  BY <2>1, <2>3, <1>8, <1>9 DEF Kept
<1>11. \A i \in 1 .. Len(tk) : Timed(tk[i]) => tk[i].tick <= tk[i].at
  <2> SUFFICES ASSUME NEW i \in 1 .. Len(tk), Timed(tk[i]) PROVE tk[i].tick <= tk[i].at
    OBVIOUS
  <2>1. CASE i \in 1 .. Len(taken) /\ tk[i] = taken[i]
    BY <2>1, <1>2 DEF Fine
  <2>2. CASE i - Len(taken) \in 1 .. Len(all) /\ tk[i] = Given(all[i - Len(taken)])
    <3>1. PICK k \in 1 .. Len(all) : k = i - Len(taken) /\ tk[i] = Given(all[k])
      BY <2>2
    <3>2. all[k].ch = "Timed"
      BY <3>1, <1>3 DEF Timed
    <3>3. PICK w \in D : all[k] = w.msg
      BY <1>1, <3>2
    <3>4. tk[i].tick = w.msg.tick /\ tk[i].at = lineTick
      BY <3>1, <3>3, <1>3
    <3> QED  BY <3>4, <1>9
  <2> QED  BY <1>7, <2>1, <2>2
<1>12. \A i, j \in 1 .. Len(tk) : (i < j /\ Timed(tk[i]) /\ Timed(tk[j])) => tk[i].id < tk[j].id
  <2> SUFFICES ASSUME NEW i \in 1 .. Len(tk), NEW j \in 1 .. Len(tk), i < j, Timed(tk[i]), Timed(tk[j])
               PROVE  tk[i].id < tk[j].id
    BY SMT, ZenonT(60)
  <2>1. CASE i \in 1 .. Len(taken) /\ tk[i] = taken[i] /\ j \in 1 .. Len(taken) /\ tk[j] = taken[j]
    BY <2>1, <1>2 DEF Fine
  <2>2. CASE /\ i \in 1 .. Len(taken) /\ tk[i] = taken[i]
             /\ j - Len(taken) \in 1 .. Len(all) /\ tk[j] = Given(all[j - Len(taken)])
    <3>1. PICK k \in 1 .. Len(all) : k = j - Len(taken) /\ tk[j] = Given(all[k])
      BY <2>2
    <3>2. all[k].ch = "Timed"
      BY <3>1, <1>3 DEF Timed
    <3>3. PICK w \in D : all[k] = w.msg
      BY <1>1, <3>2
    <3>4. taken[i].id < Name(w.msg)
      BY <2>2, <1>8, <1>9 DEF Past
    <3> QED  BY <2>2, <3>1, <3>3, <3>4, <1>3
  <2>3. CASE /\ i > Len(taken) /\ i - Len(taken) \in 1 .. Len(all) /\ tk[i] = Given(all[i - Len(taken)])
             /\ j > Len(taken) /\ j - Len(taken) \in 1 .. Len(all) /\ tk[j] = Given(all[j - Len(taken)])
    <3>1. PICK k \in 1 .. Len(all), l \in 1 .. Len(all) :
             k = i - Len(taken) /\ l = j - Len(taken) /\ tk[i] = Given(all[k]) /\ tk[j] = Given(all[l])
      BY <2>3
    <3>2. all[k].ch = "Timed" /\ all[l].ch = "Timed" /\ k < l
      <4>1. all[k].ch = "Timed" /\ all[l].ch = "Timed"
        BY <3>1, <1>3 DEF Timed
      <4>2. Len(taken) \in Nat /\ i \in Int /\ j \in Int
        BY <1>6
      <4>3. k < l
        BY <3>1, <4>2
      <4> QED  BY <4>1, <4>3
    <3>3. PICK v \in D, w \in D : all[k] = v.msg /\ all[l] = w.msg /\ KeyLess(v, w)
      BY <1>1, <3>2
    <3>4. Name(v.msg) < Name(w.msg)
      BY <3>3, <1>8, <1>9 DEF Kept
    <3> QED  BY <3>1, <3>3, <3>4, <1>3
  <2>4. CASE i > Len(taken) /\ j \in 1 .. Len(taken)
    BY <2>4, <1>2
  <2>5. \/ i \in 1 .. Len(taken) /\ tk[i] = taken[i]
        \/ i > Len(taken) /\ i - Len(taken) \in 1 .. Len(all) /\ tk[i] = Given(all[i - Len(taken)])
    BY <1>7
  <2>6. \/ j \in 1 .. Len(taken) /\ tk[j] = taken[j]
        \/ j > Len(taken) /\ j - Len(taken) \in 1 .. Len(all) /\ tk[j] = Given(all[j - Len(taken)])
    BY <1>7
  <2> QED  BY ONLY <2>1, <2>2, <2>3, <2>4, <2>5, <2>6
<1>13. \A i \in 1 .. Len(tk) : tk[i].sent = tk[i].taken
  <2> SUFFICES ASSUME NEW i \in 1 .. Len(tk) PROVE tk[i].sent = tk[i].taken
    OBVIOUS
  <2>1. CASE i \in 1 .. Len(taken) /\ tk[i] = taken[i]
    BY <2>1, <1>2 DEF Fine
  <2>2. CASE i - Len(taken) \in 1 .. Len(all) /\ tk[i] = Given(all[i - Len(taken)])
    BY <2>2, <1>3
  <2> QED  BY <1>7, <2>1, <2>2
<1>14. Past(writer, sendq, line, W2, tk, numSent)
  <2> SUFFICES ASSUME NEW i \in 1 .. Len(tk), Timed(tk[i])
               PROVE  /\ Ahead(tk[i].id, writer, sendq, numSent)
                      /\ \A k \in 1 .. Len(line) : tk[i].id < Name(line[k])
                      /\ \A v \in W2 : tk[i].id < Name(v.msg)
    BY DEF Past
  <2>1. CASE i \in 1 .. Len(taken) /\ tk[i] = taken[i]
    BY <2>1, <1>8 DEF Past
  <2>2. CASE i - Len(taken) \in 1 .. Len(all) /\ tk[i] = Given(all[i - Len(taken)])
    <3>1. PICK k \in 1 .. Len(all) : k = i - Len(taken) /\ tk[i] = Given(all[k])
      BY <2>2
    <3>2. all[k].ch = "Timed" /\ tk[i].id = Name(all[k])
      BY <3>1, <1>3 DEF Timed
    <3>3. PICK w \in D : all[k] = w.msg
      BY <1>1, <3>2
    <3>4. tk[i].id = Name(w.msg)
      BY <3>2, <3>3
    <3>5. Ahead(Name(w.msg), writer, sendq, numSent) /\ Before(w.msg, line)
      BY <1>9
    <3>6. \A v \in W2 : Name(w.msg) < Name(v.msg)
      BY <1>10
    <3> QED  BY ONLY <3>4, <3>5, <3>6 DEF Before
  <2> QED  BY <1>7, <2>1, <2>2
<1> QED  BY <1>6, <1>11, <1>12, <1>13, <1>14 DEF Fine

-----------------------------------------------------------------------------
(* The actions.                                                            *)

LEMMA MsgInitInv == MsgInit => MsgInv
<1> SUFFICES ASSUME MsgInit PROVE MsgInv
  OBVIOUS
<1> USE DEF MsgInit
<1>1. Len(<<>>) = 0 /\ IsFiniteSet({})
  BY FS_EmptySet
<1>2. MsgTypes
  BY <1>1 DEF MsgTypes
<1>3. \A ch \in MsgChannels : inq[ch] = <<>>
  OBVIOUS
<1>4. inq["Timed"] = <<>>
  BY DEF MsgChannels
<1>5. Unsent(writer, sendq, numSent) /\ Wired(writer, sendq, inq["Timed"], numSent)
  BY <1>1, <1>4 DEF Unsent, Wired
<1>6. OfThis(inq, sendTick, epoch)
  BY <1>1, <1>3 DEF OfThis
<1>7. /\ Kept(writer, sendq, inq["Timed"], timed, numSent, sendTick, epoch, nextSeq)
      /\ Past(writer, sendq, inq["Timed"], timed, taken, numSent)
  BY <1>1 DEF Kept, Past
<1>8. DeliveredAsSent
  BY <1>1 DEF DeliveredAsSent, NotEarly, TimelineInOrder, OwnConnectionOnly
<1> QED  BY <1>2, <1>5, <1>6, <1>7, <1>8 DEF MsgInv, Chain

LEMMA TakenStaysFine ==
    ASSUME MsgInv, taken' = taken
    PROVE  DeliveredAsSent'
<1>1. DeliveredAsSent
  BY DEF MsgInv
<1> QED  BY <1>1 DEF DeliveredAsSent, NotEarly, TimelineInOrder, OwnConnectionOnly

LEMMA SendMessageInv == ASSUME MsgInv, NEW ch \in MsgChannels, SendMessage(ch) PROVE MsgInv'
<1>1. /\ sendq' = Append(sendq, [id |-> numSent + 1, ch |-> ch]) /\ numSent' = numSent + 1
      /\ UNCHANGED <<writer, inq, ready, timed, nextSeq, sendTick, lineTick, epoch, taken>>
  BY DEF SendMessage
<1>2. MsgTypes /\ Chain(writer, sendq, inq, timed, taken, numSent, sendTick, epoch, nextSeq)
  BY DEF MsgInv
<1>3. sendq \in Seq(InSendQueue) /\ numSent \in Nat /\ writer \in Seq(Nat)
  BY <1>2 DEF MsgTypes
<1>4. PICK q2 : q2 = Append(sendq, [id |-> numSent + 1, ch |-> ch])
  OBVIOUS
<1>5. /\ q2 \in Seq(InSendQueue)
      /\ \A x : Ahead(x, writer, sendq, numSent) => Ahead(x, writer, q2, numSent + 1)
      /\ Unsent(writer, sendq, numSent) => Unsent(writer, q2, numSent + 1)
  BY <1>3, <1>4, StillAhead
<1>6. Unsent(writer, q2, numSent + 1)
  BY <1>2, <1>5 DEF Chain
<1>7. Chain(writer, q2, inq, timed, taken, numSent + 1, sendTick, epoch, nextSeq)
  BY <1>2, <1>5, <1>6, SenderMoves
<1>8. MsgTypes'
  BY <1>1, <1>2, <1>4, <1>5 DEF MsgTypes
<1>9. Chain(writer, sendq, inq, timed, taken, numSent, sendTick, epoch, nextSeq)'
  BY <1>1, <1>4, <1>7
<1>10. DeliveredAsSent'
  BY <1>1, TakenStaysFine
<1> QED  BY <1>8, <1>9, <1>10 DEF MsgInv

\* What the sender's loop leaves.
LEMMA SentKept ==
    ASSUME MsgInv
    PROVE  /\ SendAll \in Sending /\ SendAll.queue = <<>>
           /\ Chain(SendAll.writer, <<>>, SendAll.wire, timed, taken, numSent, sendTick, epoch, nextSeq)
<1> DEFINE S == {h \in Sending :
                   Chain(h.writer, h.queue, h.wire, timed, taken, numSent, sendTick, epoch, nextSeq)}
<1>1. MsgTypes /\ Chain(writer, sendq, inq, timed, taken, numSent, sendTick, epoch, nextSeq)
  BY DEF MsgInv
<1>2. /\ sendq \in Seq(InSendQueue) /\ writer \in Seq(Nat) /\ inq \in [MsgChannels -> Seq(OnWire)]
      /\ timed \in SUBSET Waiters /\ taken \in Seq(Handed)
      /\ numSent \in Nat /\ sendTick \in Nat /\ epoch \in Nat /\ nextSeq \in Nat
  BY <1>1 DEF MsgTypes
<1>3. Outgoing \in S
  <2>1. /\ Outgoing \in Sending /\ Outgoing.queue = sendq /\ Outgoing.writer = writer
        /\ Outgoing.wire = inq
    BY <1>2 DEF Outgoing, Sending
  <2> QED  BY <1>1, <2>1
<1>4. ASSUME NEW h \in S, h.queue # <<>> PROVE SendOne(h) \in S
  <2>1. PICK m, bytes, w, wire2 :
           /\ m = Head(h.queue) /\ bytes = Append(h.writer, m.id)
           /\ w = [ids |-> bytes, ch |-> m.ch, tick |-> sendTick, epoch |-> epoch]
           /\ wire2 = [h.wire EXCEPT ![m.ch] = Append(@, w)]
    OBVIOUS
  <2>2. /\ h \in Sending /\ h.queue \in Seq(InSendQueue) /\ h.writer \in Seq(Nat)
        /\ h.wire \in [MsgChannels -> Seq(OnWire)]
        /\ Chain(h.writer, h.queue, h.wire, timed, taken, numSent, sendTick, epoch, nextSeq)
    BY DEF Sending
  <2>3. /\ SendOne(h) \in Sending
        /\ m.id \in Unserializable =>
              SendOne(h).queue = <<>> /\ SendOne(h).writer = bytes /\ SendOne(h).wire = h.wire
        /\ m.id \notin Unserializable =>
              SendOne(h).queue = Tail(h.queue) /\ SendOne(h).writer = <<>> /\ SendOne(h).wire = wire2
    <3>1. {sendTick, epoch} \subseteq Nat
      BY <1>2
    <3>2. Turned(h, SendOne(h), m, bytes, w)
      BY <3>1, <1>4, <2>1, <2>2, SendOneIs
    <3> QED  BY <3>2, <2>1 DEF Turned
  <2>4. /\ Chain(bytes, <<>>, h.wire, timed, taken, numSent, sendTick, epoch, nextSeq)
        /\ Chain(<<>>, Tail(h.queue), wire2, timed, taken, numSent, sendTick, epoch, nextSeq)
    BY <1>2, <1>4, <2>1, <2>2, OneSent
  <2>5. CASE m.id \in Unserializable
    BY <2>3, <2>4, <2>5
  <2>6. CASE m.id \notin Unserializable
    BY <2>3, <2>4, <2>6
  <2> QED  BY <2>5, <2>6
<1>5. SendAll \in S /\ SendAll.queue = <<>>
  <2>1. S \subseteq Sending
    OBVIOUS
  <2>2. {sendTick, epoch} \subseteq Nat
    BY <1>2
  <2> HIDE DEF S
  <2> QED  BY <1>2, <1>3, <1>4, <2>1, <2>2, SendAllStays
<1> QED  BY <1>5

LEMMA SendFrameInv == ASSUME MsgInv, SendFrame PROVE MsgInv'
<1>1. /\ sendq' = <<>> /\ inq' = SendAll.wire /\ writer' = SendAll.writer
      /\ UNCHANGED <<ready, timed, nextSeq, sendTick, lineTick, epoch, numSent, taken>>
  BY DEF SendFrame
<1>2. /\ SendAll \in Sending
      /\ Chain(SendAll.writer, <<>>, SendAll.wire, timed, taken, numSent, sendTick, epoch, nextSeq)
  BY SentKept
<1>3. SendAll.writer \in Seq(Nat) /\ SendAll.wire \in [MsgChannels -> Seq(OnWire)] /\ <<>> \in Seq(InSendQueue)
  BY <1>2, EmptySeq DEF Sending
<1>4. MsgTypes'
  BY <1>1, <1>3 DEF MsgInv, MsgTypes
<1>5. Chain(writer, sendq, inq, timed, taken, numSent, sendTick, epoch, nextSeq)'
  BY <1>1, <1>2
<1>6. DeliveredAsSent'
  BY <1>1, TakenStaysFine
<1> QED  BY <1>4, <1>5, <1>6 DEF MsgInv

LEMMA ReceiveFrameInv ==
    ASSUME MsgInv, NEW first \in MsgChannels, NEW reads \in BOOLEAN, ReceiveFrame(first, reads)
    PROVE  MsgInv'
<1>1. PICK g, W2 : g = Drained(first) /\ W2 = g.timed \ DueNow(g.timed)
  OBVIOUS
<1> DEFINE More(due) == [k \in 1 .. Len(g.ready \o due) |-> Given((g.ready \o due)[k])]
<1>20. PICK due \in Released(g.timed) :
          /\ inq' = g.left /\ nextSeq' = g.seq /\ timed' = W2 /\ ready' = <<>>
          /\ taken' = IF reads THEN taken \o More(due) ELSE taken
          /\ UNCHANGED <<sendq, writer, sendTick, lineTick, epoch, numSent>>
  BY <1>1 DEF ReceiveFrame
<1>21. PICK all, more : all = g.ready \o due /\ more = [k \in 1 .. Len(all) |-> Given(all[k])]
  OBVIOUS
<1>2. /\ inq' = g.left /\ nextSeq' = g.seq /\ timed' = W2 /\ ready' = <<>>
      /\ taken' = IF reads THEN taken \o more ELSE taken
      /\ UNCHANGED <<sendq, writer, sendTick, lineTick, epoch, numSent>>
  BY <1>20, <1>21
<1>3. ReadInv(g)
  BY <1>1, DrainedKept
<1>4. /\ Chain(writer, sendq, g.left, g.timed, taken, numSent, sendTick, epoch, g.seq)
      /\ g \in Reading /\ IsFiniteSet(g.timed)
  BY <1>3 DEF ReadInv
<1>5. MsgTypes /\ Fine(taken)
  BY DEF MsgInv, DeliveredAsSent, NotEarly, TimelineInOrder, OwnConnectionOnly, Fine
<1>6. W2 \subseteq g.timed
  BY <1>1
<1>7. IsFiniteSet(W2)
  <2>1. PICK W : W = g.timed
    OBVIOUS
  <2>2. IsFiniteSet(W) /\ W2 \in SUBSET W
    BY <1>4, <1>6, <2>1
  <2> QED  BY ONLY <2>2, FS_Subset
<1>8. /\ taken' \in Seq(Handed) /\ Fine(taken')
      /\ Past(writer, sendq, g.left["Timed"], W2, taken', numSent)
  <2>1. CASE reads
    <3>1. taken' = taken \o more
      BY <1>2, <2>1
    <3>2. PICK tk : tk = taken \o more
      OBVIOUS
    <3>3. tk \in Seq(Handed) /\ Fine(tk) /\ Past(writer, sendq, g.left["Timed"], W2, tk, numSent)
      BY <1>1, <1>21, <1>3, <3>2, HandedFine
    <3> QED  BY <3>1, <3>2, <3>3
  <2>2. CASE ~ reads
    <3>1. taken' = taken
      BY <1>2, <2>2
    <3>2. Past(writer, sendq, g.left["Timed"], W2, taken, numSent)
      BY <1>4, <1>6 DEF Chain, Past
    <3> QED  BY <3>1, <3>2, <1>5 DEF MsgTypes
  <2> QED  BY <2>1, <2>2
<1>9. Kept(writer, sendq, g.left["Timed"], W2, numSent, sendTick, epoch, g.seq)
  BY <1>4, <1>6 DEF Chain, Kept
<1>10. MsgTypes'
  <2>1. g.left \in [MsgChannels -> Seq(OnWire)] /\ g.seq \in Nat /\ W2 \subseteq Waiters
    BY <1>4, <1>6 DEF Reading
  <2> QED  BY <2>1, <1>2, <1>5, <1>7, <1>8 DEF MsgTypes
<1>11. Chain(writer, sendq, inq, timed, taken, numSent, sendTick, epoch, nextSeq)'
  <2>1. PICK tk : tk = taken'
    OBVIOUS
  <2>2. Chain(writer, sendq, g.left, W2, tk, numSent, sendTick, epoch, g.seq)
    BY <2>1, <1>4, <1>8, <1>9 DEF Chain
  <2> QED  BY <2>1, <2>2, <1>2
<1>12. DeliveredAsSent'
  BY <1>8 DEF DeliveredAsSent, NotEarly, TimelineInOrder, OwnConnectionOnly, Fine
<1> QED  BY <1>10, <1>11, <1>12 DEF MsgInv

LEMMA EndConnectionInv == ASSUME MsgInv, EndConnection PROVE MsgInv'
<1>1. /\ inq' = [ch \in MsgChannels |-> <<>>] /\ ready' = <<>> /\ timed' = {} /\ nextSeq' = 0
      /\ epoch' = epoch + 1 /\ UNCHANGED <<sendq, writer, sendTick, lineTick, numSent, taken>>
  BY DEF EndConnection
<1>2. MsgTypes /\ Chain(writer, sendq, inq, timed, taken, numSent, sendTick, epoch, nextSeq)
  BY DEF MsgInv
<1>3. PICK empty : empty = [ch \in MsgChannels |-> <<>>]
  OBVIOUS
<1>4. Len(<<>>) = 0 /\ IsFiniteSet({}) /\ <<>> \in Seq(OnWire)
  BY FS_EmptySet, EmptySeq
<1>5. MsgTypes'
  BY <1>1, <1>2, <1>4 DEF MsgTypes
<1>6. empty["Timed"] = <<>> /\ \A ch \in MsgChannels : empty[ch] = <<>>
  BY <1>3 DEF MsgChannels
<1>7. Unsent(writer, sendq, numSent) /\ Wired(writer, sendq, empty["Timed"], numSent)
  BY <1>2, <1>4, <1>6 DEF Chain, Wired
<1>8. OfThis(empty, sendTick, epoch + 1)
  BY <1>4, <1>6 DEF OfThis
<1>9. Kept(writer, sendq, empty["Timed"], {}, numSent, sendTick, epoch + 1, 0)
  BY DEF Kept
<1>10. Past(writer, sendq, empty["Timed"], {}, taken, numSent)
  BY <1>2, <1>4, <1>6 DEF Chain, Past
<1>11. Chain(writer, sendq, empty, {}, taken, numSent, sendTick, epoch + 1, 0)
  BY <1>7, <1>8, <1>9, <1>10 DEF Chain
<1>12. Chain(writer, sendq, inq, timed, taken, numSent, sendTick, epoch, nextSeq)'
  BY <1>1, <1>3, <1>11
<1>13. DeliveredAsSent'
  BY <1>1, TakenStaysFine
<1> QED  BY <1>5, <1>12, <1>13 DEF MsgInv

LEMMA SenderTickInv == ASSUME MsgInv, SenderTick PROVE MsgInv'
<1>1. /\ sendTick' = sendTick + 1
      /\ UNCHANGED <<sendq, writer, inq, ready, timed, nextSeq, lineTick, epoch, numSent, taken>>
  BY DEF SenderTick
<1>2. MsgTypes /\ Chain(writer, sendq, inq, timed, taken, numSent, sendTick, epoch, nextSeq)
  BY DEF MsgInv
<1>3. /\ inq \in [MsgChannels -> Seq(OnWire)] /\ timed \in SUBSET Waiters /\ sendTick \in Nat
  BY <1>2 DEF MsgTypes
<1>4. OfThis(inq, sendTick + 1, epoch)
  <2>1. ASSUME NEW ch \in MsgChannels, NEW k \in 1 .. Len(inq[ch]) PROVE inq[ch][k].tick <= sendTick + 1
    <3>1. inq[ch] \in Seq(OnWire)
      BY <1>3
    <3>2. inq[ch][k] \in OnWire
      BY <3>1, ElementOfSeq
    <3>3. inq[ch][k].tick \in Nat /\ inq[ch][k].tick <= sendTick
      BY <3>2, <1>2 DEF OnWire, Chain, OfThis
    <3> QED  BY <3>3, <1>3
  <2> QED  BY <2>1, <1>2 DEF Chain, OfThis
<1>5. Kept(writer, sendq, inq["Timed"], timed, numSent, sendTick + 1, epoch, nextSeq)
  <2>1. ASSUME NEW w \in timed PROVE w.msg.tick <= sendTick + 1
    <3>1. w \in Waiters
      BY <1>3
    <3>2. w.msg.tick \in Nat /\ w.msg.tick <= sendTick
      BY <3>1, <1>2 DEF Waiters, OnWire, Chain, Kept
    <3> QED  BY <3>2, <1>3
  <2> QED  BY <2>1, <1>2 DEF Chain, Kept
<1>6. Chain(writer, sendq, inq, timed, taken, numSent, sendTick + 1, epoch, nextSeq)
  BY <1>2, <1>4, <1>5 DEF Chain
<1>7. Chain(writer, sendq, inq, timed, taken, numSent, sendTick, epoch, nextSeq)'
  BY <1>1, <1>6
<1>8. MsgTypes'
  BY <1>1, <1>2 DEF MsgTypes
<1>9. DeliveredAsSent'
  BY <1>1, TakenStaysFine
<1> QED  BY <1>7, <1>8, <1>9 DEF MsgInv

LEMMA MsgNextInv == MsgInv /\ [MsgNext]_msgVars => MsgInv'
<1> SUFFICES ASSUME MsgInv, [MsgNext]_msgVars PROVE MsgInv'
  OBVIOUS
<1>1. ASSUME NEW ch \in MsgChannels, SendMessage(ch) PROVE MsgInv'
  BY <1>1, SendMessageInv
<1>2. CASE SendFrame
  BY <1>2, SendFrameInv
<1>3. ASSUME NEW ch \in MsgChannels, NEW reads \in BOOLEAN, ReceiveFrame(ch, reads) PROVE MsgInv'
  BY <1>3, ReceiveFrameInv
<1>4. CASE EndConnection
  BY <1>4, EndConnectionInv
<1>5. CASE SenderTick
  BY <1>5, SenderTickInv
<1>6. CASE UNCHANGED <<sendq, writer, inq, ready, timed, nextSeq, sendTick, epoch, numSent, taken>>
           /\ (lineTick' = lineTick \/ lineTick' = lineTick + 1)
  <2>1. MsgTypes /\ Chain(writer, sendq, inq, timed, taken, numSent, sendTick, epoch, nextSeq)
    BY DEF MsgInv
  <2>2. MsgTypes'
    BY <1>6, <2>1 DEF MsgTypes
  <2>3. Chain(writer, sendq, inq, timed, taken, numSent, sendTick, epoch, nextSeq)'
    BY <1>6, <2>1
  <2>4. DeliveredAsSent'
    BY <1>6, TakenStaysFine
  <2> QED  BY <2>2, <2>3, <2>4 DEF MsgInv
<1>7. CASE TimelineTick
  BY <1>6, <1>7 DEF TimelineTick
<1>8. CASE UNCHANGED msgVars
  BY <1>6, <1>8 DEF msgVars
<1> QED  BY <1>1, <1>2, <1>3, <1>4, <1>5, <1>7, <1>8 DEF MsgNext

\* The queues of a connection are a chain, whatever fails in it.
THEOREM MsgInvAlways == MsgSpec => []MsgInv
<1> QED  BY MsgInitInv, MsgNextInv, PTL DEF MsgSpec

\* MessageReceiver hands messages of a delivery timeline out at their tick or
\* later, in the order they were sent in, and none of an earlier connection.
THEOREM DeliveredAsSentAlways == MsgSpec => []DeliveredAsSent
<1>1. MsgInv => DeliveredAsSent
  BY DEF MsgInv
<1> QED  BY <1>1, MsgInvAlways, PTL

-----------------------------------------------------------------------------
(* Where a message is.                                                     *)

\* Message i is in one of the queues, was handed out, or is accounted for.
At(i, q, in, rd, wt, tk, gone) ==
    \/ i \in gone
    \/ \E k \in 1 .. Len(q) : q[k].id = i
    \/ \E ch \in MsgChannels : \E k \in 1 .. Len(in[ch]) : Name(in[ch][k]) = i
    \/ \E k \in 1 .. Len(rd) : Name(rd[k]) = i
    \/ \E w \in wt : Name(w.msg) = i
    \/ \E k \in 1 .. Len(tk) : tk[k].id = i

NoneLost(q, in, rd, wt, tk, gone, n) == \A i \in 1 .. n : At(i, q, in, rd, wt, tk, gone)

LossInv == /\ MsgInv
           /\ writer = <<>>
           /\ NoneLost(sendq, inq, <<>>, timed, taken, failed \cup unread, numSent)

LEMMA TailHasRest ==
    ASSUME NEW S, NEW s \in Seq(S), NEW k \in 1 .. Len(s)
    PROVE  s # <<>> /\ (s[k] = Head(s) \/ \E j \in 1 .. Len(Tail(s)) : Tail(s)[j] = s[k])
<1>1. Len(s) \in Nat /\ s # <<>>
  BY LenProperties
<1>2. /\ Head(s) = s[1] /\ Len(Tail(s)) = Len(s) - 1
      /\ \A j \in 1 .. Len(Tail(s)) : j + 1 \in 1 .. Len(s) /\ Tail(s)[j] = s[j + 1]
  BY <1>1, TailIs
<1>3. CASE k = 1
  BY <1>1, <1>2, <1>3
<1>4. CASE k # 1
  <2>1. k - 1 \in 1 .. Len(Tail(s)) /\ (k - 1) + 1 = k
    BY <1>1, <1>2, <1>4
  <2>2. Tail(s)[k - 1] = s[(k - 1) + 1]
    BY <2>1, <1>2
  <2>3. Tail(s)[k - 1] = s[k]
    BY <2>1, <2>2
  <2> QED  BY <1>1, <2>1, <2>3
<1> QED  BY <1>3, <1>4

LEMMA AppendHasAll ==
    ASSUME NEW S, NEW s \in Seq(S), NEW x \in S
    PROVE  /\ \A k \in 1 .. Len(s) : \E j \in 1 .. Len(Append(s, x)) : Append(s, x)[j] = s[k]
           /\ \E j \in 1 .. Len(Append(s, x)) : Append(s, x)[j] = x
<1>1. /\ Len(Append(s, x)) = Len(s) + 1 /\ Len(s) \in Nat /\ Append(s, x)[Len(s) + 1] = x
      /\ \A k \in 1 .. Len(s) : Append(s, x)[k] = s[k]
  BY AppendIs
<1>2. ASSUME NEW k \in 1 .. Len(s) PROVE \E j \in 1 .. Len(Append(s, x)) : Append(s, x)[j] = s[k]
  <2>1. k \in 1 .. Len(Append(s, x)) /\ Append(s, x)[k] = s[k]
    BY <1>1
  <2> QED  BY <2>1
<1>3. Len(s) + 1 \in 1 .. Len(Append(s, x))
  BY <1>1
<1> QED  BY <1>1, <1>2, <1>3

\* The message taken from the queue is on the wire.
LEMMA SentIsFound ==
    ASSUME NEW q \in Seq(InSendQueue), q # <<>>, NEW in \in [MsgChannels -> Seq(OnWire)],
           NEW rd, NEW wt, NEW tk, NEW gone, NEW n,
           NoneLost(q, in, rd, wt, tk, gone, n),
           NEW w \in OnWire, Name(w) = Head(q).id, NEW ch \in MsgChannels
    PROVE  NoneLost(Tail(q), [in EXCEPT ![ch] = Append(@, w)], rd, wt, tk, gone, n)
<1> DEFINE in2 == [in EXCEPT ![ch] = Append(@, w)]
<1>1. in[ch] \in Seq(OnWire) /\ in2[ch] = Append(in[ch], w) /\ \A c \in MsgChannels : c # ch => in2[c] = in[c]
  OBVIOUS
<1>2. /\ \A k \in 1 .. Len(in[ch]) : \E j \in 1 .. Len(in2[ch]) : in2[ch][j] = in[ch][k]
      /\ \E j \in 1 .. Len(in2[ch]) : in2[ch][j] = w
  <2>1. PICK s \in Seq(OnWire) : s = in[ch]
    BY <1>1
  <2>2. /\ \A k \in 1 .. Len(s) : \E j \in 1 .. Len(Append(s, w)) : Append(s, w)[j] = s[k]
        /\ \E j \in 1 .. Len(Append(s, w)) : Append(s, w)[j] = w
    BY ONLY s \in Seq(OnWire), w \in OnWire, AppendHasAll
  <2> HIDE DEF in2
  <2> QED  BY <1>1, <2>1, <2>2
<1> HIDE DEF in2
<1>3. ASSUME NEW i \in 1 .. n PROVE At(i, Tail(q), in2, rd, wt, tk, gone)
  <2>1. At(i, q, in, rd, wt, tk, gone)
    BY DEF NoneLost
  <2>2. ASSUME NEW k \in 1 .. Len(q), q[k].id = i PROVE At(i, Tail(q), in2, rd, wt, tk, gone)
    <3>1. q[k] = Head(q) \/ \E j \in 1 .. Len(Tail(q)) : Tail(q)[j] = q[k]
      BY TailHasRest
    <3>2. CASE q[k] = Head(q)
      <4>1. Name(w) = i
        BY <2>2, <3>2
      <4>2. \E j \in 1 .. Len(in2[ch]) : Name(in2[ch][j]) = i
        BY <4>1, <1>2
      <4> QED  BY <4>2 DEF At
    <3>3. CASE \E j \in 1 .. Len(Tail(q)) : Tail(q)[j] = q[k]
      BY <2>2, <3>3 DEF At
    <3> QED  BY <3>1, <3>2, <3>3
  <2>3. ASSUME NEW c \in MsgChannels, NEW k \in 1 .. Len(in[c]), Name(in[c][k]) = i
        PROVE  At(i, Tail(q), in2, rd, wt, tk, gone)
    <3>1. \E j \in 1 .. Len(in2[c]) : in2[c][j] = in[c][k]
      <4>1. CASE c = ch
        BY <4>1, <1>2
      <4>2. CASE c # ch
        <5>1. in2[c] = in[c]
          BY <4>2, <1>1
        <5> QED  BY <5>1
      <4> QED  BY <4>1, <4>2
    <3>2. \E j \in 1 .. Len(in2[c]) : Name(in2[c][j]) = i
      BY <3>1, <2>3
    <3> QED  BY <3>2 DEF At
  <2> QED  BY <2>1, <2>2, <2>3 DEF At
<1> QED  BY <1>3 DEF NoneLost, in2

\* The message taken from a channel is all that the channel loses.
LEMMA PoppedHasRest ==
    ASSUME NEW in \in [MsgChannels -> Seq(OnWire)], NEW ch \in MsgChannels,
           NEW c \in MsgChannels, NEW k \in 1 .. Len(in[c])
    PROVE  \/ in[c][k] = Head(in[ch])
           \/ \E j \in 1 .. Len(Popped(in, ch)[c]) : Popped(in, ch)[c][j] = in[c][k]
<1>1. CASE c = ch
  <2>1. PICK s \in Seq(OnWire) : s = in[c]
    OBVIOUS
  <2>2. k \in 1 .. Len(s)
    BY <2>1
  <2>3. s[k] = Head(s) \/ \E j \in 1 .. Len(Tail(s)) : Tail(s)[j] = s[k]
    BY ONLY <2>2, s \in Seq(OnWire), TailHasRest
  <2>4. Popped(in, ch)[c] = Tail(s)
    BY <1>1, <2>1 DEF Popped
  <2> QED  BY <1>1, <2>1, <2>3, <2>4
<1>2. CASE c # ch
  <2>1. Popped(in, ch)[c] = in[c]
    BY <1>2 DEF Popped
  <2> QED  BY <2>1
<1> QED  BY <1>1, <1>2

\* The message taken from a channel fails, waits, or is ready.
LEMMA ReadIsFound ==
    ASSUME NEW q, NEW in \in [MsgChannels -> Seq(OnWire)], NEW ch \in MsgChannels,
           NEW rd, NEW wt, NEW rd2, NEW wt2, NEW tk, NEW gone, NEW gone2, NEW n,
           NoneLost(q, in, rd, wt, tk, gone, n),
           gone \subseteq gone2, wt \subseteq wt2,
           \A k \in 1 .. Len(rd) : \E j \in 1 .. Len(rd2) : rd2[j] = rd[k],
           \/ Name(Head(in[ch])) \in gone2
           \/ \E w \in wt2 : w.msg = Head(in[ch])
           \/ \E j \in 1 .. Len(rd2) : rd2[j] = Head(in[ch])
    PROVE  NoneLost(q, Popped(in, ch), rd2, wt2, tk, gone2, n)
<1> DEFINE in2 == Popped(in, ch)
<1>1. ASSUME NEW i \in 1 .. n PROVE At(i, q, in2, rd2, wt2, tk, gone2)
  <2>1. At(i, q, in, rd, wt, tk, gone)
    BY DEF NoneLost
  <2>2. ASSUME NEW c \in MsgChannels, NEW k \in 1 .. Len(in[c]), Name(in[c][k]) = i
        PROVE  At(i, q, in2, rd2, wt2, tk, gone2)
    <3>1. in[c][k] = Head(in[ch]) \/ \E j \in 1 .. Len(in2[c]) : in2[c][j] = in[c][k]
      BY PoppedHasRest
    <3> HIDE DEF in2
    <3>2. CASE in[c][k] = Head(in[ch])
      <4>1. Name(Head(in[ch])) = i
        BY <2>2, <3>2
      <4> QED  BY <4>1 DEF At
    <3>3. CASE \E j \in 1 .. Len(in2[c]) : in2[c][j] = in[c][k]
      <4>1. \E j \in 1 .. Len(in2[c]) : Name(in2[c][j]) = i
        BY <2>2, <3>3
      <4> QED  BY <4>1 DEF At
    <3> QED  BY <3>1, <3>2, <3>3
  <2>3. ASSUME NEW k \in 1 .. Len(rd), Name(rd[k]) = i PROVE At(i, q, in2, rd2, wt2, tk, gone2)
    <3>1. \E j \in 1 .. Len(rd2) : Name(rd2[j]) = i
      BY <2>3
    <3> HIDE DEF in2
    <3> QED  BY <3>1 DEF At
  <2> HIDE DEF in2
  <2> QED  BY <2>1, <2>2, <2>3 DEF At
<1> QED  BY <1>1 DEF NoneLost

LEMMA LossInitInv == MsgInit => LossInv
<1> SUFFICES ASSUME MsgInit PROVE LossInv
  OBVIOUS
<1>1. MsgInv
  BY MsgInitInv
<1>2. writer = <<>> /\ numSent = 0
  BY DEF MsgInit
<1> QED  BY <1>1, <1>2 DEF LossInv, NoneLost

LEMMA LossSendMessage == ASSUME LossInv, NEW ch \in MsgChannels, SendMessage(ch) PROVE LossInv'
<1>1. /\ sendq' = Append(sendq, [id |-> numSent + 1, ch |-> ch]) /\ numSent' = numSent + 1
      /\ UNCHANGED <<writer, inq, timed, taken, failed, unread>>
  BY DEF SendMessage
<1>2. MsgInv'
  BY SendMessageInv DEF LossInv
<1>3. /\ sendq \in Seq(InSendQueue) /\ numSent \in Nat /\ writer = <<>>
      /\ NoneLost(sendq, inq, <<>>, timed, taken, failed \cup unread, numSent)
  BY DEF LossInv, MsgInv, MsgTypes
<1>4. PICK m, q2 : m = [id |-> numSent + 1, ch |-> ch] /\ q2 = Append(sendq, m)
  OBVIOUS
<1>5. /\ \A k \in 1 .. Len(sendq) : \E j \in 1 .. Len(q2) : q2[j] = sendq[k]
      /\ \E j \in 1 .. Len(q2) : q2[j] = m
  <2>1. m \in InSendQueue
    BY <1>3, <1>4 DEF InSendQueue
  <2>2. PICK s \in Seq(InSendQueue) : s = sendq
    BY <1>3
  <2>3. /\ \A k \in 1 .. Len(s) : \E j \in 1 .. Len(Append(s, m)) : Append(s, m)[j] = s[k]
        /\ \E j \in 1 .. Len(Append(s, m)) : Append(s, m)[j] = m
    BY ONLY s \in Seq(InSendQueue), <2>1, AppendHasAll
  <2> QED  BY <1>4, <2>2, <2>3
<1>6. ASSUME NEW i \in 1 .. numSent + 1
      PROVE  At(i, q2, inq, <<>>, timed, taken, failed \cup unread)
  <2>1. CASE i = numSent + 1
    <3>1. \E j \in 1 .. Len(q2) : q2[j].id = i
      BY <1>4, <1>5, <2>1
    <3> QED  BY <3>1 DEF At
  <2>2. CASE i \in 1 .. numSent
    <3>1. At(i, sendq, inq, <<>>, timed, taken, failed \cup unread)
      BY <1>3, <2>2 DEF NoneLost
    <3>2. ASSUME NEW k \in 1 .. Len(sendq), sendq[k].id = i PROVE \E j \in 1 .. Len(q2) : q2[j].id = i
      BY <3>2, <1>5
    <3> QED  BY <3>1, <3>2 DEF At
  <2> QED  BY <1>3, <2>1, <2>2
<1>7. NoneLost(q2, inq, <<>>, timed, taken, failed \cup unread, numSent + 1)
  BY <1>6 DEF NoneLost
<1>8. NoneLost(sendq, inq, <<>>, timed, taken, failed \cup unread, numSent)'
  BY <1>1, <1>4, <1>7
<1> QED  BY <1>1, <1>2, <1>3, <1>8 DEF LossInv

LEMMA LossSendFrame == ASSUME LossInv, Unserializable = {}, SendFrame PROVE LossInv'
<1> DEFINE S == {h \in Sending : /\ h.writer = <<>>
                                 /\ NoneLost(h.queue, h.wire, <<>>, timed, taken,
                                             failed \cup h.failed \cup unread, numSent)}
<1>1. /\ sendq' = <<>> /\ inq' = SendAll.wire /\ writer' = SendAll.writer
      /\ failed' = failed \cup SendAll.failed
      /\ UNCHANGED <<timed, numSent, taken, unread>>
  BY DEF SendFrame
<1>2. MsgInv'
  BY SendFrameInv DEF LossInv
<1>3. /\ sendq \in Seq(InSendQueue) /\ writer = <<>> /\ inq \in [MsgChannels -> Seq(OnWire)]
      /\ {sendTick, epoch} \subseteq Nat
      /\ NoneLost(sendq, inq, <<>>, timed, taken, failed \cup unread, numSent)
  BY DEF LossInv, MsgInv, MsgTypes
<1>4. Outgoing \in S
  <2>1. /\ Outgoing \in Sending /\ Outgoing.queue = sendq /\ Outgoing.writer = <<>>
        /\ Outgoing.wire = inq /\ Outgoing.failed = {}
    BY <1>3 DEF Outgoing, Sending
  <2>2. failed \cup Outgoing.failed \cup unread = failed \cup unread
    BY <2>1
  <2> QED  BY <1>3, <2>1, <2>2
<1>5. ASSUME NEW h \in S, h.queue # <<>> PROVE SendOne(h) \in S
  <2>1. PICK m, bytes, w :
           /\ m = Head(h.queue) /\ bytes = Append(h.writer, m.id)
           /\ w = [ids |-> bytes, ch |-> m.ch, tick |-> sendTick, epoch |-> epoch]
    OBVIOUS
  <2>2. /\ h \in Sending /\ h.queue \in Seq(InSendQueue) /\ h.writer = <<>>
        /\ h.wire \in [MsgChannels -> Seq(OnWire)]
        /\ NoneLost(h.queue, h.wire, <<>>, timed, taken, failed \cup h.failed \cup unread, numSent)
    BY DEF Sending
  <2>3. m \in InSendQueue /\ w \in OnWire /\ Turned(h, SendOne(h), m, bytes, w)
    BY <1>3, <1>5, <2>1, <2>2, SendOneIs
  <2>4. /\ SendOne(h) \in Sending
        /\ SendOne(h).queue = Tail(h.queue) /\ SendOne(h).writer = <<>> /\ SendOne(h).failed = h.failed
        /\ SendOne(h).wire = [h.wire EXCEPT ![m.ch] = Append(@, w)]
    BY <2>3 DEF Turned
  <2>5. Name(w) = Head(h.queue).id /\ m.ch \in MsgChannels
    <3>1. w.ids = <<m.id>>
      BY <2>1, <2>2
    <3> QED  BY <3>1, <2>1, <2>3 DEF Name, InSendQueue
  <2>6. ASSUME NEW q \in Seq(InSendQueue), q # <<>>, NEW in \in [MsgChannels -> Seq(OnWire)], NEW gone,
               NoneLost(q, in, <<>>, timed, taken, gone, numSent), Name(w) = Head(q).id
        PROVE  NoneLost(Tail(q), [in EXCEPT ![m.ch] = Append(@, w)], <<>>, timed, taken, gone, numSent)
    BY <2>3, <2>5, <2>6, SentIsFound
  <2>7. NoneLost(Tail(h.queue), [h.wire EXCEPT ![m.ch] = Append(@, w)], <<>>, timed, taken,
                 failed \cup h.failed \cup unread, numSent)
    BY <1>5, <2>2, <2>5, <2>6
  <2> QED  BY <2>4, <2>7
<1>6. SendAll \in S
  <2>1. S \subseteq Sending
    OBVIOUS
  <2> HIDE DEF S
  <2> QED  BY <1>3, <1>4, <1>5, <2>1, SendAllStays
<1>7. SendAll.queue = <<>>
  BY SentKept DEF LossInv
<1>8. NoneLost(<<>>, SendAll.wire, <<>>, timed, taken, failed \cup SendAll.failed \cup unread, numSent)
  BY <1>6, <1>7
<1>9. NoneLost(sendq, inq, <<>>, timed, taken, failed \cup unread, numSent)'
  BY <1>1, <1>8
<1>10. writer' = <<>>
  BY <1>1, <1>6
<1> QED  BY <1>2, <1>9, <1>10 DEF LossInv

\* What recv leaves: a message that is not in a channel any more failed, waits
\* or is ready.
LEMMA DrainedFound ==
    ASSUME LossInv, NEW first \in MsgChannels, NEW g, g = Drained(first)
    PROVE  NoneLost(sendq, g.left, g.ready, g.timed, taken, failed \cup g.failed \cup unread, numSent)
<1> DEFINE S == {x \in Reading : NoneLost(sendq, x.left, x.ready, x.timed, taken,
                                          failed \cup x.failed \cup unread, numSent)}
<1>1. Progress \in S
  <2>1. ready = <<>>
    BY DEF LossInv, MsgInv, MsgTypes
  <2>2. <<>> \in Seq(OnWire)
    BY EmptySeq
  <2>3. /\ Progress \in Reading /\ Progress.ready = <<>> /\ Progress.timed = timed
        /\ Progress.left = inq /\ Progress.failed = {}
    BY <2>1, <2>2 DEF Progress, Reading, LossInv, MsgInv, MsgTypes
  <2>4. failed \cup Progress.failed \cup unread = failed \cup unread
    BY <2>3
  <2> QED  BY <2>3, <2>4 DEF LossInv
<1>2. ASSUME NEW x \in S, NEW ch \in MsgChannels, x.left[ch] # <<>> PROVE ReceiveOne(x, ch) \in S
  <2>1. PICK m, v, r : /\ m = Head(x.left[ch]) /\ v = [key |-> Key(m, x.seq), msg |-> m]
                       /\ r = ReceiveOne(x, ch)
    OBVIOUS
  <2>2. /\ x \in Reading /\ x.ready \in Seq(OnWire) /\ x.left \in [MsgChannels -> Seq(OnWire)]
        /\ NoneLost(sendq, x.left, x.ready, x.timed, taken, failed \cup x.failed \cup unread, numSent)
    BY DEF Reading
  <2>3. /\ m \in OnWire /\ v \in Waiters /\ r \in Reading /\ r.left = Popped(x.left, ch)
        /\ \/ /\ r.ready = x.ready /\ r.timed = x.timed /\ r.seq = x.seq
              /\ r.failed = x.failed \cup {Name(m)}
           \/ /\ ch = "Timed" /\ r.ready = x.ready /\ r.failed = x.failed
              /\ r.timed = x.timed \cup {v} /\ r.seq = x.seq + 1
           \/ /\ ch # "Timed" /\ r.ready = Append(x.ready, m) /\ r.failed = x.failed
              /\ r.timed = x.timed /\ r.seq = x.seq
    BY <1>2, <2>1, <2>2, ReceiveOneIs
  <2>4. PICK rd, rd2, wt, wt2, gone, gone2, in :
           /\ rd = x.ready /\ rd2 = r.ready /\ wt = x.timed /\ wt2 = r.timed /\ in = x.left
           /\ gone = failed \cup x.failed \cup unread /\ gone2 = failed \cup r.failed \cup unread
    OBVIOUS
  <2>5. gone \subseteq gone2 /\ wt \subseteq wt2
    BY <2>3, <2>4
  <2>6. \A k \in 1 .. Len(rd) : \E j \in 1 .. Len(rd2) : rd2[j] = rd[k]
    <3>1. CASE rd2 = rd
      BY <3>1
    <3>2. CASE rd2 = Append(rd, m)
      <4>1. rd \in Seq(OnWire)
        BY <2>2, <2>4
      <4> QED  BY <4>1, <3>2, <2>3, AppendHasAll
    <3> QED  BY <3>1, <3>2, <2>3, <2>4
  <2>7. \/ Name(Head(in[ch])) \in gone2
        \/ \E w \in wt2 : w.msg = Head(in[ch])
        \/ \E j \in 1 .. Len(rd2) : rd2[j] = Head(in[ch])
    <3>0. m = Head(in[ch])
      BY <2>1, <2>4
    <3>1. CASE r.failed = x.failed \cup {Name(m)}
      BY <3>0, <3>1, <2>4
    <3>2. CASE r.timed = x.timed \cup {v}
      <4>1. v \in wt2 /\ v.msg = m
        BY <3>2, <2>1, <2>4
      <4> QED  BY <3>0, <4>1
    <3>3. CASE r.ready = Append(x.ready, m)
      <4>1. rd \in Seq(OnWire) /\ rd2 = Append(rd, m)
        BY <2>2, <2>4, <3>3
      <4>2. \E j \in 1 .. Len(rd2) : rd2[j] = m
        BY <4>1, <2>3, AppendHasAll
      <4> QED  BY <3>0, <4>2
    <3> QED  BY <2>3, <3>1, <3>2, <3>3
  <2>8. NoneLost(sendq, in, rd, wt, taken, gone, numSent) /\ in \in [MsgChannels -> Seq(OnWire)]
    BY <2>2, <2>4
  <2>9. NoneLost(sendq, Popped(in, ch), rd2, wt2, taken, gone2, numSent)
    BY <2>5, <2>6, <2>7, <2>8, ReadIsFound
  <2> QED  BY <2>1, <2>3, <2>4, <2>9
<1>3. Drained(first) \in S
  <2>1. S \subseteq Reading
    OBVIOUS
  <2> HIDE DEF S
  <2> QED  BY <1>1, <1>2, <2>1, DrainedStays
<1> QED  BY <1>3

LEMMA LossReceiveFrame ==
    ASSUME LossInv, NEW first \in MsgChannels, NEW reads \in BOOLEAN, ReceiveFrame(first, reads)
    PROVE  LossInv'
<1>1. PICK g, W2 : g = Drained(first) /\ W2 = g.timed \ DueNow(g.timed)
  OBVIOUS
<1> DEFINE Queue(due) == g.ready \o due
           More(due) == [k \in 1 .. Len(Queue(due)) |-> Given(Queue(due)[k])]
<1>2. PICK due \in Released(g.timed) :
         /\ inq' = g.left /\ timed' = W2 /\ failed' = failed \cup g.failed
         /\ taken' = IF reads THEN taken \o More(due) ELSE taken
         /\ unread' = IF reads THEN unread ELSE unread \cup MsgIds(Queue(due))
         /\ UNCHANGED <<sendq, writer, numSent>>
  BY <1>1 DEF ReceiveFrame
<1>3. MsgInv'
  BY ReceiveFrameInv DEF LossInv
<1>4. MsgInv /\ writer = <<>>
  BY DEF LossInv
<1>5. ReadInv(g)
  BY <1>1, <1>4, DrainedKept
<1>6. NoneLost(sendq, g.left, g.ready, g.timed, taken, failed \cup g.failed \cup unread, numSent)
  BY <1>1, DrainedFound
<1>7. PICK all, more : all = Queue(due) /\ more = More(due) /\ more = [k \in 1 .. Len(all) |-> Given(all[k])]
  OBVIOUS
<1>8. ListOf(all, g.ready, DueNow(g.timed), epoch)
  BY <1>5, <1>7, AllIs
<1>9. /\ all \in Seq(OnWire) /\ Len(all) \in Nat
      /\ \A k \in 1 .. Len(g.ready) : \E j \in 1 .. Len(all) : all[j] = g.ready[k]
      /\ \A w \in DueNow(g.timed) : \E j \in 1 .. Len(all) : all[j] = w.msg
  BY <1>8 DEF ListOf
<1>16. more \in Seq(Handed) /\ Len(more) = Len(all) /\ GivenOf(more, all)
  <2>1. MsgTypes
    BY <1>4 DEF MsgInv
  <2> QED  BY <2>1, <1>7, <1>8, MoreIs
<1>10. PICK tk2, gone2 : tk2 = taken' /\ gone2 = (failed \cup unread)'
  OBVIOUS
\* What is in the list is handed out, or nobody reads it.
<1>11. ASSUME NEW j \in 1 .. Len(all)
       PROVE  Name(all[j]) \in gone2 \/ \E k \in 1 .. Len(tk2) : tk2[k].id = Name(all[j])
  <2>1. CASE ~ reads
    <3>1. Name(all[j]) \in MsgIds(all)
      BY DEF MsgIds, Name
    <3> QED  BY <3>1, <2>1, <1>2, <1>7, <1>10
  <2>2. CASE reads
    <3>1. PICK T : T = taken
      OBVIOUS
    <3>2. T \in Seq(Handed)
      BY <3>1, <1>4 DEF MsgInv, MsgTypes
    <3>3. tk2 = T \o more
      BY <2>2, <3>1, <1>2, <1>7, <1>10
    <3>6. /\ Len(tk2) = Len(T) + Len(all) /\ Len(T) \in Nat
          /\ \A i \in 1 .. Len(T) + Len(all) : tk2[i] = IF i <= Len(T) THEN T[i] ELSE more[i - Len(T)]
      <4>1. /\ Len(T \o more) = Len(T) + Len(more)
            /\ \A i \in 1 .. Len(T) + Len(more) : (T \o more)[i] = IF i <= Len(T) THEN T[i] ELSE more[i - Len(T)]
        BY ONLY <3>2, <1>16, ConcatProperties
      <4>2. Len(T) \in Nat
        BY ONLY <3>2, LenProperties
      <4> QED  BY ONLY <4>1, <4>2, <3>3, <1>16
    <3>7. PICK i \in 1 .. Len(T) + Len(all) : i = Len(T) + j
      BY <1>9, <3>6
    <3>8. ~ (i <= Len(T)) /\ i - Len(T) = j
      BY <1>9, <3>6, <3>7
    <3>9. tk2[i] = more[j]
      BY <3>6, <3>8
    <3>10. tk2[i].id = Name(all[j])
      BY ONLY <3>9, <1>16 DEF GivenOf
    <3> QED  BY <3>6, <3>10
  <2> QED  BY <2>1, <2>2
<1>12. /\ failed \cup g.failed \cup unread \subseteq gone2
       /\ \A k \in 1 .. Len(taken) : \E i \in 1 .. Len(tk2) : tk2[i] = taken[k]
  <2>1. failed \cup g.failed \cup unread \subseteq gone2
    BY <1>2, <1>10
  <2>2. CASE ~ reads
    BY <2>1, <2>2, <1>2, <1>10
  <2>3. CASE reads
    <3>1. PICK T : T = taken
      OBVIOUS
    <3>2. T \in Seq(Handed)
      BY <3>1, <1>4 DEF MsgInv, MsgTypes
    <3>3. tk2 = T \o more
      BY <2>3, <3>1, <1>2, <1>7, <1>10
    <3>4. /\ Len(T \o more) = Len(T) + Len(more) /\ Len(T) \in Nat /\ Len(more) \in Nat
          /\ \A i \in 1 .. Len(T) + Len(more) : (T \o more)[i] = IF i <= Len(T) THEN T[i] ELSE more[i - Len(T)]
      BY ONLY <3>2, <1>16, ConcatProperties, LenProperties
    <3>5. ASSUME NEW k \in 1 .. Len(T) PROVE k \in 1 .. Len(tk2) /\ tk2[k] = T[k]
      BY <3>3, <3>4
    <3> QED  BY <2>1, <3>1, <3>5
  <2> QED  BY <2>2, <2>3
<1>13. ASSUME NEW i \in 1 .. numSent PROVE At(i, sendq, g.left, <<>>, W2, tk2, gone2)
  <2>1. At(i, sendq, g.left, g.ready, g.timed, taken, failed \cup g.failed \cup unread)
    BY <1>6 DEF NoneLost
  <2>2. ASSUME NEW j \in 1 .. Len(all), Name(all[j]) = i PROVE At(i, sendq, g.left, <<>>, W2, tk2, gone2)
    BY <2>2, <1>11 DEF At
  <2>3. ASSUME NEW k \in 1 .. Len(g.ready), Name(g.ready[k]) = i
        PROVE  At(i, sendq, g.left, <<>>, W2, tk2, gone2)
    BY <2>2, <2>3, <1>9
  <2>4. ASSUME NEW w \in g.timed, Name(w.msg) = i PROVE At(i, sendq, g.left, <<>>, W2, tk2, gone2)
    <3>1. CASE w \in W2
      BY <3>1, <2>4 DEF At
    <3>2. CASE w \notin W2
      <4>1. w \in DueNow(g.timed)
        BY <3>2, <1>1
      <4>2. PICK j \in 1 .. Len(all) : all[j] = w.msg
        BY <4>1, <1>9
      <4> QED  BY <4>2, <2>2, <2>4
    <3> QED  BY <3>1, <3>2
  <2>5. ASSUME NEW k \in 1 .. Len(taken), taken[k].id = i
        PROVE  At(i, sendq, g.left, <<>>, W2, tk2, gone2)
    <3>1. PICK j \in 1 .. Len(tk2) : tk2[j] = taken[k]
      BY <1>12
    <3> QED  BY <3>1, <2>5 DEF At
  <2> QED  BY <2>1, <2>3, <2>4, <2>5, <1>12 DEF At
<1>14. NoneLost(sendq, g.left, <<>>, W2, tk2, gone2, numSent)
  BY <1>13 DEF NoneLost
<1>15. NoneLost(sendq, inq, <<>>, timed, taken, failed \cup unread, numSent)'
  BY <1>2, <1>10, <1>14
<1> QED  BY <1>2, <1>3, <1>4, <1>15 DEF LossInv

LEMMA LossEndConnection == ASSUME LossInv, EndConnection PROVE LossInv'
<1>1. /\ failed' = failed \cup (1 .. numSent \ {sendq[k].id : k \in 1 .. Len(sendq)})
      /\ UNCHANGED <<sendq, writer, numSent, unread>>
  BY DEF EndConnection
<1>2. MsgInv' /\ writer = <<>>
  BY EndConnectionInv DEF LossInv
<1>3. PICK in2, wt2, tk2, gone2 :
         in2 = inq' /\ wt2 = timed' /\ tk2 = taken' /\ gone2 = (failed \cup unread)'
  OBVIOUS
<1>4. ASSUME NEW i \in 1 .. numSent PROVE At(i, sendq, in2, <<>>, wt2, tk2, gone2)
  <2>1. i \in gone2 \/ \E k \in 1 .. Len(sendq) : sendq[k].id = i
    BY <1>1, <1>3
  <2> QED  BY <2>1 DEF At
<1>5. NoneLost(sendq, in2, <<>>, wt2, tk2, gone2, numSent)
  BY <1>4 DEF NoneLost
<1>6. NoneLost(sendq, inq, <<>>, timed, taken, failed \cup unread, numSent)'
  BY <1>1, <1>3, <1>5
<1> QED  BY <1>1, <1>2, <1>6 DEF LossInv

LEMMA LossNextInv == ASSUME Unserializable = {}, LossInv, [MsgNext]_msgVars PROVE LossInv'
<1>1. ASSUME NEW ch \in MsgChannels, SendMessage(ch) PROVE LossInv'
  BY <1>1, LossSendMessage
<1>2. CASE SendFrame
  BY <1>2, LossSendFrame
<1>3. ASSUME NEW ch \in MsgChannels, NEW reads \in BOOLEAN, ReceiveFrame(ch, reads) PROVE LossInv'
  BY <1>3, LossReceiveFrame
<1>4. CASE EndConnection
  BY <1>4, LossEndConnection
<1>5. CASE UNCHANGED <<sendq, writer, inq, timed, numSent, taken, failed, unread>>
  <2>1. MsgInv'
    BY MsgNextInv DEF LossInv
  <2>2. writer = <<>> /\ NoneLost(sendq, inq, <<>>, timed, taken, failed \cup unread, numSent)
    BY DEF LossInv
  <2>3. NoneLost(sendq, inq, <<>>, timed, taken, failed \cup unread, numSent)'
    BY <1>5, <2>2
  <2> QED  BY <1>5, <2>1, <2>2, <2>3 DEF LossInv
<1>6. CASE SenderTick \/ TimelineTick
  BY <1>5, <1>6 DEF SenderTick, TimelineTick
<1>7. CASE UNCHANGED msgVars
  BY <1>5, <1>7 DEF msgVars
<1> QED  BY <1>1, <1>2, <1>3, <1>4, <1>6, <1>7 DEF MsgNext

\* As long as every message can be serialized, an error of recv costs the
\* message it is about and no other.
THEOREM OnlyTheFailingIsLostAlways ==
    ASSUME Unserializable = {}
    PROVE  MsgSpec => []OnlyTheFailingIsLost
<1>1. LossInv => OnlyTheFailingIsLost
  <2> SUFFICES ASSUME LossInv, NEW i \in 1 .. numSent
               PROVE  \/ i \in failed \cup unread
                      \/ \E k \in 1 .. Len(sendq) : sendq[k].id = i
                      \/ \E ch \in MsgChannels : i \in MsgIds(inq[ch])
                      \/ \E w \in timed : w.msg.ids[1] = i
                      \/ \E k \in 1 .. Len(taken) : taken[k].id = i
    BY DEF OnlyTheFailingIsLost
  <2>1. At(i, sendq, inq, <<>>, timed, taken, failed \cup unread)
    BY DEF LossInv, NoneLost
  <2>2. Len(<<>>) = 0
    OBVIOUS
  <2>3. ASSUME NEW ch \in MsgChannels, NEW k \in 1 .. Len(inq[ch]), Name(inq[ch][k]) = i
        PROVE  i \in MsgIds(inq[ch])
    BY <2>3 DEF MsgIds, Name
  <2>4. \A w \in timed : Name(w.msg) = w.msg.ids[1]
    BY DEF Name
  <2> QED  BY <2>1, <2>2, <2>3, <2>4 DEF At
<1>2. LossInv /\ [MsgNext]_msgVars => LossInv'
  BY LossNextInv
<1> QED  BY <1>1, <1>2, LossInitInv, PTL DEF MsgSpec

-----------------------------------------------------------------------------
(* Targets: lists.                                                         *)

LEMMA ContainsIs ==
    ASSUME NEW S, NEW s \in Seq(S), NEW x
    PROVE  Contains(s, x) = (x \in ToSet(s))
<1>1. DOMAIN s = 1 .. Len(s)
  BY LenProperties
<1>2. Contains(s, x) <=> x \in ToSet(s)
  BY <1>1 DEF Contains, ToSet
<1>3. Contains(s, x) \in BOOLEAN /\ (x \in ToSet(s)) \in BOOLEAN
  BY DEF Contains
<1> QED  BY <1>2, <1>3

LEMMA ToSetIs ==
    ASSUME NEW S, NEW s \in Seq(S)
    PROVE  /\ ToSet(s) \subseteq S
           /\ \A k \in 1 .. Len(s) : s[k] \in ToSet(s)
           /\ \A x \in ToSet(s) : \E k \in 1 .. Len(s) : s[k] = x
           /\ Len(s) = 1 => ToSet(s) = {s[1]}
           /\ s = <<>> => ToSet(s) = {}
<1>1. DOMAIN s = 1 .. Len(s) /\ Len(s) \in Nat /\ \A k \in 1 .. Len(s) : s[k] \in S
  BY LenProperties, ElementOfSeq
<1>2. ToSet(s) = {s[k] : k \in 1 .. Len(s)}
  BY <1>1 DEF ToSet
<1>3. Len(s) = 1 => ToSet(s) = {s[1]}
  BY <1>2
<1>4. s = <<>> => ToSet(s) = {}
  BY <1>2
<1> QED  BY <1>1, <1>2, <1>3, <1>4

LEMMA ToSetAppend ==
    ASSUME NEW S, NEW s \in Seq(S), NEW x \in S
    PROVE  Append(s, x) \in Seq(S) /\ ToSet(Append(s, x)) = ToSet(s) \cup {x}
<1> DEFINE n == Len(s)
           t == Append(s, x)
<1>1. n \in Nat /\ t \in Seq(S) /\ Len(t) = n + 1 /\ t[n + 1] = x /\ \A k \in 1 .. n : t[k] = s[k]
  BY AppendProperties, LenProperties
<1>2. DOMAIN s = 1 .. n /\ DOMAIN t = 1 .. n + 1
  BY <1>1, LenProperties
<1> HIDE DEF n, t
<1>3. ToSet(s) = {s[k] : k \in 1 .. n} /\ ToSet(t) = {t[k] : k \in 1 .. n + 1}
  BY <1>2 DEF ToSet
<1>4. \A k \in 1 .. n + 1 : k \in 1 .. n \/ k = n + 1
  BY <1>1
<1>5. 1 .. n \subseteq 1 .. n + 1 /\ n + 1 \in 1 .. n + 1
  BY <1>1
<1>6. {t[k] : k \in 1 .. n + 1} = {s[k] : k \in 1 .. n} \cup {x}
  BY <1>1, <1>4, <1>5, Zenon
<1> QED  BY <1>1, <1>3, <1>6 DEF t

LEMMA ToSetConcat ==
    ASSUME NEW S, NEW s \in Seq(S), NEW t \in Seq(S)
    PROVE  s \o t \in Seq(S) /\ ToSet(s \o t) = ToSet(s) \cup ToSet(t)
<1>1. PICK m, n : m = Len(s) /\ n = Len(t)
  OBVIOUS
<1>2. PICK u : u = s \o t
  OBVIOUS
<1>3. m \in Nat /\ n \in Nat /\ u \in Seq(S) /\ Len(u) = m + n
      /\ \A k \in 1 .. m + n : u[k] = IF k <= m THEN s[k] ELSE t[k - m]
  BY <1>1, <1>2, ConcatProperties, LenProperties
<1>4. \A x \in ToSet(u) : x \in ToSet(s) \cup ToSet(t)
  <2> TAKE x \in ToSet(u)
  <2>1. PICK k \in 1 .. m + n : u[k] = x
    BY <1>3, ToSetIs
  <2>2. CASE k <= m
    <3>1. k \in 1 .. m /\ s[k] = x
      BY <1>3, <2>1, <2>2
    <3> QED  BY <3>1, <1>1, ToSetIs
  <2>3. CASE ~ (k <= m)
    <3>1. k - m \in 1 .. n /\ t[k - m] = x
      BY <1>3, <2>1, <2>3
    <3>2. t[k - m] \in ToSet(t)
      BY <3>1, <1>1, ToSetIs
    <3> QED  BY <3>1, <3>2
  <2> QED  BY <2>2, <2>3
<1>5. \A x \in ToSet(s) : x \in ToSet(u)
  <2> TAKE x \in ToSet(s)
  <2>1. PICK k \in 1 .. m : s[k] = x
    BY <1>1, ToSetIs
  <2>2. k \in 1 .. m + n /\ u[k] = x
    BY <1>3, <2>1
  <2> QED  BY <1>3, <2>2, ToSetIs
<1>6. \A x \in ToSet(t) : x \in ToSet(u)
  <2> TAKE x \in ToSet(t)
  <2>1. PICK k \in 1 .. n : t[k] = x
    BY <1>1, ToSetIs
  <2>2. m + k \in 1 .. m + n /\ ~ (m + k <= m) /\ (m + k) - m = k
    BY <1>3, <2>1
  <2>3. u[m + k] = x
    BY <1>3, <2>1, <2>2
  <2> QED  BY <1>3, <2>2, <2>3, ToSetIs
<1> QED  BY <1>2, <1>3, <1>4, <1>5, <1>6

\* The elements of a list up to one of them, or none.
Seen(s, n) == {s[k] : k \in 1 .. n}

LEMMA SeenIs ==
    ASSUME NEW S, NEW s \in Seq(S)
    PROVE  /\ Seen(s, 0) = {} /\ Seen(s, Len(s)) = ToSet(s)
           /\ \A n \in 1 .. Len(s) : Seen(s, n) = Seen(s, n - 1) \cup {s[n]}
<1>1. DOMAIN s = 1 .. Len(s) /\ Len(s) \in Nat
  BY LenProperties
<1>2. ASSUME NEW n \in 1 .. Len(s) PROVE Seen(s, n) = Seen(s, n - 1) \cup {s[n]}
  <2>1. \A k \in 1 .. n : k \in 1 .. n - 1 \/ k = n
    BY <1>1
  <2>2. 1 .. n - 1 \subseteq 1 .. n /\ n \in 1 .. n
    BY <1>1
  <2> QED  BY <2>1, <2>2, Zenon DEF Seen
<1>3. 1 .. 0 = {}
  OBVIOUS
<1>4. Seen(s, 0) = {}
  BY <1>3, Zenon DEF Seen
<1>5. Seen(s, Len(s)) = ToSet(s)
  BY <1>1 DEF Seen, ToSet
<1> QED  BY <1>2, <1>4, <1>5

LEMMA AppendNewIs ==
    ASSUME NEW S, NEW list, list \in Seq(S), NEW extra, extra \in Seq(S)
    PROVE  AppendNew(list, extra) \in Seq(S) /\ ToSet(AppendNew(list, extra)) = ToSet(list) \cup ToSet(extra)
<1> DEFINE n == Len(extra)
           Turn(k, l) == IF Contains(l, extra[k]) THEN l ELSE Append(l, extra[k])
           After(f) == [k \in 0 .. n |-> IF k = 0 THEN list
                                         ELSE IF Contains(f[k - 1], extra[k]) THEN f[k - 1]
                                         ELSE Append(f[k - 1], extra[k])]
           step == [k \in 1 .. n |-> [l \in Seq(S) |-> Turn(k, l)]]
           run == CHOOSE f : f = After(f)
<1>1. n \in Nat /\ \A k \in 1 .. n : extra[k] \in S
  BY LenProperties, ElementOfSeq
<1>2. ASSUME NEW k \in 1 .. n, NEW l \in Seq(S)
      PROVE  Turn(k, l) \in Seq(S) /\ ToSet(Turn(k, l)) = ToSet(l) \cup {extra[k]}
  <2>1. Contains(l, extra[k]) = (extra[k] \in ToSet(l))
    BY ContainsIs
  <2>2. CASE Contains(l, extra[k])
    <3>1. extra[k] \in ToSet(l) /\ Turn(k, l) = l
      BY <2>1, <2>2, Zenon
    <3> QED  BY <3>1
  <2>3. CASE ~ Contains(l, extra[k])
    <3>1. Turn(k, l) = Append(l, extra[k])
      BY <2>3, Zenon
    <3> QED  BY <3>1, <1>1, ToSetAppend
  <2> QED  BY <2>2, <2>3
<1>3. step \in [1 .. n -> [Seq(S) -> Seq(S)]]
  BY <1>2
<1>4. PICK f \in [0 .. n -> Seq(S)] : f[0] = list /\ \A k \in 1 .. n : f[k] = step[k][f[k - 1]]
  <2>1. PICK e : e = list
    OBVIOUS
  <2>2. PICK T : T = Seq(S)
    OBVIOUS
  <2>3. PICK m : m = n
    OBVIOUS
  <2>4. PICK turn : turn = step
    OBVIOUS
  <2>5. m \in Nat /\ e \in T /\ turn \in [1 .. m -> [T -> T]]
    <3> HIDE DEF step, n
    <3> QED  BY <1>1, <1>3, <2>1, <2>2, <2>3, <2>4
  <2>6. \E f \in [0 .. m -> T] : f[0] = e /\ \A k \in 1 .. m : f[k] = turn[k][f[k - 1]]
    BY ONLY <2>5, RunExists
  <2> HIDE DEF step, n
  <2> QED  BY <2>1, <2>2, <2>3, <2>4, <2>6
<1>5. f = After(f)
  <2>1. ASSUME NEW k \in 1 .. n PROVE f[k] = Turn(k, f[k - 1])
    <3>1. k - 1 \in 0 .. n
      BY <1>1
    <3>2. f[k - 1] \in Seq(S)
      <4> HIDE DEF step, n, Turn
      <4> QED  BY <3>1
    <3>3. f[k] = step[k][f[k - 1]]
      <4> HIDE DEF step, n, Turn
      <4> QED  BY <1>4
    <3> HIDE DEF n, Turn
    <3> QED  BY <3>2, <3>3
  <2>2. \A k \in 0 .. n : k # 0 => k \in 1 .. n
    BY <1>1
  <2> HIDE DEF n, step
  <2> QED  BY ONLY <1>4, <2>1, <2>2
<1>6. run = After(run)
  <2> HIDE DEF After
  <2> QED  BY <1>5
<1>7. run[0] = list /\ \A k \in 1 .. n : run[k] = Turn(k, run[k - 1])
  <2>1. run[0] = list
    <3> HIDE DEF run, n
    <3> QED  BY <1>6, <1>1
  <2>2. ASSUME NEW k \in 1 .. n PROVE run[k] = Turn(k, run[k - 1])
    <3>1. k \in 0 .. n /\ k # 0
      BY <1>1
    <3> HIDE DEF run, n
    <3> QED  BY <1>6, <3>1
  <2> QED  BY <2>1, <2>2
<1> DEFINE P == [k \in 0 .. n |-> {l \in Seq(S) : ToSet(l) = ToSet(list) \cup Seen(extra, k)}]
<1>8. ASSUME NEW k \in 1 .. n, run[k - 1] \in P[k - 1] PROVE run[k] \in P[k]
  <2>1. k - 1 \in 0 .. n /\ k \in 0 .. n
    BY <1>1
  <2>2. PICK l : l = run[k - 1]
    OBVIOUS
  <2>3. l \in Seq(S) /\ ToSet(l) = ToSet(list) \cup Seen(extra, k - 1)
    <3> HIDE DEF run, n
    <3> QED  BY <1>8, <2>1, <2>2
  <2>4. run[k] = Turn(k, l)
    <3> HIDE DEF run, n, Turn
    <3> QED  BY <1>7, <2>2
  <2>5. Seen(extra, k) = Seen(extra, k - 1) \cup {extra[k]}
    BY SeenIs
  <2>6. Turn(k, l) \in Seq(S) /\ ToSet(Turn(k, l)) = ToSet(list) \cup Seen(extra, k)
    <3> HIDE DEF Turn
    <3> QED  BY <2>3, <2>5, <1>2
  <2> HIDE DEF run, n, Turn
  <2> QED  BY <2>1, <2>4, <2>6
<1>9. run[0] \in P[0]
  <2>1. Seen(extra, 0) = {}
    BY SeenIs
  <2> HIDE DEF run, n
  <2> QED  BY <1>7, <1>1, <2>1
<1>10. run[n] \in P[n]
  <2> HIDE DEF run, P, n
  <2> QED  BY ONLY <1>1, <1>8, <1>9, RunPasses
<1>11. run[n] \in Seq(S) /\ ToSet(run[n]) = ToSet(list) \cup ToSet(extra)
  <2>1. Seen(extra, n) = ToSet(extra)
    BY SeenIs
  <2> HIDE DEF run, n
  <2> QED  BY <1>10, <1>1, <2>1
<1>12. AppendNew(list, extra) = run[n]
  BY DEF AppendNew
<1> HIDE DEF run, n
<1> QED  BY <1>11, <1>12

LEMMA SelectIs ==
    ASSUME NEW S, NEW list, list \in Seq(S), NEW other, other \in Seq(S), NEW want, want \in BOOLEAN
    PROVE  /\ Select(list, other, want) \in Seq(S)
           /\ ToSet(Select(list, other, want)) = {x \in ToSet(list) : (x \in ToSet(other)) = want}
<1> DEFINE n == Len(list)
           Turn(k, l) == IF Contains(other, list[k]) = want THEN Append(l, list[k]) ELSE l
           After(f) == [k \in 0 .. n |-> IF k = 0 THEN <<>>
                                         ELSE IF Contains(other, list[k]) = want
                                              THEN Append(f[k - 1], list[k])
                                         ELSE f[k - 1]]
           step == [k \in 1 .. n |-> [l \in Seq(S) |-> Turn(k, l)]]
           run == CHOOSE f : f = After(f)
           Chosen(T) == {x \in T : (x \in ToSet(other)) = want}
<1>1. n \in Nat /\ <<>> \in Seq(S) /\ \A k \in 1 .. n : list[k] \in S
  BY LenProperties, ElementOfSeq
<1>2. ASSUME NEW k \in 1 .. n, NEW l \in Seq(S)
      PROVE  Turn(k, l) \in Seq(S) /\ ToSet(Turn(k, l)) = ToSet(l) \cup Chosen({list[k]})
  <2>1. Contains(other, list[k]) = (list[k] \in ToSet(other))
    BY ContainsIs
  <2>2. CASE Contains(other, list[k]) = want
    <3>1. Turn(k, l) = Append(l, list[k]) /\ Chosen({list[k]}) = {list[k]}
      BY <2>1, <2>2, Zenon
    <3> QED  BY <3>1, <1>1, ToSetAppend
  <2>3. CASE Contains(other, list[k]) # want
    <3>1. Turn(k, l) = l /\ Chosen({list[k]}) = {}
      <4>1. (list[k] \in ToSet(other)) # want
        BY <2>1, <2>3, Zenon
      <4>2. Chosen({list[k]}) = {}
        BY <4>1, Zenon
      <4>3. Turn(k, l) = l
        BY <2>3, Zenon
      <4> QED  BY <4>2, <4>3
    <3> QED  BY <3>1
  <2> QED  BY <2>2, <2>3
<1>3. step \in [1 .. n -> [Seq(S) -> Seq(S)]]
  BY <1>2
<1>4. PICK f \in [0 .. n -> Seq(S)] : f[0] = <<>> /\ \A k \in 1 .. n : f[k] = step[k][f[k - 1]]
  <2>1. PICK e : e = <<>>
    OBVIOUS
  <2>2. PICK T : T = Seq(S)
    OBVIOUS
  <2>3. PICK m : m = n
    OBVIOUS
  <2>4. PICK turn : turn = step
    OBVIOUS
  <2>5. m \in Nat /\ e \in T /\ turn \in [1 .. m -> [T -> T]]
    <3> HIDE DEF step, n
    <3> QED  BY <1>1, <1>3, <2>1, <2>2, <2>3, <2>4
  <2>6. \E f \in [0 .. m -> T] : f[0] = e /\ \A k \in 1 .. m : f[k] = turn[k][f[k - 1]]
    BY ONLY <2>5, RunExists
  <2> HIDE DEF step, n
  <2> QED  BY <2>1, <2>2, <2>3, <2>4, <2>6
<1>5. f = After(f)
  <2>1. ASSUME NEW k \in 1 .. n PROVE f[k] = Turn(k, f[k - 1])
    <3>1. k - 1 \in 0 .. n
      BY <1>1
    <3>2. f[k - 1] \in Seq(S)
      <4> HIDE DEF step, n, Turn
      <4> QED  BY <3>1
    <3>3. f[k] = step[k][f[k - 1]]
      <4> HIDE DEF step, n, Turn
      <4> QED  BY <1>4
    <3> HIDE DEF n, Turn
    <3> QED  BY <3>2, <3>3
  <2>2. \A k \in 0 .. n : k # 0 => k \in 1 .. n
    BY <1>1
  <2> HIDE DEF n, step
  <2> QED  BY ONLY <1>4, <2>1, <2>2
<1>6. run = After(run)
  <2> HIDE DEF After
  <2> QED  BY <1>5
<1>7. run[0] = <<>> /\ \A k \in 1 .. n : run[k] = Turn(k, run[k - 1])
  <2>1. run[0] = <<>>
    <3> HIDE DEF run, n
    <3> QED  BY <1>6, <1>1
  <2>2. ASSUME NEW k \in 1 .. n PROVE run[k] = Turn(k, run[k - 1])
    <3>1. k \in 0 .. n /\ k # 0
      BY <1>1
    <3> HIDE DEF run, n
    <3> QED  BY <1>6, <3>1
  <2> QED  BY <2>1, <2>2
<1> DEFINE P == [k \in 0 .. n |-> {l \in Seq(S) : ToSet(l) = Chosen(Seen(list, k))}]
<1>8. ASSUME NEW k \in 1 .. n, run[k - 1] \in P[k - 1] PROVE run[k] \in P[k]
  <2>1. k - 1 \in 0 .. n /\ k \in 0 .. n
    BY <1>1
  <2>2. PICK l : l = run[k - 1]
    OBVIOUS
  <2>3. l \in Seq(S) /\ ToSet(l) = Chosen(Seen(list, k - 1))
    <3> HIDE DEF run, n, Chosen
    <3> QED  BY <1>8, <2>1, <2>2
  <2>4. run[k] = Turn(k, l)
    <3> HIDE DEF run, n, Turn
    <3> QED  BY <1>7, <2>2
  <2>5. Seen(list, k) = Seen(list, k - 1) \cup {list[k]}
    BY SeenIs
  <2>6. Chosen(Seen(list, k)) = Chosen(Seen(list, k - 1)) \cup Chosen({list[k]})
    BY <2>5
  <2>7. Turn(k, l) \in Seq(S) /\ ToSet(Turn(k, l)) = Chosen(Seen(list, k))
    <3> HIDE DEF Turn, Chosen
    <3> QED  BY <2>3, <2>6, <1>2
  <2> HIDE DEF run, n, Turn, Chosen
  <2> QED  BY <2>1, <2>4, <2>7
<1>9. run[0] \in P[0]
  <2>1. Seen(list, 0) = {}
    BY SeenIs
  <2>2. ToSet(<<>>) = {}
    BY <1>1, ToSetIs
  <2> HIDE DEF run, n
  <2> QED  BY <1>7, <1>1, <2>1, <2>2
<1>10. run[n] \in P[n]
  <2> HIDE DEF run, P, n
  <2> QED  BY ONLY <1>1, <1>8, <1>9, RunPasses
<1>11. run[n] \in Seq(S) /\ ToSet(run[n]) = Chosen(ToSet(list))
  <2>1. Seen(list, n) = ToSet(list)
    BY SeenIs
  <2> HIDE DEF run, n, Chosen
  <2> QED  BY <1>10, <1>1, <2>1
<1>12. Select(list, other, want) = run[n]
  BY DEF Select
<1> HIDE DEF run, n
<1> QED  BY <1>11, <1>12

\* What is kept of a list: what the other one holds, or what it does not.
KeptOf(s, other, want) == IF want THEN s \cap other ELSE s \ other

LEMMA KeepIs ==
    ASSUME NEW S, NEW list \in Seq(S), NEW other \in Seq(S), NEW b \in BOOLEAN
    PROVE  /\ Select(list, other, b) \in Seq(S)
           /\ ToSet(Select(list, other, b)) = KeptOf(ToSet(list), ToSet(other), b)
<1>1. /\ Select(list, other, b) \in Seq(S)
      /\ ToSet(Select(list, other, b)) = {x \in ToSet(list) : (x \in ToSet(other)) = b}
  BY ONLY list \in Seq(S), other \in Seq(S), b \in BOOLEAN, SelectIs
<1>2. {x \in ToSet(list) : (x \in ToSet(other)) = b} = KeptOf(ToSet(list), ToSet(other), b)
  BY DEF KeptOf
<1> QED  BY <1>1, <1>2

LEMMA DeduplicateIs ==
    ASSUME NEW S, NEW list \in Seq(S)
    PROVE  Deduplicate(list) \in Seq(S) /\ ToSet(Deduplicate(list)) = ToSet(list)
<1>1. PICK e : e = <<>>
  OBVIOUS
<1>a. e \in Seq(S)
  BY <1>1
<1>2. ToSet(e) = {}
  BY <1>1, <1>a, ToSetIs
<1>3. AppendNew(e, list) \in Seq(S) /\ ToSet(AppendNew(e, list)) = ToSet(e) \cup ToSet(list)
  BY ONLY <1>a, list \in Seq(S), AppendNewIs
<1> QED  BY <1>1, <1>2, <1>3 DEF Deduplicate

LEMMA AppendUniqueIs ==
    ASSUME NEW S, NEW list \in Seq(S), NEW extra \in Seq(S)
    PROVE  /\ AppendUnique(list, extra) \in Seq(S)
           /\ ToSet(AppendUnique(list, extra)) = ToSet(list) \cup ToSet(extra)
<1>1. PICK d : d = Deduplicate(list)
  OBVIOUS
<1>2. d \in Seq(S) /\ ToSet(d) = ToSet(list)
  BY <1>1, DeduplicateIs
<1>3. AppendNew(d, extra) \in Seq(S) /\ ToSet(AppendNew(d, extra)) = ToSet(d) \cup ToSet(extra)
  BY <1>2, AppendNewIs
<1>4. AppendNew(list, extra) \in Seq(S) /\ ToSet(AppendNew(list, extra)) = ToSet(list) \cup ToSet(extra)
  BY AppendNewIs
<1> QED  BY <1>1, <1>2, <1>3, <1>4 DEF AppendUnique

LEMMA RetainMembershipIs ==
    ASSUME NEW S, NEW list \in Seq(S), NEW other \in Seq(S), NEW b \in BOOLEAN
    PROVE  /\ RetainMembership(list, other, b) \in Seq(S)
           /\ ToSet(RetainMembership(list, other, b)) = KeptOf(ToSet(list), ToSet(other), b)
<1>1. PICK kept : kept = Select(list, other, b)
  OBVIOUS
<1>2. kept \in Seq(S) /\ ToSet(kept) = KeptOf(ToSet(list), ToSet(other), b)
  BY <1>1, KeepIs
<1>3. Deduplicate(kept) \in Seq(S) /\ ToSet(Deduplicate(kept)) = ToSet(kept)
  BY <1>2, DeduplicateIs
<1> QED  BY <1>1, <1>2, <1>3 DEF RetainMembership

-----------------------------------------------------------------------------
(* Targets: what each form stands for.                                     *)

Forms == {"All", "None"} \cup Including \cup Excluding

WellFormed(t) ==
    \E form \in Forms, ids \in Seq(PeerIds) :
        t = Tgt(form, ids) /\ (form \in {"Single", "AllExceptSingle"} => Len(ids) = 1)

\* The peers that a target stands for.
Stands(t, m) == WellFormed(t) /\ MembersOf(t) = m

LEMMA FormsStand ==
    ASSUME NEW ids \in Seq(PeerIds)
    PROVE  /\ Stands(Tgt("All", ids), PeerIds) /\ Stands(Tgt("None", ids), {})
           /\ Stands(Tgt("Only", ids), ToSet(ids))
           /\ Stands(Tgt("AllExcept", ids), PeerIds \ ToSet(ids))
           /\ Len(ids) = 1 => /\ Stands(Tgt("Single", ids), ToSet(ids))
                              /\ Stands(Tgt("AllExceptSingle", ids), PeerIds \ ToSet(ids))
<1>1. ToSet(ids) \subseteq PeerIds
  BY ToSetIs
<1>2. \A p : Contains(ids, p) <=> p \in ToSet(ids)
  <2> TAKE p
  <2>1. Contains(ids, p) = (p \in ToSet(ids))
    BY ContainsIs
  <2> QED  BY <2>1, Zenon
<1>3. ASSUME NEW form
      PROVE  MembersOf(Tgt(form, ids)) =
                {p \in PeerIds : \/ form = "All"
                                 \/ form \in Including /\ p \in ToSet(ids)
                                 \/ form \in Excluding /\ p \notin ToSet(ids)}
  <2>1. Tgt(form, ids).form = form /\ Tgt(form, ids).ids = ids
    BY DEF Tgt
  <2> QED  BY <2>1, <1>2, Zenon DEF MembersOf, Targets
<1>4. ASSUME NEW form \in Forms, form \in {"Single", "AllExceptSingle"} => Len(ids) = 1
      PROVE  WellFormed(Tgt(form, ids))
  BY <1>4 DEF WellFormed
<1>5. /\ MembersOf(Tgt("All", ids)) = PeerIds /\ MembersOf(Tgt("None", ids)) = {}
      /\ \A form \in Including : MembersOf(Tgt(form, ids)) = ToSet(ids)
      /\ \A form \in Excluding : MembersOf(Tgt(form, ids)) = PeerIds \ ToSet(ids)
  <2>1. MembersOf(Tgt("All", ids)) = PeerIds /\ MembersOf(Tgt("None", ids)) = {}
    <3>1. "None" # "All" /\ "None" \notin Including /\ "None" \notin Excluding
      BY DEF Including, Excluding
    <3> QED  BY <3>1, <1>3, Zenon
  <2>2. ASSUME NEW form \in Including PROVE MembersOf(Tgt(form, ids)) = ToSet(ids)
    <3>1. form # "All" /\ form \notin Excluding
      BY DEF Including, Excluding
    <3> QED  BY <3>1, <1>1, <1>3
  <2>3. ASSUME NEW form \in Excluding PROVE MembersOf(Tgt(form, ids)) = PeerIds \ ToSet(ids)
    <3>1. form # "All" /\ form \notin Including
      BY DEF Including, Excluding
    <3> QED  BY <3>1, <1>1, <1>3
  <2> QED  BY <2>1, <2>2, <2>3
<1> QED  BY <1>4, <1>5 DEF Stands, Forms, Including, Excluding

LEMMA WhatStands ==
    ASSUME NEW t, NEW m, Stands(t, m)
    PROVE  /\ t.ids \in Seq(PeerIds) /\ ToSet(t.ids) \subseteq PeerIds /\ t = Tgt(t.form, t.ids)
           /\ t.form \in Forms
           /\ t.form = "All" => m = PeerIds
           /\ t.form = "None" => m = {}
           /\ t.form \in Including => m = ToSet(t.ids)
           /\ t.form \in Excluding => m = PeerIds \ ToSet(t.ids)
           /\ t.form \in {"Single", "AllExceptSingle"} =>
                 Len(t.ids) = 1 /\ t.ids[1] \in PeerIds /\ ToSet(t.ids) = {t.ids[1]}
<1>1. PICK form \in Forms, ids \in Seq(PeerIds) :
         t = Tgt(form, ids) /\ (form \in {"Single", "AllExceptSingle"} => Len(ids) = 1)
  BY DEF Stands, WellFormed
<1>2. t.form = form /\ t.ids = ids /\ MembersOf(t) = m
  BY <1>1 DEF Tgt, Stands
<1>3. ToSet(ids) \subseteq PeerIds /\ (Len(ids) = 1 => ToSet(ids) = {ids[1]})
  BY ToSetIs
<1>4. Len(ids) = 1 => ids[1] \in PeerIds
  BY <1>3
<1>5. /\ form = "All" => m = PeerIds
      /\ form = "None" => m = {}
      /\ form \in Including => m = ToSet(ids)
      /\ form \in Excluding => m = PeerIds \ ToSet(ids)
  BY <1>1, <1>2, FormsStand DEF Stands, Including, Excluding
<1> QED  BY <1>1, <1>2, <1>3, <1>4, <1>5

\* A target names a peer when it stands for it.
LEMMA TargetsIs ==
    ASSUME NEW t, NEW m, Stands(t, m), NEW p \in PeerIds
    PROVE  Targets(t, p) <=> p \in m
BY DEF Stands, MembersOf

LEMMA CompactStands ==
    ASSUME NEW ids \in Seq(PeerIds)
    PROVE  /\ Stands(Compact(Tgt("Only", ids)), ToSet(ids))
           /\ Stands(Compact(Tgt("AllExcept", ids)), PeerIds \ ToSet(ids))
<1>1. ids = <<>> => ToSet(ids) = {} /\ Len(ids) # 1
  BY ToSetIs
<1>2. <<>> \in Seq(PeerIds)
  OBVIOUS
<1>3. PICK e : e = <<>> /\ e \in Seq(PeerIds)
  BY <1>2
<1>4. Stands(Tgt("All", e), PeerIds) /\ Stands(Tgt("None", e), {})
  BY <1>3, FormsStand
<1>5. Compact(Tgt("Only", ids)) = IF ids = <<>> THEN Tgt("None", e)
                                  ELSE IF Len(ids) = 1 THEN Tgt("Single", ids) ELSE Tgt("Only", ids)
  BY <1>1, <1>3 DEF Compact, Tgt, Nobody
<1>6. Compact(Tgt("AllExcept", ids)) = IF ids = <<>> THEN Tgt("All", e)
                                       ELSE IF Len(ids) = 1 THEN Tgt("AllExceptSingle", ids)
                                       ELSE Tgt("AllExcept", ids)
  BY <1>1, <1>3 DEF Compact, Tgt, All
<1>7. ids = <<>> => PeerIds \ ToSet(ids) = PeerIds
  BY <1>1
<1> QED  BY <1>1, <1>4, <1>5, <1>6, <1>7, FormsStand

LEMMA UniqueStands ==
    ASSUME NEW ids \in Seq(PeerIds)
    PROVE  /\ Stands(OnlyUnique(ids), ToSet(ids))
           /\ Stands(AllExceptUnique(ids), PeerIds \ ToSet(ids))
<1>1. PICK d : d = Deduplicate(ids)
  OBVIOUS
<1>2. d \in Seq(PeerIds) /\ ToSet(d) = ToSet(ids)
  BY <1>1, DeduplicateIs
<1>3. Stands(Compact(Tgt("Only", d)), ToSet(d)) /\ Stands(Compact(Tgt("AllExcept", d)), PeerIds \ ToSet(d))
  BY <1>2, CompactStands
<1> QED  BY <1>1, <1>2, <1>3 DEF OnlyUnique, AllExceptUnique
LEMMA NobodyStands == Stands(Nobody, {}) /\ Stands(All, PeerIds)
<1>1. PICK e : e = <<>>
  OBVIOUS
<1>2. e \in Seq(PeerIds)
  BY <1>1
<1>3. Stands(Tgt("All", e), PeerIds) /\ Stands(Tgt("None", e), {})
  BY <1>2, FormsStand
<1> QED  BY <1>1, <1>3 DEF Nobody, All

\* What the lists of two targets make.
LEMMA ListsStand ==
    ASSUME NEW a \in Seq(PeerIds), NEW b \in Seq(PeerIds)
    PROVE  /\ Stands(OnlyUnique(Select(b, a, FALSE)), ToSet(b) \ ToSet(a))
           /\ Stands(AllExceptUnique(Select(b, a, FALSE)), PeerIds \ (ToSet(b) \ ToSet(a)))
           /\ Stands(OnlyUnique(a \o b), ToSet(a) \cup ToSet(b))
           /\ Stands(AllExceptUnique(a \o b), PeerIds \ (ToSet(a) \cup ToSet(b)))
           /\ Stands(Compact(Tgt("Only", AppendUnique(a, b))), ToSet(a) \cup ToSet(b))
           /\ Stands(Compact(Tgt("AllExcept", AppendUnique(a, b))), PeerIds \ (ToSet(a) \cup ToSet(b)))
           /\ \A c \in BOOLEAN :
                 /\ Stands(Compact(Tgt("Only", RetainMembership(a, b, c))), KeptOf(ToSet(a), ToSet(b), c))
                 /\ Stands(Compact(Tgt("AllExcept", RetainMembership(a, b, c))),
                           PeerIds \ KeptOf(ToSet(a), ToSet(b), c))
<1>1. PICK l, no : l = Select(b, a, no) /\ no = FALSE
  OBVIOUS
<1>2. l \in Seq(PeerIds) /\ ToSet(l) = ToSet(b) \ ToSet(a)
  <2>1. no \in BOOLEAN
    BY <1>1
  <2>2. Select(b, a, no) \in Seq(PeerIds) /\ ToSet(Select(b, a, no)) = KeptOf(ToSet(b), ToSet(a), no)
    BY ONLY a \in Seq(PeerIds), b \in Seq(PeerIds), <2>1, KeepIs
  <2>3. KeptOf(ToSet(b), ToSet(a), no) = ToSet(b) \ ToSet(a)
    BY <1>1 DEF KeptOf
  <2> QED  BY ONLY <1>1, <2>2, <2>3
<1>3. Stands(OnlyUnique(l), ToSet(l)) /\ Stands(AllExceptUnique(l), PeerIds \ ToSet(l))
  BY <1>2, UniqueStands
<1>4. PICK j : j = a \o b
  OBVIOUS
<1>5. j \in Seq(PeerIds) /\ ToSet(j) = ToSet(a) \cup ToSet(b)
  BY <1>4, ToSetConcat
<1>6. Stands(OnlyUnique(j), ToSet(j)) /\ Stands(AllExceptUnique(j), PeerIds \ ToSet(j))
  BY <1>5, UniqueStands
<1>7. PICK g : g = AppendUnique(a, b)
  OBVIOUS
<1>8. g \in Seq(PeerIds) /\ ToSet(g) = ToSet(a) \cup ToSet(b)
  BY <1>7, AppendUniqueIs
<1>9. Stands(Compact(Tgt("Only", g)), ToSet(g)) /\ Stands(Compact(Tgt("AllExcept", g)), PeerIds \ ToSet(g))
  BY <1>8, CompactStands
<1>10. ASSUME NEW c \in BOOLEAN
       PROVE  /\ Stands(Compact(Tgt("Only", RetainMembership(a, b, c))), KeptOf(ToSet(a), ToSet(b), c))
              /\ Stands(Compact(Tgt("AllExcept", RetainMembership(a, b, c))),
                        PeerIds \ KeptOf(ToSet(a), ToSet(b), c))
  <2>1. PICK r : r = RetainMembership(a, b, c)
    OBVIOUS
  <2>2. r \in Seq(PeerIds) /\ ToSet(r) = KeptOf(ToSet(a), ToSet(b), c)
    BY <2>1, RetainMembershipIs
  <2>3. Stands(Compact(Tgt("Only", r)), ToSet(r)) /\ Stands(Compact(Tgt("AllExcept", r)), PeerIds \ ToSet(r))
    BY <2>2, CompactStands
  <2> QED  BY ONLY <2>1, <2>2, <2>3
<1> QED  BY ONLY <1>1, <1>2, <1>3, <1>4, <1>5, <1>6, <1>7, <1>8, <1>9, <1>10, Zenon

LEMMA IntersectionStands ==
    ASSUME NEW t, NEW m, Stands(t, m), NEW u, NEW k, Stands(u, k)
    PROVE  Stands(Intersection(t, u), m \cap k)
<1>1. PICK a, b : a = t.ids /\ b = u.ids
  OBVIOUS
<1>2. /\ a \in Seq(PeerIds) /\ ToSet(a) \subseteq PeerIds /\ t.form \in Forms
      /\ t.form = "All" => m = PeerIds
      /\ t.form = "None" => m = {}
      /\ t.form \in Including => m = ToSet(a)
      /\ t.form \in Excluding => m = PeerIds \ ToSet(a)
      /\ t.form \in {"Single", "AllExceptSingle"} => a[1] \in PeerIds /\ ToSet(a) = {a[1]}
  BY <1>1, WhatStands
<1>3. /\ b \in Seq(PeerIds) /\ ToSet(b) \subseteq PeerIds /\ u.form \in Forms
      /\ u.form = "All" => k = PeerIds
      /\ u.form = "None" => k = {}
      /\ u.form \in Including => k = ToSet(b)
      /\ u.form \in Excluding => k = PeerIds \ ToSet(b)
      /\ u.form \in {"Single", "AllExceptSingle"} => b[1] \in PeerIds /\ ToSet(b) = {b[1]}
  BY <1>1, WhatStands
<1>4. m \subseteq PeerIds /\ k \subseteq PeerIds
  BY DEF Stands, MembersOf
<1>5. CASE t.form = "None" \/ u.form = "All"
  <2>1. Intersection(t, u) = t
    BY <1>5, <1>1 DEF Intersection, Including, Excluding
  <2>2. m \cap k = m
    BY <1>5, <1>2, <1>3, <1>4 DEF Including, Excluding
  <2> QED  BY <2>1, <2>2, <1>2
<1>6. CASE t.form # "None" /\ u.form = "None"
  <2>1. Intersection(t, u) = Nobody
    BY <1>6, <1>1 DEF Intersection, Including, Excluding
  <2>2. m \cap k = {}
    BY <1>6, <1>2, <1>3, <1>4 DEF Including, Excluding
  <2> QED  BY <2>1, <2>2, NobodyStands
<1>7. CASE t.form = "All" /\ u.form \notin {"All", "None"}
  <2>1. Intersection(t, u) = u
    BY <1>7, <1>1 DEF Intersection, Including, Excluding
  <2>2. m \cap k = k
    BY <1>7, <1>2, <1>3, <1>4 DEF Including, Excluding
  <2> QED  BY <2>1, <2>2, <1>3
<1>8. CASE t.form \in Excluding /\ u.form \in Including
  <2>1. Intersection(t, u) = OnlyUnique(Select(b, a, FALSE))
    BY <1>8, <1>1 DEF Intersection, Including, Excluding
  <2>2. m \cap k = ToSet(b) \ ToSet(a)
    BY <1>8, <1>2, <1>3, <1>4 DEF Including, Excluding
  <2> QED  BY <2>1, <2>2, <1>2, <1>3, ListsStand
<1>9. CASE t.form = "AllExceptSingle" /\ u.form \in Excluding
  <2>1. Intersection(t, u) = AllExceptUnique(a \o b)
    BY <1>9, <1>1 DEF Intersection, Including, Excluding
  <2>2. m \cap k = PeerIds \ (ToSet(a) \cup ToSet(b))
    BY <1>9, <1>2, <1>3, <1>4 DEF Including, Excluding
  <2> QED  BY <2>1, <2>2, <1>2, <1>3, ListsStand
<1>10. CASE t.form = "AllExcept" /\ u.form \in Excluding
  <2>1. Intersection(t, u) = Compact(Tgt("AllExcept", AppendUnique(a, b)))
    BY <1>10, <1>1 DEF Intersection, Including, Excluding
  <2>2. m \cap k = PeerIds \ (ToSet(a) \cup ToSet(b))
    BY <1>10, <1>2, <1>3, <1>4 DEF Including, Excluding
  <2> QED  BY <2>1, <2>2, <1>2, <1>3, ListsStand
<1>11. CASE t.form = "Only" /\ u.form \notin {"All", "None"}
  <2>1. PICK c \in BOOLEAN : c = (u.form \in Including)
    BY (u.form \in Including) \in BOOLEAN, Zenon
  <2>2. Intersection(t, u) = Compact(Tgt("Only", RetainMembership(a, b, c)))
    <3>1. Intersection(t, u) = Compact(Tgt("Only", RetainMembership(a, b, u.form \in Including)))
      BY <1>11, <1>1 DEF Intersection, Including, Excluding
    <3> QED  BY <3>1, <2>1, Zenon
  <2>3. c <=> u.form \in Including
    BY <2>1, Zenon
  <2>4. m \cap k = KeptOf(ToSet(a), ToSet(b), c)
    BY <1>11, <1>2, <1>3, <1>4, <2>1, <2>3 DEF Including, Excluding, Forms, KeptOf
  <2>5. Stands(Compact(Tgt("Only", RetainMembership(a, b, c))), KeptOf(ToSet(a), ToSet(b), c))
    BY <1>2, <1>3, ListsStand
  <2> QED  BY ONLY <2>2, <2>4, <2>5, Zenon
<1>12. CASE t.form = "Single" /\ u.form \notin {"All", "None"}
  <2>1. a[1] \in PeerIds /\ ToSet(a) = {a[1]}
    BY <1>12, <1>2
  <2>2. PICK p : p = a[1]
    OBVIOUS
  <2>3. Targets(u, p) <=> p \in k
    BY <2>1, <2>2, TargetsIs
  <2>4. Intersection(t, u) = IF Targets(u, p) THEN t ELSE Nobody
    BY <1>12, <1>1, <2>2 DEF Intersection, Including, Excluding
  <2>5. CASE p \in k
    <3>1. m \cap k = m
      BY <1>12, <2>1, <2>2, <2>5, <1>2, <1>4 DEF Including, Excluding
    <3> QED  BY <2>3, <2>4, <2>5, <3>1, <1>2
  <2>6. CASE p \notin k
    <3>1. m \cap k = {}
      BY <1>12, <2>1, <2>2, <2>6, <1>2, <1>4 DEF Including, Excluding
    <3> QED  BY <2>3, <2>4, <2>6, <3>1, NobodyStands
  <2> QED  BY <2>5, <2>6
<1> QED  BY <1>2, <1>3, <1>5, <1>6, <1>7, <1>8, <1>9, <1>10, <1>11, <1>12 DEF Forms, Including, Excluding

LEMMA UnionStands ==
    ASSUME NEW t, NEW m, Stands(t, m), NEW u, NEW k, Stands(u, k)
    PROVE  Stands(Union(t, u), m \cup k)
<1>1. PICK a, b : a = t.ids /\ b = u.ids
  OBVIOUS
<1>2. /\ a \in Seq(PeerIds) /\ ToSet(a) \subseteq PeerIds /\ t.form \in Forms
      /\ t.form = "All" => m = PeerIds
      /\ t.form = "None" => m = {}
      /\ t.form \in Including => m = ToSet(a)
      /\ t.form \in Excluding => m = PeerIds \ ToSet(a)
      /\ t.form \in {"Single", "AllExceptSingle"} => a[1] \in PeerIds /\ ToSet(a) = {a[1]}
  BY <1>1, WhatStands
<1>3. /\ b \in Seq(PeerIds) /\ ToSet(b) \subseteq PeerIds /\ u.form \in Forms
      /\ u.form = "All" => k = PeerIds
      /\ u.form = "None" => k = {}
      /\ u.form \in Including => k = ToSet(b)
      /\ u.form \in Excluding => k = PeerIds \ ToSet(b)
      /\ u.form \in {"Single", "AllExceptSingle"} => b[1] \in PeerIds /\ ToSet(b) = {b[1]}
  BY <1>1, WhatStands
<1>4. m \subseteq PeerIds /\ k \subseteq PeerIds
  BY DEF Stands, MembersOf
<1>5. CASE t.form = "All" \/ u.form = "None"
  <2>1. Union(t, u) = t
    BY <1>5, <1>1 DEF Union, Including, Excluding
  <2>2. m \cup k = m
    BY <1>5, <1>2, <1>3, <1>4 DEF Including, Excluding
  <2> QED  BY <2>1, <2>2, <1>2
<1>6. CASE t.form # "All" /\ u.form = "All"
  <2>1. Union(t, u) = All
    BY <1>6, <1>1 DEF Union, Including, Excluding
  <2>2. m \cup k = PeerIds
    BY <1>6, <1>2, <1>3, <1>4 DEF Including, Excluding
  <2> QED  BY <2>1, <2>2, NobodyStands
<1>7. CASE t.form = "None" /\ u.form \notin {"All", "None"}
  <2>1. Union(t, u) = u
    BY <1>7, <1>1 DEF Union, Including, Excluding
  <2>2. m \cup k = k
    BY <1>7, <1>2, <1>3, <1>4 DEF Including, Excluding
  <2> QED  BY <2>1, <2>2, <1>3
<1>8. CASE t.form = "AllExceptSingle" /\ u.form \notin {"All", "None"}
  <2>1. a[1] \in PeerIds /\ ToSet(a) = {a[1]}
    BY <1>8, <1>2
  <2>2. PICK p : p = a[1]
    OBVIOUS
  <2>3. Targets(u, p) <=> p \in k
    BY <2>1, <2>2, TargetsIs
  <2>4. Union(t, u) = IF Targets(u, p) THEN All ELSE t
    BY <1>8, <1>1, <2>2 DEF Union, Including, Excluding
  <2>5. CASE p \in k
    <3>1. m \cup k = PeerIds
      BY <1>8, <2>1, <2>2, <2>5, <1>2, <1>4 DEF Including, Excluding
    <3> QED  BY <2>3, <2>4, <2>5, <3>1, NobodyStands
  <2>6. CASE p \notin k
    <3>1. m \cup k = m
      BY <1>8, <2>1, <2>2, <2>6, <1>2, <1>4 DEF Including, Excluding
    <3> QED  BY <2>3, <2>4, <2>6, <3>1, <1>2
  <2> QED  BY <2>5, <2>6
<1>9. CASE t.form = "AllExcept" /\ u.form = "AllExceptSingle"
  <2>1. b[1] \in PeerIds /\ ToSet(b) = {b[1]}
    BY <1>9, <1>3
  <2>2. PICK p : p = b[1]
    OBVIOUS
  <2>3. Contains(a, p) = (p \in ToSet(a))
    BY <1>2, ContainsIs
  <2>4. Union(t, u) = IF Contains(a, p) THEN u ELSE All
    BY <1>9, <1>1, <2>2 DEF Union, Including, Excluding
  <2>5. CASE p \in ToSet(a)
    <3>1. m \cup k = k
      BY <1>9, <2>1, <2>2, <2>5, <1>2, <1>3 DEF Including, Excluding
    <3>2. Union(t, u) = u
      BY <2>3, <2>4, <2>5
    <3> QED  BY <3>1, <3>2
  <2>6. CASE p \notin ToSet(a)
    <3>1. m \cup k = PeerIds
      BY <1>9, <2>1, <2>2, <2>6, <1>2, <1>3 DEF Including, Excluding
    <3>2. Union(t, u) = All
      BY <2>3, <2>4, <2>6
    <3> QED  BY <3>1, <3>2, NobodyStands
  <2> QED  BY <2>5, <2>6
<1>10. CASE t.form = "AllExcept" /\ u.form \notin {"All", "None", "AllExceptSingle"}
  <2>1. PICK c \in BOOLEAN : c = (u.form = "AllExcept")
    BY (u.form = "AllExcept") \in BOOLEAN, Zenon
  <2>2. Union(t, u) = Compact(Tgt("AllExcept", RetainMembership(a, b, c)))
    <3>1. Union(t, u) = Compact(Tgt("AllExcept", RetainMembership(a, b, u.form = "AllExcept")))
      BY <1>10, <1>1 DEF Union, Including, Excluding
    <3> QED  BY <3>1, <2>1, Zenon
  <2>3. c <=> u.form = "AllExcept"
    BY <2>1, Zenon
  <2>4. m \cup k = PeerIds \ KeptOf(ToSet(a), ToSet(b), c)
    BY <1>10, <1>2, <1>3, <1>4, <2>1, <2>3 DEF Including, Excluding, Forms, KeptOf
  <2>5. Stands(Compact(Tgt("AllExcept", RetainMembership(a, b, c))), PeerIds \ KeptOf(ToSet(a), ToSet(b), c))
    BY <1>2, <1>3, ListsStand
  <2> QED  BY ONLY <2>2, <2>4, <2>5, Zenon
<1>11. CASE t.form \in Including /\ u.form \in Excluding
  <2>1. Union(t, u) = AllExceptUnique(Select(b, a, FALSE))
    BY <1>11, <1>1 DEF Union, Including, Excluding
  <2>2. m \cup k = PeerIds \ (ToSet(b) \ ToSet(a))
    BY <1>11, <1>2, <1>3, <1>4 DEF Including, Excluding
  <2> QED  BY <2>1, <2>2, <1>2, <1>3, ListsStand
<1>12. CASE t.form = "Only" /\ u.form \in Including
  <2>1. Union(t, u) = Compact(Tgt("Only", AppendUnique(a, b)))
    BY <1>12, <1>1 DEF Union, Including, Excluding
  <2>2. m \cup k = ToSet(a) \cup ToSet(b)
    BY <1>12, <1>2, <1>3, <1>4 DEF Including, Excluding
  <2> QED  BY <2>1, <2>2, <1>2, <1>3, ListsStand
<1>13. CASE t.form = "Single" /\ u.form \in Including
  <2>1. Union(t, u) = OnlyUnique(a \o b)
    BY <1>13, <1>1 DEF Union, Including, Excluding
  <2>2. m \cup k = ToSet(a) \cup ToSet(b)
    BY <1>13, <1>2, <1>3, <1>4 DEF Including, Excluding
  <2> QED  BY <2>1, <2>2, <1>2, <1>3, ListsStand
<1> QED  BY <1>2, <1>3, <1>5, <1>6, <1>7, <1>8, <1>9, <1>10, <1>11, <1>12, <1>13 DEF Forms, Including, Excluding

LEMMA ComplementStands ==
    ASSUME NEW t, NEW m, Stands(t, m)
    PROVE  Stands(Complement(t), PeerIds \ m) /\ Stands(Compact(Complement(t)), PeerIds \ m)
<1>1. PICK a : a = t.ids
  OBVIOUS
<1>2. /\ a \in Seq(PeerIds) /\ ToSet(a) \subseteq PeerIds /\ t.form \in Forms
      /\ t.form = "All" => m = PeerIds
      /\ t.form = "None" => m = {}
      /\ t.form \in Including => m = ToSet(a)
      /\ t.form \in Excluding => m = PeerIds \ ToSet(a)
      /\ t.form \in {"Single", "AllExceptSingle"} => Len(a) = 1
  BY <1>1, WhatStands
<1>3. /\ Stands(Tgt("All", a), PeerIds) /\ Stands(Tgt("None", a), {})
      /\ Stands(Tgt("Only", a), ToSet(a)) /\ Stands(Tgt("AllExcept", a), PeerIds \ ToSet(a))
      /\ Len(a) = 1 => /\ Stands(Tgt("Single", a), ToSet(a))
                       /\ Stands(Tgt("AllExceptSingle", a), PeerIds \ ToSet(a))
  BY <1>2, FormsStand
<1>4. Stands(Compact(Tgt("Only", a)), ToSet(a)) /\ Stands(Compact(Tgt("AllExcept", a)), PeerIds \ ToSet(a))
  BY <1>2, CompactStands
<1>5. ASSUME NEW f, f \notin {"Only", "AllExcept"} PROVE Compact(Tgt(f, a)) = Tgt(f, a)
  BY <1>5 DEF Compact, Tgt
<1>6. PeerIds \ (PeerIds \ ToSet(a)) = ToSet(a)
  BY <1>2
<1>7. CASE t.form = "None"
  <2>1. Complement(t) = Tgt("All", a)
    BY <1>7, <1>1 DEF Complement, Opposite
  <2>2. PeerIds \ m = PeerIds
    BY <1>7, <1>2, <1>6 DEF Including, Excluding
  <2> QED  BY <1>7, <2>1, <2>2, <1>2, <1>3, <1>5
<1>8. CASE t.form = "All"
  <2>1. Complement(t) = Tgt("None", a)
    BY <1>8, <1>1 DEF Complement, Opposite
  <2>2. PeerIds \ m = {}
    BY <1>8, <1>2, <1>6 DEF Including, Excluding
  <2> QED  BY <1>8, <2>1, <2>2, <1>2, <1>3, <1>5
<1>9. CASE t.form = "Single"
  <2>1. Complement(t) = Tgt("AllExceptSingle", a)
    BY <1>9, <1>1 DEF Complement, Opposite
  <2>2. PeerIds \ m = PeerIds \ ToSet(a)
    BY <1>9, <1>2, <1>6 DEF Including, Excluding
  <2> QED  BY <1>9, <2>1, <2>2, <1>2, <1>3, <1>5
<1>10. CASE t.form = "AllExceptSingle"
  <2>1. Complement(t) = Tgt("Single", a)
    BY <1>10, <1>1 DEF Complement, Opposite
  <2>2. PeerIds \ m = ToSet(a)
    BY <1>10, <1>2, <1>6 DEF Including, Excluding
  <2> QED  BY <1>10, <2>1, <2>2, <1>2, <1>3, <1>5
<1>11. CASE t.form = "Only"
  <2>1. Complement(t) = Tgt("AllExcept", a)
    BY <1>11, <1>1 DEF Complement, Opposite
  <2>2. PeerIds \ m = PeerIds \ ToSet(a)
    BY <1>11, <1>2, <1>6 DEF Including, Excluding
  <2> QED  BY <1>11, <2>1, <2>2, <1>2, <1>3, <1>4
<1>12. CASE t.form = "AllExcept"
  <2>1. Complement(t) = Tgt("Only", a)
    BY <1>12, <1>1 DEF Complement, Opposite
  <2>2. PeerIds \ m = ToSet(a)
    BY <1>12, <1>2, <1>6 DEF Including, Excluding
  <2> QED  BY <1>12, <2>1, <2>2, <1>2, <1>3, <1>4
<1> QED  BY <1>2, <1>7, <1>8, <1>9, <1>10, <1>11, <1>12 DEF Forms, Including, Excluding

LEMMA ExcludeStands ==
    ASSUME NEW t, NEW m, Stands(t, m), NEW u, NEW k, Stands(u, k)
    PROVE  Stands(Exclude(t, u), m \ k)
<1>1. PICK a, b : a = t.ids /\ b = u.ids
  OBVIOUS
<1>2. /\ a \in Seq(PeerIds) /\ ToSet(a) \subseteq PeerIds /\ t.form \in Forms
      /\ t.form = "All" => m = PeerIds
      /\ t.form = "None" => m = {}
      /\ t.form \in Including => m = ToSet(a)
      /\ t.form \in Excluding => m = PeerIds \ ToSet(a)
      /\ t.form \in {"Single", "AllExceptSingle"} => a[1] \in PeerIds /\ ToSet(a) = {a[1]}
  BY <1>1, WhatStands
<1>3. /\ b \in Seq(PeerIds) /\ ToSet(b) \subseteq PeerIds /\ u.form \in Forms
      /\ u.form = "All" => k = PeerIds
      /\ u.form = "None" => k = {}
      /\ u.form \in Including => k = ToSet(b)
      /\ u.form \in Excluding => k = PeerIds \ ToSet(b)
      /\ u.form \in {"Single", "AllExceptSingle"} => b[1] \in PeerIds /\ ToSet(b) = {b[1]}
  BY <1>1, WhatStands
<1>4. m \subseteq PeerIds /\ k \subseteq PeerIds
  BY DEF Stands, MembersOf
<1>5. CASE t.form = "None" \/ u.form = "None"
  <2>1. Exclude(t, u) = t
    BY <1>5, <1>1 DEF Exclude, Including, Excluding
  <2>2. m \ k = m
    BY <1>5, <1>2, <1>3, <1>4 DEF Including, Excluding
  <2> QED  BY <2>1, <2>2, <1>2
<1>6. CASE t.form # "None" /\ u.form = "All"
  <2>1. Exclude(t, u) = Nobody
    BY <1>6, <1>1 DEF Exclude, Including, Excluding
  <2>2. m \ k = {}
    BY <1>6, <1>2, <1>3, <1>4 DEF Including, Excluding
  <2> QED  BY <2>1, <2>2, NobodyStands
<1>7. CASE t.form = "All" /\ u.form \notin {"All", "None"}
  <2>1. Exclude(t, u) = Compact(Complement(u))
    BY <1>7, <1>1 DEF Exclude, Including, Excluding
  <2>2. m \ k = PeerIds \ k
    BY <1>7, <1>2, <1>3, <1>4 DEF Including, Excluding
  <2> QED  BY <2>1, <2>2, ComplementStands
<1>8. CASE t.form \in Excluding /\ u.form \in Excluding
  <2>1. Exclude(t, u) = OnlyUnique(Select(b, a, FALSE))
    BY <1>8, <1>1 DEF Exclude, Including, Excluding
  <2>2. m \ k = ToSet(b) \ ToSet(a)
    BY <1>8, <1>2, <1>3, <1>4 DEF Including, Excluding
  <2> QED  BY <2>1, <2>2, <1>2, <1>3, ListsStand
<1>9. CASE t.form = "AllExceptSingle" /\ u.form \in Including
  <2>1. Exclude(t, u) = AllExceptUnique(a \o b)
    BY <1>9, <1>1 DEF Exclude, Including, Excluding
  <2>2. m \ k = PeerIds \ (ToSet(a) \cup ToSet(b))
    BY <1>9, <1>2, <1>3, <1>4 DEF Including, Excluding
  <2> QED  BY <2>1, <2>2, <1>2, <1>3, ListsStand
<1>10. CASE t.form = "AllExcept" /\ u.form \in Including
  <2>1. Exclude(t, u) = Compact(Tgt("AllExcept", AppendUnique(a, b)))
    BY <1>10, <1>1 DEF Exclude, Including, Excluding
  <2>2. m \ k = PeerIds \ (ToSet(a) \cup ToSet(b))
    BY <1>10, <1>2, <1>3, <1>4 DEF Including, Excluding
  <2> QED  BY <2>1, <2>2, <1>2, <1>3, ListsStand
<1>11. CASE t.form = "Only" /\ u.form \notin {"All", "None"}
  <2>1. PICK c \in BOOLEAN : c = (u.form \in Excluding)
    BY (u.form \in Excluding) \in BOOLEAN, Zenon
  <2>2. Exclude(t, u) = Compact(Tgt("Only", RetainMembership(a, b, c)))
    <3>1. Exclude(t, u) = Compact(Tgt("Only", RetainMembership(a, b, u.form \in Excluding)))
      BY <1>11, <1>1 DEF Exclude, Including, Excluding
    <3> QED  BY <3>1, <2>1, Zenon
  <2>3. c <=> u.form \in Excluding
    BY <2>1, Zenon
  <2>4. m \ k = KeptOf(ToSet(a), ToSet(b), c)
    BY <1>11, <1>2, <1>3, <1>4, <2>1, <2>3 DEF Including, Excluding, Forms, KeptOf
  <2>5. Stands(Compact(Tgt("Only", RetainMembership(a, b, c))), KeptOf(ToSet(a), ToSet(b), c))
    BY <1>2, <1>3, ListsStand
  <2> QED  BY ONLY <2>2, <2>4, <2>5, Zenon
<1>12. CASE t.form = "Single" /\ u.form \notin {"All", "None"}
  <2>1. a[1] \in PeerIds /\ ToSet(a) = {a[1]}
    BY <1>12, <1>2
  <2>2. PICK p : p = a[1]
    OBVIOUS
  <2>3. Targets(u, p) <=> p \in k
    BY <2>1, <2>2, TargetsIs
  <2>4. Exclude(t, u) = IF Targets(u, p) THEN Nobody ELSE t
    BY <1>12, <1>1, <2>2 DEF Exclude, Including, Excluding
  <2>5. CASE p \in k
    <3>1. m \ k = {}
      BY <1>12, <2>1, <2>2, <2>5, <1>2, <1>4 DEF Including, Excluding
    <3> QED  BY <2>3, <2>4, <2>5, <3>1, NobodyStands
  <2>6. CASE p \notin k
    <3>1. m \ k = m
      BY <1>12, <2>1, <2>2, <2>6, <1>2, <1>4 DEF Including, Excluding
    <3> QED  BY <2>3, <2>4, <2>6, <3>1, <1>2
  <2> QED  BY <2>5, <2>6
<1> QED  BY <1>2, <1>3, <1>5, <1>6, <1>7, <1>8, <1>9, <1>10, <1>11, <1>12 DEF Forms, Including, Excluding

LEMMA OneStands ==
    ASSUME NEW p \in PeerIds
    PROVE  <<p>> \in Seq(PeerIds) /\ Len(<<p>>) = 1 /\ ToSet(<<p>>) = {p}
<1>1. PICK o : o = <<p>>
  OBVIOUS
<1>2. o \in Seq(PeerIds) /\ Len(o) = 1 /\ o[1] = p
  BY <1>1
<1>3. ToSet(o) = {o[1]}
  BY <1>2, ToSetIs
<1> QED  BY <1>1, <1>2, <1>3

LEMMA InsertStands ==
    ASSUME NEW t, NEW m, Stands(t, m), NEW p \in PeerIds
    PROVE  Stands(Insert(t, p), m \cup {p})
<1>1. PICK a, o : a = t.ids /\ o = <<p>>
  OBVIOUS
<1>2. /\ a \in Seq(PeerIds) /\ ToSet(a) \subseteq PeerIds /\ t.form \in Forms
      /\ t.form = "All" => m = PeerIds
      /\ t.form = "None" => m = {}
      /\ t.form \in Including => m = ToSet(a)
      /\ t.form \in Excluding => m = PeerIds \ ToSet(a)
      /\ t.form \in {"Single", "AllExceptSingle"} => Len(a) = 1 /\ a[1] \in PeerIds /\ ToSet(a) = {a[1]}
  BY <1>1, WhatStands
<1>3. o \in Seq(PeerIds) /\ Len(o) = 1 /\ ToSet(o) = {p} /\ o[1] = p
  BY <1>1, OneStands
<1>4. t.form \in {"Single", "AllExceptSingle"} => (a = o <=> a[1] = p)
  <2>1. ASSUME Len(a) = 1, a[1] = p PROVE a = o
    <3>1. a = [i \in 1 .. 1 |-> a[i]] /\ o = [i \in 1 .. 1 |-> o[i]]
      BY <1>2, <1>3, <2>1
    <3>2. \A i \in 1 .. 1 : a[i] = o[i]
      BY <1>3, <2>1
    <3> QED  BY <3>1, <3>2
  <2> QED  BY <2>1, <1>2, <1>3
<1>5. CASE t.form = "AllExceptSingle"
  <2>1. Insert(t, p) = IF a = o THEN All ELSE t
    BY <1>5, <1>1 DEF Insert
  <2>2. m \cup {p} = IF a = o THEN PeerIds ELSE m
    BY <1>5, <1>2, <1>4 DEF Excluding
  <2> QED  BY <2>1, <2>2, NobodyStands
<1>6. CASE t.form = "AllExcept"
  <2>1. PICK l, no : l = Select(a, o, no) /\ no = FALSE
    OBVIOUS
  <2>2. Insert(t, p) = Tgt("AllExcept", l)
    BY <1>6, <1>1, <2>1 DEF Insert
  <2>3. l \in Seq(PeerIds) /\ ToSet(l) = ToSet(a) \ ToSet(o)
    <3>1. no \in BOOLEAN
      BY <2>1
    <3>2. a \in Seq(PeerIds) /\ o \in Seq(PeerIds)
      BY <1>2, <1>3
    <3>3. Select(a, o, no) \in Seq(PeerIds) /\ ToSet(Select(a, o, no)) = KeptOf(ToSet(a), ToSet(o), no)
      BY ONLY <3>1, <3>2, KeepIs
    <3> QED  BY <2>1, <3>3 DEF KeptOf
  <2>4. Stands(Tgt("AllExcept", l), PeerIds \ ToSet(l))
    BY <2>3, FormsStand
  <2>5. m \cup {p} = PeerIds \ ToSet(l)
    BY <1>6, <1>2, <1>3, <2>3 DEF Excluding
  <2> QED  BY <2>2, <2>4, <2>5
<1>7. CASE t.form = "Only"
  <2>1. PICK l : l = AppendNew(a, o)
    OBVIOUS
  <2>2. Insert(t, p) = Tgt("Only", l)
    BY <1>7, <1>1, <2>1 DEF Insert
  <2>3. l \in Seq(PeerIds) /\ ToSet(l) = ToSet(a) \cup ToSet(o)
    BY <2>1, <1>2, <1>3, AppendNewIs
  <2>4. Stands(Tgt("Only", l), ToSet(l))
    BY <2>3, FormsStand
  <2>5. m \cup {p} = ToSet(l)
    BY <1>7, <1>2, <1>3, <2>3 DEF Including
  <2> QED  BY <2>2, <2>4, <2>5
<1>8. CASE t.form = "Single"
  <2>1. PICK l : l = a \o o
    OBVIOUS
  <2>2. Insert(t, p) = IF a = o THEN t ELSE Tgt("Only", l)
    BY <1>8, <1>1, <2>1 DEF Insert
  <2>3. l \in Seq(PeerIds) /\ ToSet(l) = ToSet(a) \cup ToSet(o)
    BY <2>1, <1>2, <1>3, ToSetConcat
  <2>4. Stands(Tgt("Only", l), ToSet(l))
    BY <2>3, FormsStand
  <2>5. m \cup {p} = ToSet(l) /\ (a = o => m \cup {p} = m)
    BY <1>8, <1>2, <1>3, <2>3 DEF Including
  <2> QED  BY <2>2, <2>4, <2>5
<1>9. CASE t.form = "None"
  <2>1. Insert(t, p) = Tgt("Single", o)
    BY <1>9, <1>1 DEF Insert
  <2>2. Stands(Tgt("Single", o), ToSet(o))
    BY <1>3, FormsStand
  <2> QED  BY <2>1, <2>2, <1>2, <1>3, <1>9
<1>10. CASE t.form = "All"
  <2>1. Insert(t, p) = t
    BY <1>10 DEF Insert
  <2> QED  BY <2>1, <1>2, <1>10
<1> QED  BY <1>2, <1>5, <1>6, <1>7, <1>8, <1>9, <1>10 DEF Forms, Including, Excluding

LEMMA NormalizeStands ==
    ASSUME NEW t, NEW m, Stands(t, m)
    PROVE  Stands(Normalize(t), m)
<1>1. PICK a, d : a = t.ids /\ d = Deduplicate(a)
  OBVIOUS
<1>2. /\ a \in Seq(PeerIds)
      /\ t.form = "Only" => m = ToSet(a)
      /\ t.form = "AllExcept" => m = PeerIds \ ToSet(a)
  BY <1>1, WhatStands DEF Including, Excluding
<1>3. d \in Seq(PeerIds) /\ ToSet(d) = ToSet(a)
  BY <1>1, <1>2, DeduplicateIs
<1>4. Stands(Compact(Tgt("Only", d)), ToSet(d)) /\ Stands(Compact(Tgt("AllExcept", d)), PeerIds \ ToSet(d))
  BY <1>3, CompactStands
<1>5. CASE t.form = "Only"
  BY <1>1, <1>2, <1>3, <1>4, <1>5 DEF Normalize
<1>6. CASE t.form = "AllExcept"
  BY <1>1, <1>2, <1>3, <1>4, <1>6 DEF Normalize
<1>7. CASE t.form \notin {"Only", "AllExcept"}
  BY <1>7 DEF Normalize
<1> QED  BY <1>5, <1>6, <1>7

\* The targets that a loop goes through.
Sound == {t \in [form : Forms, ids : Seq(PeerIds)] : WellFormed(t)}

LEMMA SoundIs == ASSUME NEW t, NEW m PROVE Stands(t, m) <=> t \in Sound /\ MembersOf(t) = m
<1>1. WellFormed(t) => t \in [form : Forms, ids : Seq(PeerIds)]
  BY DEF WellFormed, Tgt
<1> QED  BY <1>1 DEF Stands, Sound

LEMMA ExtendStands ==
    ASSUME NEW t, NEW m, Stands(t, m), NEW list, list \in Seq(PeerIds)
    PROVE  Stands(Extend(t, list), m \cup ToSet(list))
<1> DEFINE n == Len(list)
           After(f) == [k \in 0 .. n |-> IF k = 0 THEN Normalize(t) ELSE Insert(f[k - 1], list[k])]
           step == [k \in 1 .. n |-> [x \in Sound |-> Insert(x, list[k])]]
           run == CHOOSE f : f = After(f)
<1>1. n \in Nat /\ \A k \in 1 .. n : list[k] \in PeerIds
  BY LenProperties, ElementOfSeq
<1>2. Normalize(t) \in Sound /\ MembersOf(Normalize(t)) = m
  BY NormalizeStands, SoundIs
<1>3. ASSUME NEW k \in 1 .. n, NEW x \in Sound
      PROVE  Insert(x, list[k]) \in Sound /\ MembersOf(Insert(x, list[k])) = MembersOf(x) \cup {list[k]}
  <2>1. PICK p, z, y : p = list[k] /\ z = MembersOf(x) /\ y = Insert(x, p)
    OBVIOUS
  <2>2. p \in PeerIds /\ Stands(x, z)
    BY <1>1, <2>1, SoundIs
  <2>3. Stands(y, z \cup {p})
    BY <2>1, <2>2, InsertStands
  <2>4. y \in Sound /\ MembersOf(y) = z \cup {p}
    BY <2>3, SoundIs
  <2> QED  BY <2>1, <2>4
<1>4. step \in [1 .. n -> [Sound -> Sound]]
  <2> HIDE DEF n
  <2> QED  BY <1>3
<1>5. PICK f \in [0 .. n -> Sound] : f[0] = Normalize(t) /\ \A k \in 1 .. n : f[k] = step[k][f[k - 1]]
  <2>1. PICK e : e = Normalize(t)
    OBVIOUS
  <2>2. PICK T : T = Sound
    OBVIOUS
  <2>3. PICK j : j = n
    OBVIOUS
  <2>4. PICK turn : turn = step
    OBVIOUS
  <2>5. j \in Nat /\ e \in T /\ turn \in [1 .. j -> [T -> T]]
    <3> HIDE DEF step, n
    <3> QED  BY <1>1, <1>2, <1>4, <2>1, <2>2, <2>3, <2>4
  <2>6. \E f \in [0 .. j -> T] : f[0] = e /\ \A k \in 1 .. j : f[k] = turn[k][f[k - 1]]
    BY ONLY <2>5, RunExists
  <2> HIDE DEF step, n
  <2> QED  BY <2>1, <2>2, <2>3, <2>4, <2>6
<1>6. f = After(f)
  <2>1. ASSUME NEW k \in 1 .. n PROVE f[k] = Insert(f[k - 1], list[k])
    <3>1. k - 1 \in 0 .. n
      BY <1>1
    <3>2. f[k - 1] \in Sound
      <4> HIDE DEF step, n
      <4> QED  BY <3>1
    <3>3. f[k] = step[k][f[k - 1]]
      <4> HIDE DEF step, n
      <4> QED  BY <1>5
    <3> HIDE DEF n
    <3> QED  BY <3>2, <3>3
  <2>2. \A k \in 0 .. n : k # 0 => k \in 1 .. n
    BY <1>1
  <2> HIDE DEF n, step
  <2> QED  BY ONLY <1>5, <2>1, <2>2
<1>7. run = After(run)
  <2> HIDE DEF After
  <2> QED  BY <1>6
<1>8. run[0] = Normalize(t)
  <2> HIDE DEF run, n
  <2> QED  BY <1>7, <1>1
<1>9. ASSUME NEW k \in 1 .. n PROVE run[k] = Insert(run[k - 1], list[k])
  <2>1. k \in 0 .. n /\ k # 0
    BY <1>1
  <2> HIDE DEF run, n
  <2> QED  BY <1>7, <2>1
<1> DEFINE P == [k \in 0 .. n |-> {x \in Sound : MembersOf(x) = m \cup Seen(list, k)}]
<1>10. ASSUME NEW k \in 1 .. n, run[k - 1] \in P[k - 1] PROVE run[k] \in P[k]
  <2>1. k - 1 \in 0 .. n /\ k \in 0 .. n
    BY <1>1
  <2>2. PICK x : x = run[k - 1]
    OBVIOUS
  <2>3. x \in Sound /\ MembersOf(x) = m \cup Seen(list, k - 1)
    <3> HIDE DEF run, n
    <3> QED  BY <1>10, <2>1, <2>2
  <2>4. run[k] = Insert(x, list[k])
    <3> HIDE DEF run, n
    <3> QED  BY <1>9, <2>2
  <2>5. Seen(list, k) = Seen(list, k - 1) \cup {list[k]}
    BY SeenIs
  <2>6. Insert(x, list[k]) \in Sound /\ MembersOf(Insert(x, list[k])) = m \cup Seen(list, k)
    BY <2>3, <2>5, <1>3
  <2> HIDE DEF run, n
  <2> QED  BY <2>1, <2>4, <2>6
<1>11. run[0] \in P[0]
  <2>1. Seen(list, 0) = {}
    BY SeenIs
  <2> HIDE DEF run, n
  <2> QED  BY <1>8, <1>1, <1>2, <2>1
<1>12. run[n] \in P[n]
  <2> HIDE DEF run, P, n
  <2> QED  BY ONLY <1>1, <1>10, <1>11, RunPasses
<1>13. Stands(run[n], m \cup ToSet(list))
  <2>1. Seen(list, n) = ToSet(list)
    BY SeenIs
  <2>2. run[n] \in Sound /\ MembersOf(run[n]) = m \cup ToSet(list)
    <3> HIDE DEF run, n
    <3> QED  BY <1>12, <1>1, <2>1
  <2> HIDE DEF run, n
  <2> QED  BY <2>2, SoundIs
<1>14. Extend(t, list) = Normalize(run[n])
  BY DEF Extend
<1> HIDE DEF run, n
<1> QED  BY <1>13, <1>14, NormalizeStands

LEMMA FromExcludeStands ==
    ASSUME NEW list, list \in Seq(PeerIds)
    PROVE  Stands(FromExclude(list), PeerIds \ ToSet(list))
<1>1. PICK e : e = {}
  OBVIOUS
<1>2. Stands(Nobody, e)
  BY <1>1, NobodyStands
<1>3. PICK x, y : x = Extend(Nobody, list) /\ y = e \cup ToSet(list)
  OBVIOUS
<1>4. Stands(x, y)
  BY <1>2, <1>3, ExtendStands
<1>5. Stands(Complement(x), PeerIds \ y)
  BY <1>4, ComplementStands
<1>6. y = ToSet(list)
  BY <1>1, <1>3
<1> QED  BY <1>3, <1>5, <1>6 DEF FromExclude

LEMMA LiteralsStand ==
    ASSUME NEW u \in Literals
    PROVE  Stands(u, MembersOf(u))
<1>1. ASSUME NEW list \in Lists PROVE list \in Seq(PeerIds)
  BY TargetAssumption DEF Lists
<1>2. CASE u \in {All, Nobody}
  BY <1>2, NobodyStands DEF Stands
<1>3. CASE u \in [form : {"Single", "AllExceptSingle"}, ids : {<<p>> : p \in PeerIds}]
  <2>1. PICK p \in PeerIds : u.ids = <<p>>
    BY <1>3
  <2>2. PICK o : o = <<p>>
    OBVIOUS
  <2>3. o \in Seq(PeerIds) /\ Len(o) = 1
    BY <2>2, OneStands
  <2>4. u = Tgt(u.form, o) /\ u.form \in {"Single", "AllExceptSingle"}
    BY <1>3, <2>1, <2>2 DEF Tgt
  <2> QED  BY <2>3, <2>4, FormsStand DEF Stands
<1>4. CASE u \in [form : {"Only", "AllExcept"}, ids : Lists]
  <2>1. u = Tgt(u.form, u.ids) /\ u.form \in {"Only", "AllExcept"} /\ u.ids \in Lists
    BY <1>4 DEF Tgt
  <2>2. u.ids \in Seq(PeerIds)
    BY <1>1, <2>1
  <2> QED  BY <2>1, <2>2, FormsStand DEF Stands
<1> QED  BY <1>2, <1>3, <1>4 DEF Literals

-----------------------------------------------------------------------------
(* Targets: resolution.                                                    *)

\* A set of peers stands for the connected entities that it should.
LEMMA ReachedIs ==
    ASSUME Stands(target, members), NEW clients, NEW mapped \in SUBSET PeerIds
    PROVE  /\ Resolved(target, clients, mapped, NewRequested(target, clients, mapped)) = Wanted(clients, mapped)
           /\ Applied(target, clients, mapped) = Wanted(clients, mapped)
<1>1. PICK a, s, k, f : a = target.ids /\ s = ToSet(a) /\ k = members /\ f = target.form
  OBVIOUS
<1>2. /\ f \in Forms
      /\ f = "All" => k = PeerIds
      /\ f = "None" => k = {}
      /\ f \in Including => k = s
      /\ f \in Excluding => k = PeerIds \ s
  BY <1>1, WhatStands
<1>3. EntitiesOf(a, mapped) = s \cap mapped
  BY <1>1 DEF EntitiesOf
<1>4. Wanted(clients, mapped) =
        {e \in clients : IF e \in mapped THEN e \in k ELSE f \in Excluding \cup {"All"}}
  BY <1>1 DEF Wanted
<1>5. Applied(target, clients, mapped) = Wanted(clients, mapped)
  <2>1. Applied(target, clients, mapped) =
          CASE f = "All" -> clients
            [] f \in Excluding -> {e \in clients : e \notin s \cap mapped}
            [] f \in Including -> {e \in clients : e \in s \cap mapped}
            [] OTHER -> {}
    BY <1>1, <1>3 DEF Applied
  <2>2. CASE f = "All"
    BY <2>1, <2>2, <1>2, <1>4 DEF Including, Excluding
  <2>3. CASE f = "None"
    BY <2>1, <2>3, <1>2, <1>4 DEF Including, Excluding
  <2>4. CASE f \in Including
    BY <2>1, <2>4, <1>2, <1>4 DEF Including, Excluding
  <2>5. CASE f \in Excluding
    BY <2>1, <2>5, <1>2, <1>4 DEF Including, Excluding
  <2> QED  BY <2>2, <2>3, <2>4, <2>5, <1>2 DEF Forms
<1>6. Resolved(target, clients, mapped, NewRequested(target, clients, mapped)) = Applied(target, clients, mapped)
  <2>1. PICK i : i = InlinePath(target, clients) /\ i \in BOOLEAN
    BY DEF InlinePath
  <2>2. NewRequested(target, clients, mapped) = IF f = "Only" /\ ~ i THEN s \cap mapped ELSE {}
    BY <1>1, <1>3, <2>1 DEF NewRequested
  <2>3. PICK r : r = NewRequested(target, clients, mapped)
    OBVIOUS
  <2>4. CASE f = "All"
    BY <1>1, <2>4 DEF Resolved, Applied, Including, Excluding
  <2>5. CASE f = "None"
    BY <1>1, <2>5 DEF Resolved, Applied, Including, Excluding
  <2>6. CASE f \in Excluding
    BY <1>1, <2>6 DEF Resolved, Applied, Including, Excluding
  <2>7. CASE f = "Single"
    BY <1>1, <2>7 DEF Resolved, Applied, Including, Excluding
  <2>8. CASE f = "Only"
    <3>1. Applied(target, clients, mapped) = {e \in clients : e \in s \cap mapped}
      BY <1>1, <1>3, <2>8 DEF Applied, Including, Excluding
    <3>2. Resolved(target, clients, mapped, r) = clients \cap (s \cap mapped)
      BY <1>1, <1>3, <2>1, <2>2, <2>3, <2>8 DEF Resolved, Excluding
    <3> QED  BY <3>1, <3>2, <2>3
  <2> QED  BY <2>4, <2>5, <2>6, <2>7, <2>8, <1>2 DEF Forms, Including
<1> QED  BY <1>5, <1>6

-----------------------------------------------------------------------------
(* Targets: the invariant.                                                 *)

TargetInv == Stands(target, members) /\ reached = wanted

LEMMA TargetStep ==
    ASSUME TargetInv, [TargetNext]_targetVars
    PROVE  TargetInv'
<1>1. Stands(target, members) /\ reached = wanted /\ members \subseteq PeerIds
  BY DEF TargetInv, Stands, MembersOf
<1>2. ASSUME NEW t, NEW m, Becomes(t, m), Stands(t, m) PROVE TargetInv'
  BY <1>1, <1>2 DEF TargetInv, Becomes
<1>3. ASSUME NEW u \in Literals, Becomes(u, MembersOf(u)) PROVE TargetInv'
  BY <1>3, <1>2, LiteralsStand
<1>4. ASSUME NEW u \in Literals, NEW k, k = MembersOf(u)
      PROVE  /\ Stands(Intersection(target, u), members \cap k)
             /\ Stands(Union(target, u), members \cup k)
             /\ Stands(Exclude(target, u), members \ k)
  <2>1. PICK t, m : t = target /\ m = members
    OBVIOUS
  <2>2. Stands(t, m) /\ Stands(u, k)
    BY <1>1, <1>4, <2>1, LiteralsStand
  <2>3. Stands(Intersection(t, u), m \cap k) /\ Stands(Union(t, u), m \cup k) /\ Stands(Exclude(t, u), m \ k)
    BY ONLY <2>2, IntersectionStands, UnionStands, ExcludeStands
  <2> QED  BY <2>1, <2>3
<1>5. ASSUME NEW list \in Lists
      PROVE  /\ Stands(Extend(target, list), members \cup ToSet(list))
             /\ Stands(FromExclude(list), PeerIds \ ToSet(list))
  <2>1. PICK t, m : t = target /\ m = members
    OBVIOUS
  <2>2. Stands(t, m) /\ list \in Seq(PeerIds)
    BY <1>1, <2>1, TargetAssumption DEF Lists
  <2>3. Stands(Extend(t, list), m \cup ToSet(list)) /\ Stands(FromExclude(list), PeerIds \ ToSet(list))
    BY ONLY <2>2, ExtendStands, FromExcludeStands
  <2> QED  BY <2>1, <2>3
<1>6. Stands(Complement(target), PeerIds \ members)
  <2>1. PICK t, m : t = target /\ m = members
    OBVIOUS
  <2>2. Stands(t, m)
    BY <1>1, <2>1
  <2>3. Stands(Complement(t), PeerIds \ m)
    BY ONLY <2>2, ComplementStands
  <2> QED  BY <2>1, <2>3
<1>7. CASE Rewrite
  <2>1. ASSUME NEW u \in Literals,
               \/ Becomes(u, MembersOf(u))
               \/ Becomes(Intersection(target, u), members \cap MembersOf(u))
               \/ Becomes(Union(target, u), members \cup MembersOf(u))
               \/ Becomes(Exclude(target, u), members \ MembersOf(u))
        PROVE  TargetInv'
    BY <2>1, <1>2, <1>3, <1>4
  <2>2. ASSUME NEW list \in Lists,
               \/ Becomes(Extend(target, list), members \cup ToSet(list))
               \/ Becomes(FromExclude(list), PeerIds \ ToSet(list))
        PROVE  TargetInv'
    BY <2>2, <1>2, <1>5
  <2>3. ASSUME Becomes(Complement(target), PeerIds \ members) PROVE TargetInv'
    BY <2>3, <1>2, <1>6
  <2> QED  BY <1>7, <2>1, <2>2, <2>3 DEF Rewrite
<1>8. ASSUME NEW clients, NEW mapped \in SUBSET PeerIds, SendToTargets(clients, mapped) PROVE TargetInv'
  <2>1. Resolved(target, clients, mapped, NewRequested(target, clients, mapped)) = Wanted(clients, mapped)
    BY <1>1, ReachedIs
  <2>2. reached' = Wanted(clients, mapped) /\ wanted' = Wanted(clients, mapped)
        /\ target' = target /\ members' = members
    BY <1>8, <2>1 DEF SendToTargets
  <2> QED  BY <1>1, <2>2 DEF TargetInv
<1>9. ASSUME NEW clients, NEW mapped \in SUBSET PeerIds, Apply(clients, mapped) PROVE TargetInv'
  <2>1. Applied(target, clients, mapped) = Wanted(clients, mapped)
    BY <1>1, ReachedIs
  <2>2. reached' = wanted' /\ target' = target /\ members' = members
    BY <1>9, <2>1 DEF Apply
  <2> QED  BY <1>1, <2>2 DEF TargetInv
<1>10. CASE UNCHANGED targetVars
  BY <1>1, <1>10 DEF targetVars, TargetInv
<1> QED  BY <1>7, <1>8, <1>9, <1>10 DEF TargetNext

(***************************************************************************)
(* However targets are combined, in whatever form and with lists of any    *)
(* length, with any number of peers and any inline capacity, the result    *)
(* stands for the set it should, and both resolutions reach exactly the    *)
(* connected entities of that set, whatever the resolver was used for      *)
(* before.                                                                 *)
(***************************************************************************)
THEOREM TargetsExactAlways == TargetSpec => []TargetsExact
<1>1. TargetInit => TargetInv
  BY NobodyStands DEF TargetInit, TargetInv
<1>2. TargetInv /\ [TargetNext]_targetVars => TargetInv'
  BY TargetStep
<1>3. TargetInv => TargetsExact
  BY DEF TargetInv, TargetsExact, Stands
<1> QED  BY <1>1, <1>2, <1>3, PTL DEF TargetSpec
=============================================================================
