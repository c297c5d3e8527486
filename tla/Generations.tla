---------------------------- MODULE Generations ----------------------------
(***************************************************************************)
(* Configuration publication and the hand-over of listening sockets        *)
(* between transport generations.                                          *)
(*                                                                         *)
(* A writer (SIGHUP, or one request of the control endpoint) holds the     *)
(* coordinator's writer lock from `begin` to the end of its transaction.   *)
(* An application reload swaps the server state and keeps the trust epoch; *)
(* a trust change also prepares a new set of transport workers, which      *)
(* inherit duplicates of the active generation's listening sockets, wait   *)
(* at an activation gate until every predecessor has stopped accepting,    *)
(* and take over the connections that the predecessor's kernel accepts     *)
(* completed during the switch (the `raced` queue).                        *)
(*                                                                         *)
(* Generations of transport resources are numbered by their trust epoch:   *)
(* 1 is the one installed at startup.  Each has one worker per TCP socket  *)
(* and one for the AF_UNIX listener.                                       *)
(***************************************************************************)
EXTENDS Naturals, FiniteSets

CONSTANTS
    Tcp,        \* TCP listening sockets, one worker thread each
    Uds,        \* AF_UNIX listening sockets ({} or a singleton)
    Layouts,    \* the sets of listening sockets a configuration may name
    Conns,      \* client connections
    MaxEpoch,   \* bound: transport generations ever prepared
    MaxGen,     \* bound: server states ever published
    MaxSpan,    \* bound: server states times listening sockets
    Retiring    \* MAX_RETIRING_GENERATIONS

None == 0
Epochs == 1..MaxEpoch
Writers == {"hup", "admin"}

ASSUME GenerationsAssumption ==
    /\ Tcp \cap Uds = {} /\ Layouts \subseteq (SUBSET (Tcp \cup Uds)) \ {{}}
    /\ MaxEpoch \in Nat \ {0} /\ MaxGen \in Nat \ {0} /\ MaxSpan \in Nat /\ Retiring \in Nat \ {0}

VARIABLES
    Socks,      \* the configured listening sockets, fixed at startup
    holder,     \* the published ServerState: [gen, epoch]
    wr,         \* per writer: [pc, cur, next, res]
    pub,        \* the writer inside publish_inner's second half, or "none"
    quic,       \* trust epoch of the QUIC accept policy
    health,     \* generations whose proxy pool runs health checks
    active,     \* the active resource set
    retired,    \* the resource sets in the retirement slots
    act, stop,  \* activation and shutdown tokens per resource set
    pred,       \* whose stop acknowledgments a resource set waits for
    wk,         \* program counter of each worker thread
    acked,      \* the `stopped` token of each worker
    conn,       \* per connection: [at, s, r]
    grace,      \* a 15 s drain bound expired somewhere (history)
    main        \* the main thread: run, closed, down, quiet, over

pubVars == <<holder, pub, quic, health, active, retired, act, stop>>
vars == <<Socks, holder, wr, pub, quic, health, active, retired, act, stop, pred, wk, acked,
          conn, grace, main>>

WriterIdle == [pc |-> "idle", cur |-> [gen |-> 0, epoch |-> 0],
               next |-> [gen |-> 0, epoch |-> 0], res |-> None]

TypeOK ==
    /\ Socks \in Layouts
    /\ holder \in [gen : 1..MaxGen, epoch : Epochs]
    /\ wr \in [Writers ->
         [pc : {"idle", "built", "ready", "storing", "dropping"},
          cur : [gen : 0..MaxGen, epoch : 0..MaxEpoch],
          next : [gen : 0..MaxGen, epoch : 0..MaxEpoch],
          res : 0..MaxEpoch]]
    /\ pub \in Writers \cup {"none"}
    /\ quic \in Epochs /\ health \subseteq 1..MaxGen
    /\ active \in 0..MaxEpoch /\ retired \subseteq Epochs
    /\ act \in [Epochs -> BOOLEAN] /\ stop \in [Epochs -> BOOLEAN]
    /\ pred \in [Epochs -> 0..MaxEpoch]
    /\ wk \in [Epochs -> [Socks -> {"none", "gate", "unstarted", "serve", "wait",
                                    "cancelling", "draining", "gone"}]]
    /\ acked \in [Epochs -> SUBSET Socks]
    /\ conn \in [Conns -> [at : {"none", "backlog", "cqe", "raced", "open", "done",
                                 "cut"},
                           s : Socks, r : 0..MaxEpoch]]
    /\ grace \in BOOLEAN
    /\ main \in {"run", "closed", "down", "quiet", "over"}

Init ==
    /\ Socks \in Layouts
    /\ holder = [gen |-> 1, epoch |-> 1]
    /\ wr = [w \in Writers |-> WriterIdle]
    /\ pub = "none" /\ quic = 1 /\ health = {1}
    /\ active = 1 /\ retired = {}
    /\ act = [r \in Epochs |-> r = 1]
    /\ stop = [r \in Epochs |-> FALSE]
    /\ pred = [r \in Epochs |-> None]
    /\ wk = [r \in Epochs |-> [s \in Socks |-> IF r = 1 THEN "gate" ELSE "none"]]
    /\ acked = [r \in Epochs |-> {}]
    /\ conn \in [Conns -> [at : {"none"}, s : Socks, r : {None}]]
    /\ grace = FALSE /\ main = "run"

-----------------------------------------------------------------------------
(* Tokens and ownership *)

\* A group's token is a child of the process token, which main cancels.
Cancelled(r) == stop[r] \/ main \in {"down", "quiet", "over"}

\* Resource sets some owner still holds: the slots and the admin's candidate.
Owned == ({active, wr["admin"].res} \cup retired) \ {None}

\* receiver_count() > 1: besides the group's own receiver, a successor's
\* AcceptHandoff is alive.
HasSuccessor(r) == \E n \in Owned : pred[n] = r

\* Threads that were spawned and have ended.
IsFinished(r) == \A s \in Socks : wk[r][s] = "gone"

\* The acknowledgments a worker's ActivationGate waits for: every worker of
\* the predecessor's TCP group, or its one AF_UNIX worker.
Predecessors(s) == Socks \cap (IF s \in Tcp THEN Tcp ELSE Uds)

PredecessorsStopped(r, s) == pred[r] # None => Predecessors(s) \subseteq acked[pred[r]]

LockFree == \A w \in Writers : wr[w].pc = "idle"
HasCapacity == Cardinality(retired) < Retiring

Raced(r) == {c \in Conns : conn[c].at = "raced" /\ conn[c].r = r}
Completed(r, s) == {c \in Conns : conn[c].at = "cqe" /\ conn[c].r = r /\ conn[c].s = s}
OpenOn(r, s) == {c \in Conns : conn[c].at = "open" /\ conn[c].r = r /\ conn[c].s = s}

\* The connections of C go to `at` of generation r, or are over.
Moved(cs, C, at, r) ==
    [c \in Conns |->
       IF c \notin C THEN cs[c]
       ELSE [cs[c] EXCEPT !.at = at, !.r = IF at \in {"done", "cut"} THEN None ELSE r]]

\* AcceptRetirement::transfer: into the group's queue when a successor holds
\* a receiver, otherwise the descriptor closes.
Transferred(cs, C, r) ==
    IF HasSuccessor(r) THEN Moved(cs, C, "raced", r) ELSE Moved(cs, C, "cut", r)

\* Dropping owners also drops the queues nobody can receive from any more.
DropQueues(cs, owned) ==
    LET orphans == {c \in Conns : /\ cs[c].at = "raced" /\ cs[c].r \notin owned
                                  /\ \A n \in owned : pred[n] # cs[c].r}
    IN  Moved(cs, orphans, "cut", None)

SetWk(r, s, to) == wk' = [wk EXCEPT ![r][s] = to]
Ack(r, s) == acked' = [acked EXCEPT ![r] = @ \cup {s}]

-----------------------------------------------------------------------------
(* Worker threads *)

\* ActivationGate::wait returns true: activated, every predecessor stopped,
\* not shut down.
GateOpens(r, s) ==
    /\ wk[r][s] = "gate"
    /\ ~Cancelled(r) /\ act[r] /\ PredecessorsStopped(r, s)
    /\ SetWk(r, s, "serve")
    /\ UNCHANGED <<pubVars, wr, pred, acked, conn, grace, main>>

\* Mutant of GateShut: a worker stopped at its gate never waits for its
\* predecessors.
GateShutEager(r, s) ==
    /\ wk[r][s] = "gate"
    /\ Cancelled(r)
    /\ SetWk(r, s, "gone") /\ Ack(r, s)
    /\ UNCHANGED <<pubVars, wr, pred, conn, grace, main>>

\* wait returns false.  retire_unstarted keeps an activated TCP worker until
\* its predecessors stopped; everyone else acknowledges and returns at once.
GateShut(r, s) ==
    /\ wk[r][s] = "gate"
    /\ Cancelled(r)
    /\ IF s \in Tcp /\ act[r] /\ pred[r] # None
       THEN SetWk(r, s, "unstarted") /\ UNCHANGED acked
       ELSE SetWk(r, s, "gone") /\ Ack(r, s)
    /\ UNCHANGED <<pubVars, wr, pred, conn, grace, main>>

\* The rest of retire_unstarted: predecessors stopped, or the bound elapsed;
\* what they raced into our queue goes on to our own successor.
RetireUnstarted(r, s) ==
    /\ wk[r][s] = "unstarted"
    /\ \/ PredecessorsStopped(r, s) /\ UNCHANGED grace
       \/ ~PredecessorsStopped(r, s) /\ grace' = TRUE
    /\ conn' = Transferred(conn, Raced(pred[r]), r)
    /\ SetWk(r, s, "gone") /\ Ack(r, s)
    /\ UNCHANGED <<pubVars, wr, pred, main>>

\* A connection completes its handshake in the kernel's accept queue.
Arrive(c) ==
    /\ conn[c].at = "none"
    /\ conn' = [conn EXCEPT ![c].at = "backlog"]
    /\ UNCHANGED <<pubVars, wr, pred, wk, acked, grace, main>>

\* The armed accept of a worker completes: multishot for TCP, one at a time
\* for AF_UNIX.  It stays armed until its cancellation is reaped.
Armed(r, s) == wk[r][s] \in {"serve", "wait", "cancelling"}

KernelAccept(r, s, c) ==
    /\ Armed(r, s)
    /\ s \in Uds => Completed(r, s) = {}
    /\ conn[c].at = "backlog" /\ conn[c].s = s
    /\ conn' = [conn EXCEPT ![c].at = "cqe", ![c].r = r]
    /\ UNCHANGED <<pubVars, wr, pred, wk, acked, grace, main>>

\* One turn of accept_drain_loop starts with the raced queue and only then
\* waits for the kernel.
PollRaced(r, s) ==
    /\ wk[r][s] = "serve" /\ ~Cancelled(r)
    /\ IF s \in Tcp /\ pred[r] # None /\ Raced(pred[r]) # {}
       THEN \E c \in Raced(pred[r]), at \in {"open", "done"} :
              /\ conn' = [Moved(conn, {c}, at, r) EXCEPT ![c].s = s]
              /\ UNCHANGED wk
       ELSE SetWk(r, s, "wait") /\ UNCHANGED conn
    /\ UNCHANGED <<pubVars, wr, pred, acked, grace, main>>

\* An accepted connection is served, or refused at the connection cap.
Accepted(r, s) ==
    /\ wk[r][s] = "wait" /\ ~Cancelled(r)
    /\ \E c \in Completed(r, s), at \in {"open", "done"} : conn' = Moved(conn, {c}, at, r)
    /\ SetWk(r, s, "serve")
    /\ UNCHANGED <<pubVars, wr, pred, acked, grace, main>>

\* The loop sees the shutdown token and cancels its kernel accept.
CancelAccept(r, s) ==
    /\ wk[r][s] \in {"serve", "wait"} /\ Cancelled(r)
    /\ SetWk(r, s, "cancelling")
    /\ UNCHANGED <<pubVars, wr, pred, acked, conn, grace, main>>

\* A completion that won against the cancellation: a TCP connection goes to
\* the successor, an AF_UNIX one is served by this draining generation.
ReapCompletion(r, s) ==
    /\ wk[r][s] = "cancelling"
    /\ \E c \in Completed(r, s) :
         IF s \in Tcp THEN conn' = Transferred(conn, {c}, r)
         ELSE \E at \in {"open", "done"} : conn' = Moved(conn, {c}, at, r)
    /\ UNCHANGED <<pubVars, wr, pred, wk, acked, grace, main>>

\* Mutant of AcceptStopped: the inherited queue is not forwarded.
AcceptStoppedForgets(r, s) ==
    /\ wk[r][s] = "cancelling" /\ Completed(r, s) = {}
    /\ Ack(r, s) /\ SetWk(r, s, "draining")
    /\ UNCHANGED <<pubVars, wr, pred, conn, grace, main>>

\* Mutant of AcceptStopped: the stop is not acknowledged.
AcceptStoppedSilent(r, s) ==
    /\ wk[r][s] = "cancelling" /\ Completed(r, s) = {}
    /\ SetWk(r, s, "draining")
    /\ UNCHANGED <<pubVars, wr, pred, acked, conn, grace, main>>

\* The accept is gone from the kernel: forward what is left of the queue we
\* inherited, acknowledge, drain.
AcceptStopped(r, s) ==
    /\ wk[r][s] = "cancelling" /\ Completed(r, s) = {}
    /\ conn' = IF s \in Tcp /\ pred[r] # None THEN Transferred(conn, Raced(pred[r]), r)
                                              ELSE conn
    /\ Ack(r, s) /\ SetWk(r, s, "draining")
    /\ UNCHANGED <<pubVars, wr, pred, grace, main>>

\* The drain ends when the connections did, or after URING_DRAIN_GRACE.
DrainEnds(r, s) ==
    /\ wk[r][s] = "draining"
    /\ conn' = Moved(conn, OpenOn(r, s), "cut", r)
    /\ grace' = (grace \/ OpenOn(r, s) # {})
    /\ SetWk(r, s, "gone")
    /\ UNCHANGED <<pubVars, wr, pred, acked, main>>

Finish(c) ==
    /\ conn[c].at = "open"
    /\ conn' = Moved(conn, {c}, "done", None)
    /\ UNCHANGED <<pubVars, wr, pred, wk, acked, grace, main>>

Worker(r, s) ==
    \/ GateOpens(r, s) \/ GateShut(r, s) \/ RetireUnstarted(r, s)
    \/ PollRaced(r, s) \/ Accepted(r, s)
    \/ CancelAccept(r, s) \/ ReapCompletion(r, s) \/ AcceptStopped(r, s) \/ DrainEnds(r, s)
    \/ \E c \in Conns : KernelAccept(r, s, c)

-----------------------------------------------------------------------------
(* Configuration writers *)

\* The transaction ends and its writer lock is free again.
Released(w) == [wr EXCEPT ![w] = WriterIdle]

\* Trust epochs are fresh allocations; the model numbers them in order.
Unused(r) == \A s \in Socks : wk[r][s] = "none"
FreshEpoch == {r \in Epochs : Unused(r) /\ \A q \in 1..(r - 1) : ~Unused(q)}

\* The trust epochs a candidate may have: ServerState::reload keeps the
\* current one, the control endpoint gives a trust change a fresh one.
CandidateEpochs(w) == {holder.epoch} \cup (IF w = "admin" THEN FreshEpoch ELSE {})

\* begin() takes the writer lock and the current state; the candidate is built
\* from that state with the lock held.  SIGHUP is handled inside the main loop;
\* the control endpoint serves until the process token is cancelled, and a
\* submission that names another revision than this state's ends at once.
Begin(w) ==
    /\ LockFree
    /\ main \in IF w = "hup" THEN {"run"} ELSE {"run", "closed"}
    /\ holder.gen < MaxGen /\ holder.gen * Cardinality(Socks) < MaxSpan
    /\ \E epoch \in CandidateEpochs(w) :
         wr' = [wr EXCEPT
                  ![w].pc = IF epoch = holder.epoch THEN "ready" ELSE "built",
                  ![w].cur = holder,
                  ![w].next = [gen |-> holder.gen + 1, epoch |-> epoch]]
    /\ UNCHANGED <<pubVars, pred, wk, acked, conn, grace, main>>

\* candidate_view, tcp_handoff, acquire_uds: what a candidate needs of the
\* current owner, under the publication mutex.
CandidateAdmitted(w) ==
    /\ pub = "none" /\ main = "run"
    /\ wr[w].cur = holder /\ HasCapacity
    /\ active # None /\ active = wr[w].cur.epoch
    /\ act[active] /\ ~Cancelled(active)
    /\ \A s \in Socks : wk[active][s] # "gone" /\ s \notin acked[active]

\* prepare_tcp_workers: inherit the sockets, spawn the workers up to their
\* activation gate and bind them to the predecessor's acknowledgments.
Prepare(w) ==
    /\ wr[w].pc = "built"
    /\ CandidateAdmitted(w)
    /\ LET r == wr[w].next.epoch IN
       /\ wr' = [wr EXCEPT ![w].pc = "ready", ![w].res = r]
       /\ pred' = [pred EXCEPT ![r] = active]
       /\ wk' = [wk EXCEPT ![r] = [s \in Socks |-> "gate"]]
    /\ UNCHANGED <<pubVars, acked, conn, grace, main>>

\* A refused or invalid submission, a build error or timeout, a refused
\* publication, validate-only: the transaction ends without publishing, and
\* dropping the candidate signals its workers.
Abandon(w) ==
    /\ wr[w].pc \in {"built", "ready"}
    /\ stop' = [r \in Epochs |-> stop[r] \/ r = wr[w].res]
    /\ wr' = [wr EXCEPT ![w].pc = "dropping"]
    /\ UNCHANGED <<holder, pub, quic, health, active, retired, act, pred, wk, acked,
                   conn, grace, main>>

\* The drop joins them before the writer lock is released.
JoinCandidate(w) ==
    /\ wr[w].pc = "dropping"
    /\ wr[w].res # None => IsFinished(wr[w].res)
    /\ wr' = Released(w)
    /\ conn' = DropQueues(conn, Owned \ {wr[w].res})
    /\ UNCHANGED <<pubVars, pred, wk, acked, grace, main>>

\* The epoch rule of publish_inner depends on whether the transaction brings
\* resources.
ResourcesFit(w) ==
    IF wr[w].res = None THEN wr[w].next.epoch = wr[w].cur.epoch
    ELSE /\ wr[w].next.epoch = wr[w].res /\ wr[w].res # wr[w].cur.epoch
         /\ ~act[wr[w].res] /\ ~Cancelled(wr[w].res)
         /\ \A s \in Socks : wk[wr[w].res][s] # "gone"
         /\ active = wr[w].cur.epoch
         /\ HasCapacity

\* Mutant of MayPublish: a closed coordinator still publishes.
MayPublishClosed(w) == wr[w].cur = holder /\ ResourcesFit(w)

\* publish_inner's checks.
MayPublish(w) == main = "run" /\ wr[w].cur = holder /\ ResourcesFit(w)

\* First half, under the publication mutex: the state is visible to every
\* lock-free reader from here on.
PublishState(w) ==
    /\ wr[w].pc = "ready" /\ pub = "none"
    /\ MayPublish(w)
    /\ holder' = wr[w].next
    /\ pub' = w
    /\ wr' = [wr EXCEPT ![w].pc = "storing"]
    /\ UNCHANGED <<quic, health, active, retired, act, stop, pred, wk, acked, conn,
                   grace, main>>

\* ResourceSlots::replace: the old set is stopped and moved to a free slot,
\* then the new one is activated.
Replace(r) ==
    /\ stop' = [stop EXCEPT ![active] = TRUE]
    /\ retired' = retired \cup {active}
    /\ active' = r
    /\ act' = [act EXCEPT ![r] = TRUE]

\* Mutant of PublishResources: the old pool's health checks keep running.
PublishResourcesLeaky(w) ==
    /\ wr[w].pc = "storing"
    /\ quic' = wr[w].next.epoch
    /\ health' = health \cup {wr[w].next.gen}
    /\ IF wr[w].res = None THEN UNCHANGED <<active, retired, act, stop>>
                           ELSE Replace(wr[w].res)
    /\ pub' = "none"
    /\ wr' = Released(w)
    /\ UNCHANGED <<holder, pred, wk, acked, conn, grace, main>>

\* Second half: QUIC policy, health checks, transport resources; then both
\* locks are released.
PublishResources(w) ==
    /\ wr[w].pc = "storing"
    /\ quic' = wr[w].next.epoch
    /\ health' = (health \ {wr[w].cur.gen}) \cup {wr[w].next.gen}
    /\ IF wr[w].res = None THEN UNCHANGED <<active, retired, act, stop>>
                           ELSE Replace(wr[w].res)
    /\ pub' = "none"
    /\ wr' = Released(w)
    /\ UNCHANGED <<holder, pred, wk, acked, conn, grace, main>>

Writer(w) ==
    \/ Begin(w) \/ Prepare(w)
    \/ Abandon(w) \/ JoinCandidate(w)
    \/ PublishState(w) \/ PublishResources(w)

-----------------------------------------------------------------------------
(* The main thread: its loop runs one branch at a time, a reload to its end *)

InMainLoop == main = "run" /\ wr["hup"].pc = "idle"

\* reap_retired: finished owners leave their slots and are joined.
Reap(r) ==
    /\ InMainLoop /\ pub = "none"
    /\ r \in retired /\ IsFinished(r)
    /\ retired' = retired \ {r}
    /\ conn' = DropQueues(conn, Owned \ {r})
    /\ UNCHANGED <<holder, wr, pub, quic, health, active, act, stop, pred, wk, acked,
                   grace, main>>

\* Coordinator::close: no publication after this one.
Close ==
    /\ InMainLoop /\ pub = "none"
    /\ main' = "closed"
    /\ stop' = [r \in Epochs |-> stop[r] \/ r = active \/ r \in retired]
    /\ UNCHANGED <<holder, wr, pub, quic, health, active, retired, act, pred, wk, acked,
                   conn, grace>>

\* state.shutdown.cancel(): every worker token is a child of it.
CancelProcess ==
    /\ main = "closed"
    /\ main' = "down"
    /\ UNCHANGED <<pubVars, wr, pred, wk, acked, conn, grace>>

\* holder.load().proxy.pool().stop_health_checks()
StopHealth ==
    /\ main = "down"
    /\ main' = "quiet"
    /\ health' = health \ {holder.gen}
    /\ UNCHANGED <<holder, wr, pub, quic, active, retired, act, stop, pred, wk, acked,
                   conn, grace>>

\* finish_shutdown takes the owners and joins their workers.
FinishShutdown ==
    /\ main = "quiet" /\ pub = "none"
    /\ \A r \in {active} \cup retired : r # None => IsFinished(r)
    /\ main' = "over"
    /\ active' = None /\ retired' = {}
    /\ conn' = DropQueues(conn, {wr["admin"].res} \ {None})
    /\ UNCHANGED <<holder, wr, pub, quic, health, act, stop, pred, wk, acked, grace>>

Shutdown == CancelProcess \/ StopHealth \/ FinishShutdown

Next ==
    /\ \/ \E r \in Epochs : \E s \in Socks : Worker(r, s)
       \/ \E c \in Conns : Arrive(c) \/ Finish(c)
       \/ \E w \in Writers : Writer(w)
       \/ \E r \in Epochs : Reap(r)
       \/ Close \/ Shutdown
    /\ UNCHANGED Socks

Spec == Init /\ [][Next]_vars

\* Worker threads, the kernel, the reaper's tick and a writer that has begun
\* always go on; arrivals, submissions and the stop signal need not happen.
Fairness ==
    /\ \A r \in Epochs, s \in Tcp \cup Uds :
         WF_vars(s \in Socks /\ Worker(r, s) /\ UNCHANGED Socks)
    /\ \A w \in Writers :
         WF_vars((Abandon(w) \/ JoinCandidate(w) \/ PublishResources(w)) /\ UNCHANGED Socks)
    /\ \A r \in Epochs : WF_vars(Reap(r) /\ UNCHANGED Socks)
    /\ WF_vars(Shutdown /\ UNCHANGED Socks)

LiveSpec == Spec /\ Fairness

-----------------------------------------------------------------------------
(* Properties *)

\* Two transport generations never have an accept armed on the same TCP
\* socket: the activation gate holds a successor back until every worker of
\* its predecessor has reaped its cancelled accept, also when a third
\* generation is published before the second one started.  Only an expired
\* drain bound breaks the chain.  The AF_UNIX gate, whose worker acknowledges
\* as soon as it is stopped, keeps apart only neighbours.
OneAcceptor ==
    \A r, q \in Epochs : \A s \in Socks :
      (Armed(r, s) /\ Armed(q, s) /\ r # q) =>
         grace \/ (s \in Uds /\ pred[q] # r /\ pred[r] # q)

\* While the process runs no accepted connection is closed unserved: what a
\* retiring worker's kernel accept completed too late reaches the newest
\* generation through the raced queues, over any number of publications,
\* unless a drain bound expired.
NoConnectionCut ==
    \A c \in Conns : conn[c].at = "cut" => main # "run" \/ grace

\* Outside a publication, the published state, the active transport
\* resources, the QUIC accept policy and the running health checks belong
\* together, and an activated worker has an owner that will join it.
PublishedTogether ==
    /\ pub = "none" /\ main = "run" =>
         /\ active = holder.epoch /\ quic = holder.epoch
         /\ health = {holder.gen}
         /\ act[active] /\ ~stop[active]
    /\ \A r \in Epochs : (act[r] /\ ~IsFinished(r)) => r \in Owned

\* A connection in a listening socket's accept queue, in a completion or in
\* a raced queue is taken up by some generation, unless the process stops or
\* a drain bound expired: no chain of gates waits for ever.
Answered ==
    \A c \in Conns :
      conn[c].at \in {"backlog", "cqe", "raced"} ~>
        (conn[c].at \notin {"backlog", "cqe", "raced"} \/ main # "run" \/ grace)

\* A stop signal ends every worker and every health check, whatever
\* transaction was under way.
ShutdownCompletes ==
    main = "closed" ~>
      (main = "over" /\ health = {} /\ \A r \in Epochs : IsFinished(r) \/ Unused(r))
=============================================================================
