-------------------------- MODULE LsphpSupervisor --------------------------
(***************************************************************************)
(* The owner of a pool of lsphp workers: the supervisor's lifecycle        *)
(* transactions (start, drain, debounced restart, kill and restart,        *)
(* candidate-first hot reload), the monitor task that triggers them, and   *)
(* the stop of the process.                                                *)
(*                                                                         *)
(* Every spawned master leads a process family named by its generation     *)
(* marker.  A family is two processes here, the prefork master and one     *)
(* worker; a worker can be wedged in a state that defers SIGKILL.  Masters *)
(* crash, spawns and readiness checks fail, transactions are dropped at an *)
(* await, and the ticker, a reload request and the stop compete for the    *)
(* lifecycle lock, which tokio hands out in order of arrival.              *)
(***************************************************************************)
EXTENDS Naturals, Sequences

CONSTANTS
    Sources,      \* socket sources to consider, a subset of {"Bind", "Inherited"}
    MaxCleanups,  \* MAX_CLEANUP_FAILURES_PER_MARKER
    MaxEvents     \* bound: crashed masters, wedged workers, failed spawns, probes, scans
                  \* and signals, dropped futures, reload commands, hung requests, nudges

ASSUME SupervisorAssumption ==
    /\ Sources \subseteq {"Bind", "Inherited"}
    /\ MaxCleanups \in Nat \ {0} /\ MaxEvents \in Nat

VARIABLES
    source,     \* cfg.socket_source
    inner,      \* Inner
    bound,      \* whether bound_socket holds a socket
    fam,        \* the process family of each marker
    next,       \* the marker of the next family
    op,         \* the transaction that holds the lifecycle lock
    queue,      \* the ones waiting for it, in order
    ticker,     \* the monitor task
    nudge,      \* restart_req
    hung,       \* whether a tracked request is past its limit
    watched,    \* the state last published to handlers
    poolGen,    \* the generation of the connection pool
    published,  \* the family announced to other processes
    cancel,     \* the shutdown token
    stop,       \* the stop of the process
    left        \* how many of the bounded events may still happen

procVars == <<fam, next>>
monVars == <<ticker, nudge, hung, watched>>
pubVars == <<poolGen, published>>
vars == <<source, inner, bound, procVars, op, queue, monVars, pubVars, cancel, stop, left>>

\* Every spawn but the first is owed to a bounded event.
MaxSpawns == 1 + MaxEvents
Families == 1 .. MaxSpawns
None == 0
Retired == MaxSpawns + 1   \* RETIRED_MARKER_FINGERPRINT: no family carries it

WorkerState == {"NotStarted", "Starting", "Good", "Bad", "Draining"}
Kinds == {"start", "restart_debounced", "kill_and_restart", "hot_reload", "drain_graceful"}

NoOp == [kind |-> "none", pc |-> "free", phase |-> "none", restore |-> "disarmed",
         cand |-> None, old |-> None, guard |-> None, skipped |-> {}, error |-> FALSE]

\* The lock is free: poll_liveness's try_lock succeeds.
Unlocked == op = NoOp /\ queue = <<>>

Marks == Families \cup {None}
Inner == [child : Marks, child_marker : Marks, retired_markers : SUBSET Families,
          cleanup_failures : [Families -> 0 .. MaxCleanups], state : WorkerState,
          generation : Nat, recent : BOOLEAN, restart_failures : BOOLEAN]
Family == [procs : SUBSET {"master", "worker"}, stopped : BOOLEAN, retiring : BOOLEAN,
           wedged : BOOLEAN, crashed : BOOLEAN]
Transactions == [kind : Kinds \cup {"none"},
                 pc : {"free", "backoff", "clean", "spawn", "ready", "quiesce", "stopped", "grace", "force"},
                 phase : {"none", "start", "drain", "hot"}, restore : WorkerState \cup {"disarmed"},
                 cand : Marks, old : Marks, guard : Marks, skipped : SUBSET Families, error : BOOLEAN]
Tickers == [pc : {"off", "select", "waiting", "after", "done"}, kind : Kinds, ok : BOOLEAN]

\* Type correctness: Inner, the families, the running transaction and the queue for
\* the lifecycle lock have the shapes the supervisor gives them.
TypeOK ==
    /\ source \in Sources
    /\ inner \in Inner
    /\ bound \in BOOLEAN
    /\ fam \in [Families -> Family]
    /\ next \in Nat \ {0}
    /\ op \in Transactions
    /\ queue \in Seq(Kinds)
    /\ ticker \in Tickers
    /\ nudge \in BOOLEAN /\ hung \in BOOLEAN /\ watched \in WorkerState
    /\ poolGen \in Nat /\ published \in Marks \cup {Retired}
    /\ cancel \in BOOLEAN /\ stop \in {"run", "retired", "join", "drain", "stopped", "exited"}
    /\ left \in Nat

Init ==
    /\ source \in Sources
    /\ inner = [child |-> None, child_marker |-> None, retired_markers |-> {},
                cleanup_failures |-> [m \in Families |-> 0], state |-> "NotStarted",
                generation |-> 0, recent |-> FALSE, restart_failures |-> FALSE]
    /\ bound = FALSE
    /\ fam = [m \in Families |-> [procs |-> {}, stopped |-> FALSE, retiring |-> FALSE,
                                  wedged |-> FALSE, crashed |-> FALSE]]
    /\ next = 1
    /\ op = NoOp /\ queue = <<"start">>
    /\ ticker = [pc |-> "off", kind |-> "start", ok |-> TRUE]
    /\ nudge = FALSE /\ hung = FALSE /\ watched = "NotStarted"
    /\ poolGen = 0 /\ published = None
    /\ cancel = FALSE /\ stop = "run"
    /\ left = MaxEvents

Spend == left > 0 /\ left' = left - 1
\* A step that either works or fails for a reason of its own.
Outcome(fails) == IF fails THEN Spend ELSE UNCHANGED left

-----------------------------------------------------------------------------
(* Process families.                                                       *)

Gone(f, m) == f[m].procs = {}
Signalled(f, m) == [f EXCEPT ![m].stopped = FALSE, ![m].retiring = TRUE]
Resumed(f, m) == IF m = None THEN f ELSE [f EXCEPT ![m].stopped = FALSE]
\* SIGKILL to every member: only a wedged worker stays.
Killed(f, m) ==
    IF m = None THEN f
    ELSE [f EXCEPT ![m].stopped = FALSE,
                   ![m].procs = IF f[m].wedged THEN @ \cap {"worker"} ELSE {}]
\* A dropped Child handle kills the master (kill_on_drop).
ChildDropped(f, m) == IF m = None THEN f ELSE [f EXCEPT ![m].procs = @ \ {"master"}]

-----------------------------------------------------------------------------
(* How a transaction ends.                                                 *)

\* StateRollback::new: what a dropped transaction puts the state back to.
Stable(s) == IF s \in {"Starting", "Draining"} THEN "Bad" ELSE s

\* Mutant: the candidate is not covered by a marker guard
Unwound_LosesCandidate(in, o) ==
    [in EXCEPT !.retired_markers = @ \cup ({o.guard} \ {None}),
               !.state = IF o.restore = "disarmed" THEN @ ELSE o.restore]
\* The guards of a transaction that does not finish: its markers are kept for a
\* later cleanup, its state is rolled back.
Unwound(in, o) ==
    [in EXCEPT !.retired_markers = @ \cup ({o.cand, o.guard} \ {None}),
               !.state = IF o.restore = "disarmed" THEN @ ELSE o.restore]

UnwoundProcs(f, o) == ChildDropped(ChildDropped(Resumed(f, o.old), o.cand), o.guard)

\* restart_debounced counts the result of the reload or start; an error of the
\* drain before the start is passed on uncounted.
Accounted(in, ok) ==
    IF op.kind # "restart_debounced" \/ op.phase \in {"none", "drain"} THEN in
    ELSE IF ok THEN [in EXCEPT !.restart_failures = FALSE]
    ELSE [in EXCEPT !.restart_failures = TRUE,
                    !.state = IF in.child # None THEN "Good" ELSE "Bad"]

Return(in, f, ok) ==
    /\ inner' = Accounted(in, ok) /\ fam' = f /\ op' = NoOp
    /\ ticker' =
         IF op.kind \in {"restart_debounced", "kill_and_restart"} \/ (op.kind = "start" /\ ok)
         THEN [pc |-> "after", kind |-> op.kind, ok |-> ok] ELSE ticker
    /\ stop' = IF op.kind = "drain_graceful" \/ (op.kind = "start" /\ ~ok) THEN "stopped" ELSE stop

Fail(in, o, f) == Return(Unwound(in, o), UnwoundProcs(f, o), FALSE)

Goto(o, in, f) == op' = o /\ inner' = in /\ fam' = f /\ UNCHANGED <<ticker, stop>>

Still == UNCHANGED <<source, queue, nudge, hung, watched, cancel>>

-----------------------------------------------------------------------------
(* How it begins: the prologues up to the first await.                     *)

StartLocked(k, in, previous) ==
    /\ op' = [NoOp EXCEPT !.kind = k, !.pc = "clean", !.phase = "start", !.restore = Stable(previous)]
    /\ inner' = [in EXCEPT !.state = "Starting"]

DrainLocked(k, in) ==
    /\ op' = [NoOp EXCEPT !.kind = k, !.pc = "clean", !.phase = "drain", !.restore = Stable(in.state)]
    /\ inner' = [in EXCEPT !.state = "Draining"]

HotReloadLocked(k, in) ==
    /\ op' = [NoOp EXCEPT !.kind = k, !.pc = "clean", !.phase = "hot"]
    /\ inner' = in

\* can_hot_reload
Replace(k, in) ==
    IF source = "Inherited" /\ in.child # None THEN HotReloadLocked(k, in) ELSE DrainLocked(k, in)

\* The next waiter takes the lock.
Enter(k) == op = NoOp /\ queue # <<>> /\ Head(queue) = k /\ queue' = Tail(queue)
Entering == UNCHANGED <<source, bound, procVars, nudge, hung, watched, pubVars, cancel, left>>

EnterStart == Enter("start") /\ StartLocked("start", inner, inner.state) /\ Entering /\ UNCHANGED <<ticker, stop>>
EnterDrain == Enter("drain_graceful") /\ DrainLocked("drain_graceful", inner) /\ Entering /\ UNCHANGED <<ticker, stop>>
EnterKill == Enter("kill_and_restart") /\ Replace("kill_and_restart", inner) /\ Entering /\ UNCHANGED <<ticker, stop>>

EnterReload ==
    /\ Enter("hot_reload") /\ Entering /\ UNCHANGED <<ticker, stop>>
    /\ IF source = "Inherited" THEN HotReloadLocked("hot_reload", inner) ELSE UNCHANGED <<inner, op>>

Debounced == inner.state \in {"Starting", "Draining"} \/ inner.recent

EnterRestart ==
    /\ Enter("restart_debounced") /\ Entering /\ UNCHANGED stop
    /\ IF Debounced
       THEN /\ ticker' = [pc |-> "after", kind |-> "restart_debounced", ok |-> TRUE]
            /\ UNCHANGED <<inner, op>>
       ELSE LET in == [inner EXCEPT !.recent = TRUE] IN
            /\ UNCHANGED ticker
            /\ IF inner.restart_failures
               THEN inner' = in /\ op' = [NoOp EXCEPT !.kind = "restart_debounced", !.pc = "backoff"]
               ELSE Replace("restart_debounced", in)

BackedOff ==
    /\ op.pc = "backoff" /\ Replace(op.kind, inner)
    /\ Still /\ UNCHANGED <<bound, procVars, ticker, pubVars, stop, left>>

BackoffCancelled ==
    /\ op.pc = "backoff" /\ cancel /\ Return(inner, fam, TRUE)
    /\ Still /\ UNCHANGED <<bound, next, pubVars, left>>

-----------------------------------------------------------------------------
(* cleanup_retired_markers, run by every transaction before it acts.       *)

Pending == inner.retired_markers \ op.skipped
BadUnlessServing(in) == [in EXCEPT !.state = IF in.child # None THEN "Good" ELSE "Bad"]
Disarmed(o) == [o EXCEPT !.restore = "disarmed"]

\* Mutant: a family that cannot be killed fails every transaction
Skips_Never(failures) == FALSE
Skips(failures) == failures >= MaxCleanups

CleanupError(in, f) ==
    CASE op.phase = "drain" -> Fail(BadUnlessServing(in), Disarmed(op), f)
      [] op.phase = "start" -> Fail([in EXCEPT !.state = "Bad"], Disarmed(op), f)
      [] OTHER -> Fail(in, op, f)

\* One marker: killed and forgotten, or counted, and passed over after too many tries.
CleanupMarker ==
    /\ op.pc = "clean"
    /\ \E m \in Pending, fails \in BOOLEAN :
         LET f == Killed(fam, m)
             n == IF inner.cleanup_failures[m] < MaxCleanups THEN inner.cleanup_failures[m] + 1 ELSE MaxCleanups
             counted == [inner EXCEPT !.cleanup_failures[m] = n] IN
         /\ Outcome(fails)
         /\ IF Gone(f, m) /\ ~fails
            THEN Goto(op, [inner EXCEPT !.retired_markers = @ \ {m}, !.cleanup_failures[m] = 0], f)
            ELSE IF Skips(n) THEN Goto([op EXCEPT !.skipped = @ \cup {m}], counted, f)
            ELSE CleanupError(counted, f)
    /\ Still /\ UNCHANGED <<bound, next, pubVars>>

-----------------------------------------------------------------------------
(* drain_inner_locked.                                                     *)

\* Mutant: the rollback still restores the state from before the child was taken
TakeChild_OldState ==
    /\ op.pc = "clean" /\ op.phase = "drain" /\ Pending = {} /\ inner.child # None
    /\ Goto([op EXCEPT !.pc = "quiesce", !.old = inner.child_marker, !.guard = inner.child_marker],
            [inner EXCEPT !.child = None, !.child_marker = None], fam)
    /\ Still /\ UNCHANGED <<bound, next, pubVars, left>>
TakeChild ==
    /\ op.pc = "clean" /\ op.phase = "drain" /\ Pending = {} /\ inner.child # None
    /\ Goto([op EXCEPT !.pc = "quiesce", !.old = inner.child_marker, !.guard = inner.child_marker,
                       !.restore = "Bad"],
            [inner EXCEPT !.child = None, !.child_marker = None], fam)
    /\ Still /\ UNCHANGED <<bound, next, pubVars, left>>

\* A bound socket is unlinked; a restart goes on to start_locked.
Drained(in, f) ==
    LET out == [in EXCEPT !.state = "NotStarted"] IN
    /\ bound' = (bound /\ source = "Inherited")
    /\ IF op.kind = "drain_graceful" THEN Return(out, f, TRUE)
       ELSE /\ StartLocked(op.kind, out, IF op.kind = "restart_debounced" THEN "Starting" ELSE out.state)
            /\ fam' = f /\ UNCHANGED <<ticker, stop>>

NothingToDrain ==
    /\ op.pc = "clean" /\ op.phase = "drain" /\ Pending = {} /\ inner.child = None
    /\ Drained(inner, fam)
    /\ Still /\ UNCHANGED <<next, pubVars, left>>

\* quiesce_generation: SIGSTOP to every acceptor of the old family, then scans
\* until no new one shows up.
Quiesce ==
    /\ op.pc = "quiesce"
    /\ Goto([op EXCEPT !.pc = "stopped"], inner, [fam EXCEPT ![op.old].stopped = ~Gone(fam, op.old)])
    /\ Still /\ UNCHANGED <<bound, next, pubVars, left>>

\* A scan or signal error, or the bound on the scans: the guard resumes everyone.
DrainQuiesceFails ==
    /\ op.pc \in {"quiesce", "stopped"} /\ op.phase = "drain" /\ Spend
    /\ Goto([op EXCEPT !.pc = "force", !.error = TRUE], inner, Resumed(fam, op.old))
    /\ Still /\ UNCHANGED <<bound, next, pubVars>>

\* SIGUSR1 to the master and the idle workers, SIGCONT to all.  A master that is
\* gone may be missing from the pinned family.
SignalOutcome(fails) ==
    \/ Outcome(fails)
    \/ fails /\ "master" \notin fam[op.old].procs /\ UNCHANGED left
AfterSignals(fails) == [op EXCEPT !.pc = IF fails THEN "force" ELSE "grace", !.error = fails]

Signal ==
    /\ op.pc = "stopped" /\ op.phase = "drain"
    /\ \E fails \in BOOLEAN : SignalOutcome(fails) /\ Goto(AfterSignals(fails), inner, Signalled(fam, op.old))
    /\ Still /\ UNCHANGED <<bound, next, pubVars>>

\* finish_generation_drain.
DrainResult(f, ok) ==
    LET o == IF ok THEN [op EXCEPT !.guard = None] ELSE op IN
    CASE op.phase = "hot" -> /\ IF ok THEN Return(inner, f, TRUE) ELSE Fail(inner, o, f)
                             /\ UNCHANGED bound
      [] op.phase = "drain" /\ ok -> Drained(inner, f)
      [] OTHER -> Fail([inner EXCEPT !.state = "Bad"], Disarmed(o), f) /\ UNCHANGED bound

GraceDone ==
    /\ op.pc = "grace" /\ Gone(fam, op.old) /\ DrainResult(fam, TRUE)
    /\ Still /\ UNCHANGED <<next, pubVars, left>>

\* The deadline, the token of an abortable drain, or an error ends the wait.
GraceOver ==
    /\ op.pc = "grace" /\ ~Gone(fam, op.old)
    /\ \E fails \in BOOLEAN : Outcome(fails) /\ Goto([op EXCEPT !.pc = "force", !.error = fails], inner, fam)
    /\ Still /\ UNCHANGED <<bound, next, pubVars>>

ForceKill ==
    /\ op.pc = "force"
    /\ LET f == Killed(fam, op.old) IN DrainResult(f, Gone(f, op.old) /\ ~op.error)
    /\ Still /\ UNCHANGED <<next, pubVars, left>>

-----------------------------------------------------------------------------
(* spawn_ready_child, and the promotion by start_locked.                   *)

ReadyToSpawn ==
    /\ op.pc = "clean" /\ op.phase = "start" /\ Pending = {}
    /\ Goto([op EXCEPT !.pc = "spawn"], inner, fam)
    /\ Still /\ UNCHANGED <<bound, next, pubVars, left>>

\* Mutant: the old acceptors are stopped before the candidate has shown it can serve
CaptureOld_StopsFirst ==
    /\ op.pc = "clean" /\ op.phase = "hot" /\ Pending = {} /\ inner.child # None
    /\ Goto([op EXCEPT !.pc = "spawn", !.old = inner.child_marker, !.restore = Stable(inner.state)],
            [inner EXCEPT !.state = "Starting"],
            [fam EXCEPT ![inner.child_marker].stopped = ~Gone(fam, inner.child_marker)])
    /\ Still /\ UNCHANGED <<bound, next, pubVars, left>>
CaptureOld ==
    /\ op.pc = "clean" /\ op.phase = "hot" /\ Pending = {} /\ inner.child # None
    /\ Goto([op EXCEPT !.pc = "spawn", !.old = inner.child_marker, !.restore = Stable(inner.state)],
            [inner EXCEPT !.state = "Starting"], fam)
    /\ Still /\ UNCHANGED <<bound, next, pubVars, left>>

NothingToReload ==
    /\ op.pc = "clean" /\ op.phase = "hot" /\ Pending = {} /\ inner.child = None
    /\ Fail(inner, op, fam)
    /\ Still /\ UNCHANGED <<bound, next, pubVars, left>>

Spawn ==
    /\ op.pc = "spawn" /\ next \in Families
    /\ Goto([op EXCEPT !.pc = "ready", !.cand = next], inner,
            [fam EXCEPT ![next].procs = {"master", "worker"}])
    /\ next' = next + 1 /\ bound' = (source = "Bind")
    /\ Still /\ UNCHANGED <<pubVars, left>>

\* start_locked turns an error of its candidate into Bad itself.
CandidateError(in, o, f) ==
    IF op.phase = "start" THEN Fail([in EXCEPT !.state = "Bad"], Disarmed(o), f) ELSE Fail(in, o, f)

\* The socket may have been bound by then.
SpawnFails ==
    /\ op.pc = "spawn" /\ Spend /\ bound' \in {bound, source = "Bind"}
    /\ CandidateError(inner, op, fam)
    /\ Still /\ UNCHANGED <<next, pubVars>>

\* discard_candidate: the marker is forgotten only when the whole family is gone.
Discarded(f) == IF Gone(Killed(f, op.cand), op.cand) THEN [op EXCEPT !.cand = None] ELSE op

\* A worker of this master executes a request.
Serves(m) == fam[m].procs = {"master", "worker"} /\ ~fam[m].wedged
Probed == op.pc = "ready" /\ Serves(op.cand)

ReadyFails ==
    /\ op.pc = "ready"
    /\ (~Serves(op.cand) /\ UNCHANGED left) \/ Spend
    /\ CandidateError(inner, Discarded(fam), Killed(fam, op.cand))
    /\ Still /\ UNCHANGED <<bound, next, pubVars>>

\* The owner publishes the family unless it is stopping; the pool moves on.
PromotionHook(generation, marker) ==
    /\ poolGen' = IF generation > poolGen THEN generation ELSE poolGen
    /\ published' = IF published = Retired THEN Retired ELSE marker

Promoted == [inner EXCEPT !.child = op.cand, !.child_marker = op.cand, !.state = "Good",
                          !.generation = @ + 1, !.restart_failures = FALSE]

StartPromotes ==
    /\ Probed /\ op.phase = "start"
    /\ PromotionHook(inner.generation + 1, op.cand)
    /\ Return(Promoted, fam, TRUE)
    /\ Still /\ UNCHANGED <<bound, next, left>>

-----------------------------------------------------------------------------
(* The rest of hot_reload_locked.                                          *)

CandidateReady ==
    /\ Probed /\ op.phase = "hot"
    /\ Goto([op EXCEPT !.pc = "quiesce"], inner, fam)
    /\ Still /\ UNCHANGED <<bound, next, pubVars, left>>

HotQuiesceFails ==
    /\ op.pc \in {"quiesce", "stopped"} /\ op.phase = "hot"
    /\ \/ Spend
       \/ op.pc = "stopped" /\ "master" \notin fam[op.cand].procs /\ UNCHANGED left
    /\ Fail(inner, Discarded(fam), Killed(fam, op.cand))
    /\ Still /\ UNCHANGED <<bound, next, pubVars>>

\* From the second stable scan to the resumed old family there is no await.
Commit ==
    /\ op.pc = "stopped" /\ op.phase = "hot" /\ "master" \in fam[op.cand].procs
    /\ PromotionHook(inner.generation + 1, op.cand)
    /\ \E fails \in BOOLEAN :
         /\ SignalOutcome(fails)
         /\ Goto([AfterSignals(fails) EXCEPT !.cand = None, !.guard = op.old, !.restore = "disarmed"],
                 [Promoted EXCEPT !.recent = TRUE], Signalled(fam, op.old))
    /\ Still /\ UNCHANGED <<bound, next>>

\* The caller of a public operation drops its future at an await.
Abort ==
    /\ op.kind \in {"start", "hot_reload", "drain_graceful"} /\ Spend
    /\ Fail(inner, op, fam)
    /\ Still /\ UNCHANGED <<bound, next, pubVars>>

-----------------------------------------------------------------------------
(* The processes and the clock.                                            *)

\* A master dies; its workers live on with the listener.
Crash(m) ==
    /\ "master" \in fam[m].procs /\ Spend
    /\ fam' = [fam EXCEPT ![m].procs = @ \ {"master"}, ![m].crashed = TRUE]
    /\ UNCHANGED <<source, inner, bound, next, op, queue, monVars, pubVars, cancel, stop>>

\* A worker enters an uninterruptible wait.
Wedge(m) ==
    /\ "worker" \in fam[m].procs /\ ~fam[m].wedged /\ Spend
    /\ fam' = [fam EXCEPT ![m].wedged = TRUE]
    /\ UNCHANGED <<source, inner, bound, next, op, queue, monVars, pubVars, cancel, stop>>

\* A family asked to retire finishes its requests.
FamilyExits(m) ==
    /\ fam[m].retiring /\ ~fam[m].stopped
    /\ fam' = Killed(fam, m) /\ fam' # fam
    /\ UNCHANGED <<source, inner, bound, next, op, queue, monVars, pubVars, cancel, stop, left>>

\* min_restart_interval has passed since last_restart.
WindowOver ==
    /\ inner.recent /\ inner' = [inner EXCEPT !.recent = FALSE]
    /\ UNCHANGED <<source, bound, procVars, op, queue, monVars, pubVars, cancel, stop, left>>

-----------------------------------------------------------------------------
(* The monitor.                                                            *)

Enqueue(kind) == queue' = Append(queue, kind)
Await(kind) == Enqueue(kind) /\ ticker' = [ticker EXCEPT !.pc = "waiting"]

\* A handler asks for a restart; wakeups coalesce.
RequestRestart ==
    /\ ticker.pc \notin {"off", "done"} /\ ~nudge /\ Spend /\ nudge' = TRUE
    /\ UNCHANGED <<source, inner, bound, procVars, op, queue, ticker, hung, watched, pubVars, cancel, stop>>

\* The oldest request in flight passes max_process_time + hung_grace.
Hang ==
    /\ ticker.pc \notin {"off", "done"} /\ ~hung /\ Spend /\ hung' = TRUE
    /\ UNCHANGED <<source, inner, bound, procVars, op, queue, ticker, nudge, watched, pubVars, cancel, stop>>

\* The ticker's select is biased: cancel, then a nudge, then the interval.
TickerStops ==
    /\ ticker.pc = "select" /\ cancel /\ ticker' = [ticker EXCEPT !.pc = "done"]
    /\ UNCHANGED <<source, inner, bound, procVars, op, queue, nudge, hung, watched, pubVars, cancel, stop, left>>

TickerNudged ==
    /\ ticker.pc = "select" /\ ~cancel /\ nudge /\ nudge' = FALSE /\ Await("restart_debounced")
    /\ UNCHANGED <<source, inner, bound, procVars, op, hung, watched, pubVars, cancel, stop, left>>

MasterDied ==
    /\ Unlocked /\ inner.state \notin {"Starting", "Draining"}
    /\ inner.child # None /\ "master" \notin fam[inner.child].procs

\* poll_liveness: what the lock holder sees, or just the state.
Polled ==
    IF MasterDied
    THEN [inner EXCEPT !.child = None, !.child_marker = None, !.state = "NotStarted",
                       !.retired_markers = @ \cup {inner.child_marker}]
    ELSE inner

Tick ==
    /\ ticker.pc = "select" /\ ~cancel /\ ~nudge
    /\ inner' = Polled /\ watched' = Polled.state
    /\ IF Polled.state \in {"NotStarted", "Bad"} THEN Await("restart_debounced")
       ELSE IF hung THEN Await("kill_and_restart")
       ELSE UNCHANGED <<queue, ticker>>
    /\ UNCHANGED <<source, bound, procVars, op, nudge, hung, pubVars, cancel, stop, left>>

\* The end of do_restart, of the hung-request branch and, after the first start,
\* of Monitor::spawn.
TickerAfter ==
    /\ ticker.pc = "after" /\ ticker' = [ticker EXCEPT !.pc = "select"]
    /\ LET bumps == ticker.ok /\ ticker.kind # "start" /\ (ticker.kind = "kill_and_restart" => inner.state = "Good") IN
       poolGen' = IF bumps /\ inner.generation > poolGen THEN inner.generation ELSE poolGen
    /\ hung' = (hung /\ ticker.kind # "kill_and_restart")
    /\ watched' = inner.state
    /\ UNCHANGED <<source, inner, bound, procVars, op, queue, nudge, published, cancel, stop, left>>

\* run_lsphp_control: one reload at a time, none once the control task is stopped.
Reload ==
    /\ stop = "run" /\ ticker.pc # "off" /\ Spend
    /\ op.kind # "hot_reload" /\ \A i \in 1 .. Len(queue) : queue[i] # "hot_reload"
    /\ Enqueue("hot_reload")
    /\ UNCHANGED <<source, inner, bound, procVars, op, monVars, pubVars, cancel, stop>>

-----------------------------------------------------------------------------
(* The stop of the owner: retire_all, then drain_all.                      *)

StopRetires ==
    /\ stop = "run" /\ ticker.pc # "off" /\ stop' = "retired" /\ published' = Retired
    /\ UNCHANGED <<source, inner, bound, procVars, op, queue, monVars, poolGen, cancel, left>>

StopCancels ==
    /\ stop = "retired" /\ stop' = "join" /\ cancel' = TRUE
    /\ UNCHANGED <<source, inner, bound, procVars, op, queue, monVars, pubVars, left>>

\* The ticker is joined, or is in a transaction that outlasts the join budget.
StopJoins ==
    /\ stop = "join" /\ ticker.pc \in {"done", "waiting"} /\ stop' = "drain" /\ Enqueue("drain_graceful")
    /\ UNCHANGED <<source, inner, bound, procVars, op, monVars, pubVars, cancel, left>>

KilledByDrop(in, f) ==
    [m \in Families |-> IF m \in in.retired_markers \cup {in.child_marker} THEN Killed(f, m)[m] ELSE f[m]]

\* Tasks are dropped, then the supervisor (Drop).
Exit ==
    /\ stop = "stopped" /\ stop' = "exited"
    /\ LET in == Unwound(inner, op) IN
       /\ fam' = KilledByDrop(in, UnwoundProcs(fam, op))
       /\ inner' = [in EXCEPT !.child = None, !.child_marker = None, !.retired_markers = {},
                              !.cleanup_failures = [m \in Families |-> 0], !.state = "NotStarted"]
    /\ op' = NoOp /\ queue' = <<>> /\ ticker' = [ticker EXCEPT !.pc = "done"]
    /\ bound' = (bound /\ source = "Inherited")
    /\ UNCHANGED <<source, next, nudge, hung, watched, pubVars, cancel, left>>

-----------------------------------------------------------------------------
Begins == EnterStart \/ EnterDrain \/ EnterKill \/ EnterReload \/ EnterRestart \/ BackedOff \/ BackoffCancelled
Cleans == CleanupMarker \/ NothingToDrain \/ TakeChild \/ ReadyToSpawn \/ CaptureOld \/ NothingToReload
Starts == Spawn \/ SpawnFails \/ ReadyFails \/ StartPromotes \/ CandidateReady \/ HotQuiesceFails \/ Commit
Drains == Quiesce \/ DrainQuiesceFails \/ Signal \/ GraceDone \/ GraceOver \/ ForceKill
Transaction == Begins \/ Cleans \/ Starts \/ Drains
Monitor == TickerStops \/ TickerNudged \/ Tick \/ TickerAfter
Stopping == StopCancels \/ StopJoins \/ Exit

Next ==
    \/ Transaction \/ Abort \/ Monitor \/ WindowOver
    \/ RequestRestart \/ Hang \/ Reload \/ StopRetires \/ Stopping
    \/ \E m \in Families : Crash(m) \/ Wedge(m) \/ FamilyExits(m)

Spec == Init /\ [][Next]_vars

\* The runtime polls its tasks, timers fire, and the lock is granted in order.
\* Nothing obliges a process to crash, a caller to act or the owner to stop.
FairSpec ==
    /\ Spec
    /\ WF_vars(Transaction) /\ WF_vars(Monitor) /\ WF_vars(Stopping) /\ WF_vars(WindowOver)

-----------------------------------------------------------------------------
(* Properties.                                                             *)

\* Every live process family is known to somebody who will end it: it serves, the
\* running transaction guards it, or it is queued for cleanup (Inner::retired_markers,
\* RetiredMarkerGuard, ReadyChild).
FamiliesOwned ==
    stop # "exited" =>
        \A m \in Families : ~Gone(fam, m) =>
            m \in {inner.child_marker, op.cand, op.guard} \cup inner.retired_markers

\* With no transaction running the state is one of the three stable ones and says
\* whether there is a child, which has its marker and, if self-bound, its socket:
\* error paths, rollbacks and dropped futures all leave it so (StateRollback).
SettledState ==
    (op = NoOp /\ stop # "exited") =>
        /\ inner.state \in {"NotStarted", "Good", "Bad"}
        /\ inner.state = "Good" <=> inner.child # None
        /\ inner.child = inner.child_marker
        /\ (inner.state = "Good" /\ source = "Bind") => bound

\* A family is left stopped by nobody: only while a handover is in progress may
\* its old acceptors be under SIGSTOP (QuiescedGeneration's drop resumes them).
NothingLeftStopped ==
    \A m \in Families : (fam[m].stopped /\ ~Gone(fam, m)) => (op.old = m /\ op.pc = "stopped")

\* With no transaction running the serving family is the one the pool's generation
\* and the published fingerprint stand for, or the owner has announced its stop.
PublishedIsServing ==
    (op = NoOp /\ inner.child # None) => (poolGen = inner.generation /\ published \in {inner.child, Retired})

Accepts(m) == "master" \in fam[m].procs /\ ~fam[m].stopped /\ ~fam[m].retiring
Ready == {inner.child} \cup (IF op.pc \in {"quiesce", "stopped"} THEN {op.cand} ELSE {})

\* A candidate-first reload never leaves the socket without an acceptor of a ready
\* family, as long as the masters involved do not die (hot_reload_locked).
HotReloadNeverDeaf ==
    (op.phase = "hot" /\ \A m \in {inner.child, op.cand} \ {None} : ~fam[m].crashed) =>
        (inner.child # None => \E m \in Ready \ {None} : Accepts(m))

\* After the owner is gone only processes that cannot be killed remain (Drop).
ExitLeavesOnlyWedged == stop = "exited" => \A m \in Families : Gone(fam, m) \/ fam[m].wedged

\* Every running family has an owner that will end it, through
\* failed probes, dropped futures and failed cleanups, and when the owner is gone
\* nothing of it runs but workers the kernel will not let die.
FamiliesAccounted == FamiliesOwned /\ ExitLeavesOnlyWedged

\* With no transaction running, the state handlers read is that
\* of the workers, the pool's generation is that of the family that serves, and no
\* family is left stopped by an aborted hot reload.
Settled == SettledState /\ NothingLeftStopped /\ PublishedIsServing

\* A pool found dead or bad serves again and handlers hear of it, or the owner
\* stops: however it failed, the monitor's debounced restarts get there, past a
\* family that no kill removes (cleanup_retired_markers).
CrashRecovers ==
    (stop = "run" /\ ticker.pc # "off" /\ inner.state \in {"NotStarted", "Bad"})
        ~> (stop # "run" \/ (inner.state = "Good" /\ watched = "Good"))

=============================================================================
