-------------------------- MODULE BridgeAdmission --------------------------
(***************************************************************************)
(* Requests crossing from the transport cores to the pipeline runtime:     *)
(* the AdmissionGate that bounds them (its limit follows configuration     *)
(* reloads), Bridge::dispatch, and the receiver that runs one task per     *)
(* request.  Every atomic access of the gate is a step of its own.         *)
(***************************************************************************)
EXTENDS Naturals, FiniteSets, SequencesExt

CONSTANTS
    Reqs,        \* requests, each dispatched once
    MaxInFlight, \* MAX_IN_FLIGHT_REQUESTS: the ceiling of the limit, and the
                 \* depth of the request channel
    Limits,      \* limits a configuration can set
    MaxReloads   \* bound: configuration reloads

BridgeAdmissionAssumption ==
    /\ MaxInFlight \in Nat \ {0}
    /\ Limits \subseteq 1 .. MaxInFlight
    /\ MaxReloads \in Nat

VARIABLES
    limit,      \* current_limit()
    active,     \* AdmissionGate.active
    generation, \* AdmissionGate.generation
    reload,     \* where the reloading task is between publish and notify_waiters
    reloads,    \* reloads so far
    stored,     \* Notify: a stored notify_one permit
    queue,      \* Notify: registered waiters, oldest first
    woken,      \* Notify: what each request's Notified has received
    pc,         \* where each request is in dispatch
    waits,      \* whether try_acquire runs inside acquire
    local,      \* values try_acquire and acquire have read
    chan,       \* requests in the channel to the receiver
    task,       \* the receiver's side of each request
    client,     \* whether the transport still waits for the answer
    grace       \* ghost: admissions older than the last lowered limit

gateVars == <<limit, active, generation, reload, reloads, grace>>
notifyVars == <<stored, queue, woken>>
reqVars == <<pc, waits, local>>
taskVars == <<chan, task, client>>
vars == <<gateVars, notifyVars, reqVars, taskVars>>

Trying == {"limit", "load", "cas", "confirm", "rollback", "renotify"}
Acquiring == {"gen", "enable", "check", "parked"}
Holding == {"queued", "running", "streaming", "release"}

\* A request that owns an AdmissionPermit, and one whose increment of `active`
\* is not yet confirmed.
HasPermit(r) == pc[r] = "send" \/ task[r] \in Holding
InTransit(r) == pc[r] \in {"confirm", "rollback"}

\* Type correctness: active is an unsigned count that release and rollback subtract
\* from, and the Notify queue holds only requests.
TypeOK ==
    /\ limit \in 1 .. MaxInFlight
    /\ active \in Nat
    /\ generation \in 0 .. MaxReloads
    /\ reload \in {"idle", "bump", "notify"}
    /\ reloads \in 0 .. MaxReloads
    /\ stored \in BOOLEAN
    /\ queue \in Seq(Reqs)
    /\ woken \in [Reqs -> {"no", "one", "all", "taken"}]
    /\ pc \in [Reqs -> {"idle", "send", "await", "done"} \cup Trying \cup Acquiring]
    /\ waits \in [Reqs -> BOOLEAN]
    /\ local \in [Reqs -> [limit : 0 .. MaxInFlight, active : Nat, generation : Nat]]
    /\ chan \in Seq(Reqs)
    /\ task \in [Reqs -> {"none", "notify", "ended"} \cup Holding]
    /\ client \in [Reqs -> {"here", "gone"}]
    /\ grace \in Nat

Init ==
    /\ limit \in Limits
    /\ active = 0
    /\ generation = 0
    /\ reload = "idle"
    /\ reloads = 0
    /\ stored = FALSE
    /\ queue = <<>>
    /\ woken = [r \in Reqs |-> "no"]
    /\ pc = [r \in Reqs |-> "idle"]
    /\ waits = [r \in Reqs |-> FALSE]
    /\ local = [r \in Reqs |-> [limit |-> 0, active |-> 0, generation |-> 0]]
    /\ chan = <<>>
    /\ task = [r \in Reqs |-> "none"]
    /\ client = [r \in Reqs |-> "here"]
    /\ grace = 0

Goto(r, there) == pc' = [pc EXCEPT ![r] = there]

-----------------------------------------------------------------------------
(* tokio::sync::Notify, as the gate uses it.                                 *)

\* notify_one releases the oldest registered waiter or stores one permit; w
\* and q are the Notify's state before it.
NotifyOneFrom(w, q) ==
    IF q = <<>>
    THEN /\ stored' = TRUE
         /\ queue' = q
         /\ woken' = w
    ELSE /\ woken' = [w EXCEPT ![Head(q)] = "one"]
         /\ queue' = Tail(q)
         /\ UNCHANGED stored

NotifyOne == NotifyOneFrom(woken, queue)

\* A Notified future is dropped: its registration goes, and a notify_one it
\* received but never consumed passes to the next waiter.
DropNotified(r) ==
    LET cleared == [woken EXCEPT ![r] = "no"]
        others == SelectSeq(queue, LAMBDA q : q # r)
    IN IF woken[r] = "one"
       THEN NotifyOneFrom(cleared, others)
       ELSE /\ woken' = cleared
            /\ queue' = others
            /\ UNCHANGED stored

-----------------------------------------------------------------------------
(* AdmissionGate::try_acquire.                                               *)

\* current_limit() is read first; a limit of a stale configuration may be used.
TryLimit(r) ==
    /\ pc[r] = "limit"
    /\ local' = [local EXCEPT ![r].limit = limit]
    /\ Goto(r, "load")
    /\ UNCHANGED <<gateVars, notifyVars, waits, taskVars>>

\* `active` is loaded; a full gate returns None: dispatch goes on to acquire,
\* acquire goes on to its generation check.
TryLoad(r) ==
    /\ pc[r] = "load"
    /\ local' = [local EXCEPT ![r].active = active]
    /\ IF active >= local[r].limit
       THEN /\ Goto(r, IF waits[r] THEN "check" ELSE "gen")
            /\ waits' = [waits EXCEPT ![r] = TRUE]
       ELSE /\ Goto(r, "cas")
            /\ UNCHANGED waits
    /\ UNCHANGED <<gateVars, notifyVars, taskVars>>

\* compare_exchange_weak: it takes the slot, or fails (also spuriously).
TryCas(r) ==
    /\ pc[r] = "cas"
    /\ \/ /\ active = local[r].active
          /\ active' = active + 1
          /\ Goto(r, "confirm")
       \/ /\ UNCHANGED active
          /\ Goto(r, "limit")
    /\ UNCHANGED <<limit, generation, reload, reloads, grace, notifyVars, waits,
                   local, taskVars>>

\* Mutant: the admission is not confirmed against the limit in force.
TryConfirm_Unchecked(r) ==
    /\ pc[r] = "confirm"
    /\ Goto(r, "send")
    /\ DropNotified(r)
    /\ UNCHANGED <<gateVars, waits, local, taskVars>>

\* The increment is confirmed against the limit in force now; a permit returned
\* from acquire drops its Notified.
TryConfirm(r) ==
    /\ pc[r] = "confirm"
    /\ IF local[r].active + 1 <= limit
       THEN /\ Goto(r, "send")
            /\ DropNotified(r)
       ELSE /\ Goto(r, "rollback")
            /\ UNCHANGED notifyVars
    /\ UNCHANGED <<gateVars, waits, local, taskVars>>

\* What remains of the admissions older than the last lowered limit.
Drained(a) == IF a < grace THEN a ELSE grace

TryRollback(r) ==
    /\ pc[r] = "rollback"
    /\ active' = active - 1
    /\ grace' = Drained(active')
    /\ Goto(r, "renotify")
    /\ UNCHANGED <<limit, generation, reload, reloads, notifyVars, waits, local,
                   taskVars>>

TryRenotify(r) ==
    /\ pc[r] = "renotify"
    /\ NotifyOne
    /\ Goto(r, "limit")
    /\ UNCHANGED <<gateVars, waits, local, taskVars>>

-----------------------------------------------------------------------------
(* AdmissionGate::acquire.                                                   *)

AcquireGeneration(r) ==
    /\ pc[r] = "gen"
    /\ local' = [local EXCEPT ![r].generation = generation]
    /\ Goto(r, "enable")
    /\ UNCHANGED <<gateVars, notifyVars, waits, taskVars>>

\* A Notified is created and enabled: it takes a stored permit or registers.
AcquireEnable(r) ==
    /\ pc[r] = "enable"
    /\ IF stored
       THEN /\ stored' = FALSE
            /\ woken' = [woken EXCEPT ![r] = "taken"]
            /\ UNCHANGED queue
       ELSE /\ queue' = Append(queue, r)
            /\ woken' = [woken EXCEPT ![r] = "no"]
            /\ UNCHANGED stored
    /\ Goto(r, "limit")
    /\ UNCHANGED <<gateVars, waits, local, taskVars>>

\* try_acquire failed: a reload since the snapshot starts over, else it awaits.
AcquireCheck(r) ==
    /\ pc[r] = "check"
    /\ IF generation # local[r].generation
       THEN /\ DropNotified(r)
            /\ Goto(r, "gen")
       ELSE /\ UNCHANGED notifyVars
            /\ Goto(r, "parked")
    /\ UNCHANGED <<gateVars, waits, local, taskVars>>

\* The awaited Notified resolves and the loop starts over.
AcquireWoken(r) ==
    /\ pc[r] = "parked"
    /\ woken[r] # "no"
    /\ woken' = [woken EXCEPT ![r] = "no"]
    /\ Goto(r, "gen")
    /\ UNCHANGED <<gateVars, stored, queue, waits, local, taskVars>>

-----------------------------------------------------------------------------
(* Bridge::dispatch and the receiver.                                        *)

Dispatch(r) ==
    /\ pc[r] = "idle"
    /\ Goto(r, "limit")
    /\ UNCHANGED <<gateVars, notifyVars, waits, local, taskVars>>

\* The shed timer fires, or the transport drops the dispatch, while acquire
\* is parked.
Shed(r) ==
    /\ pc[r] = "parked"
    /\ DropNotified(r)
    /\ Goto(r, "done")
    /\ UNCHANGED <<gateVars, waits, local, taskVars>>

\* The permit travels with the request.
Send(r) ==
    /\ pc[r] = "send"
    /\ Len(chan) < MaxInFlight
    /\ chan' = Append(chan, r)
    /\ task' = [task EXCEPT ![r] = "queued"]
    /\ Goto(r, "await")
    /\ UNCHANGED <<gateVars, notifyVars, waits, local, client>>

\* run_receiver takes a request; one whose dispatch is gone is dropped, with
\* its permit.
Receive ==
    /\ chan # <<>>
    /\ chan' = Tail(chan)
    /\ task' = [task EXCEPT ![Head(chan)] =
                   IF client[Head(chan)] = "gone" THEN "release" ELSE "running"]
    /\ UNCHANGED <<gateVars, notifyVars, reqVars, client>>

\* The handler answers: a buffered response ends the task, a streamed one keeps
\* it forwarding after dispatch has returned.
HandlerAnswers(r) ==
    /\ task[r] = "running"
    /\ \E next \in {"release", "streaming"} :
          task' = [task EXCEPT ![r] = IF client[r] = "gone" THEN "release" ELSE next]
    /\ Goto(r, "done")
    /\ UNCHANGED <<gateVars, notifyVars, waits, local, chan, client>>

\* The streamed body ends.
StreamEnds(r) ==
    /\ task[r] = "streaming"
    /\ task' = [task EXCEPT ![r] = "release"]
    /\ UNCHANGED <<gateVars, notifyVars, reqVars, chan, client>>

\* The transport drops the dispatch (CancelOnDrop fires) or, once it has the
\* head, the body's channel.
Hangup(r) ==
    /\ pc[r] = "await" \/ task[r] = "streaming"
    /\ client[r] = "here"
    /\ client' = [client EXCEPT ![r] = "gone"]
    /\ Goto(r, "done")
    /\ UNCHANGED <<gateVars, notifyVars, waits, local, chan, task>>

\* The task sees the cancellation, or the forwarder its closed channel.
Cancelled(r) ==
    /\ task[r] \in {"running", "streaming"}
    /\ client[r] = "gone"
    /\ task' = [task EXCEPT ![r] = "release"]
    /\ UNCHANGED <<gateVars, notifyVars, reqVars, chan, client>>

\* AdmissionPermit::drop, its two steps.
Release(r) ==
    /\ task[r] = "release"
    /\ active' = active - 1
    /\ grace' = Drained(active')
    /\ task' = [task EXCEPT ![r] = "notify"]
    /\ UNCHANGED <<limit, generation, reload, reloads, notifyVars, reqVars, chan, client>>

\* Mutant: a dropped permit tells nobody.
ReleaseNotify_None(r) ==
    /\ task[r] = "notify"
    /\ task' = [task EXCEPT ![r] = "ended"]
    /\ UNCHANGED <<gateVars, notifyVars, reqVars, chan, client>>

ReleaseNotify(r) ==
    /\ task[r] = "notify"
    /\ NotifyOne
    /\ task' = [task EXCEPT ![r] = "ended"]
    /\ UNCHANGED <<gateVars, reqVars, chan, client>>

-----------------------------------------------------------------------------
(* A configuration reload: publish the limit, then limit_changed.            *)

ReloadPublish ==
    /\ reload = "idle"
    /\ reloads < MaxReloads
    /\ \E l \in Limits \ {limit} :
          /\ limit' = l
          /\ grace' = IF l < limit THEN active ELSE grace
    /\ reload' = "bump"
    /\ reloads' = reloads + 1
    /\ UNCHANGED <<active, generation, notifyVars, reqVars, taskVars>>

ReloadBump ==
    /\ reload = "bump"
    /\ generation' = generation + 1
    /\ reload' = "notify"
    /\ UNCHANGED <<limit, active, reloads, grace, notifyVars, reqVars, taskVars>>

\* notify_waiters releases every registered waiter and stores nothing.
ReloadNotify ==
    /\ reload = "notify"
    /\ woken' = [r \in Reqs |-> IF r \in ToSet(queue) THEN "all" ELSE woken[r]]
    /\ queue' = <<>>
    /\ reload' = "idle"
    /\ UNCHANGED <<limit, active, generation, reloads, grace, stored, reqVars, taskVars>>

-----------------------------------------------------------------------------
\* The steps the gate's own code takes once it runs.
Gate(r) ==
    \/ TryLimit(r) \/ TryLoad(r) \/ TryCas(r) \/ TryConfirm(r) \/ TryRollback(r)
    \/ TryRenotify(r) \/ AcquireGeneration(r) \/ AcquireEnable(r)
    \/ AcquireCheck(r) \/ AcquireWoken(r) \/ Send(r)
    \/ Cancelled(r) \/ Release(r) \/ ReleaseNotify(r)

Reload == ReloadPublish \/ ReloadBump \/ ReloadNotify

Next ==
    \/ \E r \in Reqs : Dispatch(r) \/ Gate(r) \/ Shed(r)
    \/ \E r \in Reqs : HandlerAnswers(r) \/ StreamEnds(r) \/ Hangup(r)
    \/ Receive
    \/ Reload

Spec == Init /\ [][Next]_vars

\* The runtime runs every ready task.  A compare-exchange that nobody contends
\* for succeeds eventually.
Fairness ==
    /\ \A r \in Reqs : WF_vars(Gate(r)) /\ SF_vars(TryCas(r) /\ pc'[r] = "confirm")
    /\ WF_vars(Receive)
    /\ WF_vars(ReloadBump \/ ReloadNotify)

\* Handlers may never answer and streams never end.
LiveSpec == Spec /\ Fairness

-----------------------------------------------------------------------------
(* Properties.                                                               *)

\* `active` counts the permits that exist and the increments still to be
\* confirmed, over every rollback, cancellation and dropped request: no slot is
\* lost for good and none is given out twice.
PermitsExact ==
    active = Cardinality({r \in Reqs : HasPermit(r) \/ InTransit(r)})

\* try_acquire confirms its increment against the limit in force ("a concurrent
\* reload may lower the live limit"): after the limit is lowered the permits
\* held only drain; they never exceed it by more than was counted when it fell.
DrainsToLimit ==
    Cardinality({r \in Reqs : HasPermit(r)}) <= (IF limit > grace THEN limit ELSE grace)

\* A waiter about to look at the gate again, or one that will hand its
\* notification on if it does not need it.
WillLook(r) ==
    \/ pc[r] = "parked" /\ woken[r] # "no"
    \/ waits[r] /\ pc[r] \in Trying \cup {"gen", "enable"}
    \/ pc[r] = "check" /\ (woken[r] # "no" \/ generation # local[r].generation)

\* acquire, AdmissionPermit::drop and limit_changed: while a slot is free nobody
\* is parked without a notification unless one is still on its way: a release, a
\* rollback or a reload that has yet to notify, or a woken waiter that has yet
\* to look.
NoLostWakeup ==
    \A r \in Reqs :
        pc[r] = "parked" /\ woken[r] = "no" /\ active < limit =>
            \/ reload # "idle"
            \/ \E q \in Reqs : task[q] = "notify" \/ pc[q] = "renotify" \/ WillLook(q)

\* CancelOnDrop: the slot of a request whose client is gone comes back even if
\* its handler never answers.
HangupFreesSlot ==
    \A r \in Reqs : client[r] = "gone" ~> ~HasPermit(r)

\* Handlers answer and streams end.
Serving == \A r \in Reqs : WF_vars(HandlerAnswers(r)) /\ WF_vars(StreamEnds(r))

\* If requests end, acquire admits every waiter: it never needs the shed timer.
WaitersAdmitted ==
    Serving => \A r \in Reqs : pc[r] = "gen" ~> pc[r] \in {"send", "done"}

=============================================================================
