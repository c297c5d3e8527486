---------------------------- MODULE SingleFlight ----------------------------
(***************************************************************************)
(* The cache section of `dispatch` with its two registries.                *)
(*                                                                         *)
(* InflightRegistry collapses concurrent misses of one key: the first      *)
(* misser leads (renders and stores), later ones follow (wait for the      *)
(* leader, then re-read the cache).  RefreshRegistry admits at most one    *)
(* background refresh per key, under a global permit count.                *)
(*                                                                         *)
(* A member of Reqs is one request.  A request answered by a stale entry   *)
(* that wins the refresh slot goes on, under the same name, as the         *)
(* background task it spawned.  A leader's InflightState is named by the   *)
(* leading request, which leads at most once.                              *)
(***************************************************************************)
EXTENDS Naturals, FiniteSets

CONSTANTS
    Reqs,          \* requests
    Ids,           \* cache identities (the text behind identity_tag)
    Hashes,        \* page-cache key hashes
    KeyHash,       \* the hash of each identity; identities may collide
    None,          \* no request, no identity
    MaxConcurrent, \* permits of the refresh semaphore
    MaxLosses      \* bound: expiries, purges and evictions of entries

ASSUME SingleFlightAssumption ==
    /\ IsFiniteSet(Reqs)
    /\ KeyHash \in [Ids -> Hashes]
    /\ None \notin Reqs \cup Ids
    /\ MaxConcurrent \in Nat \ {0}
    /\ MaxLosses \in Nat

VARIABLES
    pc,        \* where each request is in dispatch
    id,        \* its cache identity
    method,    \* GET or HEAD
    lead,      \* its InflightLeader: none, a registry slot, or on its own
    flight,    \* the InflightState it holds, named by its leader
    detached,  \* the store of a streamed miss runs in a task of its own
    timedout,  \* SINGLEFLIGHT_WAIT ran out before the flight completed
    map,       \* InflightRegistry: key hash -> the registered leader
    completed, \* InflightState.completed
    waiters,   \* tasks registered on InflightState.notify
    notified,  \* registered tasks that notify_waiters released
    sem,       \* free refresh permits
    inflight,  \* RefreshRegistry: key hashes being refreshed
    guard,     \* each task's RefreshGuard
    cache,     \* the stored entry of each identity
    stored,    \* ghost: this request's store was accepted
    lapsed,    \* ghost: the entry this request stored was lost since
    losses     \* expiries, purges and evictions so far

reqVars == <<id, method, timedout>>
flightVars == <<lead, flight, map, completed, waiters, notified>>
refreshVars == <<sem, inflight, guard>>
cacheVars == <<cache, stored, lapsed, losses>>
vars == <<pc, reqVars, flightVars, refreshVars, cacheVars, detached>>

\* Places in dispatch and, for a streamed miss, in the task that stores it.
Answering == {"lookup", "stale", "claim", "refused", "enter"}
Following == {"probe", "check", "register", "recheck", "parked", "reprobe"}
Rendering == {"render", "store", "streaming", "fill"}
Dropping == {"drop", "complete", "notify"}
PC == {"idle", "done"} \cup Answering \cup Following \cup Rendering \cup Dropping

\* One type invariant: every piece of state has the shape the code gives it.
TypeOK ==
    /\ pc \in [Reqs -> PC]
    /\ id \in [Reqs -> Ids \cup {None}]
    /\ method \in [Reqs -> {"GET", "HEAD"}]
    /\ lead \in [Reqs -> {"no", "slot", "alone"}]
    /\ flight \in [Reqs -> Reqs \cup {None}]
    /\ detached \in [Reqs -> BOOLEAN]
    /\ timedout \in [Reqs -> BOOLEAN]
    /\ map \in [Hashes -> Reqs \cup {None}]
    /\ completed \in [Reqs -> BOOLEAN]
    /\ waiters \in [Reqs -> SUBSET Reqs]
    /\ notified \subseteq Reqs
    /\ sem \in 0 .. MaxConcurrent
    /\ inflight \subseteq Hashes
    /\ guard \in [Reqs -> {"no", "held", "freed"}]
    /\ cache \in [Ids -> {"none", "fresh", "stale"}]
    /\ stored \in [Reqs -> BOOLEAN]
    /\ lapsed \subseteq Reqs
    /\ losses \in 0 .. MaxLosses

Init ==
    /\ pc = [r \in Reqs |-> "idle"]
    /\ id = [r \in Reqs |-> None]
    /\ method = [r \in Reqs |-> "GET"]
    /\ lead = [r \in Reqs |-> "no"]
    /\ flight = [r \in Reqs |-> None]
    /\ detached = [r \in Reqs |-> FALSE]
    /\ timedout = [r \in Reqs |-> FALSE]
    /\ map = [h \in Hashes |-> None]
    /\ completed = [r \in Reqs |-> FALSE]
    /\ waiters = [r \in Reqs |-> {}]
    /\ notified = {}
    /\ sem = MaxConcurrent
    /\ inflight = {}
    /\ guard = [r \in Reqs |-> "no"]
    /\ cache \in [Ids -> {"none", "stale"}]
    /\ stored = [r \in Reqs |-> FALSE]
    /\ lapsed = {}
    /\ losses = 0

\* The key hash of a request's identity.
HashOf(r) == KeyHash[id[r]]

\* A background refresh carries RefreshMode: its first lookup is forced to miss.
IsRefresh(r) == guard[r] # "no"

Goto(r, there) == pc' = [pc EXCEPT ![r] = there]

-----------------------------------------------------------------------------
(* The lookup and the stale-while-revalidate branch.                         *)

\* A cacheable GET or HEAD reaches the cache section.
Arrive(r) ==
    /\ pc[r] = "idle"
    /\ \E i \in Ids, m \in {"GET", "HEAD"} :
          /\ id' = [id EXCEPT ![r] = i]
          /\ method' = [method EXCEPT ![r] = m]
    /\ Goto(r, "lookup")
    /\ UNCHANGED <<timedout, flightVars, refreshVars, cacheVars, detached>>

\* What cache_lookup finds: past its bypass gates, the entry's state, or a
\* forced miss for a refresh.
CacheLookup(r) == IF IsRefresh(r) THEN "none" ELSE cache[id[r]]

\* The outcome of the lookup: a fresh entry answers; a stale one answers and asks for a
\* refresh; a miss goes on to single-flight if the method may store.
Lookup(r) ==
    /\ pc[r] = "lookup"
    /\ Goto(r, CASE CacheLookup(r) = "fresh" -> "done"
                 [] CacheLookup(r) = "stale" -> "stale"
                 [] CacheLookup(r) = "none" ->
                       IF method[r] = "GET" THEN "enter" ELSE "render")
    /\ UNCHANGED <<reqVars, flightVars, refreshVars, cacheVars, detached>>

\* try_begin_detailed takes a global permit first; without one the refresh is
\* skipped and the stale answer stands.
RefreshPermit(r) ==
    /\ pc[r] = "stale"
    /\ sem' = IF sem > 0 THEN sem - 1 ELSE sem
    /\ Goto(r, IF sem > 0 THEN "claim" ELSE "done")
    /\ UNCHANGED <<reqVars, flightVars, inflight, guard, cacheVars, detached>>

\* The per-key slot: a vacant one starts the background task, a GET whatever
\* the stale request was; an occupied one refuses, the permit still held.
RefreshClaim(r) ==
    /\ pc[r] = "claim"
    /\ IF HashOf(r) \in inflight
       THEN /\ Goto(r, "refused")
            /\ UNCHANGED <<inflight, guard, method>>
       ELSE /\ inflight' = inflight \cup {HashOf(r)}
            /\ guard' = [guard EXCEPT ![r] = "held"]
            /\ method' = [method EXCEPT ![r] = "GET"]
            /\ Goto(r, "lookup")
    /\ UNCHANGED <<id, timedout, flightVars, sem, cacheVars, detached>>

\* A refused refresh drops its permit.
RefreshRefused(r) ==
    /\ pc[r] = "refused"
    /\ sem' = sem + 1
    /\ Goto(r, "done")
    /\ UNCHANGED <<reqVars, flightVars, inflight, guard, cacheVars, detached>>

\* The task ended (a streamed fill may still be storing): RefreshGuard::drop
\* frees the key slot, then the permit field drops.
GuardFree(r) ==
    /\ guard[r] = "held"
    /\ pc[r] = "done" \/ (detached[r] /\ pc[r] \in {"fill"} \cup Dropping)
    /\ inflight' = inflight \ {HashOf(r)}
    /\ guard' = [guard EXCEPT ![r] = "freed"]
    /\ UNCHANGED <<pc, reqVars, flightVars, sem, cacheVars, detached>>

PermitFree(r) ==
    /\ guard[r] = "freed"
    /\ sem' = sem + 1
    /\ guard' = [guard EXCEPT ![r] = "no"]
    /\ UNCHANGED <<pc, reqVars, flightVars, inflight, cacheVars, detached>>

-----------------------------------------------------------------------------
(* Single-flight: leading and following.                                     *)

\* InflightRegistry::enter under the map's shard lock.  A request whose hash
\* belongs to another identity's flight leads without a slot.
EnterShared(r) ==
    LET owner == map[HashOf(r)]
    IN IF owner = None
       THEN /\ map' = [map EXCEPT ![HashOf(r)] = r]
            /\ lead' = [lead EXCEPT ![r] = "slot"]
            /\ flight' = [flight EXCEPT ![r] = r]
            /\ Goto(r, "render")
       ELSE /\ UNCHANGED map
            /\ IF id[owner] = id[r]
               THEN /\ flight' = [flight EXCEPT ![r] = owner]
                    /\ Goto(r, "probe")
                    /\ UNCHANGED lead
               ELSE /\ lead' = [lead EXCEPT ![r] = "alone"]
                    /\ flight' = [flight EXCEPT ![r] = r]
                    /\ Goto(r, "render")

Enter(r) ==
    /\ pc[r] = "enter"
    /\ EnterShared(r)
    /\ UNCHANGED <<reqVars, completed, waiters, notified, refreshVars, cacheVars, detached>>

\* A follower's uncounted probe (before and after the wait) serves only a
\* fresh entry.  After the wait a miss renders without a leader guard.
Probe(r, at, onMiss) ==
    /\ pc[r] = at
    /\ Goto(r, IF cache[id[r]] = "fresh" THEN "done" ELSE onMiss)
    /\ UNCHANGED <<reqVars, flightVars, refreshVars, cacheVars, detached>>

ProbeBefore(r) == Probe(r, "probe", "check")
ProbeAfter(r) == Probe(r, "reprobe", "render")

\* InflightFollower::wait, first and second load of `completed`.
LoadCompleted(r, at, onFalse) ==
    /\ pc[r] = at
    /\ Goto(r, IF completed[flight[r]] THEN "reprobe" ELSE onFalse)
    /\ UNCHANGED <<reqVars, flightVars, refreshVars, cacheVars, detached>>

WaitCheck(r) == LoadCompleted(r, "check", "register")

\* Mutant: the second load, after the waiter is registered, is left out.
WaitRecheck_Skipped(r) ==
    /\ pc[r] = "recheck"
    /\ Goto(r, "parked")
    /\ UNCHANGED <<reqVars, flightVars, refreshVars, cacheVars, detached>>

WaitRecheck(r) == LoadCompleted(r, "recheck", "parked")

\* `notified` is created and enabled: the waiter is registered on the Notify.
WaitRegister(r) ==
    /\ pc[r] = "register"
    /\ waiters' = [waiters EXCEPT ![flight[r]] = @ \cup {r}]
    /\ Goto(r, "recheck")
    /\ UNCHANGED <<reqVars, lead, flight, map, completed, notified,
                   refreshVars, cacheVars, detached>>

\* notify_waiters released the parked task.
WaitWoken(r) ==
    /\ pc[r] = "parked"
    /\ r \in notified
    /\ Goto(r, "reprobe")
    /\ UNCHANGED <<reqVars, flightVars, refreshVars, cacheVars, detached>>

\* SINGLEFLIGHT_WAIT ran out; the dropped future leaves the waiter list.
WaitTimeout(r) ==
    /\ pc[r] = "parked"
    /\ timedout' = [timedout EXCEPT ![r] = TRUE]
    /\ waiters' = [waiters EXCEPT ![flight[r]] = @ \ {r}]
    /\ Goto(r, "reprobe")
    /\ UNCHANGED <<id, method, lead, flight, map, completed, notified,
                   refreshVars, cacheVars, detached>>

-----------------------------------------------------------------------------
(* Rendering, storing, and dropping the leader guard.                        *)

\* After its store (or without one) a request drops its leader guard.
AfterStore(r) == IF lead[r] = "no" THEN "done" ELSE "drop"

\* The backend answered with a response cache_store_leading may store whole,
\* or with one it serves without storing.
RenderBuffered(r) ==
    /\ pc[r] = "render"
    /\ \E storable \in BOOLEAN :
          Goto(r, IF storable /\ method[r] = "GET" THEN "store" ELSE AfterStore(r))
    /\ UNCHANGED <<reqVars, flightVars, refreshVars, cacheVars, detached>>

\* Mutant: the streamed miss leaves the leader guard to dispatch, whose
\* return drops it while the body is still streaming.
RenderStreamed_LeavesLeader(r) ==
    /\ pc[r] = "render"
    /\ method[r] = "GET"
    /\ map' = IF lead[r] = "slot" THEN [map EXCEPT ![HashOf(r)] = None] ELSE map
    /\ completed' = [completed EXCEPT ![r] = lead[r] # "no"]
    /\ notified' = notified \cup waiters[r]
    /\ lead' = [lead EXCEPT ![r] = "no"]
    /\ waiters' = [waiters EXCEPT ![r] = {}]
    /\ Goto(r, "streaming")
    /\ UNCHANGED <<reqVars, flight, refreshVars, cacheVars, detached>>

\* A progressive body is stored as it streams; the leader guard moves into the
\* FillCommit and dispatch returns without dropping it.
RenderStreamed(r) ==
    /\ pc[r] = "render"
    /\ method[r] = "GET"
    /\ Goto(r, "streaming")
    /\ UNCHANGED <<reqVars, flightVars, refreshVars, cacheVars, detached>>

\* End of stream: FillCommit::finish spawns the store.
StreamEnd(r) ==
    /\ pc[r] = "streaming"
    /\ detached' = [detached EXCEPT ![r] = TRUE]
    /\ Goto(r, "fill")
    /\ UNCHANGED <<reqVars, flightVars, refreshVars, cacheVars>>

\* A backend error, an early drop or an oversized body abandons the commit,
\* and the leader guard with it.
StreamAbandon(r) ==
    /\ pc[r] = "streaming"
    /\ Goto(r, AfterStore(r))
    /\ UNCHANGED <<reqVars, flightVars, refreshVars, cacheVars, detached>>

\* store_admitted: the entry is accepted, or refused (admission, veto, budget).
Store(r) ==
    /\ pc[r] \in {"store", "fill"}
    /\ \/ /\ cache' = [cache EXCEPT ![id[r]] = "fresh"]
          /\ stored' = [stored EXCEPT ![r] = TRUE]
       \/ UNCHANGED <<cache, stored>>
    /\ Goto(r, AfterStore(r))
    /\ UNCHANGED <<reqVars, flightVars, refreshVars, lapsed, losses, detached>>

\* The client hung up: its dispatch future is dropped at an await.
Cancel(r) ==
    /\ pc[r] \in {"parked", "render"}
    /\ ~IsRefresh(r)
    /\ waiters' = IF pc[r] = "parked"
                  THEN [waiters EXCEPT ![flight[r]] = @ \ {r}]
                  ELSE waiters
    /\ Goto(r, AfterStore(r))
    /\ UNCHANGED <<reqVars, lead, flight, map, completed, notified,
                   refreshVars, cacheVars, detached>>

\* Mutant: a leader without a slot removes the other identity's one.
DropSlot_Always(r) ==
    /\ pc[r] = "drop"
    /\ map' = [map EXCEPT ![HashOf(r)] = None]
    /\ Goto(r, "complete")
    /\ UNCHANGED <<reqVars, lead, flight, completed, waiters, notified,
                   refreshVars, cacheVars, detached>>

\* InflightLeader::drop, in its order: the slot, the sticky bit, the wake-up.
DropSlot(r) ==
    /\ pc[r] = "drop"
    /\ map' = IF lead[r] = "slot" THEN [map EXCEPT ![HashOf(r)] = None] ELSE map
    /\ Goto(r, "complete")
    /\ UNCHANGED <<reqVars, lead, flight, completed, waiters, notified,
                   refreshVars, cacheVars, detached>>

DropComplete(r) ==
    /\ pc[r] = "complete"
    /\ completed' = [completed EXCEPT ![r] = TRUE]
    /\ Goto(r, "notify")
    /\ UNCHANGED <<reqVars, lead, flight, map, waiters, notified,
                   refreshVars, cacheVars, detached>>

DropNotify(r) ==
    /\ pc[r] = "notify"
    /\ notified' = notified \cup waiters[r]
    /\ waiters' = [waiters EXCEPT ![r] = {}]
    /\ Goto(r, "done")
    /\ UNCHANGED <<reqVars, lead, flight, map, completed,
                   refreshVars, cacheVars, detached>>

-----------------------------------------------------------------------------
\* The page store loses or ages an entry: expiry, purge, eviction.
Lose(i) ==
    /\ losses < MaxLosses
    /\ cache[i] # "none"
    /\ \E e \in {"none", "stale"} : cache' = [cache EXCEPT ![i] = e]
    /\ lapsed' = lapsed \cup {r \in Reqs : stored[r] /\ id[r] = i}
    /\ losses' = losses + 1
    /\ UNCHANGED <<pc, reqVars, flightVars, refreshVars, stored, detached>>

\* The steps a request's own task takes, given that the backend answers.
Progress(r) ==
    \/ Lookup(r) \/ RefreshPermit(r) \/ RefreshClaim(r) \/ RefreshRefused(r)
    \/ GuardFree(r) \/ PermitFree(r)
    \/ Enter(r) \/ ProbeBefore(r) \/ WaitCheck(r) \/ WaitRegister(r)
    \/ WaitRecheck(r) \/ WaitWoken(r) \/ ProbeAfter(r)
    \/ RenderBuffered(r) \/ RenderStreamed(r) \/ StreamEnd(r) \/ StreamAbandon(r)
    \/ Store(r) \/ DropSlot(r) \/ DropComplete(r) \/ DropNotify(r)

Next ==
    \/ \E r \in Reqs : Arrive(r) \/ Progress(r) \/ WaitTimeout(r) \/ Cancel(r)
    \/ \E i \in Ids : Lose(i)

Spec == Init /\ [][Next]_vars

\* Tasks run to completion and the backend answers (its handlers carry
\* response timeouts).  No fairness for SINGLEFLIGHT_WAIT or a hang-up: a
\* follower must not need either to be released.
LiveSpec == Spec /\ \A r \in Reqs : WF_vars(Progress(r))

-----------------------------------------------------------------------------
(* Properties.                                                               *)

\* A request that holds a registry slot, up to its removal.
HoldsSlot(r) == lead[r] = "slot" /\ pc[r] \in Rendering \cup {"drop"}

\* InflightLeader::drop removes its slot by key hash alone.  That is right only
\* if the slot of a hash is always the live leader's own, so that no leader can
\* free another one's flight and let a second leader in beside it.
SlotIsItsLeaders ==
    /\ \A r \in Reqs : HoldsSlot(r) => map[HashOf(r)] = r
    /\ \A h \in Hashes : map[h] # None => HoldsSlot(map[h]) /\ HashOf(map[h]) = h

\* `enter`: "a request never waits on another page's render".  A follower's
\* flight is always one of its own identity, whatever hashes collide.
FollowsOwnPage ==
    \A r \in Reqs : pc[r] \in Following => id[flight[r]] = id[r]

\* `wait` and InflightLeader::drop: a task parked on a flight that has already
\* called notify_waiters has been released by it; no interleaving of the two
\* loads of `completed`, the registration and the drop loses the wake-up.
NoLostWakeup ==
    \A r \in Reqs :
        pc[r] = "parked" /\ r \notin notified => pc[flight[r]] # "done"

\* A follower released by its leader (not by SINGLEFLIGHT_WAIT) renders only
\* when the flight stored nothing or the entry was lost since: the leader guard
\* outlives the store on the buffered and on the streamed path.
NoStampede ==
    \A r \in Reqs :
        pc[r] \in Rendering /\ flight[r] \notin {None, r} /\ ~timedout[r] =>
            /\ pc[flight[r]] \notin Rendering
            /\ stored[flight[r]] => flight[r] \in lapsed

\* The permit a task holds while it claims, is refused, or refreshes.
HoldsPermit(r) == pc[r] \in {"claim", "refused"} \/ guard[r] # "no"

\* RefreshRegistry: permits are conserved over every refusal and guard drop,
\* and each in-flight key belongs to exactly one running task.
RefreshConserved ==
    /\ sem + Cardinality({r \in Reqs : HoldsPermit(r)}) = MaxConcurrent
    /\ inflight = {HashOf(r) : r \in {q \in Reqs : guard[q] = "held"}}
    /\ Cardinality(inflight) = Cardinality({r \in Reqs : guard[r] = "held"})

\* The slot of a key hash is always its live leader's own, a follower only ever
\* waits for, and takes, the page of its own identity, and the background
\* refreshes neither lose a permit nor share a key.
FlightsExact == SlotIsItsLeaders /\ FollowsOwnPage /\ RefreshConserved

\* Every request that enters the cache section is answered and every leader is
\* dropped, without the help of the wait's timeout: nobody waits on a flight
\* that nobody will complete.
Answered ==
    \A r \in Reqs : pc[r] = "lookup" ~> pc[r] = "done" /\ guard[r] = "no"

=============================================================================
