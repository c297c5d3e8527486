----------------------------- MODULE MCWaiting -----------------------------
(***************************************************************************)
(* Four components whose callers wait, in one run: the behaviours of one   *)
(* of them at a time, chosen by focus, the others left where they start.   *)
(* For the body budget: three tasks of which two can never both be served  *)
(* the larger amount, one of them asking twice.                            *)
(***************************************************************************)
EXTENDS BodyBudgetPromise, TLC

CONSTANTS t1, t2, t3,                                          \* BodyBudget
          h1, Reqs, Ids, Hashes, KeyHash, None, MaxConcurrent, MaxLosses,   \* SingleFlight
          MaxInFlight, Limits, MaxReloads,                     \* BridgeAdmission
          TripAfter, EpisodeGap, TrialCooldown, MaxIdle, MaxFaults    \* DialBreaker

VARIABLES focus,
          sf_pc, id, method, lead, flight, detached, timedout, map, completed, sf_waiters,
          notified, sem, inflight, guard, cache, stored, lapsed, losses,
          limit, active, generation, reload, reloads, ba_stored, ba_queue, ba_woken, ba_pc,
          waits, local, chan, task, client, grace,
          up, idle, episode, open, wait, trial, req, outage, faults

SF == INSTANCE SingleFlight WITH pc <- sf_pc, waiters <- sf_waiters
BA == INSTANCE BridgeAdmission WITH
        pc <- ba_pc, stored <- ba_stored, queue <- ba_queue, woken <- ba_woken
DB == INSTANCE DialBreaker

ASSUME SF!SingleFlightAssumption /\ BA!BridgeAdmissionAssumption /\ DB!DialBreakerAssumption

sf == <<sf_pc, id, method, lead, flight, detached, timedout, map, completed, sf_waiters,
        notified, sem, inflight, guard, cache, stored, lapsed, losses>>
ba == <<limit, active, generation, reload, reloads, ba_stored, ba_queue, ba_woken, ba_pc,
        waits, local, chan, task, client, grace>>
db == <<up, idle, episode, open, wait, trial, req, outage, faults>>

Bounds == (t1 :> 1) @@ (t2 :> 1) @@ (t3 :> 1)

\* One hash for every identity.
Colliding == [i \in Ids |-> h1]

MCInit ==
  /\ focus \in {"budget", "coalescing", "admission", "breaker"}
  /\ Init /\ SF!Init /\ BA!Init /\ DB!Init
  /\ focus # "admission" => limit = MaxInFlight
  /\ focus # "coalescing" => cache = [i \in Ids |-> "none"]

MCNext ==
  \/ focus = "budget" /\ Next /\ UNCHANGED <<focus, sf, ba, db>>
  \/ focus = "coalescing" /\ SF!Next /\ UNCHANGED <<focus, vars, ba, db>>
  \/ focus = "admission" /\ BA!Next /\ UNCHANGED <<focus, vars, sf, db>>
  \/ focus = "breaker" /\ DB!Next /\ UNCHANGED <<focus, vars, sf, ba>>

\* Each component's own fairness, of the component in focus.
MCFairness ==
  /\ \A t \in Tasks :
       /\ WF_vars(focus = "budget" /\ Progress(t))
       /\ WF_vars(focus = "budget" /\ Drop(t))
  /\ \A r \in Reqs :
       /\ WF_sf(focus = "coalescing" /\ SF!Progress(r))
       /\ WF_ba(focus = "admission" /\ BA!Gate(r))
       /\ SF_ba(focus = "admission" /\ BA!TryCas(r) /\ ba_pc'[r] = "confirm")
       /\ WF_db(focus = "breaker" /\ DB!Proceeds(r))
       /\ WF_db(focus = "breaker" /\ DB!Arrive(r))
  /\ WF_ba(focus = "admission" /\ BA!Receive)
  /\ WF_ba(focus = "admission" /\ (BA!ReloadBump \/ BA!ReloadNotify))
  /\ WF_db(focus = "breaker" /\ DB!Tick)

MCSpec == MCInit /\ [][MCNext]_<<focus, vars, sf, ba, db>> /\ MCFairness

\* SingleFlight: every request is answered.
Answered == SF!Answered

\* BridgeAdmission: a hung-up request gives its slot back, and while requests end
\* acquire admits every waiter.
AdmissionServes == BA!HangupFreesSlot /\ BA!WaitersAdmitted

\* DialBreaker: the breaker opens only on TripAfter of continuous failure.
OpensOnlyOnOutage == DB!OpensOnlyOnOutage

=============================================================================
