---------------------------- MODULE DialBreaker ----------------------------
(***************************************************************************)
(* The circuit breaker of an LSAPI pool whose workers belong to another    *)
(* process (DialBreaker in crates/hj-lsapi/src/pool.rs), fed by the dials  *)
(* and reuses of acquire_probed and held by the dispatch in handler.rs.    *)
(*                                                                         *)
(* Instants are kept as ages, capped where a longer one makes no           *)
(* difference, so that time has no bound.  A lock is one step; the two     *)
(* stores of a success and the load before the trial lock are steps of     *)
(* their own.                                                              *)
(***************************************************************************)
EXTENDS Integers, FiniteSets

CONSTANTS Reqs,           \* requests, each arriving again and again
          TripAfter,      \* BREAKER_TRIP_AFTER
          EpisodeGap,     \* BREAKER_EPISODE_GAP
          TrialCooldown,  \* BREAKER_TRIAL_COOLDOWN
          MaxIdle,        \* bound: idle sockets
          MaxFaults       \* bound: backend deaths, lost dials and hang-ups

DialBreakerAssumption ==
  /\ IsFiniteSet(Reqs) /\ {TrialCooldown, EpisodeGap, TripAfter, MaxIdle, MaxFaults} \subseteq Nat
  /\ 0 < TrialCooldown /\ TrialCooldown < EpisodeGap /\ EpisodeGap < TripAfter

VARIABLES
  up,       \* the backend accepts connections
  idle,     \* idle sockets: [live, dead]
  episode,  \* the ages of FailEpisode's first and last, or NoEpisode
  open,
  wait,     \* until next_trial_at
  trial,    \* trial_in_flight
  req,      \* where each request is, whether it holds the guard, its socket
  outage,   \* history: [length, calm], how long failures have kept coming
            \* without a success, and the age of the latest
  faults

vars == <<up, idle, episode, open, wait, trial, req, outage, faults>>
breaker == <<episode, open, wait, trial, outage>>
backend == <<up, idle, faults>>

NoEpisode == [first |-> -1, last |-> -1]
NoOutage == [length |-> 0, calm |-> EpisodeGap + 1]
Off == [pc |-> "off", guard |-> FALSE, live |-> FALSE]
Min2(a, b) == IF a < b THEN a ELSE b

Init ==
  /\ up = TRUE /\ idle = [live |-> 0, dead |-> 0] /\ faults = 0
  /\ episode = NoEpisode /\ open = FALSE /\ wait = 0 /\ trial = FALSE /\ outage = NoOutage
  /\ req = [r \in Reqs |-> Off]

Fault == faults < MaxFaults /\ faults' = faults + 1

----------------------------------------------------------------------------
(* The backend and the clock. *)

(* The workers die with their listener; their idle sockets stay pooled. *)
BackendDies ==
  /\ up /\ Fault /\ up' = FALSE
  /\ idle' = [live |-> 0, dead |-> idle.live + idle.dead]
  /\ req' = [r \in Reqs |-> [req[r] EXCEPT !.live = FALSE]]
  /\ UNCHANGED breaker

BackendReturns == ~up /\ up' = TRUE /\ UNCHANGED <<idle, faults, breaker, req>>

Tick ==
  /\ episode' = IF episode = NoEpisode THEN NoEpisode
                ELSE [first |-> Min2(episode.first + 1, TripAfter),
                      last |-> Min2(episode.last + 1, EpisodeGap + 1)]
  /\ wait' = IF wait = 0 THEN 0 ELSE wait - 1
  /\ outage' = IF outage.calm + 1 > EpisodeGap THEN NoOutage
               ELSE [length |-> Min2(outage.length + 1, TripAfter), calm |-> outage.calm + 1]
  /\ <<episode', wait', outage'>> # <<episode, wait, outage>>
  /\ UNCHANGED <<open, trial, backend, req>>

----------------------------------------------------------------------------
(* One dispatch. *)

Goto(r, p) == req' = [req EXCEPT ![r].pc = p]

End(r) ==
  /\ req' = [req EXCEPT ![r] = Off]
  /\ trial' = (trial /\ ~req[r].guard)

(* admit: the load, *)
Arrive(r) ==
  /\ req[r].pc = "off"
  /\ Goto(r, IF open THEN "gate" ELSE "acquire")
  /\ UNCHANGED <<breaker, backend>>

(* and under the lock of next_trial_at a trial, or a rejection. *)
Trial(r) ==
  /\ req[r].pc = "gate" /\ wait = 0 /\ ~trial
  /\ trial' = TRUE /\ wait' = TrialCooldown
  /\ req' = [req EXCEPT ![r].pc = "acquire", ![r].guard = TRUE]
  /\ UNCHANGED <<episode, open, outage, backend>>

Reject(r) ==
  /\ req[r].pc = "gate" /\ (wait > 0 \/ trial)
  /\ End(r) /\ UNCHANGED <<episode, open, wait, outage, backend>>

(* acquire_probed hands out an idle socket.  One popped without a probe    *)
(* may be dead; the probe discards the dead ones first.                    *)
Reused(r, live) ==
  req' = [req EXCEPT ![r].pc = IF open THEN "success" ELSE "use", ![r].live = live]

ReuseUnprobed(r) ==
  /\ req[r].pc = "acquire"
  /\ \/ idle.live > 0 /\ idle' = [idle EXCEPT !.live = @ - 1] /\ Reused(r, TRUE)
     \/ idle.dead > 0 /\ idle' = [idle EXCEPT !.dead = @ - 1] /\ Reused(r, FALSE)
  /\ UNCHANGED <<up, faults, breaker>>

ReuseProbed(r) ==
  /\ req[r].pc = "acquire" /\ idle.live + idle.dead > 0
  /\ \E d \in 0..idle.dead :
       IF idle.live > 0
         THEN idle' = [live |-> idle.live - 1, dead |-> idle.dead - d] /\ Reused(r, TRUE)
         ELSE idle' = [idle EXCEPT !.dead = 0] /\ Goto(r, "dial")
  /\ UNCHANGED <<up, faults, breaker>>

Dial(r) ==
  /\ req[r].pc = "acquire" /\ idle = [live |-> 0, dead |-> 0]
  /\ Goto(r, "dial") /\ UNCHANGED <<breaker, backend>>

Connected(r) ==
  /\ req[r].pc = "dial" /\ up
  /\ req' = [req EXCEPT ![r].pc = "success", ![r].live = TRUE]
  /\ UNCHANGED <<breaker, backend>>

(* record(true, now): the episode, under its lock, *)
RecordClears(r) ==
  /\ req[r].pc = "success"
  /\ episode' = NoEpisode /\ outage' = NoOutage /\ Goto(r, "close")
  /\ UNCHANGED <<open, wait, trial, backend>>

(* and then the flag. *)
RecordCloses(r) ==
  /\ req[r].pc = "close"
  /\ open' = FALSE /\ Goto(r, "use")
  /\ UNCHANGED <<episode, wait, trial, outage, backend>>

(* record(false, now) extends the episode or starts one. *)
FailedEver == [first |-> IF episode # NoEpisode THEN episode.first ELSE 0, last |-> 0]
FailedAt == [first |-> IF episode # NoEpisode /\ episode.last <= EpisodeGap
                         THEN episode.first ELSE 0,
             last |-> 0]

Record(failed) ==
  /\ episode' = failed
  /\ open' = (open \/ failed.first >= TripAfter)
  /\ outage' = [outage EXCEPT !.calm = 0]
  /\ UNCHANGED wait

(* A refused dial is recorded, and tried again until the budget is spent. *)
Refused(r) ==
  /\ req[r].pc = "dial" /\ ~up /\ Record(FailedAt)
  /\ End(r) \/ UNCHANGED <<req, trial>>
  /\ UNCHANGED backend

(* A dial that ends unrecorded: a full backlog, no permit or connect in    *)
(* time; or the dispatch is dropped by its caller.                         *)
GivesUp(r) ==
  /\ req[r].pc \in {"acquire", "dial", "use"} /\ Fault
  /\ End(r) /\ UNCHANGED <<up, idle, episode, open, wait, outage>>

(* The response ends: a live socket is pooled.  A dead one fails, and the  *)
(* request is tried on another unless the breaker is open: after a failed  *)
(* write the pool is cleared (StaleReuse), after a reset acquire_fresh     *)
(* leaves the idle sockets alone.                                          *)
Responds(r) ==
  /\ req[r].pc = "use" /\ req[r].live
  /\ idle' = [idle EXCEPT !.live = Min2(@ + 1, MaxIdle)]
  /\ End(r) /\ UNCHANGED <<up, faults, episode, open, wait, outage>>

Reset(r) ==
  /\ req[r].pc = "use" /\ ~req[r].live
  /\ IF open THEN End(r) ELSE Goto(r, "dial") /\ UNCHANGED trial
  /\ idle' \in {idle, [live |-> 0, dead |-> 0]}
  /\ UNCHANGED <<episode, open, wait, outage, up, faults>>

(* Every step a request takes by itself. *)
Proceeds(r) ==
  Trial(r) \/ Reject(r) \/ ReuseUnprobed(r) \/ ReuseProbed(r) \/ Dial(r) \/ Connected(r)
    \/ RecordClears(r) \/ RecordCloses(r) \/ Refused(r) \/ Responds(r) \/ Reset(r)

Next == BackendDies \/ BackendReturns \/ Tick
          \/ \E r \in Reqs : Arrive(r) \/ Proceeds(r) \/ GivesUp(r)

Spec == Init /\ [][Next]_vars

(* Time passes, a dispatch goes on, and requests keep arriving: a breaker  *)
(* nobody calls has no way to learn that the backend is back.              *)
Fairness == WF_vars(Tick) /\ \A r \in Reqs : WF_vars(Proceeds(r)) /\ WF_vars(Arrive(r))
LiveSpec == Spec /\ Fairness

----------------------------------------------------------------------------
(* The breaker opens only on TripAfter of continuous failure: dials failed *)
(* all that time, never longer than EpisodeGap apart and with no success   *)
(* in between.  A blip after an older, forgotten failure does not open it. *)
OpensOnlyOnOutage == [][~open /\ open' => outage.length = TripAfter]_vars

=============================================================================
