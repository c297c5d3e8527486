-------------------------- MODULE DialBreakerProof --------------------------
(***************************************************************************)
(* OpensOnlyOnOutage for any thresholds and any number of requests: the    *)
(* two instants of FailEpisode, which is all the breaker remembers, are    *)
(* the length and the calm of the outage as it really was.                 *)
(***************************************************************************)
EXTENDS DialBreaker, TLAPS

Episodes == [first : 0 .. TripAfter, last : 0 .. EpisodeGap + 1]
Outages == [length : 0 .. TripAfter, calm : 0 .. EpisodeGap + 1]

(* An episode that the next failure would extend. *)
Running == episode # NoEpisode /\ episode.last <= EpisodeGap

(* A running episode is the outage; without one there is none to speak of. *)
Inv ==
  /\ open \in BOOLEAN
  /\ episode \in Episodes \cup {NoEpisode}
  /\ outage \in Outages
  /\ Running => outage = [length |-> episode.first, calm |-> episode.last]
  /\ ~Running => outage = NoOutage

-----------------------------------------------------------------------------
LEMMA InvInit == ASSUME DialBreakerAssumption, Init PROVE Inv
<1>1. NoOutage \in Outages
  BY DEF DialBreakerAssumption, NoOutage, Outages
<1>2. open = FALSE /\ episode = NoEpisode /\ outage = NoOutage
  BY DEF Init
<1> QED
  BY <1>1, <1>2 DEF Inv, Running

(* Time passes for both alike: the episode stops running when the outage   *)
(* is over.                                                                *)
LEMMA TickKeeps == ASSUME DialBreakerAssumption, Inv, Tick PROVE Inv'
<1>1. CASE episode = NoEpisode
  BY <1>1 DEF DialBreakerAssumption, Inv, Tick, Running, NoOutage, Outages
<1>2. CASE episode # NoEpisode
  <2>1. episode \in Episodes /\ open' = open
    BY <1>2 DEF Inv, Tick
  <2>2. episode' = [first |-> Min2(episode.first + 1, TripAfter),
                    last |-> Min2(episode.last + 1, EpisodeGap + 1)]
    BY <1>2 DEF Tick
  <2>3. episode' \in Episodes /\ episode' # NoEpisode
    BY <2>1, <2>2 DEF DialBreakerAssumption, Episodes, Min2, NoEpisode
  <2>4. CASE episode.last < EpisodeGap
    <3>1. outage = [length |-> episode.first, calm |-> episode.last]
      BY <1>2, <2>1, <2>4 DEF Inv, Running, DialBreakerAssumption, Episodes
    <3>2. outage' = [length |-> Min2(episode.first + 1, TripAfter), calm |-> episode.last + 1]
      BY <2>1, <2>4, <3>1 DEF Tick, DialBreakerAssumption, Episodes
    <3>3. episode'.last = episode.last + 1 /\ episode'.last <= EpisodeGap
      BY <2>1, <2>2, <2>4 DEF Min2, DialBreakerAssumption, Episodes
    <3>4. outage' = [length |-> episode'.first, calm |-> episode'.last]
      BY <2>2, <3>2, <3>3
    <3>5. outage' \in Outages
      BY <2>3, <3>4 DEF Episodes, Outages
    <3> QED
      BY <2>1, <2>3, <3>3, <3>4, <3>5 DEF Inv, Running
  <2>5. CASE ~(episode.last < EpisodeGap)
    <3>1. outage' = NoOutage
      BY <1>2, <2>1, <2>5 DEF Tick, Inv, Running, DialBreakerAssumption, Episodes, NoOutage
    <3>2. ~(episode'.last <= EpisodeGap)
      BY <2>1, <2>2, <2>5 DEF Min2, DialBreakerAssumption, Episodes
    <3> QED
      BY <2>1, <2>3, <3>1, <3>2 DEF Inv, Running, NoOutage, Outages, DialBreakerAssumption
  <2> QED
    BY <2>4, <2>5
<1> QED
  BY <1>1, <1>2

(* A failure extends the episode exactly when it extends the outage, and   *)
(* opens the breaker only at the end of one that lasted TripAfter.         *)
LEMMA RecordKeeps ==
  ASSUME DialBreakerAssumption, Inv, Record(FailedAt)
  PROVE  Inv' /\ (~open /\ open' => outage.length = TripAfter)
<1>1. CASE Running
  <2>1. episode \in Episodes /\ outage = [length |-> episode.first, calm |-> episode.last]
    BY <1>1 DEF Inv, Running
  <2>2. FailedAt = [first |-> episode.first, last |-> 0]
    BY <1>1 DEF FailedAt, Running
  <2>3. episode' = [first |-> episode.first, last |-> 0]
        /\ outage' = [length |-> episode.first, calm |-> 0]
    BY <2>1, <2>2 DEF Record
  <2>4. episode' \in Episodes /\ episode' # NoEpisode /\ outage' \in Outages
    BY <2>1, <2>3 DEF Episodes, Outages, NoEpisode, DialBreakerAssumption
  <2>5. open' \in BOOLEAN /\ (~open /\ open' => episode.first >= TripAfter)
    BY <2>2 DEF Record, Inv
  <2>6. ~open /\ open' => outage.length = TripAfter
    BY <2>1, <2>5 DEF Episodes, DialBreakerAssumption
  <2>7. episode'.last <= EpisodeGap
    BY <2>3 DEF DialBreakerAssumption
  <2> QED
    BY <2>3, <2>4, <2>5, <2>6, <2>7 DEF Inv, Running
<1>2. CASE ~Running
  <2>1. outage = NoOutage /\ FailedAt = [first |-> 0, last |-> 0]
    BY <1>2 DEF Inv, Running, FailedAt
  <2>2. episode' = [first |-> 0, last |-> 0] /\ outage' = [length |-> 0, calm |-> 0]
    BY <2>1 DEF Record, NoOutage
  <2>3. open' = open
    BY <2>1 DEF Record, Inv, DialBreakerAssumption
  <2>4. episode' \in Episodes /\ episode' # NoEpisode /\ outage' \in Outages
    BY <2>2 DEF Episodes, Outages, NoEpisode, DialBreakerAssumption
  <2>5. episode'.last <= EpisodeGap
    BY <2>2 DEF DialBreakerAssumption
  <2> QED
    BY <2>2, <2>3, <2>4, <2>5 DEF Inv, Running
<1> QED
  BY <1>1, <1>2

LEMMA Step ==
  ASSUME DialBreakerAssumption, Inv, [Next]_vars
  PROVE  Inv' /\ (~open /\ open' => outage.length = TripAfter)
<1>1. ASSUME UNCHANGED <<episode, outage, open>>
      PROVE  Inv' /\ (~open /\ open' => outage.length = TripAfter)
  BY <1>1 DEF Inv, Running
<1>2. CASE BackendDies \/ BackendReturns
  BY <1>1, <1>2 DEF BackendDies, BackendReturns, breaker
<1>3. CASE Tick
  BY <1>3, TickKeeps DEF Tick
<1>4. ASSUME NEW r \in Reqs,
             \/ Arrive(r) \/ Trial(r) \/ Reject(r) \/ ReuseUnprobed(r) \/ ReuseProbed(r) \/ Dial(r)
             \/ Connected(r) \/ Responds(r) \/ Reset(r) \/ GivesUp(r)
      PROVE  UNCHANGED <<episode, outage, open>>
  BY <1>4 DEF Arrive, Trial, Reject, ReuseUnprobed, ReuseProbed, Dial, Connected, Responds, Reset,
              GivesUp, breaker
<1>5. ASSUME NEW r \in Reqs, RecordClears(r)
      PROVE  Inv' /\ (~open /\ open' => outage.length = TripAfter)
  BY <1>5 DEF RecordClears, Inv, Running, NoOutage, Outages, DialBreakerAssumption
<1>6. ASSUME NEW r \in Reqs, RecordCloses(r)
      PROVE  Inv' /\ (~open /\ open' => outage.length = TripAfter)
  BY <1>6 DEF RecordCloses, Inv, Running
<1>7. ASSUME NEW r \in Reqs, Refused(r)
      PROVE  Inv' /\ (~open /\ open' => outage.length = TripAfter)
  BY <1>7, RecordKeeps DEF Refused
<1>8. CASE UNCHANGED vars
  BY <1>1, <1>8 DEF vars
<1> QED
  BY <1>1, <1>2, <1>3, <1>4, <1>5, <1>6, <1>7, <1>8 DEF Next, Proceeds

(* DialBreaker::record opens the breaker only when dials have failed for   *)
(* BREAKER_TRIP_AFTER, never longer than BREAKER_EPISODE_GAP apart and     *)
(* with no success in between, whatever requests, trials and successes     *)
(* race: two remembered instants suffice.                                  *)
THEOREM OpensOnOutage == ASSUME DialBreakerAssumption PROVE Spec => OpensOnlyOnOutage
<1>1. Init => Inv
  BY InvInit
<1>2. Inv /\ [Next]_vars => Inv'
  BY Step
<1>3. Inv /\ [Next]_vars => [~open /\ open' => outage.length = TripAfter]_vars
  BY Step
<1> QED
  BY <1>1, <1>2, <1>3, PTL DEF Spec, OpensOnlyOnOutage

=============================================================================
