------------------------- MODULE SingleFlightProof -------------------------
(***************************************************************************)
(* FlightsExact, NoLostWakeup and NoStampede for any number of requests,   *)
(* identities, hashes and permits.                                         *)
(***************************************************************************)
EXTENDS SingleFlight, FiniteSetTheorems, TLAPS

\* Leaves are set and function reasoning; one that needs more says SMTT.
USE ZenonT(30)

(* What the place of request r in dispatch says of the rest of its state.  *)
Shaped(r) ==
    /\ (pc[r] = "idle") <=> (id[r] = None)
    /\ pc[r] \in {"idle"} \cup Answering => flight[r] = None /\ lead[r] = "no"
    /\ pc[r] \in Following => lead[r] = "no" /\ flight[r] # None
    /\ pc[r] \in Dropping => lead[r] # "no"
    /\ lead[r] # "no" => flight[r] = r
    /\ flight[r] # None => lead[flight[r]] # "no" /\ id[flight[r]] = id[r]
    /\ completed[r] <=> (lead[r] # "no" /\ pc[r] \in {"notify", "done"})
    /\ pc[r] \in {"idle", "stale", "claim", "refused"} => guard[r] = "no"

Shape == TypeOK /\ SlotIsItsLeaders /\ \A r \in Reqs : Shaped(r)

(* A follower is on its flight's waiter list, or has been released, by the *)
(* time it relies on being woken; who was released has a complete flight.  *)
Waiting ==
    /\ \A r \in Reqs : pc[r] \in {"recheck", "parked"} /\ r \notin notified =>
          r \in waiters[flight[r]]
    /\ \A l \in Reqs : \A r \in waiters[l] : flight[r] = l
    /\ \A r \in notified : flight[r] # None /\ completed[flight[r]]
    /\ \A r \in Reqs : pc[r] = "reprobe" /\ ~timedout[r] => completed[flight[r]]
    /\ NoLostWakeup

(* What a flight stored is served until it is lost, and a follower renders *)
(* only after its flight completed without leaving anything to serve.      *)
Storing ==
    /\ \A r \in Reqs : stored[r] => id[r] # None
    /\ \A r \in Reqs : stored[r] /\ r \notin lapsed => cache[id[r]] = "fresh"
    /\ \A r \in Reqs :
          pc[r] \in Rendering /\ flight[r] \notin {None, r} /\ ~timedout[r] =>
              /\ completed[flight[r]]
              /\ stored[flight[r]] => flight[r] \in lapsed

(* Permits are conserved, and the keys in flight are those of the running  *)
(* refreshes, no key being two tasks'.                                     *)
Running == {r \in Reqs : guard[r] = "held"}

Permits ==
    /\ sem + Cardinality({r \in Reqs : HoldsPermit(r)}) = MaxConcurrent
    /\ inflight = {HashOf(r) : r \in Running}
    /\ \A q, r \in Running : HashOf(q) = HashOf(r) => q = r

Inv == Shape /\ Waiting /\ Storing /\ Permits

-----------------------------------------------------------------------------
(* Types.                                                                    *)

Holders == {r \in Reqs : HoldsPermit(r)}

LEMMA HoldersFinite == IsFiniteSet(Holders) /\ Cardinality(Holders) \in Nat
  BY SingleFlightAssumption, FS_Subset, FS_CardinalityType DEF Holders

LEMMA PermitOut ==
  ASSUME TypeOK, Permits, NEW r \in Reqs, HoldsPermit(r)
  PROVE  sem < MaxConcurrent
<1>1. Cardinality(Holders) # 0
  BY HoldersFinite, FS_EmptySet DEF Holders
<1>2. sem + Cardinality(Holders) = MaxConcurrent
  BY DEF Permits, Holders
<1> QED
  BY SMTT(20), <1>1, <1>2, HoldersFinite, SingleFlightAssumption DEF TypeOK

LEMMA HashType ==
  ASSUME TypeOK, NEW r \in Reqs, Shaped(r), pc[r] # "idle"
  PROVE  id[r] \in Ids /\ HashOf(r) \in Hashes /\ cache[id[r]] \in {"none", "fresh", "stale"}
  BY SingleFlightAssumption DEF HashOf, TypeOK, Shaped

LEMMA StepType == Inv /\ [Next]_vars => TypeOK'
<1> SUFFICES ASSUME Inv, [Next]_vars PROVE TypeOK'
  OBVIOUS
<1> USE DEF reqVars, flightVars, refreshVars, cacheVars
<1>t. TypeOK /\ Permits /\ \A r \in Reqs : Shaped(r)
  BY DEF Inv, Shape
<1>p. ASSUME NEW r \in Reqs, NEW a \in PC, Goto(r, a) PROVE pc' \in [Reqs -> PC]
  BY <1>p, <1>t DEF Goto, TypeOK
<1>f. \A r \in Reqs : pc[r] \in Following => flight[r] \in Reqs
  BY SMTT(20), <1>t DEF TypeOK, Shaped
<1>a. \A r \in Reqs : AfterStore(r) \in PC
  BY DEF AfterStore, PC, Dropping
<1>1. ASSUME NEW r \in Reqs, Arrive(r) PROVE TypeOK'
  BY SMTT(20), <1>1, <1>t DEF Arrive, Goto, TypeOK, PC, Answering
<1>2. ASSUME NEW r \in Reqs, Lookup(r) PROVE TypeOK'
  <2>1. CacheLookup(r) \in {"none", "fresh", "stale"}
    BY <1>2, <1>t, HashType DEF Lookup, CacheLookup
  <2>2. \E a \in PC : Goto(r, a)
    BY <1>2, <2>1 DEF Lookup, PC, Answering, Rendering
  <2> QED
    BY <1>2, <1>t, <1>p, <2>2 DEF Lookup, TypeOK
<1>3. ASSUME NEW r \in Reqs, RefreshPermit(r) PROVE TypeOK'
  <2>1. sem' \in 0 .. MaxConcurrent
    BY SMTT(20), <1>3, <1>t, SingleFlightAssumption DEF RefreshPermit, TypeOK
  <2>2. \E a \in PC : Goto(r, a)
    BY <1>3 DEF RefreshPermit, PC, Answering
  <2> QED
    BY <1>3, <1>t, <1>p, <2>1, <2>2 DEF RefreshPermit, TypeOK
<1>4. ASSUME NEW r \in Reqs, RefreshClaim(r) PROVE TypeOK'
  <2>1. HashOf(r) \in Hashes
    BY <1>4, <1>t, HashType DEF RefreshClaim
  <2>2. \E a \in PC : Goto(r, a)
    BY <1>4 DEF RefreshClaim, PC, Answering
  <2> QED
    BY SMTT(20), <1>4, <1>t, <1>p, <2>1, <2>2 DEF RefreshClaim, TypeOK
<1>5. ASSUME NEW r \in Reqs, RefreshRefused(r) \/ PermitFree(r) PROVE TypeOK'
  <2>1. sem < MaxConcurrent
    BY <1>5, <1>t, PermitOut DEF RefreshRefused, PermitFree, HoldsPermit
  <2>2. sem' \in 0 .. MaxConcurrent
    BY SMTT(20), <1>5, <2>1, <1>t, SingleFlightAssumption DEF RefreshRefused, PermitFree, TypeOK
  <2> QED
    BY SMTT(20), <1>5, <2>2, <1>t DEF RefreshRefused, PermitFree, Goto, TypeOK, PC
<1>6. ASSUME NEW r \in Reqs, GuardFree(r) PROVE TypeOK'
  BY <1>6, <1>t DEF GuardFree, TypeOK
<1>7. ASSUME NEW r \in Reqs, Enter(r) PROVE TypeOK'
  <2>1. HashOf(r) \in Hashes
    BY <1>7, <1>t, HashType DEF Enter
  <2>2. \E a \in PC : Goto(r, a)
    BY <1>7 DEF Enter, EnterShared, PC, Following, Rendering
  <2>3. map[HashOf(r)] \in Reqs \cup {None}
    BY <2>1, <1>t DEF TypeOK
  <2>4. map' \in [Hashes -> Reqs \cup {None}]
    BY SMTT(20), <1>7, <2>1, <1>t DEF Enter, EnterShared, TypeOK
  <2>5. flight' \in [Reqs -> Reqs \cup {None}]
    BY SMTT(20), <1>7, <2>3, <1>t DEF Enter, EnterShared, TypeOK
  <2>6. lead' \in [Reqs -> {"no", "slot", "alone"}]
    BY SMTT(20), <1>7, <1>t DEF Enter, EnterShared, TypeOK
  <2> QED
    BY <1>7, <1>t, <1>p, <2>2, <2>4, <2>5, <2>6 DEF Enter, TypeOK
<1>8. ASSUME NEW r \in Reqs, NEW at, NEW miss \in PC, Probe(r, at, miss) PROVE TypeOK'
  <2>1. \E a \in PC : Goto(r, a)
    BY <1>8 DEF Probe, PC
  <2> QED
    BY <1>8, <1>t, <1>p, <2>1 DEF Probe, TypeOK
<1>9. ASSUME NEW r \in Reqs, NEW at, NEW off \in PC, LoadCompleted(r, at, off) PROVE TypeOK'
  <2>1. \E a \in PC : Goto(r, a)
    BY <1>9 DEF LoadCompleted, PC, Following
  <2> QED
    BY <1>9, <1>t, <1>p, <2>1 DEF LoadCompleted, TypeOK
<1>10. ASSUME NEW r \in Reqs,
              ProbeBefore(r) \/ ProbeAfter(r) \/ WaitCheck(r) \/ WaitRecheck(r)
       PROVE TypeOK'
  <2>1. {"check", "render", "register", "parked"} \subseteq PC
    BY DEF PC, Following, Rendering
  <2> QED
    BY <1>8, <1>9, <1>10, <2>1 DEF ProbeBefore, ProbeAfter, WaitCheck, WaitRecheck
<1>11. ASSUME NEW r \in Reqs, WaitRegister(r) \/ WaitTimeout(r) PROVE TypeOK'
  <2>1. flight[r] \in Reqs
    BY <1>11, <1>f DEF WaitRegister, WaitTimeout, Following
  <2>2. \E a \in PC : Goto(r, a)
    BY <1>11 DEF WaitRegister, WaitTimeout, PC, Following
  <2>3. waiters' \in [Reqs -> SUBSET Reqs]
    BY SMTT(20), <1>11, <2>1, <1>t DEF WaitRegister, WaitTimeout, TypeOK
  <2>4. timedout' \in [Reqs -> BOOLEAN]
    BY <1>11, <1>t DEF WaitRegister, WaitTimeout, TypeOK
  <2> QED
    BY SMTT(20), <1>11, <1>t, <1>p, <2>2, <2>3, <2>4 DEF WaitRegister, WaitTimeout, TypeOK
<1>12. ASSUME NEW r \in Reqs, WaitWoken(r) \/ RenderStreamed(r) \/ StreamEnd(r) PROVE TypeOK'
  <2>2. \E a \in PC : Goto(r, a)
    BY <1>12 DEF WaitWoken, RenderStreamed, StreamEnd, PC, Following, Rendering
  <2> QED
    BY <1>12, <1>t, <1>p, <2>2 DEF WaitWoken, RenderStreamed, StreamEnd, TypeOK
<1>13. ASSUME NEW r \in Reqs, RenderBuffered(r) \/ StreamAbandon(r) PROVE TypeOK'
  <2>2. \E a \in PC : Goto(r, a)
    BY <1>13, <1>a DEF RenderBuffered, StreamAbandon, PC, Rendering
  <2> QED
    BY SMTT(20), <1>13, <1>t, <1>p, <2>2 DEF RenderBuffered, StreamAbandon, TypeOK
<1>14. ASSUME NEW r \in Reqs, Store(r) PROVE TypeOK'
  <2>1. \E a \in PC : Goto(r, a)
    BY <1>14, <1>a DEF Store
  <2>2. cache' \in [Ids -> {"none", "fresh", "stale"}] /\ stored' \in [Reqs -> BOOLEAN]
    BY <1>14, <1>t DEF Store, TypeOK
  <2> QED
    BY <1>14, <1>t, <1>p, <2>1, <2>2 DEF Store, TypeOK
<1>15. ASSUME NEW r \in Reqs, Cancel(r) PROVE TypeOK'
  <2>1. \E a \in PC : Goto(r, a)
    BY <1>15, <1>a DEF Cancel
  <2>2. waiters' \in [Reqs -> SUBSET Reqs]
    BY <1>15, <1>t, <1>f DEF Cancel, TypeOK, Following
  <2> QED
    BY <1>15, <1>t, <1>p, <2>1, <2>2 DEF Cancel, TypeOK
<1>16. ASSUME NEW r \in Reqs, DropSlot(r) \/ DropComplete(r) \/ DropNotify(r) PROVE TypeOK'
  <2>1. \E a \in PC : Goto(r, a)
    BY <1>16 DEF DropSlot, DropComplete, DropNotify, PC, Dropping
  <2>2. map' \in [Hashes -> Reqs \cup {None}]
    BY <1>16, <1>t DEF DropSlot, DropComplete, DropNotify, TypeOK
  <2>3. completed' \in [Reqs -> BOOLEAN]
    BY <1>16, <1>t DEF DropSlot, DropComplete, DropNotify, TypeOK
  <2>4. waiters' \in [Reqs -> SUBSET Reqs] /\ notified' \subseteq Reqs
    BY SMTT(20), <1>16, <1>t DEF DropSlot, DropComplete, DropNotify, TypeOK
  <2> QED
    BY SMTT(20), <1>16, <1>t, <1>p, <2>1, <2>2, <2>3, <2>4 DEF DropSlot, DropComplete, DropNotify, TypeOK
<1>17. ASSUME NEW i \in Ids, Lose(i) PROVE TypeOK'
  <2>1. losses' \in 0 .. MaxLosses
    BY SMTT(20), <1>17, <1>t, SingleFlightAssumption DEF Lose, TypeOK
  <2> QED
    BY SMTT(20), <1>17, <2>1, <1>t DEF Lose, TypeOK
<1>18. CASE UNCHANGED vars
  BY <1>18, <1>t DEF vars, TypeOK
<1> QED
  BY <1>1, <1>2, <1>3, <1>4, <1>5, <1>6, <1>7, <1>10, <1>11, <1>12, <1>13, <1>14, <1>15, <1>16,
     <1>17, <1>18 DEF Next, Progress

-----------------------------------------------------------------------------
(* What a request's place says of the rest of its state.                     *)

(* A step of request r leaves every other request's own state alone, keeps *)
(* r's leadership and identity if it leads, and shapes r.                  *)
LEMMA ShapedFrame ==
  ASSUME TypeOK, \A q \in Reqs : Shaped(q), NEW r \in Reqs,
         \A q \in Reqs \ {r} :
             /\ pc'[q] = pc[q] /\ id'[q] = id[q] /\ lead'[q] = lead[q]
             /\ flight'[q] = flight[q] /\ completed'[q] = completed[q] /\ guard'[q] = guard[q],
         lead[r] # "no" => lead'[r] # "no" /\ id'[r] = id[r],
         Shaped(r)'
  PROVE  \A q \in Reqs : Shaped(q)'
<1> SUFFICES ASSUME NEW q \in Reqs, q # r PROVE Shaped(q)'
  OBVIOUS
<1>1. Shaped(q)
  OBVIOUS
<1>2. flight[q] # None => lead'[flight[q]] # "no" /\ id'[flight[q]] = id[q]
  <2>1. flight[q] # None => flight[q] \in Reqs /\ lead[flight[q]] # "no" /\ id[flight[q]] = id[q]
    BY SMTT(20), <1>1 DEF Shaped, TypeOK
  <2> QED
    BY <2>1
<1> QED
  BY SMTT(20), <1>1, <1>2 DEF Shaped

(* Such a step that leaves the map alone, and r's slot with r if it holds  *)
(* one, keeps the slots with their leaders.                                *)
LEMMA SlotFrame ==
  ASSUME TypeOK, SlotIsItsLeaders, NEW r \in Reqs, map' = map,
         \A q \in Reqs \ {r} : pc'[q] = pc[q] /\ id'[q] = id[q] /\ lead'[q] = lead[q],
         HoldsSlot(r)' = HoldsSlot(r),
         HoldsSlot(r) => id'[r] = id[r]
  PROVE  SlotIsItsLeaders'
<1>1. \A q \in Reqs : /\ HoldsSlot(q)' = HoldsSlot(q)
                      /\ HoldsSlot(q) => HashOf(q)' = HashOf(q)
  BY DEF HoldsSlot, HashOf
<1>2. (\A q \in Reqs : HoldsSlot(q) => map[HashOf(q)] = q)'
  BY <1>1 DEF SlotIsItsLeaders
<1>3. ASSUME NEW h \in Hashes, map'[h] # None
      PROVE  (HoldsSlot(map[h]) /\ HashOf(map[h]) = h)'
  <2>1. map[h] \in Reqs /\ HoldsSlot(map[h]) /\ HashOf(map[h]) = h
    BY SMTT(20), <1>3 DEF SlotIsItsLeaders, TypeOK
  <2>2. PICK q \in Reqs : q = map[h]
    BY <2>1
  <2>3. HoldsSlot(q)' /\ HashOf(q)' = h
    BY <2>1, <2>2, <1>1
  <2> QED
    BY <2>2, <2>3 DEF HoldsSlot, HashOf
<1>4. (\A h \in Hashes : map[h] # None => HoldsSlot(map[h]) /\ HashOf(map[h]) = h)'
  BY <1>3
<1> QED
  BY <1>2, <1>4 DEF SlotIsItsLeaders

(* The steps that change nothing of a flight: pc[r] moves, and with it at  *)
(* most the identity, the method, the wait, the guard and the cache.       *)
LEMMA MovesShape ==
  ASSUME Shape, NEW r \in Reqs, NEW a \in PC, Goto(r, a),
         UNCHANGED <<lead, flight, map>>,
         \A q \in Reqs \ {r} :
             id'[q] = id[q] /\ completed'[q] = completed[q] /\ guard'[q] = guard[q],
         pc[r] # "idle" => id'[r] = id[r],
         Shaped(r)',
         HoldsSlot(r)' = HoldsSlot(r)
  PROVE  SlotIsItsLeaders' /\ \A q \in Reqs : Shaped(q)'
<1>1. \A q \in Reqs \ {r} : pc'[q] = pc[q]
  BY DEF Goto, Shape, TypeOK
<1>2. lead[r] # "no" => id'[r] = id[r]
  BY DEF Shape, Shaped
<1>3. HoldsSlot(r) => id'[r] = id[r]
  BY <1>2 DEF HoldsSlot
<1> QED
  BY <1>1, <1>2, <1>3, ShapedFrame, SlotFrame DEF Shape

LEMMA StepShape == Inv /\ [Next]_vars => Shape'
<1> SUFFICES ASSUME Inv, [Next]_vars PROVE SlotIsItsLeaders' /\ \A q \in Reqs : Shaped(q)'
  BY StepType DEF Shape
<1> USE DEF reqVars, flightVars, refreshVars, cacheVars
<1>s. Shape /\ TypeOK /\ SlotIsItsLeaders /\ \A r \in Reqs : Shaped(r)
  BY DEF Inv, Shape
<1> DEFINE Kept(r) ==
        /\ UNCHANGED <<id, lead, flight, map>>
        /\ pc[r] # "idle"
        /\ \A q \in Reqs \ {r} : completed'[q] = completed[q] /\ guard'[q] = guard[q]
<1>k. ASSUME NEW r \in Reqs, NEW a \in PC, Goto(r, a), Kept(r), Shaped(r)', HoldsSlot(r)' = HoldsSlot(r)
      PROVE  SlotIsItsLeaders' /\ \A q \in Reqs : Shaped(q)'
  BY <1>k, <1>s, MovesShape
<1>g. ASSUME NEW r \in Reqs, NEW a \in PC, Goto(r, a)
      PROVE  pc'[r] = a
  BY <1>g, <1>s DEF Goto, TypeOK
<1>pc. PC = {"idle", "done", "lookup", "stale", "claim", "refused", "enter",
             "probe", "check", "register", "recheck", "parked", "reprobe",
             "render", "store", "streaming", "fill", "drop", "complete", "notify"}
  BY DEF PC, Answering, Following, Rendering, Dropping
<1>1. ASSUME NEW r \in Reqs, Arrive(r) PROVE SlotIsItsLeaders' /\ \A q \in Reqs : Shaped(q)'
  <2>1. Goto(r, "lookup") /\ "lookup" \in PC /\ pc[r] = "idle" /\ pc'[r] = "lookup"
    BY <1>1, <1>g, <1>pc DEF Arrive
  <2>2. id'[r] \in Ids /\ \A q \in Reqs \ {r} : id'[q] = id[q]
    BY SMTT(20), <1>1, <1>s DEF Arrive, TypeOK
  <2>3. flight[r] = None /\ lead[r] = "no" /\ ~completed[r] /\ guard[r] = "no"
    BY <2>1, <1>s DEF Shaped
  <2>4. UNCHANGED <<lead, flight, map, completed, guard>>
    BY <1>1 DEF Arrive
  <2>5. Shaped(r)'
    BY <2>1, <2>2, <2>3, <2>4, SingleFlightAssumption
       DEF Shaped, Answering, Following, Dropping
  <2>6. HoldsSlot(r)' = HoldsSlot(r)
    BY <2>3, <2>4 DEF HoldsSlot
  <2> QED
    BY <2>1, <2>2, <2>4, <2>5, <2>6, <1>s, MovesShape
<1>2. ASSUME NEW r \in Reqs, Lookup(r) PROVE SlotIsItsLeaders' /\ \A q \in Reqs : Shaped(q)'
  <2>1. CacheLookup(r) \in {"none", "fresh", "stale"}
    BY <1>2, <1>s, HashType DEF Lookup, CacheLookup
  <2>2. PICK a \in {"done", "stale", "enter", "render"} :
            Goto(r, a) /\ (a = "stale" => CacheLookup(r) # "none")
    BY <1>2, <2>1 DEF Lookup
  <2>3. Kept(r) /\ pc[r] = "lookup" /\ UNCHANGED <<completed, guard>>
    BY <1>2 DEF Lookup
  <2>4. pc'[r] = a /\ a \in PC
    BY <2>2, <1>g, <1>pc
  <2>5. a = "stale" => guard[r] = "no"
    BY <2>2 DEF CacheLookup, IsRefresh
  <2>6. Shaped(r)'
    BY <2>3, <2>4, <2>5, <1>s DEF Shaped, Answering, Following, Dropping
  <2>7. HoldsSlot(r)' = HoldsSlot(r)
    BY <2>3, <1>s DEF HoldsSlot, Shaped, Answering
  <2> QED
    BY <2>2, <2>3, <2>4, <2>6, <2>7, <1>k
<1>3. ASSUME NEW r \in Reqs, RefreshPermit(r) \/ RefreshClaim(r) \/ RefreshRefused(r)
      PROVE  SlotIsItsLeaders' /\ \A q \in Reqs : Shaped(q)'
  <2>1. PICK a \in {"claim", "done", "refused", "lookup"} :
            Goto(r, a) /\ (a \in {"claim", "refused"} => guard' = guard)
    BY <1>3 DEF RefreshPermit, RefreshClaim, RefreshRefused
  <2>2. Kept(r) /\ pc[r] \in {"stale", "claim", "refused"} /\ UNCHANGED completed
    BY SMTT(20), <1>3, <1>s DEF RefreshPermit, RefreshClaim, RefreshRefused, TypeOK
  <2>3. pc'[r] = a /\ a \in PC
    BY <2>1, <1>g, <1>pc
  <2>4. Shaped(r)'
    BY <2>1, <2>2, <2>3, <1>s DEF Shaped, Answering, Following, Dropping
  <2>5. HoldsSlot(r)' = HoldsSlot(r)
    BY <2>2, <1>s DEF HoldsSlot, Shaped, Answering
  <2> QED
    BY <2>1, <2>2, <2>3, <2>4, <2>5, <1>k
<1>4. ASSUME NEW r \in Reqs, GuardFree(r) \/ PermitFree(r)
      PROVE  SlotIsItsLeaders' /\ \A q \in Reqs : Shaped(q)'
  <2>1. Goto(r, pc[r]) /\ pc[r] \in PC /\ UNCHANGED pc
    BY SMTT(20), <1>4, <1>s DEF GuardFree, PermitFree, Goto, TypeOK
  <2>2. guard[r] # "no" /\ UNCHANGED <<id, lead, flight, map, completed>>
        /\ \A q \in Reqs \ {r} : guard'[q] = guard[q]
    BY SMTT(20), <1>4, <1>s DEF GuardFree, PermitFree, TypeOK
  <2>3. pc[r] \notin {"idle", "stale", "claim", "refused"}
    BY <2>2, <1>s DEF Shaped
  <2>4. Shaped(r)'
    BY <2>1, <2>2, <2>3, <1>s DEF Shaped
  <2>5. HoldsSlot(r)' = HoldsSlot(r)
    BY <2>1, <2>2 DEF HoldsSlot
  <2> QED
    BY <2>1, <2>2, <2>3, <2>4, <2>5, <1>k
<1>5. ASSUME NEW r \in Reqs,
             \/ ProbeBefore(r) \/ ProbeAfter(r) \/ WaitCheck(r) \/ WaitRecheck(r)
             \/ WaitRegister(r) \/ WaitWoken(r) \/ WaitTimeout(r) \/ (Cancel(r) /\ pc[r] = "parked")
      PROVE  SlotIsItsLeaders' /\ \A q \in Reqs : Shaped(q)'
  <2>1. pc[r] \in Following
    BY <1>5 DEF ProbeBefore, ProbeAfter, Probe, WaitCheck, WaitRecheck, LoadCompleted, WaitRegister,
                WaitWoken, WaitTimeout, Following
  <2>2. lead[r] = "no" /\ flight[r] # None /\ pc[r] # "idle"
    BY <2>1, <1>s DEF Shaped, Following
  <2>3. PICK a \in Following \cup {"render", "done"} : Goto(r, a)
    BY <1>5, <2>2 DEF ProbeBefore, ProbeAfter, Probe, WaitCheck, WaitRecheck, LoadCompleted,
                WaitRegister, WaitWoken, WaitTimeout, Cancel, AfterStore, Following
  <2>4. UNCHANGED <<id, lead, flight, map, completed, guard>>
    BY <1>5 DEF ProbeBefore, ProbeAfter, Probe, WaitCheck, WaitRecheck, LoadCompleted,
                WaitRegister, WaitWoken, WaitTimeout, Cancel
  <2>5. pc'[r] = a /\ a \in PC
    BY <2>3, <1>g, <1>pc DEF Following
  <2>6. Shaped(r)'
    BY <2>2, <2>4, <2>5, <1>s DEF Shaped, Answering, Following, Dropping
  <2>7. HoldsSlot(r)' = HoldsSlot(r)
    BY <2>2, <2>4 DEF HoldsSlot
  <2> QED
    BY <2>2, <2>3, <2>4, <2>5, <2>6, <2>7, <1>k
<1>6. ASSUME NEW r \in Reqs,
             \/ RenderBuffered(r) \/ RenderStreamed(r) \/ StreamEnd(r) \/ StreamAbandon(r) \/ Store(r)
             \/ (Cancel(r) /\ pc[r] = "render")
      PROVE  SlotIsItsLeaders' /\ \A q \in Reqs : Shaped(q)'
  <2>1. pc[r] \in Rendering
    BY <1>6 DEF RenderBuffered, RenderStreamed, StreamEnd, StreamAbandon, Store, Rendering
  <2>2. PICK a \in Rendering \cup {AfterStore(r)} : Goto(r, a)
    BY <1>6 DEF RenderBuffered, RenderStreamed, StreamEnd, StreamAbandon, Store, Cancel, Rendering
  <2>3. UNCHANGED <<id, lead, flight, map, completed, guard>>
    BY <1>6 DEF RenderBuffered, RenderStreamed, StreamEnd, StreamAbandon, Store, Cancel
  <2>4. a \in Rendering \/ (a = "drop" /\ lead[r] # "no") \/ (a = "done" /\ lead[r] = "no")
    BY <2>2 DEF AfterStore
  <2>5. pc'[r] = a /\ a \in PC
    BY <2>2, <2>4, <1>g, <1>pc DEF Rendering
  <2>6. pc[r] # "idle"
    BY <2>1 DEF Rendering
  <2>7. Shaped(r)'
    BY <2>1, <2>3, <2>4, <2>5, <1>s DEF Shaped, Answering, Following, Dropping, Rendering
  <2>8. HoldsSlot(r)' = HoldsSlot(r)
    BY <2>1, <2>3, <2>4, <2>5 DEF HoldsSlot
  <2> QED
    BY <2>2, <2>3, <2>5, <2>6, <2>7, <2>8, <1>k
<1>7. ASSUME NEW r \in Reqs, DropComplete(r) \/ DropNotify(r)
      PROVE  SlotIsItsLeaders' /\ \A q \in Reqs : Shaped(q)'
  <2>1. PICK a \in {"notify", "done"} : Goto(r, a)
    BY <1>7 DEF DropComplete, DropNotify
  <2>2. pc[r] \in {"complete", "notify"}
    BY <1>7 DEF DropComplete, DropNotify
  <2>3. UNCHANGED <<id, lead, flight, map, guard>> /\ \A q \in Reqs \ {r} : completed'[q] = completed[q]
    BY <1>7, <1>s DEF DropComplete, DropNotify, TypeOK
  <2>4. completed'[r]
    BY SMTT(20), <1>7, <1>s DEF DropComplete, DropNotify, TypeOK, Shaped, Dropping
  <2>5. pc'[r] = a /\ a \in PC
    BY <2>1, <1>g, <1>pc
  <2>6. Shaped(r)'
    BY <2>2, <2>3, <2>4, <2>5, <1>s DEF Shaped, Answering, Following, Dropping
  <2>7. HoldsSlot(r)' = HoldsSlot(r)
    BY <2>2, <2>3, <2>5 DEF HoldsSlot, Rendering
  <2> QED
    BY <2>1, <2>2, <2>3, <2>5, <2>6, <2>7, <1>k
<1>8. ASSUME NEW r \in Reqs, Enter(r)
      PROVE  SlotIsItsLeaders' /\ \A q \in Reqs : Shaped(q)'
  <2> DEFINE h == HashOf(r)
             owner == map[h]
  <2>1. pc[r] = "enter" /\ flight[r] = None /\ lead[r] = "no" /\ ~completed[r] /\ ~HoldsSlot(r)
    BY <1>8, <1>s DEF Enter, Shaped, Answering, HoldsSlot
  <2>2. h \in Hashes /\ owner \in Reqs \cup {None} /\ id[r] # None
    BY <2>1, <1>s, HashType, SingleFlightAssumption DEF TypeOK
  <2>3. UNCHANGED <<id, completed, guard>>
    BY <1>8 DEF Enter
  <2>4. owner # None => HoldsSlot(owner) /\ HashOf(owner) = h /\ owner # r
    BY <2>1, <2>2, <1>s DEF SlotIsItsLeaders
  <2>5. CASE owner = None
    <3>1. /\ map' = [map EXCEPT ![h] = r] /\ lead' = [lead EXCEPT ![r] = "slot"]
          /\ flight' = [flight EXCEPT ![r] = r] /\ Goto(r, "render")
      BY <1>8, <2>5 DEF Enter, EnterShared
    <3>2. pc'[r] = "render" /\ lead'[r] = "slot" /\ flight'[r] = r
      BY SMTT(20), <3>1, <1>s, <1>g, <1>pc DEF TypeOK
    <3>3. \A q \in Reqs \ {r} : pc'[q] = pc[q] /\ lead'[q] = lead[q] /\ flight'[q] = flight[q]
      BY <3>1, <1>s DEF Goto, TypeOK
    <3>4. Shaped(r)'
      BY <2>1, <2>2, <2>3, <3>2, SingleFlightAssumption DEF Shaped, Answering, Following, Dropping
    <3>5. \A q \in Reqs : Shaped(q)'
      BY <2>1, <2>3, <3>2, <3>3, <3>4, <1>s, ShapedFrame
    <3>6. \A q \in Reqs \ {r} : HoldsSlot(q)' = HoldsSlot(q) /\ HashOf(q)' = HashOf(q)
      BY <2>3, <3>3 DEF HoldsSlot, HashOf
    <3>7. HoldsSlot(r)' /\ HashOf(r)' = h /\ map'[h] = r /\ \A g \in Hashes \ {h} : map'[g] = map[g]
      BY SMTT(20), <2>2, <2>3, <3>1, <3>2, <1>s DEF HoldsSlot, HashOf, Rendering, TypeOK
    <3>8. \A q \in Reqs \ {r} : HoldsSlot(q) => HashOf(q) # h /\ HashOf(q) \in Hashes
      <4> SUFFICES ASSUME NEW q \in Reqs \ {r}, HoldsSlot(q) PROVE HashOf(q) # h /\ HashOf(q) \in Hashes
        OBVIOUS
      <4>1. map[HashOf(q)] = q
        BY <1>s DEF SlotIsItsLeaders
      <4>2. HashOf(q) \in Hashes
        BY <1>s, HashType DEF HoldsSlot, Rendering
      <4> QED
        BY <4>1, <4>2, <2>5, SingleFlightAssumption
    <3>9. (\A q \in Reqs : HoldsSlot(q) => map[HashOf(q)] = q)'
      BY SMTT(20), <3>6, <3>7, <3>8, <1>s DEF SlotIsItsLeaders
    <3>10. ASSUME NEW g \in Hashes, map'[g] # None
           PROVE  (HoldsSlot(map[g]) /\ HashOf(map[g]) = g)'
      <4>1. CASE g = h
        BY <4>1, <3>7 DEF HoldsSlot, HashOf
      <4>2. CASE g # h
        <5>1. map'[g] = map[g] /\ map[g] \in Reqs /\ HoldsSlot(map[g]) /\ HashOf(map[g]) = g
          BY SMTT(20), <4>2, <3>7, <3>10, <1>s DEF SlotIsItsLeaders, TypeOK
        <5>2. PICK q \in Reqs : q = map[g]
          BY <5>1
        <5>3. q # r
          BY <5>1, <5>2, <2>1
        <5>4. HoldsSlot(q)' /\ HashOf(q)' = g
          BY <5>1, <5>2, <5>3, <3>6
        <5> QED
          BY <5>1, <5>2, <5>4 DEF HoldsSlot, HashOf
      <4> QED
        BY <4>1, <4>2
    <3>11. (\A g \in Hashes : map[g] # None => HoldsSlot(map[g]) /\ HashOf(map[g]) = g)'
      BY <3>10
    <3> QED
      BY <3>5, <3>9, <3>11 DEF SlotIsItsLeaders
  <2>6. CASE owner # None
    <3>1. map' = map /\ owner \in Reqs
      BY <1>8, <2>2, <2>6 DEF Enter, EnterShared
    <3>2. \/ /\ id[owner] = id[r] /\ flight' = [flight EXCEPT ![r] = owner]
             /\ Goto(r, "probe") /\ lead' = lead
          \/ /\ lead' = [lead EXCEPT ![r] = "alone"] /\ flight' = [flight EXCEPT ![r] = r]
             /\ Goto(r, "render")
      BY <1>8, <2>6 DEF Enter, EnterShared
    <3>3. \/ /\ id[owner] = id[r] /\ flight'[r] = owner /\ pc'[r] = "probe" /\ lead'[r] = "no"
          \/ flight'[r] = r /\ pc'[r] = "render" /\ lead'[r] = "alone"
      BY SMTT(20), <3>2, <2>1, <1>s, <1>g, <1>pc DEF TypeOK
    <3>4. \A q \in Reqs \ {r} : pc'[q] = pc[q] /\ lead'[q] = lead[q] /\ flight'[q] = flight[q]
      BY SMTT(20), <3>2, <1>s DEF Goto, TypeOK
    <3>5. lead'[owner] # "no"
      BY <2>4, <2>6, <3>1, <3>4 DEF HoldsSlot
    <3>6. Shaped(r)'
      BY <2>1, <2>2, <2>3, <3>1, <3>3, <3>5, SingleFlightAssumption
         DEF Shaped, Answering, Following, Dropping
    <3>7. HoldsSlot(r)' = HoldsSlot(r)
      BY <3>3, <2>1 DEF HoldsSlot
    <3>8. \A q \in Reqs : Shaped(q)'
      BY <2>1, <2>3, <3>4, <3>6, <1>s, ShapedFrame
    <3> QED
      BY <2>1, <2>3, <3>1, <3>4, <3>7, <3>8, <1>s, SlotFrame
  <2> QED
    BY <2>5, <2>6
<1>9. ASSUME NEW r \in Reqs, DropSlot(r)
      PROVE  SlotIsItsLeaders' /\ \A q \in Reqs : Shaped(q)'
  <2>1. pc[r] = "drop" /\ Goto(r, "complete") /\ UNCHANGED <<id, lead, flight, completed, guard>>
    BY <1>9 DEF DropSlot
  <2>2. pc'[r] = "complete" /\ \A q \in Reqs \ {r} : pc'[q] = pc[q]
    BY <2>1, <1>g, <1>pc, <1>s DEF Goto, TypeOK
  <2>3. Shaped(r)'
    BY <2>1, <2>2, <1>s DEF Shaped, Answering, Following, Dropping
  <2>4. \A q \in Reqs : Shaped(q)'
    BY <2>1, <2>2, <2>3, <1>s, ShapedFrame
  <2>5. ~HoldsSlot(r)' /\ \A q \in Reqs : HashOf(q)' = HashOf(q)
    BY <2>1, <2>2 DEF HoldsSlot, Rendering, HashOf
  <2>6. \A q \in Reqs \ {r} : HoldsSlot(q)' = HoldsSlot(q)
    BY <2>1, <2>2 DEF HoldsSlot
  <2>7. CASE lead[r] = "slot"
    <3>1. HoldsSlot(r) /\ map[HashOf(r)] = r /\ HashOf(r) \in Hashes
      BY <2>1, <2>7, <1>s, HashType DEF HoldsSlot, SlotIsItsLeaders
    <3>2. map'[HashOf(r)] = None /\ \A g \in Hashes \ {HashOf(r)} : map'[g] = map[g]
      BY <1>9, <2>7, <3>1, <1>s DEF DropSlot, TypeOK
    <3>3. ASSUME NEW q \in Reqs, HoldsSlot(q)' PROVE map'[HashOf(q)'] = q
      <4>1. q # r /\ HoldsSlot(q) /\ map[HashOf(q)] = q
        BY <3>3, <2>5, <2>6, <1>s DEF SlotIsItsLeaders
      <4>2. HashOf(q) \in Hashes
        BY <4>1, <1>s, HashType DEF HoldsSlot, Rendering
      <4> QED
        BY <4>1, <4>2, <3>1, <3>2, <2>5
    <3>4. ASSUME NEW g \in Hashes, map'[g] # None
          PROVE  (HoldsSlot(map[g]) /\ HashOf(map[g]) = g)'
      <4>1. g # HashOf(r) /\ map'[g] = map[g] /\ map[g] \in Reqs /\ HoldsSlot(map[g]) /\ HashOf(map[g]) = g
        BY SMTT(20), <3>4, <3>2, <1>s DEF SlotIsItsLeaders, TypeOK
      <4>2. PICK q \in Reqs : q = map[g]
        BY <4>1
      <4>3. HoldsSlot(q)' /\ HashOf(q)' = g
        BY <4>1, <4>2, <2>5, <2>6
      <4> QED
        BY <4>1, <4>2, <4>3 DEF HoldsSlot, HashOf
    <3>5. (\A q \in Reqs : HoldsSlot(q) => map[HashOf(q)] = q)'
      BY <3>3
    <3>6. (\A g \in Hashes : map[g] # None => HoldsSlot(map[g]) /\ HashOf(map[g]) = g)'
      BY <3>4
    <3> QED
      BY <2>4, <3>5, <3>6 DEF SlotIsItsLeaders
  <2>8. CASE lead[r] # "slot"
    <3>1. map' = map
      BY <1>9, <2>8 DEF DropSlot
    <3>2. HoldsSlot(r)' = HoldsSlot(r)
      BY <2>1, <2>8 DEF HoldsSlot
    <3> QED
      BY <2>1, <2>2, <2>4, <3>1, <3>2, <1>s, SlotFrame
  <2> QED
    BY <2>7, <2>8
<1>10. ASSUME UNCHANGED <<pc, id, lead, flight, map, completed, guard>>
       PROVE  SlotIsItsLeaders' /\ \A q \in Reqs : Shaped(q)'
  BY SMTT(20), <1>10, <1>s DEF SlotIsItsLeaders, HoldsSlot, HashOf, Shaped
<1>11. ASSUME NEW i \in Ids, Lose(i) PROVE UNCHANGED <<pc, id, lead, flight, map, completed, guard>>
  BY <1>11 DEF Lose
<1>12. CASE UNCHANGED vars
  BY <1>12, <1>10 DEF vars
<1>13. ASSUME NEW r \in Reqs, Cancel(r) PROVE pc[r] \in {"parked", "render"}
  BY <1>13 DEF Cancel
<1> QED
  BY SMTT(20), <1>1, <1>2, <1>3, <1>4, <1>5, <1>6, <1>7, <1>8, <1>9, <1>10, <1>11, <1>12, <1>13 DEF Next, Progress

-----------------------------------------------------------------------------
(* Waiting and storing.                                                      *)

(* A step that changes nothing of the waits, moves r nowhere a waiter is   *)
(* or is released to, and ends no leading request.                         *)
LEMMA QuietWaiting ==
  ASSUME Shape, Waiting, NEW r \in Reqs, NEW a \in PC, Goto(r, a),
         a \notin {"recheck", "parked", "reprobe"},
         a = "done" => lead[r] = "no",
         UNCHANGED <<flight, completed, waiters, notified, timedout>>
  PROVE  Waiting'
<1>1. pc'[r] = a /\ \A q \in Reqs \ {r} : pc'[q] = pc[q]
  BY DEF Goto, Shape, TypeOK
<1>2. ASSUME NEW q \in Reqs, pc'[q] = "parked", q \notin notified' PROVE pc'[flight'[q]] # "done"
  <2>1. q # r /\ pc[q] = "parked" /\ pc[flight[q]] # "done"
    BY <1>1, <1>2 DEF Waiting, NoLostWakeup
  <2>2. flight[q] \in Reqs /\ lead[flight[q]] # "no"
    BY SMTT(20), <2>1 DEF Shape, Shaped, TypeOK, Following
  <2> QED
    BY <2>1, <2>2, <1>1
<1> QED
  BY <1>1, <1>2 DEF Waiting, NoLostWakeup

LEMMA StepWaiting == Inv /\ [Next]_vars => Waiting'
<1> SUFFICES ASSUME Inv, [Next]_vars PROVE Waiting'
  OBVIOUS
<1> USE DEF reqVars, flightVars, refreshVars, cacheVars
<1>s. Shape /\ TypeOK /\ Waiting /\ \A r \in Reqs : Shaped(r)
  BY DEF Inv, Shape
<1>pc. PC = {"idle", "done", "lookup", "stale", "claim", "refused", "enter",
             "probe", "check", "register", "recheck", "parked", "reprobe",
             "render", "store", "streaming", "fill", "drop", "complete", "notify"}
  BY DEF PC, Answering, Following, Rendering, Dropping
<1>g. ASSUME NEW r \in Reqs, NEW a, Goto(r, a)
      PROVE  pc'[r] = a /\ \A q \in Reqs \ {r} : pc'[q] = pc[q]
  BY <1>g, <1>s DEF Goto, TypeOK
<1>f. \A r \in Reqs : pc[r] \in Following =>
          flight[r] \in Reqs /\ lead[r] = "no" /\ lead[flight[r]] # "no"
  BY SMTT(20), <1>s DEF Shaped, TypeOK
<1>l. \A r \in Reqs : pc[r] \in {"idle"} \cup Answering => flight[r] = None /\ lead[r] = "no"
  BY <1>s DEF Shaped
<1>1. ASSUME NEW r \in Reqs,
             Arrive(r) \/ Lookup(r) \/ RefreshPermit(r) \/ RefreshClaim(r) \/ RefreshRefused(r)
      PROVE  Waiting'
  <2>1. pc[r] \in {"idle"} \cup Answering
    BY <1>1 DEF Arrive, Lookup, RefreshPermit, RefreshClaim, RefreshRefused, Answering
  <2>2. ASSUME Lookup(r) PROVE CacheLookup(r) \in {"none", "fresh", "stale"}
    BY <2>2, <1>s, HashType DEF Lookup, CacheLookup
  <2>3. PICK a \in {"lookup", "done", "stale", "enter", "render", "claim", "refused"} : Goto(r, a)
    BY <1>1, <2>2 DEF Arrive, Lookup, RefreshPermit, RefreshClaim, RefreshRefused
  <2>4. UNCHANGED <<flight, completed, waiters, notified, timedout>>
    BY <1>1 DEF Arrive, Lookup, RefreshPermit, RefreshClaim, RefreshRefused
  <2> QED
    BY <2>1, <2>3, <2>4, <1>l, <1>pc, <1>s, QuietWaiting
<1>2. ASSUME NEW r \in Reqs,
             \/ RenderBuffered(r) \/ RenderStreamed(r) \/ StreamEnd(r) \/ StreamAbandon(r) \/ Store(r)
             \/ (Cancel(r) /\ pc[r] # "parked") \/ DropSlot(r)
      PROVE  Waiting'
  <2>1. PICK a \in Rendering \cup {AfterStore(r), "complete"} : Goto(r, a)
    BY <1>2 DEF RenderBuffered, RenderStreamed, StreamEnd, StreamAbandon, Store, Cancel, DropSlot, Rendering
  <2>2. UNCHANGED <<flight, completed, waiters, notified, timedout>>
    BY <1>2 DEF RenderBuffered, RenderStreamed, StreamEnd, StreamAbandon, Store, Cancel, DropSlot
  <2>3. a \in PC /\ a \notin {"recheck", "parked", "reprobe"} /\ (a = "done" => lead[r] = "no")
    BY <1>pc DEF Rendering, AfterStore
  <2> QED
    BY <2>1, <2>2, <2>3, <1>s, QuietWaiting
<1>3. ASSUME NEW r \in Reqs, ProbeBefore(r) \/ ProbeAfter(r) PROVE Waiting'
  <2>1. pc[r] \in Following
    BY <1>3 DEF ProbeBefore, ProbeAfter, Probe, Following
  <2>2. PICK a \in {"done", "check", "render"} : Goto(r, a)
    BY <1>3 DEF ProbeBefore, ProbeAfter, Probe
  <2>3. UNCHANGED <<flight, completed, waiters, notified, timedout>>
    BY <1>3 DEF ProbeBefore, ProbeAfter, Probe
  <2> QED
    BY <2>1, <2>2, <2>3, <1>f, <1>pc, <1>s, QuietWaiting
<1>4. ASSUME NEW r \in Reqs, WaitCheck(r) \/ WaitRecheck(r) PROVE Waiting'
  <2>1. UNCHANGED <<flight, completed, waiters, notified, timedout>>
    BY <1>4 DEF WaitCheck, WaitRecheck, LoadCompleted
  <2>2. pc[r] \in {"check", "recheck"} /\ flight[r] \in Reqs /\ lead[r] = "no" /\ lead[flight[r]] # "no"
    BY <1>4, <1>f DEF WaitCheck, WaitRecheck, LoadCompleted, Following
  <2>3. \/ completed[flight[r]] /\ Goto(r, "reprobe")
        \/ ~completed[flight[r]] /\ pc[r] = "check" /\ Goto(r, "register")
        \/ ~completed[flight[r]] /\ pc[r] = "recheck" /\ Goto(r, "parked")
    BY <1>4 DEF WaitCheck, WaitRecheck, LoadCompleted
  <2>4. CASE ~completed[flight[r]] /\ pc[r] = "check" /\ Goto(r, "register")
    BY <2>1, <2>4, <1>pc, <1>s, QuietWaiting
  <2>5. CASE completed[flight[r]] /\ Goto(r, "reprobe")
    <3>1. pc'[r] = "reprobe" /\ \A q \in Reqs \ {r} : pc'[q] = pc[q]
      BY <2>5, <1>g
    <3>2. \A q \in Reqs : pc[q] # "done" => pc'[q] # "done"
      BY <3>1
    <3>3. NoLostWakeup'
      BY SMTT(20), <3>1, <3>2, <2>1, <1>s, <1>f DEF Waiting, NoLostWakeup, Following
    <3> QED
      BY <2>1, <2>5, <3>1, <3>3, <1>s DEF Waiting
  <2>6. CASE ~completed[flight[r]] /\ pc[r] = "recheck" /\ Goto(r, "parked")
    <3>1. pc'[r] = "parked" /\ \A q \in Reqs \ {r} : pc'[q] = pc[q]
      BY <2>6, <1>g
    <3>2. pc[flight[r]] # "done"
      BY <2>2, <2>6, <1>s DEF Shaped
    <3>3. \A q \in Reqs : pc[q] # "done" => pc'[q] # "done"
      BY <3>1
    <3>4. NoLostWakeup'
      BY SMTT(20), <3>1, <3>2, <3>3, <2>1, <2>2, <1>s, <1>f DEF Waiting, NoLostWakeup, Following
    <3> QED
      BY <2>1, <2>6, <3>1, <3>4, <1>s DEF Waiting
  <2> QED
    BY <2>3, <2>4, <2>5, <2>6
<1>5. ASSUME NEW r \in Reqs,
             WaitRegister(r) \/ WaitWoken(r) \/ WaitTimeout(r) \/ (Cancel(r) /\ pc[r] = "parked")
      PROVE  Waiting'
  <2>1. UNCHANGED <<flight, completed, notified>>
    BY <1>5 DEF WaitRegister, WaitWoken, WaitTimeout, Cancel
  <2>2. pc[r] \in {"register", "parked"} /\ flight[r] \in Reqs /\ lead[r] = "no"
    BY <1>5, <1>f DEF WaitRegister, WaitWoken, WaitTimeout, Following
  <2>3. PICK a \in {"recheck", "reprobe", "done"} :
            /\ Goto(r, a)
            /\ a = "recheck" => r \in waiters'[flight[r]]
            /\ a = "reprobe" => timedout'[r] \/ r \in notified
    BY SMTT(20), <1>5, <2>2, <1>s DEF WaitRegister, WaitWoken, WaitTimeout, Cancel, AfterStore, TypeOK
  <2>4. pc'[r] = a /\ \A q \in Reqs \ {r} : pc'[q] = pc[q]
    BY <2>3, <1>g
  <2>5. \A q \in Reqs \ {r} : timedout'[q] = timedout[q]
    BY <1>5, <1>s DEF WaitRegister, WaitWoken, WaitTimeout, Cancel, TypeOK
  <2>6. \A l \in Reqs : /\ waiters[l] \ {r} \subseteq waiters'[l]
                        /\ waiters'[l] \subseteq waiters[l] \cup {q \in {r} : flight[r] = l}
    BY SMTT(20), <1>5, <2>2, <1>s DEF WaitRegister, WaitWoken, WaitTimeout, Cancel, TypeOK
  <2>7. \A q \in Reqs : pc'[q] \in {"recheck", "parked"} /\ q \notin notified' => q \in waiters'[flight'[q]]
    BY SMTT(20), <2>1, <2>3, <2>4, <2>6, <1>s, <1>f DEF Waiting, Following
  <2>8. \A l \in Reqs : \A q \in waiters'[l] : flight'[q] = l
    BY <2>1, <2>6, <1>s DEF Waiting
  <2>9. \A q \in Reqs : pc'[q] = "reprobe" /\ ~timedout'[q] => completed'[flight'[q]]
    BY SMTT(20), <2>1, <2>3, <2>4, <2>5, <1>s DEF Waiting
  <2>10. NoLostWakeup'
    <3> SUFFICES ASSUME NEW q \in Reqs, pc'[q] = "parked", q \notin notified'
                 PROVE  pc'[flight'[q]] # "done"
      BY DEF NoLostWakeup
    <3>1. q # r /\ pc[q] = "parked" /\ pc[flight[q]] # "done"
      BY <2>1, <2>3, <2>4, <1>s DEF Waiting, NoLostWakeup
    <3>2. flight[q] \in Reqs /\ flight[q] # r
      BY <3>1, <2>2, <1>f DEF Following
    <3> QED
      BY <3>1, <3>2, <2>1, <2>4
  <2> QED
    BY <2>1, <2>7, <2>8, <2>9, <2>10, <1>s DEF Waiting
<1>6. ASSUME NEW r \in Reqs, Enter(r) PROVE Waiting'
  <2>1. UNCHANGED <<completed, waiters, notified, timedout>> /\ pc[r] = "enter" /\ flight[r] = None
    BY <1>6, <1>l DEF Enter, Answering
  <2>2. PICK a \in {"render", "probe"} : Goto(r, a)
    BY <1>6 DEF Enter, EnterShared
  <2>3. pc'[r] = a /\ \A q \in Reqs \ {r} : pc'[q] = pc[q]
    BY <2>2, <1>g
  <2>4. \A q \in Reqs \ {r} : flight'[q] = flight[q]
    BY <1>6, <1>s DEF Enter, EnterShared, TypeOK
  <2>5. r \notin notified /\ \A l \in Reqs : r \notin waiters[l]
    BY SMTT(20), <2>1, <1>s, SingleFlightAssumption DEF Waiting
  <2>6. NoLostWakeup'
    <3> SUFFICES ASSUME NEW q \in Reqs, pc'[q] = "parked", q \notin notified'
                 PROVE  pc'[flight'[q]] # "done"
      BY DEF NoLostWakeup
    <3>1. q # r /\ pc[q] = "parked" /\ pc[flight[q]] # "done" /\ flight[q] \in Reqs
      BY <2>1, <2>3, <1>s, <1>f DEF Waiting, NoLostWakeup, Following
    <3> QED
      BY <3>1, <2>3, <2>4
  <2>7. (\A l \in Reqs : \A q \in waiters[l] : flight[q] = l)'
    BY SMTT(20), <2>1, <2>4, <2>5, <1>s DEF Waiting, TypeOK
  <2>8. (\A q \in notified : flight[q] # None /\ completed[flight[q]])'
    BY <2>1, <2>4, <2>5, <1>s DEF Waiting, TypeOK
  <2> QED
    BY <2>1, <2>3, <2>4, <2>6, <2>7, <2>8, <1>s DEF Waiting
<1>7. ASSUME NEW r \in Reqs, DropComplete(r) PROVE Waiting'
  <2>1. UNCHANGED <<flight, waiters, notified, timedout>> /\ Goto(r, "notify")
    BY <1>7 DEF DropComplete
  <2>2. pc'[r] = "notify" /\ \A q \in Reqs \ {r} : pc'[q] = pc[q]
    BY <2>1, <1>g
  <2>3. \A q \in Reqs : completed[q] => completed'[q]
    BY <1>7, <1>s DEF DropComplete, TypeOK
  <2>4. \A q \in notified : flight[q] \in Reqs
    BY SMTT(20), <1>s DEF Waiting, TypeOK
  <2>5. NoLostWakeup'
    BY SMTT(20), <2>1, <2>2, <1>s, <1>f DEF Waiting, NoLostWakeup, Following
  <2>6. (\A q \in Reqs : pc[q] = "reprobe" /\ ~timedout[q] => completed[flight[q]])'
    BY <2>1, <2>2, <2>3, <1>s, <1>f DEF Waiting, Following
  <2> QED
    BY <2>1, <2>2, <2>3, <2>4, <2>5, <2>6, <1>s DEF Waiting
<1>8. ASSUME NEW r \in Reqs, DropNotify(r) PROVE Waiting'
  <2>1. UNCHANGED <<flight, completed, timedout>> /\ Goto(r, "done") /\ pc[r] = "notify"
    BY <1>8 DEF DropNotify
  <2>2. pc'[r] = "done" /\ \A q \in Reqs \ {r} : pc'[q] = pc[q]
    BY <2>1, <1>g
  <2>3. notified' = notified \cup waiters[r] /\ waiters'[r] = {} /\ \A l \in Reqs \ {r} : waiters'[l] = waiters[l]
    BY <1>8, <1>s DEF DropNotify, TypeOK
  <2>4. completed[r]
    BY <2>1, <1>s DEF Shaped, Dropping
  <2>5. \A q \in Reqs : pc'[q] \in {"recheck", "parked"} /\ q \notin notified' =>
            q \in waiters[flight[q]] /\ flight[q] \in Reqs \ {r} /\ q # r
    BY <2>2, <2>3, <1>s, <1>f DEF Waiting, Following
  <2>6. (\A q \in Reqs : pc[q] \in {"recheck", "parked"} /\ q \notin notified => q \in waiters[flight[q]])'
    BY <2>1, <2>3, <2>5
  <2>7. (\A l \in Reqs : \A q \in waiters[l] : flight[q] = l)'
    BY <2>1, <2>3, <1>s DEF Waiting
  <2>8. (\A q \in notified : flight[q] # None /\ completed[flight[q]])'
    BY SMTT(20), <2>1, <2>3, <2>4, <1>s, SingleFlightAssumption DEF Waiting
  <2>9. NoLostWakeup'
    BY SMTT(20), <2>1, <2>2, <2>3, <2>5, <1>s DEF Waiting, NoLostWakeup
  <2> QED
    BY <2>1, <2>2, <2>6, <2>7, <2>8, <2>9, <1>s DEF Waiting
<1>9. ASSUME UNCHANGED <<pc, flight, completed, waiters, notified, timedout>> PROVE Waiting'
  BY <1>9, <1>s DEF Waiting, NoLostWakeup
<1>10. ASSUME NEW r \in Reqs, GuardFree(r) \/ PermitFree(r) PROVE Waiting'
  BY <1>9, <1>10 DEF GuardFree, PermitFree
<1>11. ASSUME NEW i \in Ids, Lose(i) PROVE Waiting'
  BY <1>9, <1>11 DEF Lose
<1>12. CASE UNCHANGED vars
  BY <1>9, <1>12 DEF vars
<1> QED
  BY <1>1, <1>2, <1>3, <1>4, <1>5, <1>6, <1>7, <1>8, <1>10, <1>11, <1>12 DEF Next, Progress

(* A step that stores and loses nothing, and takes r into rendering only   *)
(* as Storing allows.                                                      *)
LEMMA QuietStoring ==
  ASSUME Shape, Storing, NEW r \in Reqs, NEW a \in PC, Goto(r, a),
         UNCHANGED <<cache, stored, lapsed>>,
         \A q \in Reqs : /\ stored[q] => id'[q] = id[q]
                         /\ timedout[q] => timedout'[q]
                         /\ completed[q] => completed'[q],
         \A q \in Reqs \ {r} : flight'[q] = flight[q],
         a \in Rendering /\ flight'[r] \notin {None, r} /\ ~timedout'[r] =>
             /\ completed'[flight'[r]]
             /\ stored[flight'[r]] => flight'[r] \in lapsed
  PROVE  Storing'
<1>1. pc'[r] = a /\ \A q \in Reqs \ {r} : pc'[q] = pc[q]
  BY DEF Goto, Shape, TypeOK
<1>2. ASSUME NEW q \in Reqs, q # r, pc'[q] \in Rendering, flight'[q] \notin {None, q}, ~timedout'[q]
      PROVE  completed'[flight'[q]] /\ (stored'[flight'[q]] => flight'[q] \in lapsed')
  <2>1. pc[q] \in Rendering /\ flight[q] \notin {None, q} /\ ~timedout[q] /\ flight'[q] = flight[q]
    BY <1>1, <1>2
  <2>2. flight[q] \in Reqs
    BY SMTT(20), <2>1 DEF Shape, TypeOK
  <2> QED
    BY <2>1, <2>2 DEF Storing
<1> QED
  BY SMTT(20), <1>1, <1>2 DEF Storing

LEMMA StepStoring == Inv /\ [Next]_vars => Storing'
<1> SUFFICES ASSUME Inv, [Next]_vars PROVE Storing'
  OBVIOUS
<1> USE DEF reqVars, flightVars, refreshVars, cacheVars
<1>s. Shape /\ TypeOK /\ Storing /\ \A r \in Reqs : Shaped(r)
  BY DEF Inv, Shape
<1>pc. PC = {"idle", "done", "lookup", "stale", "claim", "refused", "enter",
             "probe", "check", "register", "recheck", "parked", "reprobe",
             "render", "store", "streaming", "fill", "drop", "complete", "notify"}
  BY DEF PC, Answering, Following, Rendering, Dropping
<1> DEFINE Quiet == /\ UNCHANGED <<cache, stored, lapsed, flight>>
                    /\ \A q \in Reqs : /\ stored[q] => id'[q] = id[q]
                                       /\ timedout[q] => timedout'[q]
                                       /\ completed[q] => completed'[q]
<1>q. ASSUME NEW r \in Reqs, NEW a \in PC, Goto(r, a), Quiet,
             a \in Rendering => pc[r] \in Rendering \/ flight[r] = None
      PROVE  Storing'
  <2>1. a \in Rendering /\ flight'[r] \notin {None, r} /\ ~timedout'[r] =>
            completed'[flight'[r]] /\ (stored[flight'[r]] => flight'[r] \in lapsed)
    BY SMTT(20), <1>q, <1>s DEF Storing, TypeOK
  <2> QED
    BY <2>1, <1>q, <1>s, QuietStoring
<1>1. ASSUME NEW r \in Reqs,
             Arrive(r) \/ Lookup(r) \/ RefreshPermit(r) \/ RefreshClaim(r) \/ RefreshRefused(r)
      PROVE  Storing'
  <2>1. flight[r] = None
    BY <1>1, <1>s DEF Arrive, Lookup, RefreshPermit, RefreshClaim, RefreshRefused, Answering, Shaped
  <2>2. ASSUME Lookup(r) PROVE CacheLookup(r) \in {"none", "fresh", "stale"}
    BY <2>2, <1>s, HashType DEF Lookup, CacheLookup
  <2>3. \E a \in PC : Goto(r, a)
    BY <1>1, <2>2, <1>pc DEF Arrive, Lookup, RefreshPermit, RefreshClaim, RefreshRefused
  <2>4. Arrive(r) => \A q \in Reqs : stored[q] => id'[q] = id[q]
    BY SMTT(20), <1>s DEF Arrive, Storing, Shaped, TypeOK
  <2>5. Quiet
    BY <1>1, <2>4 DEF Arrive, Lookup, RefreshPermit, RefreshClaim, RefreshRefused
  <2> QED
    BY <2>1, <2>3, <2>5, <1>q
<1>2. ASSUME NEW r \in Reqs,
             RenderBuffered(r) \/ RenderStreamed(r) \/ StreamEnd(r) \/ StreamAbandon(r) \/ Cancel(r)
      PROVE  Storing'
  <2>1. PICK a \in PC : Goto(r, a) /\ (pc[r] = "parked" => a \in {"done", "drop"})
    BY <1>2, <1>pc DEF RenderBuffered, RenderStreamed, StreamEnd, StreamAbandon, Cancel, AfterStore
  <2>2. pc[r] \in Rendering \cup {"parked"}
    BY <1>2 DEF RenderBuffered, RenderStreamed, StreamEnd, StreamAbandon, Cancel, Rendering
  <2>3. Quiet
    BY <1>2 DEF RenderBuffered, RenderStreamed, StreamEnd, StreamAbandon, Cancel
  <2>4. a \in Rendering => pc[r] \in Rendering
    BY <2>1, <2>2 DEF Rendering
  <2> QED
    BY <2>1, <2>3, <2>4, <1>q
<1>3. ASSUME NEW r \in Reqs,
             \/ ProbeBefore(r) \/ WaitCheck(r) \/ WaitRecheck(r) \/ WaitRegister(r)
             \/ WaitWoken(r) \/ WaitTimeout(r) \/ DropSlot(r) \/ DropComplete(r) \/ DropNotify(r)
      PROVE  Storing'
  <2>1. PICK a \in PC \ Rendering : Goto(r, a)
    BY <1>3, <1>pc DEF ProbeBefore, Probe, WaitCheck, WaitRecheck, LoadCompleted, WaitRegister,
                WaitWoken, WaitTimeout, DropSlot, DropComplete, DropNotify, Rendering
  <2>2. \A q \in Reqs : (timedout[q] => timedout'[q]) /\ (completed[q] => completed'[q])
    BY SMTT(20), <1>3, <1>s DEF ProbeBefore, Probe, WaitCheck, WaitRecheck, LoadCompleted, WaitRegister,
                WaitWoken, WaitTimeout, DropSlot, DropComplete, DropNotify, TypeOK
  <2>3. UNCHANGED <<cache, stored, lapsed, flight, id>>
    BY <1>3 DEF ProbeBefore, Probe, WaitCheck, WaitRecheck, LoadCompleted, WaitRegister,
                WaitWoken, WaitTimeout, DropSlot, DropComplete, DropNotify
  <2> QED
    BY <2>1, <2>2, <2>3, <1>q
<1>4. ASSUME NEW r \in Reqs, ProbeAfter(r) PROVE Storing'
  <2>1. pc[r] = "reprobe" /\ UNCHANGED <<cache, stored, lapsed, flight, id, timedout, completed>>
    BY <1>4 DEF ProbeAfter, Probe
  <2>2. PICK a \in {"done", "render"} : Goto(r, a) /\ (a = "render" => cache[id[r]] # "fresh")
    BY <1>4 DEF ProbeAfter, Probe
  <2>3. flight[r] \in Reqs /\ id[flight[r]] = id[r]
    BY SMTT(20), <2>1, <1>s DEF Shaped, Following, TypeOK
  <2>4. ~timedout[r] => completed[flight[r]]
    BY <2>1 DEF Inv, Waiting
  <2>5. a = "render" /\ stored[flight[r]] => flight[r] \in lapsed
    BY <2>2, <2>3, <1>s DEF Storing
  <2>6. a \in Rendering => a = "render"
    BY DEF Rendering
  <2> QED
    BY <2>1, <2>2, <2>4, <2>5, <2>6, <1>pc, <1>s, QuietStoring
<1>5. ASSUME NEW r \in Reqs, Enter(r) PROVE Storing'
  <2>1. PICK a \in {"render", "probe"} : Goto(r, a) /\ (a = "render" => flight' = [flight EXCEPT ![r] = r])
    BY <1>5 DEF Enter, EnterShared
  <2>2. \A q \in Reqs \ {r} : flight'[q] = flight[q]
    BY <1>5, <1>s DEF Enter, EnterShared, TypeOK
  <2>3. UNCHANGED <<cache, stored, lapsed, id, timedout, completed>>
    BY <1>5 DEF Enter
  <2>4. a \in Rendering => flight'[r] = r
    BY <2>1, <1>s DEF Rendering, TypeOK
  <2> QED
    BY <2>1, <2>2, <2>3, <2>4, <1>pc, <1>s, QuietStoring
<1>6. ASSUME NEW r \in Reqs, Store(r) PROVE Storing'
  <2>1. pc[r] \in {"store", "fill"} /\ UNCHANGED <<id, flight, lapsed, timedout, completed>>
    BY <1>6 DEF Store
  <2>2. id[r] \in Ids /\ ~completed[r] /\ id[r] # None
    BY <2>1, <1>s, HashType DEF Shaped
  <2>3. \A q \in Reqs : pc'[q] \in Rendering => pc[q] \in Rendering
    BY <1>6, <2>1, <1>s DEF Store, Goto, AfterStore, TypeOK, Rendering
  <2>4. \/ UNCHANGED <<cache, stored>>
        \/ cache' = [cache EXCEPT ![id[r]] = "fresh"] /\ stored' = [stored EXCEPT ![r] = TRUE]
    BY <1>6 DEF Store
  <2>5. \A q \in Reqs \ {r} : stored'[q] = stored[q]
    BY <2>4, <1>s DEF TypeOK
  <2>6. (\A q \in Reqs : stored[q] => id[q] # None)'
    BY <2>1, <2>2, <2>5, <1>s DEF Storing
  <2>7. (\A q \in Reqs : stored[q] /\ q \notin lapsed => cache[id[q]] = "fresh")'
    <3> SUFFICES ASSUME NEW q \in Reqs, stored'[q], q \notin lapsed PROVE cache'[id[q]] = "fresh"
      BY <2>1
    <3>1. id[q] \in Ids
      BY SMTT(20), <2>1, <2>6, <1>s DEF TypeOK
    <3> QED
      BY SMTT(20), <3>1, <2>2, <2>4, <2>5, <1>s DEF Storing, TypeOK
  <2>8. ASSUME NEW q \in Reqs, pc'[q] \in Rendering, flight'[q] \notin {None, q}, ~timedout'[q]
        PROVE  completed'[flight'[q]] /\ (stored'[flight'[q]] => flight'[q] \in lapsed')
    <3>1. flight[q] \in Reqs /\ completed[flight[q]] /\ (stored[flight[q]] => flight[q] \in lapsed)
      BY SMTT(20), <2>1, <2>3, <2>8, <1>s DEF Storing, TypeOK
    <3>2. flight[q] # r
      BY <3>1, <2>2
    <3> QED
      BY <3>1, <3>2, <2>1, <2>5
  <2> QED
    BY <2>6, <2>7, <2>8 DEF Storing
<1>7. ASSUME NEW i \in Ids, Lose(i) PROVE Storing'
  <2>1. UNCHANGED <<pc, id, flight, timedout, completed, stored>> /\ lapsed \subseteq lapsed'
    BY <1>7 DEF Lose
  <2>2. ASSUME NEW q \in Reqs, stored[q], q \notin lapsed' PROVE cache'[id[q]] = "fresh"
    <3>1. id[q] # i /\ q \notin lapsed
      BY <1>7, <2>2 DEF Lose
    <3>2. cache[id[q]] = "fresh" /\ id[q] \in Ids
      BY SMTT(20), <2>2, <3>1, <1>s DEF Storing, TypeOK
    <3> QED
      BY <1>7, <3>1, <3>2, <1>s DEF Lose, TypeOK
  <2> QED
    BY <2>1, <2>2, <1>s DEF Storing
<1>8. ASSUME UNCHANGED <<pc, id, flight, timedout, completed, stored, lapsed, cache>> PROVE Storing'
  BY <1>8, <1>s DEF Storing
<1>9. ASSUME NEW r \in Reqs, GuardFree(r) \/ PermitFree(r) PROVE Storing'
  BY <1>8, <1>9 DEF GuardFree, PermitFree
<1>10. CASE UNCHANGED vars
  BY <1>8, <1>10 DEF vars
<1> QED
  BY <1>1, <1>2, <1>3, <1>4, <1>5, <1>6, <1>7, <1>9, <1>10 DEF Next, Progress

-----------------------------------------------------------------------------
(* The refresh registry.                                                     *)

(* The permits follow the set of requests that hold one.                   *)
LEMMA PermitCount ==
  ASSUME TypeOK, Permits, NEW r \in Reqs,
         \/ Holders' = Holders /\ sem' = sem
         \/ r \notin Holders /\ Holders' = Holders \cup {r} /\ sem > 0 /\ sem' = sem - 1
         \/ r \in Holders /\ Holders' = Holders \ {r} /\ sem' = sem + 1
  PROVE  sem' + Cardinality(Holders') = MaxConcurrent
<1>1. sem + Cardinality(Holders) = MaxConcurrent
  BY DEF Permits, Holders
<1>2. sem \in Nat /\ Cardinality(Holders) \in Nat /\ IsFiniteSet(Holders)
  BY SMTT(20), HoldersFinite, SingleFlightAssumption DEF TypeOK
<1>3. CASE Holders' = Holders /\ sem' = sem
  BY <1>1, <1>3
<1>4. CASE r \notin Holders /\ Holders' = Holders \cup {r} /\ sem > 0 /\ sem' = sem - 1
  <2>1. Cardinality(Holders') = Cardinality(Holders) + 1
    BY <1>2, <1>4, FS_AddElement
  <2> QED
    BY SMTT(20), <1>1, <1>2, <1>4, <2>1
<1>5. CASE r \in Holders /\ Holders' = Holders \ {r} /\ sem' = sem + 1
  <2>1. Cardinality(Holders') = Cardinality(Holders) - 1
    BY <1>2, <1>5, FS_RemoveElement
  <2> QED
    BY SMTT(20), <1>1, <1>2, <1>5, <2>1
<1> QED
  BY <1>3, <1>4, <1>5

LEMMA StepPermits == Inv /\ [Next]_vars => Permits'
<1> SUFFICES ASSUME Inv, [Next]_vars PROVE Permits'
  OBVIOUS
<1> USE DEF reqVars, flightVars, refreshVars, cacheVars
<1>s. TypeOK /\ Permits /\ \A r \in Reqs : Shaped(r)
  BY DEF Inv, Shape
<1>g. ASSUME NEW r \in Reqs, NEW a, Goto(r, a)
      PROVE  pc'[r] = a /\ \A q \in Reqs \ {r} : pc'[q] = pc[q]
  BY <1>g, <1>s DEF Goto, TypeOK
<1>k. ASSUME UNCHANGED <<inflight, guard>>, \A q \in Running : id'[q] = id[q]
      PROVE  /\ inflight' = {HashOf(r) : r \in Running}'
             /\ (\A q, r \in Running : HashOf(q) = HashOf(r) => q = r)'
  <2>1. Running' = Running /\ \A q \in Running : HashOf(q)' = HashOf(q)
    BY <1>k DEF Running, HashOf
  <2> QED
    BY SMTT(20), <2>1, <1>k, <1>s DEF Permits
<1>h. ASSUME NEW r \in Reqs, NEW a, Goto(r, a), UNCHANGED guard,
             pc[r] \notin {"claim", "refused"}, a \notin {"claim", "refused"}
      PROVE  Holders' = Holders
  BY <1>h, <1>g DEF Holders, HoldsPermit
<1>q. ASSUME NEW r \in Reqs, NEW a, Goto(r, a), UNCHANGED <<guard, sem, inflight>>,
             pc[r] \notin {"claim", "refused"}, a \notin {"claim", "refused"},
             \A q \in Running : id'[q] = id[q]
      PROVE  Permits'
  <2>1. Holders' = Holders
    BY <1>q, <1>h
  <2>2. sem' + Cardinality(Holders') = MaxConcurrent
    BY <2>1, <1>q, <1>s, PermitCount
  <2> QED
    BY <2>2, <1>q, <1>k DEF Permits, Holders
<1>1. ASSUME NEW r \in Reqs, Arrive(r) PROVE Permits'
  <2>1. pc[r] = "idle" /\ Goto(r, "lookup") /\ UNCHANGED <<guard, sem, inflight>>
    BY <1>1 DEF Arrive
  <2>2. r \notin Running
    BY <2>1, <1>s DEF Shaped, Running
  <2>3. \A q \in Running : id'[q] = id[q]
    BY SMTT(20), <1>1, <2>2, <1>s DEF Arrive, Running, TypeOK
  <2> QED
    BY <2>1, <2>3, <1>q
<1>2. ASSUME NEW r \in Reqs, Lookup(r) PROVE Permits'
  <2>1. CacheLookup(r) \in {"none", "fresh", "stale"}
    BY <1>2, <1>s, HashType DEF Lookup, CacheLookup
  <2>2. \E a \in {"done", "stale", "enter", "render"} : Goto(r, a)
    BY <1>2, <2>1 DEF Lookup
  <2>3. pc[r] = "lookup" /\ UNCHANGED <<id, guard, sem, inflight>>
    BY <1>2 DEF Lookup
  <2> QED
    BY <2>2, <2>3, <1>q
<1>3. ASSUME NEW r \in Reqs,
             \/ Enter(r) \/ ProbeBefore(r) \/ ProbeAfter(r) \/ WaitCheck(r) \/ WaitRecheck(r)
             \/ WaitRegister(r) \/ WaitWoken(r) \/ WaitTimeout(r)
      PROVE  Permits'
  <2>1. \E a \in Following \cup {"render", "done"} : Goto(r, a)
    BY <1>3 DEF Enter, EnterShared, ProbeBefore, ProbeAfter, Probe, WaitCheck, WaitRecheck,
                LoadCompleted, WaitRegister, WaitWoken, WaitTimeout, Following
  <2>2. pc[r] \in Following \cup {"enter"}
    BY <1>3 DEF Enter, ProbeBefore, ProbeAfter, Probe, WaitCheck, WaitRecheck,
                LoadCompleted, WaitRegister, WaitWoken, WaitTimeout, Following
  <2>3. UNCHANGED <<id, guard, sem, inflight>>
    BY <1>3 DEF Enter, ProbeBefore, ProbeAfter, Probe, WaitCheck, WaitRecheck,
                LoadCompleted, WaitRegister, WaitWoken, WaitTimeout
  <2> QED
    BY <2>1, <2>2, <2>3, <1>q DEF Following
<1>4. ASSUME NEW r \in Reqs,
             \/ RenderBuffered(r) \/ RenderStreamed(r) \/ StreamEnd(r) \/ StreamAbandon(r) \/ Store(r)
             \/ Cancel(r) \/ DropSlot(r) \/ DropComplete(r) \/ DropNotify(r)
      PROVE  Permits'
  <2>1. \E a \in Rendering \cup Dropping \cup {"done"} : Goto(r, a)
    BY <1>4 DEF RenderBuffered, RenderStreamed, StreamEnd, StreamAbandon, Store, Cancel,
                DropSlot, DropComplete, DropNotify, AfterStore, Rendering, Dropping
  <2>2. pc[r] \notin {"claim", "refused"}
    BY <1>4 DEF RenderBuffered, RenderStreamed, StreamEnd, StreamAbandon, Store, Cancel,
                DropSlot, DropComplete, DropNotify
  <2>3. UNCHANGED <<id, guard, sem, inflight>>
    BY <1>4 DEF RenderBuffered, RenderStreamed, StreamEnd, StreamAbandon, Store, Cancel,
                DropSlot, DropComplete, DropNotify
  <2> QED
    BY <2>1, <2>2, <2>3, <1>q DEF Rendering, Dropping
<1>5. ASSUME NEW r \in Reqs, RefreshPermit(r) PROVE Permits'
  <2>1. pc[r] = "stale" /\ guard[r] = "no" /\ UNCHANGED <<id, guard, inflight>>
    BY <1>5, <1>s DEF RefreshPermit, Shaped
  <2>2. CASE sem > 0
    <3>1. Goto(r, "claim") /\ sem' = sem - 1
      BY <1>5, <2>2 DEF RefreshPermit
    <3>2. r \notin Holders /\ Holders' = Holders \cup {r}
      BY <2>1, <3>1, <1>g DEF Holders, HoldsPermit
    <3>3. sem' + Cardinality(Holders') = MaxConcurrent
      BY <2>2, <3>1, <3>2, <1>s, PermitCount
    <3> QED
      BY <3>3, <2>1, <1>k DEF Permits, Holders
  <2>3. CASE ~(sem > 0)
    BY <1>5, <2>1, <2>3, <1>q DEF RefreshPermit
  <2> QED
    BY <2>2, <2>3
<1>6. ASSUME NEW r \in Reqs, RefreshRefused(r) PROVE Permits'
  <2>1. pc[r] = "refused" /\ guard[r] = "no" /\ UNCHANGED <<id, guard, inflight>>
        /\ Goto(r, "done") /\ sem' = sem + 1
    BY <1>6, <1>s DEF RefreshRefused, Shaped
  <2>2. r \in Holders /\ Holders' = Holders \ {r}
    BY <2>1, <1>g DEF Holders, HoldsPermit
  <2>3. sem' + Cardinality(Holders') = MaxConcurrent
    BY <2>1, <2>2, <1>s, PermitCount
  <2> QED
    BY <2>1, <2>3, <1>k DEF Permits, Holders
<1>7. ASSUME NEW r \in Reqs, PermitFree(r) PROVE Permits'
  <2>1. guard[r] = "freed" /\ UNCHANGED <<pc, id, inflight>> /\ sem' = sem + 1
        /\ guard'[r] = "no" /\ \A q \in Reqs \ {r} : guard'[q] = guard[q]
    BY <1>7, <1>s DEF PermitFree, TypeOK
  <2>2. pc[r] \notin {"claim", "refused"}
    BY <2>1, <1>s DEF Shaped
  <2>3. r \in Holders /\ Holders' = Holders \ {r}
    BY <2>1, <2>2 DEF Holders, HoldsPermit
  <2>4. sem' + Cardinality(Holders') = MaxConcurrent
    BY <2>1, <2>3, <1>s, PermitCount
  <2>5. Running' = Running /\ \A q \in Running : HashOf(q)' = HashOf(q)
    BY <2>1 DEF Running, HashOf
  <2> QED
    BY SMTT(20), <2>1, <2>4, <2>5, <1>s DEF Permits, Holders
<1>8. ASSUME NEW r \in Reqs, GuardFree(r) PROVE Permits'
  <2>1. guard[r] = "held" /\ UNCHANGED <<pc, id, sem>> /\ inflight' = inflight \ {HashOf(r)}
        /\ guard'[r] = "freed" /\ \A q \in Reqs \ {r} : guard'[q] = guard[q]
    BY <1>8, <1>s DEF GuardFree, TypeOK
  <2>2. Holders' = Holders
    BY <2>1 DEF Holders, HoldsPermit
  <2>3. sem' + Cardinality(Holders') = MaxConcurrent
    BY <2>1, <2>2, <1>s, PermitCount
  <2>4. r \in Running /\ Running' = Running \ {r} /\ \A q \in Running : HashOf(q)' = HashOf(q)
    BY <2>1 DEF Running, HashOf
  <2>5. \A q \in Running \ {r} : HashOf(q) # HashOf(r)
    BY <2>4, <1>s DEF Permits
  <2>6. inflight' = {HashOf(q) : q \in Running}'
    BY SMTT(20), <2>1, <2>4, <2>5, <1>s DEF Permits
  <2> QED
    BY SMTT(20), <2>3, <2>4, <2>6, <1>s DEF Permits, Holders
<1>9. ASSUME NEW r \in Reqs, RefreshClaim(r) PROVE Permits'
  <2>1. pc[r] = "claim" /\ guard[r] = "no" /\ UNCHANGED <<id, sem>> /\ r \notin Running
    BY <1>9, <1>s DEF RefreshClaim, Shaped, Running
  <2>2. CASE HashOf(r) \in inflight
    <3>1. Goto(r, "refused") /\ UNCHANGED <<inflight, guard>>
      BY <1>9, <2>2 DEF RefreshClaim
    <3>2. Holders' = Holders
      BY <2>1, <3>1, <1>g DEF Holders, HoldsPermit
    <3>3. sem' + Cardinality(Holders') = MaxConcurrent
      BY <2>1, <3>2, <1>s, PermitCount
    <3> QED
      BY <2>1, <3>1, <3>3, <1>k DEF Permits, Holders
  <2>3. CASE HashOf(r) \notin inflight
    <3>1. Goto(r, "lookup") /\ inflight' = inflight \cup {HashOf(r)}
          /\ guard'[r] = "held" /\ \A q \in Reqs \ {r} : guard'[q] = guard[q]
      BY SMTT(20), <1>9, <2>3, <1>s DEF RefreshClaim, TypeOK
    <3>2. Holders' = Holders
      BY <2>1, <3>1, <1>g DEF Holders, HoldsPermit
    <3>3. sem' + Cardinality(Holders') = MaxConcurrent
      BY <2>1, <3>2, <1>s, PermitCount
    <3>4. Running' = Running \cup {r} /\ \A q \in Reqs : HashOf(q)' = HashOf(q)
      BY <2>1, <3>1 DEF Running, HashOf
    <3>5. \A q \in Running : HashOf(q) # HashOf(r) /\ q \in Reqs
      BY <2>3, <1>s DEF Permits, Running
    <3>6. inflight' = {HashOf(q) : q \in Running}'
      BY SMTT(20), <3>1, <3>4, <3>5, <1>s DEF Permits
    <3>7. (\A p, q \in Running : HashOf(p) = HashOf(q) => p = q)'
      BY SMTT(20), <3>4, <3>5, <1>s DEF Permits
    <3> QED
      BY <3>3, <3>6, <3>7 DEF Permits, Holders
  <2> QED
    BY <2>2, <2>3
<1>10. ASSUME UNCHANGED <<pc, id, sem, inflight, guard>> PROVE Permits'
  <2>1. Running' = Running /\ {q \in Reqs : HoldsPermit(q)}' = {q \in Reqs : HoldsPermit(q)}
        /\ \A q \in Running : HashOf(q)' = HashOf(q)
    BY <1>10 DEF Running, HoldsPermit, HashOf
  <2> QED
    BY SMTT(20), <2>1, <1>10, <1>s DEF Permits
<1>11. ASSUME NEW i \in Ids, Lose(i) PROVE Permits'
  BY <1>10, <1>11 DEF Lose
<1>12. CASE UNCHANGED vars
  BY <1>10, <1>12 DEF vars
<1> QED
  BY SMTT(20), <1>1, <1>2, <1>3, <1>4, <1>5, <1>6, <1>7, <1>8, <1>9, <1>11, <1>12 DEF Next, Progress

(* The registry holds as many keys as there are running refreshes.         *)
LEMMA KeysOfTasks == Permits => Cardinality(inflight) = Cardinality(Running)
<1> SUFFICES ASSUME Permits PROVE Cardinality(inflight) = Cardinality(Running)
  OBVIOUS
<1> DEFINE f == [r \in Running |-> HashOf(r)]
<1>1. f \in [Running -> inflight] /\ \A t \in inflight : \E r \in Running : f[r] = t
  BY DEF Permits
<1>2. \A q, r \in Running : f[q] = f[r] => q = r
  BY DEF Permits
<1>3. f \in Bijection(Running, inflight)
  BY <1>1, <1>2 DEF Bijection, Injection, Surjection, IsInjective
<1>4. IsFiniteSet(Running)
  BY SingleFlightAssumption, FS_Subset DEF Running
<1> QED
  BY <1>3, <1>4, FS_Bijection DEF ExistsBijection

-----------------------------------------------------------------------------
(* The theorems.                                                             *)

LEMMA InvInit == Init => Inv
<1> SUFFICES ASSUME Init PROVE Inv
  OBVIOUS
<1>1. TypeOK
  BY SMTT(20), SingleFlightAssumption DEF Init, TypeOK, PC
<1>2. \A r \in Reqs : Shaped(r)
  BY DEF Init, Shaped, Answering, Following, Dropping
<1>3. SlotIsItsLeaders
  BY DEF Init, SlotIsItsLeaders, HoldsSlot
<1>4. Waiting
  BY DEF Init, Waiting, NoLostWakeup
<1>5. Storing
  BY DEF Init, Storing, Rendering
<1>6. Permits
  <2>1. {r \in Reqs : HoldsPermit(r)} = {} /\ Running = {}
    BY DEF Init, HoldsPermit, Running
  <2>2. Cardinality({}) = 0
    BY FS_EmptySet
  <2>3. sem + Cardinality({r \in Reqs : HoldsPermit(r)}) = MaxConcurrent
    <3>1. sem = MaxConcurrent /\ sem \in Nat
      BY SingleFlightAssumption DEF Init
    <3>2. Cardinality({r \in Reqs : HoldsPermit(r)}) = 0
      BY <2>1, <2>2
    <3> QED
      BY SMTT(20), <3>1, <3>2
  <2>4. inflight = {HashOf(r) : r \in Running}
    BY <2>1 DEF Init
  <2> QED
    BY <2>1, <2>3, <2>4 DEF Permits
<1> QED
  BY <1>1, <1>2, <1>3, <1>4, <1>5, <1>6 DEF Inv, Shape

LEMMA InvStep == Inv /\ [Next]_vars => Inv'
  BY StepShape, StepWaiting, StepStoring, StepPermits DEF Inv

LEMMA InvHolds == Spec => []Inv
  BY InvInit, InvStep, PTL DEF Spec

(* InflightRegistry and RefreshRegistry: whatever hashes collide and       *)
(* however requests interleave, the slot of a hash is its live leader's,   *)
(* a follower waits only for its own page, permits are conserved and each  *)
(* key in flight is one refresh's.                                         *)
THEOREM Flights == Spec => []FlightsExact
<1>1. Inv => FlightsExact
  <2> SUFFICES ASSUME Inv PROVE FlightsExact
    OBVIOUS
  <2>1. SlotIsItsLeaders
    BY DEF Inv, Shape
  <2>2. FollowsOwnPage
    BY DEF Inv, Shape, Shaped, FollowsOwnPage
  <2>3. RefreshConserved
    BY KeysOfTasks DEF Inv, Permits, RefreshConserved, Running
  <2> QED
    BY <2>1, <2>2, <2>3 DEF FlightsExact
<1> QED
  BY <1>1, InvHolds, PTL

(* InflightFollower::wait against InflightLeader::drop: no order of the    *)
(* two loads of `completed`, the registration, the sticky bit and          *)
(* notify_waiters leaves a follower parked on a finished flight.           *)
THEOREM Wakeup == Spec => []NoLostWakeup
<1>1. Inv => NoLostWakeup
  BY DEF Inv, Waiting
<1> QED
  BY <1>1, InvHolds, PTL

(* The leader guard outlives the store, buffered or streamed: a follower   *)
(* its leader released renders only if there is nothing left to serve.     *)
THEOREM Stampede == Spec => []NoStampede
<1>1. Inv => NoStampede
  <2> SUFFICES ASSUME Inv, NEW r \in Reqs,
                      pc[r] \in Rendering, flight[r] \notin {None, r}, ~timedout[r]
               PROVE  pc[flight[r]] \notin Rendering /\ (stored[flight[r]] => flight[r] \in lapsed)
    BY DEF NoStampede
  <2>1. flight[r] \in Reqs /\ completed[flight[r]] /\ (stored[flight[r]] => flight[r] \in lapsed)
    BY SMTT(20) DEF Inv, Shape, TypeOK, Storing
  <2>2. pc[flight[r]] \in {"notify", "done"}
    BY <2>1 DEF Inv, Shape, Shaped
  <2> QED
    BY <2>1, <2>2 DEF Rendering
<1> QED
  BY <1>1, InvHolds, PTL

=============================================================================
