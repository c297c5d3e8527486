------------------------- MODULE BodyBudgetProof --------------------------
(***************************************************************************)
(* Proofs about BodyBudget for any number of tasks, any budget and any     *)
(* amounts: a release is never lost on a sleeping waiter, the budget is    *)
(* never over-committed, waiters are served in the order they came, and    *)
(* BodyBudget implements ByteBudget.                                       *)
(***************************************************************************)
EXTENDS BodyBudgetPromise, FiniteSetTheorems, SequenceTheorems, TLAPS

\* Leaves are set and function reasoning; one that needs more says SMTT.
USE ZenonT(30)

\* waiters counts the live Waiter guards.
WaitersCounted == waiters = Cardinality(Registered)

\* The permit is where the code that holds it is.
TurnHeld == \A t \in Tasks : HoldsTurn(t) <=> turn = t

\* The semaphore's queue holds the queued tasks, once each, and only while
\* the permit is out.
QueueOK ==
    /\ \A i \in 1..Len(queue) : pc[queue[i]] = "queued"
    /\ \A i, j \in 1..Len(queue) : queue[i] = queue[j] => i = j
    /\ \A t \in Tasks : pc[t] = "queued" => \E i \in 1..Len(queue) : queue[i] = t
    /\ queue # <<>> => turn # NoTask

\* Whoever was in line when t asked, and still is, is in front of t.
AheadOK ==
    /\ \A t \in Tasks : \A u \in ahead[t] : InLine(u)
    /\ \A t \in Tasks : pc[t] = "fast" \/ HoldsTurn(t) => ahead[t] = {}
    /\ \A i \in 1..Len(queue) : \A u \in ahead[queue[i]] :
          turn = u \/ \E j \in 1..(i - 1) : queue[j] = u

IInv == TypeOK /\ WaitersCounted /\ TurnHeld /\ QueueOK /\ AheadOK
        /\ NoLostWakeup /\ NeverOverBudget

---------------------------------------------------------------------------
USE BudgetAssumption

LEMMA InitInv == Init => IInv
<1> SUFFICES ASSUME Init PROVE IInv
    OBVIOUS
<1>1. TypeOK
    BY SMTT(20) DEF Init, TypeOK, Steps
<1>2. Registered = {}
    BY DEF Init, Registered
<1>3. WaitersCounted
    BY <1>2, FS_EmptySet DEF Init, WaitersCounted
<1>4. TurnHeld /\ QueueOK /\ AheadOK /\ NoLostWakeup /\ NeverOverBudget
    BY SMTT(20) DEF Init, TurnHeld, HoldsTurn, QueueOK, AheadOK, NoLostWakeup, NeverOverBudget
<1> QED BY <1>1, <1>3, <1>4 DEF IInv

LEMMA MinInNat == ASSUME NEW a \in Nat, NEW b \in Nat
                  PROVE Min2(a, b) \in Nat /\ Min2(a, b) <= b
BY SMTT(20) DEF Min2

\* Removing one element of the queue keeps it a sequence of tasks; its elements
\* keep their order, those in front of the i-th their place.
LEMMA WithoutProps ==
    ASSUME TypeOK, NEW i \in 1..Len(queue)
    PROVE  /\ Without(i) \in Seq(Tasks)
           /\ Len(Without(i)) = Len(queue) - 1
           /\ \A j \in 1..(Len(queue) - 1) :
                 Without(i)[j] = IF j < i THEN queue[j] ELSE queue[j + 1]
<1> DEFINE a == SubSeq(queue, 1, i - 1)
           b == SubSeq(queue, i + 1, Len(queue))
<1>0. queue \in Seq(Tasks) /\ Len(queue) \in Nat /\ i \in Nat /\ i >= 1 /\ i <= Len(queue)
    BY SMTT(20), LenProperties DEF TypeOK
<1>1. a \in Seq(Tasks) /\ Len(a) = i - 1 /\ \A j \in 1..(i - 1) : a[j] = queue[j]
    BY SMTT(20), <1>0, SubSeqProperties
<1>2. b \in Seq(Tasks) /\ Len(b) = Len(queue) - i
      /\ \A j \in 1..(Len(queue) - i) : b[j] = queue[j + i]
    BY SMTT(20), <1>0, SubSeqProperties
<1> HIDE DEF a, b
<1>3. a \o b \in Seq(Tasks) /\ Len(a \o b) = Len(a) + Len(b)
      /\ \A j \in 1..(Len(a) + Len(b)) :
            (a \o b)[j] = IF j <= Len(a) THEN a[j] ELSE b[j - Len(a)]
    BY <1>1, <1>2, ConcatProperties
<1>4. Without(i) = a \o b
    BY DEF Without, a, b
<1>5. ASSUME NEW j \in 1..(Len(queue) - 1)
      PROVE (a \o b)[j] = IF j < i THEN queue[j] ELSE queue[j + 1]
    <2>1. CASE j < i
        BY SMTT(20), <1>0, <1>1, <1>2, <1>3, <2>1
    <2>2. CASE j >= i
        <3>1. (a \o b)[j] = b[j - (i - 1)]
            BY SMTT(20), <1>0, <1>1, <1>2, <1>3, <2>2
        <3>2. j - (i - 1) \in 1..(Len(queue) - i) /\ (j - (i - 1)) + i = j + 1
            BY SMTT(20), <1>0, <2>2
        <3>3. b[j - (i - 1)] = queue[(j - (i - 1)) + i]
            BY <1>2, <3>2
        <3> QED BY SMTT(20), <3>1, <3>2, <3>3, <2>2
    <2>3. j \in Int /\ i \in Int
        BY SMTT(20), <1>0
    <2>4. j < i \/ j >= i
        BY SMTT(20), <2>3
    <2> QED BY <2>1, <2>2, <2>4
<1>6. Len(a \o b) = Len(queue) - 1
    BY SMTT(20), <1>0, <1>1, <1>2, <1>3
<1> QED BY <1>3, <1>4, <1>5, <1>6

LEMMA TypeStep == ASSUME IInv, [Next]_vars PROVE TypeOK'
<1> USE DEF IInv, TypeOK
<1>1. ASSUME NEW t \in Tasks, NEW n \in Sizes, Reserve(t, n) PROVE TypeOK'
    BY SMTT(20), <1>1 DEF Reserve, Start, Charge
<1>2. ASSUME NEW t \in Tasks, NEW n \in Sizes, AcquireWait(t, n) PROVE TypeOK'
    <2>1. pc' \in [Tasks -> Steps]
        BY <1>2, Zenon DEF AcquireWait, Start, Goto, Steps
    <2>2. ops' \in [Tasks -> Nat]
        BY SMTT(20), <1>2 DEF AcquireWait, Start
    <2>5. want' \in [Tasks -> Nat]
        <3>1. n \in Nat
            OBVIOUS
        <3> QED BY <1>2, <3>1 DEF AcquireWait
    <2>3. {u \in Tasks : InLine(u)} \in SUBSET Tasks
        OBVIOUS
    <2>4. ahead' \in [Tasks -> SUBSET Tasks]
        BY <1>2, <2>3 DEF AcquireWait
    <2> QED BY <1>2, <2>1, <2>2, <2>4, <2>5 DEF AcquireWait
<1>3. ASSUME NEW t \in Tasks, NEW m \in Nat, m <= held[t], GiveBack(t, m),
             ops' \in [Tasks -> Nat]
      PROVE  TypeOK'
    <2>1. pc' \in [Tasks -> Steps]
        BY <1>3 DEF GiveBack, Goto, Steps
    <2>2. held' \in [Tasks -> Nat] /\ in_flight' \in Int
        BY SMTT(20), <1>3 DEF GiveBack
    <2> QED BY <1>3, <2>1, <2>2 DEF GiveBack
<1>4. ASSUME NEW t \in Tasks, NEW n \in Sizes, Release(t, n) PROVE TypeOK'
    <2>1. Min2(n, held[t]) \in Nat /\ Min2(n, held[t]) <= held[t]
        BY MinInNat
    <2>2. ops' \in [Tasks -> Nat]
        BY SMTT(20), <1>4 DEF Release, Start
    <2> QED BY <1>3, <1>4, <2>1, <2>2 DEF Release
<1>5. ASSUME NEW t \in Tasks, Drop(t) PROVE TypeOK'
    <2>1. held[t] \in Nat /\ held[t] <= held[t] /\ ops' \in [Tasks -> Nat]
        BY SMTT(20), <1>5 DEF Drop
    <2>2. GiveBack(t, held[t])
        BY <1>5 DEF Drop
    <2> QED BY <1>3, <2>1, <2>2
<1>6. ASSUME NEW t \in Tasks PROVE Overtaken(t) \in [Tasks -> SUBSET Tasks]
    BY DEF Overtaken
<1>7. ASSUME NEW t \in Tasks, Progress(t) PROVE TypeOK'
    <2>1. CASE LoadWaiters(t) \/ Wake(t) \/ CountWaiters(t)
        BY <2>1 DEF LoadWaiters, Wake, CountWaiters, Goto, Steps
    <2>2. CASE FastReserve(t)
        <3>1. pc' \in [Tasks -> Steps]
            BY <2>2, Zenon DEF FastReserve, Goto, Steps
        <3>2. in_flight' \in Int /\ held' \in [Tasks -> Nat]
            <4>1. want[t] \in Nat
                OBVIOUS
            <4>2. Charge(want[t]) \in Int
                BY SMTT(20), <4>1 DEF Charge
            <4> QED BY <2>2, <4>1, <4>2 DEF FastReserve
        <3> QED BY <2>2, <3>1, <3>2 DEF FastReserve
    <2>3. CASE Register(t)
        BY SMTT(20), <2>3 DEF Register, Goto, Steps
    <2>4. CASE AcquireTurn(t)
        <3>1. Append(queue, t) \in Seq(Tasks)
            BY AppendProperties
        <3>2. pc' \in [Tasks -> Steps]
            BY <2>4, Zenon DEF AcquireTurn, Goto, Steps
        <3> QED BY <2>4, <3>1, <3>2 DEF AcquireTurn
    <2>5. CASE Arm(t)
        BY <2>5 DEF Arm, Goto, Steps
    <2>6. CASE Recheck(t)
        <3>1. pc' \in [Tasks -> Steps]
            BY <2>6 DEF Recheck, Goto, Steps
        <3>2. in_flight' \in Int /\ held' \in [Tasks -> Nat]
            BY SMTT(20), <2>6 DEF Recheck, Charge
        <3>3. ahead' \in [Tasks -> SUBSET Tasks]
            BY SMTT(20), <1>6, <2>6 DEF Recheck
        <3> QED BY <2>6, <3>1, <3>2, <3>3 DEF Recheck
    <2>7. CASE GiveTurn(t)
        <3>1. queue # <<>> => Head(queue) \in Tasks /\ Tail(queue) \in Seq(Tasks)
            BY HeadTailProperties
        <3> QED BY <2>7, <3>1 DEF GiveTurn, Goto, Steps
    <2>8. CASE Unregister(t)
        <3>1. t \in Registered /\ Registered \subseteq Tasks
            BY <2>8 DEF Registered, Unregister
        <3>2. IsFiniteSet(Registered) /\ Cardinality(Registered) # 0
              /\ Cardinality(Registered) \in Nat
            BY <3>1, FS_Subset, FS_EmptySet, FS_CardinalityType
        <3>3. waiters - 1 \in Nat
            BY SMTT(20), <3>2 DEF WaitersCounted
        <3> QED BY <2>8, <3>3 DEF Unregister, Goto, Steps
    <2>9. CASE NotifyWaiters(t)
        <3>1. pc' \in [Tasks -> Steps]
            BY <2>9 DEF NotifyWaiters, Goto, Steps
        <3>2. woken' \in [Tasks -> BOOLEAN]
            BY <2>9 DEF NotifyWaiters, Listening
        <3> QED BY <2>9, <3>1, <3>2 DEF NotifyWaiters
    <2> QED BY <1>7, <2>1, <2>2, <2>3, <2>4, <2>5, <2>6, <2>7, <2>8, <2>9 DEF Progress
<1>8. ASSUME NEW t \in Tasks, Cancel(t) PROVE TypeOK'
    <2>1. pc' \in [Tasks -> Steps]
        BY <1>8 DEF Cancel, Goto, Steps
    <2>2. queue' \in Seq(Tasks)
        BY SMTT(20), <1>8, WithoutProps DEF Cancel
    <2>3. ahead' \in [Tasks -> SUBSET Tasks]
        BY <1>6, <1>8 DEF Cancel
    <2> QED BY <1>8, <2>1, <2>2, <2>3 DEF Cancel
<1>9. CASE UNCHANGED vars
    BY <1>9 DEF vars
<1> QED BY <1>1, <1>2, <1>4, <1>5, <1>7, <1>8, <1>9 DEF Next

---------------------------------------------------------------------------
(* The waiter count, and the two properties that rest on it.               *)

\* A step that neither registers nor drops a Waiter leaves Registered alone.
LEMMA WaitersStep == ASSUME IInv, [Next]_vars PROVE WaitersCounted'
<1> USE DEF IInv, TypeOK
<1>1. IsFiniteSet(Registered) /\ Cardinality(Registered) \in Nat
    BY FS_Subset, FS_CardinalityType DEF Registered
<1>2. ASSUME Registered' = Registered, waiters' = waiters PROVE WaitersCounted'
    BY <1>2 DEF WaitersCounted
<1>3. ASSUME NEW t \in Tasks, Register(t) PROVE WaitersCounted'
    <2>1. t \notin Registered /\ Registered' = Registered \cup {t}
        BY SMTT(20), <1>3 DEF Register, Registered, Goto
    <2> QED BY <1>1, <1>3, <2>1, FS_AddElement DEF WaitersCounted, Register
<1>4. ASSUME NEW t \in Tasks, Unregister(t) PROVE WaitersCounted'
    <2>1. t \in Registered /\ Registered' = Registered \ {t}
        BY <1>4 DEF Unregister, Registered, Goto
    <2> QED BY <1>1, <1>4, <2>1, FS_RemoveElement DEF WaitersCounted, Unregister
<1>5. ASSUME NEW t \in Tasks, NEW n \in Sizes,
             Reserve(t, n) \/ AcquireWait(t, n) \/ Release(t, n)
      PROVE  WaitersCounted'
    BY <1>2, <1>5, SMTT(20) DEF Reserve, AcquireWait, Release, GiveBack, Start, Goto, Registered
<1>6. ASSUME NEW t \in Tasks,
             LoadWaiters(t) \/ FastReserve(t) \/ AcquireTurn(t) \/ Arm(t)
      PROVE  WaitersCounted'
    BY <1>2, <1>6 DEF LoadWaiters, FastReserve, AcquireTurn, Arm, Goto, Registered
<1>7. ASSUME NEW t \in Tasks,
             Recheck(t) \/ Wake(t) \/ CountWaiters(t) \/ NotifyWaiters(t)
      PROVE  WaitersCounted'
    BY <1>2, <1>7 DEF Recheck, Wake, CountWaiters, NotifyWaiters, Goto, Registered
<1>8. ASSUME NEW t \in Tasks, GiveTurn(t) PROVE WaitersCounted'
    <2>1. queue # <<>> => Head(queue) \in Tasks /\ pc[Head(queue)] = "queued"
        BY SMTT(20), HeadTailProperties DEF QueueOK
    <2> QED BY <1>2, <1>8, <2>1 DEF GiveTurn, Goto, Registered
<1>9. ASSUME NEW t \in Tasks, Cancel(t) \/ Drop(t) PROVE WaitersCounted'
    BY <1>2, <1>9, Zenon DEF Cancel, Drop, GiveBack, Goto, Registered
<1>10. CASE UNCHANGED vars
    BY <1>2, <1>10 DEF vars, Registered
<1> QED
    BY <1>3, <1>4, <1>5, <1>6, <1>7, <1>8, <1>9, <1>10 DEF Next, Progress

LEMMA BudgetStep == ASSUME IInv, [Next]_vars PROVE NeverOverBudget'
<1> USE DEF IInv, TypeOK, NeverOverBudget
<1>1. ASSUME in_flight' = in_flight PROVE NeverOverBudget'
    BY <1>1
<1>2. ASSUME NEW n \in Nat, Fits(n), in_flight' = Charge(n) PROVE NeverOverBudget'
    BY <1>2 DEF Fits, Charge
<1>3. ASSUME NEW m \in Nat, in_flight' = in_flight - m PROVE NeverOverBudget'
    BY SMTT(20), <1>3
<1>4. ASSUME NEW t \in Tasks, NEW n \in Sizes,
             Reserve(t, n) \/ AcquireWait(t, n) \/ Release(t, n)
      PROVE  NeverOverBudget'
    <2>1. n \in Nat /\ Min2(n, held[t]) \in Nat
        BY MinInNat
    <2> QED BY <1>1, <1>2, <1>3, <1>4, <2>1 DEF Reserve, AcquireWait, Release, GiveBack
<1>5. ASSUME NEW t \in Tasks, FastReserve(t) \/ Recheck(t) \/ Drop(t)
      PROVE  NeverOverBudget'
    <2>1. want[t] \in Nat /\ held[t] \in Nat
        OBVIOUS
    <2> QED BY <1>1, <1>2, <1>3, <1>5, <2>1, SMTT(20) DEF FastReserve, Recheck, Drop, GiveBack
<1>6. ASSUME NEW t \in Tasks,
             \/ LoadWaiters(t) \/ Register(t) \/ AcquireTurn(t) \/ Arm(t) \/ Wake(t)
             \/ GiveTurn(t) \/ Unregister(t) \/ CountWaiters(t) \/ NotifyWaiters(t)
             \/ Cancel(t)
      PROVE  NeverOverBudget'
    BY <1>1, <1>6 DEF LoadWaiters, Register, AcquireTurn, Arm, Wake, GiveTurn,
                      Unregister, CountWaiters, NotifyWaiters, Cancel
<1>7. CASE UNCHANGED vars
    BY <1>1, <1>7 DEF vars
<1> QED BY <1>4, <1>5, <1>6, <1>7 DEF Next, Progress

\* The sleeper's own step into sleep found that its bytes do not fit.  From then
\* on only a release can make them fit, and the releaser finds waiters # 0.
LEMMA WakeupStep == ASSUME IInv, [Next]_vars PROVE NoLostWakeup'
<1> USE DEF IInv, TypeOK
<1> SUFFICES ASSUME NEW s \in Tasks,
                    (pc[s] = "sleep")', (~woken[s])', (Fits(want[s]))'
             PROVE  \E r \in Tasks : (Releasing(r))'
    BY DEF NoLostWakeup
<1>1. want[s] \in Nat
    OBVIOUS
<1>2. ASSUME pc[s] = "sleep", ~woken[s], want' = want, in_flight' >= in_flight,
             \A r \in Tasks : Releasing(r) => pc'[r] = pc[r]
      PROVE  \E r \in Tasks : (Releasing(r))'
    <2>1. Fits(want[s])
        <3>1. in_flight' \in Int
            BY TypeStep
        <3>2. MaxBytes = 0 \/ in_flight' + want[s] <= MaxBytes
            BY <1>2 DEF Fits
        <3> QED BY SMTT(20), <1>1, <1>2, <3>1, <3>2 DEF Fits
    <2>2. PICK r \in Tasks : Releasing(r)
        BY <1>2, <2>1 DEF NoLostWakeup
    <2> QED BY <1>2, <2>2 DEF Releasing
<1>3. ASSUME NEW t \in Tasks, NEW n \in Sizes, Reserve(t, n)
      PROVE  \E r \in Tasks : (Releasing(r))'
    <2>1. in_flight' >= in_flight
        BY SMTT(20), <1>3 DEF Reserve, Charge
    <2> QED BY <1>2, <1>3, <2>1 DEF Reserve
<1>4. ASSUME NEW t \in Tasks, NEW n \in Sizes, AcquireWait(t, n)
      PROVE  \E r \in Tasks : (Releasing(r))'
    <2>1. pc[t] = "idle" /\ in_flight' = in_flight /\ woken' = woken
        BY <1>4 DEF AcquireWait, Start
    <2>2. pc[s] = "sleep" /\ ~woken[s] /\ want'[s] = want[s] /\ in_flight' = in_flight
        <3>1. CASE MaxBytes # 0 /\ n > MaxBytes
            BY <1>4, <2>1, <3>1 DEF AcquireWait
        <3>2. CASE ~(MaxBytes # 0 /\ n > MaxBytes)
            <4>1. pc' = [pc EXCEPT ![t] = "load"] /\ want' = [want EXCEPT ![t] = n]
                BY <1>4, <3>2 DEF AcquireWait, Goto
            <4>2. s # t
                BY <4>1
            <4> QED BY <2>1, <4>1, <4>2
        <3> QED BY <3>1, <3>2
    <2>3. PICK r \in Tasks : Releasing(r)
        BY <2>2 DEF NoLostWakeup, Fits
    <2>4. pc'[r] = pc[r]
        BY <1>4, <2>3 DEF AcquireWait, Start, Goto, Releasing
    <2> QED BY <2>3, <2>4 DEF Releasing
<1>5. ASSUME NEW t \in Tasks, NEW m \in Nat, GiveBack(t, m), pc[t] = "idle"
      PROVE  \E r \in Tasks : (Releasing(r))'
    <2>1. CASE MaxBytes = 0 \/ m = 0
        BY SMTT(20), <1>2, <1>5, <2>1 DEF GiveBack
    <2>2. CASE ~(MaxBytes = 0 \/ m = 0)
        <3>1. pc'[t] = "counted"
            BY <1>5, <2>2 DEF GiveBack, Goto
        <3> QED BY <3>1 DEF Releasing
    <2> QED BY <2>1, <2>2
<1>6. ASSUME NEW t \in Tasks, NEW n \in Sizes, Release(t, n)
      PROVE  \E r \in Tasks : (Releasing(r))'
    <2>1. Min2(n, held[t]) \in Nat
        BY MinInNat
    <2> QED BY <1>5, <1>6, <2>1 DEF Release, Start
<1>7. ASSUME NEW t \in Tasks, Drop(t) PROVE \E r \in Tasks : (Releasing(r))'
    <2>1. held[t] \in Nat /\ GiveBack(t, held[t]) /\ pc[t] = "idle"
        BY <1>7 DEF Drop
    <2> QED BY <1>5, <2>1
<1>8. ASSUME NEW t \in Tasks, FastReserve(t) PROVE \E r \in Tasks : (Releasing(r))'
    <2>1. in_flight' >= in_flight
        BY SMTT(20), <1>8 DEF FastReserve, Charge
    <2> QED BY <1>2, <1>8, <2>1 DEF FastReserve, Goto, Releasing
<1>9. ASSUME NEW t \in Tasks, Recheck(t) PROVE \E r \in Tasks : (Releasing(r))'
    <2>1. in_flight' >= in_flight
        BY SMTT(20), <1>9 DEF Recheck, Charge
    <2>2. s # t
        BY <1>9 DEF Recheck, Goto, Fits
    <2> QED BY <1>2, <1>9, <2>1, <2>2 DEF Recheck, Goto, Releasing
<1>10. ASSUME NEW t \in Tasks, CountWaiters(t) PROVE \E r \in Tasks : (Releasing(r))'
    <2>1. pc[s] = "sleep"
        BY <1>10 DEF CountWaiters, Goto
    <2>2. Registered # {} /\ IsFiniteSet(Registered)
        BY <2>1, FS_Subset DEF Registered
    <2>3. waiters # 0
        BY <2>2, FS_EmptySet DEF WaitersCounted
    <2>4. pc'[t] = "notify"
        BY <1>10, <2>3 DEF CountWaiters, Goto
    <2> QED BY <2>4 DEF Releasing
<1>11. ASSUME NEW t \in Tasks, NotifyWaiters(t) PROVE \E r \in Tasks : (Releasing(r))'
    <2>1. pc[s] = "sleep"
        BY <1>11 DEF NotifyWaiters, Goto
    <2> QED BY <1>11, <2>1 DEF NotifyWaiters, Listening
<1>12. ASSUME NEW t \in Tasks,
              LoadWaiters(t) \/ Register(t) \/ AcquireTurn(t) \/ Arm(t) \/ Wake(t)
       PROVE  \E r \in Tasks : (Releasing(r))'
    BY <1>2, <1>12, SMTT(20) DEF LoadWaiters, Register, AcquireTurn, Arm, Wake, Goto, Releasing
<1>13. ASSUME NEW t \in Tasks, GiveTurn(t) PROVE \E r \in Tasks : (Releasing(r))'
    <2>1. queue # <<>> => Head(queue) \in Tasks /\ pc[Head(queue)] = "queued"
        BY SMTT(20), HeadTailProperties DEF QueueOK
    <2>2. /\ pc[s] = "sleep"
          /\ \A r \in Tasks : Releasing(r) => pc'[r] = pc[r]
        BY <1>13, <2>1 DEF GiveTurn, Goto, Releasing
    <2>3. ~woken[s] /\ want' = want /\ in_flight' >= in_flight
        BY SMTT(20), <1>13 DEF GiveTurn
    <2> QED BY <1>2, <2>2, <2>3
<1>14. ASSUME NEW t \in Tasks, Unregister(t) \/ Cancel(t)
       PROVE  \E r \in Tasks : (Releasing(r))'
    <2>1. /\ pc[s] = "sleep"
          /\ \A r \in Tasks : Releasing(r) => pc'[r] = pc[r]
        BY <1>14 DEF Unregister, Cancel, Goto, Releasing
    <2>2. ~woken[s] /\ want' = want /\ in_flight' >= in_flight
        BY SMTT(20), <1>14 DEF Unregister, Cancel
    <2> QED BY <1>2, <2>1, <2>2
<1>15. CASE UNCHANGED vars
    BY SMTT(20), <1>2, <1>15 DEF vars
<1> QED BY <1>3, <1>4, <1>6, <1>7, <1>8, <1>9, <1>10, <1>11, <1>12, <1>13, <1>14,
           <1>15 DEF Next, Progress

---------------------------------------------------------------------------
(* The turn and its queue.                                                 *)

LEMMA TurnStep == ASSUME IInv, [Next]_vars PROVE TurnHeld'
<1> USE DEF IInv, TypeOK, TurnHeld
<1>1. ASSUME turn' = turn, \A u \in Tasks : (HoldsTurn(u))' <=> HoldsTurn(u)
      PROVE  TurnHeld'
    BY <1>1 DEF HoldsTurn
<1>2. ASSUME NEW t \in Tasks, NEW n \in Sizes,
             Reserve(t, n) \/ AcquireWait(t, n) \/ Release(t, n)
      PROVE  TurnHeld'
    BY <1>1, <1>2, ZenonT(40) DEF Reserve, AcquireWait, Release, GiveBack, Start, Goto, HoldsTurn
<1>3. ASSUME NEW t \in Tasks,
             LoadWaiters(t) \/ FastReserve(t) \/ Register(t) \/ Arm(t) \/ Recheck(t)
      PROVE  TurnHeld'
    BY SMTT(20), <1>1, <1>3 DEF LoadWaiters, FastReserve, Register, Arm, Recheck, Goto, HoldsTurn
<1>4. ASSUME NEW t \in Tasks,
             Wake(t) \/ Unregister(t) \/ CountWaiters(t) \/ NotifyWaiters(t)
             \/ Cancel(t) \/ Drop(t)
      PROVE  TurnHeld'
    BY <1>1, <1>4, ZenonT(40) DEF Wake, Unregister, CountWaiters, NotifyWaiters, Cancel, Drop,
                      GiveBack, Goto, HoldsTurn
<1>5. ASSUME NEW t \in Tasks, AcquireTurn(t) PROVE TurnHeld'
    BY SMTT(20), <1>5 DEF AcquireTurn, Goto, HoldsTurn
<1>6. ASSUME NEW t \in Tasks, GiveTurn(t) PROVE TurnHeld'
    <2>1. queue # <<>> => Head(queue) \in Tasks /\ pc[Head(queue)] = "queued"
        BY SMTT(20), HeadTailProperties DEF QueueOK
    <2>2. turn = t
        BY <1>6 DEF GiveTurn, HoldsTurn
    <2>3. CASE queue = <<>>
        BY <1>6, <2>2, <2>3 DEF GiveTurn, Goto, HoldsTurn
    <2>4. CASE queue # <<>>
        <3> DEFINE h == Head(queue)
        <3>1. /\ pc' = [pc EXCEPT ![t] = "unregister", ![h] = "arm"] /\ turn' = h
              /\ h \in Tasks /\ h # t
            BY <1>6, <2>1, <2>4, SMTT(20) DEF GiveTurn
        <3> HIDE DEF h
        <3> QED BY <2>2, <3>1 DEF HoldsTurn
    <2> QED BY <2>3, <2>4
<1>7. CASE UNCHANGED vars
    BY <1>1, <1>7 DEF vars, HoldsTurn
<1> QED BY <1>2, <1>3, <1>4, <1>5, <1>6, <1>7 DEF Next, Progress

\* What a step does to the queue, as facts about its elements.
LEMMA QueueElements ==
    ASSUME TypeOK
    PROVE  Len(queue) \in Nat /\ \A i \in 1..Len(queue) : queue[i] \in Tasks
BY LenProperties, ElementOfSeq DEF TypeOK

LEMMA QueueAppend ==
    ASSUME TypeOK, NEW t \in Tasks
    PROVE  /\ Len(Append(queue, t)) = Len(queue) + 1
           /\ Append(queue, t)[Len(queue) + 1] = t
           /\ \A i \in 1..Len(queue) : Append(queue, t)[i] = queue[i]
BY SMTT(20), AppendProperties DEF TypeOK

LEMMA QueueTail ==
    ASSUME TypeOK, queue # <<>>
    PROVE  /\ Len(queue) >= 1 /\ Head(queue) = queue[1] /\ Head(queue) \in Tasks
           /\ Len(Tail(queue)) = Len(queue) - 1
           /\ \A i \in 1..(Len(queue) - 1) : Tail(queue)[i] = queue[i + 1]
<1>1. queue \in Seq(Tasks)
    BY DEF TypeOK
<1>2. Len(queue) \in Nat /\ Len(queue) # 0
    BY <1>1, LenProperties, EmptySeq
<1> QED BY SMTT(20), <1>1, <1>2, HeadTailProperties

LEMMA QueueStep == ASSUME IInv, [Next]_vars PROVE QueueOK'
<1> USE DEF IInv
<1>1. ASSUME queue' = queue, turn' = turn,
             \A u \in Tasks : pc'[u] = "queued" <=> pc[u] = "queued"
      PROVE  QueueOK'
    BY <1>1, QueueElements DEF QueueOK
<1>0. pc \in [Tasks -> Steps] /\ Len(queue) \in Nat
      /\ \A i \in 1..Len(queue) : queue[i] \in Tasks
    BY QueueElements DEF TypeOK
<1>2. ASSUME NEW t \in Tasks, NEW n \in Sizes,
             Reserve(t, n) \/ AcquireWait(t, n) \/ Release(t, n)
      PROVE  QueueOK'
    BY <1>0, <1>1, <1>2, SMTT(20) DEF Reserve, AcquireWait, Release, GiveBack, Start, Goto
<1>3. ASSUME NEW t \in Tasks,
             LoadWaiters(t) \/ FastReserve(t) \/ Register(t) \/ Arm(t) \/ Recheck(t)
      PROVE  QueueOK'
    BY <1>0, <1>1, <1>3 DEF LoadWaiters, FastReserve, Register, Arm, Recheck, Goto
<1>4. ASSUME NEW t \in Tasks,
             Wake(t) \/ Unregister(t) \/ CountWaiters(t) \/ NotifyWaiters(t) \/ Drop(t)
      PROVE  QueueOK'
    BY <1>0, <1>1, <1>4 DEF Wake, Unregister, CountWaiters, NotifyWaiters, Drop, GiveBack, Goto
<1>5. ASSUME NEW t \in Tasks, AcquireTurn(t) PROVE QueueOK'
    <2>1. CASE turn = NoTask
        <3>1. queue = <<>> /\ queue' = queue
            BY <1>5, <2>1 DEF AcquireTurn, QueueOK
        <3>2. \A u \in Tasks : pc'[u] # "queued"
            <4>1. \A u \in Tasks : pc[u] # "queued"
                BY SMTT(20), <3>1 DEF QueueOK
            <4> QED BY <1>0, <1>5, <2>1, <4>1 DEF AcquireTurn, Goto
        <3>3. Len(queue') = 0
            BY <3>1
        <3> QED BY SMTT(20), <3>1, <3>2, <3>3 DEF QueueOK
    <2>2. CASE turn # NoTask
        <3>1. /\ queue' = Append(queue, t) /\ pc' = [pc EXCEPT ![t] = "queued"]
              /\ turn' = turn /\ pc[t] = "acquire"
            BY <1>5, <2>2 DEF AcquireTurn, Goto
        <3>2. /\ Len(queue') = Len(queue) + 1
              /\ queue'[Len(queue) + 1] = t
              /\ \A i \in 1..Len(queue) : queue'[i] = queue[i]
            BY <3>1, QueueAppend
        <3>3. \A i \in 1..Len(queue) : queue[i] # t
            BY <3>1 DEF QueueOK
        <3>4. \A i \in 1..Len(queue') : i = Len(queue) + 1 \/ i \in 1..Len(queue)
            BY SMTT(20), <1>0, <3>2
        <3>5. \A i \in 1..Len(queue') : pc'[queue'[i]] = "queued"
            BY SMTT(20), <1>0, <3>1, <3>2, <3>4 DEF QueueOK
        <3>6. \A i, j \in 1..Len(queue') : queue'[i] = queue'[j] => i = j
            BY SMTT(20), <3>2, <3>3, <3>4 DEF QueueOK
        <3>7. ASSUME NEW u \in Tasks, pc'[u] = "queued"
              PROVE  \E i \in 1..Len(queue') : queue'[i] = u
            <4>1. CASE u = t
                BY SMTT(20), <1>0, <3>2, <4>1
            <4>2. CASE u # t
                <5>1. PICK i \in 1..Len(queue) : queue[i] = u
                    BY <1>0, <3>1, <3>7, <4>2 DEF QueueOK
                <5> QED BY SMTT(20), <1>0, <3>2, <5>1
            <4> QED BY <4>1, <4>2
        <3> QED BY <2>2, <3>1, <3>5, <3>6, <3>7 DEF QueueOK
    <2> QED BY <2>1, <2>2
<1>6. ASSUME NEW t \in Tasks, GiveTurn(t) PROVE QueueOK'
    <2>1. CASE queue = <<>>
        <3>1. queue' = queue /\ \A u \in Tasks : pc[u] # "queued"
            BY SMTT(20), <1>6, <2>1 DEF GiveTurn, QueueOK
        <3>2. \A u \in Tasks : pc'[u] # "queued"
            BY <1>0, <1>6, <2>1, <3>1 DEF GiveTurn, Goto
        <3>3. Len(queue') = 0
            BY <2>1, <3>1
        <3> QED BY SMTT(20), <2>1, <3>1, <3>2, <3>3 DEF QueueOK
    <2>2. CASE queue # <<>>
        <3> DEFINE h == Head(queue)
        <3>1. /\ queue' = Tail(queue) /\ turn' = h
              /\ pc' = [pc EXCEPT ![t] = "unregister", ![h] = "arm"]
              /\ pc[t] = "giveTurn"
            BY <1>6, <2>2 DEF GiveTurn
        <3>2. /\ Len(queue) >= 1 /\ h = queue[1] /\ h \in Tasks
              /\ Len(queue') = Len(queue) - 1
              /\ \A i \in 1..(Len(queue) - 1) : queue'[i] = queue[i + 1]
            BY <2>2, <3>1, QueueTail
        <3> HIDE DEF h
        <3>3. ASSUME NEW i \in 1..Len(queue')
              PROVE  /\ i + 1 \in 1..Len(queue) /\ i + 1 # 1
                     /\ queue'[i] = queue[i + 1]
            BY SMTT(20), <1>0, <3>2
        <3>4. ASSUME NEW i \in 1..Len(queue') PROVE pc'[queue'[i]] = "queued"
            <4>1. pc[queue'[i]] = "queued" /\ queue'[i] \in Tasks
                BY SMTT(20), <1>0, <3>3 DEF QueueOK
            <4>2. queue'[i] # h
                BY SMTT(20), <1>0, <3>2, <3>3 DEF QueueOK
            <4> QED BY <1>0, <3>1, <4>1, <4>2
        <3>5. ASSUME NEW i \in 1..Len(queue'), NEW j \in 1..Len(queue'),
                     queue'[i] = queue'[j]
              PROVE  i = j
            <4>1. i + 1 = j + 1
                BY SMTT(20), <3>3, <3>5 DEF QueueOK
            <4> QED BY SMTT(20), <4>1
        <3>6. ASSUME NEW u \in Tasks, pc'[u] = "queued"
              PROVE  \E i \in 1..Len(queue') : queue'[i] = u
            <4>1. u # h /\ pc[u] = "queued"
                BY <1>0, <3>1, <3>2, <3>6
            <4>2. PICK k \in 1..Len(queue) : queue[k] = u
                BY <4>1 DEF QueueOK
            <4>3. k # 1
                BY <3>2, <4>1, <4>2
            <4>4. k - 1 \in 1..(Len(queue) - 1) /\ (k - 1) + 1 = k
                BY SMTT(20), <1>0, <4>3
            <4>5. queue'[k - 1] = u
                BY <3>2, <4>2, <4>4
            <4> QED BY <3>2, <4>4, <4>5
        <3>7. turn' # NoTask
            BY <3>1, <3>2
        <3> QED BY <3>4, <3>5, <3>6, <3>7 DEF QueueOK
    <2> QED BY <2>1, <2>2
<1>7. ASSUME NEW t \in Tasks, Cancel(t) PROVE QueueOK'
    <2>1. CASE pc[t] = "sleep"
        BY <1>0, <1>1, <1>7, <2>1 DEF Cancel, Goto
    <2>2. CASE pc[t] = "queued"
        <3>1. PICK i \in 1..Len(queue) : queue[i] = t /\ queue' = Without(i)
            BY <1>7, <2>2 DEF Cancel
        <3>2. pc' = [pc EXCEPT ![t] = "unregister"] /\ turn' = turn
            BY <1>7, <2>2 DEF Cancel, Goto
        <3>3. /\ Len(queue') = Len(queue) - 1
              /\ \A j \in 1..(Len(queue) - 1) :
                    queue'[j] = IF j < i THEN queue[j] ELSE queue[j + 1]
            BY <3>1, WithoutProps
        <3>4. ASSUME NEW j \in 1..Len(queue')
              PROVE  \E k \in 1..Len(queue) :
                        /\ k # i /\ queue'[j] = queue[k]
                        /\ k = IF j < i THEN j ELSE j + 1
            <4>1. CASE j < i
                BY SMTT(20), <1>0, <3>3, <4>1
            <4>2. CASE ~(j < i)
                <5>1. j + 1 \in 1..Len(queue) /\ j + 1 # i
                    BY SMTT(20), <1>0, <3>3, <4>2
                <5> QED BY <1>0, <3>3, <4>2, <5>1
            <4> QED BY <4>1, <4>2
        <3>5. ASSUME NEW j \in 1..Len(queue') PROVE pc'[queue'[j]] = "queued"
            <4>1. PICK k \in 1..Len(queue) : k # i /\ queue'[j] = queue[k]
                BY <3>4
            <4>2. queue[k] # t /\ queue[k] \in Tasks /\ pc[queue[k]] = "queued"
                BY <1>0, <3>1, <4>1 DEF QueueOK
            <4> QED BY <1>0, <3>2, <4>1, <4>2
        <3>6. ASSUME NEW j \in 1..Len(queue'), NEW k \in 1..Len(queue'),
                     queue'[j] = queue'[k]
              PROVE  j = k
            <4>1. PICK m \in 1..Len(queue) : queue'[j] = queue[m]
                                             /\ m = IF j < i THEN j ELSE j + 1
                BY <3>4
            <4>2. PICK l \in 1..Len(queue) : queue'[k] = queue[l]
                                             /\ l = IF k < i THEN k ELSE k + 1
                BY <3>4
            <4>3. m = l
                BY <3>6, <4>1, <4>2, Zenon DEF QueueOK
            <4> QED BY SMTT(20), <4>1, <4>2, <4>3
        <3>7. ASSUME NEW u \in Tasks, pc'[u] = "queued"
              PROVE  \E j \in 1..Len(queue') : queue'[j] = u
            <4>1. u # t /\ pc[u] = "queued"
                BY <1>0, <3>2, <3>7
            <4>2. PICK k \in 1..Len(queue) : queue[k] = u
                BY <4>1 DEF QueueOK
            <4>3. k # i
                BY <3>1, <4>1, <4>2
            <4>4. CASE k < i
                <5>1. k \in 1..(Len(queue) - 1) /\ queue'[k] = u
                    BY SMTT(20), <1>0, <3>3, <4>2, <4>4
                <5> QED BY <3>3, <5>1
            <4>5. CASE k > i
                <5>1. k - 1 \in 1..(Len(queue) - 1) /\ ~(k - 1 < i) /\ (k - 1) + 1 = k
                    BY SMTT(20), <1>0, <4>5
                <5>2. queue'[k - 1] = u
                    BY <3>3, <4>2, <5>1
                <5> QED BY <3>3, <5>1, <5>2
            <4> QED BY SMTT(20), <4>3, <4>4, <4>5
        <3>8. queue' # <<>> => turn' # NoTask
            <4>1. queue # <<>>
                BY SMTT(20), <1>0, <3>1
            <4> QED BY <3>2, <4>1 DEF QueueOK
        <3> QED BY <3>5, <3>6, <3>7, <3>8 DEF QueueOK
    <2> QED BY <1>7, <2>1, <2>2 DEF Cancel
<1>8. CASE UNCHANGED vars
    BY <1>1, <1>8 DEF vars
<1> QED BY <1>2, <1>3, <1>4, <1>5, <1>6, <1>7, <1>8 DEF Next, Progress

\* Nobody is in line unless a waiter is counted, and unless the turn is out.
LEMMA InLineFacts ==
    ASSUME IInv, NEW u \in Tasks, InLine(u)
    PROVE  waiters # 0 /\ turn # NoTask
           /\ (turn = u \/ \E j \in 1..Len(queue) : queue[j] = u)
<1> USE DEF IInv
<1>1. u \in Registered /\ IsFiniteSet(Registered)
    BY FS_Subset DEF InLine, Registered
<1>2. waiters # 0
    BY <1>1, FS_EmptySet DEF WaitersCounted
<1>3. CASE pc[u] = "queued"
    <2>1. PICK j \in 1..Len(queue) : queue[j] = u
        BY <1>3 DEF QueueOK
    <2>2. queue # <<>>
        BY SMTT(20), <2>1
    <2> QED BY <1>2, <2>1, <2>2 DEF QueueOK
<1>4. CASE HoldsTurn(u)
    BY <1>2, <1>4 DEF TurnHeld
<1> QED BY <1>3, <1>4 DEF InLine, HoldsTurn

LEMMA AheadStep == ASSUME IInv, [Next]_vars PROVE AheadOK'
<1> USE DEF IInv
<1>0. /\ pc \in [Tasks -> Steps] /\ ahead \in [Tasks -> SUBSET Tasks]
      /\ Len(queue) \in Nat /\ \A i \in 1..Len(queue) : queue[i] \in Tasks
    BY QueueElements DEF TypeOK
<1>a. \A i \in 1..Len(queue) : \A u \in ahead[queue[i]] :
         turn = u \/ \E j \in 1..(i - 1) : queue[j] = u
    BY DEF AheadOK
<1>1. ASSUME queue' = queue, turn' = turn,
             \A t \in Tasks : ahead'[t] \subseteq ahead[t],
             \A t \in Tasks : \A u \in ahead'[t] : (InLine(u))',
             \A t \in Tasks : (pc[t] = "fast" \/ HoldsTurn(t))' => ahead'[t] = {}
      PROVE  AheadOK'
    BY SMTT(20), <1>0, <1>1 DEF AheadOK
<1>2. ASSUME queue' = queue, turn' = turn, ahead' = ahead,
             \A t \in Tasks : InLine(t) => (InLine(t))',
             \A t \in Tasks : (pc[t] = "fast" \/ HoldsTurn(t))'
                                 => pc[t] = "fast" \/ HoldsTurn(t)
      PROVE  AheadOK'
    BY <1>0, <1>1, <1>2 DEF AheadOK
<1>3. ASSUME NEW t \in Tasks, NEW n \in Sizes, Reserve(t, n) \/ Release(t, n)
      PROVE  AheadOK'
    BY <1>0, <1>2, <1>3, SMTT(20) DEF Reserve, Release, GiveBack, Start, Goto, InLine, HoldsTurn
<1>4. ASSUME NEW t \in Tasks,
             FastReserve(t) \/ Register(t) \/ Unregister(t) \/ Arm(t) \/ Wake(t)
      PROVE  AheadOK'
    BY <1>0, <1>2, <1>4 DEF FastReserve, Register, Unregister, Arm, Wake, Goto,
                            InLine, HoldsTurn
<1>5. ASSUME NEW t \in Tasks, CountWaiters(t) \/ NotifyWaiters(t) \/ Drop(t)
      PROVE  AheadOK'
    BY <1>0, <1>2, <1>5 DEF CountWaiters, NotifyWaiters, Drop, GiveBack, Goto,
                            InLine, HoldsTurn
<1>6. ASSUME NEW t \in Tasks, NEW n \in Sizes, AcquireWait(t, n) PROVE AheadOK'
    <2>1. CASE MaxBytes # 0 /\ n > MaxBytes
        BY <1>0, <1>2, <1>6, <2>1 DEF AcquireWait, InLine, HoldsTurn
    <2>2. CASE ~(MaxBytes # 0 /\ n > MaxBytes)
        <3>1. /\ pc[t] = "idle" /\ pc' = [pc EXCEPT ![t] = "load"]
              /\ queue' = queue /\ turn' = turn
              /\ ahead' = [ahead EXCEPT ![t] = {u \in Tasks : InLine(u)}]
            BY <1>6, <2>2 DEF AcquireWait, Start, Goto
        <3>2. \A u \in Tasks : InLine(u) => (InLine(u))'
            BY <1>0, <3>1 DEF InLine
        <3>3. \A s \in Tasks : \A u \in ahead'[s] : u \in Tasks /\ InLine(u)
            BY <1>0, <3>1 DEF AheadOK
        <3>4. \A s \in Tasks : (pc[s] = "fast" \/ HoldsTurn(s))' => ahead'[s] = {}
            BY <1>0, <3>1 DEF AheadOK, HoldsTurn
        <3>5. \A i \in 1..Len(queue) : queue[i] # t
            BY <3>1 DEF QueueOK
        <3>6. \A i \in 1..Len(queue) : ahead'[queue[i]] = ahead[queue[i]]
            BY <1>0, <3>1, <3>5
        <3>7. \A s \in Tasks : \A u \in ahead'[s] : (InLine(u))'
            BY <3>2, <3>3
        <3>8. ASSUME NEW i \in 1..Len(queue'), NEW u \in ahead'[queue'[i]]
              PROVE  turn' = u \/ \E j \in 1..(i - 1) : queue'[j] = u
            <4>1. queue' = queue /\ turn' = turn /\ i \in 1..Len(queue)
                BY <3>1
            <4>2. u \in ahead[queue[i]]
                BY <3>6, <3>8, <4>1
            <4>3. turn = u \/ \E j \in 1..(i - 1) : queue[j] = u
                BY <1>a, <4>1, <4>2
            <4> QED BY <4>1, <4>3
        <3> QED BY <3>4, <3>7, <3>8 DEF AheadOK
    <2> QED BY <2>1, <2>2
<1>7. ASSUME NEW t \in Tasks, LoadWaiters(t) PROVE AheadOK'
    <2>1. /\ pc[t] = "load"
          /\ pc' = [pc EXCEPT ![t] = IF waiters = 0 THEN "fast" ELSE "register"]
          /\ queue' = queue /\ turn' = turn /\ ahead' = ahead
        BY <1>7 DEF LoadWaiters, Goto
    <2>2. waiters = 0 => ahead[t] = {}
        BY <1>0, InLineFacts DEF AheadOK
    <2>3. \A u \in Tasks : InLine(u) => (InLine(u))'
        BY <1>0, <2>1 DEF InLine
    <2>4. \A s \in Tasks : (pc[s] = "fast" \/ HoldsTurn(s))' => ahead'[s] = {}
        BY <1>0, <2>1, <2>2 DEF AheadOK, HoldsTurn
    <2> QED BY <1>0, <1>1, <2>1, <2>3, <2>4 DEF AheadOK
<1>8. ASSUME NEW t \in Tasks, Recheck(t) PROVE AheadOK'
    <2>1. CASE Fits(want[t])
        <3>1. /\ pc[t] = "recheck" /\ pc' = [pc EXCEPT ![t] = "giveTurn"]
              /\ queue' = queue /\ turn' = turn /\ ahead' = Overtaken(t)
            BY <1>8, <2>1 DEF Recheck, Goto
        <3>2. \A s \in Tasks : ahead'[s] = ahead[s] \ {t}
            BY <3>1 DEF Overtaken
        <3>3. \A s \in Tasks : \A u \in ahead'[s] : (InLine(u))'
            BY SMTT(20), <1>0, <3>1, <3>2 DEF AheadOK, InLine
        <3>4. \A s \in Tasks : (pc[s] = "fast" \/ HoldsTurn(s))' => ahead'[s] = {}
            BY <1>0, <3>1, <3>2 DEF AheadOK, HoldsTurn
        <3> QED BY <1>1, <3>1, <3>2, <3>3, <3>4
    <2>2. CASE ~Fits(want[t])
        BY <1>0, <1>2, <1>8, <2>2 DEF Recheck, Goto, InLine, HoldsTurn
    <2> QED BY <2>1, <2>2
<1>9. ASSUME NEW t \in Tasks, AcquireTurn(t) PROVE AheadOK'
    <2>0. pc[t] = "acquire" /\ ahead' = ahead
        BY <1>9 DEF AcquireTurn
    <2>1. CASE turn = NoTask
        <3>1. /\ pc' = [pc EXCEPT ![t] = "arm"] /\ queue' = queue
              /\ queue = <<>>
            BY <1>9, <2>1 DEF AcquireTurn, Goto, QueueOK
        <3>2. \A s \in Tasks : ahead[s] = {}
            BY <1>0, <2>1, InLineFacts DEF AheadOK
        <3>3. Len(queue') = 0
            BY <3>1
        <3>4. /\ \A s \in Tasks : ahead'[s] = {}
              /\ \A i \in 1..Len(queue') : FALSE
            BY SMTT(20), <2>0, <3>2, <3>3
        <3>5. \A s \in Tasks : \A u \in ahead'[s] : (InLine(u))'
            BY <3>4
        <3> QED BY <3>4, <3>5 DEF AheadOK
    <2>2. CASE turn # NoTask
        <3>1. /\ queue' = Append(queue, t) /\ pc' = [pc EXCEPT ![t] = "queued"]
              /\ turn' = turn
            BY <1>9, <2>2 DEF AcquireTurn, Goto
        <3>2. /\ Len(queue') = Len(queue) + 1
              /\ queue'[Len(queue) + 1] = t
              /\ \A i \in 1..Len(queue) : queue'[i] = queue[i]
            BY <3>1, QueueAppend
        <3>3. \A s \in Tasks : \A u \in ahead'[s] : (InLine(u))'
            BY <1>0, <2>0, <3>1 DEF AheadOK, InLine
        <3>4. \A s \in Tasks : (pc[s] = "fast" \/ HoldsTurn(s))' => ahead'[s] = {}
            BY <1>0, <2>0, <3>1 DEF AheadOK, HoldsTurn
        <3>5. ASSUME NEW i \in 1..Len(queue'), NEW u \in ahead'[queue'[i]]
              PROVE  turn' = u \/ \E j \in 1..(i - 1) : queue'[j] = u
            <4>1. CASE i \in 1..Len(queue)
                <5>1. turn = u \/ \E j \in 1..(i - 1) : queue[j] = u
                    BY <1>a, <2>0, <3>2, <3>5, <4>1
                <5>2. \A j \in 1..(i - 1) : queue'[j] = queue[j]
                    BY SMTT(20), <1>0, <3>2, <4>1
                <5> QED BY <3>1, <5>1, <5>2
            <4>2. CASE i = Len(queue) + 1
                <5>1. u \in Tasks /\ InLine(u)
                    BY <1>0, <2>0, <3>2, <3>5, <4>2 DEF AheadOK
                <5>2. turn = u \/ \E j \in 1..Len(queue) : queue[j] = u
                    BY <5>1, InLineFacts
                <5>3. i - 1 = Len(queue)
                    BY SMTT(20), <1>0, <4>2
                <5> QED BY <3>1, <3>2, <5>2, <5>3
            <4> QED BY SMTT(20), <1>0, <3>2, <4>1, <4>2
        <3> QED BY <3>3, <3>4, <3>5 DEF AheadOK
    <2> QED BY <2>1, <2>2
<1>10. ASSUME NEW t \in Tasks, GiveTurn(t) PROVE AheadOK'
    <2>0. pc[t] = "giveTurn" /\ turn = t /\ ahead' = ahead
        BY <1>10 DEF GiveTurn, TurnHeld, HoldsTurn
    <2>1. \A s \in Tasks : t \notin ahead[s]
        BY <2>0 DEF AheadOK, InLine
    <2>2. CASE queue = <<>>
        <3>1. pc' = [pc EXCEPT ![t] = "unregister"] /\ queue' = queue
            BY <1>10, <2>2 DEF GiveTurn, Goto
        <3>2. \A s \in Tasks : \A u \in ahead'[s] : (InLine(u))'
            BY <1>0, <2>0, <2>1, <3>1 DEF AheadOK, InLine
        <3>3. \A s \in Tasks : (pc[s] = "fast" \/ HoldsTurn(s))' => ahead'[s] = {}
            BY <1>0, <2>0, <3>1 DEF AheadOK, HoldsTurn
        <3>4. Len(queue') = 0
            BY <2>2, <3>1
        <3> QED BY SMTT(20), <3>2, <3>3, <3>4 DEF AheadOK
    <2>3. CASE queue # <<>>
        <3> DEFINE h == Head(queue)
        <3>1. /\ queue' = Tail(queue) /\ turn' = h
              /\ pc' = [pc EXCEPT ![t] = "unregister", ![h] = "arm"]
            BY <1>10, <2>3 DEF GiveTurn
        <3>2. /\ Len(queue) >= 1 /\ h = queue[1] /\ h \in Tasks
              /\ Len(queue') = Len(queue) - 1
              /\ \A i \in 1..(Len(queue) - 1) : queue'[i] = queue[i + 1]
            BY <2>3, <3>1, QueueTail
        <3> HIDE DEF h
        <3>3. ahead[h] = {}
            <4>1. 1 \in 1..Len(queue) /\ \A j \in 1..(1 - 1) : FALSE
                BY SMTT(20), <1>0, <3>2
            <4>2. \A u \in ahead[h] : turn = u
                BY <1>a, <3>2, <4>1
            <4> QED BY <2>0, <2>1, <3>2, <4>2
        <3>4. \A s \in Tasks : \A u \in ahead'[s] : (InLine(u))'
            BY <1>0, <2>0, <2>1, <3>1, <3>2 DEF AheadOK, InLine
        <3>5. \A s \in Tasks : (pc[s] = "fast" \/ HoldsTurn(s))' => ahead'[s] = {}
            BY <1>0, <2>0, <3>1, <3>2, <3>3 DEF AheadOK, HoldsTurn
        <3>6. ASSUME NEW i \in 1..Len(queue'), NEW u \in ahead'[queue'[i]]
              PROVE  turn' = u \/ \E j \in 1..(i - 1) : queue'[j] = u
            <4>1. i + 1 \in 1..Len(queue) /\ queue'[i] = queue[i + 1] /\ (i + 1) - 1 = i
                BY SMTT(20), <1>0, <3>2
            <4>2. turn = u \/ \E j \in 1..i : queue[j] = u
                BY <1>a, <2>0, <3>6, <4>1
            <4>3. turn # u
                BY <1>0, <2>0, <2>1, <3>6, <4>1
            <4>4. PICK j \in 1..i : queue[j] = u
                BY <4>2, <4>3
            <4>5. CASE j = 1
                BY <3>1, <3>2, <4>4, <4>5
            <4>6. CASE j # 1
                <5>1. j - 1 \in 1..(i - 1) /\ j - 1 \in 1..(Len(queue) - 1)
                      /\ (j - 1) + 1 = j
                    BY SMTT(20), <1>0, <4>1, <4>6
                <5>2. queue'[j - 1] = u
                    BY <3>2, <4>4, <5>1
                <5> QED BY <5>1, <5>2
            <4> QED BY <4>5, <4>6
        <3> QED BY <3>4, <3>5, <3>6 DEF AheadOK
    <2> QED BY <2>2, <2>3
<1>11. ASSUME NEW t \in Tasks, Cancel(t) PROVE AheadOK'
    <2>0. turn' = turn /\ \A s \in Tasks : ahead'[s] = ahead[s] \ {t}
        BY <1>11 DEF Cancel, Overtaken
    <2>1. PICK step \in {"giveTurn", "unregister"} : pc' = [pc EXCEPT ![t] = step]
                                  /\ (step = "giveTurn" => HoldsTurn(t))
        BY <1>11 DEF Cancel, Goto, HoldsTurn
    <2>2. \A s \in Tasks : \A u \in ahead'[s] : (InLine(u))'
        BY SMTT(20), <1>0, <2>0, <2>1 DEF AheadOK, InLine
    <2>3. \A s \in Tasks : (pc[s] = "fast" \/ HoldsTurn(s))' => ahead'[s] = {}
        BY <1>0, <2>0, <2>1, SMTT(20) DEF AheadOK, HoldsTurn
    <2>4. CASE queue' = queue
        BY <1>1, <2>0, <2>2, <2>3, <2>4
    <2>5. ASSUME NEW k \in 1..Len(queue), queue[k] = t, queue' = Without(k)
          PROVE  AheadOK'
        <3>1. /\ Len(queue') = Len(queue) - 1
              /\ \A j \in 1..(Len(queue) - 1) :
                    queue'[j] = IF j < k THEN queue[j] ELSE queue[j + 1]
            BY <2>5, WithoutProps
        <3>2. ASSUME NEW i \in 1..Len(queue'), NEW u \in ahead'[queue'[i]]
              PROVE  turn' = u \/ \E j \in 1..(i - 1) : queue'[j] = u
            <4> DEFINE m == IF i < k THEN i ELSE i + 1
            <4>1. m \in 1..Len(queue) /\ queue'[i] = queue[m]
                BY SMTT(20), <1>0, <3>1
            <4>2. u \in ahead[queue[m]] /\ u # t
                BY SMTT(20), <1>0, <2>0, <3>2, <4>1
            <4>3. turn = u \/ \E j \in 1..(m - 1) : queue[j] = u
                BY <1>a, <4>1, <4>2
            <4>4. ASSUME NEW j \in 1..(m - 1), queue[j] = u
                  PROVE  \E l \in 1..(i - 1) : queue'[l] = u
                <5>1. j # k
                    BY <2>5, <4>2, <4>4
                <5>2. CASE j < k
                    <6>1. j \in 1..(i - 1) /\ j \in 1..(Len(queue) - 1)
                        BY SMTT(20), <1>0, <3>1, <4>1, <5>2
                    <6> QED BY <3>1, <4>4, <5>2, <6>1
                <5>3. CASE j > k
                    <6>1. /\ j - 1 \in 1..(i - 1) /\ j - 1 \in 1..(Len(queue) - 1)
                          /\ ~(j - 1 < k) /\ (j - 1) + 1 = j
                        BY SMTT(20), <1>0, <3>1, <4>1, <5>3
                    <6>2. queue'[j - 1] = u
                        BY <3>1, <4>4, <6>1
                    <6> QED BY <6>1, <6>2
                <5> QED BY SMTT(20), <1>0, <4>1, <5>1, <5>2, <5>3
            <4> QED BY <2>0, <4>3, <4>4
        <3> QED BY <2>2, <2>3, <3>2 DEF AheadOK
    <2> QED BY <1>11, <2>4, <2>5 DEF Cancel
<1>12. CASE UNCHANGED vars
    BY <1>2, <1>12 DEF vars, InLine, HoldsTurn
<1> QED BY <1>3, <1>4, <1>5, <1>6, <1>7, <1>8, <1>9, <1>10, <1>11, <1>12
        DEF Next, Progress

---------------------------------------------------------------------------
LEMMA Invariance == Spec => []IInv
<1>1. IInv /\ [Next]_vars => IInv'
    BY TypeStep, WaitersStep, TurnStep, QueueStep, AheadStep, WakeupStep, BudgetStep
       DEF IInv
<1> QED BY <1>1, InitInv, PTL DEF Spec

\* The types of budget.rs: the waiter count and the leases never go below zero,
\* though Waiter::drop and BodyBufferLease::release subtract without a check.
THEOREM TypeCorrect == Spec => []TypeOK
BY Invariance, PTL DEF IInv

\* release() reads waiters after it has given the bytes back, and acquire_wait
\* counts itself before it looks: no release is lost on a sleeping waiter.
THEOREM WakeupsAreNotLost == Spec => []NoLostWakeup
BY Invariance, PTL DEF IInv

\* The compare-exchange of reserve() keeps every reservation within max_bytes.
THEOREM BudgetHolds == Spec => []NeverOverBudget
BY Invariance, PTL DEF IInv

\* The waiter count and the turn semaphore together serve acquire_wait calls
\* first-come first-served.
THEOREM WaitersInOrder == Spec => FirstComeFirstServed
<1>1. IInv /\ [Next]_vars
        => [\A t \in Tasks : (pc[t] \in {"fast", "recheck"} /\ held'[t] # held[t])
                                => ahead[t] = {}]_vars
    BY DEF IInv, AheadOK, HoldsTurn
<1> QED BY <1>1, Invariance, PTL DEF Spec, FirstComeFirstServed

---------------------------------------------------------------------------
(* BodyBudget implements ByteBudget: the initial states map to initial     *)
(* states and every step to a step or a stutter.  The invariant is what    *)
(* makes a grant a legal one: AheadOK says that a task on the fast path or *)
(* with the turn has nobody ahead of it.                                   *)

\* A step that leaves every task's place, amount and bytes alone is a stutter.
LEMMA Stutters ==
    ASSUME in_flight' = in_flight, held' = held, want' = want, ahead' = ahead,
           \A u \in Tasks : Place'[u] = Place[u]
    PROVE  UNCHANGED Promise!vars
<1>1. Place' = Place
    BY Zenon DEF Place
<1> QED BY <1>1 DEF Promise!vars

LEMMA PromiseInit == Init => Promise!Init
BY DEF Init, Promise!Init, Place, InLine

\* What moving one task does to the places.
LEMMA PlaceMoves ==
    ASSUME TypeOK, NEW t \in Tasks, NEW s \in Steps, pc' = [pc EXCEPT ![t] = s]
    PROVE  /\ Place' = [Place EXCEPT ![t] = Place'[t]]
           /\ s \in {"load", "fast", "register", "acquire"} => Place'[t] = "asking"
           /\ s \in {"queued", "arm", "recheck", "sleep"} => Place'[t] = "inLine"
           /\ s \in {"idle", "giveTurn", "unregister", "counted", "notify"} => Place'[t] = "off"
           /\ \A u \in Tasks : u # t => Place'[u] = Place[u]
BY DEF TypeOK, Place, InLine

\* Every step of the code is a step of the promise, or none at all.
LEMMA PromiseStep == ASSUME IInv, [Next]_vars PROVE [Promise!Next]_(Promise!vars)
<1>0. /\ TypeOK /\ AheadOK
      /\ pc \in [Tasks -> Steps] /\ held \in [Tasks -> Nat] /\ want \in [Tasks -> Nat]
      /\ in_flight \in Int /\ ahead \in [Tasks -> SUBSET Tasks]
    BY DEF IInv, TypeOK
<1>p. \A u \in Tasks :
        /\ pc[u] \in {"load", "fast", "register", "acquire"} => Place[u] = "asking"
        /\ pc[u] \in {"queued", "arm", "recheck", "sleep"} => Place[u] = "inLine"
        /\ pc[u] \in {"idle", "giveTurn", "unregister", "counted", "notify"} => Place[u] = "off"
        /\ Place[u] = "inLine" <=> InLine(u)
    BY <1>0 DEF Place, InLine
<1>s. ASSUME pc' = pc PROVE Place' = Place
    BY <1>s DEF Place, InLine
<1>1. ASSUME NEW t \in Tasks, NEW n \in Sizes, Reserve(t, n) PROVE [Promise!Next]_(Promise!vars)
    <2>1. Place' = Place /\ Place[t] = "off"
        BY <1>1, <1>p, <1>s DEF Reserve, Start
    <2>2. CASE Fits(n)
        <3>1. Promise!Take(t, n)
            BY SMTT(20), <1>0, <1>1, <2>1, <2>2
               DEF Reserve, Fits, Charge, Promise!Take, Promise!Room, Promise!Counted
        <3> QED BY <3>1 DEF Promise!Next
    <2>3. CASE ~Fits(n)
        BY <1>1, <2>1, <2>3 DEF Reserve, Promise!vars
    <2> QED BY <2>2, <2>3
<1>2. ASSUME NEW t \in Tasks, NEW n \in Sizes, AcquireWait(t, n)
      PROVE  [Promise!Next]_(Promise!vars)
    <2>1. CASE MaxBytes # 0 /\ n > MaxBytes
        BY <1>2, <1>s, <2>1 DEF AcquireWait, Promise!vars
    <2>2. CASE ~(MaxBytes # 0 /\ n > MaxBytes)
        <3>1. /\ Place[t] = "off" /\ Place' = [Place EXCEPT ![t] = "asking"]
            BY <1>0, <1>2, <1>p, <2>2, PlaceMoves DEF AcquireWait, Start, Goto, Steps
        <3>2. {u \in Tasks : InLine(u)} = {u \in Tasks : Place[u] = "inLine"}
            BY <1>p
        <3>3. Promise!Ask(t, n)
            BY SMTT(20), <1>2, <2>2, <3>1, <3>2 DEF AcquireWait, Promise!Ask
        <3> QED BY <3>3 DEF Promise!Next
    <2> QED BY <2>1, <2>2
<1>3. ASSUME NEW t \in Tasks, NEW n \in Nat, n <= held[t], pc[t] = "idle", GiveBack(t, n)
      PROVE  [Promise!Next]_(Promise!vars)
    <2>1. Place[t] = "off" /\ Place' = Place
        <3>1. CASE pc' = pc
            BY <1>3, <1>p, <1>s, <3>1
        <3>2. CASE pc' = [pc EXCEPT ![t] = "counted"]
            BY <1>0, <1>3, <1>p, <3>2 DEF Place, InLine
        <3> QED BY <1>3, <3>1, <3>2 DEF GiveBack, Goto
    <2>2. CASE n = 0
        <3>1. held' = held
            BY SMTT(20), <1>0, <1>3, <2>2 DEF GiveBack
        <3> QED BY <1>3, <2>1, <2>2, <3>1 DEF GiveBack, Promise!vars
    <2>3. CASE n # 0
        <3>1. Promise!GiveBack(t, n)
            BY SMTT(20), <1>0, <1>3, <2>1, <2>3 DEF GiveBack, Promise!GiveBack, Promise!Counted
        <3>2. n \in 1..held[t]
            BY SMTT(20), <1>0, <1>3, <2>3
        <3> QED BY <3>1, <3>2 DEF Promise!Next
    <2> QED BY <2>2, <2>3
<1>4. ASSUME NEW t \in Tasks, NEW n \in Sizes, Release(t, n) PROVE [Promise!Next]_(Promise!vars)
    <2>1. Min2(n, held[t]) \in Nat /\ Min2(n, held[t]) <= held[t]
        BY <1>0, MinInNat
    <2> QED BY <1>3, <1>4, <2>1 DEF Release, Start
<1>5. ASSUME NEW t \in Tasks, Drop(t) PROVE [Promise!Next]_(Promise!vars)
    BY SMTT(20), <1>0, <1>3, <1>5 DEF Drop
\* A task whose place does not change takes nothing.
<1>6. ASSUME NEW t \in Tasks,
             LoadWaiters(t) \/ Register(t) \/ Arm(t) \/ Wake(t) \/ Unregister(t)
               \/ CountWaiters(t) \/ NotifyWaiters(t)
      PROVE  UNCHANGED Promise!vars
    <2>1. /\ in_flight' = in_flight /\ held' = held /\ want' = want /\ ahead' = ahead
          /\ \A u \in Tasks : u # t => pc'[u] = pc[u]
        BY <1>0, <1>6 DEF LoadWaiters, Register, Arm, Wake, Unregister, CountWaiters,
                          NotifyWaiters, Goto
    <2>2. \A u \in Tasks : Place'[u] = Place[u]
        BY <1>0, <1>6 DEF LoadWaiters, Register, Arm, Wake, Unregister, CountWaiters,
                          NotifyWaiters, Goto, Place, InLine
    <2> QED BY <2>1, <2>2, Stutters
<1>7. ASSUME NEW t \in Tasks, AcquireTurn(t) PROVE [Promise!Next]_(Promise!vars)
    <2>1. /\ Place[t] = "asking" /\ Place' = [Place EXCEPT ![t] = "inLine"]
        BY <1>0, <1>7, <1>p, PlaceMoves DEF AcquireTurn, Goto, Steps
    <2>2. Promise!Join(t)
        BY <1>7, <2>1 DEF AcquireTurn, Promise!Join
    <2> QED BY <2>2 DEF Promise!Next
<1>8. ASSUME NEW t \in Tasks, FastReserve(t) PROVE [Promise!Next]_(Promise!vars)
    <2>1. CASE Fits(want[t])
        <3>1. /\ Place[t] = "asking" /\ Place' = [Place EXCEPT ![t] = "off"]
            BY <1>0, <1>8, <1>p, <2>1, PlaceMoves DEF FastReserve, Goto, Steps
        <3>2. ahead[t] = {} /\ \A u \in Tasks : t \notin ahead[u]
            BY <1>0, <1>8 DEF AheadOK, FastReserve, InLine
        <3>3. ahead' = [u \in Tasks |-> ahead[u] \ {t}]
            BY SMTT(20), <1>0, <1>8, <3>2 DEF FastReserve
        <3>4. Promise!Grant(t)
            BY SMTT(20), <1>0, <1>8, <2>1, <3>1, <3>2, <3>3
               DEF FastReserve, Fits, Charge, Promise!Grant, Promise!Room, Promise!Counted,
                   Promise!Leaves
        <3> QED BY <3>4 DEF Promise!Next
    <2>2. CASE ~Fits(want[t])
        <3>1. \A u \in Tasks : Place'[u] = Place[u]
            BY <1>0, <1>8, <2>2 DEF FastReserve, Goto, Place, InLine
        <3> QED BY <1>8, <2>2, <3>1, Stutters DEF FastReserve
    <2> QED BY <2>1, <2>2
<1>9. ASSUME NEW t \in Tasks, Recheck(t) PROVE [Promise!Next]_(Promise!vars)
    <2>1. CASE Fits(want[t])
        <3>1. /\ Place[t] = "inLine" /\ Place' = [Place EXCEPT ![t] = "off"]
            BY <1>0, <1>9, <1>p, <2>1, PlaceMoves DEF Recheck, Goto, Steps
        <3>2. ahead[t] = {}
            BY <1>0, <1>9 DEF AheadOK, Recheck, HoldsTurn
        <3>3. Promise!Grant(t)
            BY SMTT(20), <1>0, <1>9, <2>1, <3>1, <3>2
               DEF Recheck, Overtaken, Fits, Charge, Promise!Grant, Promise!Room,
                   Promise!Counted, Promise!Leaves
        <3> QED BY <3>3 DEF Promise!Next
    <2>2. CASE ~Fits(want[t])
        <3>1. \A u \in Tasks : Place'[u] = Place[u]
            BY <1>0, <1>9, <2>2 DEF Recheck, Goto, Place, InLine
        <3> QED BY <1>9, <2>2, <3>1, Stutters DEF Recheck
    <2> QED BY <2>1, <2>2
<1>10. ASSUME NEW t \in Tasks, GiveTurn(t) PROVE UNCHANGED Promise!vars
    <2>1. \A u \in Tasks : Place'[u] = Place[u]
        <3>1. CASE queue = <<>>
            BY <1>0, <1>10, <3>1 DEF GiveTurn, Goto, Place, InLine
        <3>2. CASE queue # <<>>
            <4>1. Head(queue) \in Tasks /\ pc[Head(queue)] = "queued"
                BY SMTT(20), <1>0, <3>2, QueueTail DEF IInv, QueueOK
            <4>2. pc' = [pc EXCEPT ![t] = "unregister", ![Head(queue)] = "arm"] /\ pc[t] = "giveTurn"
                BY <1>10, <3>2 DEF GiveTurn
            <4> QED BY <1>0, <4>1, <4>2 DEF Place, InLine
        <3> QED BY <3>1, <3>2
    <2> QED BY <1>10, <2>1, Stutters DEF GiveTurn
<1>11. ASSUME NEW t \in Tasks, Cancel(t) PROVE [Promise!Next]_(Promise!vars)
    <2>1. /\ Place[t] = "inLine" /\ Place' = [Place EXCEPT ![t] = "off"]
        BY <1>0, <1>11, <1>p, PlaceMoves DEF Cancel, Goto, Steps
    <2>2. Promise!Withdraw(t)
        BY <1>11, <2>1 DEF Cancel, Overtaken, Promise!Withdraw, Promise!Leaves
    <2> QED BY <2>2 DEF Promise!Next
<1>12. CASE UNCHANGED vars
    BY <1>12, <1>s DEF vars, Promise!vars
<1> QED BY <1>1, <1>2, <1>4, <1>5, <1>6, <1>7, <1>8, <1>9, <1>10, <1>11, <1>12
        DEF Next, Progress

\* What a caller of the budget sees is ByteBudget: bytes taken and given back in
\* one step, and a wait granted only when nobody who was in line at the call to
\* acquire_wait is still in line.
THEOREM BudgetKeepsPromise == Spec => KeepsPromise
BY Invariance, PromiseInit, PromiseStep, PTL DEF Spec, KeepsPromise, Promise!Spec

===========================================================================
