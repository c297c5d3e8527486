---------------------------- MODULE BodyBudget ----------------------------
(***************************************************************************)
(* The server-wide byte budget for buffered bodies (hj-core/src/budget.rs):*)
(* one BodyBufferBudget shared by many leases.  A lease either reserves    *)
(* without waiting (try_acquire), or queues for its bytes (acquire_wait),  *)
(* and gives back what it holds in parts (release) or whole (drop).        *)
(*                                                                         *)
(* Every atomic access of the code is a step of its own: the two counters  *)
(* in_flight and waiters are read and written without a lock, so what one  *)
(* task read may be stale when it acts on it.                              *)
(***************************************************************************)
EXTENDS Integers, Sequences, FiniteSets

CONSTANTS
    Tasks,      \* the tasks, each owning one lease
    NoTask,     \* the turn is free
    MaxBytes,   \* max_bytes; 0 disables the accounting
    Sizes,      \* the amounts a task may ask for
    MaxOps      \* bound: operations each task starts

ASSUME BudgetAssumption ==
    /\ IsFiniteSet(Tasks)
    /\ NoTask \notin Tasks
    /\ MaxBytes \in Nat
    /\ Sizes \subseteq Nat

ASSUME BoundAssumption == MaxOps \in [Tasks -> Nat]

VARIABLES
    in_flight,  \* bytes reserved
    waiters,    \* tasks registered as waiting
    turn,       \* holder of the one permit of the turn semaphore
    queue,      \* tasks queued for it, in arrival order
    pc,         \* where each task is
    want,       \* the amount it is asking for
    held,       \* the bytes its lease holds
    woken,      \* its Notified future has been completed
    ahead,      \* history: the waiters in line when it asked, and still in line
    ops         \* operations each task has started

vars == <<in_flight, waiters, turn, queue, pc, want, held, woken, ahead, ops>>

---------------------------------------------------------------------------
(* Where a task can be.  The numbers are lines of budget.rs.               *)

Steps == {"idle",
          "load",        \* 68: read waiters
          "fast",        \* 68: waiters was 0, try to reserve
          "register",    \* 71: count itself as a waiter
          "acquire",     \* 74: ask for the turn
          "queued",      \* 74: await the turn
          "arm",         \* 78: create the Notified future
          "recheck",     \* 79: try to reserve
          "sleep",       \* 82: await a release
          "giveTurn",    \* the turn permit is dropped
          "unregister",  \* the Waiter is dropped
          "counted",     \* 115: a release has been counted, read waiters
          "notify"}      \* 116: notify_waiters

Registered == {t \in Tasks : pc[t] \in {"acquire", "queued", "arm", "recheck",
                                        "sleep", "giveTurn", "unregister"}}
HoldsTurn(t) == pc[t] \in {"arm", "recheck", "sleep", "giveTurn"}
Listening(t) == pc[t] \in {"recheck", "sleep"}
InLine(t) == pc[t] \in {"queued", "arm", "recheck", "sleep"}
Releasing(t) == pc[t] \in {"counted", "notify"}

Fits(n) == MaxBytes = 0 \/ in_flight + n <= MaxBytes
Charge(n) == IF MaxBytes = 0 THEN in_flight ELSE in_flight + n

Goto(t, step) == pc' = [pc EXCEPT ![t] = step]
\* t is no longer in line: nobody is behind it any more
Overtaken(t) == [u \in Tasks |-> ahead[u] \ {t}]

Init ==
    /\ in_flight = 0 /\ waiters = 0
    /\ turn = NoTask /\ queue = <<>>
    /\ pc = [t \in Tasks |-> "idle"]
    /\ want = [t \in Tasks |-> 0]
    /\ held = [t \in Tasks |-> 0]
    /\ woken = [t \in Tasks |-> FALSE]
    /\ ahead = [t \in Tasks |-> {}]
    /\ ops = [t \in Tasks |-> 0]

Start(t) ==
    /\ pc[t] = "idle" /\ ops[t] < MaxOps[t]
    /\ ops' = [ops EXCEPT ![t] = @ + 1]

---------------------------------------------------------------------------
(* Reserving without waiting.                                              *)

\* BodyBufferLease::reserve: the compare-exchange loop of reserve() takes
\* effect at its last load, so the call is one step; a refusal changes nothing.
Reserve(t, n) ==
    /\ Start(t)
    /\ IF Fits(n) THEN in_flight' = Charge(n) /\ held' = [held EXCEPT ![t] = @ + n]
                  ELSE UNCHANGED <<in_flight, held>>
    /\ UNCHANGED <<waiters, turn, queue, pc, want, woken, ahead>>

---------------------------------------------------------------------------
(* acquire_wait.  Every caller waits with an empty lease (bridge.rs gives  *)
(* back its claim first), which is the guard held[t] = 0.                  *)

AcquireWait(t, n) ==
    /\ Start(t)
    /\ held[t] = 0
    /\ IF MaxBytes # 0 /\ n > MaxBytes
         THEN UNCHANGED <<pc, want, ahead>>                    \* refused
         ELSE /\ Goto(t, "load")
              /\ want' = [want EXCEPT ![t] = n]
              /\ ahead' = [ahead EXCEPT ![t] = {u \in Tasks : InLine(u)}]
    /\ UNCHANGED <<in_flight, waiters, turn, queue, held, woken>>

\* Mutant: the fast path does not look at the waiters
LoadWaiters_Barging(t) ==
    /\ pc[t] = "load"
    /\ Goto(t, "fast")
    /\ UNCHANGED <<in_flight, waiters, turn, queue, want, held, woken, ahead, ops>>

LoadWaiters(t) ==
    /\ pc[t] = "load"
    /\ Goto(t, IF waiters = 0 THEN "fast" ELSE "register")
    /\ UNCHANGED <<in_flight, waiters, turn, queue, want, held, woken, ahead, ops>>

FastReserve(t) ==
    /\ pc[t] = "fast"
    /\ IF Fits(want[t])
         THEN /\ Goto(t, "idle")
              /\ in_flight' = Charge(want[t])
              /\ held' = [held EXCEPT ![t] = want[t]]
         ELSE Goto(t, "register") /\ UNCHANGED <<in_flight, held>>
    /\ UNCHANGED <<waiters, turn, queue, want, woken, ahead, ops>>

Register(t) ==
    /\ pc[t] = "register"
    /\ Goto(t, "acquire")
    /\ waiters' = waiters + 1
    /\ UNCHANGED <<in_flight, turn, queue, want, held, woken, ahead, ops>>

\* tokio's semaphore is fair: a free permit is never taken past the queue
AcquireTurn(t) ==
    /\ pc[t] = "acquire"
    /\ IF turn = NoTask
         THEN turn' = t /\ Goto(t, "arm") /\ UNCHANGED queue
         ELSE queue' = Append(queue, t) /\ Goto(t, "queued") /\ UNCHANGED turn
    /\ UNCHANGED <<in_flight, waiters, want, held, woken, ahead, ops>>

Arm(t) ==
    /\ pc[t] = "arm"
    /\ Goto(t, "recheck")
    /\ woken' = [woken EXCEPT ![t] = FALSE]
    /\ UNCHANGED <<in_flight, waiters, turn, queue, want, held, ahead, ops>>

Recheck(t) ==
    /\ pc[t] = "recheck"
    /\ IF Fits(want[t])
         THEN /\ Goto(t, "giveTurn")
              /\ in_flight' = Charge(want[t])
              /\ held' = [held EXCEPT ![t] = want[t]]
              /\ ahead' = Overtaken(t)
         ELSE Goto(t, "sleep") /\ UNCHANGED <<in_flight, held, ahead>>
    /\ UNCHANGED <<waiters, turn, queue, want, woken, ops>>

Wake(t) ==
    /\ pc[t] = "sleep" /\ woken[t]
    /\ Goto(t, "arm")
    /\ UNCHANGED <<in_flight, waiters, turn, queue, want, held, woken, ahead, ops>>

\* The permit goes to the head of the queue, if there is one
GiveTurn(t) ==
    /\ pc[t] = "giveTurn"
    /\ IF queue = <<>>
         THEN /\ turn' = NoTask
              /\ Goto(t, "unregister")
              /\ UNCHANGED queue
         ELSE /\ turn' = Head(queue)
              /\ queue' = Tail(queue)
              /\ pc' = [pc EXCEPT ![t] = "unregister", ![Head(queue)] = "arm"]
    /\ UNCHANGED <<in_flight, waiters, want, held, woken, ahead, ops>>

Unregister(t) ==
    /\ pc[t] = "unregister"
    /\ Goto(t, "idle")
    /\ waiters' = waiters - 1
    /\ UNCHANGED <<in_flight, turn, queue, want, held, woken, ahead, ops>>

\* The queue without its i-th element
Without(i) == SubSeq(queue, 1, i - 1) \o SubSeq(queue, i + 1, Len(queue))

\* Mutant: a cancelled sleeper keeps the turn
Cancel_KeepsTurn(t) ==
    /\ \/ /\ pc[t] = "sleep"
          /\ Goto(t, "unregister")
          /\ UNCHANGED queue
       \/ /\ pc[t] = "queued"
          /\ Goto(t, "unregister")
          /\ \E i \in 1..Len(queue) : queue[i] = t /\ queue' = Without(i)
    /\ ahead' = Overtaken(t)
    /\ UNCHANGED <<in_flight, waiters, turn, want, held, woken, ops>>

\* The future is dropped at one of its two awaits: the client went away
Cancel(t) ==
    /\ \/ /\ pc[t] = "sleep"
          /\ Goto(t, "giveTurn")
          /\ UNCHANGED queue
       \/ /\ pc[t] = "queued"
          /\ Goto(t, "unregister")
          /\ \E i \in 1..Len(queue) : queue[i] = t /\ queue' = Without(i)
    /\ ahead' = Overtaken(t)
    /\ UNCHANGED <<in_flight, waiters, turn, want, held, woken, ops>>

---------------------------------------------------------------------------
(* Giving back.  BodyBufferLease::release clamps to what is held; drop     *)
(* releases all of it (a lease moved into a Bytes is dropped with it).     *)

Min2(a, b) == IF a <= b THEN a ELSE b

GiveBack(t, n) ==
    /\ held' = [held EXCEPT ![t] = @ - n]
    /\ IF MaxBytes = 0 \/ n = 0
         THEN UNCHANGED <<in_flight, pc>>
         ELSE in_flight' = in_flight - n /\ Goto(t, "counted")
    /\ UNCHANGED <<waiters, turn, queue, want, woken, ahead>>

Release(t, n) ==
    /\ Start(t)
    /\ GiveBack(t, Min2(n, held[t]))

Drop(t) ==
    /\ pc[t] = "idle" /\ held[t] > 0
    /\ GiveBack(t, held[t])
    /\ UNCHANGED ops

\* Mutant: a single waiter, the one that holds the turn, is not notified
CountWaiters_Queued(t) ==
    /\ pc[t] = "counted"
    /\ Goto(t, IF waiters > 1 THEN "notify" ELSE "idle")
    /\ UNCHANGED <<in_flight, waiters, turn, queue, want, held, woken, ahead, ops>>

CountWaiters(t) ==
    /\ pc[t] = "counted"
    /\ Goto(t, IF waiters # 0 THEN "notify" ELSE "idle")
    /\ UNCHANGED <<in_flight, waiters, turn, queue, want, held, woken, ahead, ops>>

\* notify_waiters completes every Notified future that exists
NotifyWaiters(t) ==
    /\ pc[t] = "notify"
    /\ Goto(t, "idle")
    /\ woken' = [u \in Tasks |-> woken[u] \/ Listening(u)]
    /\ UNCHANGED <<in_flight, waiters, turn, queue, want, held, ahead, ops>>

---------------------------------------------------------------------------
Progress(t) ==
    \/ LoadWaiters(t) \/ FastReserve(t) \/ Register(t) \/ AcquireTurn(t)
    \/ Arm(t) \/ Recheck(t) \/ Wake(t) \/ GiveTurn(t) \/ Unregister(t)
    \/ CountWaiters(t) \/ NotifyWaiters(t)

Next ==
    \E t \in Tasks :
        \/ \E n \in Sizes : Reserve(t, n) \/ AcquireWait(t, n) \/ Release(t, n)
        \/ Progress(t) \/ Cancel(t) \/ Drop(t)

Spec == Init /\ [][Next]_vars

---------------------------------------------------------------------------
\* Type correctness.  waiters is unsigned in the code and Waiter's drop subtracts
\* from it without a check: it never goes below zero, nor does a lease.  (That
\* in_flight does not either follows from KeepsPromise of BodyBudgetPromise.)
TypeOK ==
    /\ in_flight \in Int /\ waiters \in Nat
    /\ turn \in Tasks \cup {NoTask} /\ queue \in Seq(Tasks)
    /\ pc \in [Tasks -> Steps]
    /\ want \in [Tasks -> Nat] /\ held \in [Tasks -> Nat]
    /\ woken \in [Tasks -> BOOLEAN]
    /\ ahead \in [Tasks -> SUBSET Tasks]
    /\ ops \in [Tasks -> Nat]

\* The comment on reserve(): "a waiter that registers and then re-checks either
\* sees the release or is counted by its notify".  A task asleep on an amount
\* that fits, whose future is not completed, is owed a wake-up by a release
\* that is still on its way to notify_waiters.
NoLostWakeup ==
    \A t \in Tasks :
        pc[t] = "sleep" /\ ~woken[t] /\ Fits(want[t]) => \E r \in Tasks : Releasing(r)

\* The budget is never over-committed, whatever the interleaving of reserve()
\* loops, releases and cancellations.
NeverOverBudget == MaxBytes # 0 => in_flight <= MaxBytes

\* acquire_wait: "Waiters are served first-come first-served: a newcomer queues
\* behind any earlier waiter even when its own n would fit".  A wait that ends
\* with its bytes leaves nobody in line that was in line when it was called.
FirstComeFirstServed ==
    [][\A t \in Tasks :
         (pc[t] \in {"fast", "recheck"} /\ held'[t] # held[t]) => ahead[t] = {}]_vars

\* Every wait ends: with its bytes, or cancelled.
EveryWaitEnds == \A t \in Tasks : pc[t] = "load" ~> pc[t] = "idle"

---------------------------------------------------------------------------
\* Every task keeps running once it has started a call, and a lease is dropped
\* at the latest when its request ends.  Nothing forces a call or a cancel.
Fairness == \A t \in Tasks : WF_vars(Progress(t)) /\ WF_vars(Drop(t))
FairSpec == Spec /\ Fairness
===========================================================================
