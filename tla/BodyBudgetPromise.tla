------------------------ MODULE BodyBudgetPromise -------------------------
(* BodyBudget as an implementation of ByteBudget, what the budget promises *)
(* its callers.                                                            *)
EXTENDS BodyBudget

\* Where a task stands in what the budget promises (ByteBudget).
Place == [t \in Tasks |-> CASE pc[t] \in {"load", "fast", "register", "acquire"} -> "asking"
                            [] InLine(t) -> "inLine"
                            [] OTHER -> "off"]

Promise == INSTANCE ByteBudget
             WITH used <- in_flight, place <- Place, asked <- want, before <- ahead

\* The counters, the turn and the notifications implement the promise on
\* acquire_wait, "Waiters are served first-come first-served: a newcomer queues
\* behind any earlier waiter even when its own n would fit", and on the budget
\* as a whole: whatever the interleaving of loads, compare-exchanges, wake-ups and
\* dropped futures, a caller only ever sees bytes taken and given back at once.
\* In particular in_flight is exactly what the leases hold: nothing leaks.
KeepsPromise == Promise!Spec
===========================================================================
