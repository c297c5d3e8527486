---------------------------- MODULE ByteBudget ----------------------------
(***************************************************************************)
(* What the byte budget of hj-core/src/budget.rs promises its callers,     *)
(* without the counters, the turn semaphore and the notifications that     *)
(* BodyBudget describes: bytes are taken and given back in one step, and a *)
(* wait is granted only to a task nobody is in line ahead of.              *)
(***************************************************************************)
EXTENDS Integers

CONSTANTS Tasks, MaxBytes, Sizes

VARIABLES
    used,     \* bytes out
    held,     \* bytes each task holds
    place,    \* "off", "asking" (not yet in line) or "inLine"
    asked,    \* what it asked for last
    before    \* those in line when it asked, and still in line

vars == <<used, held, place, asked, before>>

Room(n) == MaxBytes = 0 \/ used + n <= MaxBytes
Counted(n) == IF MaxBytes = 0 THEN 0 ELSE n
Leaves(t) == before' = [u \in Tasks |-> before[u] \ {t}]

Init ==
    /\ used = 0 /\ held = [t \in Tasks |-> 0]
    /\ place = [t \in Tasks |-> "off"]
    /\ asked = [t \in Tasks |-> 0] /\ before = [t \in Tasks |-> {}]

\* Take n more bytes without waiting.
Take(t, n) ==
    /\ place[t] = "off" /\ Room(n)
    /\ used' = used + Counted(n) /\ held' = [held EXCEPT ![t] = @ + n]
    /\ UNCHANGED <<place, asked, before>>

Ask(t, n) ==
    /\ place[t] = "off" /\ held[t] = 0
    /\ MaxBytes = 0 \/ n <= MaxBytes
    /\ place' = [place EXCEPT ![t] = "asking"]
    /\ asked' = [asked EXCEPT ![t] = n]
    /\ before' = [before EXCEPT ![t] = {u \in Tasks : place[u] = "inLine"}]
    /\ UNCHANGED <<used, held>>

Join(t) ==
    /\ place[t] = "asking"
    /\ place' = [place EXCEPT ![t] = "inLine"]
    /\ UNCHANGED <<used, held, asked, before>>

Grant(t) ==
    /\ place[t] # "off" /\ before[t] = {} /\ Room(asked[t])
    /\ used' = used + Counted(asked[t]) /\ held' = [held EXCEPT ![t] = asked[t]]
    /\ place' = [place EXCEPT ![t] = "off"] /\ Leaves(t)
    /\ UNCHANGED asked

Withdraw(t) ==
    /\ place[t] = "inLine"
    /\ place' = [place EXCEPT ![t] = "off"] /\ Leaves(t)
    /\ UNCHANGED <<used, held, asked>>

GiveBack(t, n) ==
    /\ place[t] = "off" /\ 0 < n /\ n <= held[t]
    /\ used' = used - Counted(n) /\ held' = [held EXCEPT ![t] = @ - n]
    /\ UNCHANGED <<place, asked, before>>

Next ==
    \E t \in Tasks :
        \/ \E n \in Sizes : Take(t, n) \/ Ask(t, n)
        \/ \E n \in 1..held[t] : GiveBack(t, n)
        \/ Join(t) \/ Grant(t) \/ Withdraw(t)

Spec == Init /\ [][Next]_vars
===========================================================================
