------------------------------ MODULE MCGates ------------------------------
(* The two gates a request passes, coalescing and admission, in one run:   *)
(* the behaviours of one of them at a time, chosen by focus, the other     *)
(* left where it starts.                                                   *)
EXTENDS SingleFlight, TLC

CONSTANTS h1,                              \* SingleFlight
          MaxInFlight, Limits, MaxReloads  \* BridgeAdmission

VARIABLES focus,
          limit, active, generation, reload, reloads, ba_stored, queue, woken, ba_pc,
          waits, local, chan, task, client, grace

BA == INSTANCE BridgeAdmission WITH pc <- ba_pc, stored <- ba_stored

ASSUME BA!BridgeAdmissionAssumption

ba == <<limit, active, generation, reload, reloads, ba_stored, queue, woken, ba_pc,
        waits, local, chan, task, client, grace>>

\* Every identity has the same key hash: the collision `enter` guards against.
Colliding == [i \in Ids |-> h1]

Symmetry == Permutations(Reqs) \cup Permutations(Ids)

MCInit ==
  /\ focus \in {"coalescing", "admission"}
  /\ Init /\ BA!Init
  /\ focus # "admission" => limit = MaxInFlight
  /\ focus # "coalescing" => cache = [i \in Ids |-> "none"]

MCNext ==
  \/ focus = "coalescing" /\ Next /\ UNCHANGED <<focus, ba>>
  \/ focus = "admission" /\ BA!Next /\ UNCHANGED <<focus, vars>>

MCSpec == MCInit /\ [][MCNext]_<<focus, vars, ba>>

\* BridgeAdmission: `active` counts the permits that exist, over every rollback,
\* cancellation and dropped request, after the limit is lowered the gate admits
\* nobody until it has drained below it, and a free slot is never left while a
\* registered waiter sleeps.
AdmissionExact == BA!PermitsExact /\ BA!DrainsToLimit /\ BA!NoLostWakeup
=============================================================================
