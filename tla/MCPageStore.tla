---------------------------- MODULE MCPageStore ----------------------------
(* Instances of PageStore for TLC. *)
EXTENDS PageStore, TLC

Symmetry == Permutations(Keys) \cup Permutations(Tags) \cup Permutations(Renders)

\* A boot scan beside fills and purges, at the first boot while the clock moves, or
\* again after a restart in the middle of a purge.  Neither bounds the steps that
\* Fairness is about.
ScanNext ==
    /\ Next
    /\ \/ crashes' = 0
       \/ clock' = 1 /\ (crashes' = crashes \/ purger # None)

ScanSpec == Init /\ [][ScanNext]_vars /\ Fairness
=============================================================================
