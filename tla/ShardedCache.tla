---------------------------- MODULE ShardedCache ----------------------------
(***************************************************************************)
(* The sharded, byte-weighted LRU under the page and file caches           *)
(* (crates/hj-cache/src/sharded/mod.rs).                                   *)
(*                                                                         *)
(* Each shard is a map of nodes threaded by two intrusive lists, with its  *)
(* byte counts and a heap of deadlines, all under the shard's lock.  One   *)
(* counter pair, under a lock of its own, holds the bytes of all shards.   *)
(* An operation runs with its shard locked and takes the global lock once  *)
(* per reservation attempt and once per node it tears down; those are the  *)
(* steps of this module, since between them another shard's operation may  *)
(* take or free the same bytes.                                            *)
(***************************************************************************)
EXTENDS Integers, FiniteSets, FiniteSetsExt

CONSTANTS Shards, Keys,
          ShardOf,           \* shard_index of each key
          Nil,               \* the list terminator; also: no node
          RamMax, DiskMax,   \* ram_max, disk_max
          Values,            \* weights and deadlines: records of ram, disk, deadline
          MaxGen,            \* bound: node versions of each shard
          MaxNow             \* bound: the clock

Never == MaxNow + 1          \* the deadline of a value without one

ShardedCacheAssumption ==
  /\ ShardOf \in [Keys -> Shards] /\ Nil \notin Keys
  /\ {RamMax, DiskMax, MaxNow} \subseteq Nat /\ MaxGen \in [Shards -> Nat]
  /\ Values \subseteq [ram : Nat, disk : Nat, deadline : 0..Never]

VARIABLES shard, global, section, now,
          owed     \* history: nodes of a key inserted and not yet given to on_evict

vars == <<shard, global, section, now, owed>>

\* The per-shard targets; at least 1.
PerShard(total) == Max({total \div Cardinality(Shards), 1})
Minus(a, b) == Max({a - b, 0})          \* saturating_sub
KeysOf(s) == {k \in Keys : ShardOf[k] = s}
Fresh(v, t) == t < v.deadline

----------------------------------------------------------------------------
(* The intrusive lists, head most recent. *)

EmptyList == [head |-> Nil, tail |-> Nil,
              prev |-> [k \in Keys |-> Nil], next |-> [k \in Keys |-> Nil]]

\* f with f[k] replaced; writing at Nil changes nothing.
At(f, k, v) == IF k = Nil THEN f ELSE [f EXCEPT ![k] = v]

PushFront(l, k) ==
  [head |-> k, tail |-> IF l.head = Nil THEN k ELSE l.tail,
   prev |-> At([l.prev EXCEPT ![k] = Nil], l.head, k),
   next |-> [l.next EXCEPT ![k] = l.head]]

Unlink(l, k) ==
  LET p == l.prev[k]
      n == l.next[k]
  IN [head |-> IF p = Nil THEN n ELSE l.head,
      tail |-> IF n = Nil THEN p ELSE l.tail,
      prev |-> [At(l.prev, n, p) EXCEPT ![k] = Nil],
      next |-> [At(l.next, p, n) EXCEPT ![k] = Nil]]

Touched(l, k) == IF l.head = k THEN l ELSE PushFront(Unlink(l, k), k)

\* The tail, or the node before it when the tail is the protected key.
VictimOf(l, protect) == IF l.tail = protect /\ protect # Nil THEN l.prev[protect] ELSE l.tail

----------------------------------------------------------------------------
(* What an operation does to its locked shard. *)

EmptyShard == [node |-> [k \in Keys |-> Nil], ram |-> EmptyList, disk |-> EmptyList,
               ramUsed |-> 0, diskUsed |-> 0, expiry |-> {}, gen |-> 0]

Has(x, k) == x.node[k] # Nil
Deadline(k, v, g) == IF v.deadline = Never THEN {} ELSE {[deadline |-> v.deadline, gen |-> g, key |-> k]}

Torn_RamOnly(x, k) ==   \* the disk list keeps a link to the node
  [x EXCEPT !.node[k] = Nil, !.ram = Unlink(@, k),
            !.ramUsed = Minus(@, x.node[k].ram), !.diskUsed = Minus(@, x.node[k].disk)]

\* teardown_inner without the release of the global bytes
Torn(x, k) ==
  [x EXCEPT !.node[k] = Nil, !.ram = Unlink(@, k),
            !.disk = IF x.node[k].disk > 0 THEN Unlink(@, k) ELSE @,
            !.ramUsed = Minus(@, x.node[k].ram), !.diskUsed = Minus(@, x.node[k].disk)]

\* insert_replacing once its bytes are reserved
Inserted(x, k, v) ==
  LET y == IF Has(x, k) THEN Torn(x, k) ELSE x
      g == x.gen + 1
  IN [y EXCEPT !.node[k] = [ram |-> v.ram, disk |-> v.disk, deadline |-> v.deadline, gen |-> g],
               !.ram = PushFront(@, k), !.disk = IF v.disk > 0 THEN PushFront(@, k) ELSE @,
               !.ramUsed = @ + v.ram, !.diskUsed = @ + v.disk,
               !.expiry = @ \cup Deadline(k, v, g), !.gen = g]

\* reconcile_weights once its bytes are reserved
Reweighed(x, k, v) ==
  LET old == x.node[k] IN
  [x EXCEPT !.node[k].ram = v.ram, !.node[k].disk = v.disk,
            !.disk = IF old.disk > 0 /\ v.disk = 0 THEN Unlink(@, k)
                     ELSE IF old.disk = 0 /\ v.disk > 0 THEN PushFront(@, k) ELSE @,
            !.ramUsed = Minus(@, old.ram) + v.ram, !.diskUsed = Minus(@, old.disk) + v.disk]

\* mutate: besides its weights the node gets a new generation and heap entry
Mutated(x, k, v) ==
  LET g == x.gen + 1 IN
  [Reweighed(x, k, v) EXCEPT !.node[k].gen = g, !.node[k].deadline = v.deadline,
                             !.expiry = @ \cup Deadline(k, v, g), !.gen = g]

----------------------------------------------------------------------------
Unlocked == [op |-> "off"]
Init ==
  /\ shard = [s \in Shards |-> EmptyShard]
  /\ global = [ram |-> 0, disk |-> 0]
  /\ section = [s \in Shards |-> Unlocked]
  /\ now = 0 /\ owed = [k \in Keys |-> 0]

Free(s) == section[s].op = "off"
Within(s, rec) == section' = [section EXCEPT ![s] = rec]
Unlock(s) == Within(s, Unlocked)
Becomes(s, x) == shard' = [shard EXCEPT ![s] = x]

\* The teardown funnel: off the map, the lists and both budgets, then the hook.
Teardown(s, k) ==
  LET n == shard[s].node[k] IN
  /\ Becomes(s, Torn(shard[s], k))
  /\ global' = [ram |-> Minus(global.ram, n.ram), disk |-> Minus(global.disk, n.disk)]
  /\ owed' = [owed EXCEPT ![k] = @ - 1]

\* An expired hit is torn down; any other moves to the front of the lists it is on.
Get(s, k) ==
  /\ Free(s) /\ Has(shard[s], k)
  /\ LET x == shard[s] IN
     IF Fresh(x.node[k], now)
       THEN /\ Becomes(s, [x EXCEPT !.ram = Touched(@, k),
                                    !.disk = IF x.node[k].disk > 0 THEN Touched(@, k) ELSE @])
            /\ UNCHANGED <<global, owed>>
       ELSE Teardown(s, k)
  /\ UNCHANGED <<section, now>>

\* touch_ram: a hit that leaves the disk list alone.
TouchRam(s, k) ==
  /\ Free(s) /\ Has(shard[s], k)
  /\ Becomes(s, [shard[s] EXCEPT !.ram = Touched(@, k)])
  /\ UNCHANGED <<global, section, now, owed>>

TouchDisk(s, k) ==
  /\ Free(s) /\ Has(shard[s], k) /\ shard[s].node[k].disk > 0
  /\ Becomes(s, [shard[s] EXCEPT !.disk = Touched(@, k)])
  /\ UNCHANGED <<global, section, now, owed>>

Remove(s, k) == Free(s) /\ Has(shard[s], k) /\ Teardown(s, k) /\ UNCHANGED <<section, now>>

Clear(s) ==
  /\ Free(s)
  /\ global' = [ram |-> Minus(global.ram, shard[s].ramUsed),
                disk |-> Minus(global.disk, shard[s].diskUsed)]
  /\ owed' = [k \in Keys |-> owed[k] - (IF Has(shard[s], k) THEN 1 ELSE 0)]
  /\ Becomes(s, [EmptyShard EXCEPT !.gen = shard[s].gen])
  /\ UNCHANGED <<section, now>>

----------------------------------------------------------------------------
(* Operations that reserve: insert, mutate and reconcile_weights. *)

Begin(s, kind, k, v) ==
  /\ Free(s) /\ shard[s].gen < MaxGen[s]
  /\ Within(s, [op |-> "reserve", kind |-> kind, key |-> k, value |-> v])
  /\ UNCHANGED <<shard, global, now, owed>>

Insert(s, k, v) == Begin(s, "insert", k, v)
Mutate(s, k, v) == Has(shard[s], k) /\ Begin(s, "mutate", k, v)
ReconcileWeights(s, k, v) == Has(shard[s], k) /\ Begin(s, "reconcile", k, v)

Weightless == [ram |-> 0, disk |-> 0]
Old(s, k) == IF Has(shard[s], k) THEN shard[s].node[k] ELSE Weightless
NextRam(s) == Minus(global.ram, Old(s, section[s].key).ram) + section[s].value.ram
NextDisk(s) == Minus(global.disk, Old(s, section[s].key).disk) + section[s].value.disk
Fits(s) == NextRam(s) <= RamMax /\ NextDisk(s) <= DiskMax
\* The least recent node of the list under pressure, other than the key itself.
Victim(s) == IF NextDisk(s) > DiskMax THEN VictimOf(shard[s].disk, section[s].key)
                                      ELSE VictimOf(shard[s].ram, section[s].key)

\* try_replace succeeds, and the operation does its work under the shard's lock.
Admit(s) ==
  /\ section[s].op = "reserve" /\ Fits(s)
  /\ global' = [ram |-> NextRam(s), disk |-> NextDisk(s)]
  /\ LET k == section[s].key
         v == section[s].value
         x == shard[s]
     IN CASE section[s].kind = "insert" -> /\ Becomes(s, Inserted(x, k, v))
                                           /\ owed' = [owed EXCEPT ![k] = IF Has(x, k) THEN @ ELSE @ + 1]
          [] section[s].kind = "mutate" -> Becomes(s, Mutated(x, k, v)) /\ UNCHANGED owed
          [] OTHER -> Becomes(s, Reweighed(x, k, v)) /\ UNCHANGED owed
  /\ Within(s, [op |-> "enforce", protect |-> section[s].key])
  /\ UNCHANGED now

\* try_replace fails: an eligible victim makes room for the next attempt.
EvictForRoom(s) ==
  /\ section[s].op = "reserve" /\ ~Fits(s)
  /\ section[s].value.ram <= RamMax /\ section[s].value.disk <= DiskMax
  /\ Victim(s) # Nil /\ Teardown(s, Victim(s))
  /\ UNCHANGED <<section, now>>

\* No room can be made.  An insert is rejected; a node already mutated is evicted.
Refuse(s) ==
  /\ section[s].op = "reserve" /\ ~Fits(s)
  /\ Victim(s) = Nil \/ section[s].value.ram > RamMax \/ section[s].value.disk > DiskMax
  /\ IF section[s].kind = "insert" THEN UNCHANGED <<shard, global, owed>>
                                   ELSE Teardown(s, section[s].key)
  /\ Unlock(s) /\ UNCHANGED now

\* enforce_budgets: the RAM target first, then the disk target.
Over(s) ==
  LET x == shard[s]
      p == section[s].protect
      r == VictimOf(x.ram, p)
      d == VictimOf(x.disk, p)
  IN IF x.ramUsed > PerShard(RamMax) /\ r # Nil THEN r
     ELSE IF x.diskUsed > PerShard(DiskMax) THEN d ELSE Nil
Enforce(s) ==
  /\ section[s].op = "enforce"
  /\ IF Over(s) = Nil THEN Unlock(s) /\ UNCHANGED <<shard, global, owed>>
                      ELSE Teardown(s, Over(s)) /\ UNCHANGED section
  /\ UNCHANGED now

----------------------------------------------------------------------------
(* Operations that remove many nodes of a shard. *)

\* purge_if, for a predicate that holds of the keys in S.
PurgeIf(s, S) ==
  /\ Free(s) /\ S # {} /\ \A k \in S : Has(shard[s], k)
  /\ Within(s, [op |-> "purge", todo |-> S])
  /\ UNCHANGED <<shard, global, now, owed>>
Purge(s) ==
  /\ section[s].op = "purge"
  /\ \E k \in section[s].todo :
       /\ Teardown(s, k)
       /\ IF section[s].todo = {k} THEN Unlock(s)
                                   ELSE Within(s, [op |-> "purge", todo |-> section[s].todo \ {k}])
  /\ UNCHANGED now

SweepExpired(s) ==
  /\ Free(s) /\ shard[s].expiry # {}
  /\ Within(s, [op |-> "sweep", at |-> now])
  /\ UNCHANGED <<shard, global, now, owed>>

\* The next heap entry: the least deadline, then the least generation.
Top(s) == CHOOSE e \in shard[s].expiry :
            \A f \in shard[s].expiry :
              e.deadline < f.deadline \/ (e.deadline = f.deadline /\ e.gen <= f.gen)
Due(s, e) ==
  /\ Has(shard[s], e.key) /\ shard[s].node[e.key].gen = e.gen
  /\ ~Fresh(shard[s].node[e.key], section[s].at)

\* One turn of the loop: an entry whose node has moved on is only dropped.
Sweep(s) ==
  /\ section[s].op = "sweep"
  /\ IF shard[s].expiry = {} \/ Top(s).deadline > section[s].at
       THEN Unlock(s) /\ UNCHANGED <<shard, global, owed>>
       ELSE LET x == [shard[s] EXCEPT !.expiry = @ \ {Top(s)}]
                n == x.node[Top(s).key]
            IN /\ IF Due(s, Top(s))
                    THEN /\ Becomes(s, Torn(x, Top(s).key))
                         /\ global' = [ram |-> Minus(global.ram, n.ram),
                                       disk |-> Minus(global.disk, n.disk)]
                         /\ owed' = [owed EXCEPT ![Top(s).key] = @ - 1]
                    ELSE Becomes(s, x) /\ UNCHANGED <<global, owed>>
               /\ UNCHANGED section
  /\ UNCHANGED now

Tick == now < MaxNow /\ now' = now + 1 /\ UNCHANGED <<shard, global, section, owed>>

Next ==
  \/ \E s \in Shards :
       \/ \E k \in KeysOf(s) :
            \/ Get(s, k) \/ TouchRam(s, k) \/ TouchDisk(s, k) \/ Remove(s, k)
            \/ \E v \in Values : Insert(s, k, v) \/ Mutate(s, k, v) \/ ReconcileWeights(s, k, v)
       \/ Admit(s) \/ EvictForRoom(s) \/ Refuse(s) \/ Enforce(s)
       \/ Clear(s) \/ Purge(s) \/ \E S \in SUBSET KeysOf(s) : PurgeIf(s, S)
       \/ SweepExpired(s) \/ Sweep(s)
  \/ Tick

Spec == Init /\ [][Next]_vars

----------------------------------------------------------------------------
Resident == {k \in Keys : Has(shard[ShardOf[k]], k)}
NodeOf(k) == shard[ShardOf[k]].node[k]

\* "A shared reservation counter makes the configured aggregate RAM/disk caps hard":
\* whatever the shards do at the same time, the counters are the weights of the
\* resident nodes, of each shard and of all of them, and within the caps.
BytesExact ==
  /\ \A s \in Shards :
       LET mine == Resident \cap KeysOf(s) IN
       /\ shard[s].ramUsed = MapThenSumSet(LAMBDA k : NodeOf(k).ram, mine)
       /\ shard[s].diskUsed = MapThenSumSet(LAMBDA k : NodeOf(k).disk, mine)
  /\ global.ram = MapThenSumSet(LAMBDA k : NodeOf(k).ram, Resident)
  /\ global.disk = MapThenSumSet(LAMBDA k : NodeOf(k).disk, Resident)
  /\ global.ram <= RamMax /\ global.disk <= DiskMax

\* A list is a chain over exactly the keys S, the same one in both directions.
Threads(l, S) ==
  /\ l.head = Nil <=> S = {}
  /\ l.tail = Nil <=> S = {}
  /\ \A k \in S : /\ l.next[k] \in S \cup {Nil} /\ l.prev[k] \in S \cup {Nil}
                  /\ l.next[k] = Nil <=> k = l.tail
                  /\ l.prev[k] = Nil <=> k = l.head
                  /\ l.next[k] # Nil => l.prev[l.next[k]] = k
  /\ \A T \in SUBSET S : l.head \in T /\ (\A k \in T : l.next[k] \in T \cup {Nil}) => T = S

\* The RAM list threads every resident node and the disk list every disk-weighted
\* one, so that no eviction misses a node or follows a link to one that is gone.
ListsThread ==
  \A s \in Shards :
    /\ Threads(shard[s].ram, Resident \cap KeysOf(s))
    /\ Threads(shard[s].disk, {k \in Resident \cap KeysOf(s) : NodeOf(k).disk > 0})

\* "a node whose external resource was freed while the index still references it is
\* unrepresentable": every node that left the index went through on_evict once.
HookOncePerNode == \A k \in Keys : owed[k] = IF k \in Resident THEN 1 ELSE 0

\* The generation guard drops entries of replaced nodes and never the last one of a
\* live node: whatever can expire will be found by a sweep.
SweepWillFind ==
  \A k \in Resident : Deadline(k, NodeOf(k), NodeOf(k).gen) \subseteq shard[ShardOf[k]].expiry
=============================================================================
