------------------------------ MODULE MCStores ------------------------------
(***************************************************************************)
(* What the server keeps for later requests, in one run: the page store,   *)
(* the sharded LRU under it, and the idle LSAPI sockets.  The behaviours   *)
(* of one instance at a time, chosen by focus.  The page store has three:  *)
(* crashes and failed writes with a file store, more tags than it keeps    *)
(* tombstones for, and purges racing concurrent fills in RAM.              *)
(***************************************************************************)
EXTENDS PageStore, TLC

CONSTANTS ManyTags, FewTombs,                      \* PageStore, purged by several tags
          RamTags, RamRenders, RamPurges,          \* PageStore in RAM
          keyA, keyB, keyC, keyD, shard1, shard2,  \* ShardedCache
          RamMax, DiskMax, MaxNow,
          Reqs, MaxConns, MaxFamily, MaxEpoch, MaxIdle    \* LsapiPool

VARIABLES focus,
          shard, global, section, now, owed,
          file, sup, alive, seen, recent, obs, gen, idle, request, discards, discarding,
          retirement, signalled

sc == <<shard, global, section, now, owed>>
lp == <<file, sup, alive, seen, recent, obs, gen, idle, request, discards, discarding,
        retirement, signalled>>

Tombs == INSTANCE PageStore WITH
           Tags <- ManyTags, TombCap <- FewTombs, MaxCrashes <- 0, MaxFaults <- 0
Ram == INSTANCE PageStore WITH
         Tags <- RamTags, Renders <- RamRenders, HasDisk <- FALSE, MaxPurges <- RamPurges,
         MaxSeq <- 0, MaxCrashes <- 0, MaxFaults <- 0

\* Three keys share a shard, the fourth has one of its own.  Weights: RAM only, RAM
\* and disk with a deadline, and more than a shard's target.
CacheKeys == {keyA, keyB, keyC, keyD}
CacheShards == {shard1, shard2}
ShardIndex == [k \in CacheKeys |-> IF k = keyD THEN shard2 ELSE shard1]
Versions == (shard1 :> 3) @@ (shard2 :> 1)
Weights == {[ram |-> 1, disk |-> 0, deadline |-> MaxNow + 1],
            [ram |-> 1, disk |-> 1, deadline |-> 1],
            [ram |-> 4, disk |-> 2, deadline |-> MaxNow + 1]}
Cache == INSTANCE ShardedCache WITH
           Shards <- CacheShards, Keys <- CacheKeys, ShardOf <- ShardIndex, Nil <- None,
           Values <- Weights, MaxGen <- Versions

Sockets == INSTANCE LsapiPool WITH req <- request

ASSUME Cache!ShardedCacheAssumption /\ Sockets!LsapiPoolAssumption

\* The tags, the fills in RAM, two of the keys and the requests are named by the same
\* two values, so that exchanging these is a symmetry of every instance.
Symmetry == Permutations(Reqs)

\* A component that is out of focus.
PagesUnused ==
  /\ clock = None /\ crashes = None /\ faults = None /\ version = None /\ req = None
  /\ reqAll = None /\ durable = None /\ durableAll = None /\ purge_seq = None
  /\ purge_all_epoch = None /\ tag_purge_epoch = None /\ tag_epoch_prune_floor = None
  /\ index = None /\ tag_index = None /\ render = None /\ purger = None /\ files = None
  /\ unlinking = None /\ next_seq = None /\ purge_stamp = None /\ journal = None
  /\ peer_floor = None /\ peer_wall = None /\ compact_due = None /\ scan = None
  /\ loader = None /\ job = None
CacheUnused == shard = None /\ global = None /\ section = None /\ now = None /\ owed = None
SocketsUnused ==
  /\ file = None /\ sup = None /\ alive = None /\ seen = None /\ recent = None
  /\ obs = None /\ gen = None /\ idle = None /\ request = None /\ discards = None
  /\ discarding = None /\ retirement = None /\ signalled = None

MCInit ==
  \/ focus = "disk" /\ Init /\ CacheUnused /\ SocketsUnused
  \/ focus = "tombs" /\ Tombs!Init /\ CacheUnused /\ SocketsUnused
  \/ focus = "ram" /\ Ram!Init /\ CacheUnused /\ SocketsUnused
  \/ focus = "cache" /\ Cache!Init /\ PagesUnused /\ SocketsUnused
  \/ focus = "sockets" /\ Sockets!Init /\ PagesUnused /\ CacheUnused

MCNext ==
  \/ focus = "disk" /\ Next /\ UNCHANGED <<focus, sc, lp>>
  \/ focus = "tombs" /\ Tombs!Next /\ UNCHANGED <<focus, sc, lp>>
  \/ focus = "ram" /\ Ram!Next /\ UNCHANGED <<focus, sc, lp>>
  \/ focus = "cache" /\ Cache!Next /\ UNCHANGED <<focus, vars, lp>>
  \/ focus = "sockets" /\ Sockets!Next /\ UNCHANGED <<focus, vars, sc>>

MCSpec == MCInit /\ [][MCNext]_<<focus, vars, sc, lp>>

----------------------------------------------------------------------------
\* PageStore: a page that a finished purge covers is not served again, whatever
\* fill, crash, restart or boot scan overlaps the purge; TagIndex lists exactly the
\* entries that carry a tag, so that a purge by tag finds them all; and no container
\* file is left on disk that no entry, scan or unlink accounts for.
PagesExact ==
  /\ focus = "disk" => NoStaleAfterPurge /\ TagIndexMatches /\ NoStrandedFile
  /\ focus = "tombs" => /\ Tombs!NoStaleAfterPurge /\ Tombs!TagIndexMatches
                        /\ Tombs!NoStrandedFile
  /\ focus = "ram" => Ram!NoStaleAfterPurge /\ Ram!TagIndexMatches

\* ShardedCache: the shared byte counters are the weights of the resident nodes and
\* within the caps while shards reserve and free at the same time, both recency
\* lists thread exactly their nodes, every node that leaves goes through on_evict
\* once, and a sweep will find every node that can expire.
CacheExact ==
  focus = "cache" => /\ Cache!BytesExact /\ Cache!ListsThread
                     /\ Cache!HookOncePerNode /\ Cache!SweepWillFind

=============================================================================
