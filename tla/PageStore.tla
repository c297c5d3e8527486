------------------------------ MODULE PageStore ------------------------------
(***************************************************************************)
(* The page-cache store of hj-pagecache (store.rs, diskstore.rs): renders  *)
(* that snapshot a purge epoch, commit under `page_commit` and the key's   *)
(* shard lock, tag purges and purge-all, the pruning of purge stamps, and, *)
(* when HasDisk, the file tier: body files, the durable purge journal, the *)
(* warm boot scan that runs beside all of these, and restarts.             *)
(*                                                                         *)
(* Each key has a shard of its own, so every critical section that the     *)
(* code runs under one shard lock excludes exactly the others on its key.  *)
(* Time-to-live and byte budgets are abstracted: any resident entry may be *)
(* expired or evicted at any moment (Evict), any insert may be refused.    *)
(*                                                                         *)
(* `version` is the backend's content clock: it advances when the          *)
(* application changes content and purges it.  An entry remembers, as a    *)
(* ghost, the version its render read, which is what "stale" means.        *)
(***************************************************************************)
EXTENDS Naturals, FiniteSets

CONSTANTS
    Keys,        \* page cache keys (a key hash identifies its key)
    Tags,        \* purge tags
    Renders,     \* concurrent cache fills
    None,        \* the absent value
    HasDisk,     \* whether a file store is open
    TombCap,     \* MAX_PEER_TAG_PURGE_TOMBSTONES
    TombRetain,  \* PEER_TAG_PURGE_RETAIN_TOMBSTONES
    MaxInherited,\* bound: containers found on disk at the first boot
    MaxPurges,   \* bound: purges in a behaviour
    MaxClock,    \* bound: the wall clock
    MaxSeq,      \* bound: container files prepared by the modelled processes
    MaxCrashes,  \* bound: restarts
    MaxFaults    \* bound: failed writes of purge state

VARIABLES
    clock, crashes, faults,             \* wall_now_ms(), and the environment's budgets
    version, req, reqAll,               \* ghost: content clock; version each finished purge demands
    durable, durableAll,                \* ghost: what of that a restart must still honour
    purge_seq, purge_all_epoch, tag_purge_epoch, tag_epoch_prune_floor,
    index, tag_index,                   \* ShardedCache entries and TagIndex
    render,                             \* the cache fills in flight
    purger,                             \* the purge that holds page_commit, or None
    files, unlinking, next_seq,         \* the published containers; those queued for unlink
    purge_stamp, journal,               \* the durable purge-all stamp and tag-purge journal
    peer_floor, peer_wall, compact_due, \* their RAM image
    scan, loader,                       \* the boot scan, and the file it is installing
    job                                 \* the background recompression

ghostVars == <<version, req, reqAll, durable, durableAll>>
epochVars == <<purge_seq, purge_all_epoch, tag_purge_epoch, tag_epoch_prune_floor>>
diskVars  == <<files, unlinking, next_seq>>
wallVars  == <<purge_stamp, journal, peer_floor, peer_wall, compact_due>>
scanVars  == <<scan, loader>>
envVars   == <<clock, crashes, faults>>
vars == <<envVars, ghostVars, epochVars, index, tag_index, render, purger,
          diskVars, wallVars, scanVars, job>>

------------------------------------------------------------------------------
Entries == [tags : SUBSET Tags, ver : Nat, epoch : Nat, stored : Nat, seq : Nat, gen : {0, 1}]
Files   == [key : Keys, tags : SUBSET Tags, ver : Nat, stored : Nat, seq : Nat, gen : {0, 1}]
Fills   == [pc : {"idle", "snapshot", "guarded", "rendered", "handoff", "streamed", "prepared"},
            key : Keys \cup {None}, epoch : Nat, guards : 0..2, tags : SUBSET Tags,
            ver : Nat, stored : Nat, seq : Nat]
Loads   == [file : Files, step : {"read", "locked", "installed"}]
Jobs    == [key : Keys, entry : Entries, seq : Nat]
Purges  == [all : BOOLEAN, step : {"tags", "index", "stamp", "drain"}, epoch : Nat, wall : Nat, ver : Nat,
            tags : SUBSET Tags, todo : SUBSET Tags, tag : Tags \cup {None},
            ids : SUBSET Keys, sweeps : SUBSET Files]
Scans   == [buffer : BOOLEAN, tags : SUBSET Tags, purged_all : BOOLEAN, pending : SUBSET Files, stamp : Nat,
            base : Nat]
Journals == [floor : Nat, stamps : [Tags -> Nat], corrupt : BOOLEAN]

ASSUME PageStoreAssumption ==
    /\ HasDisk \in BOOLEAN
    /\ TombCap \in Nat /\ TombRetain \in 0..TombCap
    /\ None \notin Entries \cup Loads \cup Jobs \cup Purges
    /\ {MaxInherited, MaxPurges, MaxClock, MaxSeq, MaxCrashes, MaxFaults} \subseteq Nat

Larger(a, b) == IF a >= b THEN a ELSE b

\* The container that backs entry e of key k; e.seq = 0 when the body stayed in RAM.
FileOf(k, e) == [key |-> k, tags |-> e.tags, ver |-> e.ver, stored |-> e.stored,
                 seq |-> e.seq, gen |-> e.gen]
Backing(k, e) == IF e = None \/ e.seq = 0 THEN {} ELSE {FileOf(k, e)}

\* The key whose shard lock the boot scan holds between the steps of load_scanned.
Locked(k) == loader # None /\ loader.step # "read" /\ loader.file.key = k

\* A tag_index without the memberships of k (the teardown hook), and with them.
WithoutKey(ti, k) == [t \in Tags |-> ti[t] \ {k}]

WithKey(ti, k, T) == [t \in Tags |-> IF t \in T THEN ti[t] \cup {k} ELSE ti[t]]

\* An entry tagged T takes the place of k's: its tags are registered after the teardown of
\* the predecessor, which drops memberships by key.
Retag(ti, k, T) == WithKey(WithoutKey(ti, k), k, T)

\* StoreEvict::on_evict queues the container of the entry torn down.
QueueUnlink(k) == unlinking \cup Backing(k, index[k])

\* purged_after: the epoch veto of a store whose render began at `epoch`.
PurgedAfter(T, epoch) ==
    \/ purge_all_epoch > epoch
    \/ \E t \in T : tag_purge_epoch[t] > epoch

\* wall_purge_veto and tag_purged_since_wall: the wall-clock veto of a scanned file.
TagPurgedSinceWall(T, stored) ==
    \/ stored <= peer_floor
    \/ \E t \in T : peer_wall[t] # 0 /\ peer_wall[t] >= stored

\* A purge that reached the boot scan's buffer covers a file tagged T.
Buffered(T) == scan.buffer /\ (scan.purged_all \/ T \cap scan.tags # {})

\* The stamps newer than floor; 0 is "no stamp".
Newer(stamps, floor) == [t \in Tags |-> IF stamps[t] > floor THEN stamps[t] ELSE 0]
Stamped(stamps) == {t \in Tags : stamps[t] # 0}

\* bound_peer_tag_purge_stamps: of more than TombCap stamps all but TombRetain go, the
\* oldest first, and the floor rises to the youngest that goes (one value, as a set).
BoundFloor(stamps, floor) ==
    LET kept == Newer(stamps, floor)
        S    == Stamped(kept)
        drop == Cardinality(S) - TombRetain
        LastDropped(w) == /\ Cardinality({t \in S : kept[t] < w}) < drop
                          /\ Cardinality({t \in S : kept[t] <= w}) >= drop
    IN  IF Cardinality(S) <= TombCap THEN {floor}
        ELSE {w \in {kept[t] : t \in S} : LastDropped(w)}

Idle == [pc |-> "idle", key |-> None, epoch |-> 0, guards |-> 0, tags |-> {},
         ver |-> 0, stored |-> 0, seq |-> 0]
NoScan == [buffer |-> FALSE, tags |-> {}, purged_all |-> FALSE, pending |-> {}, stamp |-> 0, base |-> 1]

\* What an earlier process may have left on disk: containers under distinct names, two of
\* them of one key when it stopped between publishing a replacement and the unlink.
InheritedFiles ==
    {F \in SUBSET [key : Keys, tags : SUBSET Tags, ver : {0}, stored : {1}, seq : 1..MaxInherited, gen : {0}] :
        \A f, g \in F : f.seq = g.seq => f = g}

Init ==
    /\ clock = 1 /\ crashes = 0 /\ faults = 0
    /\ version = 0 /\ reqAll = 0 /\ durableAll = 0
    /\ req = [t \in Tags |-> 0] /\ durable = [t \in Tags |-> 0]
    /\ purge_seq = 0 /\ purge_all_epoch = 0 /\ tag_epoch_prune_floor = 0
    /\ tag_purge_epoch = [t \in Tags |-> 0]
    /\ index = [k \in Keys |-> None] /\ tag_index = [t \in Tags |-> {}]
    /\ render = [r \in Renders |-> Idle]
    /\ purger = None /\ loader = None /\ job = None
    /\ files \in IF HasDisk THEN InheritedFiles ELSE {{}}
    /\ unlinking = {} /\ next_seq = MaxInherited + 1
    /\ purge_stamp = 0 /\ journal = [floor |-> 0, stamps |-> [t \in Tags |-> 0], corrupt |-> FALSE]
    /\ peer_floor = 0 /\ peer_wall = [t \in Tags |-> 0] /\ compact_due = FALSE
    /\ scan = [NoScan EXCEPT !.buffer = HasDisk, !.pending = files, !.base = MaxInherited + 1]

------------------------------------------------------------------------------
(* Renders: dispatch() snapshots the purge epoch, takes a render guard, lets the  *)
(* backend render, and stores; a streamed miss hands the fill to a FillCommit     *)
(* that takes a guard of its own before dispatch() drops the first.               *)

Snapshot(r, k) ==
    /\ render[r].pc = "idle"
    /\ render' = [render EXCEPT ![r] = [Idle EXCEPT !.pc = "snapshot", !.key = k, !.epoch = purge_seq]]
    /\ UNCHANGED <<envVars, ghostVars, epochVars, index, tag_index, purger, diskVars, wallVars, scanVars, job>>

BeginRender(r) ==
    /\ render[r].pc = "snapshot"
    /\ render' = [render EXCEPT ![r].pc = "guarded", ![r].guards = 1]
    /\ UNCHANGED <<envVars, ghostVars, epochVars, index, tag_index, purger, diskVars, wallVars, scanVars, job>>

\* The backend reads its content and answers with the tags it belongs to.
BackendRender(r, T) ==
    /\ render[r].pc = "guarded"
    /\ render' = [render EXCEPT ![r].pc = "rendered", ![r].ver = version, ![r].tags = T]
    /\ UNCHANGED <<envVars, ghostVars, epochVars, index, tag_index, purger, diskVars, wallVars, scanVars, job>>

\* FillCommit { .., _render: store.begin_render(render_epoch) }, and then dispatch() returns.
StreamBegin(r) ==
    /\ render[r].pc = "rendered"
    /\ render' = [render EXCEPT ![r].pc = "handoff", ![r].guards = @ + 1]
    /\ UNCHANGED <<envVars, ghostVars, epochVars, index, tag_index, purger, diskVars, wallVars, scanVars, job>>

DispatchReturns(r) ==
    /\ render[r].pc = "handoff"
    /\ render' = [render EXCEPT ![r].pc = "streamed", ![r].guards = @ - 1]
    /\ UNCHANGED <<envVars, ghostVars, epochVars, index, tag_index, purger, diskVars, wallVars, scanVars, job>>

\* prepare_entry writes a private temp container under a fresh sequence number;
\* when that fails, or without a disk, the body stays in RAM (seq 0).
Prepare(r, onDisk) ==
    /\ render[r].pc \in {"rendered", "streamed"}
    /\ onDisk => HasDisk /\ next_seq <= MaxInherited + MaxSeq
    /\ render' = [render EXCEPT ![r].pc = "prepared", ![r].stored = clock,
                                ![r].seq = IF onDisk THEN next_seq ELSE 0]
    /\ next_seq' = IF onDisk THEN next_seq + 1 ELSE next_seq
    /\ UNCHANGED <<envVars, ghostVars, epochVars, index, tag_index, purger, files, unlinking, wallVars, scanVars, job>>

EntryOf(r) == [tags |-> render[r].tags, ver |-> render[r].ver, epoch |-> render[r].epoch,
               stored |-> render[r].stored, seq |-> render[r].seq, gen |-> 0]

\* The commit of store_if_not_purged_since_hashed, under page_commit and the shard
\* lock.  A vetoed store, or one whose publish failed, leaves no file.
StoreVetoed(r) == PurgedAfter(render[r].tags, render[r].epoch)

StoreRejected(r) ==
    /\ render[r].pc = "prepared"
    /\ purger = None /\ ~ Locked(render[r].key)
    /\ StoreVetoed(r)
    /\ render' = [render EXCEPT ![r] = Idle]
    /\ UNCHANGED <<envVars, ghostVars, epochVars, index, tag_index, purger, diskVars, wallVars, scanVars, job>>

\* The installed entry replaces its predecessor: the predecessor's file is queued for
\* unlink and its memberships dropped before the new ones are registered.
StoreInstalled(r) ==
    LET k == render[r].key
        e == EntryOf(r)
    IN  /\ render[r].pc = "prepared"
        /\ purger = None /\ ~ Locked(k)
        /\ ~ StoreVetoed(r)
        /\ index' = [index EXCEPT ![k] = e]
        /\ tag_index' = Retag(tag_index, k, e.tags)
        /\ files' = files \cup Backing(k, e)
        /\ unlinking' = QueueUnlink(k)
        /\ render' = [render EXCEPT ![r] = Idle]
        /\ UNCHANGED <<envVars, ghostVars, epochVars, purger, next_seq, wallVars, scanVars, job>>

\* The byte budget refused the entry (insert_replacing) after its file was published, or
\* publishing failed: the predecessor stays, with its tags, and the new file is removed.
StoreRefused(r) ==
    LET k   == render[r].key
        new == Backing(k, EntryOf(r))
    IN  /\ render[r].pc = "prepared"
        /\ purger = None /\ ~ Locked(k)
        /\ ~ StoreVetoed(r)
        /\ files' = files \cup new
        /\ unlinking' = unlinking \cup new
        /\ render' = [render EXCEPT ![r] = Idle]
        /\ UNCHANGED <<envVars, ghostVars, epochVars, index, tag_index, purger, next_seq, wallVars, scanVars, job>>

\* The backend failed, the client left a streamed body, or the response is not storable.
Abandon(r) ==
    /\ render[r].pc \notin {"idle", "snapshot"}
    /\ render' = [render EXCEPT ![r] = Idle]
    /\ UNCHANGED <<envVars, ghostVars, epochVars, index, tag_index, purger, diskVars, wallVars, scanVars, job>>

------------------------------------------------------------------------------
(* Removal outside purges: expiry, eviction, invalidate_key, a dropped URL-vary   *)
(* variant.  The teardown hook drops the tag memberships and queues the file,     *)
(* which is unlinked once the shard lock is released.                             *)

Evict(k) ==
    /\ index[k] # None /\ ~ Locked(k)
    /\ index' = [index EXCEPT ![k] = None]
    /\ tag_index' = WithoutKey(tag_index, k)
    /\ unlinking' = QueueUnlink(k)
    /\ UNCHANGED <<envVars, ghostVars, epochVars, render, purger, files, next_seq, wallVars, scanVars, job>>

Unlink(f) ==
    /\ f \in unlinking
    /\ files' = files \ {f} /\ unlinking' = unlinking \ {f}
    /\ UNCHANGED <<envVars, ghostVars, epochVars, index, tag_index, render, purger, next_seq, wallVars, scanVars, job>>

\* fill_recompress_disk: the pre-check and the temp container off the lock ...
RecompressPrepare(k) ==
    /\ job = None /\ next_seq <= MaxInherited + MaxSeq
    /\ index[k] # None /\ index[k].seq # 0 /\ index[k].gen = 0 /\ ~ Locked(k)
    /\ job' = [key |-> k, entry |-> index[k], seq |-> next_seq]
    /\ next_seq' = next_seq + 1
    /\ UNCHANGED <<envVars, ghostVars, epochVars, index, tag_index, render, purger, files, unlinking, wallVars, scanVars>>

\* ... and the swap, under page_commit and the shard lock, of the version it started from
\* (the same store time, still uncompressed).  The predecessor's file is removed; when the
\* budget refuses the swapped entry, the entry goes with both files.
SameVersion(e, was) ==
    /\ e # None /\ e.seq # 0 /\ e.gen = 0
    /\ e.stored = was.stored /\ e.ver = was.ver /\ e.tags = was.tags

RecompressCommit(kept) ==
    LET k   == job.key
        e   == [index[k] EXCEPT !.ver = job.entry.ver, !.seq = job.seq, !.gen = 1]
        new == {FileOf(k, [job.entry EXCEPT !.seq = job.seq, !.gen = 1])}
    IN  /\ job # None /\ purger = None /\ ~ Locked(k)
        /\ SameVersion(index[k], job.entry)
        /\ index' = [index EXCEPT ![k] = IF kept THEN e ELSE None]
        /\ tag_index' = IF kept THEN tag_index ELSE WithoutKey(tag_index, k)
        /\ files' = files \cup new
        /\ unlinking' = QueueUnlink(k) \cup (IF kept THEN {} ELSE new)
        /\ job' = None
        /\ UNCHANGED <<envVars, ghostVars, epochVars, render, purger, next_seq, wallVars, scanVars>>

RecompressBail ==
    /\ job # None /\ purger = None /\ ~ Locked(job.key)
    /\ ~ SameVersion(index[job.key], job.entry)
    /\ job' = None
    /\ UNCHANGED <<envVars, ghostVars, epochVars, index, tag_index, render, purger, diskVars, wallVars, scanVars>>

------------------------------------------------------------------------------
(* purge_tags holds page_commit throughout: it advances the epoch and marks the   *)
(* boot-scan buffer, then stamps, journals and tears down one tag after another,  *)
(* then compacts the journal if due and sweeps older versions of what it removed. *)

PurgeTags(T) ==
    /\ purger = None /\ version < MaxPurges
    /\ T # {}
    /\ version' = version + 1
    /\ purge_seq' = purge_seq + 1
    /\ scan' = IF scan.buffer THEN [scan EXCEPT !.tags = @ \cup T] ELSE scan
    /\ purger' = [all |-> FALSE, step |-> "tags", epoch |-> purge_seq + 1, wall |-> clock,
                  ver |-> version + 1, tags |-> T, todo |-> T, tag |-> None, ids |-> {}, sweeps |-> {}]
    /\ UNCHANGED <<envVars, req, reqAll, durable, durableAll, purge_all_epoch, tag_purge_epoch,
                   tag_epoch_prune_floor, index, tag_index, render, diskVars, wallVars, loader, job>>

\* append_tag_purge_stamp succeeds; behind a torn record the new one may be unreadable.
AppendStamp(t) ==
    \/ journal' = [journal EXCEPT !.stamps[t] = Larger(@, purger.wall)]
    \/ journal.corrupt /\ UNCHANGED journal

\* One tag: stamp its epoch and wall time, append to the journal (a failed append makes a
\* rewrite due, and may leave a torn record that swallows the next one), take its set out of the index.
PurgeTag(t, ok) ==
    /\ purger # None /\ purger.step = "tags" /\ purger.ids = {}
    /\ t \in purger.todo
    /\ tag_purge_epoch' = [tag_purge_epoch EXCEPT ![t] = purger.epoch]
    /\ tag_index' = [tag_index EXCEPT ![t] = {}]
    /\ purger' = [purger EXCEPT !.todo = @ \ {t}, !.tag = t, !.ids = tag_index[t]]
    /\ \/ /\ HasDisk
          /\ peer_wall' = [peer_wall EXCEPT ![t] = Larger(@, purger.wall)]
          /\ \/ /\ ok
                /\ AppendStamp(t)
                /\ durable' = [durable EXCEPT ![t] = purger.ver]
                /\ UNCHANGED <<compact_due, faults>>
             \/ /\ ~ ok /\ faults < MaxFaults
                /\ journal' \in {journal, [journal EXCEPT !.corrupt = TRUE]}
                /\ compact_due' = TRUE
                /\ faults' = faults + 1
                /\ UNCHANGED durable
       \/ /\ ~ HasDisk /\ ok
          /\ UNCHANGED <<peer_wall, journal, durable, compact_due, faults>>
    /\ UNCHANGED <<clock, crashes, version, req, reqAll, durableAll, purge_seq, purge_all_epoch,
                   tag_epoch_prune_floor, index, render, diskVars, purge_stamp, peer_floor, scanVars, job>>

\* purge_tagged_id_locked on one member: an entry that no longer carries the tag is left
\* alone, one rendered after the purge began keeps its membership, any other is torn down.
PurgeMember(k) ==
    LET t    == purger.tag
        e    == index[k]
        hit  == e # None /\ t \in e.tags
        gone == hit /\ e.epoch < purger.epoch
    IN  /\ purger # None /\ purger.step = "tags" /\ k \in purger.ids
        /\ ~ Locked(k)
        /\ index' = IF gone THEN [index EXCEPT ![k] = None] ELSE index
        /\ tag_index' = IF gone THEN WithoutKey(tag_index, k)
                        ELSE IF hit THEN WithKey(tag_index, k, {t}) ELSE tag_index
        /\ unlinking' = IF gone THEN QueueUnlink(k) ELSE unlinking
        /\ purger' = [purger EXCEPT !.ids = @ \ {k},
                                    !.sweeps = IF gone THEN @ \cup Backing(k, e) ELSE @]
        /\ UNCHANGED <<envVars, ghostVars, epochVars, render, files, next_seq, wallVars, scanVars, job>>

\* persist_peer_tag_purge_state_locked: an atomic rewrite of the journal from RAM.
Persist(floor, stamps, ok) ==
    \/ /\ ok
       /\ journal' = [floor |-> floor, stamps |-> stamps, corrupt |-> FALSE]
       /\ compact_due' = FALSE
       /\ UNCHANGED faults
    \/ /\ ~ ok /\ faults < MaxFaults
       /\ faults' = faults + 1
       /\ compact_due' = TRUE
       /\ UNCHANGED journal

\* compact_peer_tag_purge_state_locked when there are too many stamps, else a plain
\* rewrite when one is due, else nothing.
OverCap == HasDisk /\ Cardinality(Stamped(peer_wall)) > TombCap

CompactOrPersist(due, ok) ==
    \/ /\ OverCap
       /\ \E floor \in BoundFloor(peer_wall, peer_floor) :
             /\ peer_floor' = floor
             /\ peer_wall' = Newer(peer_wall, floor)
             /\ Persist(floor, Newer(peer_wall, floor), ok)
    \/ /\ ~ OverCap /\ due
       /\ UNCHANGED <<peer_floor, peer_wall>>
       /\ Persist(peer_floor, peer_wall, ok)
    \/ /\ ~ OverCap /\ ~ due
       /\ ok /\ UNCHANGED <<peer_floor, peer_wall, journal, compact_due, faults>>

\* remove_key_versions_through_except: the older versions of what the purge removed,
\* but for the version the live entry of that key resolves to.
Swept == {f \in files : \E g \in purger.sweeps :
              /\ f.key = g.key /\ f.seq <= g.seq
              /\ index[f.key] = None \/ index[f.key].seq # f.seq}

\* The journal is also rewritten when it has grown long, which the length of a journal
\* that is not modelled decides: due is then free.
PurgeTagsDone(due, ok) ==
    /\ purger # None /\ purger.step = "tags" /\ purger.ids = {} /\ purger.todo = {}
    /\ purger.sweeps \cap unlinking = {}
    /\ \A g \in purger.sweeps : ~ Locked(g.key)
    /\ compact_due => due
    /\ due => HasDisk
    /\ CompactOrPersist(due, ok)
    /\ req' = [t \in Tags |-> IF t \in purger.tags THEN purger.ver ELSE req[t]]
    /\ files' = files \ Swept
    /\ unlinking' = unlinking \ Swept
    /\ purger' = None
    /\ UNCHANGED <<clock, crashes, version, reqAll, durable, durableAll, epochVars, index, tag_index,
                   render, next_seq, purge_stamp, scanVars, job>>

------------------------------------------------------------------------------
(* purge_all, in the order of the code: clocks and floors, the tag index, the     *)
(* boot-scan buffer, the durable stamp and journal, then the entries by shard.    *)

PurgeAll ==
    /\ purger = None /\ version < MaxPurges
    /\ version' = version + 1
    /\ purge_seq' = purge_seq + 1
    /\ purge_all_epoch' = purge_seq + 1
    /\ tag_purge_epoch' = [t \in Tags |-> 0]
    /\ peer_floor' = IF HasDisk THEN Larger(peer_floor, clock) ELSE peer_floor
    /\ peer_wall' = [t \in Tags |-> 0]
    /\ purger' = [all |-> TRUE, step |-> "index", epoch |-> purge_seq + 1, wall |-> clock,
                  ver |-> version + 1, tags |-> Tags, todo |-> {}, tag |-> None, ids |-> {}, sweeps |-> {}]
    /\ UNCHANGED <<envVars, req, reqAll, durable, durableAll, tag_epoch_prune_floor, index, tag_index,
                   render, diskVars, purge_stamp, journal, compact_due, scanVars, job>>

PurgeAllIndex ==
    /\ purger # None /\ purger.step = "index"
    /\ tag_index' = [t \in Tags |-> {}]
    /\ scan' = IF scan.buffer THEN [scan EXCEPT !.purged_all = TRUE] ELSE scan
    /\ purger' = [purger EXCEPT !.step = "stamp"]
    /\ UNCHANGED <<envVars, ghostVars, epochVars, index, render, diskVars, wallVars, loader, job>>

\* write_purge_stamp, then write_tag_purge_state with no tag stamps; either may fail.
PurgeAllStamp(okStamp, okState) ==
    /\ purger # None /\ purger.step = "stamp"
    /\ purge_stamp' = IF HasDisk /\ okStamp THEN purger.wall ELSE purge_stamp
    /\ durableAll' = IF HasDisk /\ (okStamp \/ okState) THEN purger.ver ELSE durableAll
    /\ okStamp \/ faults < MaxFaults
    /\ \/ HasDisk /\ Persist(peer_floor, peer_wall, okState)
       \/ ~ HasDisk /\ okStamp /\ okState /\ UNCHANGED <<journal, compact_due, faults>>
    /\ purger' = [purger EXCEPT !.step = "drain", !.ids = Keys]
    /\ UNCHANGED <<clock, crashes, version, req, reqAll, durable, epochVars, index, tag_index, render,
                   diskVars, peer_floor, peer_wall, scanVars, job>>

\* purge_if, one shard at a time.
PurgeAllShard(k) ==
    /\ purger # None /\ purger.step = "drain" /\ k \in purger.ids
    /\ ~ Locked(k)
    /\ index' = [index EXCEPT ![k] = None]
    /\ tag_index' = WithoutKey(tag_index, k)
    /\ unlinking' = QueueUnlink(k)
    /\ purger' = [purger EXCEPT !.ids = @ \ {k}, !.sweeps = @ \cup Backing(k, index[k])]
    /\ UNCHANGED <<envVars, ghostVars, epochVars, render, files, next_seq, wallVars, scanVars, job>>

PurgeAllDone ==
    /\ purger # None /\ purger.step = "drain" /\ purger.ids = {}
    /\ purger.sweeps \cap unlinking = {}
    /\ reqAll' = purger.ver
    /\ purger' = None
    /\ UNCHANGED <<envVars, version, req, durable, durableAll, epochVars, index, tag_index, render,
                   diskVars, wallVars, scanVars, job>>

\* prune_tag_purge_epoch: forget the stamps that were already old at the previous
\* maintenance tick, unless a render in flight began before them.
\* Mutant: renders in flight are not consulted
StillNeeded_FloorOnly(t) == tag_purge_epoch[t] > tag_epoch_prune_floor

StillNeeded(t) ==
    \/ tag_purge_epoch[t] > tag_epoch_prune_floor
    \/ \E r \in Renders : render[r].guards > 0 /\ tag_purge_epoch[t] > render[r].epoch

Prune(ok) ==
    /\ purger = None
    /\ tag_purge_epoch' = [t \in Tags |-> IF tag_epoch_prune_floor = 0 \/ StillNeeded(t)
                                          THEN tag_purge_epoch[t] ELSE 0]
    /\ tag_epoch_prune_floor' = purge_seq
    /\ CompactOrPersist(FALSE, ok)
    /\ UNCHANGED <<clock, crashes, ghostVars, purge_seq, purge_all_epoch, index, tag_index, render, purger,
                   diskVars, purge_stamp, scanVars, job>>

------------------------------------------------------------------------------
(* The warm boot scan (load_from_disk, load_scanned) runs beside stores and       *)
(* purges.  It reads a container, takes the key's shard lock, installs the entry  *)
(* and registers its tags, and looks at the purges again before it lets go.       *)

ScanVetoed(f) ==
    \/ f.stored <= scan.stamp
    \/ Buffered(f.tags)
    \/ TagPurgedSinceWall(f.tags, f.stored)

\* The resident entry wins over a scanned file that is not newer.
AtLeastAsNew(e, f) ==
    /\ e # None
    /\ \/ e.stored > f.stored
       \/ e.stored = f.stored /\ (e.seq = 0 \/ e.seq >= f.seq)

\* Mutant: the scan takes the containers this process published for inherited ones
ScanRead_LiveFiles(f) ==
    /\ scan.buffer /\ loader = None /\ f \in files
    /\ loader' = [file |-> f, step |-> "read"]
    /\ scan' = [scan EXCEPT !.pending = @ \ {f}]
    /\ UNCHANGED <<envVars, ghostVars, epochVars, index, tag_index, render, purger, diskVars, wallVars, job>>

ScanRead(f) ==
    /\ loader = None /\ f \in scan.pending \cap files
    /\ loader' = [file |-> f, step |-> "read"]
    /\ scan' = [scan EXCEPT !.pending = @ \ {f}]
    /\ UNCHANGED <<envVars, ghostVars, epochVars, index, tag_index, render, purger, diskVars, wallVars, job>>

\* A vetoed, superseded, expired or refused file is unlinked.
LoadReject ==
    /\ loader # None /\ loader.step # "installed"
    /\ loader' = None
    /\ files' = files \ {loader.file}
    /\ UNCHANGED <<envVars, ghostVars, epochVars, index, tag_index, render, purger, unlinking, next_seq,
                   wallVars, scan, job>>

LoadAccept ==
    /\ loader # None /\ loader.step = "read"
    /\ ~ ScanVetoed(loader.file)
    /\ ~ AtLeastAsNew(index[loader.file.key], loader.file)
    /\ loader' = [loader EXCEPT !.step = "locked"]
    /\ UNCHANGED <<envVars, ghostVars, epochVars, index, tag_index, render, purger, diskVars, wallVars, scan, job>>

LoadInstall ==
    LET f == loader.file
        k == f.key
    IN  /\ loader # None /\ loader.step = "locked"
        /\ index' = [index EXCEPT ![k] = [tags |-> f.tags, ver |-> f.ver, epoch |-> 0,
                                          stored |-> f.stored, seq |-> f.seq, gen |-> f.gen]]
        /\ tag_index' = Retag(tag_index, k, f.tags)
        /\ unlinking' = QueueUnlink(k)
        /\ loader' = [loader EXCEPT !.step = "installed"]
        /\ UNCHANGED <<envVars, ghostVars, epochVars, render, purger, files, next_seq, wallVars, scan, job>>

\* Mutant: the scan trusts its first look at the purges.
LateVeto_None(f) == FALSE

\* The last look: a purge that came meanwhile tears the entry down again.
LateVeto(f) == Buffered(f.tags) \/ TagPurgedSinceWall(f.tags, f.stored)

\* Mutant: the scan asks for page_commit while it holds the shard lock
LoadFinal_NeedsPageCommit ==
    LET k == loader.file.key
    IN  /\ loader # None /\ loader.step = "installed" /\ purger = None
        /\ \/ /\ LateVeto(loader.file)
              /\ index' = [index EXCEPT ![k] = None]
              /\ tag_index' = WithoutKey(tag_index, k)
              /\ unlinking' = QueueUnlink(k)
           \/ /\ ~ LateVeto(loader.file)
              /\ UNCHANGED <<index, tag_index, unlinking>>
        /\ loader' = None
        /\ UNCHANGED <<envVars, ghostVars, epochVars, render, purger, files, next_seq, wallVars, scan, job>>

LoadFinal ==
    LET k == loader.file.key
    IN  /\ loader # None /\ loader.step = "installed"
        /\ \/ /\ LateVeto(loader.file)
              /\ index' = [index EXCEPT ![k] = None]
              /\ tag_index' = WithoutKey(tag_index, k)
              /\ unlinking' = QueueUnlink(k)
           \/ /\ ~ LateVeto(loader.file)
              /\ UNCHANGED <<index, tag_index, unlinking>>
        /\ loader' = None
        /\ UNCHANGED <<envVars, ghostVars, epochVars, render, purger, files, next_seq, wallVars, scan, job>>

\* finish_boot_scan, and the purge buffer is dropped.
ScanDone ==
    /\ scan.buffer /\ loader = None /\ scan.pending \cap files = {}
    /\ scan' = [NoScan EXCEPT !.base = scan.base]
    /\ UNCHANGED <<envVars, ghostVars, epochVars, index, tag_index, render, purger, diskVars, wallVars, loader, job>>

------------------------------------------------------------------------------
(* The process stops and PageStore::new comes up on what the disk holds.  A stop  *)
(* in the middle of an append leaves a torn record; recovery answers a torn or    *)
(* truncated journal with a floor at the present.                                 *)

Recovered(torn) == \* read_tag_purge_state
    IF journal.corrupt \/ torn THEN Larger(journal.floor, clock) ELSE journal.floor

\* The tag-purge state PageStore::new comes up with, rewritten when it was corrupt or bounded.
RecoverPurgeState(torn, ok) ==
    LET read    == Recovered(torn)
        corrupt == journal.corrupt \/ torn
    IN  \E floor \in BoundFloor(journal.stamps, Larger(read, purge_stamp)) :
            LET kept    == Newer(journal.stamps, floor)
                rewrite == corrupt \/ floor > read
            IN  /\ peer_floor' = floor /\ peer_wall' = kept
                /\ \/ /\ rewrite /\ ok
                      /\ journal' = [floor |-> floor, stamps |-> kept, corrupt |-> FALSE]
                      /\ compact_due' = FALSE /\ UNCHANGED faults
                   \/ /\ rewrite /\ ~ ok /\ faults < MaxFaults
                      /\ journal' = [journal EXCEPT !.corrupt = corrupt]
                      /\ compact_due' = TRUE /\ faults' = faults + 1
                   \/ /\ ~ rewrite /\ ok
                      /\ compact_due' = FALSE /\ UNCHANGED <<journal, faults>>

\* An append is under way while a tag purge has tags left to stamp.
Appending == purger # None /\ purger.step = "tags" /\ purger.ids = {} /\ purger.todo # {}

Restart(torn, ok) ==
    /\ HasDisk /\ crashes < MaxCrashes
    /\ torn => Appending
    /\ crashes' = crashes + 1
    /\ RecoverPurgeState(torn, ok)
    /\ req' = durable /\ reqAll' = durableAll
    /\ purge_seq' = 0 /\ purge_all_epoch' = 0 /\ tag_epoch_prune_floor' = 0
    /\ tag_purge_epoch' = [t \in Tags |-> 0]
    /\ index' = [k \in Keys |-> None] /\ tag_index' = [t \in Tags |-> {}]
    /\ render' = [r \in Renders |-> Idle]
    /\ purger' = None /\ loader' = None /\ job' = None /\ unlinking' = {}
    /\ scan' = [NoScan EXCEPT !.buffer = TRUE, !.pending = files, !.stamp = purge_stamp, !.base = next_seq]
    /\ UNCHANGED <<clock, version, durable, durableAll, files, next_seq, purge_stamp>>

Tick ==
    /\ clock < MaxClock
    /\ clock' = clock + 1
    /\ UNCHANGED <<crashes, faults, ghostVars, epochVars, index, tag_index, render, purger, diskVars,
                   wallVars, scanVars, job>>

------------------------------------------------------------------------------
RenderStep(r) ==
    \/ \E k \in Keys : Snapshot(r, k)
    \/ BeginRender(r)
    \/ \E T \in SUBSET Tags : BackendRender(r, T)
    \/ StreamBegin(r)
    \/ DispatchReturns(r)
    \/ \E onDisk \in BOOLEAN : Prepare(r, onDisk)
    \/ StoreRejected(r)
    \/ StoreInstalled(r)
    \/ StoreRefused(r)
    \/ Abandon(r)

PurgeStep ==
    \/ \E t \in Tags, ok \in BOOLEAN : PurgeTag(t, ok)
    \/ \E k \in Keys : PurgeMember(k)
    \/ \E due, ok \in BOOLEAN : PurgeTagsDone(due, ok)
    \/ PurgeAllIndex
    \/ \E okStamp, okState \in BOOLEAN : PurgeAllStamp(okStamp, okState)
    \/ \E k \in Keys : PurgeAllShard(k)
    \/ PurgeAllDone

ScanStep ==
    \/ \E f \in files : ScanRead(f)
    \/ LoadReject
    \/ LoadAccept
    \/ LoadInstall
    \/ LoadFinal
    \/ ScanDone

Next ==
    \/ \E r \in Renders : RenderStep(r)
    \/ \E T \in SUBSET Tags : PurgeTags(T)
    \/ PurgeAll
    \/ PurgeStep
    \/ ScanStep
    \/ \E k \in Keys : Evict(k)
    \/ \E f \in unlinking : Unlink(f)
    \/ \E k \in Keys : RecompressPrepare(k)
    \/ \E kept \in BOOLEAN : RecompressCommit(kept)
    \/ RecompressBail
    \/ \E ok \in BOOLEAN : Prune(ok)
    \/ \E torn, ok \in BOOLEAN : Restart(torn, ok)
    \/ Tick

Spec == Init /\ [][Next]_vars

\* Every thread that holds a lock goes on: purges, deferred unlinks, the boot scan.
Fairness == WF_vars(PurgeStep) /\ WF_vars(ScanStep) /\ WF_vars(\E f \in unlinking : Unlink(f))

LiveSpec == Spec /\ Fairness

------------------------------------------------------------------------------
\* The store's state is well formed.
TypeOK ==
    /\ clock \in Nat /\ crashes \in Nat /\ faults \in Nat
    /\ version \in Nat /\ reqAll \in Nat /\ durableAll \in Nat
    /\ req \in [Tags -> Nat] /\ durable \in [Tags -> Nat]
    /\ purge_seq \in Nat /\ purge_all_epoch \in Nat /\ tag_epoch_prune_floor \in Nat
    /\ tag_purge_epoch \in [Tags -> Nat]
    /\ next_seq \in Nat /\ purge_stamp \in Nat /\ peer_floor \in Nat /\ peer_wall \in [Tags -> Nat]
    /\ index \in [Keys -> Entries \cup {None}]
    /\ tag_index \in [Tags -> SUBSET Keys]
    /\ render \in [Renders -> Fills]
    /\ files \subseteq Files /\ unlinking \subseteq Files
    /\ journal \in Journals
    /\ compact_due \in BOOLEAN
    /\ scan \in Scans /\ loader \in Loads \cup {None}
    /\ job \in Jobs \cup {None} /\ purger \in Purges \cup {None}

\* A lookup of k, which takes the shard lock, would find this entry.
Visible(k) == index[k] # None /\ ~ Locked(k)

\* No lookup ever finds content that a purge has already removed: once purge_tags has
\* returned, no visible entry carrying one of its tags was rendered from content older
\* than that purge, and once purge_all has returned no older entry is visible at all,
\* whatever stores, prunings, scans and restarts run beside it or later.
NoStaleAfterPurge ==
    \A k \in Keys : Visible(k) =>
        /\ index[k].ver >= reqAll
        /\ \A t \in index[k].tags : index[k].ver >= req[t]

\* The tag index matches the entries, so that a purge finds all it must remove and
\* evictions leave no membership behind: a visible entry is in the index set of each of
\* its tags, except for the members the purge in progress has taken out and is about to
\* visit, and the index holds no key that is not resident with that tag.
TagIndexMatches ==
    \A k \in Keys, t \in Tags :
        /\ Visible(k) /\ t \in index[k].tags =>
              \/ k \in tag_index[t]
              \/ purger # None /\ (purger.all \/ (purger.tag = t /\ k \in purger.ids))
        /\ k \in tag_index[t] => index[k] # None /\ t \in index[k].tags

\* An entry stored by this process keeps its body file: nothing unlinks the container a
\* visible entry resolves to, not the sweep of older versions, not the boot scan.
BodyPresent ==
    \A k \in Keys : Visible(k) /\ index[k].seq >= scan.base =>
        Backing(k, index[k]) \subseteq files \ unlinking

\* What the store's module comment says of every live entry, those of the boot scan
\* included: an entry without its body file cannot exist.
NoFilelessEntry ==
    \A k \in Keys : Visible(k) => Backing(k, index[k]) \subseteq files

\* Every purge returns: it waits for shard locks under page_commit, and whoever holds a
\* shard lock never waits for page_commit.
PurgeReturns == purger # None ~> purger = None

\* No container is stranded outside the byte budgets: each is the body of a resident
\* entry, is queued for unlink, or is still to be visited by the boot scan.
NoStrandedFile ==
    \A f \in files :
        \/ f \in unlinking \cup scan.pending
        \/ loader # None /\ loader.file = f
        \/ f \in Backing(f.key, index[f.key])

=============================================================================
