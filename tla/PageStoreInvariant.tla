------------------------- MODULE PageStoreInvariant -------------------------
(***************************************************************************)
(* The inductive invariant of PageStore, for any sets of keys, tags and     *)
(* fills and any bounds; and that the steps of fills, of removals outside   *)
(* purges and of the recompression keep it.  PageStoreProof has the rest.   *)
(***************************************************************************)
EXTENDS PageStore, TLAPS

\* Leaves are set and function reasoning; one that needs more says SMTT.
USE ZenonT(30)

\* Content of version ver tagged T is what every finished purge demands; and, of a
\* container, what the purges that reached the disk demand.
Meets(T, ver) == reqAll <= ver /\ \A t \in T : req[t] <= ver
Honours(f) == durableAll <= f.ver /\ \A t \in f.tags : durable[t] <= f.ver

\* A container that a restart will refuse, and one that the store in RAM refuses.
RefusedOnDisk(f) ==
    \/ journal.corrupt
    \/ f.stored <= journal.floor
    \/ f.stored <= purge_stamp
    \/ \E t \in f.tags : journal.stamps[t] >= f.stored
RefusedInRam(f) == f.stored <= purge_stamp \/ TagPurgedSinceWall(f.tags, f.stored)

\* The boot scan has installed an entry of k and has not yet looked at the purges again.
Installing(k) == loader # None /\ loader.step = "installed" /\ loader.file.key = k
Loaded(f) == [tags |-> f.tags, ver |-> f.ver, epoch |-> 0, stored |-> f.stored, seq |-> f.seq, gen |-> f.gen]

\* Clocks bound what was read from them.
Bounds ==
    /\ purge_seq <= version /\ reqAll <= version /\ durableAll <= version
    /\ purge_all_epoch <= purge_seq
    /\ \A t \in Tags : /\ req[t] <= version /\ durable[t] <= version
                       /\ tag_purge_epoch[t] <= purge_seq
    /\ 1 <= clock /\ purge_stamp <= clock
    /\ ~ HasDisk => durableAll = 0 /\ \A t \in Tags : durable[t] = 0

\* The purge in progress is the newest event of every clock, and what it has done so far.
PurgeOK ==
    purger # None =>
        /\ purger.epoch = purge_seq /\ purger.ver = version /\ 1 <= purge_seq
        /\ purger.wall <= clock /\ purge_stamp <= purger.wall
        /\ \A f \in files : f.stored <= purger.wall

TagPurgeOK ==
    purger # None /\ ~ purger.all =>
        /\ purger.step = "tags"
        /\ purger.todo \subseteq purger.tags
        /\ \A t \in purger.tags \ purger.todo : tag_purge_epoch[t] = purge_seq
        /\ scan.buffer => purger.tags \subseteq scan.tags

AllPurgeOK ==
    purger # None /\ purger.all =>
        /\ purger.step \in {"index", "stamp", "drain"}
        /\ purge_all_epoch = purge_seq
        /\ HasDisk => purger.wall <= peer_floor
        /\ purger.step # "index" /\ scan.buffer => scan.purged_all

\* What the disk remembers of purges is what finished purges demand, but for the purge in progress.
DurableOK ==
    /\ durableAll <= reqAll \/ (purger # None /\ purger.all)
    /\ \A t \in Tags : durable[t] <= req[t] \/ (purger # None /\ ~ purger.all /\ t \in purger.tags)

\* A fill holds its guards, read content no older than its epoch, and is fresh or will be vetoed.
FillOK(x) ==
    /\ x.epoch <= purge_seq
    /\ x.pc # "idle" => x.key \in Keys
    /\ x.pc \notin {"idle", "snapshot"} => 1 <= x.guards
    /\ x.pc \in {"guarded", "rendered", "streamed"} => x.guards = 1
    /\ x.pc = "handoff" => x.guards = 2
    /\ x.pc \in {"rendered", "handoff", "streamed", "prepared"} =>
          /\ version + x.epoch <= x.ver + purge_seq
          /\ Meets(x.tags, x.ver) \/ PurgedAfter(x.tags, x.epoch)
    /\ x.pc = "prepared" => x.stored \in 1..clock

FillsOK == \A r \in Renders : FillOK(render[r])

\* An entry that a lookup may find is fresh, and the purge in progress will still reach it.
Awaits(k) ==
    purger # None =>
        /\ ~ purger.all =>
              \A t \in index[k].tags \cap purger.tags :
                  \/ version <= index[k].ver
                  \/ t \in purger.todo
                  \/ t = purger.tag /\ k \in purger.ids
        /\ purger.all /\ purger.step = "drain" => k \in purger.ids

EntryOK(k) ==
    index[k] # None =>
        /\ index[k].epoch <= purge_seq
        /\ index[k].epoch = 0 \/ version + index[k].epoch <= index[k].ver + purge_seq
        /\ index[k].stored \in 1..clock
        /\ ~ Installing(k) => Meets(index[k].tags, index[k].ver) /\ Awaits(k)

EntriesOK == \A k \in Keys : EntryOK(k)

\* The tag index matches the entries, but for what the purge has taken out of it.
TakenOut(k, t) ==
    /\ purger # None
    /\ \/ ~ purger.all /\ purger.tag = t /\ k \in purger.ids
       \/ purger.all /\ purger.step = "stamp"
       \/ purger.all /\ purger.step = "drain" /\ k \in purger.ids

TagOK(k, t) ==
    /\ index[k] # None /\ t \in index[k].tags => k \in tag_index[t] \/ TakenOut(k, t)
    /\ k \in tag_index[t] => index[k] # None /\ t \in index[k].tags

TagsOK == \A k \in Keys, t \in Tags : TagOK(k, t)

\* A file the boot scan has yet to decide on is fresh, or the scan will refuse it.
ScannedOK(f) ==
    /\ f.stored \in 1..clock
    /\ 1 <= f.seq /\ f.seq < scan.base
    /\ Meets(f.tags, f.ver) \/ ScanVetoed(f)

ScanOK ==
    /\ scan.buffer => HasDisk
    /\ 1 <= scan.base /\ scan.base <= next_seq
    /\ \A f \in scan.pending : scan.buffer /\ ScannedOK(f)
    /\ loader # None =>
          /\ scan.buffer /\ ScannedOK(loader.file)
          /\ loader.step # "read" => scan.stamp < loader.file.stored
          /\ loader.step = "installed" => index[loader.file.key] = Loaded(loader.file)

\* A container is no older than the purges that reached the disk, or is refused by what
\* reached it, and by the store in RAM.
FileOK(f) ==
    /\ f.stored \in 1..clock
    /\ Honours(f) \/ RefusedOnDisk(f)
    /\ Honours(f) \/ RefusedInRam(f)

FilesOK == \A f \in files : FileOK(f)

\* A sequence number that a fill or the recompression has drawn and not yet used.
DrawnBy(x, s) == x.pc = "prepared" /\ x.seq = s /\ s # 0
Drawn(s) == \/ \E r \in Renders : DrawnBy(render[r], s)
            \/ job # None /\ job.seq = s

SeqsOK ==
    /\ \A f \in files \cup unlinking : 1 <= f.seq /\ f.seq < next_seq
    /\ \A k \in Keys : index[k] # None => index[k].seq < next_seq
    /\ \A s \in Nat : Drawn(s) =>
          /\ scan.base <= s /\ s < next_seq
          /\ \A f \in files \cup unlinking : f.seq # s
          /\ \A k \in Keys : index[k] # None => index[k].seq # s
    /\ \A r, q \in Renders : \A s \in Nat : DrawnBy(render[r], s) /\ DrawnBy(render[q], s) => r = q
    /\ \A r \in Renders : job # None => ~ DrawnBy(render[r], job.seq)

\* An entry of this process has its container.
BodyOK(k) ==
    index[k] # None /\ scan.base <= index[k].seq => FileOf(k, index[k]) \in files \ unlinking

BodiesOK == \A k \in Keys : BodyOK(k)

Inv ==
    /\ TypeOK /\ Bounds /\ PurgeOK /\ TagPurgeOK /\ AllPurgeOK /\ DurableOK
    /\ FillsOK /\ EntriesOK /\ TagsOK /\ ScanOK /\ FilesOK
    /\ SeqsOK /\ BodiesOK /\ NoStrandedFile

------------------------------------------------------------------------------
(* What TypeOK says of each variable, and of the record in each. *)

\* The clocks and counters of the store are natural numbers.
LEMMA NatTypes ==
    ASSUME TypeOK
    PROVE  /\ clock \in Nat /\ crashes \in Nat /\ faults \in Nat
           /\ version \in Nat /\ reqAll \in Nat /\ durableAll \in Nat
           /\ purge_seq \in Nat /\ purge_all_epoch \in Nat /\ tag_epoch_prune_floor \in Nat
           /\ next_seq \in Nat /\ purge_stamp \in Nat /\ peer_floor \in Nat
           /\ req \in [Tags -> Nat] /\ durable \in [Tags -> Nat]
           /\ tag_purge_epoch \in [Tags -> Nat] /\ peer_wall \in [Tags -> Nat]
BY DEF TypeOK

\* The purge in progress, field by field.
LEMMA PurgerType ==
    ASSUME TypeOK, purger # None
    PROVE  /\ purger \in Purges
           /\ purger.all \in BOOLEAN
           /\ purger.epoch \in Nat /\ purger.wall \in Nat /\ purger.ver \in Nat
           /\ purger.tags \subseteq Tags /\ purger.todo \subseteq Tags
           /\ purger.ids \subseteq Keys /\ purger.sweeps \subseteq Files
BY DEF TypeOK, Purges

\* A resident entry, field by field.
LEMMA EntryType ==
    ASSUME TypeOK, NEW k \in Keys, index[k] # None
    PROVE  /\ index[k] \in Entries
           /\ index[k].tags \subseteq Tags /\ index[k].ver \in Nat /\ index[k].epoch \in Nat
           /\ index[k].stored \in Nat /\ index[k].seq \in Nat
BY DEF TypeOK, Entries

\* A container, field by field.
LEMMA FileType ==
    ASSUME NEW f \in Files
    PROVE  /\ f.key \in Keys /\ f.tags \subseteq Tags /\ f.ver \in Nat
           /\ f.stored \in Nat /\ f.seq \in Nat /\ f.gen \in {0, 1}
BY DEF Files

\* The boot scan and the file it installs, field by field.
LEMMA ScanType ==
    ASSUME TypeOK
    PROVE  /\ scan \in Scans
           /\ scan.buffer \in BOOLEAN /\ scan.tags \subseteq Tags /\ scan.purged_all \in BOOLEAN
           /\ scan.pending \subseteq Files /\ scan.stamp \in Nat /\ scan.base \in Nat
           /\ loader # None => loader \in Loads /\ loader.file \in Files
BY DEF TypeOK, Scans, Loads

\* A fill, field by field.
LEMMA FillType ==
    ASSUME NEW x \in Fills
    PROVE  /\ x.epoch \in Nat /\ x.guards \in 0..2 /\ x.tags \subseteq Tags
           /\ x.ver \in Nat /\ x.stored \in Nat /\ x.seq \in Nat
           /\ x.key \in Keys \cup {None}
BY DEF Fills

\* The numbers of guards a fill may hold.
LEMMA GuardCounts == 0 \in 0..2 /\ 1 \in 0..2 /\ 2 \in 0..2
BY SMTT(20)

\* The journal, as a rewrite leaves it and as a torn append does.
LEMMA JournalType ==
    /\ \A j \in Journals : j.floor \in Nat /\ j.stamps \in [Tags -> Nat] /\ j.corrupt \in BOOLEAN
    /\ \A a \in Nat, w \in [Tags -> Nat] : [floor |-> a, stamps |-> w, corrupt |-> FALSE] \in Journals
    /\ \A j \in Journals, c \in BOOLEAN : /\ [j EXCEPT !.corrupt = c] \in Journals
                                         /\ [j EXCEPT !.corrupt = c].floor = j.floor
                                         /\ [j EXCEPT !.corrupt = c].stamps = j.stamps
                                         /\ [j EXCEPT !.corrupt = c].corrupt = c
BY DEF Journals

\* The container of an entry is a container.
LEMMA FileOfType ==
    ASSUME NEW k \in Keys, NEW e \in Entries
    PROVE  /\ FileOf(k, e) \in Files
           /\ FileOf(k, e).key = k /\ FileOf(k, e).tags = e.tags /\ FileOf(k, e).ver = e.ver
           /\ FileOf(k, e).stored = e.stored /\ FileOf(k, e).seq = e.seq /\ FileOf(k, e).gen = e.gen
BY DEF Files, Entries, FileOf

\* What is queued for unlink when an entry goes.
LEMMA BackingType ==
    ASSUME TypeOK, NEW k \in Keys
    PROVE  /\ Backing(k, index[k]) \subseteq Files
           /\ QueueUnlink(k) \subseteq Files
           /\ \A f \in Backing(k, index[k]) :
                 /\ index[k] # None /\ index[k].seq # 0 /\ f = FileOf(k, index[k])
                 /\ f.key = k /\ f.seq = index[k].seq
<1>1. CASE index[k] = None
    BY <1>1 DEF Backing, QueueUnlink, TypeOK
<1>2. CASE index[k] # None
    <2>1. index[k] \in Entries
        BY <1>2, EntryType
    <2>2. /\ FileOf(k, index[k]) \in Files
          /\ FileOf(k, index[k]).key = k /\ FileOf(k, index[k]).seq = index[k].seq
        BY <2>1, FileOfType
    <2> QED
        BY <1>2, <2>2 DEF Backing, QueueUnlink, TypeOK
<1> QED
    BY <1>1, <1>2

\* An entry of the boot scan is an entry, and its container is the file it came from.
LEMMA LoadedType ==
    ASSUME NEW f \in Files
    PROVE  /\ Loaded(f) \in Entries
           /\ Loaded(f).tags = f.tags /\ Loaded(f).ver = f.ver /\ Loaded(f).epoch = 0
           /\ Loaded(f).stored = f.stored /\ Loaded(f).seq = f.seq
           /\ FileOf(f.key, Loaded(f)) = f
BY DEF Files, Entries, Loaded, FileOf

\* The floor that bounding the stamps leaves is a number no lower than the floor before.
LEMMA BoundFloorRises ==
    ASSUME NEW stamps \in [Tags -> Nat], NEW floor \in Nat, NEW w \in BoundFloor(stamps, floor)
    PROVE  w \in Nat /\ floor <= w
<1>1. CASE w = floor
    BY SMTT(20), <1>1
<1>2. CASE w # floor
    <2>1. PICK t \in Stamped(Newer(stamps, floor)) : w = Newer(stamps, floor)[t]
        BY <1>2 DEF BoundFloor
    <2>2. t \in Tags /\ Newer(stamps, floor)[t] # 0
        BY <2>1 DEF Stamped
    <2>3. Newer(stamps, floor)[t] = IF stamps[t] > floor THEN stamps[t] ELSE 0
        BY <2>2 DEF Newer
    <2> QED
        BY SMTT(20), <2>1, <2>2, <2>3
<1> QED
    BY <1>1, <1>2

\* A stamp that bounding drops is one the new floor covers.
LEMMA NewerCovers ==
    ASSUME NEW stamps \in [Tags -> Nat], NEW floor \in Nat, NEW t \in Tags, NEW s \in Nat, s <= stamps[t], 1 <= s
    PROVE  /\ Newer(stamps, floor) \in [Tags -> Nat]
           /\ s <= floor \/ (Newer(stamps, floor)[t] # 0 /\ s <= Newer(stamps, floor)[t])
<1>1. Newer(stamps, floor)[t] = IF stamps[t] > floor THEN stamps[t] ELSE 0
    BY DEF Newer
<1>2. Newer(stamps, floor) \in [Tags -> Nat]
    BY DEF Newer
<1>3. stamps[t] \in Nat
    OBVIOUS
<1> QED
    BY SMTT(20), <1>1, <1>2, <1>3

------------------------------------------------------------------------------
(* What a step must leave alone to keep each part of the invariant. *)

\* The purge side of the store: files may go, and the scan may end.
LEMMA PurgesStill ==
    ASSUME Bounds, PurgeOK, TagPurgeOK, AllPurgeOK, DurableOK,
           UNCHANGED <<clock, ghostVars, epochVars, purger, purge_stamp, peer_floor>>,
           purger = None \/ files' \subseteq files,
           scan'.buffer => scan.buffer /\ scan'.tags = scan.tags /\ scan'.purged_all = scan.purged_all
    PROVE  Bounds' /\ PurgeOK' /\ TagPurgeOK' /\ AllPurgeOK' /\ DurableOK'
<1>1. Bounds'
    BY DEF Bounds, ghostVars, epochVars
<1>2. PurgeOK'
    BY DEF PurgeOK, ghostVars, epochVars
<1>3. TagPurgeOK'
    BY DEF TagPurgeOK, epochVars
<1>4. AllPurgeOK'
    BY DEF AllPurgeOK, epochVars
<1>5. DurableOK'
    BY DEF DurableOK, ghostVars
<1> QED
    BY <1>1, <1>2, <1>3, <1>4, <1>5

\* The fills.
LEMMA FillsStill ==
    ASSUME FillsOK, UNCHANGED <<clock, version, req, reqAll, purge_seq, purge_all_epoch, tag_purge_epoch, render>>
    PROVE  FillsOK'
BY DEF FillsOK, FillOK, Meets, PurgedAfter

\* One entry.
LEMMA EntryStill ==
    ASSUME NEW k \in Keys, EntryOK(k), index'[k] = index[k],
           UNCHANGED <<clock, version, req, reqAll, purge_seq>>,
           Installing(k) => Installing(k)',
           index[k] # None /\ Awaits(k) => Awaits(k)'
    PROVE  EntryOK(k)'
<1>1. Meets(index[k].tags, index[k].ver) => Meets(index[k].tags, index[k].ver)'
    BY DEF Meets
<1> QED
    BY <1>1 DEF EntryOK

\* All of them, beside a step that moves neither entries nor the purge.
LEMMA EntriesStill ==
    ASSUME EntriesOK, UNCHANGED <<clock, version, req, reqAll, purge_seq, index, loader, purger>>
    PROVE  EntriesOK'
<1> SUFFICES ASSUME NEW k \in Keys PROVE EntryOK(k)'
    BY DEF EntriesOK
<1>1. EntryOK(k)
    BY DEF EntriesOK
<1>2. Installing(k) => Installing(k)'
    BY DEF Installing
<1>3. Awaits(k) => Awaits(k)'
    BY DEF Awaits
<1> QED
    BY <1>1, <1>2, <1>3, EntryStill

\* The tag index.
LEMMA TagsStill ==
    ASSUME TagsOK, UNCHANGED <<index, tag_index, purger>>
    PROVE  TagsOK'
BY DEF TagsOK, TagOK, TakenOut

\* One file of the boot scan: a purge that vetoes it stays vetoing.
LEMMA ScannedStill ==
    ASSUME NEW f, ScannedOK(f), UNCHANGED <<clock, req, reqAll, scan, peer_floor, peer_wall>>
    PROVE  ScannedOK(f)'
BY DEF ScannedOK, Meets, ScanVetoed, Buffered, TagPurgedSinceWall

\* All of them, beside a step that leaves the scan and its lock alone.
LEMMA ScanStill ==
    ASSUME ScanOK, UNCHANGED <<clock, req, reqAll, scan, loader, peer_floor, peer_wall>>,
           next_seq <= next_seq', next_seq \in Nat, next_seq' \in Nat, scan.base \in Nat,
           \A k \in Keys : Installing(k) => index'[k] = index[k],
           loader # None => loader.file.key \in Keys
    PROVE  ScanOK'
<1>1. scan'.base <= next_seq'
    BY SMTT(20) DEF ScanOK
<1>2. \A f : ScannedOK(f) => ScannedOK(f)'
    BY ScannedStill
<1>3. ASSUME loader # None
      PROVE  ScannedOK(loader.file)'
    BY <1>3 DEF ScanOK, ScannedOK, Meets, ScanVetoed, Buffered, TagPurgedSinceWall
<1>4. ASSUME loader # None, loader.step = "installed"
      PROVE  index'[loader.file.key] = Loaded(loader.file)
    BY <1>4 DEF ScanOK, Installing
<1>5. \A f \in scan'.pending : scan'.buffer /\ ScannedOK(f)'
    BY <1>2 DEF ScanOK
<1> QED
    BY <1>1, <1>3, <1>4, <1>5 DEF ScanOK, Loaded

\* The containers on disk: files may go.
LEMMA FilesStill ==
    ASSUME FilesOK, files' \subseteq files,
           UNCHANGED <<clock, durable, durableAll, purge_stamp, journal, peer_floor, peer_wall>>
    PROVE  FilesOK'
BY DEF FilesOK, FileOK, Honours, RefusedOnDisk, RefusedInRam, TagPurgedSinceWall

\* The sequence numbers: files and entries may go.
LEMMA SeqsStill ==
    ASSUME SeqsOK, files' \cup unlinking' \subseteq files \cup unlinking,
           \A k \in Keys : index'[k] = index[k] \/ index'[k] = None,
           scan'.base = scan.base,
           UNCHANGED <<next_seq, render, job>>
    PROVE  SeqsOK'
<1>1. \A s \in Nat : Drawn(s)' <=> Drawn(s)
    BY DEF Drawn, DrawnBy
<1> QED
    BY <1>1 DEF SeqsOK, DrawnBy

\* The bodies of entries that stay.
LEMMA BodiesStill ==
    ASSUME BodiesOK,
           \A k \in Keys : index'[k] # None =>
              /\ index'[k] = index[k]
              /\ scan.base <= index[k].seq /\ FileOf(k, index[k]) \in files \ unlinking
                    => FileOf(k, index[k]) \in files' \ unlinking',
           scan'.base = scan.base
    PROVE  BodiesOK'
<1> SUFFICES ASSUME NEW k \in Keys, index'[k] # None, scan'.base <= index'[k].seq
             PROVE  FileOf(k, index'[k]) \in files' \ unlinking'
    BY DEF BodiesOK, BodyOK, FileOf
<1> QED
    BY DEF BodiesOK, BodyOK

------------------------------------------------------------------------------
(* The fills. *)

\* A step that only moves fill r on, to a state that FillOK allows and that draws no
\* sequence number but those r holds.
LEMMA FillMoves ==
    ASSUME Inv, NEW r \in Renders, NEW x \in Fills,
           render' = [render EXCEPT ![r] = x],
           FillOK(x), x.pc # "prepared",
           UNCHANGED <<envVars, ghostVars, epochVars, index, tag_index, purger, diskVars, wallVars, scanVars, job>>
    PROVE  Inv'
<1>1. TypeOK'
    BY DEF Inv, TypeOK, envVars, ghostVars, epochVars, diskVars, wallVars, scanVars
<1>2. Bounds' /\ PurgeOK' /\ TagPurgeOK' /\ AllPurgeOK' /\ DurableOK'
    BY PurgesStill DEF Inv, envVars, diskVars, wallVars, scanVars
<1>3. FillsOK'
    <2>1. \A q \in Renders : render'[q] = IF q = r THEN x ELSE render[q]
        BY DEF Inv, TypeOK
    <2>2. \A q \in Renders : FillOK(render'[q])
        BY <2>1 DEF Inv, FillsOK
    <2> QED
        BY SMTT(20), <2>2 DEF FillsOK, FillOK, Meets, PurgedAfter, envVars, ghostVars, epochVars
<1>4. EntriesOK' /\ TagsOK'
    BY EntriesStill, TagsStill DEF Inv, envVars, ghostVars, epochVars, scanVars
<1>5. ScanOK'
    BY SMTT(20), NatTypes, ScanType, FileType, ScanStill DEF Inv, envVars, ghostVars, diskVars, wallVars, scanVars
<1>6. FilesOK'
    BY FilesStill DEF Inv, envVars, ghostVars, diskVars, wallVars
<1>7. SeqsOK'
    <2>1. \A q \in Renders, s \in Nat : DrawnBy(render'[q], s) => q # r /\ DrawnBy(render[q], s)
        BY DEF Inv, TypeOK, DrawnBy
    <2>2. \A s \in Nat : Drawn(s)' => Drawn(s)
        BY <2>1 DEF Drawn
    <2>3. /\ \A f \in files \cup unlinking : f.seq \in Nat
          /\ \A k \in Keys : index[k] # None => index[k].seq \in Nat
          /\ job # None => job.seq \in Nat
        BY EntryType, FileType DEF Inv, TypeOK, Jobs
    <2> QED
        BY <2>1, <2>2, <2>3 DEF Inv, SeqsOK, diskVars, scanVars
<1>8. BodiesOK'
    BY BodiesStill DEF Inv, diskVars, scanVars
<1>9. NoStrandedFile'
    BY DEF Inv, NoStrandedFile, Backing, FileOf, diskVars, scanVars
<1> QED
    BY <1>1, <1>2, <1>3, <1>4, <1>5, <1>6, <1>7, <1>8, <1>9 DEF Inv

\* An idle fill says nothing.
LEMMA IdleFill ==
    ASSUME TypeOK
    PROVE  Idle \in Fills /\ FillOK(Idle) /\ Idle.pc = "idle"
BY SMTT(20), NatTypes DEF Idle, Fills, FillOK

\* A fill takes its epoch.
LEMMA SnapshotInv ==
    ASSUME Inv, NEW r \in Renders, NEW k \in Keys, Snapshot(r, k)
    PROVE  Inv'
<1>0. TypeOK /\ purge_seq \in Nat
    BY NatTypes DEF Inv
<1>1. PICK x : x = [Idle EXCEPT !.pc = "snapshot", !.key = k, !.epoch = purge_seq]
    OBVIOUS
<1>2. x = [pc |-> "snapshot", key |-> k, epoch |-> purge_seq, guards |-> 0, tags |-> {},
           ver |-> 0, stored |-> 0, seq |-> 0]
    BY <1>1 DEF Idle
<1>3. x \in Fills
    BY SMTT(20), <1>0, <1>2 DEF Fills
<1>4. FillOK(x)
    BY SMTT(20), <1>0, <1>2 DEF FillOK
<1>5. x.pc # "prepared"
    BY <1>2
<1> QED
    BY <1>1, <1>3, <1>4, <1>5, FillMoves DEF Snapshot

\* A fill takes its render guard.
LEMMA BeginRenderInv ==
    ASSUME Inv, NEW r \in Renders, BeginRender(r)
    PROVE  Inv'
<1>0. render \in [Renders -> Fills] /\ FillOK(render[r]) /\ render[r] \in Fills
    BY DEF Inv, TypeOK, FillsOK
<1>1. PICK x : x = [render[r] EXCEPT !.pc = "guarded", !.guards = 1]
    OBVIOUS
<1>2. x \in Fills
    BY <1>0, <1>1, GuardCounts DEF Fills
<1>3. /\ x.pc = "guarded" /\ x.guards = 1
      /\ x.epoch = render[r].epoch /\ x.key = render[r].key
    BY <1>0, <1>1 DEF Fills
<1>4. FillOK(x)
    BY SMTT(20), <1>0, <1>3 DEF FillOK, BeginRender
<1>5. render' = [render EXCEPT ![r] = x]
    BY <1>0, <1>1 DEF BeginRender
<1> QED
    BY <1>2, <1>3, <1>4, <1>5, FillMoves DEF BeginRender

\* The backend reads content that is current, hence as new as every finished purge.
LEMMA BackendRenderInv ==
    ASSUME Inv, NEW r \in Renders, NEW T \in SUBSET Tags, BackendRender(r, T)
    PROVE  Inv'
<1>0. render \in [Renders -> Fills] /\ FillOK(render[r]) /\ render[r] \in Fills /\ version \in Nat
    BY NatTypes DEF Inv, TypeOK, FillsOK
<1>1. PICK x : x = [render[r] EXCEPT !.pc = "rendered", !.ver = version, !.tags = T]
    OBVIOUS
<1>2. x \in Fills
    BY <1>0, <1>1 DEF Fills
<1>3. /\ x.pc = "rendered" /\ x.guards = render[r].guards /\ x.ver = version /\ x.tags = T
      /\ x.epoch = render[r].epoch /\ x.key = render[r].key
    BY <1>0, <1>1 DEF Fills
<1>4. Meets(T, version)
    BY DEF Inv, Bounds, Meets
<1>5. x.epoch <= purge_seq /\ x.key \in Keys /\ x.guards = 1
    BY <1>0, <1>3 DEF FillOK, BackendRender
<1>6. version + x.epoch <= x.ver + purge_seq
    BY SMTT(20), <1>0, <1>2, <1>3, <1>5, FillType, NatTypes DEF Inv
<1>7. FillOK(x)
    BY SMTT(20), <1>3, <1>4, <1>5, <1>6 DEF FillOK
<1>8. render' = [render EXCEPT ![r] = x]
    BY <1>0, <1>1 DEF BackendRender
<1> QED
    BY <1>2, <1>3, <1>7, <1>8, FillMoves DEF BackendRender

\* FillCommit takes a guard of its own ...
LEMMA StreamBeginInv ==
    ASSUME Inv, NEW r \in Renders, StreamBegin(r)
    PROVE  Inv'
<1>0. render \in [Renders -> Fills] /\ FillOK(render[r]) /\ render[r] \in Fills
    BY DEF Inv, TypeOK, FillsOK
<1>1. render[r].pc = "rendered" /\ render[r].guards = 1 /\ render[r].guards + 1 = 2
    BY SMTT(20), <1>0 DEF FillOK, StreamBegin
<1>2. PICK x : x = [render[r] EXCEPT !.pc = "handoff", !.guards = 2]
    OBVIOUS
<1>3. x \in Fills
    BY <1>0, <1>2, GuardCounts DEF Fills
<1>4. /\ x.pc = "handoff" /\ x.guards = 2 /\ x.ver = render[r].ver /\ x.tags = render[r].tags
      /\ x.epoch = render[r].epoch /\ x.key = render[r].key
    BY <1>0, <1>2 DEF Fills
<1>5. FillOK(x)
    BY SMTT(20), <1>0, <1>1, <1>4 DEF FillOK
<1>6. render' = [render EXCEPT ![r] = x]
    BY <1>0, <1>1, <1>2 DEF StreamBegin
<1> QED
    BY <1>3, <1>4, <1>5, <1>6, FillMoves DEF StreamBegin

\* ... before dispatch() gives up the first.
LEMMA DispatchReturnsInv ==
    ASSUME Inv, NEW r \in Renders, DispatchReturns(r)
    PROVE  Inv'
<1>0. render \in [Renders -> Fills] /\ FillOK(render[r]) /\ render[r] \in Fills
    BY DEF Inv, TypeOK, FillsOK
<1>1. render[r].pc = "handoff" /\ render[r].guards = 2 /\ render[r].guards - 1 = 1
    BY SMTT(20), <1>0 DEF FillOK, DispatchReturns
<1>2. PICK x : x = [render[r] EXCEPT !.pc = "streamed", !.guards = 1]
    OBVIOUS
<1>3. x \in Fills
    BY <1>0, <1>2, GuardCounts DEF Fills
<1>4. /\ x.pc = "streamed" /\ x.guards = 1 /\ x.ver = render[r].ver /\ x.tags = render[r].tags
      /\ x.epoch = render[r].epoch /\ x.key = render[r].key
    BY <1>0, <1>2 DEF Fills
<1>5. FillOK(x)
    BY SMTT(20), <1>0, <1>1, <1>4 DEF FillOK
<1>6. render' = [render EXCEPT ![r] = x]
    BY <1>0, <1>1, <1>2 DEF DispatchReturns
<1> QED
    BY <1>3, <1>4, <1>5, <1>6, FillMoves DEF DispatchReturns

\* A fill that ends without an entry.
LEMMA FillEnds ==
    ASSUME Inv, NEW r \in Renders, StoreRejected(r) \/ Abandon(r)
    PROVE  Inv'
<1>1. Idle \in Fills /\ FillOK(Idle) /\ Idle.pc # "prepared"
    BY IdleFill DEF Inv
<1>2. PICK x : x = Idle
    OBVIOUS
<1> QED
    BY <1>1, <1>2, FillMoves DEF StoreRejected, Abandon

\* Drawing the next sequence number: nothing on disk and no entry has it.
LEMMA SeqsAfterDraw ==
    ASSUME Inv, next_seq' \in Nat, next_seq <= next_seq',
           \A z \in Nat : Drawn(z)' => Drawn(z) \/ (z = next_seq /\ next_seq' = next_seq + 1),
           \A p, q \in Renders : \A z \in Nat : DrawnBy(render'[p], z) /\ DrawnBy(render'[q], z) => p = q,
           \A q \in Renders : job' # None => ~ DrawnBy(render'[q], job'.seq),
           UNCHANGED <<files, unlinking, index, scan>>
    PROVE  SeqsOK'
<1>0. next_seq \in Nat /\ scan.base \in Nat /\ scan.base <= next_seq
    BY NatTypes, ScanType DEF Inv, ScanOK
<1>1. /\ \A f \in files \cup unlinking : f.seq \in Nat
      /\ \A k \in Keys : index[k] # None => index[k].seq \in Nat
    BY EntryType, FileType DEF Inv, TypeOK
<1>2. \A f \in files' \cup unlinking' : 1 <= f.seq /\ f.seq < next_seq' /\ f.seq # next_seq
    BY SMTT(20), <1>0, <1>1 DEF Inv, SeqsOK
<1>3. \A k \in Keys : index'[k] # None => index'[k].seq < next_seq' /\ index'[k].seq # next_seq
    BY SMTT(20), <1>0, <1>1 DEF Inv, SeqsOK
<1>4. ASSUME NEW z \in Nat, Drawn(z)'
      PROVE  /\ scan'.base <= z /\ z < next_seq'
             /\ \A f \in files' \cup unlinking' : f.seq # z
             /\ \A k \in Keys : index'[k] # None => index'[k].seq # z
    <2>1. CASE z = next_seq /\ next_seq' = next_seq + 1
        BY SMTT(20), <1>0, <1>2, <1>3, <2>1
    <2>2. CASE Drawn(z)
        <3>1. scan.base <= z /\ z < next_seq
            BY <2>2 DEF Inv, SeqsOK
        <3>2. scan'.base <= z /\ z < next_seq'
            BY SMTT(20), <1>0, <3>1
        <3> QED
            BY <2>2, <3>2 DEF Inv, SeqsOK
    <2> QED
        BY <1>4, <2>1, <2>2
<1> QED
    BY <1>2, <1>3, <1>4 DEF SeqsOK, DrawnBy

\* prepare_entry draws a sequence number nobody holds.
LEMMA PrepareInv ==
    ASSUME Inv, NEW r \in Renders, NEW onDisk \in BOOLEAN, Prepare(r, onDisk)
    PROVE  Inv'
<1>0. /\ render \in [Renders -> Fills] /\ FillOK(render[r]) /\ render[r] \in Fills
      /\ clock \in Nat /\ next_seq \in Nat /\ 1 <= clock /\ 1 <= next_seq
      /\ scan.base \in Nat /\ scan.base <= next_seq
    BY SMTT(20), NatTypes, ScanType DEF Inv, TypeOK, FillsOK, Bounds, ScanOK
<1>1. PICK s \in Nat : s = IF onDisk THEN next_seq ELSE 0
    BY <1>0
<1>2. PICK x : x = [render[r] EXCEPT !.pc = "prepared", !.stored = clock, !.seq = s]
    OBVIOUS
<1>3. x \in Fills
    BY <1>0, <1>1, <1>2 DEF Fills
<1>4. /\ x.pc = "prepared" /\ x.guards = render[r].guards /\ x.ver = render[r].ver
      /\ x.tags = render[r].tags /\ x.stored = clock /\ x.seq = s
      /\ x.epoch = render[r].epoch /\ x.key = render[r].key
    BY <1>0, <1>2 DEF Fills
<1>5. x.stored \in 1..clock
    BY SMTT(20), <1>0, <1>4
<1>6. 1 <= x.guards
    BY <1>0, <1>4 DEF FillOK, Prepare
<1>7. FillOK(x)
    BY <1>0, <1>4, <1>5, <1>6 DEF FillOK, Prepare
<1>8. render' = [render EXCEPT ![r] = x]
    BY <1>0, <1>1, <1>2 DEF Prepare
<1>9. \A q \in Renders : render'[q] = IF q = r THEN x ELSE render[q]
    BY <1>0, <1>8
<1>10. next_seq' \in Nat /\ next_seq <= next_seq'
    BY SMTT(20), <1>0 DEF Prepare
<1>11. TypeOK'
    <2>1. render' \in [Renders -> Fills]
        BY <1>0, <1>3, <1>8
    <2>2. UNCHANGED <<envVars, ghostVars, epochVars, index, tag_index, purger, files, unlinking, wallVars, scanVars, job>>
        BY DEF Prepare
    <2> QED
        BY <1>10, <2>1, <2>2 DEF Inv, TypeOK, envVars, ghostVars, epochVars, wallVars, scanVars
<1>12. Bounds' /\ PurgeOK' /\ TagPurgeOK' /\ AllPurgeOK' /\ DurableOK'
    BY PurgesStill DEF Inv, Prepare, envVars, wallVars, scanVars
<1>13. FillsOK'
    <2>1. \A q \in Renders : FillOK(render'[q])
        BY <1>7, <1>9 DEF Inv, FillsOK
    <2> QED
        BY <2>1 DEF FillsOK, FillOK, Meets, PurgedAfter, Prepare, envVars, ghostVars, epochVars
<1>14. EntriesOK' /\ TagsOK'
    BY EntriesStill, TagsStill DEF Inv, Prepare, envVars, ghostVars, epochVars, scanVars
<1>15. ScanOK'
    BY <1>0, <1>10, ScanType, FileType, ScanStill DEF Inv, Prepare, envVars, ghostVars, wallVars, scanVars
<1>16. FilesOK'
    BY FilesStill DEF Inv, Prepare, envVars, ghostVars, wallVars
<1>17. SeqsOK'
    <2>1. \A q \in Renders, z \in Nat : DrawnBy(render'[q], z) => (q = r /\ z = next_seq /\ next_seq' = next_seq + 1)
                                                                    \/ (q # r /\ DrawnBy(render[q], z))
        BY SMTT(20), <1>1, <1>4, <1>9 DEF DrawnBy, Prepare
    <2>2. \A z \in Nat : Drawn(z)' => Drawn(z) \/ (z = next_seq /\ next_seq' = next_seq + 1)
        BY <2>1 DEF Drawn, Prepare
    <2>3. job # None => job.seq \in Nat
        BY DEF Inv, TypeOK, Jobs
    <2>4. \A z \in Nat : Drawn(z) => z < next_seq
        BY DEF Inv, SeqsOK
    <2>5. ASSUME NEW p \in Renders, NEW q \in Renders, NEW z \in Nat,
                 DrawnBy(render'[p], z), DrawnBy(render'[q], z)
          PROVE  p = q
        <3>1. p # r => Drawn(z)
            BY <2>1, <2>5 DEF Drawn
        <3>2. q # r => Drawn(z)
            BY <2>1, <2>5 DEF Drawn
        <3>3. ~ Drawn(next_seq)
            BY SMTT(20), <1>0, <2>4
        <3> QED
            BY <2>1, <2>5, <3>1, <3>2, <3>3 DEF Inv, SeqsOK
    <2>6. ASSUME NEW q \in Renders, job' # None
          PROVE  ~ DrawnBy(render'[q], job'.seq)
        <3>1. job' = job /\ job.seq \in Nat /\ Drawn(job.seq)
            BY <2>3, <2>6 DEF Drawn, Prepare
        <3>2. job.seq # next_seq
            BY SMTT(20), <1>0, <2>4, <3>1
        <3> QED
            BY <2>1, <2>6, <3>1, <3>2 DEF Inv, SeqsOK
    <2>7. UNCHANGED <<files, unlinking, index, scan>>
        BY DEF Prepare, scanVars
    <2> QED
        BY <1>10, <2>2, <2>5, <2>6, <2>7, SeqsAfterDraw
<1>18. BodiesOK'
    BY BodiesStill DEF Inv, Prepare, scanVars
<1>19. NoStrandedFile'
    BY DEF Inv, NoStrandedFile, Backing, FileOf, Prepare, scanVars
<1> QED
    BY <1>11, <1>12, <1>13, <1>14, <1>15, <1>16, <1>17, <1>18, <1>19 DEF Inv

------------------------------------------------------------------------------
(* Entries that come and go. *)

\* The tag index after a teardown, and after a replacement.
LEMMA WithoutKeySpec ==
    ASSUME NEW ti \in [Tags -> SUBSET Keys], NEW k \in Keys
    PROVE  /\ WithoutKey(ti, k) \in [Tags -> SUBSET Keys]
           /\ \A t \in Tags : \A j : j \in WithoutKey(ti, k)[t] <=> j # k /\ j \in ti[t]
BY DEF WithoutKey

\* What the tag index holds once an entry tagged T has taken k's place.
LEMMA RetagSpec ==
    ASSUME NEW ti \in [Tags -> SUBSET Keys], NEW k \in Keys, NEW T \in SUBSET Tags
    PROVE  /\ Retag(ti, k, T) \in [Tags -> SUBSET Keys]
           /\ \A t \in Tags : \A j : j \in Retag(ti, k, T)[t] <=> \/ j = k /\ t \in T
                                                                  \/ j # k /\ j \in ti[t]
<1>1. PICK tj \in [Tags -> SUBSET Keys] : tj = WithoutKey(ti, k)
    BY WithoutKeySpec
<1>2. \A t \in Tags : \A j : j \in tj[t] <=> j # k /\ j \in ti[t]
    BY <1>1, WithoutKeySpec
<1>3. Retag(ti, k, T) = [t \in Tags |-> IF t \in T THEN tj[t] \cup {k} ELSE tj[t]]
    BY <1>1 DEF Retag, WithKey
<1>4. ASSUME NEW t \in Tags
      PROVE  \A j : j \in Retag(ti, k, T)[t] <=> \/ j = k /\ t \in T
                                                 \/ j # k /\ j \in ti[t]
    BY SMTT(20), <1>2, <1>3
<1>5. Retag(ti, k, T) \in [Tags -> SUBSET Keys]
    BY <1>3
<1> QED
    BY <1>4, <1>5

\* The purge has no part in a step on k, or has visited k.
PassesOn(k) ==
    \/ purger' = purger
    \/ purger # None /\ \E S \in SUBSET Files : purger' = [purger EXCEPT !.ids = @ \ {k}, !.sweeps = S]

\* An entry is torn down: by expiry or eviction, by a purge that has reached it, or by
\* the boot scan that had installed it.
LEMMA TeardownInv ==
    ASSUME Inv, NEW k \in Keys, PassesOn(k),
           index' = [index EXCEPT ![k] = None],
           tag_index' = WithoutKey(tag_index, k),
           unlinking' = QueueUnlink(k),
           \/ loader' = loader /\ ~ Installing(k)
           \/ loader' = None /\ Installing(k),
           UNCHANGED <<envVars, ghostVars, epochVars, render, files, next_seq, wallVars, scan, job>>
    PROVE  Inv'
<1>1. ASSUME purger # None
      PROVE  /\ purger' \in Purges /\ purger' # None
             /\ purger'.all = purger.all /\ purger'.step = purger.step /\ purger'.epoch = purger.epoch
             /\ purger'.wall = purger.wall /\ purger'.ver = purger.ver /\ purger'.tags = purger.tags
             /\ purger'.todo = purger.todo /\ purger'.tag = purger.tag
             /\ purger.ids \ {k} \subseteq purger'.ids
    <2>1. purger \in Purges /\ None \notin Purges
        BY <1>1, PurgerType, PageStoreAssumption DEF Inv
    <2>2. CASE purger' = purger
        BY <2>1, <2>2, <1>1
    <2>3. ASSUME NEW S \in SUBSET Files, purger' = [purger EXCEPT !.ids = @ \ {k}, !.sweeps = S]
          PROVE  /\ purger' \in Purges
                 /\ purger'.all = purger.all /\ purger'.step = purger.step /\ purger'.epoch = purger.epoch
                 /\ purger'.wall = purger.wall /\ purger'.ver = purger.ver /\ purger'.tags = purger.tags
                 /\ purger'.todo = purger.todo /\ purger'.tag = purger.tag
                 /\ purger'.ids = purger.ids \ {k}
        BY <2>1, <2>3 DEF Purges
    <2> QED
        BY <1>1, <2>1, <2>2, <2>3 DEF PassesOn
<1>2. purger = None => purger' = None
    BY DEF PassesOn
<1>3. index \in [Keys -> Entries \cup {None}] /\ tag_index \in [Tags -> SUBSET Keys]
    BY DEF Inv, TypeOK
<1>4. index'[k] = None /\ \A j \in Keys \ {k} : index'[j] = index[j]
    BY <1>3
<1>5. /\ tag_index' \in [Tags -> SUBSET Keys]
      /\ \A t \in Tags : \A j : j \in tag_index'[t] <=> j # k /\ j \in tag_index[t]
    BY <1>3, WithoutKeySpec
<1>6. index' \in [Keys -> Entries \cup {None}]
    BY <1>3
<1>7. unlinking' \subseteq Files
    BY BackingType DEF Inv
<1>8. TypeOK'
    BY SMTT(20), <1>1, <1>2, <1>5, <1>6, <1>7 DEF Inv, TypeOK, envVars, ghostVars, epochVars, wallVars
<1>9. Bounds' /\ PurgeOK' /\ TagPurgeOK' /\ AllPurgeOK' /\ DurableOK'
    <2>1. Bounds'
        BY DEF Inv, Bounds, envVars, ghostVars, epochVars, wallVars
    <2>2. PurgeOK'
        BY <1>1, <1>2 DEF Inv, PurgeOK, envVars, ghostVars, epochVars, wallVars
    <2>3. TagPurgeOK'
        BY <1>1, <1>2 DEF Inv, TagPurgeOK, epochVars
    <2>4. AllPurgeOK'
        BY <1>1, <1>2 DEF Inv, AllPurgeOK, epochVars, wallVars
    <2>5. DurableOK'
        BY <1>1, <1>2 DEF Inv, DurableOK, ghostVars
    <2> QED
        BY <2>1, <2>2, <2>3, <2>4, <2>5
<1>10. FillsOK'
    BY FillsStill DEF Inv, envVars, ghostVars, epochVars
<1>11. EntriesOK'
    <2> SUFFICES ASSUME NEW j \in Keys PROVE EntryOK(j)'
        BY DEF EntriesOK
    <2>1. CASE j = k
        BY <1>4, <2>1 DEF EntryOK
    <2>2. CASE j # k
        <3>1. index'[j] = index[j] /\ EntryOK(j)
            BY <1>4, <2>2 DEF Inv, EntriesOK
        <3>2. Installing(j) => Installing(j)'
            BY <2>2 DEF Installing
        <3>3. Awaits(j) => Awaits(j)'
            BY <1>1, <1>2, <2>2, <3>1 DEF Awaits, ghostVars
        <3> QED
            BY <3>1, <3>2, <3>3, EntryStill DEF envVars, ghostVars, epochVars
    <2> QED
        BY <2>1, <2>2
<1>12. TagsOK'
    <2> SUFFICES ASSUME NEW j \in Keys, NEW t \in Tags PROVE TagOK(j, t)'
        BY DEF TagsOK
    <2>1. CASE j = k
        BY <1>4, <1>5, <2>1 DEF TagOK
    <2>2. CASE j # k
        <3>1. TakenOut(j, t) => TakenOut(j, t)'
            BY <1>1, <2>2 DEF TakenOut
        <3> QED
            BY <1>4, <1>5, <2>2, <3>1 DEF Inv, TagsOK, TagOK
    <2> QED
        BY <2>1, <2>2
<1>13. ScanOK'
    <2>1. CASE loader' = None
        <3>1. \A f : ScannedOK(f) => ScannedOK(f)'
            BY ScannedStill DEF envVars, ghostVars, wallVars
        <3> QED
            BY <2>1, <3>1 DEF Inv, ScanOK
    <2>2. CASE loader' = loader /\ ~ Installing(k)
        BY SMTT(20), <1>4, <2>2, NatTypes, ScanType, FileType, ScanStill DEF Inv, envVars, ghostVars, wallVars
    <2> QED
        BY <2>1, <2>2
<1>14. FilesOK'
    BY FilesStill DEF Inv, envVars, ghostVars, wallVars
<1>15. SeqsOK'
    <2>1. \A f \in Backing(k, index[k]) :
              /\ 1 <= f.seq /\ f.seq < next_seq
              /\ \A s \in Nat : Drawn(s) => f.seq # s
        <3> SUFFICES ASSUME NEW f \in Backing(k, index[k])
                     PROVE  /\ 1 <= f.seq /\ f.seq < next_seq
                            /\ \A s \in Nat : Drawn(s) => f.seq # s
            OBVIOUS
        <3>1. index[k] # None /\ f.seq = index[k].seq /\ f.seq # 0 /\ f.seq \in Nat
            BY BackingType, EntryType DEF Inv
        <3>2. 1 <= f.seq
            BY SMTT(20), <3>1
        <3> QED
            BY <3>1, <3>2 DEF Inv, SeqsOK
    <2>2. \A s \in Nat : Drawn(s)' <=> Drawn(s)
        BY DEF Drawn, DrawnBy
    <2> QED
        BY SMTT(20), <1>4, <2>1, <2>2 DEF Inv, SeqsOK, DrawnBy, QueueUnlink
<1>16. BodiesOK'
    <2>1. ASSUME NEW j \in Keys, index'[j] # None
          PROVE  index'[j] = index[j] /\ FileOf(j, index[j]) \notin Backing(k, index[k])
        <3>1. j # k /\ index'[j] = index[j] /\ FileOf(j, index[j]).key = j
            BY SMTT(20), <1>4, <2>1, EntryType, FileOfType DEF Inv
        <3> QED
            BY <3>1, BackingType DEF Inv
    <2> QED
        BY <2>1, BodiesStill DEF Inv, QueueUnlink
<1>17. NoStrandedFile'
    <2> SUFFICES ASSUME NEW f \in files
                 PROVE  \/ f \in unlinking' \cup scan'.pending
                        \/ loader' # None /\ loader'.file = f
                        \/ f \in Backing(f.key, index'[f.key])
        BY DEF NoStrandedFile, Backing, FileOf
    <2>0. f \in Files /\ f.key \in Keys
        BY FileType DEF Inv, TypeOK
    <2>1. CASE f \in unlinking \cup scan.pending
        BY <2>1 DEF QueueUnlink
    <2>2. CASE loader # None /\ loader.file = f /\ loader' = None
        <3>1. index[k] = Loaded(f) /\ f.key = k /\ f.seq # 0
            BY SMTT(20), <2>2 DEF Inv, ScanOK, ScannedOK, Installing
        <3>2. f \in Backing(k, index[k])
            BY <2>0, <3>1, LoadedType, PageStoreAssumption DEF Backing
        <3> QED
            BY <3>2 DEF QueueUnlink
    <2>3. CASE loader # None /\ loader.file = f /\ loader' = loader
        BY <2>3
    <2>4. CASE f \in Backing(f.key, index[f.key])
        BY <1>4, <2>0, <2>4 DEF QueueUnlink
    <2> QED
        BY <2>1, <2>2, <2>3, <2>4 DEF Inv, NoStrandedFile
<1> QED
    BY <1>8, <1>9, <1>10, <1>11, <1>12, <1>13, <1>14, <1>15, <1>16, <1>17 DEF Inv

\* A lookup, expiry or the evictor drops an entry.
LEMMA EvictInv ==
    ASSUME Inv, NEW k \in Keys, Evict(k)
    PROVE  Inv'
<1>1. ~ Installing(k) /\ loader' = loader
    BY DEF Evict, Locked, Installing, scanVars
<1>2. UNCHANGED <<envVars, ghostVars, epochVars, render, files, next_seq, wallVars, scan, job>>
    BY DEF Evict, scanVars
<1>3. PassesOn(k)
    BY DEF Evict, PassesOn
<1> QED
    BY <1>1, <1>2, <1>3, TeardownInv DEF Evict

\* A deferred unlink removes no file an entry of this process resolves to.
LEMMA UnlinkInv ==
    ASSUME Inv, NEW f \in unlinking, Unlink(f)
    PROVE  Inv'
<1>1. TypeOK'
    BY DEF Inv, TypeOK, Unlink, envVars, ghostVars, epochVars, wallVars, scanVars
<1>2. Bounds' /\ PurgeOK' /\ TagPurgeOK' /\ AllPurgeOK' /\ DurableOK'
    <2>1. files' \subseteq files
        BY DEF Unlink
    <2> QED
        BY <2>1, PurgesStill DEF Inv, Unlink, envVars, wallVars, scanVars
<1>3. FillsOK'
    BY FillsStill DEF Inv, Unlink, envVars, ghostVars, epochVars
<1>4. EntriesOK' /\ TagsOK'
    BY EntriesStill, TagsStill DEF Inv, Unlink, envVars, ghostVars, epochVars, scanVars
<1>5. ScanOK'
    BY SMTT(20), NatTypes, ScanType, FileType, ScanStill DEF Inv, Unlink, envVars, ghostVars, wallVars, scanVars
<1>6. FilesOK'
    BY FilesStill DEF Inv, Unlink, envVars, ghostVars, wallVars
<1>7. SeqsOK'
    BY SeqsStill DEF Inv, Unlink, scanVars
<1>8. BodiesOK'
    BY BodiesStill DEF Inv, Unlink, scanVars
<1>9. NoStrandedFile'
    BY DEF Inv, NoStrandedFile, Backing, FileOf, Unlink, scanVars
<1> QED
    BY <1>1, <1>2, <1>3, <1>4, <1>5, <1>6, <1>7, <1>8, <1>9 DEF Inv

\* A container published while no purge runs is as new as the disk demands.
LEMMA Published ==
    ASSUME Inv, purger = None, NEW g \in Files, g.stored \in 1..clock, Meets(g.tags, g.ver),
           files' \subseteq files \cup {g},
           UNCHANGED <<clock, durable, durableAll, purge_stamp, journal, peer_floor, peer_wall>>
    PROVE  FilesOK'
<1>1. Honours(g)
    <2>1. durableAll <= reqAll /\ \A t \in Tags : durable[t] <= req[t]
        BY DEF Inv, DurableOK
    <2>2. /\ durableAll \in Nat /\ reqAll \in Nat /\ g.ver \in Nat /\ g.tags \subseteq Tags
          /\ \A t \in Tags : durable[t] \in Nat /\ req[t] \in Nat
        BY NatTypes, FileType DEF Inv
    <2> QED
        BY SMTT(20), <2>1, <2>2 DEF Honours, Meets
<1>2. FileOK(g)
    BY <1>1 DEF FileOK
<1>3. \A f \in files' : FileOK(f)
    BY <1>2 DEF Inv, FilesOK
<1> QED
    BY <1>3 DEF FilesOK, FileOK, Honours, RefusedOnDisk, RefusedInRam, TagPurgedSinceWall

\* The entry a prepared fill would install, and its sequence number.
LEMMA EntryOfFill ==
    ASSUME Inv, NEW r \in Renders, render[r].pc = "prepared"
    PROVE  /\ render[r].key \in Keys /\ EntryOf(r) \in Entries
           /\ EntryOf(r).tags = render[r].tags /\ EntryOf(r).ver = render[r].ver
           /\ EntryOf(r).epoch = render[r].epoch /\ EntryOf(r).stored = render[r].stored
           /\ EntryOf(r).seq = render[r].seq
           /\ EntryOf(r).seq # 0 => Drawn(EntryOf(r).seq)
           /\ EntryOf(r).stored \in 1..clock
           /\ EntryOf(r).epoch <= purge_seq
           /\ version + EntryOf(r).epoch <= EntryOf(r).ver + purge_seq
           /\ ~ StoreVetoed(r) => Meets(EntryOf(r).tags, EntryOf(r).ver)
<1>1. render[r] \in Fills /\ FillOK(render[r])
    BY DEF Inv, TypeOK, FillsOK
<1>2. EntryOf(r) \in Entries
    BY <1>1, FillType DEF Entries, EntryOf
<1>3. /\ EntryOf(r).tags = render[r].tags /\ EntryOf(r).ver = render[r].ver
      /\ EntryOf(r).epoch = render[r].epoch /\ EntryOf(r).stored = render[r].stored
      /\ EntryOf(r).seq = render[r].seq
    BY DEF EntryOf
<1>4. EntryOf(r).seq # 0 => Drawn(EntryOf(r).seq)
    BY <1>3 DEF Drawn, DrawnBy
<1> QED
    BY <1>1, <1>2, <1>3, <1>4 DEF FillOK, StoreVetoed

\* The sequence numbers after a fill has used its own.
LEMMA SeqsAfterStore ==
    ASSUME Inv, NEW r \in Renders, NEW k \in Keys, render[r].pc = "prepared", k = render[r].key,
           render' = [render EXCEPT ![r] = Idle],
           files' \subseteq files \cup Backing(k, EntryOf(r)),
           unlinking' \subseteq unlinking \cup Backing(k, EntryOf(r)) \cup Backing(k, index[k]),
           \A j \in Keys : index'[j] = index[j] \/ index'[j] = EntryOf(r),
           UNCHANGED <<next_seq, job, scan>>
    PROVE  SeqsOK'
<1>0. render \in [Renders -> Fills] /\ next_seq \in Nat /\ 1 <= next_seq /\ EntryOf(r).seq \in Nat
    <2>1. /\ scan.base \in Nat /\ next_seq \in Nat /\ 1 <= scan.base /\ scan.base <= next_seq
          /\ render \in [Renders -> Fills] /\ EntryOf(r) \in Entries
        BY NatTypes, ScanType, EntryOfFill DEF Inv, TypeOK, ScanOK
    <2> QED
        BY SMTT(20), <2>1 DEF Entries
<1>1. \A q \in Renders, z \in Nat : DrawnBy(render'[q], z) => q # r /\ DrawnBy(render[q], z)
    BY <1>0 DEF DrawnBy, Idle
<1>2. ASSUME NEW z \in Nat, Drawn(z)'
      PROVE  Drawn(z) /\ z # EntryOf(r).seq
    <2>1. Drawn(z)
        BY <1>1, <1>2 DEF Drawn
    <2>2. ASSUME z = EntryOf(r).seq PROVE FALSE
        <3>1. z # 0
            BY SMTT(20), <2>1, ScanType DEF Inv, SeqsOK, ScanOK
        <3>2. DrawnBy(render[r], z)
            BY <2>2, <3>1, EntryOfFill DEF DrawnBy
        <3> QED
            BY SMTT(20), <1>1, <1>2, <3>2 DEF Drawn, Inv, SeqsOK
    <2> QED
        BY <2>1, <2>2
<1>3. EntryOf(r).seq < next_seq
    BY SMTT(20), <1>0, EntryOfFill DEF Inv, SeqsOK
<1>4. ASSUME NEW f \in Backing(k, EntryOf(r))
      PROVE  1 <= f.seq /\ f.seq = EntryOf(r).seq
    <2>1. EntryOf(r).seq # 0 /\ f = FileOf(k, EntryOf(r))
        BY <1>4 DEF Backing
    <2> QED
        BY SMTT(20), <1>0, <2>1, EntryOfFill, FileOfType
<1>5. ASSUME NEW f \in files' \cup unlinking'
      PROVE  1 <= f.seq /\ f.seq < next_seq' /\ \A z \in Nat : Drawn(z)' => f.seq # z
    <2>1. CASE f \in files \cup unlinking
        BY <1>2, <2>1 DEF Inv, SeqsOK
    <2>2. CASE f \in Backing(k, EntryOf(r))
        BY <1>2, <1>3, <1>4, <2>2
    <2>3. CASE f \in Backing(k, index[k])
        <3>1. index[k] # None /\ f.seq = index[k].seq /\ f.seq # 0 /\ f.seq \in Nat
            BY SMTT(20), <2>3, BackingType, EntryType DEF Inv
        <3>2. 1 <= f.seq
            BY SMTT(20), <3>1
        <3> QED
            BY <1>2, <3>1, <3>2 DEF Inv, SeqsOK
    <2> QED
        BY <1>5, <2>1, <2>2, <2>3
<1>6. ASSUME NEW j \in Keys, index'[j] # None
      PROVE  index'[j].seq < next_seq' /\ \A z \in Nat : Drawn(z)' => index'[j].seq # z
    BY <1>2, <1>3, <1>6 DEF Inv, SeqsOK
<1>7. \A z \in Nat : Drawn(z)' => scan'.base <= z /\ z < next_seq'
    BY <1>2 DEF Inv, SeqsOK
<1>8. \A p, q \in Renders : \A z \in Nat : DrawnBy(render'[p], z) /\ DrawnBy(render'[q], z) => p = q
    BY <1>1 DEF Inv, SeqsOK
<1>9. \A q \in Renders : job' # None => ~ DrawnBy(render'[q], job'.seq)
    BY <1>1 DEF Inv, SeqsOK, TypeOK, Jobs
<1> QED
    BY <1>5, <1>6, <1>7, <1>8, <1>9 DEF SeqsOK, DrawnBy

\* A store that no purge has overtaken installs a fresh entry.
LEMMA StoreInstalledInv ==
    ASSUME Inv, NEW r \in Renders, StoreInstalled(r)
    PROVE  Inv'
<1>0. PICK k \in Keys, e \in Entries : k = render[r].key /\ e = EntryOf(r)
    BY EntryOfFill DEF StoreInstalled
<1>1. /\ render[r].pc = "prepared" /\ purger = None /\ ~ Locked(k) /\ ~ StoreVetoed(r)
      /\ index' = [index EXCEPT ![k] = e]
      /\ tag_index' = Retag(tag_index, k, e.tags)
      /\ files' = files \cup Backing(k, e)
      /\ unlinking' = QueueUnlink(k)
      /\ render' = [render EXCEPT ![r] = Idle]
    BY <1>0 DEF StoreInstalled
<1>2. UNCHANGED <<envVars, ghostVars, epochVars, purger, next_seq, wallVars, scanVars, job>>
    BY DEF StoreInstalled
<1>3. /\ e.tags \subseteq Tags /\ e.seq \in Nat
      /\ e.seq # 0 => Drawn(e.seq)
      /\ e.stored \in 1..clock /\ e.epoch <= purge_seq
      /\ version + e.epoch <= e.ver + purge_seq
      /\ Meets(e.tags, e.ver)
    BY <1>0, <1>1, EntryOfFill DEF Entries
<1>4. /\ index \in [Keys -> Entries \cup {None}] /\ tag_index \in [Tags -> SUBSET Keys]
      /\ render \in [Renders -> Fills]
    BY DEF Inv, TypeOK
<1>5. index'[k] = e /\ e # None /\ \A j \in Keys \ {k} : index'[j] = index[j]
    BY <1>1, <1>4, PageStoreAssumption
<1>6. /\ tag_index' \in [Tags -> SUBSET Keys]
      /\ \A t \in Tags : \A j : j \in tag_index'[t] <=> \/ j = k /\ t \in e.tags
                                                        \/ j # k /\ j \in tag_index[t]
    BY SMTT(20), <1>1, <1>3, <1>4, RetagSpec
<1>7. Backing(k, e) \subseteq {FileOf(k, e)} /\ FileOf(k, e) \in Files
    BY FileOfType DEF Backing
<1>8. \A q \in Renders : render'[q] = IF q = r THEN Idle ELSE render[q]
    BY <1>1, <1>4
<1>9. TypeOK'
    <2>1. index' \in [Keys -> Entries \cup {None}] /\ render' \in [Renders -> Fills]
        BY <1>1, <1>4, IdleFill DEF Inv
    <2>2. files' \subseteq Files /\ unlinking' \subseteq Files
        BY SMTT(20), <1>1, <1>7, BackingType DEF Inv, TypeOK
    <2> QED
        BY <1>2, <1>6, <2>1, <2>2 DEF Inv, TypeOK, envVars, ghostVars, epochVars, wallVars, scanVars
<1>10. Bounds' /\ PurgeOK' /\ TagPurgeOK' /\ AllPurgeOK' /\ DurableOK'
    BY <1>1, <1>2, PurgesStill DEF Inv, envVars, wallVars, scanVars
<1>11. FillsOK'
    <2>1. \A q \in Renders : FillOK(render'[q])
        BY <1>8, IdleFill DEF Inv, FillsOK
    <2> QED
        BY <1>2, <2>1 DEF FillsOK, FillOK, Meets, PurgedAfter, envVars, ghostVars, epochVars
<1>12. EntriesOK'
    <2> SUFFICES ASSUME NEW j \in Keys PROVE EntryOK(j)'
        BY DEF EntriesOK
    <2>1. CASE j = k
        <3>1. Meets(e.tags, e.ver)'
            BY <1>2, <1>3 DEF Meets, ghostVars
        <3>2. purger' = None
            BY <1>1, <1>2
        <3> QED
            BY <1>2, <1>3, <1>5, <2>1, <3>1, <3>2 DEF EntryOK, Awaits, Meets, envVars, ghostVars, epochVars
    <2>2. CASE j # k
        <3>1. index'[j] = index[j] /\ EntryOK(j)
            BY <1>5, <2>2 DEF Inv, EntriesOK
        <3>2. Installing(j) => Installing(j)'
            BY <1>2 DEF Installing, scanVars
        <3>3. Awaits(j)'
            BY <1>1, <1>2 DEF Awaits
        <3> QED
            BY <1>2, <3>1, <3>2, <3>3, EntryStill DEF envVars, ghostVars, epochVars
    <2> QED
        BY <2>1, <2>2
<1>13. TagsOK'
    <2> SUFFICES ASSUME NEW j \in Keys, NEW t \in Tags PROVE TagOK(j, t)'
        BY DEF TagsOK
    <2>1. ~ TakenOut(j, t)
        BY <1>1 DEF TakenOut
    <2>2. TagOK(j, t)
        BY DEF Inv, TagsOK
    <2> QED
        BY <1>5, <1>6, <2>1, <2>2 DEF TagOK
<1>14. ScanOK'
    <2>1. \A j \in Keys : Installing(j) => index'[j] = index[j]
        BY <1>1, <1>5 DEF Installing, Locked
    <2> QED
        BY SMTT(20), <1>2, <2>1, NatTypes, ScanType, FileType, ScanStill DEF Inv, envVars, ghostVars, wallVars, scanVars
<1>15. FilesOK'
    <2>1. PICK g \in Files : g = FileOf(k, e)
        BY <1>7
    <2>2. g.stored = e.stored /\ g.tags = e.tags /\ g.ver = e.ver
        BY <2>1, FileOfType
    <2>3. files' \subseteq files \cup {g}
        BY <1>1, <1>7, <2>1
    <2> QED
        BY <1>1, <1>2, <1>3, <2>2, <2>3, Published DEF envVars, ghostVars, wallVars
<1>16. SeqsOK'
    BY <1>0, <1>1, <1>2, <1>5, SeqsAfterStore DEF QueueUnlink, scanVars
<1>17. BodiesOK'
    <2> SUFFICES ASSUME NEW j \in Keys, index'[j] # None, scan.base <= index'[j].seq
                 PROVE  FileOf(j, index'[j]) \in files' \ unlinking'
        BY <1>2 DEF BodiesOK, BodyOK, FileOf, scanVars
    <2>1. CASE j = k
        <3>0. scan.base \in Nat /\ 1 <= scan.base /\ scan.base <= e.seq
            BY <1>5, <2>1, ScanType DEF Inv, ScanOK
        <3>1. e.seq # 0
            BY SMTT(20), <1>3, <3>0
        <3>2. FileOf(k, e) \in files' /\ FileOf(k, e).seq = e.seq
            BY <1>1, <1>5, <3>1, FileOfType DEF Backing
        <3>3. FileOf(k, e) \notin unlinking
            BY <1>3, <3>1, <3>2 DEF Inv, SeqsOK
        <3>4. FileOf(k, e) \notin Backing(k, index[k])
            BY SMTT(20), <1>3, <3>1, <3>2, BackingType DEF Inv, SeqsOK
        <3> QED
            BY SMTT(20), <1>1, <1>5, <2>1, <3>2, <3>3, <3>4 DEF QueueUnlink
    <2>2. CASE j # k
        <3>1. index'[j] = index[j] /\ FileOf(j, index[j]).key = j
            BY SMTT(20), <1>5, <2>2, EntryType, FileOfType DEF Inv
        <3>2. FileOf(j, index[j]) \in files \ unlinking
            BY <3>1 DEF Inv, BodiesOK, BodyOK
        <3>3. FileOf(j, index[j]) \notin Backing(k, index[k])
            BY <2>2, <3>1, BackingType DEF Inv
        <3> QED
            BY SMTT(20), <1>1, <3>1, <3>2, <3>3 DEF QueueUnlink
    <2> QED
        BY <2>1, <2>2
<1>18. NoStrandedFile'
    <2> SUFFICES ASSUME NEW f \in files'
                 PROVE  \/ f \in unlinking' \cup scan.pending
                        \/ loader # None /\ loader.file = f
                        \/ f \in Backing(f.key, index'[f.key])
        BY <1>2 DEF NoStrandedFile, Backing, FileOf, scanVars
    <2>1. CASE f \in Backing(k, e)
        <3>1. f.key = k
            BY SMTT(20), <1>7, <2>1, FileOfType
        <3> QED
            BY <1>5, <2>1, <3>1
    <2>2. CASE f \in files /\ f \in Backing(f.key, index[f.key])
        <3>1. f.key \in Keys
            BY <2>2, FileType DEF Inv, TypeOK
        <3> QED
            BY <1>1, <1>5, <2>2, <3>1 DEF QueueUnlink
    <2>3. CASE f \in files /\ f \notin Backing(f.key, index[f.key])
        BY <1>1, <2>3 DEF Inv, NoStrandedFile, QueueUnlink
    <2> QED
        BY <1>1, <2>1, <2>2, <2>3
<1> QED
    BY <1>9, <1>10, <1>11, <1>12, <1>13, <1>14, <1>15, <1>16, <1>17, <1>18 DEF Inv

\* A store that the budget refuses leaves the predecessor, and takes its own file away.
LEMMA StoreRefusedInv ==
    ASSUME Inv, NEW r \in Renders, StoreRefused(r)
    PROVE  Inv'
<1>0. PICK k \in Keys, e \in Entries : k = render[r].key /\ e = EntryOf(r)
    BY EntryOfFill DEF StoreRefused
<1>1. /\ render[r].pc = "prepared" /\ purger = None /\ ~ StoreVetoed(r)
      /\ files' = files \cup Backing(k, e)
      /\ unlinking' = unlinking \cup Backing(k, e)
      /\ render' = [render EXCEPT ![r] = Idle]
    BY <1>0 DEF StoreRefused
<1>2. UNCHANGED <<envVars, ghostVars, epochVars, index, tag_index, purger, next_seq, wallVars, scanVars, job>>
    BY DEF StoreRefused
<1>3. /\ e.seq \in Nat
      /\ e.seq # 0 => Drawn(e.seq)
      /\ e.stored \in 1..clock
      /\ Meets(e.tags, e.ver)
    BY <1>0, <1>1, EntryOfFill DEF Entries
<1>4. render \in [Renders -> Fills]
    BY DEF Inv, TypeOK
<1>5. Backing(k, e) \subseteq {FileOf(k, e)} /\ FileOf(k, e) \in Files
    BY FileOfType DEF Backing
<1>6. \A q \in Renders : render'[q] = IF q = r THEN Idle ELSE render[q]
    BY <1>1, <1>4
<1>7. TypeOK'
    <2>1. render' \in [Renders -> Fills]
        BY <1>1, <1>4, IdleFill DEF Inv
    <2>2. files' \subseteq Files /\ unlinking' \subseteq Files
        BY <1>1, <1>5 DEF Inv, TypeOK
    <2> QED
        BY <1>2, <2>1, <2>2 DEF Inv, TypeOK, envVars, ghostVars, epochVars, wallVars, scanVars
<1>8. Bounds' /\ PurgeOK' /\ TagPurgeOK' /\ AllPurgeOK' /\ DurableOK'
    BY <1>1, <1>2, PurgesStill DEF Inv, envVars, wallVars, scanVars
<1>9. FillsOK'
    <2>1. \A q \in Renders : FillOK(render'[q])
        BY <1>6, IdleFill DEF Inv, FillsOK
    <2> QED
        BY <1>2, <2>1 DEF FillsOK, FillOK, Meets, PurgedAfter, envVars, ghostVars, epochVars
<1>10. EntriesOK' /\ TagsOK'
    BY <1>2, EntriesStill, TagsStill DEF Inv, envVars, ghostVars, epochVars, scanVars
<1>11. ScanOK'
    BY SMTT(20), <1>2, NatTypes, ScanType, FileType, ScanStill DEF Inv, envVars, ghostVars, wallVars, scanVars
<1>12. FilesOK'
    <2>1. PICK g \in Files : g = FileOf(k, e)
        BY <1>5
    <2>2. g.stored = e.stored /\ g.tags = e.tags /\ g.ver = e.ver
        BY <2>1, FileOfType
    <2>3. files' \subseteq files \cup {g}
        BY <1>1, <1>5, <2>1
    <2> QED
        BY <1>1, <1>2, <1>3, <2>2, <2>3, Published DEF envVars, ghostVars, wallVars
<1>13. SeqsOK'
    BY <1>0, <1>1, <1>2, SeqsAfterStore DEF scanVars
<1>14. BodiesOK'
    <2>1. ASSUME NEW j \in Keys, index[j] # None
          PROVE  FileOf(j, index[j]) \notin Backing(k, e)
        <3>1. FileOf(j, index[j]).seq = index[j].seq
            BY <2>1, EntryType, FileOfType DEF Inv
        <3>2. e.seq # 0 => index[j].seq # e.seq
            BY <1>3, <2>1 DEF Inv, SeqsOK
        <3>3. FileOf(k, e).seq = e.seq
            BY FileOfType
        <3> QED
            BY <3>1, <3>2, <3>3 DEF Backing
    <2> QED
        BY <1>1, <1>2, <2>1, BodiesStill DEF Inv, scanVars
<1>15. NoStrandedFile'
    BY <1>1, <1>2 DEF Inv, NoStrandedFile, Backing, FileOf, scanVars
<1> QED
    BY <1>7, <1>8, <1>9, <1>10, <1>11, <1>12, <1>13, <1>14, <1>15 DEF Inv

\* The recompression draws a sequence number of its own.
LEMMA RecompressPrepareInv ==
    ASSUME Inv, NEW k \in Keys, RecompressPrepare(k)
    PROVE  Inv'
<1>0. next_seq \in Nat /\ next_seq' = next_seq + 1 /\ index[k] \in Entries
    BY NatTypes, EntryType DEF Inv, RecompressPrepare
<1>1. next_seq' \in Nat /\ next_seq <= next_seq'
    BY SMTT(20), <1>0
<1>2. job = None /\ job' \in Jobs /\ job' # None /\ job'.seq = next_seq
    BY SMTT(20), <1>0, PageStoreAssumption DEF RecompressPrepare, Jobs
<1>3. UNCHANGED <<envVars, ghostVars, epochVars, index, tag_index, render, purger, files, unlinking, wallVars, scanVars>>
    BY DEF RecompressPrepare
<1>4. TypeOK'
    BY <1>1, <1>2, <1>3 DEF Inv, TypeOK, envVars, ghostVars, epochVars, wallVars, scanVars
<1>5. Bounds' /\ PurgeOK' /\ TagPurgeOK' /\ AllPurgeOK' /\ DurableOK'
    BY <1>3, PurgesStill DEF Inv, envVars, wallVars, scanVars
<1>6. FillsOK'
    BY <1>3, FillsStill DEF Inv, envVars, ghostVars, epochVars
<1>7. EntriesOK' /\ TagsOK'
    BY <1>3, EntriesStill, TagsStill DEF Inv, envVars, ghostVars, epochVars, scanVars
<1>8. ScanOK'
    BY <1>0, <1>1, <1>3, ScanType, FileType, ScanStill DEF Inv, envVars, ghostVars, wallVars, scanVars
<1>9. FilesOK'
    BY <1>3, FilesStill DEF Inv, envVars, ghostVars, wallVars
<1>10. SeqsOK'
    <2>1. \A q \in Renders, z \in Nat : DrawnBy(render'[q], z) => DrawnBy(render[q], z) /\ Drawn(z)
        BY <1>3 DEF DrawnBy, Drawn
    <2>2. \A z \in Nat : Drawn(z)' => Drawn(z) \/ (z = next_seq /\ next_seq' = next_seq + 1)
        BY <1>0, <1>2, <2>1 DEF Drawn
    <2>3. \A z \in Nat : Drawn(z) => z # next_seq
        BY SMTT(20), <1>0 DEF Inv, SeqsOK
    <2>4. \A q \in Renders : ~ DrawnBy(render'[q], job'.seq)
        BY <1>0, <1>2, <2>1, <2>3
    <2>5. \A p, q \in Renders : \A z \in Nat : DrawnBy(render'[p], z) /\ DrawnBy(render'[q], z) => p = q
        BY <2>1 DEF Inv, SeqsOK
    <2> QED
        BY <1>1, <1>3, <2>2, <2>4, <2>5, SeqsAfterDraw DEF scanVars
<1>11. BodiesOK'
    BY <1>3, BodiesStill DEF Inv, scanVars
<1>12. NoStrandedFile'
    BY <1>3 DEF Inv, NoStrandedFile, Backing, FileOf, scanVars
<1> QED
    BY <1>4, <1>5, <1>6, <1>7, <1>8, <1>9, <1>10, <1>11, <1>12 DEF Inv

\* A recompression that finds another version gives up.
LEMMA RecompressBailInv ==
    ASSUME Inv, RecompressBail
    PROVE  Inv'
<1>1. UNCHANGED <<envVars, ghostVars, epochVars, index, tag_index, render, purger, diskVars, wallVars, scanVars>>
    BY DEF RecompressBail
<1>2. job' = None
    BY DEF RecompressBail
<1>3. TypeOK'
    BY <1>1, <1>2 DEF Inv, TypeOK, envVars, ghostVars, epochVars, diskVars, wallVars, scanVars
<1>4. Bounds' /\ PurgeOK' /\ TagPurgeOK' /\ AllPurgeOK' /\ DurableOK'
    BY <1>1, PurgesStill DEF Inv, envVars, diskVars, wallVars, scanVars
<1>5. FillsOK'
    BY <1>1, FillsStill DEF Inv, envVars, ghostVars, epochVars
<1>6. EntriesOK' /\ TagsOK'
    BY <1>1, EntriesStill, TagsStill DEF Inv, envVars, ghostVars, epochVars, scanVars
<1>7. ScanOK'
    BY SMTT(20), <1>1, NatTypes, ScanType, FileType, ScanStill DEF Inv, envVars, ghostVars, diskVars, wallVars, scanVars
<1>8. FilesOK'
    BY <1>1, FilesStill DEF Inv, envVars, ghostVars, diskVars, wallVars
<1>9. SeqsOK'
    <2>1. \A z \in Nat : Drawn(z)' => Drawn(z)
        BY <1>1, <1>2 DEF Drawn, DrawnBy
    <2> QED
        BY <1>1, <1>2, <2>1 DEF Inv, SeqsOK, DrawnBy, diskVars, scanVars
<1>10. BodiesOK'
    BY <1>1, BodiesStill DEF Inv, diskVars, scanVars
<1>11. NoStrandedFile'
    BY <1>1 DEF Inv, NoStrandedFile, Backing, FileOf, diskVars, scanVars
<1> QED
    BY <1>3, <1>4, <1>5, <1>6, <1>7, <1>8, <1>9, <1>10, <1>11 DEF Inv

\* The swap of a compressed container for the version it was made from.
LEMMA RecompressCommitInv ==
    ASSUME Inv, NEW kept \in BOOLEAN, RecompressCommit(kept)
    PROVE  Inv'
<1>0. /\ job # None /\ job \in Jobs /\ job.key \in Keys /\ job.entry \in Entries /\ job.seq \in Nat
      /\ Drawn(job.seq)
    BY DEF Inv, TypeOK, Jobs, RecompressCommit, Drawn
<1>1. PICK k \in Keys : k = job.key
    BY <1>0
<1>2. /\ purger = None /\ ~ Locked(k)
      /\ SameVersion(index[k], job.entry) /\ job' = None
      /\ UNCHANGED <<envVars, ghostVars, epochVars, render, purger, next_seq, wallVars, scanVars>>
    BY <1>1 DEF RecompressCommit
<1>3. index[k] # None /\ index[k] \in Entries
    BY <1>2, EntryType DEF SameVersion, Inv
<1>4. PICK e : e = [index[k] EXCEPT !.ver = job.entry.ver, !.seq = job.seq, !.gen = 1]
    OBVIOUS
<1>5. /\ e \in Entries /\ e.seq = job.seq /\ e.epoch = index[k].epoch
      /\ e.tags = index[k].tags /\ e.ver = index[k].ver /\ e.stored = index[k].stored
    BY <1>0, <1>2, <1>3, <1>4 DEF Entries, SameVersion
<1>6. PICK g \in Files : g = FileOf(k, e)
    BY <1>5, FileOfType
<1>7. g = FileOf(k, [job.entry EXCEPT !.seq = job.seq, !.gen = 1])
    BY <1>0, <1>2, <1>3, <1>4, <1>6 DEF FileOf, Entries, SameVersion
<1>8. /\ index' = [index EXCEPT ![k] = IF kept THEN e ELSE None]
      /\ tag_index' = IF kept THEN tag_index ELSE WithoutKey(tag_index, k)
      /\ files' = files \cup {g}
      /\ unlinking' = QueueUnlink(k) \cup (IF kept THEN {} ELSE {g})
    BY <1>1, <1>4, <1>7 DEF RecompressCommit
<1>9. g.key = k /\ g.tags = e.tags /\ g.ver = e.ver /\ g.stored = e.stored /\ g.seq = job.seq
    BY <1>5, <1>6, FileOfType
<1>10. index \in [Keys -> Entries \cup {None}] /\ tag_index \in [Tags -> SUBSET Keys]
    BY DEF Inv, TypeOK
<1>11. /\ \A j \in Keys \ {k} : index'[j] = index[j]
       /\ index'[k] = IF kept THEN e ELSE None
       /\ e # None
    BY <1>5, <1>8, <1>10, PageStoreAssumption
<1>12. EntryOK(k) /\ ~ Installing(k)
    BY <1>2 DEF Inv, EntriesOK, Installing, Locked
<1>13. Meets(e.tags, e.ver) /\ e.stored \in 1..clock
    BY <1>3, <1>5, <1>12 DEF EntryOK
<1>14. TypeOK'
    <2>1. index' \in [Keys -> Entries \cup {None}]
        BY <1>5, <1>8, <1>10
    <2>2. tag_index' \in [Tags -> SUBSET Keys]
        BY <1>8, <1>10, WithoutKeySpec
    <2>3. files' \subseteq Files /\ unlinking' \subseteq Files
        BY <1>6, <1>8, BackingType DEF Inv, TypeOK
    <2> QED
        BY <1>2, <2>1, <2>2, <2>3 DEF Inv, TypeOK, envVars, ghostVars, epochVars, wallVars, scanVars
<1>15. Bounds' /\ PurgeOK' /\ TagPurgeOK' /\ AllPurgeOK' /\ DurableOK'
    BY <1>2, PurgesStill DEF Inv, envVars, wallVars, scanVars
<1>16. FillsOK'
    BY <1>2, FillsStill DEF Inv, envVars, ghostVars, epochVars
<1>17. EntriesOK'
    <2> SUFFICES ASSUME NEW j \in Keys PROVE EntryOK(j)'
        BY DEF EntriesOK
    <2>1. CASE j = k
        BY <1>2, <1>3, <1>5, <1>11, <1>12, <1>13, <2>1 DEF EntryOK, Awaits, Meets, envVars, ghostVars, epochVars
    <2>2. CASE j # k
        <3>1. index'[j] = index[j] /\ EntryOK(j)
            BY <1>11, <2>2 DEF Inv, EntriesOK
        <3>2. Installing(j) => Installing(j)'
            BY <1>2 DEF Installing, scanVars
        <3>3. Awaits(j)'
            BY <1>2 DEF Awaits
        <3> QED
            BY <1>2, <3>1, <3>2, <3>3, EntryStill DEF envVars, ghostVars, epochVars
    <2> QED
        BY <2>1, <2>2
<1>18. TagsOK'
    <2> SUFFICES ASSUME NEW j \in Keys, NEW t \in Tags PROVE TagOK(j, t)'
        BY DEF TagsOK
    <2>1. ~ TakenOut(j, t) /\ TagOK(j, t)
        BY <1>2 DEF TakenOut, Inv, TagsOK
    <2>2. CASE kept
        BY <1>3, <1>5, <1>8, <1>11, <2>1, <2>2 DEF TagOK
    <2>3. CASE ~ kept
        BY SMTT(20), <1>8, <1>10, <1>11, <2>1, <2>3, WithoutKeySpec DEF TagOK
    <2> QED
        BY <2>2, <2>3
<1>19. ScanOK'
    <2>1. \A j \in Keys : Installing(j) => index'[j] = index[j]
        BY <1>11, <1>12
    <2> QED
        BY SMTT(20), <1>2, <2>1, NatTypes, ScanType, FileType, ScanStill DEF Inv, envVars, ghostVars, wallVars, scanVars
<1>20. FilesOK'
    BY <1>2, <1>8, <1>9, <1>13, Published DEF envVars, ghostVars, wallVars
<1>21. SeqsOK'
    <2>1. \A z \in Nat : Drawn(z)' => Drawn(z) /\ z # job.seq
        BY <1>0, <1>2 DEF Drawn, DrawnBy, Inv, SeqsOK
    <2>2. /\ scan.base \in Nat /\ 1 <= scan.base /\ scan.base <= job.seq /\ job.seq < next_seq /\ next_seq \in Nat
        BY <1>0, ScanType, NatTypes DEF Inv, SeqsOK, ScanOK
    <2>3. 1 <= job.seq
        BY SMTT(20), <1>0, <2>2
    <2>4. ASSUME NEW f \in files' \cup unlinking'
          PROVE  1 <= f.seq /\ f.seq < next_seq /\ \A z \in Nat : Drawn(z)' => f.seq # z
        <3>1. CASE f = g
            BY <1>9, <2>1, <2>2, <2>3, <3>1
        <3>2. CASE f \in files \cup unlinking
            BY <2>1, <3>2 DEF Inv, SeqsOK
        <3>3. CASE f \in Backing(k, index[k])
            <4>1. f.seq = index[k].seq /\ f.seq # 0 /\ f.seq \in Nat
                BY <1>3, <3>3, BackingType, EntryType DEF Inv
            <4>2. 1 <= f.seq
                BY SMTT(20), <4>1
            <4> QED
                BY <1>3, <2>1, <4>1, <4>2 DEF Inv, SeqsOK
        <3> QED
            BY <1>8, <2>4, <3>1, <3>2, <3>3 DEF QueueUnlink
    <2>5. ASSUME NEW j \in Keys, index'[j] # None
          PROVE  index'[j].seq < next_seq /\ \A z \in Nat : Drawn(z)' => index'[j].seq # z
        BY SMTT(20), <1>5, <1>11, <2>1, <2>2, <2>5 DEF Inv, SeqsOK
    <2>6. \A z \in Nat : Drawn(z)' => scan.base <= z /\ z < next_seq
        BY <2>1 DEF Inv, SeqsOK
    <2> QED
        BY <1>2, <2>4, <2>5, <2>6 DEF Inv, SeqsOK, DrawnBy, scanVars
<1>22. BodiesOK'
    <2> SUFFICES ASSUME NEW j \in Keys, index'[j] # None, scan.base <= index'[j].seq
                 PROVE  FileOf(j, index'[j]) \in files' \ unlinking'
        BY <1>2 DEF BodiesOK, BodyOK, FileOf, scanVars
    <2>1. CASE j = k
        <3>1. kept /\ index'[j] = e
            BY <1>11, <2>1
        <3>2. g \notin unlinking /\ g \notin Backing(k, index[k])
            BY SMTT(20), <1>0, <1>3, <1>9, BackingType DEF Inv, SeqsOK
        <3> QED
            BY SMTT(20), <1>6, <1>8, <2>1, <3>1, <3>2 DEF QueueUnlink
    <2>2. CASE j # k
        <3>1. index'[j] = index[j] /\ FileOf(j, index[j]).key = j
            BY SMTT(20), <1>11, <2>2, EntryType, FileOfType DEF Inv
        <3>2. FileOf(j, index[j]) \in files \ unlinking
            BY <3>1 DEF Inv, BodiesOK, BodyOK
        <3>3. FileOf(j, index[j]) \notin Backing(k, index[k]) /\ FileOf(j, index[j]) # g
            BY <1>9, <2>2, <3>1, BackingType DEF Inv
        <3> QED
            BY SMTT(20), <1>8, <3>1, <3>2, <3>3 DEF QueueUnlink
    <2> QED
        BY <2>1, <2>2
<1>23. NoStrandedFile'
    <2> SUFFICES ASSUME NEW f \in files'
                 PROVE  \/ f \in unlinking' \cup scan.pending
                        \/ loader # None /\ loader.file = f
                        \/ f \in Backing(f.key, index'[f.key])
        BY <1>2 DEF NoStrandedFile, Backing, FileOf, scanVars
    <2>1. CASE f = g /\ kept
        <3>1. e.seq # 0
            BY SMTT(20), <1>0, <1>5, ScanType DEF Inv, SeqsOK, ScanOK
        <3> QED
            BY <1>6, <1>9, <1>11, <2>1, <3>1 DEF Backing
    <2>2. CASE f = g /\ ~ kept
        BY <1>8, <2>2
    <2>3. CASE f \in files /\ f \in Backing(f.key, index[f.key])
        <3>1. f.key \in Keys
            BY <2>3, FileType DEF Inv, TypeOK
        <3> QED
            BY <1>8, <1>11, <2>3, <3>1 DEF QueueUnlink
    <2>4. CASE f \in files /\ f \notin Backing(f.key, index[f.key])
        BY <1>8, <2>4 DEF Inv, NoStrandedFile, QueueUnlink
    <2> QED
        BY <1>8, <2>1, <2>2, <2>3, <2>4
<1> QED
    BY <1>14, <1>15, <1>16, <1>17, <1>18, <1>19, <1>20, <1>21, <1>22, <1>23 DEF Inv

=============================================================================
