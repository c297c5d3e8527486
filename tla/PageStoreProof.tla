--------------------------- MODULE PageStoreProof ---------------------------
(***************************************************************************)
(* What PageStore promises, for any sets of keys, tags and fills and any    *)
(* bounds: no finished purge is undone (NoStaleAfterPurge), the tag index   *)
(* matches the entries (TagIndexMatches), an entry of this process keeps    *)
(* its body file (BodyPresent) and no container is stranded                 *)
(* (NoStrandedFile), across purges, fills, boot scans and restarts.         *)
(* Here purges, the boot scan and restarts keep the invariant.              *)
(***************************************************************************)
EXTENDS PageStoreInvariant

\* Leaves are set and function reasoning; one that needs more says SMTT.
USE ZenonT(30)

------------------------------------------------------------------------------
(* purge_tags. *)

\* The boot scan beside a step that moves clocks, purges or stamps and not the scan.
LEMMA ScanStays ==
    ASSUME Inv, clock' \in Nat, clock <= clock', UNCHANGED <<loader, index, next_seq>>,
           scan'.buffer = scan.buffer, scan'.pending = scan.pending,
           scan'.stamp = scan.stamp, scan'.base = scan.base,
           \A f \in Files : scan.buffer /\ ScannedOK(f) => (Meets(f.tags, f.ver) \/ ScanVetoed(f))'
    PROVE  ScanOK'
<1>1. ASSUME NEW f \in Files, scan.buffer, ScannedOK(f)
      PROVE  ScannedOK(f)'
    <2>1. f.stored \in 1..clock'
        BY SMTT(20), <1>1, NatTypes, FileType DEF ScannedOK, Inv
    <2> QED
        BY <1>1, <2>1 DEF ScannedOK
<1>2. \A f \in scan'.pending : scan'.buffer /\ ScannedOK(f)'
    BY <1>1, ScanType DEF Inv, ScanOK
<1>3. ASSUME loader # None
      PROVE  scan'.buffer /\ ScannedOK(loader.file)'
    <2>1. PICK f \in Files : f = loader.file /\ f = loader'.file
        BY <1>3, ScanType DEF Inv
    <2>2. ScannedOK(f)'
        BY <1>1, <1>3, <2>1 DEF Inv, ScanOK
    <2> QED
        BY <1>3, <2>1, <2>2 DEF Inv, ScanOK, ScannedOK, Meets, ScanVetoed, TagPurgedSinceWall, Buffered
<1> QED
    BY <1>2, <1>3 DEF Inv, ScanOK, Loaded

\* A purge of tags begins.
LEMMA PurgeTagsInv ==
    ASSUME Inv, NEW T \in SUBSET Tags, PurgeTags(T)
    PROVE  Inv'
<1>0. /\ version \in Nat /\ purge_seq \in Nat /\ clock \in Nat /\ reqAll \in Nat /\ durableAll \in Nat
      /\ purge_all_epoch \in Nat /\ purge_seq <= version
      /\ \A t \in Tags : req[t] \in Nat /\ durable[t] \in Nat /\ tag_purge_epoch[t] \in Nat
    BY NatTypes DEF Inv, Bounds
<1>1. version' = version + 1 /\ purge_seq' = purge_seq + 1 /\ purger = None
    BY DEF PurgeTags
<1>2. purger' = [all |-> FALSE, step |-> "tags", epoch |-> purge_seq', wall |-> clock,
                 ver |-> version', tags |-> T, todo |-> T, tag |-> None, ids |-> {}, sweeps |-> {}]
    BY DEF PurgeTags
<1>3. purger' \in Purges /\ purger' # None
    <2>1. purge_seq' \in Nat /\ version' \in Nat
        BY SMTT(20), <1>0, <1>1
    <2>2. purger' \in Purges
        BY <1>0, <1>2, <2>1 DEF Purges
    <2> QED
        BY <2>2, PageStoreAssumption
<1>4. /\ scan' \in Scans
      /\ scan'.buffer = scan.buffer /\ scan'.pending = scan.pending
      /\ scan'.stamp = scan.stamp /\ scan'.base = scan.base /\ scan'.purged_all = scan.purged_all
      /\ scan.tags \subseteq scan'.tags /\ (scan.buffer => T \subseteq scan'.tags)
    BY ScanType DEF Inv, Scans, PurgeTags
<1>5. UNCHANGED <<envVars, req, reqAll, durable, durableAll, purge_all_epoch, tag_purge_epoch,
                  tag_epoch_prune_floor, index, tag_index, render, diskVars, wallVars, loader, job>>
    BY DEF PurgeTags
<1>6. version' \in Nat /\ purge_seq' \in Nat /\ version <= version' /\ purge_seq <= purge_seq'
      /\ purge_seq' <= version' /\ 1 <= purge_seq'
    BY SMTT(20), <1>0, <1>1
<1>7. TypeOK'
    BY <1>3, <1>4, <1>5, <1>6 DEF Inv, TypeOK, envVars, diskVars, wallVars
<1>8. Bounds'
    <2>1. reqAll' <= version' /\ durableAll' <= version' /\ purge_all_epoch' <= purge_seq'
        BY SMTT(20), <1>0, <1>5, <1>6 DEF Inv, Bounds
    <2>2. \A t \in Tags : req'[t] <= version' /\ durable'[t] <= version' /\ tag_purge_epoch'[t] <= purge_seq'
        BY SMTT(20), <1>0, <1>5, <1>6 DEF Inv, Bounds
    <2> QED
        BY <1>5, <1>6, <2>1, <2>2 DEF Inv, Bounds, envVars, wallVars
<1>9. PurgeOK'
    <2>1. \A f \in files : f.stored <= clock
        BY SMTT(20), <1>0 DEF Inv, FilesOK, FileOK
    <2>2. clock <= clock
        BY SMTT(20), <1>0
    <2> QED
        BY <1>2, <1>5, <1>6, <2>1, <2>2 DEF Inv, Bounds, PurgeOK, envVars, diskVars, wallVars
<1>10. TagPurgeOK' /\ AllPurgeOK'
    BY <1>2, <1>4 DEF TagPurgeOK, AllPurgeOK
<1>11. DurableOK'
    BY <1>1, <1>5 DEF Inv, DurableOK
<1>12. FillsOK'
    <2> SUFFICES ASSUME NEW r \in Renders PROVE FillOK(render[r])'
        BY DEF FillsOK
    <2>1. FillOK(render[r]) /\ render'[r] = render[r] /\ render[r].epoch \in Nat /\ render[r].ver \in Nat
        BY <1>5, FillType DEF Inv, FillsOK, TypeOK
    <2>2. render[r].epoch <= purge_seq'
        BY SMTT(20), <1>0, <1>1, <2>1 DEF FillOK
    <2>3. version + render[r].epoch <= render[r].ver + purge_seq
              => version' + render[r].epoch <= render[r].ver + purge_seq'
        BY SMTT(20), <1>0, <1>1, <2>1
    <2> QED
        BY <1>5, <2>1, <2>2, <2>3 DEF FillOK, Meets, PurgedAfter, envVars
<1>13. EntriesOK'
    <2> SUFFICES ASSUME NEW k \in Keys, index[k] # None PROVE EntryOK(k)'
        BY <1>5 DEF EntriesOK, EntryOK
    <2>1. EntryOK(k) /\ index'[k] = index[k] /\ index[k].epoch \in Nat /\ index[k].ver \in Nat
        BY <1>5, EntryType DEF Inv, EntriesOK
    <2>2. index[k].epoch <= purge_seq'
        BY SMTT(20), <1>0, <1>1, <2>1 DEF EntryOK
    <2>3. version + index[k].epoch <= index[k].ver + purge_seq
              => version' + index[k].epoch <= index[k].ver + purge_seq'
        BY SMTT(20), <1>0, <1>1, <2>1
    <2>4. Awaits(k)'
        BY <1>2 DEF Awaits
    <2>5. Installing(k)' <=> Installing(k)
        BY <1>5 DEF Installing
    <2> QED
        BY <1>5, <2>1, <2>2, <2>3, <2>4, <2>5 DEF EntryOK, Meets, envVars
<1>14. TagsOK'
    <2>1. \A k \in Keys, t \in Tags : ~ TakenOut(k, t)
        BY <1>1 DEF TakenOut
    <2> QED
        BY <1>5, <2>1 DEF Inv, TagsOK, TagOK
<1>15. ScanOK'
    <2>1. ASSUME NEW f \in Files, scan.buffer, ScannedOK(f)
          PROVE  (Meets(f.tags, f.ver) \/ ScanVetoed(f))'
        BY <1>4, <1>5, <2>1 DEF ScannedOK, Meets, ScanVetoed, Buffered, TagPurgedSinceWall, wallVars
    <2> QED
        BY SMTT(20), <1>0, <1>4, <1>5, <2>1, ScanStays DEF envVars, diskVars
<1>16. FilesOK'
    BY <1>5, FilesStill DEF Inv, envVars, diskVars, wallVars
<1>17. SeqsOK'
    BY <1>4, <1>5, SeqsStill DEF Inv, diskVars
<1>18. BodiesOK'
    BY <1>4, <1>5, BodiesStill DEF Inv, diskVars
<1>19. NoStrandedFile'
    BY SMTT(20), <1>4, <1>5 DEF Inv, NoStrandedFile, Backing, FileOf, diskVars
<1> QED
    BY <1>7, <1>8, <1>9, <1>10, <1>11, <1>12, <1>13, <1>14, <1>15, <1>16, <1>17, <1>18, <1>19 DEF Inv

\* One tag of a purge.
LEMMA PurgeTagInv ==
    ASSUME Inv, NEW t \in Tags, NEW ok \in BOOLEAN, PurgeTag(t, ok)
    PROVE  Inv'
<1>0. /\ purger # None /\ purger \in Purges /\ purger.step = "tags" /\ ~ purger.all /\ purger.ids = {}
      /\ t \in purger.todo /\ t \in purger.tags
      /\ purger.epoch = purge_seq /\ purger.ver = version /\ purger.wall \in Nat
      /\ purger.tags \subseteq Tags
    BY PurgerType DEF Inv, PurgeTag, AllPurgeOK, TagPurgeOK, PurgeOK
<1>1. /\ version \in Nat /\ purge_seq \in Nat /\ tag_purge_epoch \in [Tags -> Nat]
      /\ peer_wall \in [Tags -> Nat] /\ durable \in [Tags -> Nat] /\ tag_index \in [Tags -> SUBSET Keys]
      /\ clock \in Nat /\ faults \in Nat
      /\ journal \in Journals /\ compact_due \in BOOLEAN
    BY NatTypes DEF Inv, TypeOK
<1>2. purger' = [purger EXCEPT !.todo = @ \ {t}, !.tag = t, !.ids = tag_index[t]]
    BY DEF PurgeTag
<1>3. /\ purger' \in Purges /\ purger' # None
      /\ purger'.all = purger.all /\ purger'.step = purger.step /\ purger'.epoch = purger.epoch
      /\ purger'.wall = purger.wall /\ purger'.ver = purger.ver /\ purger'.tags = purger.tags
      /\ purger'.todo = purger.todo \ {t} /\ purger'.tag = t /\ purger'.ids = tag_index[t]
    <2>1. tag_index[t] \subseteq Keys
        BY <1>1
    <2>2. purger' \in Purges
        BY <1>0, <1>2, <2>1 DEF Purges
    <2> QED
        BY <1>0, <1>2, <2>2, PageStoreAssumption DEF Purges
<1>4. UNCHANGED <<clock, crashes, version, req, reqAll, durableAll, purge_seq, purge_all_epoch,
                  tag_epoch_prune_floor, index, render, diskVars, purge_stamp, peer_floor, scanVars, job>>
    BY DEF PurgeTag
<1>5. \A u \in Tags : /\ tag_purge_epoch'[u] = IF u = t THEN purge_seq ELSE tag_purge_epoch[u]
                      /\ tag_index'[u] = IF u = t THEN {} ELSE tag_index[u]
    BY <1>0, <1>1 DEF PurgeTag
<1>6. /\ peer_wall' \in [Tags -> Nat]
      /\ \A u \in Tags : peer_wall[u] <= peer_wall'[u]
      /\ HasDisk => purger.wall <= peer_wall'[t]
    <2>1. Larger(peer_wall[t], purger.wall) \in Nat /\ peer_wall[t] <= Larger(peer_wall[t], purger.wall)
              /\ purger.wall <= Larger(peer_wall[t], purger.wall)
        BY SMTT(20), <1>0, <1>1 DEF Larger
    <2>2. CASE peer_wall' = [peer_wall EXCEPT ![t] = Larger(@, purger.wall)]
        BY SMTT(20), <1>1, <2>1, <2>2
    <2>3. CASE ~ HasDisk /\ peer_wall' = peer_wall
        BY SMTT(20), <1>1, <2>3
    <2> QED
        BY <2>2, <2>3 DEF PurgeTag
<1>7. /\ durable' \in [Tags -> Nat]
      /\ \A u \in Tags : durable'[u] = durable[u] \/ (u = t /\ durable'[u] = version /\ HasDisk)
    BY <1>0, <1>1 DEF PurgeTag
<1>8. /\ journal' \in Journals
      /\ journal.corrupt => journal'.corrupt
      /\ journal'.floor = journal.floor
      /\ \A u \in Tags : journal.stamps[u] <= journal'.stamps[u]
      /\ durable' = durable \/ journal'.corrupt \/ purger.wall <= journal'.stamps[t]
    <2>1. Larger(journal.stamps[t], purger.wall) \in Nat
              /\ journal.stamps[t] <= Larger(journal.stamps[t], purger.wall)
              /\ purger.wall <= Larger(journal.stamps[t], purger.wall)
        BY SMTT(20), <1>0, <1>1 DEF Larger, Journals
    <2>2. CASE journal' = [journal EXCEPT !.stamps[t] = Larger(@, purger.wall)]
        BY SMTT(20), <1>1, <2>1, <2>2 DEF Journals
    <2>3. CASE journal' = journal /\ (journal.corrupt \/ durable' = durable)
        BY SMTT(20), <1>1, <2>3 DEF Journals
    <2>4. CASE journal' = [journal EXCEPT !.corrupt = TRUE]
        <3>1. journal' \in Journals /\ journal'.corrupt /\ journal'.floor = journal.floor
              /\ journal'.stamps = journal.stamps
            BY <1>1, <2>4, JournalType
        <3>2. \A u \in Tags : journal.stamps[u] <= journal.stamps[u]
            BY SMTT(20), <1>1, JournalType
        <3> QED
            BY <3>1, <3>2
    <2> QED
        BY <2>2, <2>3, <2>4 DEF PurgeTag, AppendStamp
<1>9. TypeOK'
    <2>0. compact_due' \in BOOLEAN
        BY <1>1 DEF PurgeTag
    <2>1. faults' \in Nat
        BY SMTT(20), <1>1 DEF PurgeTag
    <2>2. tag_purge_epoch' \in [Tags -> Nat] /\ tag_index' \in [Tags -> SUBSET Keys]
        BY <1>0, <1>1 DEF PurgeTag
    <2> QED
        BY <1>3, <1>4, <1>6, <1>7, <1>8, <2>0, <2>1, <2>2 DEF Inv, TypeOK, diskVars, scanVars
<1>10. Bounds'
    <2>1. \A u \in Tags : durable'[u] <= version /\ tag_purge_epoch'[u] <= purge_seq
        BY SMTT(20), <1>1, <1>5, <1>7 DEF Inv, Bounds
    <2>2. ~ HasDisk => \A u \in Tags : durable'[u] = 0
        BY <1>7 DEF Inv, Bounds
    <2> QED
        BY <1>4, <2>1, <2>2 DEF Inv, Bounds
<1>11. PurgeOK'
    BY <1>0, <1>3, <1>4 DEF Inv, PurgeOK, diskVars
<1>12. TagPurgeOK' /\ AllPurgeOK'
    BY SMTT(20), <1>0, <1>3, <1>4, <1>5 DEF Inv, TagPurgeOK, AllPurgeOK, scanVars
<1>13. DurableOK'
    BY <1>0, <1>3, <1>4, <1>7 DEF Inv, DurableOK
<1>14. FillsOK'
    <2>1. ASSUME NEW U \in SUBSET Tags, NEW n \in Nat, PurgedAfter(U, n)
          PROVE  PurgedAfter(U, n)'
        <3>1. tag_purge_epoch[t] <= purge_seq
            BY DEF Inv, Bounds
        <3>2. \A u \in Tags : tag_purge_epoch[u] > n => tag_purge_epoch'[u] > n
            BY SMTT(20), <1>1, <1>5, <3>1
        <3> QED
            BY <1>4, <2>1, <3>2 DEF PurgedAfter
    <2>2. ASSUME NEW r \in Renders PROVE FillOK(render[r])'
        <3>1. FillOK(render[r]) /\ render'[r] = render[r] /\ render[r].tags \in SUBSET Tags /\ render[r].epoch \in Nat
            BY <1>4, FillType DEF Inv, FillsOK, TypeOK
        <3>2. PurgedAfter(render[r].tags, render[r].epoch) => PurgedAfter(render[r].tags, render[r].epoch)'
            BY <1>4, <2>1, <3>1 DEF PurgedAfter
        <3> QED
            BY <1>4, <3>1, <3>2 DEF FillOK, Meets
    <2> QED
        BY <2>2 DEF FillsOK
<1>15. EntriesOK'
    <2> SUFFICES ASSUME NEW k \in Keys PROVE EntryOK(k)'
        BY DEF EntriesOK
    <2>1. EntryOK(k) /\ index'[k] = index[k]
        BY <1>4 DEF Inv, EntriesOK
    <2>2. Installing(k) => Installing(k)'
        BY <1>4 DEF Installing, scanVars
    <2>3. index[k] # None /\ t \in index[k].tags => k \in tag_index[t]
        BY <1>0 DEF Inv, TagsOK, TagOK, TakenOut
    <2>4. index[k] # None /\ Awaits(k) => Awaits(k)'
        BY <1>0, <1>3, <1>4, <2>3 DEF Awaits
    <2> QED
        BY <1>4, <2>1, <2>2, <2>4, EntryStill
<1>16. TagsOK'
    <2> SUFFICES ASSUME NEW k \in Keys, NEW u \in Tags PROVE TagOK(k, u)'
        BY DEF TagsOK
    <2>1. TagOK(k, u) /\ ~ TakenOut(k, u)
        BY <1>0 DEF Inv, TagsOK, TakenOut
    <2> QED
        BY <1>0, <1>3, <1>4, <1>5, <2>1 DEF TagOK, TakenOut
<1>17. ASSUME NEW U \in SUBSET Tags, NEW s \in Nat, TagPurgedSinceWall(U, s)
       PROVE  TagPurgedSinceWall(U, s)'
    <2>1. \A u \in Tags : peer_wall[u] # 0 /\ peer_wall[u] >= s => peer_wall'[u] # 0 /\ peer_wall'[u] >= s
        BY SMTT(20), <1>1, <1>6
    <2> QED
        BY <1>4, <1>17, <2>1 DEF TagPurgedSinceWall
<1>18. ScanOK'
    <2>1. ASSUME NEW f \in Files, scan.buffer, ScannedOK(f)
          PROVE  (Meets(f.tags, f.ver) \/ ScanVetoed(f))'
        BY <1>4, <1>17, <2>1, FileType DEF ScannedOK, Meets, ScanVetoed, Buffered, scanVars
    <2>2. clock <= clock
        BY SMTT(20), <1>1
    <2> QED
        BY <1>1, <1>4, <2>1, <2>2, ScanStays DEF diskVars, scanVars
<1>19. FilesOK'
    <2> SUFFICES ASSUME NEW f \in files PROVE FileOK(f)'
        BY <1>4 DEF FilesOK, diskVars
    <2>1. /\ f \in Files /\ FileOK(f) /\ f.tags \subseteq Tags /\ f.stored \in Nat
          /\ 1 <= f.stored /\ f.stored <= purger.wall
        <3>1. f \in Files /\ FileOK(f) /\ f.stored <= purger.wall
            BY <1>0 DEF Inv, TypeOK, FilesOK, PurgeOK
        <3> QED
            BY SMTT(20), <1>1, <3>1, FileType DEF FileOK
    <2>2. f.stored \in 1..clock'
        BY <1>4, <2>1 DEF FileOK
    <2>3. RefusedOnDisk(f) => RefusedOnDisk(f)'
        <3>1. \A u \in Tags : journal.stamps[u] >= f.stored => journal'.stamps[u] >= f.stored
            BY SMTT(20), <1>1, <1>8, <2>1 DEF Journals
        <3> QED
            BY <1>4, <1>8, <2>1, <3>1 DEF RefusedOnDisk
    <2>4. RefusedInRam(f) => RefusedInRam(f)'
        BY <1>4, <1>17, <2>1 DEF RefusedInRam
    <2>5. CASE durable' = durable \/ t \notin f.tags
        <3>1. Honours(f) => Honours(f)'
            BY <1>4, <1>7, <2>1, <2>5 DEF Honours
        <3> QED
            BY <2>1, <2>2, <2>3, <2>4, <3>1 DEF FileOK
    <2>6. CASE durable' # durable /\ t \in f.tags
        <3>1. HasDisk
            BY <2>6 DEF PurgeTag
        <3>2. RefusedInRam(f)'
            <4>1. f.stored <= peer_wall'[t] /\ peer_wall'[t] # 0
                BY SMTT(20), <1>0, <1>6, <2>1, <3>1
            <4> QED
                BY <2>1, <2>6, <4>1 DEF RefusedInRam, TagPurgedSinceWall
        <3>3. RefusedOnDisk(f)'
            <4>1. journal'.corrupt \/ f.stored <= journal'.stamps[t]
                BY SMTT(20), <1>0, <1>8, <2>1, <2>6 DEF Journals
            <4> QED
                BY <1>8, <2>1, <2>6, <4>1 DEF RefusedOnDisk
        <3> QED
            BY <2>2, <3>2, <3>3 DEF FileOK
    <2> QED
        BY <2>5, <2>6
<1>20. SeqsOK'
    BY <1>4, SeqsStill DEF Inv, diskVars, scanVars
<1>21. BodiesOK'
    BY <1>4, BodiesStill DEF Inv, diskVars, scanVars
<1>22. NoStrandedFile'
    BY <1>4 DEF Inv, NoStrandedFile, Backing, FileOf, diskVars, scanVars
<1> QED
    BY <1>9, <1>10, <1>11, <1>12, <1>13, <1>14, <1>15, <1>16, <1>18, <1>19, <1>20, <1>21, <1>22 DEF Inv

\* One member of a purged tag.
LEMMA PurgeMemberInv ==
    ASSUME Inv, NEW k \in Keys, PurgeMember(k)
    PROVE  Inv'
<1>0. /\ purger # None /\ purger \in Purges /\ purger.step = "tags" /\ ~ purger.all /\ k \in purger.ids
      /\ purger.epoch = purge_seq /\ purger.ids \subseteq Keys /\ purger.sweeps \subseteq Files
      /\ purge_seq \in Nat /\ version \in Nat /\ 1 <= purge_seq
      /\ ~ Locked(k) /\ ~ Installing(k)
    BY PurgerType, NatTypes DEF Inv, PurgeMember, AllPurgeOK, PurgeOK, Locked, Installing
<1>1. UNCHANGED <<envVars, ghostVars, epochVars, render, files, next_seq, wallVars, scanVars, job>>
    BY DEF PurgeMember
<1>2. CASE index[k] # None /\ purger.tag \in index[k].tags /\ index[k].epoch < purger.epoch
    <2>1. PICK S \in SUBSET Files : S = purger.sweeps \cup Backing(k, index[k])
        BY <1>0, BackingType DEF Inv
    <2>2. /\ index' = [index EXCEPT ![k] = None] /\ tag_index' = WithoutKey(tag_index, k)
          /\ unlinking' = QueueUnlink(k)
          /\ purger' = [purger EXCEPT !.ids = @ \ {k}, !.sweeps = S]
        BY <1>2, <2>1 DEF PurgeMember
    <2>3. PassesOn(k)
        BY <1>0, <2>2 DEF PassesOn
    <2>4. loader' = loader /\ UNCHANGED <<envVars, ghostVars, epochVars, render, files, next_seq, wallVars, scan, job>>
        BY <1>1 DEF scanVars
    <2> QED
        BY <1>0, <2>2, <2>3, <2>4, TeardownInv
<1>3. CASE ~ (index[k] # None /\ purger.tag \in index[k].tags /\ index[k].epoch < purger.epoch)
    <2>1. /\ index' = index /\ unlinking' = unlinking
          /\ tag_index' = IF index[k] # None /\ purger.tag \in index[k].tags
                          THEN WithKey(tag_index, k, {purger.tag}) ELSE tag_index
          /\ purger' = [purger EXCEPT !.ids = @ \ {k}, !.sweeps = @]
        BY <1>3 DEF PurgeMember
    <2>2. /\ purger' \in Purges /\ purger' # None
          /\ purger'.all = purger.all /\ purger'.step = purger.step /\ purger'.epoch = purger.epoch
          /\ purger'.wall = purger.wall /\ purger'.ver = purger.ver /\ purger'.tags = purger.tags
          /\ purger'.todo = purger.todo /\ purger'.tag = purger.tag
          /\ purger'.ids = purger.ids \ {k}
        <3>1. purger' \in Purges
            BY <1>0, <2>1 DEF Purges
        <3> QED
            BY <1>0, <2>1, <3>1, PageStoreAssumption DEF Purges
    <2>3. tag_index \in [Tags -> SUBSET Keys]
        BY DEF Inv, TypeOK
    <2>4. /\ tag_index' \in [Tags -> SUBSET Keys]
          /\ \A t \in Tags : \A j : j \in tag_index'[t] <=>
                \/ j \in tag_index[t]
                \/ j = k /\ t = purger.tag /\ index[k] # None /\ t \in index[k].tags
        BY <2>1, <2>3 DEF WithKey
    <2>5. TypeOK'
        BY <1>1, <2>1, <2>2, <2>4 DEF Inv, TypeOK, envVars, ghostVars, epochVars, wallVars, scanVars
    <2>6. Bounds' /\ PurgeOK' /\ TagPurgeOK' /\ AllPurgeOK' /\ DurableOK'
        <3>1. Bounds'
            BY <1>1 DEF Inv, Bounds, envVars, ghostVars, epochVars, wallVars
        <3>2. PurgeOK'
            BY <1>0, <1>1, <2>2 DEF Inv, PurgeOK, envVars, ghostVars, epochVars, wallVars
        <3>3. TagPurgeOK' /\ AllPurgeOK'
            BY <1>0, <1>1, <2>2 DEF Inv, TagPurgeOK, AllPurgeOK, epochVars, scanVars
        <3>4. DurableOK'
            BY <1>0, <1>1, <2>2 DEF Inv, DurableOK, ghostVars
        <3> QED
            BY <3>1, <3>2, <3>3, <3>4
    <2>7. FillsOK'
        BY <1>1, FillsStill DEF Inv, envVars, ghostVars, epochVars
    <2>8. EntriesOK'
        <3> SUFFICES ASSUME NEW j \in Keys PROVE EntryOK(j)'
            BY DEF EntriesOK
        <3>1. EntryOK(j) /\ index'[j] = index[j] /\ (Installing(j) => Installing(j)')
            BY <1>1, <2>1 DEF Inv, EntriesOK, Installing, scanVars
        <3>2. CASE j # k
            <4>1. Awaits(j) => Awaits(j)'
                BY <1>0, <1>1, <2>1, <2>2, <3>2 DEF Awaits, ghostVars
            <4> QED
                BY <1>1, <3>1, <4>1, EntryStill DEF envVars, ghostVars, epochVars
        <3>3. CASE j = k
            <4>1. index[k] # None /\ purger.tag \in index[k].tags => version <= index[k].ver
                <5> SUFFICES ASSUME index[k] # None, purger.tag \in index[k].tags
                             PROVE  version <= index[k].ver
                    OBVIOUS
                <5>1. /\ index[k].epoch \in Nat /\ index[k].ver \in Nat
                      /\ ~ (index[k].epoch < purge_seq)
                      /\ index[k].epoch <= purge_seq
                      /\ index[k].epoch = 0 \/ version + index[k].epoch <= index[k].ver + purge_seq
                    BY <1>0, <1>3, <3>1, <3>3, EntryType DEF EntryOK, Inv
                <5> QED
                    BY SMTT(20), <1>0, <5>1
            <4>2. index[k] # None /\ Awaits(k) => Awaits(k)'
                BY <1>0, <1>1, <2>1, <2>2, <4>1 DEF Awaits, ghostVars
            <4> QED
                BY <1>1, <3>1, <3>3, <4>2, EntryStill DEF envVars, ghostVars, epochVars
        <3> QED
            BY <3>2, <3>3
    <2>9. TagsOK'
        <3> SUFFICES ASSUME NEW j \in Keys, NEW t \in Tags PROVE TagOK(j, t)'
            BY DEF TagsOK
        <3>1. TagOK(j, t)
            BY DEF Inv, TagsOK
        <3>2. TakenOut(j, t) => TakenOut(j, t)' \/ (j = k /\ t = purger.tag)
            BY <1>0, <2>2 DEF TakenOut
        <3> QED
            BY <2>1, <2>4, <3>1, <3>2 DEF TagOK
    <2>10. ScanOK'
        BY SMTT(20), <1>1, <2>1, NatTypes, ScanType, FileType, ScanStill DEF Inv, envVars, ghostVars, wallVars, scanVars
    <2>11. FilesOK'
        BY <1>1, FilesStill DEF Inv, envVars, ghostVars, wallVars
    <2>12. SeqsOK'
        BY <1>1, <2>1, SeqsStill DEF Inv, scanVars
    <2>13. BodiesOK'
        BY <1>1, <2>1, BodiesStill DEF Inv, scanVars
    <2>14. NoStrandedFile'
        BY <1>1, <2>1 DEF Inv, NoStrandedFile, Backing, FileOf, scanVars
    <2> QED
        BY <2>5, <2>6, <2>7, <2>8, <2>9, <2>10, <2>11, <2>12, <2>13, <2>14 DEF Inv
<1> QED
    BY <1>2, <1>3

\* Bounding or rewriting the tag-purge state forgets no veto.
LEMMA CompactKeeps ==
    ASSUME Inv, NEW due \in BOOLEAN, NEW ok \in BOOLEAN, CompactOrPersist(due, ok)
    PROVE  /\ peer_floor' \in Nat /\ peer_wall' \in [Tags -> Nat]
           /\ journal' \in Journals
           /\ compact_due' \in BOOLEAN /\ faults' \in Nat
           /\ \A U \in SUBSET Tags, s \in Nat :
                 1 <= s /\ TagPurgedSinceWall(U, s) => TagPurgedSinceWall(U, s)'
           /\ journal' = journal \/ journal' = [floor |-> peer_floor', stamps |-> peer_wall', corrupt |-> FALSE]
<1>0. /\ peer_floor \in Nat /\ peer_wall \in [Tags -> Nat] /\ faults \in Nat /\ compact_due \in BOOLEAN
      /\ journal \in Journals
    BY NatTypes DEF Inv, TypeOK
<1>1. CASE OverCap
    <2>1. PICK floor \in BoundFloor(peer_wall, peer_floor) :
              /\ peer_floor' = floor /\ peer_wall' = Newer(peer_wall, floor)
              /\ Persist(floor, Newer(peer_wall, floor), ok)
        BY <1>1 DEF CompactOrPersist
    <2>2. floor \in Nat /\ peer_floor <= floor
        BY <1>0, <2>1, BoundFloorRises
    <2>3. peer_wall' \in [Tags -> Nat]
        BY <1>0, <2>1 DEF Newer
    <2>4. ASSUME NEW U \in SUBSET Tags, NEW s \in Nat, 1 <= s, TagPurgedSinceWall(U, s)
          PROVE  TagPurgedSinceWall(U, s)'
        <3>1. CASE s <= peer_floor
            <4>1. s <= peer_floor'
                BY SMTT(20), <1>0, <2>1, <2>2, <3>1
            <4> QED
                BY <4>1 DEF TagPurgedSinceWall
        <3>2. CASE \E t \in U : peer_wall[t] # 0 /\ peer_wall[t] >= s
            <4>1. PICK t \in U : s <= peer_wall[t]
                BY <1>0, <3>2
            <4>2. s <= floor \/ (Newer(peer_wall, floor)[t] # 0 /\ s <= Newer(peer_wall, floor)[t])
                BY <1>0, <2>2, <2>4, <4>1, NewerCovers
            <4> QED
                BY <1>0, <2>1, <2>3, <4>2 DEF TagPurgedSinceWall
        <3> QED
            BY <2>4, <3>1, <3>2 DEF TagPurgedSinceWall
    <2>5. /\ compact_due' \in BOOLEAN
          /\ faults' = faults \/ faults' = faults + 1
          /\ journal' = journal \/ journal' = [floor |-> peer_floor', stamps |-> peer_wall', corrupt |-> FALSE]
        BY <1>0, <2>1 DEF Persist
    <2>6. journal' \in Journals
        BY SMTT(20), <1>0, <2>1, <2>2, <2>3, <2>5, JournalType
    <2>7. faults' \in Nat
        BY SMTT(20), <1>0, <2>5
    <2> QED
        BY <2>1, <2>2, <2>3, <2>4, <2>5, <2>6, <2>7
<1>2. CASE ~ OverCap
    <2>1. UNCHANGED <<peer_floor, peer_wall>>
        BY <1>2 DEF CompactOrPersist
    <2>2. /\ compact_due' \in BOOLEAN
          /\ faults' = faults \/ faults' = faults + 1
          /\ journal' = journal \/ journal' = [floor |-> peer_floor', stamps |-> peer_wall', corrupt |-> FALSE]
        BY <1>0, <1>2, <2>1 DEF CompactOrPersist, Persist
    <2>3. journal' \in Journals
        BY SMTT(20), <1>0, <2>1, <2>2, JournalType
    <2>5. faults' \in Nat
        BY SMTT(20), <1>0, <2>2
    <2>4. \A U \in SUBSET Tags, s \in Nat : TagPurgedSinceWall(U, s) => TagPurgedSinceWall(U, s)'
        BY <2>1 DEF TagPurgedSinceWall
    <2> QED
        BY <1>0, <2>1, <2>2, <2>3, <2>4, <2>5
<1> QED
    BY <1>1, <1>2

\* The containers beside a step that may compact or rewrite the tag-purge state.
LEMMA FilesRewritten ==
    ASSUME Inv, files' \subseteq files,
           UNCHANGED <<clock, durable, durableAll, purge_stamp>>,
           peer_floor' \in Nat, peer_wall' \in [Tags -> Nat],
           \A U \in SUBSET Tags, s \in Nat : 1 <= s /\ TagPurgedSinceWall(U, s) => TagPurgedSinceWall(U, s)',
           journal' = journal \/ journal' = [floor |-> peer_floor', stamps |-> peer_wall', corrupt |-> FALSE]
    PROVE  FilesOK'
<1> SUFFICES ASSUME NEW f \in files PROVE FileOK(f)'
    BY DEF FilesOK
<1>1. f \in Files /\ FileOK(f) /\ f.tags \in SUBSET Tags /\ f.stored \in Nat /\ 1 <= f.stored
    BY SMTT(20), FileType DEF Inv, TypeOK, FilesOK, FileOK
<1>2. Honours(f) => Honours(f)'
    BY DEF Honours
<1>3. RefusedInRam(f) => RefusedInRam(f)'
    BY <1>1 DEF RefusedInRam
<1>4. CASE journal' = journal
    <2>1. RefusedOnDisk(f) => RefusedOnDisk(f)'
        BY <1>4 DEF RefusedOnDisk
    <2> QED
        BY <1>1, <1>2, <1>3, <2>1 DEF FileOK
<1>5. CASE journal' = [floor |-> peer_floor', stamps |-> peer_wall', corrupt |-> FALSE]
    <2>1. RefusedInRam(f)' => RefusedOnDisk(f)'
        BY <1>5 DEF RefusedInRam, RefusedOnDisk, TagPurgedSinceWall
    <2> QED
        BY <1>1, <1>2, <1>3, <2>1 DEF FileOK
<1> QED
    BY <1>4, <1>5

\* A purge of tags returns: from here on its demand holds.
LEMMA PurgeTagsDoneInv ==
    ASSUME Inv, NEW due \in BOOLEAN, NEW ok \in BOOLEAN, PurgeTagsDone(due, ok)
    PROVE  Inv'
<1>0. /\ purger # None /\ ~ purger.all /\ purger.ids = {} /\ purger.todo = {}
      /\ purger.ver = version /\ purger.tags \subseteq Tags
      /\ version \in Nat /\ purge_seq \in Nat /\ clock \in Nat
      /\ \A t \in purger.tags : tag_purge_epoch[t] = purge_seq
      /\ scan.buffer => purger.tags \subseteq scan.tags
      /\ req \in [Tags -> Nat]
    BY PurgerType, NatTypes DEF Inv, PurgeTagsDone, AllPurgeOK, TagPurgeOK, PurgeOK
<1>1. /\ peer_floor' \in Nat /\ peer_wall' \in [Tags -> Nat]
      /\ journal' \in Journals
      /\ compact_due' \in BOOLEAN /\ faults' \in Nat
      /\ \A U \in SUBSET Tags, s \in Nat : 1 <= s /\ TagPurgedSinceWall(U, s) => TagPurgedSinceWall(U, s)'
      /\ journal' = journal \/ journal' = [floor |-> peer_floor', stamps |-> peer_wall', corrupt |-> FALSE]
    BY CompactKeeps DEF PurgeTagsDone
<1>2. UNCHANGED <<clock, crashes, version, reqAll, durable, durableAll, epochVars, index, tag_index,
                  render, next_seq, purge_stamp, scanVars, job>>
    BY DEF PurgeTagsDone
<1>3. /\ purger' = None /\ files' = files \ Swept /\ unlinking' = unlinking \ Swept
      /\ req' = [t \in Tags |-> IF t \in purger.tags THEN purger.ver ELSE req[t]]
    BY DEF PurgeTagsDone
<1>4. /\ req' \in [Tags -> Nat]
      /\ \A t \in Tags : req'[t] = IF t \in purger.tags THEN version ELSE req[t]
    BY <1>0, <1>3
<1>5. TypeOK'
    BY <1>1, <1>2, <1>3, <1>4 DEF Inv, TypeOK, epochVars, scanVars
<1>6. Bounds'
    <2>1. \A t \in Tags : req'[t] <= version
        BY SMTT(20), <1>0, <1>4 DEF Inv, Bounds
    <2> QED
        BY <1>2, <2>1 DEF Inv, Bounds, epochVars
<1>7. PurgeOK' /\ TagPurgeOK' /\ AllPurgeOK'
    BY <1>3 DEF PurgeOK, TagPurgeOK, AllPurgeOK
<1>8. DurableOK'
    <2>1. \A t \in Tags : durable[t] <= version
        BY DEF Inv, Bounds
    <2>2. \A t \in Tags : durable[t] <= req'[t]
        BY <1>0, <1>4, <2>1 DEF Inv, DurableOK
    <2> QED
        BY <1>0, <1>2, <2>2 DEF Inv, DurableOK
<1>9. FillsOK'
    <2> SUFFICES ASSUME NEW r \in Renders PROVE FillOK(render[r])'
        BY DEF FillsOK
    <2>1. /\ FillOK(render[r]) /\ render'[r] = render[r] /\ render[r].tags \subseteq Tags
          /\ render[r].epoch \in Nat /\ render[r].ver \in Nat
        BY <1>2, FillType DEF Inv, FillsOK, TypeOK
    <2>2. PurgedAfter(render[r].tags, render[r].epoch) => PurgedAfter(render[r].tags, render[r].epoch)'
        BY <1>2 DEF PurgedAfter, epochVars
    <2>3. ASSUME version + render[r].epoch <= render[r].ver + purge_seq,
                 Meets(render[r].tags, render[r].ver), ~ PurgedAfter(render[r].tags, render[r].epoch)
          PROVE  Meets(render[r].tags, render[r].ver)'
        <3>1. ASSUME NEW t \in render[r].tags, t \in purger.tags
              PROVE  version <= render[r].ver
            <4>1. ~ (purge_seq > render[r].epoch)
                BY <1>0, <2>3, <3>1 DEF PurgedAfter
            <4> QED
                BY SMTT(20), <1>0, <2>1, <2>3, <4>1
        <3> QED
            BY <1>2, <1>4, <2>1, <2>3, <3>1 DEF Meets
    <2> QED
        BY <1>2, <2>1, <2>2, <2>3 DEF FillOK, epochVars
<1>10. EntriesOK'
    <2> SUFFICES ASSUME NEW k \in Keys, index[k] # None PROVE EntryOK(k)'
        BY <1>2 DEF EntriesOK, EntryOK
    <2>1. EntryOK(k) /\ index'[k] = index[k] /\ index[k].tags \subseteq Tags
        BY <1>2, EntryType DEF Inv, EntriesOK
    <2>2. Installing(k)' <=> Installing(k)
        BY <1>2 DEF Installing, scanVars
    <2>3. Awaits(k)'
        BY <1>3 DEF Awaits
    <2>4. ASSUME Meets(index[k].tags, index[k].ver), Awaits(k)
          PROVE  Meets(index[k].tags, index[k].ver)'
        <3>1. \A t \in index[k].tags : t \in purger.tags => version <= index[k].ver
            BY <1>0, <2>4 DEF Awaits
        <3> QED
            BY <1>2, <1>4, <2>1, <2>4, <3>1 DEF Meets
    <2> QED
        BY <1>2, <2>1, <2>2, <2>3, <2>4 DEF EntryOK, epochVars
<1>11. TagsOK'
    <2>1. \A k \in Keys, t \in Tags : ~ TakenOut(k, t)
        BY <1>0 DEF TakenOut
    <2> QED
        BY <1>2, <2>1 DEF Inv, TagsOK, TagOK
<1>12. ScanOK'
    <2>1. ASSUME NEW f \in Files, scan.buffer, ScannedOK(f)
          PROVE  (Meets(f.tags, f.ver) \/ ScanVetoed(f))'
        <3>0. f.tags \in SUBSET Tags /\ f.stored \in Nat /\ 1 <= f.stored
            BY SMTT(20), <2>1, FileType DEF ScannedOK
        <3>1. CASE ScanVetoed(f)
            BY <1>1, <1>2, <3>0, <3>1 DEF ScanVetoed, Buffered, scanVars
        <3>2. CASE f.tags \cap purger.tags # {}
            BY <1>0, <1>2, <2>1, <3>2 DEF ScanVetoed, Buffered, scanVars
        <3>3. CASE f.tags \cap purger.tags = {} /\ Meets(f.tags, f.ver)
            BY <1>2, <1>4, <3>0, <3>3 DEF Meets
        <3> QED
            BY <2>1, <3>1, <3>2, <3>3 DEF ScannedOK
    <2>2. clock <= clock
        BY SMTT(20), <1>0
    <2> QED
        BY <1>0, <1>2, <2>1, <2>2, ScanStays DEF scanVars
<1>13. FilesOK'
    BY <1>1, <1>2, <1>3, FilesRewritten
<1>14. SeqsOK'
    BY <1>2, <1>3, SeqsStill DEF Inv, scanVars
<1>15. BodiesOK'
    <2>1. ASSUME NEW k \in Keys, index[k] # None
          PROVE  FileOf(k, index[k]) \notin Swept
        BY SMTT(20), <2>1, EntryType, FileOfType DEF Swept, Inv
    <2> QED
        BY <1>2, <1>3, <2>1, BodiesStill DEF Inv, scanVars
<1>16. NoStrandedFile'
    BY <1>2, <1>3 DEF Inv, NoStrandedFile, Backing, FileOf, scanVars
<1> QED
    BY SMTT(20), <1>5, <1>6, <1>7, <1>8, <1>9, <1>10, <1>11, <1>12, <1>13, <1>14, <1>15, <1>16 DEF Inv

------------------------------------------------------------------------------
(* purge_all, and the pruning of purge stamps. *)

\* A purge of everything begins: every fill in flight is overtaken.
LEMMA PurgeAllInv ==
    ASSUME Inv, PurgeAll
    PROVE  Inv'
<1>0. /\ version \in Nat /\ purge_seq \in Nat /\ clock \in Nat /\ reqAll \in Nat /\ durableAll \in Nat
      /\ peer_floor \in Nat /\ purge_seq <= version
      /\ \A t \in Tags : req[t] \in Nat /\ durable[t] \in Nat
    BY NatTypes DEF Inv, Bounds
<1>1. /\ version' = version + 1 /\ purge_seq' = purge_seq + 1 /\ purger = None
      /\ purge_all_epoch' = purge_seq' /\ tag_purge_epoch' = [t \in Tags |-> 0]
      /\ peer_wall' = [t \in Tags |-> 0]
    BY DEF PurgeAll
<1>2. purger' = [all |-> TRUE, step |-> "index", epoch |-> purge_seq', wall |-> clock,
                 ver |-> version', tags |-> Tags, todo |-> {}, tag |-> None, ids |-> {}, sweeps |-> {}]
    BY DEF PurgeAll
<1>3. purger' \in Purges /\ purger' # None
    <2>1. purge_seq' \in Nat /\ version' \in Nat
        BY SMTT(20), <1>0, <1>1
    <2>2. purger' \in Purges
        BY <1>0, <1>2, <2>1 DEF Purges
    <2> QED
        BY <2>2, PageStoreAssumption
<1>4. peer_floor' \in Nat /\ (HasDisk => clock <= peer_floor')
    BY SMTT(20), <1>0 DEF PurgeAll, Larger
<1>5. UNCHANGED <<envVars, req, reqAll, durable, durableAll, tag_epoch_prune_floor, index, tag_index,
                  render, diskVars, purge_stamp, journal, compact_due, scanVars, job>>
    BY DEF PurgeAll
<1>6. /\ version' \in Nat /\ purge_seq' \in Nat /\ version <= version' /\ purge_seq <= purge_seq'
      /\ purge_seq' <= version' /\ 1 <= purge_seq'
      /\ tag_purge_epoch' \in [Tags -> Nat] /\ peer_wall' \in [Tags -> Nat]
    BY SMTT(20), <1>0, <1>1
<1>7. TypeOK'
    BY <1>1, <1>3, <1>4, <1>5, <1>6 DEF Inv, TypeOK, envVars, diskVars, scanVars
<1>8. Bounds'
    <2>1. reqAll' <= version' /\ durableAll' <= version' /\ purge_all_epoch' <= purge_seq'
        BY SMTT(20), <1>0, <1>1, <1>5, <1>6 DEF Inv, Bounds
    <2>2. \A t \in Tags : req'[t] <= version' /\ durable'[t] <= version'
        BY SMTT(20), <1>0, <1>5, <1>6 DEF Inv, Bounds
    <2>3. \A t \in Tags : tag_purge_epoch'[t] <= purge_seq'
        BY SMTT(20), <1>1, <1>6
    <2> QED
        BY <1>5, <1>6, <2>1, <2>2, <2>3 DEF Inv, Bounds, envVars
<1>9. PurgeOK'
    <2>1. \A f \in files : f.stored <= clock
        BY SMTT(20), <1>0 DEF Inv, FilesOK, FileOK
    <2>2. clock <= clock
        BY SMTT(20), <1>0
    <2> QED
        BY <1>2, <1>5, <1>6, <2>1, <2>2 DEF Inv, Bounds, PurgeOK, envVars, diskVars
<1>10. TagPurgeOK' /\ AllPurgeOK'
    BY <1>1, <1>2, <1>4 DEF TagPurgeOK, AllPurgeOK
<1>11. DurableOK'
    BY <1>1, <1>5 DEF Inv, DurableOK
<1>12. FillsOK'
    <2> SUFFICES ASSUME NEW r \in Renders PROVE FillOK(render[r])'
        BY DEF FillsOK
    <2>1. FillOK(render[r]) /\ render'[r] = render[r] /\ render[r].epoch \in Nat /\ render[r].ver \in Nat
        BY <1>5, FillType DEF Inv, FillsOK, TypeOK
    <2>2. render[r].epoch <= purge_seq' /\ purge_all_epoch' > render[r].epoch
        BY SMTT(20), <1>0, <1>1, <2>1 DEF FillOK
    <2>3. version + render[r].epoch <= render[r].ver + purge_seq
              => version' + render[r].epoch <= render[r].ver + purge_seq'
        BY SMTT(20), <1>0, <1>1, <2>1
    <2> QED
        BY <1>5, <2>1, <2>2, <2>3 DEF FillOK, PurgedAfter, envVars
<1>13. EntriesOK'
    <2> SUFFICES ASSUME NEW k \in Keys, index[k] # None PROVE EntryOK(k)'
        BY <1>5 DEF EntriesOK, EntryOK
    <2>1. EntryOK(k) /\ index'[k] = index[k] /\ index[k].epoch \in Nat /\ index[k].ver \in Nat
        BY <1>5, EntryType DEF Inv, EntriesOK
    <2>2. index[k].epoch <= purge_seq'
        BY SMTT(20), <1>0, <1>1, <2>1 DEF EntryOK
    <2>3. version + index[k].epoch <= index[k].ver + purge_seq
              => version' + index[k].epoch <= index[k].ver + purge_seq'
        BY SMTT(20), <1>0, <1>1, <2>1
    <2>4. Awaits(k)'
        BY <1>2 DEF Awaits
    <2>5. Installing(k)' <=> Installing(k)
        BY <1>5 DEF Installing, scanVars
    <2> QED
        BY <1>5, <2>1, <2>2, <2>3, <2>4, <2>5 DEF EntryOK, Meets, envVars
<1>14. TagsOK'
    <2>1. \A k \in Keys, t \in Tags : ~ TakenOut(k, t)
        BY <1>1 DEF TakenOut
    <2> QED
        BY <1>5, <2>1 DEF Inv, TagsOK, TagOK
<1>15. ASSUME HasDisk, NEW f \in Files, f.stored \in 1..clock
       PROVE  TagPurgedSinceWall(f.tags, f.stored)'
    <2>1. f.stored <= peer_floor'
        BY SMTT(20), <1>0, <1>4, <1>15
    <2> QED
        BY <2>1 DEF TagPurgedSinceWall
<1>16. ScanOK'
    <2>1. ASSUME NEW f \in Files, scan.buffer, ScannedOK(f)
          PROVE  (Meets(f.tags, f.ver) \/ ScanVetoed(f))'
        BY <1>15, <2>1 DEF ScannedOK, ScanVetoed, Inv, ScanOK
    <2>2. clock <= clock
        BY SMTT(20), <1>0
    <2> QED
        BY <1>0, <1>5, <2>1, <2>2, ScanStays DEF envVars, diskVars, scanVars
<1>17. FilesOK'
    <2> SUFFICES ASSUME NEW f \in files PROVE FileOK(f)'
        BY <1>5 DEF FilesOK, diskVars
    <2>1. f \in Files /\ FileOK(f) /\ f.stored \in 1..clock /\ f.ver \in Nat /\ f.tags \subseteq Tags
        BY FileType DEF Inv, TypeOK, FilesOK, FileOK
    <2>2. Honours(f) => Honours(f)'
        BY <1>5 DEF Honours
    <2>3. RefusedOnDisk(f) => RefusedOnDisk(f)'
        BY <1>5 DEF RefusedOnDisk
    <2>4. HasDisk => RefusedInRam(f)'
        BY <1>15, <2>1 DEF RefusedInRam
    <2>5. ~ HasDisk => Honours(f)
        BY SMTT(20), <2>1 DEF Honours, Inv, Bounds
    <2> QED
        BY <1>5, <2>1, <2>2, <2>3, <2>4, <2>5 DEF FileOK, envVars
<1>18. SeqsOK'
    BY <1>5, SeqsStill DEF Inv, diskVars, scanVars
<1>19. BodiesOK'
    BY <1>5, BodiesStill DEF Inv, diskVars, scanVars
<1>20. NoStrandedFile'
    BY SMTT(20), <1>5 DEF Inv, NoStrandedFile, Backing, FileOf, diskVars, scanVars
<1> QED
    BY <1>7, <1>8, <1>9, <1>10, <1>11, <1>12, <1>13, <1>14, <1>16, <1>17, <1>18, <1>19, <1>20 DEF Inv

\* The tag index is emptied, and the boot scan told.
LEMMA PurgeAllIndexInv ==
    ASSUME Inv, PurgeAllIndex
    PROVE  Inv'
<1>0. purger # None /\ purger \in Purges /\ purger.all /\ purger.step = "index" /\ clock \in Nat
    BY PurgerType, NatTypes DEF Inv, PurgeAllIndex, TagPurgeOK
<1>1. /\ purger' \in Purges /\ purger' # None
      /\ purger'.all = purger.all /\ purger'.step = "stamp" /\ purger'.epoch = purger.epoch
      /\ purger'.wall = purger.wall /\ purger'.ver = purger.ver /\ purger'.tags = purger.tags
    <2>1. purger' = [purger EXCEPT !.step = "stamp"]
        BY DEF PurgeAllIndex
    <2>2. purger' \in Purges
        BY <1>0, <2>1 DEF Purges
    <2> QED
        BY <1>0, <2>1, <2>2, PageStoreAssumption DEF Purges
<1>2. /\ scan' \in Scans
      /\ scan'.buffer = scan.buffer /\ scan'.pending = scan.pending
      /\ scan'.stamp = scan.stamp /\ scan'.base = scan.base /\ scan'.tags = scan.tags
      /\ scan.purged_all => scan'.purged_all
      /\ scan.buffer => scan'.purged_all
    BY ScanType DEF Inv, Scans, PurgeAllIndex
<1>3. /\ UNCHANGED <<envVars, ghostVars, epochVars, index, render, diskVars, wallVars, loader, job>>
      /\ tag_index' = [t \in Tags |-> {}]
    BY DEF PurgeAllIndex
<1>4. TypeOK'
    BY <1>1, <1>2, <1>3 DEF Inv, TypeOK, envVars, ghostVars, epochVars, diskVars, wallVars
<1>5. Bounds'
    BY <1>3 DEF Inv, Bounds, envVars, ghostVars, epochVars, wallVars
<1>6. PurgeOK'
    BY <1>0, <1>1, <1>3 DEF Inv, PurgeOK, envVars, ghostVars, epochVars, diskVars, wallVars
<1>7. TagPurgeOK' /\ AllPurgeOK'
    BY <1>0, <1>1, <1>2, <1>3 DEF Inv, TagPurgeOK, AllPurgeOK, epochVars, wallVars
<1>8. DurableOK'
    BY <1>0, <1>1, <1>3 DEF Inv, DurableOK, ghostVars
<1>9. FillsOK'
    BY <1>3, FillsStill DEF Inv, envVars, ghostVars, epochVars
<1>10. EntriesOK'
    <2> SUFFICES ASSUME NEW k \in Keys PROVE EntryOK(k)'
        BY DEF EntriesOK
    <2>1. EntryOK(k) /\ index'[k] = index[k] /\ (Installing(k) => Installing(k)')
        BY <1>3 DEF Inv, EntriesOK, Installing
    <2>2. Awaits(k)'
        BY <1>0, <1>1 DEF Awaits
    <2> QED
        BY <1>3, <2>1, <2>2, EntryStill DEF envVars, ghostVars, epochVars
<1>11. TagsOK'
    BY <1>0, <1>1, <1>3 DEF TagsOK, TagOK, TakenOut
<1>12. ScanOK'
    <2>1. ASSUME NEW f \in Files, scan.buffer, ScannedOK(f)
          PROVE  (Meets(f.tags, f.ver) \/ ScanVetoed(f))'
        BY <1>2, <2>1 DEF ScanVetoed, Buffered
    <2>2. clock <= clock
        BY SMTT(20), <1>0
    <2> QED
        BY <1>0, <1>2, <1>3, <2>1, <2>2, ScanStays DEF envVars, diskVars
<1>13. FilesOK'
    BY <1>3, FilesStill DEF Inv, envVars, ghostVars, diskVars, wallVars
<1>14. SeqsOK'
    BY <1>2, <1>3, SeqsStill DEF Inv, diskVars
<1>15. BodiesOK'
    BY <1>2, <1>3, BodiesStill DEF Inv, diskVars
<1>16. NoStrandedFile'
    BY SMTT(20), <1>2, <1>3 DEF Inv, NoStrandedFile, Backing, FileOf, diskVars
<1> QED
    BY <1>4, <1>5, <1>6, <1>7, <1>8, <1>9, <1>10, <1>11, <1>12, <1>13, <1>14, <1>15, <1>16 DEF Inv

\* The stamp and the emptied journal reach the disk, or one of them does, or neither.
LEMMA PurgeAllStampInv ==
    ASSUME Inv, NEW okStamp \in BOOLEAN, NEW okState \in BOOLEAN, PurgeAllStamp(okStamp, okState)
    PROVE  Inv'
<1>0. /\ purger # None /\ purger \in Purges /\ purger.all /\ purger.step = "stamp"
      /\ purger.wall \in Nat /\ purger.ver = version /\ purger.wall <= clock /\ purge_stamp <= purger.wall
      /\ clock \in Nat /\ version \in Nat /\ purge_stamp \in Nat /\ durableAll \in Nat /\ faults \in Nat
      /\ peer_floor \in Nat /\ peer_wall \in [Tags -> Nat] /\ compact_due \in BOOLEAN
      /\ HasDisk => purger.wall <= peer_floor
      /\ journal \in Journals
    BY PurgerType, NatTypes DEF Inv, TypeOK, PurgeAllStamp, TagPurgeOK, AllPurgeOK, PurgeOK
<1>1. /\ purger' \in Purges /\ purger' # None
      /\ purger'.all = purger.all /\ purger'.step = "drain" /\ purger'.epoch = purger.epoch
      /\ purger'.wall = purger.wall /\ purger'.ver = purger.ver /\ purger'.tags = purger.tags
      /\ purger'.ids = Keys
    <2>1. purger' = [purger EXCEPT !.step = "drain", !.ids = Keys]
        BY DEF PurgeAllStamp
    <2>2. purger' \in Purges
        BY <1>0, <2>1 DEF Purges
    <2> QED
        BY <1>0, <2>1, <2>2, PageStoreAssumption DEF Purges
<1>2. UNCHANGED <<clock, crashes, version, req, reqAll, durable, epochVars, index, tag_index, render,
                  diskVars, peer_floor, peer_wall, scanVars, job>>
    BY DEF PurgeAllStamp
<1>3. purge_stamp' \in Nat /\ purge_stamp <= purge_stamp' /\ purge_stamp' <= purger.wall /\ purge_stamp' <= clock
    BY SMTT(20), <1>0 DEF PurgeAllStamp
<1>4. /\ journal' = journal \/ (HasDisk /\ journal' = [floor |-> peer_floor, stamps |-> peer_wall, corrupt |-> FALSE])
      /\ compact_due' \in BOOLEAN /\ faults' \in Nat
    <2>1. /\ journal' = journal \/ (HasDisk /\ journal' = [floor |-> peer_floor, stamps |-> peer_wall, corrupt |-> FALSE])
          /\ compact_due' \in BOOLEAN
          /\ faults' = faults \/ faults' = faults + 1
        BY <1>0 DEF PurgeAllStamp, Persist
    <2> QED
        BY SMTT(20), <1>0, <2>1
<1>5. journal' \in Journals
    BY SMTT(20), <1>0, <1>4, JournalType
<1>6. \/ durableAll' = durableAll
      \/ /\ durableAll' = version /\ HasDisk
         /\ \/ purge_stamp' = purger.wall
            \/ journal' = [floor |-> peer_floor, stamps |-> peer_wall, corrupt |-> FALSE]
    BY <1>0 DEF PurgeAllStamp, Persist
<1>7. durableAll' \in Nat /\ durableAll' <= version
    BY SMTT(20), <1>0, <1>6 DEF Inv, Bounds
<1>8. TypeOK'
    BY <1>1, <1>2, <1>3, <1>4, <1>5, <1>7 DEF Inv, TypeOK, epochVars, diskVars, scanVars
<1>9. Bounds'
    BY <1>2, <1>3, <1>6, <1>7 DEF Inv, Bounds, epochVars
<1>10. PurgeOK'
    BY <1>0, <1>1, <1>2, <1>3 DEF Inv, PurgeOK, epochVars, diskVars
<1>11. TagPurgeOK' /\ AllPurgeOK'
    BY <1>0, <1>1, <1>2 DEF Inv, TagPurgeOK, AllPurgeOK, epochVars, scanVars
<1>12. DurableOK'
    BY <1>0, <1>1, <1>2 DEF Inv, DurableOK
<1>13. FillsOK'
    BY <1>2, FillsStill DEF Inv, epochVars
<1>14. EntriesOK'
    <2> SUFFICES ASSUME NEW k \in Keys PROVE EntryOK(k)'
        BY DEF EntriesOK
    <2>1. EntryOK(k) /\ index'[k] = index[k] /\ (Installing(k) => Installing(k)')
        BY <1>2 DEF Inv, EntriesOK, Installing, scanVars
    <2>2. Awaits(k)'
        BY <1>0, <1>1 DEF Awaits
    <2> QED
        BY <1>2, <2>1, <2>2, EntryStill DEF epochVars
<1>15. TagsOK'
    BY <1>0, <1>1, <1>2 DEF Inv, TagsOK, TagOK, TakenOut
<1>16. ScanOK'
    BY SMTT(20), <1>2, NatTypes, ScanType, FileType, ScanStill DEF Inv, diskVars, scanVars
<1>17. FilesOK'
    <2> SUFFICES ASSUME NEW f \in files PROVE FileOK(f)'
        BY <1>2 DEF FilesOK, diskVars
    <2>1. /\ f \in Files /\ FileOK(f) /\ f.stored \in 1..clock /\ f.stored \in Nat /\ f.tags \subseteq Tags
          /\ f.stored <= purger.wall
        BY <1>0, FileType DEF Inv, TypeOK, FilesOK, FileOK, PurgeOK
    <2>2. CASE HasDisk
        <3>1. f.stored <= peer_floor
            BY SMTT(20), <1>0, <2>1, <2>2
        <3>2. RefusedInRam(f)'
            BY <1>2, <3>1 DEF RefusedInRam, TagPurgedSinceWall
        <3>3. CASE durableAll' = durableAll /\ journal' = journal
            <4>1. RefusedOnDisk(f) => RefusedOnDisk(f)'
                <5>1. f.stored <= purge_stamp => f.stored <= purge_stamp'
                    BY SMTT(20), <1>0, <1>3, <2>1
                <5> QED
                    BY <3>3, <5>1 DEF RefusedOnDisk
            <4>2. Honours(f) => Honours(f)'
                BY <1>2, <3>3 DEF Honours
            <4> QED
                BY <1>2, <2>1, <3>2, <4>1, <4>2 DEF FileOK
        <3>4. CASE purge_stamp' = purger.wall
            BY <1>2, <2>1, <3>2, <3>4 DEF FileOK, RefusedOnDisk
        <3>5. CASE journal' = [floor |-> peer_floor, stamps |-> peer_wall, corrupt |-> FALSE]
            BY <1>2, <2>1, <3>1, <3>2, <3>5 DEF FileOK, RefusedOnDisk
        <3> QED
            BY <1>4, <1>6, <3>3, <3>4, <3>5
    <2>3. CASE ~ HasDisk
        <3>1. journal' = journal /\ durableAll' = durableAll /\ purge_stamp' = purge_stamp
            BY <2>3 DEF PurgeAllStamp
        <3> QED
            BY <1>2, <2>1, <3>1 DEF FileOK, Honours, RefusedOnDisk, RefusedInRam, TagPurgedSinceWall
    <2> QED
        BY <2>2, <2>3
<1>18. SeqsOK'
    BY <1>2, SeqsStill DEF Inv, diskVars, scanVars
<1>19. BodiesOK'
    BY <1>2, BodiesStill DEF Inv, diskVars, scanVars
<1>20. NoStrandedFile'
    BY <1>2 DEF Inv, NoStrandedFile, Backing, FileOf, diskVars, scanVars
<1> QED
    BY <1>8, <1>9, <1>10, <1>11, <1>12, <1>13, <1>14, <1>15, <1>16, <1>17, <1>18, <1>19, <1>20 DEF Inv

\* purge_if reaches one shard.
LEMMA PurgeAllShardInv ==
    ASSUME Inv, NEW k \in Keys, PurgeAllShard(k)
    PROVE  Inv'
<1>1. purger # None /\ purger.sweeps \subseteq Files /\ ~ Installing(k)
    BY PurgerType DEF Inv, PurgeAllShard, Locked, Installing
<1>2. PICK S \in SUBSET Files : S = purger.sweeps \cup Backing(k, index[k])
    BY <1>1, BackingType DEF Inv
<1>3. /\ index' = [index EXCEPT ![k] = None] /\ tag_index' = WithoutKey(tag_index, k)
      /\ unlinking' = QueueUnlink(k)
      /\ purger' = [purger EXCEPT !.ids = @ \ {k}, !.sweeps = S]
      /\ loader' = loader
      /\ UNCHANGED <<envVars, ghostVars, epochVars, render, files, next_seq, wallVars, scan, job>>
    BY <1>2 DEF PurgeAllShard, scanVars
<1>4. PassesOn(k)
    BY <1>1, <1>3 DEF PassesOn
<1> QED
    BY <1>1, <1>3, <1>4, TeardownInv

\* A purge of everything returns.
LEMMA PurgeAllDoneInv ==
    ASSUME Inv, PurgeAllDone
    PROVE  Inv'
<1>0. /\ purger # None /\ purger.all /\ purger.step = "drain" /\ purger.ids = {}
      /\ purger.ver = version /\ purge_all_epoch = purge_seq
      /\ scan.buffer => scan.purged_all
      /\ version \in Nat /\ purge_seq \in Nat /\ clock \in Nat /\ durableAll <= version
    BY NatTypes DEF Inv, PurgeAllDone, TagPurgeOK, AllPurgeOK, PurgeOK, Bounds
<1>1. /\ reqAll' = version /\ purger' = None
      /\ UNCHANGED <<envVars, version, req, durable, durableAll, epochVars, index, tag_index, render,
                     diskVars, wallVars, scanVars, job>>
    BY <1>0 DEF PurgeAllDone
<1>2. TypeOK'
    BY <1>0, <1>1 DEF Inv, TypeOK, envVars, epochVars, diskVars, wallVars, scanVars
<1>3. Bounds'
    <2>1. version <= version
        BY SMTT(20), <1>0
    <2> QED
        BY <1>1, <2>1 DEF Inv, Bounds, envVars, epochVars, wallVars
<1>4. PurgeOK' /\ TagPurgeOK' /\ AllPurgeOK'
    BY <1>1 DEF PurgeOK, TagPurgeOK, AllPurgeOK
<1>5. DurableOK'
    BY <1>0, <1>1 DEF Inv, DurableOK
<1>6. FillsOK'
    <2> SUFFICES ASSUME NEW r \in Renders PROVE FillOK(render[r])'
        BY DEF FillsOK
    <2>1. /\ FillOK(render[r]) /\ render'[r] = render[r] /\ render[r].epoch \in Nat /\ render[r].ver \in Nat
        BY <1>1, FillType DEF Inv, FillsOK, TypeOK
    <2>2. PurgedAfter(render[r].tags, render[r].epoch) => PurgedAfter(render[r].tags, render[r].epoch)'
        BY <1>1 DEF PurgedAfter, epochVars
    <2>3. ASSUME version + render[r].epoch <= render[r].ver + purge_seq,
                 Meets(render[r].tags, render[r].ver), ~ PurgedAfter(render[r].tags, render[r].epoch)
          PROVE  Meets(render[r].tags, render[r].ver)'
        <3>1. ~ (purge_seq > render[r].epoch)
            BY <1>0, <2>3 DEF PurgedAfter
        <3>2. version <= render[r].ver
            BY SMTT(20), <1>0, <2>1, <2>3, <3>1
        <3> QED
            BY <1>1, <2>1, <2>3, <3>2 DEF Meets
    <2> QED
        BY <1>1, <2>1, <2>2, <2>3 DEF FillOK, envVars, epochVars
<1>7. EntriesOK'
    <2> SUFFICES ASSUME NEW k \in Keys, index[k] # None PROVE EntryOK(k)'
        BY <1>1 DEF EntriesOK, EntryOK
    <2>1. EntryOK(k) /\ index'[k] = index[k] /\ Installing(k)
        BY <1>0, <1>1 DEF Inv, EntriesOK, EntryOK, Awaits
    <2>2. Installing(k)'
        BY <1>1, <2>1 DEF Installing, scanVars
    <2> QED
        BY <1>1, <2>1, <2>2 DEF EntryOK, envVars, epochVars
<1>8. TagsOK'
    <2>1. \A k \in Keys, t \in Tags : ~ TakenOut(k, t)
        BY <1>0 DEF TakenOut
    <2> QED
        BY <1>1, <2>1 DEF Inv, TagsOK, TagOK
<1>9. ScanOK'
    <2>1. ASSUME NEW f \in Files, scan.buffer, ScannedOK(f)
          PROVE  (Meets(f.tags, f.ver) \/ ScanVetoed(f))'
        BY <1>0, <1>1, <2>1 DEF ScanVetoed, Buffered, scanVars
    <2>2. clock <= clock
        BY SMTT(20), <1>0
    <2> QED
        BY <1>0, <1>1, <2>1, <2>2, ScanStays DEF envVars, diskVars, scanVars
<1>10. FilesOK'
    BY <1>1, FilesStill DEF Inv, envVars, diskVars, wallVars
<1>11. SeqsOK'
    BY <1>1, SeqsStill DEF Inv, diskVars, scanVars
<1>12. BodiesOK'
    BY <1>1, BodiesStill DEF Inv, diskVars, scanVars
<1>13. NoStrandedFile'
    BY SMTT(20), <1>1 DEF Inv, NoStrandedFile, Backing, FileOf, diskVars, scanVars
<1> QED
    BY <1>2, <1>3, <1>4, <1>5, <1>6, <1>7, <1>8, <1>9, <1>10, <1>11, <1>12, <1>13 DEF Inv

\* Pruning forgets no stamp that a fill in flight still needs.
LEMMA PruneInv ==
    ASSUME Inv, NEW ok \in BOOLEAN, Prune(ok)
    PROVE  Inv'
<1>0. /\ purger = None /\ purge_seq \in Nat /\ tag_purge_epoch \in [Tags -> Nat] /\ clock \in Nat
      /\ tag_purge_epoch' = [t \in Tags |-> IF tag_epoch_prune_floor = 0 \/ StillNeeded(t)
                                            THEN tag_purge_epoch[t] ELSE 0]
      /\ tag_epoch_prune_floor' = purge_seq
    BY NatTypes DEF Inv, Prune
<1>1. /\ peer_floor' \in Nat /\ peer_wall' \in [Tags -> Nat]
      /\ journal' \in Journals
      /\ compact_due' \in BOOLEAN /\ faults' \in Nat
      /\ \A U \in SUBSET Tags, s \in Nat : 1 <= s /\ TagPurgedSinceWall(U, s) => TagPurgedSinceWall(U, s)'
      /\ journal' = journal \/ journal' = [floor |-> peer_floor', stamps |-> peer_wall', corrupt |-> FALSE]
    BY CompactKeeps DEF Prune
<1>2. UNCHANGED <<clock, crashes, ghostVars, purge_seq, purge_all_epoch, index, tag_index, render, purger,
                  diskVars, purge_stamp, scanVars, job>>
    BY DEF Prune
<1>3. /\ tag_purge_epoch' \in [Tags -> Nat]
      /\ \A t \in Tags : /\ tag_purge_epoch'[t] = tag_purge_epoch[t] \/ tag_purge_epoch'[t] = 0
                         /\ StillNeeded(t) => tag_purge_epoch'[t] = tag_purge_epoch[t]
    BY <1>0
<1>4. TypeOK'
    BY <1>0, <1>1, <1>2, <1>3 DEF Inv, TypeOK, ghostVars, diskVars, scanVars
<1>5. Bounds'
    <2>1. \A t \in Tags : tag_purge_epoch'[t] <= purge_seq
        BY SMTT(20), <1>0, <1>3 DEF Inv, Bounds
    <2> QED
        BY <1>2, <2>1 DEF Inv, Bounds, ghostVars
<1>6. PurgeOK' /\ TagPurgeOK' /\ AllPurgeOK'
    BY <1>0, <1>2 DEF PurgeOK, TagPurgeOK, AllPurgeOK
<1>7. DurableOK'
    BY <1>2 DEF Inv, DurableOK, ghostVars
<1>8. FillsOK'
    <2> SUFFICES ASSUME NEW r \in Renders PROVE FillOK(render[r])'
        BY DEF FillsOK
    <2>1. /\ FillOK(render[r]) /\ render'[r] = render[r] /\ render[r].tags \subseteq Tags
          /\ render[r].guards \in 0..2
        BY <1>2, FillType DEF Inv, FillsOK, TypeOK
    <2>2. ASSUME 1 <= render[r].guards, PurgedAfter(render[r].tags, render[r].epoch)
          PROVE  PurgedAfter(render[r].tags, render[r].epoch)'
        <3>1. render[r].guards > 0
            BY SMTT(20), <2>1, <2>2
        <3>2. \A t \in render[r].tags : tag_purge_epoch[t] > render[r].epoch => StillNeeded(t)
            BY <3>1 DEF StillNeeded
        <3> QED
            BY <1>2, <1>3, <2>1, <2>2, <3>2 DEF PurgedAfter
    <2> QED
        BY <1>2, <2>1, <2>2 DEF FillOK, Meets, ghostVars
<1>9. EntriesOK' /\ TagsOK'
    BY <1>2, EntriesStill, TagsStill DEF Inv, ghostVars, scanVars
<1>10. ScanOK'
    <2>1. ASSUME NEW f \in Files, scan.buffer, ScannedOK(f)
          PROVE  (Meets(f.tags, f.ver) \/ ScanVetoed(f))'
        <3>0. f.tags \in SUBSET Tags /\ f.stored \in Nat /\ 1 <= f.stored
            BY SMTT(20), <2>1, FileType DEF ScannedOK
        <3> QED
            BY <1>1, <1>2, <2>1, <3>0 DEF ScannedOK, Meets, ScanVetoed, Buffered, scanVars, ghostVars
    <2>2. clock <= clock
        BY SMTT(20), <1>0
    <2> QED
        BY <1>0, <1>2, <2>1, <2>2, ScanStays DEF diskVars, scanVars
<1>11. FilesOK'
    BY <1>1, <1>2, FilesRewritten DEF ghostVars, diskVars
<1>12. SeqsOK'
    BY <1>2, SeqsStill DEF Inv, diskVars, scanVars
<1>13. BodiesOK'
    BY <1>2, BodiesStill DEF Inv, diskVars, scanVars
<1>14. NoStrandedFile'
    BY SMTT(20), <1>2 DEF Inv, NoStrandedFile, Backing, FileOf, diskVars, scanVars
<1> QED
    BY <1>4, <1>5, <1>6, <1>7, <1>8, <1>9, <1>10, <1>11, <1>12, <1>13, <1>14 DEF Inv

------------------------------------------------------------------------------
(* The boot scan. *)

\* The scan takes up one file.
LEMMA ScanReadInv ==
    ASSUME Inv, NEW f \in files, ScanRead(f)
    PROVE  Inv'
<1>0. /\ loader = None /\ f \in scan.pending /\ f \in Files
      /\ loader' = [file |-> f, step |-> "read"] /\ scan' = [scan EXCEPT !.pending = @ \ {f}]
    BY DEF ScanRead, Inv, TypeOK
<1>1. UNCHANGED <<envVars, ghostVars, epochVars, index, tag_index, render, purger, diskVars, wallVars, job>>
    BY DEF ScanRead
<1>2. /\ scan' \in Scans
      /\ scan'.buffer = scan.buffer /\ scan'.pending = scan.pending \ {f} /\ scan'.tags = scan.tags
      /\ scan'.stamp = scan.stamp /\ scan'.base = scan.base /\ scan'.purged_all = scan.purged_all
    BY <1>0, ScanType DEF Inv, Scans
<1>3. loader' \in Loads /\ loader' # None /\ loader'.file = f /\ loader'.step = "read"
    BY SMTT(20), <1>0, PageStoreAssumption DEF Loads
<1>4. TypeOK'
    BY <1>1, <1>2, <1>3 DEF Inv, TypeOK, envVars, ghostVars, epochVars, diskVars, wallVars
<1>5. Bounds' /\ PurgeOK' /\ TagPurgeOK' /\ AllPurgeOK' /\ DurableOK'
    BY <1>1, <1>2, PurgesStill DEF Inv, envVars, diskVars, wallVars
<1>6. FillsOK'
    BY <1>1, FillsStill DEF Inv, envVars, ghostVars, epochVars
<1>7. EntriesOK'
    <2> SUFFICES ASSUME NEW k \in Keys PROVE EntryOK(k)'
        BY DEF EntriesOK
    <2>1. EntryOK(k) /\ index'[k] = index[k] /\ ~ Installing(k)
        BY <1>0, <1>1 DEF Inv, EntriesOK, Installing
    <2>2. Awaits(k) => Awaits(k)'
        BY <1>1 DEF Awaits, ghostVars
    <2> QED
        BY <1>1, <2>1, <2>2, EntryStill DEF envVars, ghostVars, epochVars
<1>8. TagsOK'
    BY <1>1, TagsStill DEF Inv
<1>9. ScanOK'
    <2>1. ASSUME NEW g, ScannedOK(g)
          PROVE  ScannedOK(g)'
        BY <1>1, <1>2, <2>1
        DEF ScannedOK, Meets, ScanVetoed, Buffered, TagPurgedSinceWall, envVars, ghostVars, wallVars
    <2>2. scan.buffer /\ ScannedOK(f)
        BY <1>0 DEF Inv, ScanOK
    <2>3. ScannedOK(f)' /\ \A g \in scan'.pending : scan'.buffer /\ ScannedOK(g)'
        BY <1>2, <2>1, <2>2 DEF Inv, ScanOK
    <2>4. ScannedOK(loader.file)'
        BY <1>3, <2>3 DEF ScannedOK, Meets, ScanVetoed, Buffered, TagPurgedSinceWall
    <2> QED
        BY <1>1, <1>2, <1>3, <2>2, <2>3, <2>4 DEF Inv, ScanOK, diskVars
<1>10. FilesOK'
    BY <1>1, FilesStill DEF Inv, envVars, ghostVars, diskVars, wallVars
<1>11. SeqsOK'
    BY <1>1, <1>2, SeqsStill DEF Inv, diskVars
<1>12. BodiesOK'
    BY <1>1, <1>2, BodiesStill DEF Inv, diskVars
<1>13. NoStrandedFile'
    BY <1>0, <1>1, <1>2, <1>3 DEF Inv, NoStrandedFile, Backing, FileOf, diskVars
<1> QED
    BY <1>4, <1>5, <1>6, <1>7, <1>8, <1>9, <1>10, <1>11, <1>12, <1>13 DEF Inv

\* A refused file goes; no entry of this process has it.
LEMMA LoadRejectInv ==
    ASSUME Inv, LoadReject
    PROVE  Inv'
<1>0. /\ loader # None /\ loader.step # "installed" /\ loader' = None /\ files' = files \ {loader.file}
      /\ loader.file \in Files /\ loader.file.seq < scan.base /\ scan.base \in Nat
      /\ UNCHANGED <<envVars, ghostVars, epochVars, index, tag_index, render, purger, unlinking, next_seq,
                     wallVars, scan, job>>
    BY ScanType DEF LoadReject, Inv, ScanOK, ScannedOK
<1>1. TypeOK'
    BY <1>0 DEF Inv, TypeOK, envVars, ghostVars, epochVars, wallVars
<1>2. Bounds' /\ PurgeOK' /\ TagPurgeOK' /\ AllPurgeOK' /\ DurableOK'
    BY <1>0, PurgesStill DEF Inv, envVars, wallVars
<1>3. FillsOK'
    BY <1>0, FillsStill DEF Inv, envVars, ghostVars, epochVars
<1>4. EntriesOK'
    <2> SUFFICES ASSUME NEW k \in Keys PROVE EntryOK(k)'
        BY DEF EntriesOK
    <2>1. EntryOK(k) /\ index'[k] = index[k] /\ ~ Installing(k)
        BY <1>0 DEF Inv, EntriesOK, Installing
    <2>2. Awaits(k) => Awaits(k)'
        BY <1>0 DEF Awaits, ghostVars
    <2> QED
        BY <1>0, <2>1, <2>2, EntryStill DEF envVars, ghostVars, epochVars
<1>5. TagsOK'
    BY <1>0, TagsStill DEF Inv
<1>6. ScanOK'
    <2>1. \A g : ScannedOK(g) => ScannedOK(g)'
        BY <1>0, ScannedStill DEF envVars, ghostVars, wallVars
    <2> QED
        BY <1>0, <2>1 DEF Inv, ScanOK
<1>7. FilesOK'
    BY <1>0, FilesStill DEF Inv, envVars, ghostVars, wallVars
<1>8. SeqsOK'
    BY <1>0, SeqsStill DEF Inv
<1>9. BodiesOK'
    <2>1. ASSUME NEW k \in Keys, index[k] # None, scan.base <= index[k].seq
          PROVE  FileOf(k, index[k]) # loader.file
        <3>1. FileOf(k, index[k]).seq = index[k].seq /\ index[k].seq \in Nat /\ loader.file.seq \in Nat
            BY <1>0, <2>1, EntryType, FileOfType, FileType DEF Inv
        <3>2. index[k].seq # loader.file.seq
            BY SMTT(20), <1>0, <2>1, <3>1
        <3> QED
            BY <3>1, <3>2
    <2> QED
        BY <1>0, <2>1, BodiesStill DEF Inv
<1>10. NoStrandedFile'
    BY <1>0 DEF Inv, NoStrandedFile, Backing, FileOf
<1> QED
    BY <1>1, <1>2, <1>3, <1>4, <1>5, <1>6, <1>7, <1>8, <1>9, <1>10 DEF Inv

\* The scan takes the shard lock for a file it accepts.
LEMMA LoadAcceptInv ==
    ASSUME Inv, LoadAccept
    PROVE  Inv'
<1>0. /\ loader # None /\ loader.step = "read" /\ ~ ScanVetoed(loader.file)
      /\ loader \in Loads /\ loader.file \in Files /\ scan.stamp \in Nat
      /\ loader' = [loader EXCEPT !.step = "locked"]
      /\ UNCHANGED <<envVars, ghostVars, epochVars, index, tag_index, render, purger, diskVars, wallVars, scan, job>>
    BY ScanType DEF LoadAccept, Inv
<1>1. loader' \in Loads /\ loader' # None /\ loader'.file = loader.file /\ loader'.step = "locked"
    BY <1>0, PageStoreAssumption DEF Loads
<1>2. TypeOK'
    BY <1>0, <1>1 DEF Inv, TypeOK, envVars, ghostVars, epochVars, diskVars, wallVars
<1>3. Bounds' /\ PurgeOK' /\ TagPurgeOK' /\ AllPurgeOK' /\ DurableOK'
    BY <1>0, PurgesStill DEF Inv, envVars, diskVars, wallVars
<1>4. FillsOK'
    BY <1>0, FillsStill DEF Inv, envVars, ghostVars, epochVars
<1>5. EntriesOK'
    <2> SUFFICES ASSUME NEW k \in Keys PROVE EntryOK(k)'
        BY DEF EntriesOK
    <2>1. EntryOK(k) /\ index'[k] = index[k] /\ ~ Installing(k)
        BY <1>0 DEF Inv, EntriesOK, Installing
    <2>2. Awaits(k) => Awaits(k)'
        BY <1>0 DEF Awaits, ghostVars
    <2> QED
        BY <1>0, <2>1, <2>2, EntryStill DEF envVars, ghostVars, epochVars
<1>6. TagsOK'
    BY <1>0, TagsStill DEF Inv
<1>7. ScanOK'
    <2>1. \A g : ScannedOK(g) => ScannedOK(g)'
        BY <1>0, ScannedStill DEF envVars, ghostVars, wallVars
    <2>2. ScannedOK(loader.file)'
        BY <1>0, <1>1
        DEF Inv, ScanOK, ScannedOK, Meets, ScanVetoed, Buffered, TagPurgedSinceWall, envVars, ghostVars, wallVars
    <2>3. scan.stamp < loader.file.stored
        BY SMTT(20), <1>0, FileType DEF ScanVetoed
    <2> QED
        BY <1>0, <1>1, <2>1, <2>2, <2>3 DEF Inv, ScanOK, diskVars
<1>8. FilesOK'
    BY <1>0, FilesStill DEF Inv, envVars, ghostVars, diskVars, wallVars
<1>9. SeqsOK'
    BY <1>0, SeqsStill DEF Inv, diskVars
<1>10. BodiesOK'
    BY <1>0, BodiesStill DEF Inv, diskVars
<1>11. NoStrandedFile'
    BY <1>0, <1>1 DEF Inv, NoStrandedFile, Backing, FileOf, diskVars
<1> QED
    BY <1>2, <1>3, <1>4, <1>5, <1>6, <1>7, <1>8, <1>9, <1>10, <1>11 DEF Inv

\* The scan installs the entry; it is not visible yet.
LEMMA LoadInstallInv ==
    ASSUME Inv, LoadInstall
    PROVE  Inv'
<1>0. PICK f \in Files, k \in Keys : f = loader.file /\ k = f.key
    BY ScanType, FileType DEF LoadInstall, Inv
<1>1. /\ loader # None /\ loader \in Loads /\ loader.step = "locked"
      /\ ScannedOK(f) /\ scan.buffer /\ scan.stamp < f.stored
      /\ scan.base \in Nat /\ scan.base <= next_seq /\ next_seq \in Nat
    BY <1>0, ScanType, NatTypes DEF LoadInstall, Inv, ScanOK
<1>2. PICK e \in Entries : e = Loaded(f)
    BY LoadedType
<1>3. /\ index' = [index EXCEPT ![k] = e] /\ tag_index' = Retag(tag_index, k, f.tags)
      /\ unlinking' = QueueUnlink(k) /\ loader' = [loader EXCEPT !.step = "installed"]
      /\ UNCHANGED <<envVars, ghostVars, epochVars, render, purger, files, next_seq, wallVars, scan, job>>
    BY <1>0, <1>2 DEF LoadInstall, Loaded
<1>4. /\ e.tags = f.tags /\ e.epoch = 0 /\ e.stored = f.stored /\ e.seq = f.seq /\ e # None
      /\ f.tags \in SUBSET Tags /\ f.seq \in Nat /\ f.seq < scan.base /\ f.stored \in 1..clock
    BY <1>1, <1>2, LoadedType, FileType, PageStoreAssumption DEF ScannedOK
<1>5. loader' \in Loads /\ loader' # None /\ loader'.file = f /\ loader'.step = "installed"
    BY <1>0, <1>1, <1>3, PageStoreAssumption DEF Loads
<1>6. index \in [Keys -> Entries \cup {None}] /\ tag_index \in [Tags -> SUBSET Keys]
    BY DEF Inv, TypeOK
<1>7. index'[k] = e /\ \A j \in Keys \ {k} : index'[j] = index[j]
    BY <1>3, <1>6
<1>8. /\ tag_index' \in [Tags -> SUBSET Keys]
      /\ \A t \in Tags : \A j : j \in tag_index'[t] <=> \/ j = k /\ t \in f.tags
                                                        \/ j # k /\ j \in tag_index[t]
    BY SMTT(20), <1>3, <1>4, <1>6, RetagSpec
<1>9. TypeOK'
    <2>1. index' \in [Keys -> Entries \cup {None}]
        BY <1>3, <1>6
    <2>2. unlinking' \subseteq Files
        BY <1>3, BackingType DEF Inv
    <2> QED
        BY <1>3, <1>5, <1>8, <2>1, <2>2 DEF Inv, TypeOK, envVars, ghostVars, epochVars, wallVars
<1>10. Bounds' /\ PurgeOK' /\ TagPurgeOK' /\ AllPurgeOK' /\ DurableOK'
    BY <1>3, PurgesStill DEF Inv, envVars, wallVars
<1>11. FillsOK'
    BY <1>3, FillsStill DEF Inv, envVars, ghostVars, epochVars
<1>12. EntriesOK'
    <2> SUFFICES ASSUME NEW j \in Keys PROVE EntryOK(j)'
        BY DEF EntriesOK
    <2>1. CASE j = k
        <3>1. Installing(j)'
            BY <1>0, <1>5, <2>1 DEF Installing
        <3>2. 0 <= purge_seq
            BY SMTT(20), NatTypes DEF Inv
        <3> QED
            BY <1>3, <1>4, <1>7, <2>1, <3>1, <3>2 DEF EntryOK, envVars, epochVars
    <2>2. CASE j # k
        <3>1. EntryOK(j) /\ index'[j] = index[j] /\ ~ Installing(j)
            BY <1>1, <1>7, <2>2 DEF Inv, EntriesOK, Installing
        <3>2. Awaits(j) => Awaits(j)'
            BY <1>3, <3>1 DEF Awaits, ghostVars
        <3> QED
            BY <1>3, <3>1, <3>2, EntryStill DEF envVars, ghostVars, epochVars
    <2> QED
        BY <2>1, <2>2
<1>13. TagsOK'
    <2> SUFFICES ASSUME NEW j \in Keys, NEW t \in Tags PROVE TagOK(j, t)'
        BY DEF TagsOK
    <2>1. TagOK(j, t) /\ (TakenOut(j, t) => TakenOut(j, t)')
        BY <1>3 DEF Inv, TagsOK, TakenOut
    <2> QED
        BY <1>4, <1>7, <1>8, <2>1 DEF TagOK
<1>14. ScanOK'
    <2>1. \A g : ScannedOK(g) => ScannedOK(g)'
        BY <1>3, ScannedStill DEF envVars, ghostVars, wallVars
    <2>2. ScannedOK(f)'
        BY <1>1, <2>1
    <2>3. ScannedOK(loader.file)'
        BY <1>5, <2>2 DEF ScannedOK, Meets, ScanVetoed, Buffered, TagPurgedSinceWall
    <2>4. index'[loader'.file.key] = Loaded(loader.file)'
        BY <1>0, <1>2, <1>5, <1>7 DEF Loaded
    <2> QED
        BY <1>1, <1>3, <1>5, <2>1, <2>3, <2>4 DEF Inv, ScanOK
<1>15. FilesOK'
    BY <1>3, FilesStill DEF Inv, envVars, ghostVars, wallVars
<1>16. SeqsOK'
    <2>1. \A z \in Nat : Drawn(z)' <=> Drawn(z)
        BY <1>3 DEF Drawn, DrawnBy
    <2>2. f.seq < next_seq /\ \A z \in Nat : Drawn(z) => f.seq # z
        BY SMTT(20), <1>1, <1>4 DEF Inv, SeqsOK
    <2>3. ASSUME NEW g \in files' \cup unlinking'
          PROVE  1 <= g.seq /\ g.seq < next_seq /\ \A z \in Nat : Drawn(z) => g.seq # z
        <3>1. CASE g \in files \cup unlinking
            BY <3>1 DEF Inv, SeqsOK
        <3>2. CASE g \in Backing(k, index[k])
            <4>1. index[k] # None /\ g.seq = index[k].seq /\ g.seq # 0 /\ g.seq \in Nat
                BY <3>2, BackingType, EntryType DEF Inv
            <4>2. 1 <= g.seq
                BY SMTT(20), <4>1
            <4> QED
                BY <4>1, <4>2 DEF Inv, SeqsOK
        <3> QED
            BY <1>3, <2>3, <3>1, <3>2 DEF QueueUnlink
    <2>4. ASSUME NEW j \in Keys, index'[j] # None
          PROVE  index'[j].seq < next_seq /\ \A z \in Nat : Drawn(z) => index'[j].seq # z
        BY <1>4, <1>7, <2>2, <2>4 DEF Inv, SeqsOK
    <2> QED
        BY <1>3, <2>1, <2>3, <2>4 DEF Inv, SeqsOK, DrawnBy
<1>17. BodiesOK'
    <2> SUFFICES ASSUME NEW j \in Keys, index'[j] # None, scan.base <= index'[j].seq
                 PROVE  FileOf(j, index'[j]) \in files \ unlinking'
        BY <1>3 DEF BodiesOK, BodyOK, FileOf
    <2>1. j # k
        BY SMTT(20), <1>1, <1>4, <1>7
    <2>2. index'[j] = index[j] /\ FileOf(j, index[j]).key = j
        BY SMTT(20), <1>7, <2>1, EntryType, FileOfType DEF Inv
    <2>3. FileOf(j, index[j]) \in files \ unlinking
        BY <2>2 DEF Inv, BodiesOK, BodyOK
    <2>4. FileOf(j, index[j]) \notin Backing(k, index[k])
        BY <2>1, <2>2, BackingType DEF Inv
    <2> QED
        BY SMTT(20), <1>3, <2>2, <2>3, <2>4 DEF QueueUnlink
<1>18. NoStrandedFile'
    <2> SUFFICES ASSUME NEW g \in files
                 PROVE  \/ g \in unlinking' \cup scan.pending
                        \/ g = f
                        \/ g \in Backing(g.key, index'[g.key])
        BY <1>3, <1>5 DEF NoStrandedFile, Backing, FileOf
    <2>1. CASE g \in Backing(g.key, index[g.key])
        <3>1. g.key \in Keys
            BY FileType DEF Inv, TypeOK
        <3> QED
            BY <1>3, <1>7, <2>1, <3>1 DEF QueueUnlink
    <2>2. CASE g \notin Backing(g.key, index[g.key])
        BY <1>0, <1>3, <2>2 DEF Inv, NoStrandedFile, QueueUnlink
    <2> QED
        BY <2>1, <2>2
<1> QED
    BY <1>9, <1>10, <1>11, <1>12, <1>13, <1>14, <1>15, <1>16, <1>17, <1>18 DEF Inv

\* The last look: what it lets through is fresh, and no purge in progress covers it.
LEMMA LoadFinalInv ==
    ASSUME Inv, LoadFinal
    PROVE  Inv'
<1>0. PICK f \in Files, k \in Keys : f = loader.file /\ k = f.key
    BY ScanType, FileType DEF LoadFinal, Inv
<1>1. /\ loader # None /\ loader.step = "installed" /\ loader' = None /\ Installing(k)
      /\ ScannedOK(f) /\ scan.buffer /\ scan.stamp < f.stored /\ scan.stamp \in Nat /\ f.stored \in Nat
      /\ index[k] = Loaded(f)
      /\ UNCHANGED <<envVars, ghostVars, epochVars, render, purger, files, next_seq, wallVars, scan, job>>
    BY <1>0, ScanType, FileType DEF LoadFinal, Inv, ScanOK, Installing
<1>2. CASE LateVeto(f)
    <2>1. /\ index' = [index EXCEPT ![k] = None] /\ tag_index' = WithoutKey(tag_index, k)
          /\ unlinking' = QueueUnlink(k)
        BY <1>0, <1>2 DEF LoadFinal
    <2>2. PassesOn(k)
        BY <1>1 DEF PassesOn
    <2> QED
        BY <1>1, <2>1, <2>2, TeardownInv
<1>3. CASE ~ LateVeto(f)
    <2>1. UNCHANGED <<index, tag_index, unlinking>>
        BY <1>0, <1>3 DEF LoadFinal
    <2>2. /\ Loaded(f).tags = f.tags /\ Loaded(f).ver = f.ver /\ Loaded(f) # None
          /\ FileOf(k, Loaded(f)) = f /\ Loaded(f).seq = f.seq
        BY <1>0, LoadedType, PageStoreAssumption
    <2>3. TypeOK'
        BY <1>1, <2>1 DEF Inv, TypeOK, envVars, ghostVars, epochVars, wallVars
    <2>4. Bounds' /\ PurgeOK' /\ TagPurgeOK' /\ AllPurgeOK' /\ DurableOK'
        BY <1>1, <2>1, PurgesStill DEF Inv, envVars, wallVars
    <2>5. FillsOK'
        BY <1>1, FillsStill DEF Inv, envVars, ghostVars, epochVars
    <2>6. EntriesOK'
        <3> SUFFICES ASSUME NEW j \in Keys PROVE EntryOK(j)'
            BY DEF EntriesOK
        <3>1. EntryOK(j) /\ index'[j] = index[j] /\ (Awaits(j) => Awaits(j)')
            BY <1>1, <2>1 DEF Inv, EntriesOK, Awaits, ghostVars
        <3>2. CASE j # k
            <4>1. ~ Installing(j)
                BY <1>0, <3>2 DEF Installing
            <4> QED
                BY <1>1, <3>1, <4>1, EntryStill DEF envVars, ghostVars, epochVars
        <3>3. CASE j = k
            <4>1. ~ (f.stored <= scan.stamp)
                BY SMTT(20), <1>1
            <4>2. Meets(f.tags, f.ver) /\ ~ Buffered(f.tags)
                BY <1>1, <1>3, <4>1 DEF ScannedOK, ScanVetoed, LateVeto
            <4>3. Awaits(k)
                BY <1>1, <2>2, <4>2 DEF Awaits, Buffered, Inv, TagPurgeOK, AllPurgeOK
            <4> QED
                BY <1>1, <2>1, <2>2, <3>1, <3>3, <4>2, <4>3 DEF EntryOK, Meets, envVars, ghostVars, epochVars
        <3> QED
            BY <3>2, <3>3
    <2>7. TagsOK'
        BY <1>1, <2>1, TagsStill DEF Inv
    <2>8. ScanOK'
        <3>1. \A g : ScannedOK(g) => ScannedOK(g)'
            BY <1>1, ScannedStill DEF envVars, ghostVars, wallVars
        <3> QED
            BY <1>1, <3>1 DEF Inv, ScanOK
    <2>9. FilesOK'
        BY <1>1, FilesStill DEF Inv, envVars, ghostVars, wallVars
    <2>10. SeqsOK'
        BY <1>1, <2>1, SeqsStill DEF Inv
    <2>11. BodiesOK'
        BY <1>1, <2>1, BodiesStill DEF Inv
    <2>12. NoStrandedFile'
        <3>1. f.seq # 0
            BY SMTT(20), <1>1 DEF ScannedOK
        <3>2. f \in Backing(f.key, index[f.key])
            BY SMTT(20), <1>0, <1>1, <2>2, <3>1 DEF Backing
        <3> QED
            BY <1>0, <1>1, <2>1, <3>2 DEF Inv, NoStrandedFile, Backing, FileOf
    <2> QED
        BY <2>3, <2>4, <2>5, <2>6, <2>7, <2>8, <2>9, <2>10, <2>11, <2>12 DEF Inv
<1> QED
    BY <1>2, <1>3

\* The scan is over and its buffer dropped.
LEMMA ScanDoneInv ==
    ASSUME Inv, ScanDone
    PROVE  Inv'
<1>0. /\ loader = None /\ loader' = None /\ scan.pending \cap files = {}
      /\ scan' = [NoScan EXCEPT !.base = scan.base]
      /\ UNCHANGED <<envVars, ghostVars, epochVars, index, tag_index, render, purger, diskVars, wallVars, loader, job>>
    BY DEF ScanDone
<1>1. /\ scan' \in Scans /\ scan'.buffer = FALSE /\ scan'.pending = {} /\ scan'.base = scan.base
    BY <1>0, ScanType DEF Inv, NoScan, Scans
<1>2. TypeOK'
    BY <1>0, <1>1 DEF Inv, TypeOK, envVars, ghostVars, epochVars, diskVars, wallVars
<1>3. Bounds' /\ PurgeOK' /\ TagPurgeOK' /\ AllPurgeOK' /\ DurableOK'
    BY <1>0, <1>1, PurgesStill DEF Inv, envVars, diskVars, wallVars
<1>4. FillsOK'
    BY <1>0, FillsStill DEF Inv, envVars, ghostVars, epochVars
<1>5. EntriesOK' /\ TagsOK'
    BY <1>0, EntriesStill, TagsStill DEF Inv, envVars, ghostVars, epochVars
<1>6. ScanOK'
    BY <1>0, <1>1 DEF Inv, ScanOK, diskVars
<1>7. FilesOK'
    BY <1>0, FilesStill DEF Inv, envVars, ghostVars, diskVars, wallVars
<1>8. SeqsOK'
    BY <1>0, <1>1, SeqsStill DEF Inv, diskVars
<1>9. BodiesOK'
    BY <1>0, <1>1, BodiesStill DEF Inv, diskVars
<1>10. NoStrandedFile'
    BY <1>0, <1>1 DEF Inv, NoStrandedFile, Backing, FileOf, diskVars
<1> QED
    BY <1>2, <1>3, <1>4, <1>5, <1>6, <1>7, <1>8, <1>9, <1>10 DEF Inv

------------------------------------------------------------------------------
(* Restarts and the clock. *)

\* Whatever the journal or the stamp refuses, the store that comes up refuses; and what
\* it leaves on disk refuses it at the next restart too.
LEMMA RecoveryKeeps ==
    ASSUME Inv, NEW torn \in BOOLEAN, NEW ok \in BOOLEAN, RecoverPurgeState(torn, ok),
           UNCHANGED <<clock, durable, durableAll, purge_stamp, files>>
    PROVE  /\ peer_floor' \in Nat /\ peer_wall' \in [Tags -> Nat]
           /\ journal' \in Journals
           /\ compact_due' \in BOOLEAN /\ faults' \in Nat
           /\ FilesOK'
<1>0. /\ clock \in Nat /\ purge_stamp \in Nat /\ faults \in Nat
      /\ journal \in Journals
      /\ journal.floor \in Nat /\ journal.stamps \in [Tags -> Nat]
    BY NatTypes DEF Inv, TypeOK, Journals
<1>1. PICK floor \in BoundFloor(journal.stamps, Larger(Recovered(torn), purge_stamp)) :
          /\ peer_floor' = floor /\ peer_wall' = Newer(journal.stamps, floor)
          /\ compact_due' \in BOOLEAN /\ faults' \in {faults, faults + 1}
          /\ \/ journal' = [floor |-> floor, stamps |-> Newer(journal.stamps, floor), corrupt |-> FALSE]
             \/ journal' = [journal EXCEPT !.corrupt = journal.corrupt \/ torn]
             \/ journal' = journal
    BY DEF RecoverPurgeState
<1>2. /\ Recovered(torn) \in Nat /\ journal.floor <= Recovered(torn)
      /\ journal.corrupt => clock <= Recovered(torn)
    BY SMTT(20), <1>0 DEF Recovered, Larger
<1>3. /\ Larger(Recovered(torn), purge_stamp) \in Nat
      /\ Recovered(torn) <= Larger(Recovered(torn), purge_stamp)
      /\ purge_stamp <= Larger(Recovered(torn), purge_stamp)
    BY SMTT(20), <1>0, <1>2 DEF Larger
<1>4. floor \in Nat /\ Larger(Recovered(torn), purge_stamp) <= floor
    BY <1>0, <1>1, <1>3, BoundFloorRises
<1>5. peer_wall' \in [Tags -> Nat]
    BY <1>0, <1>1 DEF Newer
<1>6. journal' \in Journals
    BY SMTT(20), <1>0, <1>1, <1>4, <1>5, JournalType
<1>7. ASSUME NEW f \in files
      PROVE  FileOK(f)'
    <2>1. f \in Files /\ FileOK(f) /\ f.tags \subseteq Tags /\ f.stored \in Nat /\ 1 <= f.stored /\ f.stored <= clock
        BY SMTT(20), <1>0, FileType DEF Inv, TypeOK, FilesOK, FileOK
    <2>2. Honours(f) => Honours(f)'
        BY DEF Honours
    <2>3. ASSUME RefusedOnDisk(f)
          PROVE  RefusedInRam(f)'
        <3>1. CASE journal.corrupt \/ f.stored <= journal.floor \/ f.stored <= purge_stamp
            <4>1. f.stored <= floor
                BY SMTT(20), <1>0, <1>2, <1>3, <1>4, <2>1, <3>1
            <4> QED
                BY <1>1, <4>1 DEF RefusedInRam, TagPurgedSinceWall
        <3>2. CASE \E t \in f.tags : journal.stamps[t] >= f.stored
            <4>1. PICK t \in f.tags : f.stored <= journal.stamps[t]
                BY <1>0, <2>1, <3>2
            <4>2. \/ f.stored <= floor
                  \/ /\ Newer(journal.stamps, floor)[t] # 0
                     /\ f.stored <= Newer(journal.stamps, floor)[t]
                BY <1>0, <1>4, <2>1, <4>1, NewerCovers
            <4>3. Newer(journal.stamps, floor)[t] \in Nat
                BY <1>1, <1>5, <2>1
            <4>4. f.stored <= peer_floor' \/ (peer_wall'[t] # 0 /\ peer_wall'[t] >= f.stored)
                BY <1>1, <1>4, <2>1, <4>2, <4>3
            <4> QED
                BY <4>4 DEF RefusedInRam, TagPurgedSinceWall
        <3> QED
            BY <2>3, <3>1, <3>2 DEF RefusedOnDisk
    <2>4. Honours(f)' \/ RefusedInRam(f)'
        BY <2>1, <2>2, <2>3 DEF FileOK
    <2>5. CASE journal' = [floor |-> floor, stamps |-> Newer(journal.stamps, floor), corrupt |-> FALSE]
        <3>1. RefusedInRam(f)' => RefusedOnDisk(f)'
            BY <1>1, <2>5 DEF RefusedInRam, RefusedOnDisk, TagPurgedSinceWall
        <3> QED
            BY <2>1, <2>4, <3>1 DEF FileOK
    <2>6. CASE journal' = [journal EXCEPT !.corrupt = journal.corrupt \/ torn] \/ journal' = journal
        <3>1. /\ journal.corrupt => journal'.corrupt
              /\ journal'.floor = journal.floor /\ journal'.stamps = journal.stamps
            BY <1>0, <2>6 DEF Journals
        <3>2. RefusedOnDisk(f) => RefusedOnDisk(f)'
            BY <3>1 DEF RefusedOnDisk
        <3> QED
            BY <2>1, <2>2, <2>4, <3>2 DEF FileOK
    <2> QED
        BY <1>1, <2>5, <2>6
<1>8. FilesOK'
    BY <1>7 DEF FilesOK
<1>9. faults' \in Nat
    BY SMTT(20), <1>0, <1>1
<1> QED
    BY <1>1, <1>4, <1>5, <1>6, <1>8, <1>9

\* The process stops at any point, and the next one comes up on what it left.
LEMMA RestartInv ==
    ASSUME Inv, NEW torn \in BOOLEAN, NEW ok \in BOOLEAN, Restart(torn, ok)
    PROVE  Inv'
<1>0. /\ HasDisk /\ crashes' = crashes + 1 /\ RecoverPurgeState(torn, ok)
      /\ req' = durable /\ reqAll' = durableAll
      /\ purge_seq' = 0 /\ purge_all_epoch' = 0 /\ tag_epoch_prune_floor' = 0
      /\ tag_purge_epoch' = [t \in Tags |-> 0]
      /\ index' = [k \in Keys |-> None] /\ tag_index' = [t \in Tags |-> {}]
      /\ render' = [r \in Renders |-> Idle]
      /\ purger' = None /\ loader' = None /\ job' = None /\ unlinking' = {}
      /\ scan' = [NoScan EXCEPT !.buffer = TRUE, !.pending = files, !.stamp = purge_stamp, !.base = next_seq]
      /\ UNCHANGED <<clock, version, durable, durableAll, files, next_seq, purge_stamp>>
    BY DEF Restart
<1>1. /\ peer_floor' \in Nat /\ peer_wall' \in [Tags -> Nat]
      /\ journal' \in Journals
      /\ compact_due' \in BOOLEAN /\ faults' \in Nat
      /\ FilesOK'
    BY <1>0, RecoveryKeeps
<1>2. /\ clock \in Nat /\ crashes' \in Nat /\ version \in Nat /\ durableAll \in Nat /\ durable \in [Tags -> Nat]
      /\ next_seq \in Nat /\ purge_stamp \in Nat /\ files \subseteq Files
      /\ scan.base \in Nat /\ 1 <= scan.base /\ scan.base <= next_seq
    BY SMTT(20), <1>0, NatTypes, ScanType DEF Inv, TypeOK, ScanOK
<1>3. /\ scan' \in Scans
      /\ scan'.buffer = TRUE /\ scan'.pending = files /\ scan'.stamp = purge_stamp /\ scan'.base = next_seq
    BY <1>0, <1>2 DEF NoScan, Scans
<1>4. /\ \A k \in Keys : index'[k] = None
      /\ \A t \in Tags : tag_index'[t] = {} /\ tag_purge_epoch'[t] = 0
      /\ \A r \in Renders : render'[r] = Idle
    BY <1>0
<1>5. TypeOK'
    <2>1. /\ index' \in [Keys -> Entries \cup {None}] /\ tag_index' \in [Tags -> SUBSET Keys]
          /\ tag_purge_epoch' \in [Tags -> Nat] /\ render' \in [Renders -> Fills]
        BY <1>0, IdleFill DEF Inv
    <2> QED
        BY <1>0, <1>1, <1>2, <1>3, <2>1 DEF Inv, TypeOK
<1>6. Bounds'
    <2>1. 0 <= version /\ 0 <= 0
        BY SMTT(20), <1>2
    <2> QED
        BY <1>0, <1>4, <2>1 DEF Inv, Bounds
<1>7. PurgeOK' /\ TagPurgeOK' /\ AllPurgeOK'
    BY <1>0 DEF PurgeOK, TagPurgeOK, AllPurgeOK
<1>8. DurableOK'
    <2>1. durableAll <= durableAll /\ \A t \in Tags : durable[t] <= durable[t]
        BY SMTT(20), <1>2
    <2> QED
        BY <1>0, <2>1 DEF DurableOK
<1>9. FillsOK'
    <2>1. FillOK(Idle)'
        BY SMTT(20), <1>0 DEF FillOK, Idle
    <2> QED
        BY <1>4, <2>1 DEF FillsOK, FillOK, Idle
<1>10. EntriesOK' /\ TagsOK' /\ BodiesOK'
    BY <1>4 DEF EntriesOK, EntryOK, TagsOK, TagOK, BodiesOK, BodyOK
<1>11. ScanOK'
    <2>1. ASSUME NEW f \in files
          PROVE  ScannedOK(f)'
        <3>1. FileOK(f)'
            BY <1>0, <1>1, <2>1 DEF FilesOK
        <3>2. 1 <= f.seq /\ f.seq < scan'.base
            BY <1>3, <2>1 DEF Inv, SeqsOK
        <3>3. Honours(f)' => Meets(f.tags, f.ver)'
            BY <1>0 DEF Honours, Meets
        <3>4. RefusedInRam(f)' => ScanVetoed(f)'
            BY <1>0, <1>3 DEF RefusedInRam, ScanVetoed
        <3> QED
            BY <3>1, <3>2, <3>3, <3>4 DEF ScannedOK, FileOK
    <2>2. 1 <= next_seq /\ next_seq <= next_seq
        BY SMTT(20), <1>2
    <2> QED
        BY <1>0, <1>3, <2>1, <2>2 DEF ScanOK
<1>12. SeqsOK'
    <2>1. \A z \in Nat : ~ Drawn(z)'
        BY <1>0, <1>4 DEF Drawn, DrawnBy, Idle
    <2>2. \A r \in Renders, z \in Nat : ~ DrawnBy(render'[r], z)
        BY SMTT(20), <1>4 DEF DrawnBy, Idle
    <2>3. \A f \in files' \cup unlinking' : 1 <= f.seq /\ f.seq < next_seq'
        BY <1>0 DEF Inv, SeqsOK
    <2> QED
        BY <1>0, <1>4, <2>1, <2>2, <2>3 DEF SeqsOK, DrawnBy
<1>13. NoStrandedFile'
    BY <1>0, <1>3 DEF NoStrandedFile
<1> QED
    BY <1>1, <1>5, <1>6, <1>7, <1>8, <1>9, <1>10, <1>11, <1>12, <1>13 DEF Inv

\* Time passes.
LEMMA TickInv ==
    ASSUME Inv, Tick
    PROVE  Inv'
<1>0. clock \in Nat /\ clock' = clock + 1
    BY NatTypes DEF Inv, Tick
<1>1. clock' \in Nat /\ clock <= clock' /\ \A s : s \in 1..clock => s \in 1..clock'
    BY SMTT(20), <1>0
<1>2. UNCHANGED <<crashes, faults, ghostVars, epochVars, index, tag_index, render, purger, diskVars,
                  wallVars, scanVars, job>>
    BY DEF Tick
<1>3. TypeOK'
    BY <1>1, <1>2 DEF Inv, TypeOK, ghostVars, epochVars, diskVars, wallVars, scanVars
<1>4. Bounds'
    <2>1. 1 <= clock' /\ purge_stamp <= clock'
        BY SMTT(20), <1>0, NatTypes DEF Inv, Bounds
    <2> QED
        BY <1>2, <2>1 DEF Inv, Bounds, ghostVars, epochVars, wallVars
<1>5. PurgeOK'
    <2>1. purger # None => purger.wall <= clock'
        BY SMTT(20), <1>0, PurgerType DEF Inv, PurgeOK
    <2> QED
        BY <1>2, <2>1 DEF Inv, PurgeOK, ghostVars, epochVars, diskVars, wallVars
<1>6. TagPurgeOK' /\ AllPurgeOK'
    BY <1>2 DEF Inv, TagPurgeOK, AllPurgeOK, epochVars, wallVars, scanVars
<1>7. DurableOK'
    BY <1>2 DEF Inv, DurableOK, ghostVars
<1>8. FillsOK'
    <2> SUFFICES ASSUME NEW r \in Renders PROVE FillOK(render[r])'
        BY DEF FillsOK
    <2>1. FillOK(render[r])
        BY DEF Inv, FillsOK
    <2> QED
        BY <1>1, <1>2, <2>1 DEF FillOK, Meets, PurgedAfter, ghostVars, epochVars
<1>9. EntriesOK'
    <2> SUFFICES ASSUME NEW k \in Keys PROVE EntryOK(k)'
        BY DEF EntriesOK
    <2>1. EntryOK(k)
        BY DEF Inv, EntriesOK
    <2> QED
        BY <1>1, <1>2, <2>1 DEF EntryOK, Meets, Awaits, Installing, ghostVars, epochVars, scanVars
<1>10. TagsOK'
    BY <1>2, TagsStill DEF Inv
<1>11. ScanOK'
    <2>1. ASSUME NEW f \in Files, scan.buffer, ScannedOK(f)
          PROVE  (Meets(f.tags, f.ver) \/ ScanVetoed(f))'
        BY <1>2, <2>1
        DEF ScannedOK, Meets, ScanVetoed, Buffered, TagPurgedSinceWall, ghostVars, wallVars, scanVars
    <2> QED
        BY <1>1, <1>2, <2>1, ScanStays DEF diskVars, scanVars
<1>12. FilesOK'
    <2> SUFFICES ASSUME NEW f \in files PROVE FileOK(f)'
        BY <1>2 DEF FilesOK, diskVars
    <2>1. FileOK(f)
        BY DEF Inv, FilesOK
    <2> QED
        BY <1>1, <1>2, <2>1
        DEF FileOK, Honours, RefusedOnDisk, RefusedInRam, TagPurgedSinceWall, ghostVars, wallVars
<1>13. SeqsOK'
    BY <1>2, SeqsStill DEF Inv, diskVars, scanVars
<1>14. BodiesOK'
    BY <1>2, BodiesStill DEF Inv, diskVars, scanVars
<1>15. NoStrandedFile'
    BY SMTT(20), <1>2 DEF Inv, NoStrandedFile, Backing, FileOf, diskVars, scanVars
<1> QED
    BY <1>3, <1>4, <1>5, <1>6, <1>7, <1>8, <1>9, <1>10, <1>11, <1>12, <1>13, <1>14, <1>15 DEF Inv

------------------------------------------------------------------------------
(* The invariant, and what it says. *)

\* A store that comes up on inherited containers satisfies the invariant.
LEMMA InitInv == Init => Inv
<1> SUFFICES ASSUME Init PROVE Inv
    OBVIOUS
<1>0. MaxInherited \in Nat /\ MaxInherited + 1 \in Nat
    BY SMTT(20), PageStoreAssumption
<1>1. \A f \in files : f \in Files /\ f.ver = 0 /\ f.stored = 1 /\ f.seq \in 1..MaxInherited
    BY SMTT(20), <1>0 DEF Init, InheritedFiles, Files
<1>2. /\ scan \in Scans /\ scan.buffer = HasDisk /\ scan.pending = files /\ scan.base = MaxInherited + 1
      /\ scan.stamp = 0
    BY <1>0, <1>1, PageStoreAssumption DEF Init, NoScan, Scans
<1>3. /\ \A k \in Keys : index[k] = None
      /\ \A t \in Tags : tag_index[t] = {} /\ req[t] = 0 /\ durable[t] = 0 /\ tag_purge_epoch[t] = 0
      /\ \A r \in Renders : render[r] = Idle
    BY DEF Init
<1>4. TypeOK
    <2>1. Idle \in Fills
        BY SMTT(20) DEF Idle, Fills
    <2>2. render \in [Renders -> Fills] /\ index \in [Keys -> Entries \cup {None}]
          /\ tag_index \in [Tags -> SUBSET Keys]
        BY <2>1 DEF Init
    <2>3. req \in [Tags -> Nat] /\ durable \in [Tags -> Nat] /\ tag_purge_epoch \in [Tags -> Nat]
          /\ peer_wall \in [Tags -> Nat]
        BY DEF Init
    <2>4. journal \in Journals
        BY JournalType DEF Init
    <2>5. /\ clock \in Nat /\ crashes \in Nat /\ faults \in Nat
          /\ version \in Nat /\ reqAll \in Nat /\ durableAll \in Nat
          /\ purge_seq \in Nat /\ purge_all_epoch \in Nat /\ tag_epoch_prune_floor \in Nat
          /\ next_seq \in Nat /\ purge_stamp \in Nat /\ peer_floor \in Nat
        BY <1>0 DEF Init
    <2>6. compact_due \in BOOLEAN /\ purger = None /\ loader = None /\ job = None /\ unlinking = {}
        BY DEF Init
    <2> QED
        BY <1>1, <1>2, <2>2, <2>3, <2>4, <2>5, <2>6 DEF TypeOK
<1>5. Bounds
    BY SMTT(20), <1>3 DEF Init, Bounds
<1>6. PurgeOK /\ TagPurgeOK /\ AllPurgeOK
    BY DEF Init, PurgeOK, TagPurgeOK, AllPurgeOK
<1>7. DurableOK
    BY SMTT(20), <1>3 DEF Init, DurableOK
<1>8. FillsOK
    BY <1>3, <1>4, IdleFill DEF FillsOK
<1>9. EntriesOK /\ TagsOK /\ BodiesOK
    BY <1>3 DEF EntriesOK, EntryOK, TagsOK, TagOK, BodiesOK, BodyOK
<1>10. ASSUME NEW f \in files
       PROVE  /\ f.stored \in 1..clock /\ 1 <= f.seq /\ f.seq < MaxInherited + 1
              /\ Meets(f.tags, f.ver) /\ Honours(f)
    <2>1. f.stored \in 1..clock /\ 1 <= f.seq /\ f.seq < MaxInherited + 1
        BY SMTT(20), <1>0, <1>1, <1>10 DEF Init
    <2>2. Meets(f.tags, f.ver) /\ Honours(f)
        BY SMTT(20), <1>1, <1>3, <1>10, FileType DEF Init, Meets, Honours
    <2> QED
        BY <2>1, <2>2
<1>11. ScanOK
    <2>1. 1 <= MaxInherited + 1 /\ MaxInherited + 1 <= MaxInherited + 1
        BY SMTT(20), <1>0
    <2>2. \A f \in scan.pending : scan.buffer /\ ScannedOK(f)
        <3>1. files # {} => HasDisk
            BY DEF Init
        <3> QED
            BY <1>2, <1>10, <3>1 DEF ScannedOK
    <2> QED
        BY <1>2, <2>1, <2>2 DEF Init, ScanOK
<1>12. FilesOK
    BY <1>10 DEF FilesOK, FileOK
<1>13. SeqsOK
    <2>1. \A r \in Renders, z \in Nat : ~ DrawnBy(render[r], z)
        BY SMTT(20), <1>3 DEF DrawnBy, Idle
    <2>2. \A z \in Nat : ~ Drawn(z)
        BY <2>1 DEF Init, Drawn
    <2> QED
        BY <1>3, <1>10, <2>1, <2>2 DEF Init, SeqsOK
<1>14. NoStrandedFile
    BY <1>2 DEF NoStrandedFile
<1> QED
    BY <1>4, <1>5, <1>6, <1>7, <1>8, <1>9, <1>11, <1>12, <1>13, <1>14 DEF Inv

\* Every step keeps the invariant.
LEMMA NextInv == Inv /\ [Next]_vars => Inv'
<1> SUFFICES ASSUME Inv, [Next]_vars PROVE Inv'
    OBVIOUS
<1>1. ASSUME NEW r \in Renders, RenderStep(r)
      PROVE  Inv'
    BY <1>1, SnapshotInv, BeginRenderInv, BackendRenderInv, StreamBeginInv, DispatchReturnsInv, PrepareInv,
       FillEnds, StoreInstalledInv, StoreRefusedInv DEF RenderStep
<1>2. CASE PurgeStep
    BY <1>2, PurgeTagInv, PurgeMemberInv, PurgeTagsDoneInv, PurgeAllIndexInv, PurgeAllStampInv,
       PurgeAllShardInv, PurgeAllDoneInv DEF PurgeStep
<1>3. CASE ScanStep
    BY <1>3, ScanReadInv, LoadRejectInv, LoadAcceptInv, LoadInstallInv, LoadFinalInv, ScanDoneInv DEF ScanStep
<1>4. CASE UNCHANGED vars
    <2>1. /\ UNCHANGED <<envVars, ghostVars, epochVars, index, tag_index, purger, diskVars, wallVars, scanVars, job>>
          /\ render' = render
        BY <1>4 DEF vars
    <2>2. TypeOK'
        BY <2>1 DEF Inv, TypeOK, envVars, ghostVars, epochVars, diskVars, wallVars, scanVars
    <2>3. Bounds' /\ PurgeOK' /\ TagPurgeOK' /\ AllPurgeOK' /\ DurableOK'
        BY <2>1, PurgesStill DEF Inv, envVars, diskVars, wallVars, scanVars
    <2>4. FillsOK' /\ EntriesOK' /\ TagsOK'
        BY <2>1, FillsStill, EntriesStill, TagsStill DEF Inv, envVars, ghostVars, epochVars, scanVars
    <2>5. ScanOK'
        BY SMTT(20), <2>1, NatTypes, ScanType, FileType, ScanStill DEF Inv, envVars, ghostVars, diskVars, wallVars, scanVars
    <2>6. FilesOK' /\ SeqsOK' /\ BodiesOK'
        BY <2>1, FilesStill, SeqsStill, BodiesStill DEF Inv, envVars, ghostVars, diskVars, wallVars, scanVars
    <2>7. NoStrandedFile'
        BY <2>1 DEF Inv, NoStrandedFile, Backing, FileOf, diskVars, scanVars
    <2> QED
        BY <2>2, <2>3, <2>4, <2>5, <2>6, <2>7 DEF Inv
<1> QED
    BY <1>1, <1>2, <1>3, <1>4, PurgeTagsInv, PurgeAllInv, EvictInv, UnlinkInv, RecompressPrepareInv,
       RecompressCommitInv, RecompressBailInv, PruneInv, RestartInv, TickInv DEF Next

\* The invariant holds in every reachable state.
THEOREM Invariance == Spec => []Inv
BY InitInv, NextInv, PTL DEF Spec

\* A lookup never finds a page older than a finished purge that covers it, whatever fills,
\* prunings, boot scans, recompressions and restarts run beside the purge or after it.
THEOREM PurgesReach == Spec => []NoStaleAfterPurge
<1>1. Inv => NoStaleAfterPurge
    <2> SUFFICES ASSUME Inv, NEW k \in Keys, Visible(k)
                 PROVE  /\ index[k].ver >= reqAll
                        /\ \A t \in index[k].tags : index[k].ver >= req[t]
        BY DEF NoStaleAfterPurge
    <2>1. index[k] # None /\ ~ Installing(k)
        BY DEF Visible, Locked, Installing
    <2>2. Meets(index[k].tags, index[k].ver)
        BY <2>1 DEF Inv, EntriesOK, EntryOK
    <2>3. /\ index[k].ver \in Nat /\ reqAll \in Nat /\ index[k].tags \subseteq Tags
          /\ \A t \in Tags : req[t] \in Nat
        BY <2>1, EntryType, NatTypes DEF Inv
    <2> QED
        BY <2>2, <2>3 DEF Meets
<1> QED
    BY <1>1, Invariance, PTL

\* The tag index lists exactly the entries that carry a tag, but for those the purge in
\* progress has taken out to visit.
THEOREM TagIndexExact == Spec => []TagIndexMatches
<1>1. Inv => TagIndexMatches
    BY DEF Inv, TagsOK, TagOK, TakenOut, TagIndexMatches, Visible
<1> QED
    BY <1>1, Invariance, PTL

\* Nothing unlinks the container that an entry of this process resolves to.
THEOREM Bodies == Spec => []BodyPresent
<1>1. Inv => BodyPresent
    BY DEF Inv, BodiesOK, BodyOK, BodyPresent, Visible, Backing
<1> QED
    BY <1>1, Invariance, PTL

\* Every container is the body of an entry, queued for unlink, or still to be scanned.
THEOREM Containers == Spec => []NoStrandedFile
<1>1. Inv => NoStrandedFile
    BY DEF Inv
<1> QED
    BY <1>1, Invariance, PTL

=============================================================================
