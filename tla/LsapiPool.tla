----------------------------- MODULE LsapiPool -----------------------------
(***************************************************************************)
(* The LSAPI connection pool of a web process whose PHP workers belong to  *)
(* another process, the standalone supervisor (crates/hj-lsapi/src/pool.rs *)
(* with an ExternalGeneration).                                            *)
(*                                                                         *)
(* The supervisor publishes an epoch and the marker of the current worker  *)
(* family in a mapped file, under a busy bit.  The web process reads it at *)
(* every acquire and every return, adopts the epoch as its generation and  *)
(* drops the idle sockets of the old one.  A socket is stamped with the    *)
(* generation it was acquired under; one dialled while families overlap    *)
(* may carry the new generation and reach an old worker, which is why a    *)
(* returning socket's worker is attributed to its family while families    *)
(* may be changing.                                                        *)
(*                                                                         *)
(* Every atomic access another thread or the other process can slip        *)
(* between is a step of its own.  The families' life is external; it is    *)
(* specified in LsphpSupervisor.                                           *)
(***************************************************************************)
EXTENDS Integers, Sequences, FiniteSets, FiniteSetsExt

CONSTANTS Reqs,        \* requests
          MaxConns,    \* max_conns, the permits
          MaxFamily,   \* bound: worker families the supervisors spawn
          MaxEpoch,    \* bound: epochs published
          MaxIdle      \* bound: idle sockets an acquire_fresh may leave behind

LsapiPoolAssumption ==
  /\ IsFiniteSet(Reqs) /\ {MaxConns, MaxFamily, MaxEpoch, MaxIdle} \subseteq Nat \ {0}

VARIABLES
  file,      \* the mapped generation file
  sup,       \* its writer, the standalone supervisor
  alive,     \* families with workers, any of which may take a dial
  seen,      \* seen_families
  recent,    \* a family replacement was seen within STALE_FAMILY_WINDOW
  obs,       \* a thread in ExternalGeneration::snapshot
  gen,       \* LsapiPool.generation
  idle,      \* the idle sockets, oldest first
  req,       \* the requests
  discards,  \* families of the attributed sockets discard_stale_entries holds
  discarding,\* the entry it is at
  retirement,\* history: the epoch of a retirement nothing was published over
  signalled  \* history: a worker of an unpublished family got SIGUSR1

world == <<file, sup, alive, retirement>>
reader == <<seen, recent, obs>>
bin == <<discards, discarding>>
process == <<reader, gen, idle, req, bin, signalled>>
vars == <<world, process>>

Families == 1..MaxFamily
RETIRED == MaxFamily + 1   \* RETIRED_MARKER_FINGERPRINT
Unknown == 0

Off == [pc |-> "off", then |-> "off", gen |-> 0, fam |-> 0, worker |-> FALSE,
        pooled |-> 0, since |-> 0, snap |-> 0]
Done == [Off EXCEPT !.pc = "done"]
Resting == [pc |-> "off", fam |-> 0, other |-> 0]

Init ==
  /\ file = [epoch |-> 1, marker |-> 1, busy |-> FALSE]
  /\ sup = [pc |-> "up", op |-> "none", retired |-> FALSE, cur |-> 1, cand |-> 0, last |-> 1]
  /\ alive = {1}
  /\ seen = <<1, 0>> /\ recent = FALSE /\ obs = Resting
  /\ gen = 1 /\ idle = <<>> /\ req = [r \in Reqs |-> Off]
  /\ discards = {} /\ discarding = Resting
  /\ retirement = 0 /\ signalled = FALSE

----------------------------------------------------------------------------
(* The supervisor. *)

(* A reload candidate, or a new supervisor's first family, answers dials   *)
(* before it is published.                                                 *)
Spawn ==
  /\ sup.pc = "up" /\ sup.cand = 0 /\ sup.last < MaxFamily /\ ~sup.retired
  /\ sup' = [sup EXCEPT !.cand = sup.last + 1, !.last = @ + 1]
  /\ alive' = alive \cup {sup.last + 1}
  /\ UNCHANGED <<file, retirement, process>>

(* update() is three stores: the busy bit, the marker, the epoch. *)
SetBusy(op) ==
  /\ file.epoch < MaxEpoch
  /\ file' = [file EXCEPT !.busy = TRUE]
  /\ sup' = [sup EXCEPT !.pc = "busy", !.op = op, !.retired = @ \/ op = "retire"]
  /\ retirement' = 0
  /\ UNCHANGED <<alive, process>>

AdvanceWithMarker == sup.pc = "up" /\ sup.cand # 0 /\ SetBusy("promote")
RetireAll == sup.pc = "up" /\ ~sup.retired /\ SetBusy("retire")

(* A promotion after retire_all announces no family. *)
StoreMarker ==
  /\ sup.pc = "busy"
  /\ file' = [file EXCEPT !.marker = IF sup.retired THEN RETIRED ELSE sup.cand]
  /\ sup' = [sup EXCEPT !.pc = "marked"]
  /\ UNCHANGED <<alive, retirement, process>>

StoreEpoch ==
  /\ sup.pc = "marked"
  /\ file' = [file EXCEPT !.epoch = @ + 1, !.busy = FALSE]
  /\ sup' = IF sup.op = "promote"
              THEN [sup EXCEPT !.pc = "up", !.op = "none", !.cur = sup.cand, !.cand = 0]
              ELSE [sup EXCEPT !.pc = "up", !.op = "none", !.cur = 0]
  /\ retirement' = IF file.marker = RETIRED THEN file.epoch + 1 ELSE 0
  /\ UNCHANGED <<alive, process>>

(* The supervisor leaves after its retirement, or is killed anywhere. *)
SupervisorExits ==
  /\ sup.pc # "down"
  /\ sup' = [sup EXCEPT !.pc = "down", !.op = "none", !.cur = 0, !.cand = 0]
  /\ UNCHANGED <<file, alive, retirement, process>>

(* open_or_create clears a busy bit its predecessor left. *)
OpenOrCreate ==
  /\ sup.pc = "down" /\ sup.last < MaxFamily
  /\ sup' = [sup EXCEPT !.pc = "up", !.retired = FALSE]
  /\ file' = [file EXCEPT !.busy = FALSE]
  /\ UNCHANGED <<alive, retirement, process>>

(* A family no supervisor keeps ends. *)
FamilyEnds ==
  /\ \E f \in alive \ {sup.cur, sup.cand} : alive' = alive \ {f}
  /\ UNCHANGED <<file, sup, retirement, process>>

----------------------------------------------------------------------------
(* The generation file as the web process sees it. *)

Snapshot == [epoch |-> file.epoch, marker |-> IF file.busy THEN Unknown ELSE file.marker]

(* snapshot() notes a family it has not seen last. *)
Note ==
  IF Snapshot.marker \in Families /\ seen[1] # Snapshot.marker
    THEN /\ seen' = <<Snapshot.marker, seen[1]>>
         /\ recent' = (recent \/ seen[1] # 0) /\ UNCHANGED obs
    ELSE UNCHANGED reader

(* Another thread in snapshot(), between its loads and stores. *)
ObserveRead ==
  /\ obs.pc = "off" /\ Snapshot.marker \in Families /\ seen[1] # Snapshot.marker
  /\ obs' = [Resting EXCEPT !.pc = "read", !.fam = Snapshot.marker]
  /\ UNCHANGED <<seen, recent, world, gen, idle, req, bin, signalled>>

ObserveCas ==
  /\ obs.pc = "read"
  /\ IF seen[1] = obs.fam
       THEN obs' = Resting /\ UNCHANGED <<seen, recent>>
       ELSE /\ recent' = (recent \/ seen[1] # 0)
            /\ seen' = [seen EXCEPT ![1] = obs.fam]
            /\ obs' = [obs EXCEPT !.pc = "cas", !.other = seen[1]]
  /\ UNCHANGED <<world, gen, idle, req, bin, signalled>>

ObserveStore ==
  /\ obs.pc = "cas"
  /\ seen' = [seen EXCEPT ![2] = obs.other] /\ obs' = Resting
  /\ UNCHANGED <<recent, world, gen, idle, req, bin, signalled>>

(* STALE_FAMILY_WINDOW is twice what a replaced family may live. *)
WindowPasses ==
  /\ recent /\ alive \subseteq {sup.cur, sup.cand} /\ obs.pc = "off"
  /\ recent' = FALSE
  /\ UNCHANGED <<seen, obs, world, gen, idle, req, bin, signalled>>

WasSeen(f) == f \in {seen[1], seen[2]}

(* worker_is_stale and worker_is_superseded, on a snapshot taken earlier. *)
IsStale(marker, f) ==
  IF marker = RETIRED THEN WasSeen(f) ELSE marker # Unknown /\ f # marker /\ WasSeen(f)
IsSuperseded(marker, f) == marker \notin {RETIRED, Unknown} /\ f # marker /\ WasSeen(f)

----------------------------------------------------------------------------
(* Sockets the pool drops. *)

(* worker_identity_matters *)
IdentityMatters == Snapshot.marker = RETIRED \/ recent

(* discard_stale_entries: retire_if_stale looks at the workers already     *)
(* known and, while identity matters, at those a best-effort attribution   *)
(* finds.                                                                  *)
Discard(entries) ==
  LET known == {e.fam : e \in {x \in entries : x.worker}}
      found == {e.fam : e \in {x \in entries : x.fam \in alive /\ IdentityMatters}}
  IN \E more \in SUBSET (found \ known) : discards' = discards \cup known \cup more

(* repool_if_current asks only about a worker it already knows. *)
DropKnown(r) ==
  discards' = discards \cup (IF req[r].worker THEN {req[r].fam} ELSE {})

Entries(seq) == {seq[i] : i \in DOMAIN seq}

(* worker_is_stale: the snapshot, and later the families seen; then the    *)
(* signal.                                                                 *)
StaleSnapshot ==
  /\ discarding.pc = "off" /\ Note
  /\ \E f \in discards :
       /\ discards' = discards \ {f}
       /\ discarding' = [pc |-> "signal", fam |-> f, other |-> Snapshot.marker]
  /\ UNCHANGED <<world, gen, idle, req, signalled>>

RetireIfStale ==
  /\ discarding.pc = "signal"
  /\ signalled' = (\/ signalled
                   \/ /\ IsStale(discarding.other, discarding.fam)
                      /\ discarding.fam = sup.cand)
  /\ discarding' = Resting
  /\ UNCHANGED <<world, reader, gen, idle, req, discards>>

(* The generation a refresh adopts: a newer epoch. *)
Current == Max({gen, file.epoch})

(* prune_idle: sockets of another generation than the refreshed one, and   *)
(* the expired ones, which are at the front.                               *)
PruneIdle ==
  /\ idle # <<>> /\ Note /\ gen' = Current
  /\ \E k \in 0..Len(idle) :
       idle' = SelectSeq(SubSeq(idle, k + 1, Len(idle)), LAMBDA e : e.gen = Current)
  /\ Discard({e \in Entries(idle) : e.gen # Current})
  /\ UNCHANGED <<world, req, discarding, signalled>>

(* clear: the retries of handler.rs drop every idle socket. *)
Clear ==
  /\ idle # <<>> /\ idle' = <<>>
  /\ UNCHANGED <<world, reader, gen, req, bin, signalled>>

----------------------------------------------------------------------------
(* Requests. *)

Holding(r) == req[r].pc \notin {"off", "done"}
Goto(r, p) == req' = [req EXCEPT ![r].pc = p]
Release(r) == req' = [req EXCEPT ![r] = Done]

Permit(r) ==
  /\ req[r].pc = "off" /\ Cardinality({x \in Reqs : Holding(x)}) < MaxConns
  /\ req' = [req EXCEPT ![r].pc = "acquire", ![r].since = file.epoch]
  /\ UNCHANGED <<world, reader, gen, idle, bin, signalled>>

(* refresh_generation: adopt a newer epoch and, as a second step, drop the *)
(* idle sockets.                                                           *)
Refresh(r, to) ==
  /\ Note
  /\ gen' = Current
  /\ req' = [req EXCEPT ![r] = IF Current > gen THEN [to EXCEPT !.pc = "drain", !.then = to.pc]
                                                ELSE to]

Drain(r) ==
  /\ req[r].pc = "drain"
  /\ idle' = <<>> /\ Discard(Entries(idle))
  /\ req' = [req EXCEPT ![r] = IF @.then = "done" THEN Done
                                ELSE [@ EXCEPT !.pc = req[r].then, !.then = "off"]]
  /\ UNCHANGED <<world, reader, gen, discarding, signalled>>

Acquire(r) ==
  /\ req[r].pc = "acquire"
  /\ Refresh(r, [req[r] EXCEPT !.pc = "pop", !.gen = Current])
  /\ UNCHANGED <<world, idle, bin, signalled>>

Newest(g, k) == Max({k} \cup {i \in k + 1 .. Len(idle) : idle[i].gen = g})

Pop(r) ==
  /\ req[r].pc = "pop"
  /\ \E k \in 0..Len(idle) :
       LET i == Newest(req[r].gen, k)
       IN /\ idle' = SubSeq(idle, k + 1, i - 1)
          /\ Discard({idle[j] : j \in {x \in 1..k \cup i + 1 .. Len(idle) : idle[x].gen # req[r].gen}})
          /\ IF i = k
               THEN Goto(r, "dial")
               ELSE \/ idle[i].fam \notin alive /\ UNCHANGED req   \* the probe failed
                    \/ req' = [req EXCEPT ![r] = [@ EXCEPT !.pc = "recheck", !.fam = idle[i].fam,
                                                    !.worker = idle[i].worker, !.pooled = idle[i].gen]]
  /\ UNCHANGED <<world, reader, gen, discarding, signalled>>

(* acquire_fresh leaves the idle sockets alone. *)
PopNever(r) ==
  /\ req[r].pc = "pop" /\ 0 < Len(idle) /\ Len(idle) < MaxIdle
  /\ Goto(r, "dial") /\ UNCHANGED <<world, reader, gen, idle, bin, signalled>>

Recheck(r) ==
  /\ req[r].pc = "recheck"
  /\ IF Current # req[r].gen
       THEN /\ Discard({req[r]})
            /\ Refresh(r, [req[r] EXCEPT !.pc = "dial", !.fam = 0, !.worker = FALSE,
                                         !.pooled = 0])
       ELSE UNCHANGED discards /\ Refresh(r, [req[r] EXCEPT !.pc = "use"])
  /\ UNCHANGED <<world, idle, discarding, signalled>>

(* Whichever family accepts first takes the dial, unless it fails. *)
Dial(r) ==
  /\ req[r].pc = "dial"
  /\ \/ \E f \in alive : req' = [req EXCEPT ![r].pc = "stamp", ![r].fam = f]
     \/ Release(r)
  /\ UNCHANGED <<world, reader, gen, idle, bin, signalled>>

(* The generation is read again after the connect. *)
Stamp(r) ==
  /\ req[r].pc = "stamp"
  /\ Refresh(r, [req[r] EXCEPT !.pc = "use", !.gen = Current])
  /\ UNCHANGED <<world, idle, bin, signalled>>

(* The request ends.  Either its socket is poisoned with its worker, or    *)
(* repool_if_current begins: a best-effort attribution while identity      *)
(* matters,                                                                *)
Use(r) ==
  /\ req[r].pc = "use"
  /\ \/ req[r].fam \notin alive /\ Release(r) /\ UNCHANGED reader
     \/ /\ req[r].fam \in alive /\ Note
        /\ \E known \in IF ~req[r].worker /\ (Snapshot.marker = RETIRED \/ recent')
                          THEN BOOLEAN ELSE {req[r].worker} :
             req' = [req EXCEPT ![r].worker = known,
                                ![r].pc = IF known THEN "snap" ELSE "refresh"]
  /\ UNCHANGED <<world, gen, idle, bin, signalled>>

(* worker_is_superseded: the snapshot, and later the families seen, *)
SupersededSnapshot(r) ==
  /\ req[r].pc = "snap" /\ Note
  /\ req' = [req EXCEPT ![r].pc = "superseded", ![r].snap = Snapshot.marker]
  /\ UNCHANGED <<world, gen, idle, bin, signalled>>

Superseded(r) ==
  /\ req[r].pc = "superseded"
  /\ IF IsSuperseded(req[r].snap, req[r].fam)
       THEN DropKnown(r) /\ Release(r)
       ELSE UNCHANGED discards /\ req' = [req EXCEPT ![r].pc = "refresh", ![r].snap = 0]
  /\ UNCHANGED <<world, reader, gen, idle, discarding, signalled>>

(* the generation it was acquired under, *)
RepoolRefresh(r) ==
  /\ req[r].pc = "refresh"
  /\ IF Current # req[r].gen
       THEN DropKnown(r) /\ Refresh(r, Done)
       ELSE UNCHANGED discards /\ Refresh(r, [req[r] EXCEPT !.pc = "retired"])
  /\ UNCHANGED <<world, idle, discarding, signalled>>

(* no retirement, *)
RepoolRetired(r) ==
  /\ req[r].pc = "retired" /\ Note
  /\ IF Snapshot.marker = RETIRED
       THEN DropKnown(r) /\ Release(r)
       ELSE UNCHANGED discards /\ Goto(r, "push")
  /\ UNCHANGED <<world, gen, idle, discarding, signalled>>

(* and only then the idle lock. *)
PushIdle(r) ==
  /\ req[r].pc = "push"
  /\ idle' = Append(idle, [fam |-> req[r].fam, gen |-> req[r].gen, worker |-> req[r].worker])
  /\ Release(r)
  /\ UNCHANGED <<world, reader, gen, bin, signalled>>

Supervisor == Spawn \/ AdvanceWithMarker \/ RetireAll \/ StoreMarker \/ StoreEpoch
                \/ SupervisorExits \/ OpenOrCreate \/ FamilyEnds
Observer == ObserveRead \/ ObserveCas \/ ObserveStore \/ WindowPasses
Request(r) == Permit(r) \/ Acquire(r) \/ Drain(r) \/ Pop(r) \/ PopNever(r) \/ Recheck(r)
                \/ Dial(r) \/ Stamp(r) \/ Use(r) \/ SupersededSnapshot(r)
                \/ Superseded(r) \/ RepoolRefresh(r) \/ RepoolRetired(r) \/ PushIdle(r)

Next == Supervisor \/ Observer \/ StaleSnapshot \/ RetireIfStale \/ PruneIdle \/ Clear
          \/ \E r \in Reqs : Request(r)

Spec == Init /\ [][Next]_vars

----------------------------------------------------------------------------
(* An idle socket is handed out only to a request of its own time: it was  *)
(* pooled no earlier than the last epoch published before the request      *)
(* began, and never while the supervisor's retirement was current, even    *)
(* though a return checks generation and retirement before, and outside,   *)
(* the lock it pools under.                                                *)
ReuseIsCurrent ==
  \A r \in Reqs : req[r].pc = "use" /\ req[r].pooled # 0 =>
     req[r].pooled >= req[r].since /\ req[r].pooled # retirement

(* The workers of a reload candidate, or of a new supervisor's first       *)
(* family, answer dials before their family is published, and closing      *)
(* their socket may look at them: they are never retired for it.           *)
CandidatesNotRetired == ~signalled
=============================================================================
