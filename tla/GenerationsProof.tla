-------------------------- MODULE GenerationsProof --------------------------
(***************************************************************************)
(* Proofs about Generations, for any sockets, connections, epochs and      *)
(* retirement slots: a hand-over of listening sockets leaves one acceptor  *)
(* per socket and loses no connection, over any number of publications,    *)
(* and what a publication switches belongs together.                       *)
(*                                                                         *)
(* None of the three properties is inductive.  They rest on how activated  *)
(* generations form one line of descent (Lineage), on what a worker past   *)
(* its gate says of every generation before its own, not only of its       *)
(* predecessor (Handover), and on the successor that every queue of raced  *)
(* connections has (Queued).                                               *)
(***************************************************************************)
EXTENDS Generations, TLAPS

\* Leaves are set and function reasoning; one that needs more says SMTT.
USE ZenonT(30)

-----------------------------------------------------------------------------
(* The inductive invariant *)

TcpSocks == Socks \cap Tcp

\* What the stages of a transaction have established.
Staged(w) ==
    /\ wr[w].pc = "storing" <=> pub = w
    /\ wr[w].pc # "idle" => wr[w].next \in [gen : 1..MaxGen, epoch : Epochs]
    /\ wr[w].pc = "built" => w = "admin" /\ wr[w].next.epoch \in FreshEpoch
    /\ wr[w].pc \in {"idle", "built"} => wr[w].res = None

\* There is one at a time.
Transaction ==
    /\ \A w, v \in Writers : wr[w].pc # "idle" /\ wr[v].pc # "idle" => w = v
    /\ \A w \in Writers : Staged(w)
    /\ pub # "none" => main = "run"

\* A candidate's resources: prepared, bound to the set they would replace,
\* and never activated before they are published.
Candidate ==
    \A w \in Writers :
      wr[w].res # None =>
         /\ w = "admin"
         /\ wr[w].res = wr[w].next.epoch /\ pred[wr[w].res] = wr[w].cur.epoch
         /\ ~Unused(wr[w].res) /\ ~act[wr[w].res]

\* What belongs together outside a publication, and between its two halves.
Together ==
    main = "run" =>
      /\ active \in Epochs /\ ~stop[active]
      /\ pub = "none" =>
           active = holder.epoch /\ quic = holder.epoch /\ health = {holder.gen}
      /\ \A w \in Writers :
           pub = w =>
             /\ holder = wr[w].next
             /\ active = wr[w].cur.epoch /\ health = {wr[w].cur.gen}
             /\ wr[w].res = None => wr[w].next.epoch = wr[w].cur.epoch
             /\ wr[w].res # None =>
                  ~stop[wr[w].res] /\ \A s \in Socks : wk[wr[w].res][s] = "gate"

\* The activated generations are one line of descent, in the order of their
\* epochs, which ends in the active one.
Lineage ==
    /\ act[1]
    /\ active # None => act[active]
    /\ \A r \in retired : act[r]
    /\ \A r \in Epochs : act[r] => ~Unused(r)
    /\ \A r \in Epochs : pred[r] # None => act[pred[r]] /\ pred[r] < r
    /\ \A q, r \in Epochs : act[q] /\ act[r] /\ q < r => q =< pred[r]
    /\ \A q, r \in Epochs : Unused(q) /\ ~Unused(r) => r < q
    /\ main = "run" =>
         \A r \in Epochs : act[r] =>
           r =< active /\ (r # active => \E n \in Epochs : act[n] /\ pred[n] = r)

\* A worker and its tokens.
WorkerOK(r, s) ==
    /\ wk[r][s] = "none" => Unused(r)
    /\ ~act[r] => wk[r][s] \in {"none", "gate", "gone"}
    /\ s \in acked[r] <=> wk[r][s] \in {"draining", "gone"}
    /\ wk[r][s] = "unstarted" => s \in Tcp /\ pred[r] # None
    /\ main = "run" /\ wk[r][s] \in {"unstarted", "cancelling", "draining", "gone"} => stop[r]

\* A TCP worker past its gate is past the accepts of every generation before
\* its own; an armed AF_UNIX worker is past those of its predecessor.
Handover(r, s) ==
    /\ s \in Tcp /\ act[r] /\ wk[r][s] \notin {"none", "gate", "unstarted"} /\ ~grace =>
         \A q \in Epochs : act[q] /\ q < r => TcpSocks \subseteq acked[q]
    /\ s \in Uds /\ Armed(r, s) /\ pred[r] # None =>
         Socks \cap Uds \subseteq acked[pred[r]]

Workers == \A r \in Epochs : \A s \in Socks : WorkerOK(r, s) /\ Handover(r, s)

\* An activated worker has an owner that will join it.
Owners == \A r \in Epochs : (act[r] /\ ~IsFinished(r)) => r \in Owned

\* A connection is not lost: a queue of raced connections has an activated
\* successor none of whose workers has stopped.
Held(c) ==
    /\ conn[c].at # "cut"
    /\ conn[c].at = "raced" =>
         /\ conn[c].s \in Tcp /\ conn[c].r # None
         /\ \E n \in Epochs : act[n] /\ pred[n] = conn[c].r /\ TcpSocks \cap acked[n] = {}

Queued == main = "run" /\ ~grace => \A c \in Conns : Held(c)

Control == Transaction /\ Candidate /\ Together /\ Lineage /\ Workers /\ Owners

Inv == TypeOK /\ Control /\ Queued

-----------------------------------------------------------------------------
(* What the helpers compute *)

ConnType == [Conns -> [at : {"none", "backlog", "cqe", "raced", "open", "done", "cut"},
                       s : Socks, r : 0..MaxEpoch]]

LEMMA Numbers ==
    /\ 1 \in Epochs /\ None \notin Epochs /\ Epochs \subseteq Nat
    /\ Epochs \subseteq 0..MaxEpoch /\ 0..MaxEpoch = Epochs \cup {None}
    /\ None \in 0..MaxEpoch /\ None = 0
  BY SMTT(20), GenerationsAssumption DEF Epochs, None

LEMMA OwnedEpochs ==
    ASSUME TypeOK
    PROVE  Owned \subseteq Epochs
<1>1. active \in 0..MaxEpoch /\ retired \subseteq Epochs /\ wr["admin"].res \in 0..MaxEpoch
  BY DEF TypeOK, Writers
<1> QED
  BY <1>1, Numbers DEF Owned

LEMMA MovedType ==
    ASSUME NEW cs \in ConnType, NEW C, NEW r \in 0..MaxEpoch,
           NEW at \in {"none", "backlog", "cqe", "raced", "open", "done", "cut"}
    PROVE  /\ Moved(cs, C, at, r) \in ConnType
           /\ \A c \in Conns :
                /\ c \notin C => Moved(cs, C, at, r)[c] = cs[c]
                /\ c \in C => /\ Moved(cs, C, at, r)[c].at = at
                              /\ Moved(cs, C, at, r)[c].s = cs[c].s
                              /\ at = "raced" => Moved(cs, C, at, r)[c].r = r
  BY Numbers, Zenon DEF Moved, ConnType

LEMMA TransferredType ==
    ASSUME TypeOK, NEW C, NEW r \in Epochs
    PROVE  Transferred(conn, C, r) \in ConnType
<1> USE DEF ConnType
<1>1. conn \in ConnType /\ r \in 0..MaxEpoch
  BY Numbers DEF TypeOK
<1> QED
  BY SMTT(20), <1>1, MovedType DEF Transferred

LEMMA DropQueuesType ==
    ASSUME TypeOK, NEW owned
    PROVE  DropQueues(conn, owned) \in ConnType
<1>1. conn \in ConnType
  BY DEF TypeOK, ConnType
<1> QED
  BY SMTT(20), <1>1, Numbers, MovedType DEF DropQueues

\* The end of an owner orphans no queue as long as the successor of each is
\* owned.
LEMMA QueuesKept ==
    ASSUME TypeOK, NEW owned \in SUBSET Epochs,
           \A c \in Conns : conn[c].at = "raced" => \E n \in owned : pred[n] = conn[c].r
    PROVE  \A c \in Conns : DropQueues(conn, owned)[c] = conn[c]
<1>1. conn \in ConnType
  BY DEF TypeOK, ConnType
<1> DEFINE orphans == {c \in Conns : /\ conn[c].at = "raced" /\ conn[c].r \notin owned
                                     /\ \A n \in owned : pred[n] # conn[c].r}
<1>2. \A c \in Conns : c \notin orphans
  OBVIOUS
<1>3. DropQueues(conn, owned) = Moved(conn, orphans, "cut", None)
  BY DEF DropQueues
<1> HIDE DEF orphans
<1> QED
  BY SMTT(20), <1>1, <1>2, <1>3, Numbers, MovedType

-----------------------------------------------------------------------------
(* What a part of the invariant depends on *)

LEMMA StillUnused ==
    ASSUME UNCHANGED <<Socks, wk>>
    PROVE  /\ \A q : Unused(q)' <=> Unused(q)
           /\ \A q : IsFinished(q)' <=> IsFinished(q)
           /\ FreshEpoch' = FreshEpoch
  BY DEF Unused, IsFinished, FreshEpoch

LEMMA StillWorkers ==
    ASSUME Workers, UNCHANGED <<Socks, wk, acked, pred, grace, act>>,
           main' = "run" => main = "run" /\ \A r \in Epochs : stop[r] => stop'[r]
    PROVE  Workers'
<1>1. ASSUME NEW r \in Epochs, NEW s \in Socks
      PROVE  WorkerOK(r, s)' /\ Handover(r, s)'
  <2>1. WorkerOK(r, s) /\ Handover(r, s)
    BY DEF Workers
  <2>2. WorkerOK(r, s)'
    BY <2>1, StillUnused DEF WorkerOK
  <2>3. Handover(r, s)'
    BY <2>1 DEF Handover, TcpSocks, Armed
  <2> QED
    BY <2>2, <2>3
<1> QED
  BY <1>1 DEF Workers

LEMMA StillQueued ==
    ASSUME Queued, UNCHANGED <<Socks, acked, pred, grace, act>>,
           main' = "run" => main = "run",
           main' = "run" /\ ~grace => \A c \in Conns : conn'[c] = conn[c]
    PROVE  Queued'
  BY DEF Queued, Held, TcpSocks

\* The lineage depends on no other part of the state.
LEMMA StillLineage ==
    ASSUME Lineage, UNCHANGED <<Socks, wk, act, pred, active>>, retired' \subseteq retired,
           main' = "run" => main = "run"
    PROVE  Lineage'
  BY StillUnused DEF Lineage

LEMMA StillTransaction ==
    ASSUME Transaction, UNCHANGED <<Socks, wk, wr, pub>>, pub # "none" => main' = main
    PROVE  Transaction'
<1>1. FreshEpoch' = FreshEpoch
  BY StillUnused
<1>2. ASSUME NEW w \in Writers
      PROVE  Staged(w)'
  BY <1>1 DEF Transaction, Staged
<1> QED
  BY <1>2 DEF Transaction

LEMMA StillCandidate ==
    ASSUME Candidate, UNCHANGED <<Socks, wk, wr, act, pred>>
    PROVE  Candidate'
  BY StillUnused DEF Candidate

LEMMA StillOwners ==
    ASSUME Owners, UNCHANGED <<Socks, wk, act>>,
           \A r \in Owned : act[r] /\ ~IsFinished(r) => r \in Owned'
    PROVE  Owners'
  BY StillUnused DEF Owners

-----------------------------------------------------------------------------
(* Steps of the workers *)

PCs == {"none", "gate", "unstarted", "serve", "wait", "cancelling", "draining", "gone"}

\* The moves of a worker's program counter and what each of them asks for.
MayMove(r, s, a, b) ==
    \/ a = b
    \/ a = "gate" /\ b = "serve" /\ ~Cancelled(r) /\ act[r] /\ PredecessorsStopped(r, s)
    \/ a = "gate" /\ b = "unstarted" /\ Cancelled(r) /\ s \in Tcp /\ act[r] /\ pred[r] # None
    \/ a = "gate" /\ b = "gone" /\ Cancelled(r) /\ ~(s \in Tcp /\ act[r] /\ pred[r] # None)
    \/ a = "unstarted" /\ b = "gone" /\ (PredecessorsStopped(r, s) \/ grace')
    \/ a = "serve" /\ b = "wait"
    \/ a = "wait" /\ b = "serve"
    \/ a \in {"serve", "wait"} /\ b = "cancelling" /\ Cancelled(r)
    \/ a = "cancelling" /\ b = "draining"
    \/ a = "draining" /\ b = "gone"

Steps(r, s, a, b) ==
    /\ MayMove(r, s, a, b)
    /\ wk[r][s] = a /\ wk'[r][s] = b
    /\ \A q \in Epochs : \A t \in Socks : (q # r \/ t # s) => wk'[q][t] = wk[q][t]
    /\ \A q \in Epochs : \A t \in Socks :
         t \in acked'[q] <=>
           t \in acked[q] \/ (q = r /\ t = s /\ b \in {"draining", "gone"})
    /\ grace => grace'
    /\ UNCHANGED <<pubVars, wr, pred, main, Socks>>

LEMMA SetWkType ==
    ASSUME TypeOK, NEW r \in Epochs, NEW s \in Socks,
           NEW b \in {"unstarted", "serve", "wait", "cancelling", "draining", "gone"},
           SetWk(r, s, b)
    PROVE  /\ wk' \in [Epochs -> [Socks -> {"none", "gate", "unstarted", "serve", "wait",
                                           "cancelling", "draining", "gone"}]]
           /\ wk'[r][s] = b
           /\ \A q \in Epochs : \A t \in Socks : (q # r \/ t # s) => wk'[q][t] = wk[q][t]
  BY DEF TypeOK, SetWk

LEMMA AckType ==
    ASSUME TypeOK, NEW r \in Epochs, NEW s \in Socks, Ack(r, s)
    PROVE  /\ acked' \in [Epochs -> SUBSET Socks]
           /\ \A q \in Epochs : \A t \in Socks :
                t \in acked'[q] <=> t \in acked[q] \/ (q = r /\ t = s)
  BY DEF TypeOK, Ack

\* Every step of a worker moves its program counter in one of these ways.
LEMMA WorkerSteps ==
    ASSUME TypeOK, Workers, NEW r \in Epochs, NEW s \in Socks, Worker(r, s), UNCHANGED Socks
    PROVE  TypeOK' /\ \E a, b \in PCs : Steps(r, s, a, b)
<1> USE DEF PCs
<1>1. \A q \in Epochs : \A t \in Socks :
        wk[q][t] \in PCs /\ (t \in acked[q] <=> wk[q][t] \in {"draining", "gone"})
  BY SMTT(20) DEF TypeOK, Workers, WorkerOK
<1>2. r \in 0..MaxEpoch /\ conn \in ConnType
  BY Numbers DEF TypeOK, ConnType
<1>3. ASSUME conn' \in ConnType, grace' \in BOOLEAN,
             wk' \in [Epochs -> [Socks -> PCs]], acked' \in [Epochs -> SUBSET Socks],
             UNCHANGED <<pubVars, wr, pred, main>>
      PROVE  TypeOK'
  BY <1>3 DEF TypeOK, ConnType, pubVars
\* A step that leaves the workers alone.
<1>4. ASSUME UNCHANGED <<pubVars, wr, pred, wk, acked, grace, main>>, conn' \in ConnType
      PROVE  TypeOK' /\ Steps(r, s, wk[r][s], wk[r][s])
  <2>1. TypeOK'
    BY <1>3, <1>4 DEF TypeOK
  <2>2. Steps(r, s, wk[r][s], wk[r][s])
    BY <1>1, <1>4 DEF Steps, MayMove
  <2> QED
    BY <2>1, <2>2
\* A step that moves the worker and acknowledges nothing.
<1>5. ASSUME NEW a \in PCs \ {"none"}, NEW b \in PCs \ {"none", "gate"}, wk[r][s] = a,
             SetWk(r, s, b), b \in {"draining", "gone"} => a \in {"draining", "gone"},
             UNCHANGED <<pubVars, wr, pred, acked, main>>, grace' \in BOOLEAN,
             grace => grace', conn' \in ConnType, MayMove(r, s, a, b)
      PROVE  TypeOK' /\ Steps(r, s, a, b)
  <2>1. TypeOK'
    BY SMTT(20), <1>3, <1>5, SetWkType DEF TypeOK
  <2>2. Steps(r, s, a, b)
    BY SMTT(20), <1>1, <1>5, SetWkType DEF Steps
  <2> QED
    BY <2>1, <2>2
\* A step that moves the worker and acknowledges its stop.
<1>6. ASSUME NEW a \in PCs \ {"none"}, NEW b \in {"draining", "gone"}, wk[r][s] = a,
             SetWk(r, s, b), Ack(r, s),
             UNCHANGED <<pubVars, wr, pred, main>>, grace' \in BOOLEAN,
             grace => grace', conn' \in ConnType, MayMove(r, s, a, b)
      PROVE  TypeOK' /\ Steps(r, s, a, b)
  <2>1. TypeOK'
    BY SMTT(20), <1>3, <1>6, SetWkType, AckType
  <2>2. Steps(r, s, a, b)
    BY SMTT(20), <1>1, <1>6, SetWkType, AckType DEF Steps
  <2> QED
    BY <2>1, <2>2
<1>7. grace \in BOOLEAN
  BY DEF TypeOK
<1>8. CASE GateOpens(r, s)
  BY <1>2, <1>5, <1>7, <1>8 DEF GateOpens, MayMove
<1>9. CASE GateShut(r, s)
  BY <1>2, <1>5, <1>6, <1>7, <1>9 DEF GateShut, MayMove
<1>10. CASE RetireUnstarted(r, s)
  <2>a. grace' = grace \/ grace' = TRUE
    BY <1>10 DEF RetireUnstarted
  <2>1. grace' \in BOOLEAN /\ (grace => grace')
    BY <1>7, <2>a
  <2>2. MayMove(r, s, "unstarted", "gone")
    BY <1>10 DEF RetireUnstarted, MayMove
  <2> QED
    BY <1>6, <1>7, <1>10, <2>1, <2>2, TransferredType DEF RetireUnstarted
<1>11. CASE PollRaced(r, s)
  <2>1. ASSUME UNCHANGED conn, SetWk(r, s, "wait")
        PROVE  TypeOK' /\ Steps(r, s, "serve", "wait")
    BY <1>2, <1>5, <1>7, <1>11, <2>1 DEF PollRaced, MayMove
  <2>2. ASSUME NEW c \in Raced(pred[r]), NEW at \in {"open", "done"}, UNCHANGED wk,
               conn' = [Moved(conn, {c}, at, r) EXCEPT ![c].s = s]
        PROVE  TypeOK' /\ Steps(r, s, wk[r][s], wk[r][s])
    <3>1. Moved(conn, {c}, at, r) \in ConnType
      BY SMTT(20), <1>2, MovedType
    <3>2. conn' \in ConnType
      BY <2>2, <3>1 DEF ConnType
    <3> QED
      BY <1>4, <1>11, <2>2, <3>2 DEF PollRaced
  <2> QED
    BY <1>1, <1>7, <1>11, <2>1, <2>2 DEF PollRaced
<1>12. CASE Accepted(r, s)
  <2>1. PICK c \in Completed(r, s), at \in {"open", "done"} : conn' = Moved(conn, {c}, at, r)
    BY <1>12 DEF Accepted
  <2>2. conn' \in ConnType
    BY SMTT(20), <1>2, <2>1, MovedType
  <2> QED
    BY <1>5, <1>7, <1>12, <2>2 DEF Accepted, MayMove
<1>13. CASE CancelAccept(r, s)
  BY <1>2, <1>5, <1>7, <1>13 DEF CancelAccept, MayMove
<1>14. CASE ReapCompletion(r, s)
  <2>1. PICK c \in Completed(r, s) :
          IF s \in Tcp THEN conn' = Transferred(conn, {c}, r)
          ELSE \E at \in {"open", "done"} : conn' = Moved(conn, {c}, at, r)
    BY <1>14 DEF ReapCompletion
  <2>2. conn' \in ConnType
    BY SMTT(20), <1>2, <2>1, MovedType, TransferredType
  <2> QED
    BY <1>1, <1>4, <1>7, <1>14, <2>2 DEF ReapCompletion
<1>15. CASE AcceptStopped(r, s)
  <2>1. conn' \in ConnType
    BY <1>2, <1>15, TransferredType DEF AcceptStopped
  <2> QED
    BY <1>6, <1>7, <1>15, <2>1 DEF AcceptStopped, MayMove
<1>16. CASE DrainEnds(r, s)
  <2>1. conn' \in ConnType
    BY SMTT(20), <1>2, <1>16, MovedType DEF DrainEnds
  <2>2. grace' \in BOOLEAN /\ (grace => grace')
    BY <1>7, <1>16 DEF DrainEnds
  <2> QED
    BY <1>5, <1>7, <1>16, <2>1, <2>2 DEF DrainEnds, MayMove
<1>17. ASSUME NEW c \in Conns, KernelAccept(r, s, c)
       PROVE  TypeOK' /\ \E a, b \in PCs : Steps(r, s, a, b)
  <2>1. conn' \in ConnType
    BY <1>2, <1>17, Zenon DEF KernelAccept, ConnType
  <2> QED
    BY <1>1, <1>4, <1>7, <1>17, <2>1 DEF KernelAccept
<1> QED
  BY <1>8, <1>9, <1>10, <1>11, <1>12, <1>13, <1>14, <1>15, <1>16, <1>17 DEF Worker

LEMMA StepsUnused ==
    ASSUME TypeOK, NEW r \in Epochs, NEW s \in Socks, NEW a \in PCs, NEW b \in PCs,
           Steps(r, s, a, b)
    PROVE  (\A q \in Epochs : Unused(q)' <=> Unused(q)) /\ FreshEpoch' = FreshEpoch
<1>1. a = b \/ (a # "none" /\ b # "none")
  BY DEF Steps, MayMove
<1>2. \A q \in Epochs : Unused(q)' <=> Unused(q)
  BY <1>1 DEF Steps, Unused
<1>3. \A q \in Epochs : 1..(q - 1) \subseteq Epochs
  BY SMTT(20), GenerationsAssumption DEF Epochs
<1> QED
  BY <1>2, <1>3 DEF FreshEpoch

\* A worker's step keeps what the publications, the lineage and the owners
\* rely on.
LEMMA StepsControl ==
    ASSUME TypeOK, TypeOK', Control, NEW r \in Epochs, NEW s \in Socks,
           NEW a \in PCs, NEW b \in PCs, Steps(r, s, a, b)
    PROVE  (Transaction /\ Candidate /\ Together /\ Lineage /\ Owners)'
<1> USE DEF Control
<1>1. (\A q \in Epochs : Unused(q)' <=> Unused(q)) /\ FreshEpoch' = FreshEpoch
  BY StepsUnused
<1>2. UNCHANGED <<holder, pub, quic, health, active, retired, act, stop, wr, pred, main, Socks>>
  BY DEF Steps, pubVars
<1>3. Transaction'
  BY <1>1, <1>2 DEF Transaction, Staged
<1>4. Candidate'
  <2>1. ASSUME NEW w \in Writers, wr[w].res # None
        PROVE  wr[w].res \in Epochs
    BY <2>1, Numbers DEF TypeOK
  <2> QED
    BY <1>1, <1>2, <2>1 DEF Candidate
<1>5. Together'
  <2>1. ASSUME NEW w \in Writers, main = "run", pub = w, wr[w].res # None, NEW t \in Socks
        PROVE  wk'[wr[w].res][t] = "gate"
    <3>1. /\ wr[w].res \in Epochs /\ ~stop[wr[w].res] /\ ~act[wr[w].res]
          /\ wk[wr[w].res][t] = "gate"
      BY SMTT(20), <2>1, Numbers DEF TypeOK, Together, Candidate
    <3>2. CASE wr[w].res = r /\ t = s
      BY <2>1, <3>1, <3>2 DEF Steps, MayMove, Cancelled
    <3>3. CASE wr[w].res # r \/ t # s
      BY <3>1, <3>3 DEF Steps
    <3> QED
      BY <3>2, <3>3
  <2> QED
    BY <1>2, <2>1 DEF Together
<1>6. Lineage'
  <2>1. \A q \in Epochs : pred[q] \in 0..MaxEpoch
    BY DEF TypeOK
  <2> QED
    BY <1>1, <1>2 DEF Lineage
<1>7. Owners'
  <2>1. Owned' = Owned
    BY <1>2 DEF Owned
  <2>2. ASSUME NEW q \in Epochs, IsFinished(q)
        PROVE  IsFinished(q)'
    BY SMTT(20), <1>2, <2>2 DEF IsFinished, Steps, MayMove
  <2> QED
    BY <1>2, <2>1, <2>2 DEF Owners
<1> QED
  BY <1>3, <1>4, <1>5, <1>6, <1>7

\* A worker's step keeps every worker's tokens and what the gates establish.
LEMMA StepsWorkers ==
    ASSUME TypeOK, TypeOK', Control, NEW r \in Epochs, NEW s \in Socks,
           NEW a \in PCs, NEW b \in PCs, Steps(r, s, a, b)
    PROVE  Workers'
<1> USE DEF Control
<1>1. UNCHANGED <<act, stop, pred, main, Socks>> /\ (grace => grace')
  BY DEF Steps, pubVars
<1>2. \A q \in Epochs : \A t \in Socks :
        /\ (q # r \/ t # s) => wk'[q][t] = wk[q][t]
        /\ t \in acked[q] => t \in acked'[q]
        /\ (q # r \/ t # s) => (t \in acked'[q] <=> t \in acked[q])
  BY DEF Steps
<1>3. wk[r][s] = a /\ wk'[r][s] = b /\ MayMove(r, s, a, b)
  BY DEF Steps
<1>4. \A q \in Epochs : acked[q] \subseteq acked'[q]
  BY <1>2 DEF TypeOK
<1>5. ASSUME NEW q \in Epochs, NEW t \in Socks
      PROVE  WorkerOK(q, t)'
  <2>0. wk'[q][t] = "none" => Unused(q)'
    BY SMTT(20), <1>2, <1>3, StepsUnused DEF MayMove, Workers, WorkerOK
  <2>1. CASE q # r \/ t # s
    BY <1>1, <1>2, <2>0, <2>1 DEF Workers, WorkerOK
  <2>2. CASE q = r /\ t = s
    <3>1. WorkerOK(r, s)
      BY DEF Workers
    <3>2. s \in acked'[r] <=> b \in {"draining", "gone"}
      BY <1>3, <3>1 DEF Steps, MayMove, WorkerOK
    <3>3. ~act[r] => b \in {"none", "gate", "gone"}
      BY <1>3, <3>1 DEF MayMove, WorkerOK
    <3>4. b = "unstarted" => s \in Tcp /\ pred[r] # None
      BY <1>3, <3>1 DEF MayMove, WorkerOK
    <3>5. main = "run" /\ b \in {"unstarted", "cancelling", "draining", "gone"} => stop[r]
      BY <1>3, <3>1 DEF MayMove, WorkerOK, Cancelled
    <3> QED
      BY <1>1, <1>3, <2>0, <2>2, <3>2, <3>3, <3>4, <3>5 DEF WorkerOK
  <2> QED
    BY <2>1, <2>2
\* Past the gate of r, every worker before r has stopped: the predecessor's
\* acknowledged, and being past their own gates they vouch for the rest.
<1>6. ASSUME s \in Tcp, act[r], ~grace, PredecessorsStopped(r, s), NEW q \in Epochs,
             act[q], q < r
      PROVE  TcpSocks \subseteq acked[q]
  <2>1. pred[r] \in Epochs /\ act[pred[r]] /\ q =< pred[r]
    BY SMTT(20), <1>6, Numbers DEF Lineage, TypeOK
  <2>2. TcpSocks \subseteq acked[pred[r]]
    BY <1>6, <2>1, Numbers DEF PredecessorsStopped, Predecessors, TcpSocks
  <2>3. CASE q = pred[r]
    BY <2>2, <2>3
  <2>4. CASE q # pred[r]
    <3>1. q < pred[r]
      BY SMTT(20), <2>1, <2>4, Numbers
    <3>2. s \in acked[pred[r]]
      BY <1>6, <2>2 DEF TcpSocks
    <3>3. wk[pred[r]][s] \in {"draining", "gone"}
      BY <2>1, <3>2 DEF Workers, WorkerOK
    <3>4. Handover(pred[r], s)
      BY <2>1 DEF Workers
    <3> QED
      BY <1>6, <2>1, <3>1, <3>3, <3>4 DEF Handover
  <2> QED
    BY <2>3, <2>4
<1>7. ASSUME NEW q \in Epochs, NEW t \in Socks
      PROVE  Handover(q, t)'
  <2>1. TcpSocks' = TcpSocks
    BY <1>1 DEF TcpSocks
  <2>2. Handover(q, t)
    BY DEF Workers
  <2>3. CASE q # r \/ t # s
    <3>1. wk'[q][t] = wk[q][t] /\ (Armed(q, t)' <=> Armed(q, t))
      BY <1>2, <2>3 DEF Armed
    <3>2. ASSUME t \in Tcp, act[q], wk[q][t] \notin {"none", "gate", "unstarted"}, ~grace',
                 NEW p \in Epochs, act[p], p < q
          PROVE  TcpSocks \subseteq acked'[p]
      BY <1>1, <1>4, <2>2, <3>2 DEF Handover
    <3>3. ASSUME t \in Uds, Armed(q, t), pred[q] # None
          PROVE  Socks \cap Uds \subseteq acked'[pred[q]]
      <4>1. pred[q] \in Epochs
        BY <3>3, Numbers DEF TypeOK
      <4> QED
        BY <1>4, <2>2, <3>3, <4>1 DEF Handover
    <3> QED
      BY <1>1, <2>1, <3>1, <3>2, <3>3 DEF Handover
  <2>4. CASE q = r /\ t = s
    <3>1. ASSUME s \in Tcp, act[r], b \notin {"none", "gate", "unstarted"}, ~grace',
                 NEW p \in Epochs, act[p], p < r
          PROVE  TcpSocks \subseteq acked'[p]
      <4>1. CASE a \notin {"none", "gate", "unstarted"}
        BY <1>1, <1>3, <1>4, <2>2, <2>4, <3>1, <4>1 DEF Handover
      <4>2. CASE a \in {"none", "gate", "unstarted"}
        <5>1. pred[r] # None
          BY SMTT(20), <3>1, Numbers DEF Lineage, TypeOK
        <5>2. PredecessorsStopped(r, s)
          BY <1>3, <3>1, <4>2, <5>1 DEF MayMove
        <5> QED
          BY <1>1, <1>4, <1>6, <3>1, <5>2
      <4> QED
        BY <4>1, <4>2
    <3>2. ASSUME s \in Uds, b \in {"serve", "wait", "cancelling"}, pred[r] # None
          PROVE  Socks \cap Uds \subseteq acked'[pred[r]]
      <4>1. pred[r] \in Epochs
        BY <3>2, Numbers DEF TypeOK
      <4>2. CASE a \in {"serve", "wait", "cancelling"}
        BY <1>3, <1>4, <2>2, <2>4, <3>2, <4>1, <4>2 DEF Handover, Armed
      <4>3. CASE a \notin {"serve", "wait", "cancelling"}
        <5>1. PredecessorsStopped(r, s)
          BY <1>3, <3>2, <4>3 DEF MayMove
        <5>2. s \notin Tcp
          BY <3>2, GenerationsAssumption
        <5> QED
          BY <1>4, <3>2, <4>1, <5>1, <5>2 DEF PredecessorsStopped, Predecessors
      <4> QED
        BY <4>2, <4>3
    <3> QED
      BY <1>1, <1>3, <2>1, <2>4, <3>1, <3>2 DEF Handover, Armed
  <2> QED
    BY <2>3, <2>4
<1> QED
  BY <1>1, <1>5, <1>7 DEF Workers

-----------------------------------------------------------------------------
(* Connections *)

\* A stopped worker that has not acknowledged yet has a successor to hand its
\* completions to: the next generation of the line waits for the
\* acknowledgment at its gates, so it is neither finished nor joined.
LEMMA Successor ==
    ASSUME TypeOK, Control, main = "run", ~grace, NEW r \in Epochs, NEW s \in TcpSocks,
           act[r], stop[r], s \notin acked[r]
    PROVE  /\ HasSuccessor(r)
           /\ \E n \in Epochs : n # r /\ act[n] /\ pred[n] = r /\ TcpSocks \cap acked[n] = {}
<1> USE DEF Control
<1>1. PICK n \in Epochs : act[n] /\ pred[n] = r
  BY DEF Lineage, Together
<1>2. r < n
  BY <1>1, Numbers DEF Lineage
<1>3. ASSUME NEW t \in TcpSocks
      PROVE  t \notin acked[n] /\ wk[n][t] # "gone"
  <2>1. t \in Socks /\ t \in Tcp
    BY DEF TcpSocks
  <2>2. wk[n][t] \in {"none", "gate", "unstarted"}
    BY <1>1, <1>2, <2>1 DEF Workers, Handover
  <2> QED
    BY <2>1, <2>2 DEF Workers, WorkerOK
<1>4. ~IsFinished(n)
  BY <1>3 DEF IsFinished, TcpSocks
<1>5. n \in Owned
  BY <1>1, <1>4 DEF Owners
<1> QED
  BY SMTT(20), <1>1, <1>2, <1>3, <1>5, Numbers DEF HasSuccessor

LEMMA WorkerQueued ==
    ASSUME TypeOK, TypeOK', Control, Queued, NEW r \in Epochs, NEW s \in Socks,
           Worker(r, s), UNCHANGED Socks
    PROVE  Queued'
<1> SUFFICES ASSUME main' = "run", ~grace', NEW c \in Conns
             PROVE  Held(c)'
  BY DEF Queued
<1>1. PICK a \in PCs, b \in PCs : Steps(r, s, a, b)
  BY WorkerSteps DEF Control
<1>2. /\ UNCHANGED <<act, stop, pred, main, Socks>> /\ main = "run" /\ ~grace
      /\ TcpSocks' = TcpSocks
  BY <1>1 DEF Steps, pubVars, TcpSocks
<1>3. Held(c)
  BY <1>2 DEF Queued
<1>4. conn \in ConnType /\ r \in 0..MaxEpoch
  BY Numbers DEF TypeOK, ConnType
<1>5. WorkerOK(r, s)
  BY DEF Control, Workers
\* A connection that no step touches keeps its successor, unless that one stops.
<1>6. ASSUME conn'[c] = conn[c],
             \A n \in Epochs : /\ act[n] /\ pred[n] = conn[c].r /\ conn[c].at = "raced"
                               /\ TcpSocks \cap acked[n] = {}
                               => TcpSocks \cap acked'[n] = {}
      PROVE  Held(c)'
  BY <1>2, <1>3, <1>6 DEF Held
<1>7. ASSUME conn'[c].at \notin {"cut", "raced"}
      PROVE  Held(c)'
  BY <1>7 DEF Held
<1>8. ASSUME NEW C \in SUBSET Conns, NEW at \in {"open", "done"},
             conn' = Moved(conn, C, at, r), UNCHANGED acked
      PROVE  Held(c)'
  BY SMTT(20), <1>4, <1>6, <1>7, <1>8, MovedType
<1>9. ASSUME s \in Tcp, act[r], stop[r], s \notin acked[r], NEW C \in SUBSET Conns, c \in C,
             conn' = Transferred(conn, C, r), conn[c].s \in Tcp,
             \A q \in Epochs : q # r => acked'[q] = acked[q]
      PROVE  Held(c)'
  <2>1. s \in TcpSocks
    BY <1>9 DEF TcpSocks
  <2>2. HasSuccessor(r)
    BY <1>2, <1>9, <2>1, Successor
  <2>3. PICK n \in Epochs : n # r /\ act[n] /\ pred[n] = r /\ TcpSocks \cap acked[n] = {}
    BY <1>2, <1>9, <2>1, Successor
  <2>4. conn' = Moved(conn, C, "raced", r)
    BY <1>9, <2>2 DEF Transferred
  <2>5. conn'[c].at = "raced" /\ conn'[c].s = conn[c].s /\ conn'[c].r = r
    BY SMTT(20), <1>4, <1>9, <2>4, MovedType
  <2> QED
    BY <1>2, <1>9, <2>3, <2>5, Numbers DEF Held
\* A connection outside of what is transferred.
<1>10. ASSUME NEW C \in SUBSET Conns, c \notin C, conn' = Transferred(conn, C, r)
       PROVE  conn'[c] = conn[c]
  BY SMTT(20), <1>4, <1>10, MovedType DEF Transferred
\* The last acknowledgment of a worker that inherited a queue.
<1>11. ASSUME s \in Tcp, act[r], stop[r], s \notin acked[r], Ack(r, s),
              conn' = Transferred(conn, Raced(pred[r]), r)
       PROVE  Held(c)'
  <2>1. Raced(pred[r]) \in SUBSET Conns /\ (c \in Raced(pred[r]) => conn[c].s \in Tcp)
    BY <1>3 DEF Raced, Held
  <2>2. \A q \in Epochs : q # r => acked'[q] = acked[q]
    BY <1>11 DEF Ack, TypeOK
  <2>3. CASE c \in Raced(pred[r])
    BY <1>9, <1>11, <2>1, <2>2, <2>3
  <2>4. CASE c \notin Raced(pred[r])
    <3>1. conn'[c] = conn[c]
      BY <1>10, <1>11, <2>1, <2>4
    <3>2. \A n \in Epochs : pred[n] = conn[c].r /\ conn[c].at = "raced" => n # r
      BY <2>4 DEF Raced
    <3> QED
      BY <1>6, <2>2, <3>1, <3>2
  <2> QED
    BY <2>3, <2>4
<1>12. CASE GateOpens(r, s) \/ CancelAccept(r, s)
  BY <1>6, <1>12 DEF GateOpens, CancelAccept
<1>13. CASE GateShut(r, s)
  <2>1. CASE s \in Tcp /\ act[r] /\ pred[r] # None
    BY <1>6, <1>13, <2>1 DEF GateShut
  <2>2. CASE ~(s \in Tcp /\ act[r] /\ pred[r] # None)
    <3>1. conn' = conn /\ Ack(r, s)
      BY <1>13, <2>2 DEF GateShut
    <3>2. ASSUME NEW n \in Epochs, act[n], pred[n] = conn[c].r, conn[c].at = "raced",
                 TcpSocks \cap acked[n] = {}
          PROVE  TcpSocks \cap acked'[n] = {}
      <4>1. CASE n # r
        BY <3>1, <3>2, <4>1 DEF Ack, TypeOK
      <4>2. CASE n = r
        <5>1. pred[n] # None
          BY <1>3, <3>2 DEF Held
        <5> QED
          BY SMTT(20), <2>2, <3>1, <3>2, <4>2, <5>1 DEF Ack, TypeOK, TcpSocks
      <4> QED
        BY <4>1, <4>2
    <3> QED
      BY <1>6, <3>1, <3>2
  <2> QED
    BY <2>1, <2>2
<1>14. CASE RetireUnstarted(r, s)
  <2>1. s \in Tcp /\ act[r] /\ stop[r] /\ s \notin acked[r]
    BY <1>2, <1>5, <1>14 DEF RetireUnstarted, WorkerOK
  <2> QED
    BY <1>11, <1>14, <2>1 DEF RetireUnstarted
<1>15. CASE PollRaced(r, s)
  <2>1. CASE UNCHANGED conn
    BY <1>6, <1>15, <2>1 DEF PollRaced
  <2>2. ASSUME NEW d \in Raced(pred[r]), NEW at \in {"open", "done"},
               conn' = [Moved(conn, {d}, at, r) EXCEPT ![d].s = s]
        PROVE  Held(c)'
    <3>1. Moved(conn, {d}, at, r) \in ConnType
      BY SMTT(20), <1>4, MovedType
    <3>2. CASE c = d
      <4>1. Moved(conn, {d}, at, r)[c].at = at
        BY SMTT(20), <1>4, <3>2, MovedType
      <4> QED
        BY <1>7, <2>2, <3>1, <3>2, <4>1 DEF ConnType
    <3>3. CASE c # d
      <4>1. Moved(conn, {d}, at, r)[c] = conn[c]
        BY SMTT(20), <1>4, <3>3, MovedType
      <4>2. conn'[c] = conn[c]
        BY <2>2, <3>1, <3>3, <4>1 DEF ConnType
      <4> QED
        BY <1>6, <1>15, <4>2 DEF PollRaced
    <3> QED
      BY <3>2, <3>3
  <2> QED
    BY <1>15, <2>1, <2>2 DEF PollRaced
<1>16. CASE Accepted(r, s)
  <2>1. PICK d \in Completed(r, s), at \in {"open", "done"} : conn' = Moved(conn, {d}, at, r)
    BY <1>16 DEF Accepted
  <2> QED
    BY <1>8, <1>16, <2>1 DEF Accepted, Completed
<1>17. CASE ReapCompletion(r, s)
  <2>1. PICK d \in Completed(r, s) :
          IF s \in Tcp THEN conn' = Transferred(conn, {d}, r)
          ELSE \E at \in {"open", "done"} : conn' = Moved(conn, {d}, at, r)
    BY <1>17 DEF ReapCompletion
  <2>2. d \in Conns /\ conn[d].s = s /\ UNCHANGED acked
    BY <1>17 DEF Completed, ReapCompletion
  <2>3. CASE s \notin Tcp
    BY <1>8, <2>1, <2>2, <2>3
  <2>4. CASE s \in Tcp
    <3>1. act[r] /\ stop[r] /\ s \notin acked[r]
      BY <1>2, <1>5, <1>17 DEF ReapCompletion, WorkerOK
    <3>2. CASE c = d
      BY <1>9, <2>1, <2>2, <2>4, <3>1, <3>2
    <3>3. CASE c # d
      BY SMTT(20), <1>6, <1>10, <2>1, <2>2, <2>4, <3>3
    <3> QED
      BY <3>2, <3>3
  <2> QED
    BY <2>3, <2>4
<1>18. CASE AcceptStopped(r, s)
  <2>1. act[r] /\ stop[r] /\ s \notin acked[r] /\ Ack(r, s)
    BY <1>2, <1>5, <1>18 DEF AcceptStopped, WorkerOK
  <2>2. CASE s \in Tcp /\ pred[r] # None
    BY <1>11, <1>18, <2>1, <2>2 DEF AcceptStopped
  <2>3. CASE ~(s \in Tcp /\ pred[r] # None)
    <3>1. conn' = conn
      BY <1>18, <2>3 DEF AcceptStopped
    <3>2. ASSUME NEW n \in Epochs, act[n], pred[n] = conn[c].r, conn[c].at = "raced",
                 TcpSocks \cap acked[n] = {}
          PROVE  TcpSocks \cap acked'[n] = {}
      <4>1. CASE n # r \/ s \notin Tcp
        BY SMTT(20), <2>1, <3>2, <4>1 DEF Ack, TypeOK, TcpSocks
      <4>2. CASE n = r /\ s \in Tcp
        BY <1>3, <2>3, <3>2, <4>2 DEF Held
      <4> QED
        BY <4>1, <4>2
    <3> QED
      BY <1>6, <3>1, <3>2
  <2> QED
    BY <2>2, <2>3
<1>19. CASE DrainEnds(r, s)
  <2>1. OpenOn(r, s) = {}
    BY <1>19 DEF DrainEnds
  <2>2. conn'[c] = conn[c]
    BY SMTT(20), <1>4, <1>19, <2>1, MovedType DEF DrainEnds
  <2> QED
    BY <1>6, <1>19, <2>2 DEF DrainEnds
<1>20. ASSUME NEW d \in Conns, KernelAccept(r, s, d)
       PROVE  Held(c)'
  <2>1. CASE c = d
    BY <1>4, <1>7, <1>20, <2>1 DEF KernelAccept, ConnType
  <2>2. CASE c # d
    BY <1>4, <1>6, <1>20, <2>2 DEF KernelAccept, ConnType
  <2> QED
    BY <2>1, <2>2
<1> QED
  BY <1>12, <1>13, <1>14, <1>15, <1>16, <1>17, <1>18, <1>19, <1>20 DEF Worker

\* Dropping the queues of an ended owner loses nothing: the successor of each
\* queue still runs, so it is owned.
LEMMA DropKeeps ==
    ASSUME TypeOK, Control, Queued, main = "run", ~grace, NEW owned \in SUBSET Epochs,
           \A n \in Epochs : act[n] /\ ~IsFinished(n) => n \in owned
    PROVE  \A c \in Conns : DropQueues(conn, owned)[c] = conn[c]
<1>1. ASSUME NEW c \in Conns, conn[c].at = "raced"
      PROVE  \E n \in owned : pred[n] = conn[c].r
  <2>1. Held(c)
    BY DEF Queued
  <2>2. PICK n \in Epochs : act[n] /\ pred[n] = conn[c].r /\ TcpSocks \cap acked[n] = {}
    BY <1>1, <2>1 DEF Held
  <2>3. conn[c].s \in Socks /\ conn[c].s \notin acked[n]
    BY <1>1, <2>1, <2>2 DEF Held, TcpSocks, TypeOK
  <2>4. ~IsFinished(n)
    BY <2>3 DEF IsFinished, Control, Workers, WorkerOK
  <2> QED
    BY <2>2, <2>4
<1> QED
  BY <1>1, QueuesKept

\* Arrivals and the ends of served connections.
LEMMA ClientQueued ==
    ASSUME Inv, NEW d \in Conns, Arrive(d) \/ Finish(d), UNCHANGED Socks
    PROVE  Inv'
<1> USE DEF Inv
<1>1. UNCHANGED <<Socks, holder, pub, quic, health, active, retired, act, stop, wr, pred, wk,
                  acked, grace, main>>
  BY DEF Arrive, Finish, pubVars
<1>2. conn \in ConnType
  BY DEF TypeOK, ConnType
<1>3. conn' \in ConnType
  BY SMTT(20), <1>2, Numbers, MovedType DEF Arrive, Finish, ConnType
<1>4. TypeOK'
  BY <1>1, <1>3 DEF TypeOK, ConnType
<1>5. Control'
  <2> USE DEF Control
  <2>1. Transaction' /\ Candidate' /\ Lineage' /\ Workers'
    BY <1>1, StillTransaction, StillCandidate, StillLineage, StillWorkers
  <2>2. Together'
    BY <1>1 DEF Together
  <2>3. Owners'
    BY <1>1, StillOwners DEF Owned
  <2> QED
    BY <2>1, <2>2, <2>3
<1>6. ASSUME NEW c \in Conns
      PROVE  conn'[c] = conn[c] \/ conn'[c].at \notin {"cut", "raced"}
  <2>1. CASE Arrive(d)
    BY <1>2, <2>1 DEF Arrive, ConnType
  <2>2. CASE Finish(d)
    <3>1. conn' = Moved(conn, {d}, "done", None) /\ None \in 0..MaxEpoch
      BY <2>2, Numbers DEF Finish
    <3>2. c # d => conn'[c] = conn[c]
      BY SMTT(20), <1>2, <3>1, MovedType
    <3>3. c = d => conn'[c].at = "done"
      BY SMTT(20), <1>2, <3>1, MovedType
    <3> QED
      BY <3>2, <3>3
  <2> QED
    BY <2>1, <2>2
<1>7. Queued'
  BY <1>1, <1>6 DEF Queued, Held, TcpSocks
<1> QED
  BY <1>4, <1>5, <1>7

-----------------------------------------------------------------------------
(* Steps of the writers and the main thread *)

WriterType == [pc : {"idle", "built", "ready", "storing", "dropping"},
               cur : [gen : 0..MaxGen, epoch : 0..MaxEpoch],
               next : [gen : 0..MaxGen, epoch : 0..MaxEpoch],
               res : 0..MaxEpoch]

LEMMA BeginKeeps ==
    ASSUME Inv, NEW w \in Writers, Begin(w), UNCHANGED Socks
    PROVE  Inv'
<1> USE DEF Inv, Control
<1>1. UNCHANGED <<Socks, holder, pub, quic, health, active, retired, act, stop, pred, wk, acked,
                  conn, grace, main>>
  BY DEF Begin, pubVars
<1>2. PICK epoch \in CandidateEpochs(w) :
        wr' = [wr EXCEPT ![w].pc = IF epoch = holder.epoch THEN "ready" ELSE "built",
                         ![w].cur = holder,
                         ![w].next = [gen |-> holder.gen + 1, epoch |-> epoch]]
  BY DEF Begin
<1>3. /\ epoch \in Epochs /\ (epoch = holder.epoch \/ (w = "admin" /\ epoch \in FreshEpoch))
      /\ holder.gen + 1 \in 1..MaxGen /\ holder.gen \in 0..MaxGen /\ holder.epoch \in 0..MaxEpoch
      /\ holder.gen + 1 \in 0..MaxGen
  BY SMTT(20), Numbers, GenerationsAssumption DEF CandidateEpochs, FreshEpoch, TypeOK, Begin
<1>4. \A v \in Writers : wr[v].pc = "idle" /\ wr[v].res = None /\ pub # v
  BY DEF Begin, LockFree, Transaction, Staged
<1>5. TypeOK'
  <2>1. wr' \in [Writers -> WriterType]
    <3>1. /\ holder \in [gen : 0..MaxGen, epoch : 0..MaxEpoch] /\ wr[w] \in WriterType
          /\ [gen |-> holder.gen + 1, epoch |-> epoch] \in [gen : 0..MaxGen, epoch : 0..MaxEpoch]
      BY <1>3, Numbers DEF TypeOK, WriterType
    <3> DEFINE new == [wr[w] EXCEPT !.pc = IF epoch = holder.epoch THEN "ready" ELSE "built",
                                    !.cur = holder,
                                    !.next = [gen |-> holder.gen + 1, epoch |-> epoch]]
    <3>2. new \in WriterType
      BY <3>1 DEF WriterType
    <3>3. wr' = [wr EXCEPT ![w] = new]
      BY <1>2
    <3> HIDE DEF new
    <3> QED
      BY <3>2, <3>3 DEF TypeOK, WriterType
  <2> QED
    BY <1>1, <2>1 DEF TypeOK, WriterType
<1>6. /\ \A v \in Writers : v # w => wr'[v] = wr[v]
      /\ wr'[w].pc = IF epoch = holder.epoch THEN "ready" ELSE "built"
      /\ wr'[w].next = [gen |-> holder.gen + 1, epoch |-> epoch]
      /\ \A v \in Writers : wr'[v].res = None
  BY SMTT(20), <1>2, <1>4 DEF TypeOK
<1>7. Transaction'
  <2>1. FreshEpoch' = FreshEpoch
    BY <1>1, StillUnused
  <2> QED
    BY SMTT(20), <1>1, <1>3, <1>4, <1>6, <2>1 DEF Transaction, Staged
<1>8. Candidate'
  BY <1>6 DEF Candidate
<1>9. Together'
  BY <1>1, <1>4 DEF Together
<1>10. Lineage' /\ Workers' /\ Queued'
  BY <1>1, StillLineage, StillWorkers, StillQueued
<1>11. Owners'
  <2>1. Owned' = Owned
    BY <1>1, <1>4, <1>6 DEF Owned, Writers
  <2> QED
    BY <1>1, <2>1, StillOwners
<1> QED
  BY <1>5, <1>7, <1>8, <1>9, <1>10, <1>11

LEMMA PrepareKeeps ==
    ASSUME Inv, NEW w \in Writers, Prepare(w), UNCHANGED Socks
    PROVE  Inv'
<1> USE DEF Inv, Control
<1>1. UNCHANGED <<Socks, holder, pub, quic, health, active, retired, act, stop, acked, conn,
                  grace, main>>
  BY DEF Prepare, pubVars
<1>r. PICK r : r = wr[w].next.epoch
  OBVIOUS
<1>2. /\ wr[w].pc = "built" /\ pub = "none" /\ main = "run"
      /\ active \in Epochs /\ active = wr[w].cur.epoch /\ act[active]
      /\ wr' = [wr EXCEPT ![w].pc = "ready", ![w].res = r]
      /\ pred' = [pred EXCEPT ![r] = active]
      /\ wk' = [wk EXCEPT ![r] = [s \in Socks |-> "gate"]]
  BY <1>r, Numbers DEF Prepare, CandidateAdmitted, TypeOK
<1>3. w = "admin" /\ r \in FreshEpoch
  BY <1>r, <1>2 DEF Transaction, Staged
<1>4. r \in Epochs /\ Unused(r) /\ \A q \in 1..(r - 1) : ~Unused(q)
  BY <1>3 DEF FreshEpoch
<1>5. TypeOK'
  <2>1. wr' \in [Writers -> WriterType]
    <3>1. wr[w] \in WriterType /\ r \in 0..MaxEpoch
      BY <1>4, Numbers DEF TypeOK, WriterType
    <3> DEFINE new == [wr[w] EXCEPT !.pc = "ready", !.res = r]
    <3>2. new \in WriterType
      BY <3>1 DEF WriterType
    <3>3. wr' = [wr EXCEPT ![w] = new]
      BY <1>2
    <3> HIDE DEF new
    <3> QED
      BY <3>2, <3>3 DEF TypeOK, WriterType
  <2>2. pred' \in [Epochs -> 0..MaxEpoch]
    BY <1>2, <1>4, Numbers DEF TypeOK
  <2>3. wk' \in [Epochs -> [Socks -> PCs]]
    BY <1>2, <1>4 DEF TypeOK, PCs
  <2> QED
    BY <1>1, <2>1, <2>2, <2>3 DEF TypeOK, PCs, WriterType
<1>6. /\ \A v \in Writers : v # w => wr'[v] = wr[v]
      /\ wr'[w].pc = "ready" /\ wr'[w].res = r
      /\ wr'[w].next = wr[w].next /\ wr'[w].cur = wr[w].cur
  BY SMTT(20), <1>2 DEF TypeOK
<1>7. /\ \A q \in Epochs : q # r => pred'[q] = pred[q] /\ wk'[q] = wk[q]
      /\ pred'[r] = active /\ \A s \in Socks : wk'[r][s] = "gate" /\ wk[r][s] = "none"
  BY <1>2, <1>4 DEF TypeOK, Unused
<1>8. /\ \A q \in Epochs : q # r => (Unused(q)' <=> Unused(q))
      /\ ~Unused(r)'
  <2>1. Socks # {}
    BY GenerationsAssumption DEF TypeOK
  <2>2. ~Unused(r)'
    BY <1>1, <1>7, <2>1 DEF Unused
  <2>3. ASSUME NEW q \in Epochs, q # r
        PROVE  Unused(q)' <=> Unused(q)
    <3>1. wk'[q] = wk[q]
      BY <1>7, <2>3
    <3> QED
      BY <1>1, <3>1 DEF Unused
  <2> QED
    BY <2>2, <2>3
<1>9. ~act[r] /\ active < r
  BY <1>2, <1>4 DEF Lineage
<1>10. \A v \in Writers : v # w => wr[v].pc = "idle" /\ wr[v].res = None
  BY <1>2 DEF Transaction, Staged
<1>11. Transaction'
  <2>1. ASSUME NEW v \in Writers, v # w
        PROVE  wr'[v].pc = "idle" /\ wr'[v].res = None /\ pub # v
    BY <1>2, <1>6, <1>10, <2>1 DEF Writers
  <2>2. wr[w].next \in [gen : 1..MaxGen, epoch : Epochs]
    BY <1>2 DEF Transaction, Staged
  <2>3. pub # w
    BY <1>2 DEF Writers
  <2>4. Staged(w)'
    BY <1>1, <1>6, <2>2, <2>3 DEF Staged
  <2>5. ASSUME NEW v \in Writers, v # w
        PROVE  Staged(v)'
    BY <1>1, <2>1, <2>5 DEF Staged
  <2> QED
    BY <1>1, <1>2, <2>1, <2>4, <2>5 DEF Transaction
<1>12. Candidate'
  <2>2. ASSUME NEW v \in Writers, v # w
        PROVE  wr'[v].res = None
    BY <1>6, <1>10, <2>2
  <2>3. (/\ wr[w].res = wr[w].next.epoch /\ pred[wr[w].res] = wr[w].cur.epoch
         /\ ~Unused(wr[w].res) /\ ~act[wr[w].res])'
    <3>1. wr'[w].res = r
      BY <1>6
    <3>2. (~Unused(wr[w].res))'
      BY <1>8, <3>1 DEF Unused
    <3> QED
      BY <1>r, <1>1, <1>2, <1>6, <1>7, <1>9, <3>1, <3>2
  <2> QED
    BY <1>3, <2>2, <2>3 DEF Candidate
<1>13. Together'
  BY <1>1, <1>2 DEF Together, Writers
<1>14. Lineage'
  <2>1. \A q \in Epochs : q < r => ~Unused(q)
    BY SMTT(20), <1>4 DEF Epochs
  <2>2. \A q, p \in Epochs : Unused(q)' /\ ~Unused(p)' => p < q
    BY SMTT(20), <1>4, <1>8, <2>1, Numbers DEF Lineage
  <2>3. \A q \in Epochs : pred'[q] # None => act[pred'[q]] /\ pred'[q] < q
    BY SMTT(20), <1>2, <1>7, <1>9 DEF Lineage
  <2>4. \A q \in Epochs : act[q] => q # r /\ pred'[q] = pred[q]
    BY <1>7, <1>9
  <2> QED
    BY <1>1, <1>8, <2>2, <2>3, <2>4 DEF Lineage
<1>15. Workers'
  <2>1. ASSUME NEW q \in Epochs, NEW s \in Socks
        PROVE  WorkerOK(q, s)' /\ Handover(q, s)'
    <3>1. WorkerOK(q, s) /\ Handover(q, s)
      BY DEF Workers
    <3>2. CASE q = r
      BY <1>1, <1>7, <1>9, <3>1, <3>2 DEF WorkerOK, Handover, Armed
    <3>3. CASE q # r
      BY <1>1, <1>7, <1>8, <3>1, <3>3 DEF WorkerOK, Handover, Armed, TcpSocks
    <3> QED
      BY <3>2, <3>3
  <2> QED
    BY <1>1, <2>1 DEF Workers
<1>16. Owners'
  <2>1. Owned \subseteq Owned'
    <3>1. wr[w].res = None
      BY <1>2 DEF Transaction, Staged
    <3> QED
      BY <1>1, <1>3, <3>1 DEF Owned
  <2>2. \A q \in Epochs : q # r => (IsFinished(q)' <=> IsFinished(q))
    BY <1>1, <1>7 DEF IsFinished
  <2> QED
    BY <1>1, <1>9, <2>1, <2>2 DEF Owners
<1>17. Queued'
  BY SMTT(20), <1>1, <1>7, <1>9 DEF Queued, Held, TcpSocks
<1> QED
  BY <1>5, <1>11, <1>12, <1>13, <1>14, <1>15, <1>16, <1>17

\* A transaction under way is the only one.
LEMMA Alone ==
    ASSUME TypeOK, Transaction, NEW w \in Writers, wr[w].pc # "idle"
    PROVE  /\ \A v \in Writers : v # w => wr[v].pc = "idle" /\ wr[v].res = None /\ pub # v
           /\ pub \in {"none", w}
           /\ wr[w].pc # "storing" => pub = "none"
  BY SMTT(20) DEF TypeOK, Transaction, Staged

\* What a step of the only transaction leaves to show of it.
LEMMA AloneKeeps ==
    ASSUME TypeOK, Transaction, NEW w \in Writers, wr[w].pc # "idle",
           \A v \in Writers : v # w => wr'[v] = wr[v],
           pub' \in {"none", w}, Staged(w)', pub' # "none" => main' = "run"
    PROVE  Transaction'
<1>1. ASSUME NEW v \in Writers, v # w
      PROVE  wr'[v].pc = "idle" /\ wr'[v].res = None /\ pub' # v
  BY <1>1, Alone DEF Writers
<1>2. ASSUME NEW v \in Writers, v # w
      PROVE  Staged(v)'
  BY <1>1, <1>2 DEF Staged
<1> QED
  BY <1>1, <1>2 DEF Transaction

LEMMA PcType ==
    ASSUME TypeOK, NEW w \in Writers, NEW to \in {"storing", "dropping"},
           wr' = [wr EXCEPT ![w].pc = to]
    PROVE  /\ wr' \in [Writers -> WriterType]
           /\ \A v \in Writers : v # w => wr'[v] = wr[v]
           /\ wr'[w].pc = to /\ wr'[w].res = wr[w].res
           /\ wr'[w].next = wr[w].next /\ wr'[w].cur = wr[w].cur
<1>1. wr \in [Writers -> WriterType] /\ wr[w] \in WriterType
  BY DEF TypeOK, WriterType
<1>2. PICK new : new = [wr[w] EXCEPT !.pc = to]
  OBVIOUS
<1>3. /\ new \in WriterType
      /\ new.pc = to /\ new.res = wr[w].res /\ new.next = wr[w].next /\ new.cur = wr[w].cur
  BY <1>1, <1>2 DEF WriterType
<1>4. wr' = [wr EXCEPT ![w] = new]
  BY <1>2
<1> QED
  BY <1>1, <1>3, <1>4

LEMMA AbandonKeeps ==
    ASSUME Inv, NEW w \in Writers, Abandon(w), UNCHANGED Socks
    PROVE  Inv'
<1> USE DEF Inv, Control
<1>1. UNCHANGED <<Socks, holder, pub, quic, health, active, retired, act, pred, wk, acked, conn,
                  grace, main>>
  BY DEF Abandon
<1>2. /\ wr[w].pc \in {"built", "ready"} /\ wr[w].pc # "idle" /\ wr[w].pc # "storing"
      /\ wr' = [wr EXCEPT ![w].pc = "dropping"]
      /\ stop' = [r \in Epochs |-> stop[r] \/ r = wr[w].res]
  BY DEF Abandon
<1>3. pub = "none" /\ \A v \in Writers : v # w => wr[v].res = None /\ pub # v
  BY <1>2, Alone
<1>4. TypeOK'
  <2>1. wr' \in [Writers -> WriterType]
    BY <1>2, PcType
  <2>2. stop' \in [Epochs -> BOOLEAN]
    BY <1>2 DEF TypeOK
  <2> QED
    BY <1>1, <2>1, <2>2 DEF TypeOK, WriterType
<1>5. /\ \A v \in Writers : v # w => wr'[v] = wr[v]
      /\ wr'[w].pc = "dropping" /\ wr'[w].res = wr[w].res
      /\ wr'[w].next = wr[w].next /\ wr'[w].cur = wr[w].cur
  BY <1>2, PcType
<1>6. Transaction'
  <2>1. Staged(w)'
    BY <1>1, <1>2, <1>3, <1>5 DEF Transaction, Staged, Writers
  <2> QED
    BY <1>1, <1>2, <1>3, <1>5, <2>1, AloneKeeps
<1>7. Candidate'
  <2>1. ASSUME NEW v \in Writers
        PROVE  wr'[v].res = wr[v].res /\ wr'[v].next = wr[v].next /\ wr'[v].cur = wr[v].cur
    BY <1>5
  <2> QED
    BY SMTT(20), <1>1, <2>1, StillUnused DEF Candidate
<1>8. \A r \in Epochs : stop[r] => stop'[r]
  BY <1>2
<1>9. Together'
  <2>1. ASSUME main = "run"
        PROVE  ~stop'[active]
    <3>1. active \in Epochs /\ ~stop[active]
      BY <2>1 DEF Together
    <3>2. act[active]
      BY <3>1, Numbers DEF Lineage
    <3>3. wr[w].res # active
      BY <3>1, <3>2, Numbers DEF Candidate
    <3> QED
      BY <1>2, <3>1, <3>3
  <2> QED
    BY <1>1, <1>3, <2>1 DEF Together, Writers
<1>10. Lineage'
  BY <1>1, StillLineage
<1>11. Workers' /\ Queued'
  BY <1>1, <1>8, StillWorkers, StillQueued
<1>12. Owners'
  <2>1. Owned' = Owned
    BY <1>1, <1>5 DEF Owned, Writers
  <2> QED
    BY <1>1, <2>1, StillOwners
<1> QED
  BY <1>4, <1>6, <1>7, <1>9, <1>10, <1>11, <1>12

LEMMA ReleasedType ==
    ASSUME TypeOK, NEW w \in Writers, wr' = Released(w)
    PROVE  /\ wr' \in [Writers -> WriterType]
           /\ \A v \in Writers : v # w => wr'[v] = wr[v]
           /\ wr'[w].pc = "idle" /\ wr'[w].res = None
<1>1. WriterIdle \in WriterType
  BY SMTT(20), Numbers, GenerationsAssumption DEF WriterIdle, WriterType
<1>2. WriterIdle.pc = "idle" /\ WriterIdle.res = None
  BY DEF WriterIdle
<1> QED
  BY <1>1, <1>2 DEF Released, TypeOK, WriterType

LEMMA JoinCandidateKeeps ==
    ASSUME Inv, NEW w \in Writers, JoinCandidate(w), UNCHANGED Socks
    PROVE  Inv'
<1> USE DEF Inv, Control
<1>1. UNCHANGED <<Socks, holder, pub, quic, health, active, retired, act, stop, pred, wk, acked,
                  grace, main>>
  BY DEF JoinCandidate, pubVars
<1>2. /\ wr[w].pc = "dropping" /\ wr[w].pc # "idle" /\ wr[w].pc # "storing"
      /\ wr' = Released(w) /\ conn' = DropQueues(conn, Owned \ {wr[w].res})
  BY DEF JoinCandidate
<1>3. pub = "none" /\ \A v \in Writers : v # w => wr[v].res = None /\ pub # v
  BY <1>2, Alone
<1>4. /\ wr' \in [Writers -> WriterType]
      /\ \A v \in Writers : v # w => wr'[v] = wr[v]
      /\ wr'[w].pc = "idle" /\ wr'[w].res = None
  BY <1>2, ReleasedType
<1>5. conn' \in ConnType
  BY <1>2, DropQueuesType
<1>6. TypeOK'
  BY <1>1, <1>4, <1>5 DEF TypeOK, ConnType, WriterType
<1>7. Transaction'
  <2>1. Staged(w)'
    BY <1>1, <1>3, <1>4 DEF Staged, Writers
  <2> QED
    BY <1>1, <1>2, <1>3, <1>4, <2>1, AloneKeeps
<1>8. Candidate'
  BY SMTT(20), <1>3, <1>4 DEF Candidate
<1>9. Together'
  BY <1>1, <1>3 DEF Together, Writers
<1>10. Lineage' /\ Workers'
  BY <1>1, StillLineage, StillWorkers
<1>11. wr[w].res # None => ~act[wr[w].res]
  BY DEF Candidate
<1>12. Owners'
  <2>1. ASSUME NEW r \in Owned, act[r]
        PROVE  r \in Owned'
    <3>1. r # wr[w].res
      BY <1>11, <2>1 DEF Owned
    <3> QED
      BY <1>1, <1>4, <2>1, <3>1 DEF Owned, Writers
  <2> QED
    BY <1>1, <2>1, StillOwners
<1>13. Queued'
  <2>1. Owned \ {wr[w].res} \in SUBSET Epochs
    BY OwnedEpochs
  <2>2. \A n \in Epochs : act[n] /\ ~IsFinished(n) => n \in Owned \ {wr[w].res}
    BY <1>11, Numbers DEF Owners
  <2> QED
    BY <1>1, <1>2, <2>1, <2>2, DropKeeps, StillQueued
<1> QED
  BY <1>6, <1>7, <1>8, <1>9, <1>10, <1>12, <1>13

LEMMA PublishStateKeeps ==
    ASSUME Inv, NEW w \in Writers, PublishState(w), UNCHANGED Socks
    PROVE  Inv'
<1> USE DEF Inv, Control
<1>1. UNCHANGED <<Socks, quic, health, active, retired, act, stop, pred, wk, acked, conn, grace,
                  main>>
  BY DEF PublishState
<1>2. /\ wr[w].pc = "ready" /\ wr[w].pc # "idle" /\ pub = "none" /\ main = "run"
      /\ wr[w].cur = holder /\ ResourcesFit(w)
      /\ holder' = wr[w].next /\ pub' = w
      /\ wr' = [wr EXCEPT ![w].pc = "storing"]
  BY DEF PublishState, MayPublish
<1>3. /\ wr' \in [Writers -> WriterType]
      /\ \A v \in Writers : v # w => wr'[v] = wr[v]
      /\ wr'[w].pc = "storing" /\ wr'[w].res = wr[w].res
      /\ wr'[w].next = wr[w].next /\ wr'[w].cur = wr[w].cur
  BY <1>2, PcType
<1>4. wr[w].next \in [gen : 1..MaxGen, epoch : Epochs]
  BY <1>2 DEF Transaction, Staged
<1>5. TypeOK'
  BY <1>1, <1>2, <1>3, <1>4 DEF TypeOK, WriterType
<1>6. Transaction'
  <2>1. Staged(w)'
    BY <1>1, <1>2, <1>3, <1>4 DEF Staged
  <2> QED
    BY <1>1, <1>2, <1>3, <2>1, AloneKeeps
<1>7. Candidate'
  <2>1. ASSUME NEW v \in Writers
        PROVE  wr'[v].res = wr[v].res /\ wr'[v].next = wr[v].next /\ wr'[v].cur = wr[v].cur
    BY <1>3
  <2> QED
    BY SMTT(20), <1>1, <2>1, StillUnused DEF Candidate
<1>8. Together'
  <2>1. active = holder.epoch /\ health = {holder.gen} /\ active \in Epochs /\ ~stop[active]
    BY <1>2 DEF Together
  <2>2. ASSUME wr[w].res # None
        PROVE  ~stop[wr[w].res] /\ \A s \in Socks : wk[wr[w].res][s] = "gate"
    <3>1. PICK r \in Epochs : r = wr[w].res
      BY <2>2, Numbers DEF TypeOK
    <3>2. ~act[r] /\ ~Unused(r) /\ ~stop[r] /\ \A s \in Socks : wk[r][s] # "gone"
      BY <1>2, <2>2, <3>1 DEF ResourcesFit, Cancelled, Candidate
    <3>3. \A s \in Socks : wk[r][s] \in {"none", "gate"}
      BY <3>2 DEF Workers, WorkerOK
    <3>4. \A s \in Socks : wk[r][s] = "gate"
      BY <3>2, <3>3 DEF Workers, WorkerOK
    <3> QED
      BY <3>1, <3>2, <3>4
  <2>3. wr[w].res = None => wr[w].next.epoch = wr[w].cur.epoch
    BY <1>2 DEF ResourcesFit
  <2>4. w # "none"
    BY DEF Writers
  <2> QED
    BY SMTT(20), <1>1, <1>2, <1>3, <2>1, <2>2, <2>3, <2>4 DEF Together
<1>9. Lineage' /\ Workers' /\ Queued'
  BY <1>1, StillLineage, StillWorkers, StillQueued
<1>10. Owners'
  <2>1. Owned' = Owned
    BY <1>1, <1>3 DEF Owned, Writers
  <2> QED
    BY <1>1, <2>1, StillOwners
<1> QED
  BY <1>5, <1>6, <1>7, <1>8, <1>9, <1>10

LEMMA PublishedType ==
    ASSUME TypeOK, UNCHANGED <<Socks, holder, pred, wk, acked, conn, grace, main>>,
           wr' \in [Writers -> WriterType], pub' = "none",
           quic' \in Epochs, health' \subseteq 1..MaxGen,
           active' \in 0..MaxEpoch, retired' \subseteq Epochs,
           act' \in [Epochs -> BOOLEAN], stop' \in [Epochs -> BOOLEAN]
    PROVE  TypeOK'
  BY DEF TypeOK, WriterType

LEMMA PublishResourcesKeeps ==
    ASSUME Inv, NEW w \in Writers, PublishResources(w), UNCHANGED Socks
    PROVE  Inv'
<1> USE DEF Inv, Control
<1>1. UNCHANGED <<Socks, holder, pred, wk, acked, conn, grace, main>>
  BY DEF PublishResources
<1>2. /\ wr[w].pc = "storing" /\ wr[w].pc # "idle"
      /\ quic' = wr[w].next.epoch
      /\ health' = (health \ {wr[w].cur.gen}) \cup {wr[w].next.gen}
      /\ pub' = "none" /\ wr' = Released(w)
  BY DEF PublishResources
<1>3. pub = w /\ main = "run"
  BY <1>2 DEF Transaction, Staged, Writers
<1>4. /\ active \in Epochs /\ ~stop[active] /\ holder = wr[w].next
      /\ active = wr[w].cur.epoch /\ health = {wr[w].cur.gen}
      /\ wr[w].res = None => wr[w].next.epoch = wr[w].cur.epoch
      /\ wr[w].res # None => ~stop[wr[w].res] /\ \A s \in Socks : wk[wr[w].res][s] = "gate"
  BY <1>3 DEF Together
<1>5. /\ wr' \in [Writers -> WriterType]
      /\ \A v \in Writers : v # w => wr'[v] = wr[v]
      /\ wr'[w].pc = "idle" /\ wr'[w].res = None
  BY <1>2, ReleasedType
<1>6. quic' = holder'.epoch /\ health' = {holder'.gen} /\ quic' \in Epochs
      /\ health' \subseteq 1..MaxGen
  <2>1. holder.epoch \in Epochs /\ holder.gen \in 1..MaxGen
    BY DEF TypeOK
  <2> QED
    BY <1>1, <1>2, <1>4, <2>1
<1>7. Transaction'
  <2>1. Staged(w)'
    BY <1>2, <1>5 DEF Staged, Writers
  <2> QED
    BY <1>1, <1>2, <1>5, <2>1, AloneKeeps
<1>8. Candidate'
  BY SMTT(20), <1>2, <1>5, Alone DEF Candidate
\* An application reload keeps the transport.
<1>9. CASE wr[w].res = None
  <2>1. UNCHANGED <<active, retired, act, stop>>
    BY <1>9 DEF PublishResources
  <2>2. TypeOK'
    BY <1>1, <1>2, <1>5, <1>6, <2>1 DEF TypeOK, WriterType
  <2>3. Together'
    BY <1>1, <1>2, <1>4, <1>6, <1>9, <2>1 DEF Together, Writers
  <2>4. Lineage' /\ Workers' /\ Queued'
    BY <1>1, <2>1, StillLineage, StillWorkers, StillQueued
  <2>5. Owners'
    <3>1. Owned' = Owned
      BY <1>2, <1>5, <1>9, <2>1, Alone DEF Owned, Writers
    <3> QED
      BY <1>1, <2>1, <3>1, StillOwners
  <2> QED
    BY <1>7, <1>8, <2>2, <2>3, <2>4, <2>5
\* A trust change replaces it.
<1>10. CASE wr[w].res # None
  <2>1. PICK r \in Epochs : r = wr[w].res
    BY <1>10, Numbers DEF TypeOK
  <2>2. /\ stop' = [stop EXCEPT ![active] = TRUE] /\ retired' = retired \cup {active}
        /\ active' = r /\ act' = [act EXCEPT ![r] = TRUE]
    BY <1>10, <2>1 DEF PublishResources, Replace
  <2>3. /\ w = "admin" /\ r = wr[w].next.epoch /\ pred[r] = active /\ ~Unused(r) /\ ~act[r]
        /\ ~stop[r] /\ \A s \in Socks : wk[r][s] = "gate"
    BY <1>4, <1>10, <2>1 DEF Candidate
  <2>4. act[active] /\ active < r /\ active # r
    BY SMTT(20), <1>4, <2>3, Numbers DEF Lineage
  <2>5. /\ \A q \in Epochs : act'[q] <=> act[q] \/ q = r
        /\ \A q \in Epochs : stop'[q] <=> stop[q] \/ q = active
    <3>1. act \in [Epochs -> BOOLEAN] /\ stop \in [Epochs -> BOOLEAN]
      BY DEF TypeOK
    <3> QED
      BY <1>4, <2>2, <3>1
  <2>6. TypeOK'
    <3>1. act' \in [Epochs -> BOOLEAN] /\ stop' \in [Epochs -> BOOLEAN]
      BY <1>4, <2>2 DEF TypeOK
    <3>2. active' \in 0..MaxEpoch /\ retired' \subseteq Epochs
      BY <1>4, <2>2, Numbers DEF TypeOK
    <3> QED
      BY <1>1, <1>2, <1>5, <1>6, <3>1, <3>2, PublishedType
  <2>7. Together'
    <3>1. active' = r /\ r \in Epochs /\ r = holder'.epoch /\ ~stop'[r] /\ pub' = "none"
      BY <1>1, <1>2, <1>4, <2>2, <2>3, <2>4, <2>5
    <3>2. quic' = holder'.epoch /\ health' = {holder'.gen}
      BY <1>6
    <3> QED
      BY <3>1, <3>2 DEF Together, Writers
  <2>8. Lineage'
    <3>1. \A q \in Epochs : Unused(q)' <=> Unused(q)
      BY <1>1, StillUnused
    <3>2. \A q \in Epochs : act[q] => q =< active
      BY <1>3 DEF Lineage
    <3>3. \A q, p \in Epochs : act'[q] /\ act'[p] /\ q < p => q =< pred[p]
      BY SMTT(20), <1>4, <2>3, <2>4, <2>5, <3>2, Numbers DEF Lineage
    <3>4. \A q \in Epochs : act'[q] =>
            q =< r /\ (q # r => \E n \in Epochs : act'[n] /\ pred[n] = q)
      BY SMTT(20), <1>3, <1>4, <2>3, <2>4, <2>5, <3>2, Numbers DEF Lineage
    <3>5. \A q \in Epochs : pred[q] # None => act'[pred[q]] /\ pred[q] < q
      BY <2>5, Numbers DEF Lineage, TypeOK
    <3>6. act'[1] /\ act'[r] /\ \A q \in retired' : act'[q]
      BY SMTT(20), <1>4, <2>2, <2>4, <2>5, Numbers DEF Lineage, TypeOK
    <3>7. \A q \in Epochs : act'[q] => ~Unused(q)
      BY SMTT(20), <2>3, <2>5 DEF Lineage
    <3> QED
      BY <1>1, <2>2, <3>1, <3>3, <3>4, <3>5, <3>6, <3>7 DEF Lineage
  <2>9. Workers'
    <3>1. ASSUME NEW q \in Epochs, NEW s \in Socks
          PROVE  WorkerOK(q, s)'
      <4>1. WorkerOK(q, s)
        BY DEF Workers
      <4> QED
        BY <1>1, <2>5, <4>1, StillUnused DEF WorkerOK
    <3>2. ASSUME NEW q \in Epochs, NEW s \in Socks
          PROVE  Handover(q, s)'
      <4>1. Handover(q, s)
        BY DEF Workers
      <4>2. ASSUME q # r, act'[q], NEW p \in Epochs, act'[p], p < q
            PROVE  act[q] /\ act[p]
        BY SMTT(20), <1>3, <1>4, <2>4, <2>5, <4>2, Numbers DEF Lineage
      <4>3. CASE q = r
        BY <1>1, <2>3, <4>3 DEF Handover, Armed
      <4>4. CASE q # r
        BY <1>1, <4>1, <4>2, <4>4 DEF Handover, Armed, TcpSocks
      <4> QED
        BY <4>3, <4>4
    <3> QED
      BY <1>1, <3>1, <3>2 DEF Workers
  <2>10. Owners'
    <3>1. Owned \cup {r} \subseteq Owned'
      BY <1>4, <1>5, <2>1, <2>2, <2>3, Numbers DEF Owned
    <3> QED
      BY <1>1, <2>5, <3>1, StillUnused DEF Owners
  <2>11. Queued'
    BY <1>1, <2>5 DEF Queued, Held, TcpSocks
  <2> QED
    BY <1>7, <1>8, <2>6, <2>7, <2>8, <2>9, <2>10, <2>11
<1> QED
  BY <1>9, <1>10

LEMMA ReapKeeps ==
    ASSUME Inv, NEW r \in Epochs, Reap(r), UNCHANGED Socks
    PROVE  Inv'
<1> USE DEF Inv, Control
<1>1. UNCHANGED <<Socks, holder, wr, pub, quic, health, active, act, stop, pred, wk, acked, grace,
                  main>>
  BY DEF Reap
<1>2. IsFinished(r) /\ retired' = retired \ {r} /\ conn' = DropQueues(conn, Owned \ {r})
  BY DEF Reap
<1>3. conn' \in ConnType
  BY <1>2, DropQueuesType
<1>4. TypeOK'
  BY <1>1, <1>2, <1>3 DEF TypeOK, ConnType
<1>5. Transaction'
  BY <1>1, StillTransaction
<1>6. Candidate'
  BY <1>1, StillCandidate
<1>7. Together'
  BY <1>1 DEF Together
<1>8. Lineage' /\ Workers'
  BY <1>1, <1>2, StillLineage, StillWorkers
<1>9. Owners'
  <2>1. \A q \in Owned : ~IsFinished(q) => q \in Owned'
    BY <1>1, <1>2 DEF Owned
  <2> QED
    BY <1>1, <2>1, StillOwners
<1>10. Queued'
  <2>1. Owned \ {r} \in SUBSET Epochs
    BY OwnedEpochs
  <2>2. \A n \in Epochs : act[n] /\ ~IsFinished(n) => n \in Owned \ {r}
    BY <1>2 DEF Owners
  <2> QED
    BY <1>1, <1>2, <2>1, <2>2, DropKeeps, StillQueued
<1> QED
  BY <1>4, <1>5, <1>6, <1>7, <1>8, <1>9, <1>10

\* From Close on nothing is published, and main never runs again.
LEMMA CloseKeeps ==
    ASSUME Inv, Close, UNCHANGED Socks
    PROVE  Inv'
<1> USE DEF Inv, Control
<1>1. UNCHANGED <<Socks, holder, wr, pub, quic, health, active, retired, act, pred, wk, acked,
                  conn, grace>>
  BY DEF Close
<1>2. /\ pub = "none" /\ main' = "closed"
      /\ stop' = [r \in Epochs |-> stop[r] \/ r = active \/ r \in retired]
  BY DEF Close
<1>3. TypeOK'
  <2>1. stop' \in [Epochs -> BOOLEAN]
    BY <1>2 DEF TypeOK
  <2> QED
    BY <1>1, <1>2, <2>1 DEF TypeOK
<1>4. Transaction' /\ Candidate'
  BY <1>1, <1>2, StillTransaction, StillCandidate
<1>5. Together'
  BY <1>2 DEF Together
<1>6. Lineage' /\ Workers' /\ Queued'
  BY <1>1, <1>2, StillLineage, StillWorkers, StillQueued
<1>7. Owners'
  BY <1>1, StillOwners DEF Owned
<1> QED
  BY <1>3, <1>4, <1>5, <1>6, <1>7

LEMMA ShutdownKeeps ==
    ASSUME Inv, Shutdown, UNCHANGED Socks
    PROVE  Inv'
<1> USE DEF Inv, Control
<1>1. /\ UNCHANGED <<Socks, holder, wr, pub, quic, act, stop, pred, wk, acked, grace>>
      /\ main # "run" /\ main' # "run" /\ main' \in {"down", "quiet", "over"}
      /\ health' \subseteq health
      /\ active' \in {active, None} /\ retired' \subseteq retired
      /\ conn' = conn \/ \E owned : conn' = DropQueues(conn, owned)
  BY DEF Shutdown, CancelProcess, StopHealth, FinishShutdown, pubVars
<1>2. conn' \in ConnType
  BY SMTT(20), <1>1, DropQueuesType DEF TypeOK, ConnType
<1>3. TypeOK'
  BY <1>1, <1>2, Numbers DEF TypeOK, ConnType
<1>4. pub = "none"
  BY <1>1 DEF Transaction
<1>5. Transaction' /\ Candidate'
  BY <1>1, <1>4, StillTransaction, StillCandidate
<1>6. Together'
  BY <1>1 DEF Together
<1>7. Lineage'
  BY <1>1, StillUnused DEF Lineage
<1>8. Workers' /\ Queued'
  BY <1>1, StillWorkers, StillQueued
<1>9. Owners'
  <2>1. CASE FinishShutdown
    <3>1. \A r \in Owned : ~IsFinished(r) => r \in Owned'
      BY <1>1, <2>1 DEF FinishShutdown, Owned
    <3> QED
      BY <1>1, <3>1, StillOwners
  <2>2. CASE CancelProcess \/ StopHealth
    <3>1. Owned' = Owned
      BY <2>2 DEF CancelProcess, StopHealth, pubVars, Owned
    <3> QED
      BY <1>1, <3>1, StillOwners
  <2> QED
    BY <2>1, <2>2 DEF Shutdown
<1> QED
  BY <1>3, <1>5, <1>6, <1>7, <1>8, <1>9

-----------------------------------------------------------------------------
LEMMA InvInit == Init => Inv
<1> SUFFICES ASSUME Init
             PROVE  Inv
  OBVIOUS
<1>1. Socks \in Layouts /\ Socks # {}
  BY GenerationsAssumption DEF Init
<1>2. TypeOK
  <2>1. wr \in [Writers -> WriterType]
    BY SMTT(20), Numbers, GenerationsAssumption DEF Init, WriterIdle, WriterType
  <2>2. holder \in [gen : 1..MaxGen, epoch : Epochs] /\ health \subseteq 1..MaxGen
    BY SMTT(20), Numbers, GenerationsAssumption DEF Init
  <2>3. act \in [Epochs -> BOOLEAN] /\ stop \in [Epochs -> BOOLEAN] /\ grace \in BOOLEAN
    BY DEF Init
  <2>4. /\ pred \in [Epochs -> 0..MaxEpoch] /\ wk \in [Epochs -> [Socks -> PCs]]
        /\ acked \in [Epochs -> SUBSET Socks] /\ conn \in ConnType
    BY Numbers DEF Init, PCs, ConnType
  <2>5. /\ active \in 0..MaxEpoch /\ retired \subseteq Epochs /\ quic \in Epochs
        /\ pub \in Writers \cup {"none"} /\ main \in {"run", "closed", "down", "quiet", "over"}
    BY Numbers DEF Init
  <2> QED
    BY <1>1, <2>1, <2>2, <2>3, <2>4, <2>5 DEF TypeOK, WriterType, PCs, ConnType
<1>3. \A r \in Epochs : /\ act[r] <=> r = 1
                        /\ ~stop[r] /\ pred[r] = None /\ acked[r] = {}
                        /\ Unused(r) <=> r # 1
                        /\ \A s \in Socks : wk[r][s] = IF r = 1 THEN "gate" ELSE "none"
  BY <1>1 DEF Init, Unused
<1>4. \A w \in Writers : wr[w].pc = "idle" /\ wr[w].res = None
  BY DEF Init, WriterIdle
<1>5. Transaction /\ Candidate
  BY <1>4 DEF Transaction, Staged, Candidate, Init, Writers
<1>6. Together
  BY <1>3, Numbers DEF Together, Init, Writers
<1>7. Lineage
  BY SMTT(20), <1>3, Numbers DEF Lineage, Init
<1>8. Workers
  BY SMTT(20), <1>3 DEF Workers, WorkerOK, Handover, Armed
<1>9. Owners
  BY <1>3, Numbers DEF Owners, Owned, Init
<1>10. Queued
  BY DEF Queued, Held, Init
<1> QED
  BY <1>2, <1>5, <1>6, <1>7, <1>8, <1>9, <1>10 DEF Inv, Control

LEMMA InvStep == Inv /\ [Next]_vars => Inv'
<1> SUFFICES ASSUME Inv, [Next]_vars
             PROVE  Inv'
  OBVIOUS
<1>1. ASSUME NEW r \in Epochs, NEW s \in Socks, Worker(r, s), UNCHANGED Socks
      PROVE  Inv'
  <2> USE DEF Inv, Control
  <2>1. TypeOK'
    BY <1>1, WorkerSteps
  <2>2. PICK a \in PCs, b \in PCs : Steps(r, s, a, b)
    BY <1>1, WorkerSteps
  <2>3. (Transaction /\ Candidate /\ Together /\ Lineage /\ Owners)'
    BY <2>1, <2>2, StepsControl
  <2>4. Workers'
    BY <2>1, <2>2, StepsWorkers
  <2>5. Queued'
    BY <1>1, <2>1, WorkerQueued
  <2> QED
    BY <2>1, <2>3, <2>4, <2>5
<1>2. ASSUME NEW w \in Writers, Writer(w), UNCHANGED Socks
      PROVE  Inv'
  BY <1>2, BeginKeeps, PrepareKeeps, AbandonKeeps, JoinCandidateKeeps, PublishStateKeeps,
     PublishResourcesKeeps DEF Writer
<1>3. CASE UNCHANGED vars
  <2> USE DEF vars, Inv, Control
  <2>1. TypeOK'
    BY <1>3 DEF TypeOK
  <2>a. Transaction' /\ Candidate'
    BY <1>3, StillTransaction, StillCandidate
  <2>2. Together'
    BY <1>3 DEF Together
  <2>3. Lineage' /\ Workers' /\ Queued'
    BY <1>3, StillLineage, StillWorkers, StillQueued
  <2>4. Owners'
    BY <1>3, StillOwners DEF Owned
  <2> QED
    BY <2>1, <2>a, <2>2, <2>3, <2>4
<1> QED
  BY <1>1, <1>2, <1>3, ClientQueued, ReapKeeps, CloseKeeps, ShutdownKeeps DEF Next

LEMMA InvHolds == Spec => []Inv
  BY InvInit, InvStep, PTL DEF Spec

\* The activation gates of tcp_candidate and the retirement of
\* accept_drain_loop: over any number of generations published in any
\* succession, two of them never have an accept armed on one TCP socket, nor
\* neighbours one on the AF_UNIX listener, unless a drain bound expired.
THEOREM Acceptors == Spec => []OneAcceptor
<1>1. ASSUME Inv, NEW r \in Epochs, NEW q \in Epochs, NEW s \in Socks, Armed(r, s), Armed(q, s),
             q < r, ~grace
      PROVE  s \in Uds /\ pred[r] # q /\ pred[q] # r
  <2> USE DEF Inv, Control
  <2>1. act[r] /\ act[q] /\ s \notin acked[q]
    BY <1>1 DEF Workers, WorkerOK, Armed
  <2>2. s \notin Tcp
    BY <1>1, <2>1 DEF Workers, Handover, Armed, TcpSocks
  <2>3. s \in Uds
    <3>1. Socks \in Layouts
      BY <1>1 DEF TypeOK
    <3>2. Socks \subseteq Tcp \cup Uds
      BY <3>1, GenerationsAssumption
    <3> QED
      BY <2>2, <3>2
  <2>4. pred[r] # q
    BY <1>1, <2>1, <2>3, Numbers DEF Workers, Handover
  <2>5. pred[q] # r
    BY SMTT(20), <1>1, Numbers DEF Lineage
  <2> QED
    BY <2>3, <2>4, <2>5
<1>2. Inv => OneAcceptor
  <2> SUFFICES ASSUME Inv, NEW r \in Epochs, NEW q \in Epochs, NEW s \in Socks,
                      Armed(r, s), Armed(q, s), r # q, ~grace
               PROVE  s \in Uds /\ pred[q] # r /\ pred[r] # q
    BY DEF OneAcceptor
  <2>1. q < r \/ r < q
    BY SMTT(20), Numbers
  <2> QED
    BY <1>1, <2>1
<1> QED
  BY <1>2, InvHolds, PTL

\* AcceptRetirement::transfer and the queues it feeds: while the process runs
\* and no drain bound expires, a connection that the kernel accepted for a
\* retiring worker is handed on, however many publications follow one another.
THEOREM Connections == Spec => []NoConnectionCut
<1>1. Inv => NoConnectionCut
  BY DEF Inv, Queued, Held, NoConnectionCut
<1> QED
  BY <1>1, InvHolds, PTL

\* publish_inner and ResourceSlots: outside of a publication the server state,
\* the transport, the QUIC policy and the health checks are of one
\* transaction, and no activated worker is without an owner that joins it.
THEOREM Publication == Spec => []PublishedTogether
<1>1. Inv => PublishedTogether
  BY SMTT(20), Numbers DEF Inv, Control, Together, Lineage, Owners, PublishedTogether
<1> QED
  BY <1>1, InvHolds, PTL

=============================================================================
