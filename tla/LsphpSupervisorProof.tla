----------------------- MODULE LsphpSupervisorProof -----------------------
(***************************************************************************)
(* Proofs about LsphpSupervisor for any number of crashed masters, wedged  *)
(* workers, failed spawns, dropped futures and reloads: no process family  *)
(* is ever without an owner, a transaction leaves a settled supervisor     *)
(* however it ends, and a reload keeps an acceptor on the socket.          *)
(***************************************************************************)
EXTENDS LsphpSupervisor, SequenceTheorems, TLAPS

\* Leaves are set and function reasoning; one that needs more says SMTT.
USE ZenonT(30)

---------------------------------------------------------------------------
(* The inductive invariant.  Its parts are operators of the supervisor's   *)
(* state, so that one lemma about how a transaction ends serves them all.  *)

\* What the state says when no transaction is changing it.
Quiet(in) ==
    /\ in.state \in {"NotStarted", "Good", "Bad"}
    /\ in.state = "Good" <=> in.child # None

\* What a dropped transaction restores agrees with the child it leaves.
RestoresTruth(in, o) ==
    /\ o.restore \in {"NotStarted", "Good", "Bad"}
    /\ o.restore = "Good" <=> in.child # None

Holds(o, cand, old, guard) == o.cand = cand /\ o.old = old /\ o.guard = guard

\* What start_locked, drain_inner_locked and hot_reload_locked hold at each await.
StartShape(in, o) ==
    /\ o.pc \in {"clean", "spawn", "ready"} /\ in.child = None
    /\ o.old = None /\ o.guard = None /\ RestoresTruth(in, o)
    /\ o.cand = None <=> o.pc # "ready"

DrainShape(in, o) ==
    /\ o.cand = None /\ RestoresTruth(in, o) /\ o.guard = o.old
    /\ \/ o.pc = "clean" /\ o.old = None
       \/ o.pc \in {"quiesce", "stopped", "grace", "force"} /\ o.old # None /\ in.child = None

HotShape(in, o) ==
    \/ /\ o.pc = "clean" /\ Quiet(in) /\ Holds(o, None, None, None) /\ o.restore = "disarmed"
    \/ /\ o.pc \in {"spawn", "ready", "quiesce", "stopped"} /\ in.child # None
       /\ o.old = in.child /\ o.guard = None /\ RestoresTruth(in, o)
       /\ o.cand = None <=> o.pc = "spawn"
    \/ /\ o.pc \in {"grace", "force"} /\ Quiet(in) /\ in.child # None /\ o.restore = "disarmed"
       /\ o.cand = None /\ o.old # None /\ o.guard = o.old /\ o.old # in.child

Shape(src, in, o) ==
    /\ in.child_marker = in.child
    /\ o.pc = "free" => o = NoOp
    /\ o.pc # "free" => o.kind # "none"
    /\ o.phase = "none" <=> o.pc \in {"free", "backoff"}
    /\ o.phase = "none" => Quiet(in) /\ Holds(o, None, None, None) /\ o.restore = "disarmed"
    /\ o.phase = "start" => StartShape(in, o)
    /\ o.phase = "drain" => DrainShape(in, o)
    /\ o.phase = "hot" => src = "Inherited" /\ HotShape(in, o)

\* Markers are handed out in order, and nothing has happened to a later one.
Numbered(in, o, f, n) ==
    /\ \A m \in Families : m >= n => f[m].procs = {} /\ ~f[m].stopped /\ ~f[m].retiring
    /\ in.child < n /\ o.cand < n /\ o.old < n /\ o.guard < n
    /\ \A m \in in.retired_markers : m < n

\* Neither the serving family nor a candidate is queued for cleanup.
Apart(in, o) ==
    /\ in.child \notin in.retired_markers
    /\ o.cand # None => o.cand \notin in.retired_markers \cup {in.child, o.old}

\* A master that did not die by itself is there.
Lives(f, m) == ~f[m].retiring /\ ("master" \in f[m].procs \/ f[m].crashed)

Healthy(in, o, f) ==
    /\ in.child # None => Lives(f, in.child)
    /\ o.cand # None => Lives(f, o.cand)
    /\ \A m \in Families : f[m].stopped => (m = o.old /\ o.pc = "stopped")

Owned(in, o, f) ==
    \A m \in Families : f[m].procs # {} => m \in {in.child, o.cand, o.guard} \cup in.retired_markers

World(src, in, o, f, n) ==
    Shape(src, in, o) /\ Numbered(in, o, f, n) /\ Apart(in, o) /\ Healthy(in, o, f)

\* While a family serves, the pool and the announcement stand for it.
PoolOK ==
    /\ poolGen <= inner.generation
    /\ inner.child # None => (poolGen = inner.generation /\ published \in {inner.child, Retired})

BoundOK == (source = "Bind" /\ (inner.child # None \/ op.pc = "ready")) => bound

\* The first start is alone with the lock: the monitor starts after it.
QueueOK ==
    /\ ticker.pc = "off" =>
         /\ inner.child = None
         /\ \/ op = NoOp /\ queue \in {<<>>, <<"start">>}
            \/ op.kind = "start" /\ queue = <<>>
    /\ ticker.pc # "off" => (op.kind # "start" /\ queue \in Seq(Kinds \ {"start"}))

ExitOK ==
    stop = "exited" =>
        /\ op = NoOp /\ queue = <<>> /\ ticker.pc = "done" /\ inner.child = None
        /\ \A m \in Families : Gone(fam, m) \/ fam[m].wedged

Inv ==
    /\ TypeOK /\ World(source, inner, op, fam, next)
    /\ stop # "exited" => Owned(inner, op, fam)
    /\ PoolOK /\ BoundOK /\ QueueOK /\ ExitOK

---------------------------------------------------------------------------
(* Names and shapes.                                                       *)

LEMMA Names ==
    /\ Families \subseteq Nat \ {0} /\ None = 0 /\ None \notin Families
    /\ Marks \subseteq Nat /\ Retired \notin Marks
BY SMTT(20), SupervisorAssumption DEF Families, MaxSpawns, None, Marks, Retired

LEMMA NoOpFacts ==
    /\ NoOp \in Transactions
    /\ NoOp.kind = "none" /\ NoOp.pc = "free" /\ NoOp.phase = "none" /\ NoOp.restore = "disarmed"
    /\ NoOp.cand = None /\ NoOp.old = None /\ NoOp.guard = None
BY DEF NoOp, Transactions, Marks

\* The processes of g are those of f, or fewer; nobody is stopped who was not.
Fewer(f, g) ==
    \A m \in Families :
        /\ g[m].procs \subseteq f[m].procs /\ (g[m].stopped => f[m].stopped)
        /\ g[m].retiring = f[m].retiring /\ g[m].wedged = f[m].wedged /\ g[m].crashed = f[m].crashed

LEMMA KilledFacts ==
    ASSUME NEW f \in [Families -> Family], NEW m \in Marks
    PROVE  /\ Killed(f, m) \in [Families -> Family] /\ Fewer(f, Killed(f, m))
           /\ \A k \in Families \ {m} : Killed(f, m)[k] = f[k]
           /\ m # None => /\ Gone(Killed(f, m), m) \/ f[m].wedged
                          /\ ~Killed(f, m)[m].stopped
BY Names DEF Killed, Fewer, Family, Marks, Gone

LEMMA ResumedFacts ==
    ASSUME NEW f \in [Families -> Family], NEW m \in Marks
    PROVE  /\ Resumed(f, m) \in [Families -> Family] /\ Fewer(f, Resumed(f, m))
           /\ \A k \in Families : Resumed(f, m)[k].procs = f[k].procs
           /\ \A k \in Families : Resumed(f, m)[k].stopped => k # m
BY Names DEF Resumed, Fewer, Family, Marks

LEMMA ChildDroppedFacts ==
    ASSUME NEW f \in [Families -> Family], NEW m \in Marks
    PROVE  /\ ChildDropped(f, m) \in [Families -> Family] /\ Fewer(f, ChildDropped(f, m))
           /\ \A k \in Families \ {m} : ChildDropped(f, m)[k] = f[k]
BY SMTT(20), Names DEF ChildDropped, Fewer, Family, Marks

LEMMA UnwoundProcsFacts ==
    ASSUME NEW f \in [Families -> Family], NEW o \in Transactions
    PROVE  /\ UnwoundProcs(f, o) \in [Families -> Family] /\ Fewer(f, UnwoundProcs(f, o))
           /\ \A k \in Families \ {o.cand, o.guard} : UnwoundProcs(f, o)[k].procs = f[k].procs
           /\ \A k \in Families : UnwoundProcs(f, o)[k].stopped => k # o.old
<1> DEFINE g == Resumed(f, o.old)
           h == ChildDropped(g, o.cand)
<1>0. o.old \in Marks /\ o.cand \in Marks /\ o.guard \in Marks
    BY DEF Transactions
<1>1. /\ g \in [Families -> Family] /\ Fewer(f, g)
      /\ \A k \in Families : g[k].procs = f[k].procs /\ (g[k].stopped => k # o.old)
    BY SMTT(20), <1>0, ResumedFacts
<1>2. /\ h \in [Families -> Family] /\ Fewer(g, h) /\ \A k \in Families \ {o.cand} : h[k] = g[k]
    BY <1>0, <1>1, ChildDroppedFacts
<1> HIDE DEF g, h
<1> DEFINE i == ChildDropped(h, o.guard)
<1>3. /\ i \in [Families -> Family] /\ Fewer(h, i) /\ \A k \in Families \ {o.guard} : i[k] = h[k]
    BY <1>0, <1>2, ChildDroppedFacts
<1>4. UnwoundProcs(f, o) = i
    BY DEF UnwoundProcs, g, h
<1> HIDE DEF i
<1>5. Fewer(f, i)
    BY SMTT(20), <1>1, <1>2, <1>3 DEF Fewer
<1>6. \A k \in Families \ {o.cand, o.guard} : i[k].procs = f[k].procs
    BY SMTT(20), <1>1, <1>2, <1>3
<1>7. \A k \in Families : i[k].stopped => k # o.old
    BY <1>1, <1>2, <1>3 DEF Fewer
<1> QED BY <1>3, <1>4, <1>5, <1>6, <1>7

---------------------------------------------------------------------------
(* How a transaction ends.                                                 *)

LEMMA AccountedFacts ==
    ASSUME NEW in \in Inner, NEW ok \in BOOLEAN
    PROVE  /\ Accounted(in, ok) \in Inner
           /\ Accounted(in, ok).child = in.child /\ Accounted(in, ok).child_marker = in.child_marker
           /\ Accounted(in, ok).retired_markers = in.retired_markers
           /\ Accounted(in, ok).generation = in.generation
           /\ Quiet(in) => Quiet(Accounted(in, ok))
BY DEF Accounted, Inner, Quiet, WorkerState

LEMMA UnwoundFacts ==
    ASSUME NEW in \in Inner, NEW o \in Transactions
    PROVE  /\ Unwound(in, o) \in Inner
           /\ Unwound(in, o).child = in.child /\ Unwound(in, o).child_marker = in.child_marker
           /\ Unwound(in, o).retired_markers = in.retired_markers \cup ({o.cand, o.guard} \ {None})
           /\ Unwound(in, o).generation = in.generation
           /\ Unwound(in, o).state = IF o.restore = "disarmed" THEN in.state ELSE o.restore
BY DEF Unwound, Inner, Transactions, Marks

\* What the end of a transaction leaves the rest of the supervisor.
Ends(in) ==
    /\ inner' \in Inner /\ fam' \in [Families -> Family] /\ op' = NoOp /\ ticker' \in Tickers
    /\ stop' \in {"run", "retired", "join", "drain", "stopped"}
    /\ inner'.child = in.child /\ inner'.generation = in.generation
    /\ World(source', inner', op', fam', next') /\ Owned(inner', op', fam')
    /\ QueueOK' /\ ExitOK'

LEMMA ReturnEnds ==
    ASSUME Inv, op.pc # "free",
           NEW in \in Inner, NEW f \in [Families -> Family], NEW ok \in BOOLEAN, Return(in, f, ok),
           UNCHANGED <<source, next, queue>>,
           in.child_marker = in.child, Quiet(in), Numbered(in, NoOp, f, next),
           Apart(in, NoOp), Healthy(in, NoOp, f), Owned(in, NoOp, f),
           ok \/ op.kind # "start" \/ in.child = None
    PROVE  Ends(in)
<1> USE NoOpFacts
<1> DEFINE out == Accounted(in, ok)
<1>1. inner' = out /\ fam' = f /\ op' = NoOp
    BY DEF Return
<1>2. /\ out \in Inner /\ out.child = in.child /\ out.child_marker = in.child_marker
      /\ out.retired_markers = in.retired_markers /\ out.generation = in.generation /\ Quiet(out)
    BY AccountedFacts
<1> HIDE DEF out
<1>3. op # NoOp /\ op.kind \in Kinds /\ ticker \in Tickers
    BY DEF Inv, TypeOK, World, Shape, Transactions
<1>4. stop \in {"run", "retired", "join", "drain", "stopped"} /\ stop' \in {"run", "retired", "join", "drain", "stopped"}
    BY <1>3 DEF Inv, TypeOK, ExitOK, Return
<1>5. ticker' \in Tickers
    BY <1>3 DEF Return, Tickers
<1>6. World(source', inner', op', fam', next') /\ Owned(inner', op', fam')
    <2>1. Shape(source', inner', op')
        BY <1>1, <1>2 DEF Shape, Holds
    <2>2. Numbered(inner', op', fam', next')
        BY <1>1, <1>2 DEF Numbered
    <2>3. Apart(inner', op') /\ Healthy(inner', op', fam') /\ Owned(inner', op', fam')
        BY <1>1, <1>2 DEF Apart, Healthy, Owned
    <2> QED BY <2>1, <2>2, <2>3 DEF World
<1>7. QueueOK'
    <2>1. CASE ticker.pc = "off"
        <3>1. op.kind = "start" /\ queue = <<>>
            BY <2>1, <1>3 DEF Inv, QueueOK
        <3>2. CASE ok
            <4>1. ticker'.pc = "after"
                BY <3>1, <3>2 DEF Return
            <4> QED BY SMTT(20), <3>1, <4>1, <1>1 DEF QueueOK, Kinds
        <3>3. CASE ~ok
            <4>1. ticker' = ticker
                BY <3>1, <3>3 DEF Return
            <4> QED BY <3>1, <3>3, <4>1, <1>1, <1>2, <2>1 DEF QueueOK
        <3> QED BY <3>2, <3>3
    <2>2. CASE ticker.pc # "off"
        <3>1. op.kind # "start" /\ queue \in Seq(Kinds \ {"start"})
            BY <2>2 DEF Inv, QueueOK
        <3>2. ticker'.pc # "off"
            BY <2>2, <3>1 DEF Return
        <3> QED BY <3>1, <3>2, <1>1 DEF QueueOK
    <2> QED BY <2>1, <2>2
<1> QED BY <1>1, <1>2, <1>4, <1>5, <1>6, <1>7 DEF Ends, ExitOK

LEMMA GuardApart ==
    ASSUME Inv
    PROVE  op.guard # None => op.guard # inner.child
BY DEF Inv, TypeOK, World, Shape, StartShape, DrainShape, HotShape, Holds, Transactions

\* The error paths and the dropped futures: what the guards put back is settled.
LEMMA FailEnds ==
    ASSUME Inv, op.pc # "free",
           NEW in \in Inner, NEW o \in Transactions, NEW f \in [Families -> Family], Fail(in, o, f),
           UNCHANGED <<source, next, queue>>,
           in.child = inner.child, in.child_marker = inner.child_marker,
           in.retired_markers = inner.retired_markers,
           o.old = op.old, o.guard = op.guard, o.cand \in {op.cand, None},
           Fewer(fam, f), inner.child # None => f[inner.child].procs = fam[inner.child].procs,
           o.cand # op.cand => f[op.cand].procs = {},
           Quiet(Unwound(in, o))
    PROVE  Ends(in)
<1> DEFINE out == Unwound(in, o)
           g == UnwoundProcs(f, o)
<1> USE NoOpFacts, Names
<1>1. /\ out \in Inner /\ out.child = inner.child /\ out.child_marker = inner.child_marker
      /\ out.retired_markers = inner.retired_markers \cup ({o.cand, o.guard} \ {None})
      /\ out.generation = in.generation /\ Quiet(out)
    BY SMTT(20), UnwoundFacts
<1>2. /\ g \in [Families -> Family] /\ Fewer(f, g)
      /\ \A k \in Families \ {o.cand, o.guard} : g[k].procs = f[k].procs
      /\ \A k \in Families : g[k].stopped => k # o.old
    BY UnwoundProcsFacts
<1>3. Return(out, g, FALSE)
    BY DEF Fail
<1> HIDE DEF out, g
<1>4. Fewer(fam, g)
    BY SMTT(20), <1>2 DEF Fewer
<1>5. /\ inner.child \in Marks /\ op.cand \in Marks /\ op.guard \in Marks /\ op.old \in Marks
      /\ inner \in Inner /\ fam \in [Families -> Family] /\ inner.child_marker = inner.child /\ next \in Nat \ {0}
    BY DEF Inv, TypeOK, Transactions, Inner, World, Shape
<1>6. Numbered(out, NoOp, g, next)
    <2>1. \A m \in Families : m >= next => g[m].procs = {} /\ ~g[m].stopped /\ ~g[m].retiring
        BY <1>4 DEF Fewer, Inv, World, Numbered
    <2>2. \A m \in out.retired_markers : m < next
        BY SMTT(20), <1>1 DEF Inv, World, Numbered
    <2>3. out.child < next /\ 0 < next
        BY SMTT(20), <1>1, <1>5 DEF Inv, World, Numbered
    <2> QED BY <2>1, <2>2, <2>3 DEF Numbered
<1>7. Apart(out, NoOp)
    BY <1>1, <1>5, GuardApart DEF Apart, Inv, World, Marks
<1>8. Healthy(out, NoOp, g)
    <2>1. \A m \in Families : ~g[m].stopped
        BY SMTT(20), <1>2, <1>4 DEF Fewer, Inv, World, Healthy
    <2>2. ASSUME out.child # None PROVE Lives(g, out.child)
        <3>1. inner.child \in Families /\ Lives(fam, inner.child)
            BY <2>2, <1>1, <1>5 DEF Inv, World, Healthy, Marks
        <3>2. inner.child \notin {o.cand, o.guard}
            BY <3>1, GuardApart DEF Inv, World, Apart
        <3>3. g[inner.child].procs = fam[inner.child].procs
            BY <3>1, <3>2, <1>2
        <3>4. g[inner.child].retiring = fam[inner.child].retiring /\ g[inner.child].crashed = fam[inner.child].crashed
            BY <3>1, <1>4 DEF Fewer
        <3> QED BY Zenon, <3>1, <3>3, <3>4, <1>1 DEF Lives
    <2> QED BY <2>1, <2>2 DEF Healthy
<1>9. Owned(out, NoOp, g)
    <2> SUFFICES ASSUME NEW m \in Families, g[m].procs # {}
                 PROVE  m \in {out.child} \cup out.retired_markers
        BY DEF Owned
    <2>1. fam[m].procs # {} /\ f[m].procs # {}
        BY <1>2, <1>4 DEF Fewer
    <2>2. stop # "exited"
        BY DEF Inv, ExitOK
    <2>3. m \in {inner.child, op.cand, op.guard} \cup inner.retired_markers
        BY <2>1, <2>2 DEF Inv, Owned
    <2> QED BY <2>1, <2>3, <1>1
<1>10. op.kind # "start" \/ out.child = None
    BY <1>1 DEF Inv, QueueOK
<1>11. Ends(out)
    BY ReturnEnds, <1>1, <1>2, <1>3, <1>5, <1>6, <1>7, <1>8, <1>9, <1>10
<1> QED BY <1>11, <1>1 DEF Ends

---------------------------------------------------------------------------
(* The processes by themselves.                                            *)

\* Processes only go, and nobody is asked to retire or stopped.
Dwindles(f, g) ==
    \A m \in Families :
        /\ g[m].procs \subseteq f[m].procs /\ (g[m].stopped => f[m].stopped)
        /\ (g[m].retiring => f[m].retiring) /\ (f[m].wedged => g[m].wedged)

LEMMA ProcessesInv ==
    ASSUME Inv, UNCHANGED <<source, inner, bound, next, op, queue, monVars, pubVars, cancel, stop>>,
           fam' \in [Families -> Family], left' \in Nat, Dwindles(fam, fam'),
           \A m \in Families : Lives(fam, m) /\ m \in {inner.child, op.cand} => Lives(fam', m)
    PROVE  Inv'
<1> USE Names
<1>1. TypeOK'
    BY DEF Inv, TypeOK, monVars, pubVars
<1>2. Shape(source', inner', op') /\ Apart(inner', op')
    BY DEF Inv, World
<1>3. Numbered(inner', op', fam', next')
    BY DEF Inv, World, Numbered, Dwindles
<1>4. Healthy(inner', op', fam')
    BY DEF Inv, World, Healthy, Dwindles, TypeOK, Inner, Transactions, Marks
<1>5. stop' # "exited" => Owned(inner', op', fam')
    BY DEF Inv, Owned, Dwindles
<1>6. PoolOK' /\ BoundOK' /\ QueueOK'
    BY DEF Inv, PoolOK, BoundOK, QueueOK, monVars, pubVars
<1>7. ExitOK'
    BY DEF Inv, ExitOK, Gone, Dwindles, monVars
<1> QED BY <1>1, <1>2, <1>3, <1>4, <1>5, <1>6, <1>7 DEF Inv, World

LEMMA CrashInv ==
    ASSUME Inv, NEW m \in Families, Crash(m)
    PROVE  Inv'
<1>1. fam \in [Families -> Family] /\ left \in Nat
    BY DEF Inv, TypeOK
<1>2. left' \in Nat
    BY SMTT(20), <1>1 DEF Crash, Spend
<1>4. fam' \in [Families -> Family]
    <2>1. fam[m] \in Family /\ fam[m].procs \ {"master"} \in SUBSET {"master", "worker"}
        BY <1>1 DEF Family
    <2>2. [fam[m] EXCEPT !.procs = fam[m].procs \ {"master"}, !.crashed = TRUE] \in Family
        BY <2>1 DEF Family
    <2>3. fam' = [fam EXCEPT ![m] = [fam[m] EXCEPT !.procs = fam[m].procs \ {"master"}, !.crashed = TRUE]]
        BY <1>1 DEF Crash
    <2> QED BY <1>1, <2>2, <2>3
<1>5. Dwindles(fam, fam')
    BY SMTT(20), <1>1 DEF Crash, Family, Dwindles
<1>3. \A k \in Families : Lives(fam, k) => Lives(fam', k)
    BY SMTT(20), <1>1 DEF Crash, Family, Lives
<1> QED BY <1>2, <1>3, <1>4, <1>5, ProcessesInv DEF Crash

LEMMA WedgeInv ==
    ASSUME Inv, NEW m \in Families, Wedge(m)
    PROVE  Inv'
<1>1. fam \in [Families -> Family] /\ left \in Nat
    BY DEF Inv, TypeOK
<1>2. left' \in Nat
    BY SMTT(20), <1>1 DEF Wedge, Spend
<1>4. fam' \in [Families -> Family]
    BY <1>1 DEF Wedge, Family
<1>5. Dwindles(fam, fam')
    BY <1>1 DEF Wedge, Family, Dwindles
<1>3. \A k \in Families : Lives(fam, k) => Lives(fam', k)
    BY <1>1 DEF Wedge, Family, Lives
<1> QED BY <1>2, <1>3, <1>4, <1>5, ProcessesInv DEF Wedge

\* Only families that were told to go exit by themselves.
LEMMA FamilyExitsInv ==
    ASSUME Inv, NEW m \in Families, FamilyExits(m)
    PROVE  Inv'
<1>1. fam \in [Families -> Family] /\ left \in Nat /\ m \in Marks
    BY DEF Inv, TypeOK, Marks
<1>2. fam' \in [Families -> Family] /\ Fewer(fam, fam') /\ \A k \in Families \ {m} : fam'[k] = fam[k]
    BY <1>1, KilledFacts DEF FamilyExits
<1>3. Dwindles(fam, fam')
    BY <1>2 DEF Fewer, Dwindles
<1>4. \A k \in Families : Lives(fam, k) => Lives(fam', k)
    BY <1>2 DEF FamilyExits, Lives
<1> QED BY <1>1, <1>2, <1>3, <1>4, ProcessesInv DEF FamilyExits

---------------------------------------------------------------------------
(* The clock, the requests and the monitor.                                *)

\* A step that leaves the families and what is known of them alone.
LEMMA Outside ==
    ASSUME Inv, UNCHANGED <<source, inner, bound, fam, next, op>>
    PROVE  /\ World(source', inner', op', fam', next') /\ BoundOK'
           /\ stop # "exited" => Owned(inner', op', fam')
BY DEF Inv, World, BoundOK, Owned

LEMMA WindowOverInv == Inv /\ WindowOver => Inv'
<1> SUFFICES ASSUME Inv, WindowOver PROVE Inv'
    OBVIOUS
<1>1. /\ inner' \in Inner /\ inner'.child = inner.child /\ inner'.child_marker = inner.child_marker
      /\ inner'.retired_markers = inner.retired_markers /\ inner'.generation = inner.generation
      /\ inner'.state = inner.state
    BY DEF WindowOver, Inv, TypeOK, Inner
<1>2. UNCHANGED <<source, bound, fam, next, op, queue, ticker, nudge, hung, watched, poolGen, published, cancel, stop, left>>
    BY DEF WindowOver, procVars, monVars, pubVars
<1>3. TypeOK'
    BY <1>1, <1>2 DEF Inv, TypeOK
<1>4. Shape(source', inner', op')
    BY SMTT(20), <1>1, <1>2 DEF Inv, World, Shape, StartShape, DrainShape, HotShape, Quiet, RestoresTruth
<1>5. Numbered(inner', op', fam', next') /\ Apart(inner', op') /\ Healthy(inner', op', fam')
    BY <1>1, <1>2 DEF Inv, World, Numbered, Apart, Healthy
<1>6. stop' # "exited" => Owned(inner', op', fam')
    BY <1>1, <1>2 DEF Inv, Owned
<1>7. PoolOK' /\ BoundOK' /\ QueueOK' /\ ExitOK'
    BY <1>1, <1>2 DEF Inv, PoolOK, BoundOK, QueueOK, ExitOK, Gone
<1> QED BY <1>3, <1>4, <1>5, <1>6, <1>7 DEF Inv, World

LEMMA RequestsInv == Inv /\ (RequestRestart \/ Hang) => Inv'
<1> SUFFICES ASSUME Inv, RequestRestart \/ Hang PROVE Inv'
    OBVIOUS
<1>1. /\ UNCHANGED <<source, inner, bound, fam, next, op, queue, ticker, watched, poolGen, published, cancel, stop>>
      /\ nudge' \in BOOLEAN /\ hung' \in BOOLEAN
    BY DEF RequestRestart, Hang, procVars, pubVars, Inv, TypeOK
<1>4. left' \in Nat
    BY SMTT(20) DEF RequestRestart, Hang, Spend, Inv, TypeOK
<1>2. TypeOK'
    BY <1>1, <1>4 DEF Inv, TypeOK
<1>3. PoolOK' /\ QueueOK' /\ ExitOK'
    BY <1>1 DEF Inv, PoolOK, QueueOK, ExitOK, Gone
<1> QED BY <1>1, <1>2, <1>3, Outside DEF Inv

\* A new waiter for the lock, other than the first start.
LEMMA EnqueueKeeps ==
    ASSUME Inv, NEW kind \in Kinds \ {"start"}, Enqueue(kind), UNCHANGED op,
           ticker.pc # "off", ticker'.pc # "off"
    PROVE  QueueOK' /\ queue' \in Seq(Kinds)
<1>1. queue \in Seq(Kinds \ {"start"}) /\ queue \in Seq(Kinds) /\ op.kind # "start"
    BY DEF Inv, TypeOK, QueueOK
<1>2. queue' \in Seq(Kinds \ {"start"})
    BY SMTT(20), <1>1 DEF Enqueue
<1>3. queue' \in Seq(Kinds)
    BY SMTT(20), <1>1 DEF Enqueue
<1> QED BY <1>1, <1>2, <1>3 DEF QueueOK

LEMMA TickerStopsInv == Inv /\ TickerStops => Inv'
<1> SUFFICES ASSUME Inv, TickerStops PROVE Inv'
    OBVIOUS
<1>1. /\ UNCHANGED <<source, inner, bound, fam, next, op, queue, nudge, hung, watched, poolGen, published, cancel, stop, left>>
      /\ ticker' \in Tickers /\ ticker'.pc = "done" /\ ticker.pc # "off"
    BY DEF TickerStops, procVars, pubVars, Inv, TypeOK, Tickers
<1>2. TypeOK'
    BY <1>1 DEF Inv, TypeOK
<1>3. PoolOK' /\ QueueOK' /\ ExitOK'
    BY <1>1 DEF Inv, PoolOK, QueueOK, ExitOK, Gone
<1> QED BY <1>1, <1>2, <1>3, Outside DEF Inv

LEMMA TickerNudgedInv == Inv /\ TickerNudged => Inv'
<1> SUFFICES ASSUME Inv, TickerNudged PROVE Inv'
    OBVIOUS
<1>1. /\ UNCHANGED <<source, inner, bound, fam, next, op, hung, watched, poolGen, published, cancel, stop, left>>
      /\ ticker' \in Tickers /\ ticker'.pc = "waiting" /\ ticker.pc = "select" /\ nudge' \in BOOLEAN
      /\ Enqueue("restart_debounced")
    BY DEF TickerNudged, Await, procVars, pubVars, Inv, TypeOK, Tickers
<1>2. QueueOK' /\ queue' \in Seq(Kinds)
    BY <1>1, EnqueueKeeps DEF Kinds
<1>3. TypeOK'
    BY <1>1, <1>2 DEF Inv, TypeOK
<1>4. PoolOK' /\ ExitOK'
    BY <1>1 DEF Inv, PoolOK, ExitOK
<1> QED BY <1>1, <1>2, <1>3, <1>4, Outside DEF Inv

LEMMA ReloadInv == Inv /\ Reload => Inv'
<1> SUFFICES ASSUME Inv, Reload PROVE Inv'
    OBVIOUS
<1>1. /\ UNCHANGED <<source, inner, bound, fam, next, op, ticker, nudge, hung, watched, poolGen, published, cancel, stop>>
      /\ ticker.pc # "off" /\ stop = "run" /\ Enqueue("hot_reload") /\ left' \in Nat
    BY SMTT(20) DEF Reload, Spend, procVars, monVars, pubVars, Inv, TypeOK
<1>2. QueueOK' /\ queue' \in Seq(Kinds)
    BY <1>1, EnqueueKeeps DEF Kinds
<1>3. TypeOK'
    BY <1>1, <1>2 DEF Inv, TypeOK
<1>4. PoolOK' /\ ExitOK'
    BY <1>1 DEF Inv, PoolOK, ExitOK
<1> QED BY <1>1, <1>2, <1>3, <1>4, Outside DEF Inv

LEMMA TickerAfterInv == Inv /\ TickerAfter => Inv'
<1> SUFFICES ASSUME Inv, TickerAfter PROVE Inv'
    OBVIOUS
<1>1. /\ UNCHANGED <<source, inner, bound, fam, next, op, queue, nudge, published, cancel, stop, left>>
      /\ ticker' \in Tickers /\ ticker'.pc = "select" /\ ticker.pc = "after"
      /\ poolGen' \in {poolGen, inner.generation} /\ hung' \in BOOLEAN /\ watched' \in WorkerState
    BY DEF TickerAfter, procVars, Inv, TypeOK, Tickers, Inner
<1>2. inner.generation \in Nat /\ poolGen \in Nat
    BY DEF Inv, TypeOK, Inner
<1>3. TypeOK'
    BY <1>1, <1>2 DEF Inv, TypeOK
<1>4. PoolOK' /\ QueueOK' /\ ExitOK'
    BY SMTT(20), <1>1, <1>2 DEF Inv, PoolOK, QueueOK, ExitOK
<1> QED BY <1>1, <1>3, <1>4, Outside DEF Inv

LEMMA StoppingInv == Inv /\ (StopRetires \/ StopCancels \/ StopJoins) => Inv'
<1> SUFFICES ASSUME Inv, StopRetires \/ StopCancels \/ StopJoins PROVE Inv'
    OBVIOUS
<1>1. /\ UNCHANGED <<source, inner, bound, fam, next, op, ticker, nudge, hung, watched, poolGen, left>>
      /\ stop # "exited" /\ stop' \in {"retired", "join", "drain"} /\ cancel' \in BOOLEAN
      /\ published' \in {published, Retired}
      /\ queue' = queue \/ (Enqueue("drain_graceful") /\ ticker.pc # "off")
    BY DEF StopRetires, StopCancels, StopJoins, procVars, monVars, pubVars, Inv, TypeOK
<1>2. QueueOK' /\ queue' \in Seq(Kinds)
    <2>1. CASE queue' = queue
        BY <2>1, <1>1 DEF Inv, TypeOK, QueueOK
    <2>2. CASE Enqueue("drain_graceful") /\ ticker.pc # "off"
        BY <2>2, <1>1, EnqueueKeeps DEF Kinds
    <2> QED BY <2>1, <2>2, <1>1
<1>3. TypeOK'
    BY <1>1, <1>2 DEF Inv, TypeOK
<1>4. PoolOK' /\ ExitOK'
    BY <1>1 DEF Inv, PoolOK, ExitOK
<1> QED BY <1>1, <1>2, <1>3, <1>4, Outside DEF Inv

\* The liveness poll takes a dead child out only when nobody holds the lock.
LEMMA TickInv == Inv /\ Tick => Inv'
<1> SUFFICES ASSUME Inv, Tick PROVE Inv'
    OBVIOUS
<1> USE Names
<1>1. /\ UNCHANGED <<source, bound, fam, next, op, nudge, hung, poolGen, published, cancel, stop, left>>
      /\ ticker.pc = "select" /\ inner' = Polled /\ watched' = inner'.state
    BY DEF Tick, procVars, pubVars
<1>2. /\ inner' \in Inner /\ inner'.generation = inner.generation
      /\ \/ inner' = inner
         \/ /\ op = NoOp /\ inner'.child = None /\ inner'.child_marker = None /\ inner'.state = "NotStarted"
            /\ inner.child # None /\ inner'.retired_markers = inner.retired_markers \cup {inner.child}
    <2>1. inner \in Inner /\ inner.child_marker = inner.child
        BY DEF Inv, TypeOK, World, Shape
    <2>2. CASE MasterDied
        BY <1>1, <2>1, <2>2 DEF Polled, MasterDied, Unlocked, Inner, Marks, WorkerState
    <2>3. CASE ~MasterDied
        BY <1>1, <2>1, <2>3 DEF Polled
    <2> QED BY <2>2, <2>3
<1>3. /\ ticker' \in Tickers /\ ticker'.pc \in {"select", "waiting"}
      /\ queue' = queue \/ \E kind \in Kinds \ {"start"} : Enqueue(kind)
    BY SMTT(20), <1>1 DEF Tick, Await, Inv, TypeOK, Tickers, Kinds
<1>4. QueueOK' /\ queue' \in Seq(Kinds)
    <2>1. CASE queue' = queue
        BY <2>1, <1>1, <1>3 DEF Inv, TypeOK, QueueOK
    <2>2. CASE \E kind \in Kinds \ {"start"} : Enqueue(kind)
        BY <2>2, <1>1, <1>3, EnqueueKeeps
    <2> QED BY <2>1, <2>2, <1>3
<1>5. TypeOK'
    BY <1>1, <1>2, <1>3, <1>4 DEF Inv, TypeOK, Inner
<1>6. stop # "exited"
    BY <1>1 DEF Inv, ExitOK
<1>7. PoolOK' /\ BoundOK' /\ ExitOK'
    BY <1>1, <1>2, <1>6 DEF Inv, PoolOK, BoundOK, ExitOK
<1>8. World(source', inner', op', fam', next') /\ Owned(inner', op', fam')
    <2>1. CASE inner' = inner
        BY <2>1, <1>1, <1>6 DEF Inv
    <2>2. CASE /\ op = NoOp /\ inner'.child = None /\ inner'.child_marker = None /\ inner'.state = "NotStarted"
               /\ inner.child # None /\ inner'.retired_markers = inner.retired_markers \cup {inner.child}
        <3>1. Shape(source', inner', op')
            BY <2>2, <1>1, NoOpFacts DEF Shape, Quiet, Holds
        <3>2. next \in Nat \ {0} /\ inner.retired_markers \subseteq Families
            BY DEF Inv, TypeOK, Inner
        <3>3. Numbered(inner', op', fam', next')
            <4>1. 0 < next
                BY SMTT(20), <3>2
            <4>2. Numbered(inner, op, fam, next)
                BY DEF Inv, World
            <4> QED BY <2>2, <1>1, <4>1, <4>2 DEF Numbered
        <3>4. Apart(inner', op')
            BY <2>2, <1>1, <3>2, NoOpFacts DEF Apart
        <3>5. Healthy(inner', op', fam')
            BY <2>2, <1>1, NoOpFacts DEF Inv, World, Healthy
        <3>6. Owned(inner', op', fam')
            BY <2>2, <1>1, <1>6 DEF Inv, Owned
        <3> QED BY <3>1, <3>3, <3>4, <3>5, <3>6 DEF World
    <2> QED BY <2>1, <2>2, <1>2
<1> QED BY <1>4, <1>5, <1>7, <1>8 DEF Inv

---------------------------------------------------------------------------
(* The drop of the supervisor: whoever is still owned is killed.           *)

LEMMA ExitInv == Inv /\ Exit => Inv'
<1> SUFFICES ASSUME Inv, Exit PROVE Inv'
    OBVIOUS
<1> USE Names, NoOpFacts
<1> DEFINE in == Unwound(inner, op)
           g == UnwoundProcs(fam, op)
<1>1. /\ inner \in Inner /\ op \in Transactions /\ fam \in [Families -> Family] /\ next \in Nat \ {0}
      /\ inner.child_marker = inner.child
    BY DEF Inv, TypeOK, World, Shape
<1>2. /\ in \in Inner /\ in.child_marker = inner.child /\ in.generation = inner.generation
      /\ in.retired_markers = inner.retired_markers \cup ({op.cand, op.guard} \ {None})
    BY <1>1, UnwoundFacts
<1>3. /\ g \in [Families -> Family] /\ Fewer(fam, g) /\ \A k \in Families : g[k].stopped => k # op.old
    BY <1>1, UnwoundProcsFacts
<1>4. /\ UNCHANGED <<source, next, nudge, hung, watched, poolGen, published, cancel, left>>
      /\ op' = NoOp /\ queue' = <<>> /\ ticker' = [ticker EXCEPT !.pc = "done"] /\ stop' = "exited" /\ stop = "stopped"
      /\ fam' = KilledByDrop(in, g) /\ bound' \in BOOLEAN
      /\ inner' = [in EXCEPT !.child = None, !.child_marker = None, !.retired_markers = {},
                             !.cleanup_failures = [m \in Families |-> 0], !.state = "NotStarted"]
    BY DEF Exit, pubVars
<1> HIDE DEF in, g
<1>5. /\ inner' \in Inner /\ inner'.child = None /\ inner'.child_marker = None /\ inner'.retired_markers = {}
      /\ inner'.state = "NotStarted" /\ inner'.generation = inner.generation
    <2>1. [m \in Families |-> 0] \in [Families -> 0 .. MaxCleanups]
        BY SMTT(20), SupervisorAssumption
    <2> QED BY <1>2, <1>4, <2>1 DEF Inner, Marks, WorkerState
<1>6. \A m \in Families : fam'[m] \in Family /\ fam'[m].procs \subseteq fam[m].procs
                          /\ ~fam'[m].stopped /\ (fam'[m].retiring => fam[m].retiring)
                          /\ (fam'[m].procs = {} \/ fam'[m].wedged)
    <2> SUFFICES ASSUME NEW m \in Families
                 PROVE  fam'[m] \in Family /\ fam'[m].procs \subseteq fam[m].procs
                          /\ ~fam'[m].stopped /\ (fam'[m].retiring => fam[m].retiring)
                          /\ (fam'[m].procs = {} \/ fam'[m].wedged)
        OBVIOUS
    <2>1. g[m] \in Family /\ ~g[m].stopped /\ g[m].procs \subseteq fam[m].procs /\ (g[m].retiring => fam[m].retiring)
        BY <1>3 DEF Fewer, Inv, World, Healthy
    <2>2. fam'[m] = IF m \in in.retired_markers \cup {in.child_marker} THEN Killed(g, m)[m] ELSE g[m]
        BY <1>4 DEF KilledByDrop
    <2>3. CASE m \in in.retired_markers \cup {in.child_marker}
        <3>1. /\ Killed(g, m)[m] \in Family /\ Fewer(g, Killed(g, m)) /\ ~Killed(g, m)[m].stopped
              /\ Gone(Killed(g, m), m) \/ g[m].wedged
            BY SMTT(20), <1>3, KilledFacts DEF Marks
        <3>2. Killed(g, m)[m].wedged = g[m].wedged /\ Killed(g, m)[m].retiring = g[m].retiring
              /\ Killed(g, m)[m].procs \subseteq g[m].procs
            BY <3>1 DEF Fewer
        <3> QED BY <2>1, <2>2, <2>3, <3>1, <3>2 DEF Gone
    <2>4. CASE m \notin in.retired_markers \cup {in.child_marker}
        <3>1. m \notin {inner.child, op.cand, op.guard} \cup inner.retired_markers
            BY <2>4, <1>2
        <3>2. fam[m].procs = {}
            BY <3>1, <1>4 DEF Inv, Owned
        <3> QED BY <2>1, <2>2, <2>4, <3>2
    <2> QED BY <2>3, <2>4
<1>7. fam' \in [Families -> Family]
    BY <1>6, <1>4 DEF KilledByDrop
<1>8. ticker' \in Tickers /\ ticker'.pc = "done"
    BY <1>4 DEF Inv, TypeOK, Tickers
<1>9. TypeOK'
    BY SMTT(20), <1>4, <1>5, <1>7, <1>8 DEF Inv, TypeOK
<1>10. Shape(source', inner', op') /\ Apart(inner', op')
    BY <1>4, <1>5 DEF Shape, Apart, Quiet, Holds
<1>11. Numbered(inner', op', fam', next')
    BY SMTT(20), <1>1, <1>4, <1>5, <1>6 DEF Inv, World, Numbered
<1>12. Healthy(inner', op', fam')
    BY <1>4, <1>5, <1>6 DEF Healthy
<1>13. PoolOK' /\ BoundOK'
    BY <1>4, <1>5 DEF Inv, PoolOK, BoundOK
<1>14. QueueOK'
    BY SMTT(20), <1>4, <1>8 DEF QueueOK, Kinds
<1>15. ExitOK'
    BY <1>4, <1>5, <1>6, <1>8 DEF ExitOK, Gone
<1> QED BY <1>4, <1>9, <1>10, <1>11, <1>12, <1>13, <1>14, <1>15 DEF Inv, World

---------------------------------------------------------------------------
(* How a transaction begins.                                               *)

\* The prologue ran on in, which is inner but for what it does not depend on.
Begun(in, k) ==
    /\ inner' \in Inner /\ op' \in Transactions
    /\ inner'.child = in.child /\ inner'.retired_markers = in.retired_markers
    /\ inner'.generation = in.generation
    /\ op'.kind = k /\ op'.pc = "clean" /\ Holds(op', None, None, None)
    /\ Shape(source, inner', op')

LEMMA StartBegins ==
    ASSUME NEW in \in Inner, NEW k \in Kinds, NEW previous \in WorkerState, StartLocked(k, in, previous),
           in.child = None, in.child_marker = None, previous # "Good"
    PROVE  Begun(in, k)
<1>1. /\ inner' \in Inner /\ inner'.child = in.child /\ inner'.retired_markers = in.retired_markers
      /\ inner'.generation = in.generation /\ inner'.child_marker = in.child_marker
    BY DEF StartLocked, Inner, WorkerState
<1>2. Stable(previous) \in {"NotStarted", "Bad"}
    BY DEF Stable, WorkerState
<1>3. /\ op' \in Transactions /\ op'.kind = k /\ op'.pc = "clean" /\ op'.phase = "start"
      /\ Holds(op', None, None, None) /\ op'.restore = Stable(previous)
    BY <1>2 DEF StartLocked, NoOp, Transactions, Marks, Holds, WorkerState
<1>4. Shape(source, inner', op')
    BY <1>1, <1>2, <1>3 DEF Shape, StartShape, RestoresTruth, Holds, Kinds
<1> QED BY <1>1, <1>3, <1>4 DEF Begun

LEMMA DrainBegins ==
    ASSUME NEW in \in Inner, NEW k \in Kinds, DrainLocked(k, in), in.child_marker = in.child, Quiet(in)
    PROVE  Begun(in, k)
<1>1. /\ inner' \in Inner /\ inner'.child = in.child /\ inner'.retired_markers = in.retired_markers
      /\ inner'.generation = in.generation /\ inner'.child_marker = in.child_marker
    BY DEF DrainLocked, Inner, WorkerState
<1>2. Stable(in.state) = in.state
    BY DEF Stable, Quiet
<1>3. /\ op' \in Transactions /\ op'.kind = k /\ op'.pc = "clean" /\ op'.phase = "drain"
      /\ Holds(op', None, None, None) /\ op'.restore = in.state
    BY <1>2 DEF DrainLocked, NoOp, Transactions, Marks, Holds, Inner
<1>4. Shape(source, inner', op')
    BY <1>1, <1>3 DEF Shape, DrainShape, RestoresTruth, Quiet, Holds, Kinds
<1> QED BY <1>1, <1>3, <1>4 DEF Begun

LEMMA HotBegins ==
    ASSUME NEW in \in Inner, NEW k \in Kinds, HotReloadLocked(k, in), in.child_marker = in.child, Quiet(in),
           source = "Inherited"
    PROVE  Begun(in, k)
<1>1. inner' = in
    BY DEF HotReloadLocked
<1>2. /\ op' \in Transactions /\ op'.kind = k /\ op'.pc = "clean" /\ op'.phase = "hot"
      /\ Holds(op', None, None, None) /\ op'.restore = "disarmed"
    BY DEF HotReloadLocked, NoOp, Transactions, Marks, Holds
<1>3. Shape(source, inner', op')
    BY <1>1, <1>2 DEF Shape, HotShape, Holds, Kinds
<1> QED BY <1>1, <1>2, <1>3 DEF Begun

LEMMA ReplaceBegins ==
    ASSUME NEW in \in Inner, NEW k \in Kinds, Replace(k, in), in.child_marker = in.child, Quiet(in)
    PROVE  Begun(in, k)
BY HotBegins, DrainBegins DEF Replace

\* What the prologue leaves alone.
LEMMA BeginKeeps ==
    ASSUME Inv, stop # "exited", NEW in \in Inner, NEW k \in Kinds, Begun(in, k), in.child = inner.child,
           in.retired_markers = inner.retired_markers, in.generation = inner.generation,
           Holds(op, None, None, None), op.pc # "stopped",
           UNCHANGED <<source, bound, fam, next, poolGen, published, stop>>
    PROVE  /\ World(source', inner', op', fam', next') /\ Owned(inner', op', fam')
           /\ PoolOK' /\ BoundOK' /\ ExitOK'
<1>1. Numbered(inner', op', fam', next')
    BY DEF Inv, World, Numbered, Begun, Holds
<1>2. Apart(inner', op')
    BY DEF Inv, World, Apart, Begun, Holds
<1>3. Healthy(inner', op', fam')
    BY DEF Inv, World, Healthy, Begun, Holds
<1>4. Owned(inner', op', fam')
    BY DEF Inv, Owned, Begun, Holds
<1>5. PoolOK' /\ BoundOK' /\ ExitOK'
    BY DEF Inv, PoolOK, BoundOK, ExitOK, Begun
<1> QED BY <1>1, <1>2, <1>3, <1>4, <1>5 DEF World, Begun

LEMMA EnterFacts ==
    ASSUME Inv, NEW k \in Kinds, Enter(k)
    PROVE  /\ op = NoOp /\ stop # "exited" /\ queue' \in Seq(Kinds)
           /\ k = "start" => ticker.pc = "off" /\ queue' = <<>> /\ inner.child = None
           /\ k # "start" => ticker.pc # "off" /\ queue' \in Seq(Kinds \ {"start"})
<1>1. op = NoOp /\ queue # <<>> /\ Head(queue) = k /\ queue' = Tail(queue) /\ queue \in Seq(Kinds)
    BY DEF Enter, Inv, TypeOK
<1>2. stop # "exited"
    BY <1>1 DEF Inv, ExitOK
<1>3. queue' \in Seq(Kinds)
    BY SMTT(20), <1>1
<1>4. CASE ticker.pc = "off"
    <2>1. queue = <<"start">> /\ inner.child = None
        BY <1>1, <1>4, NoOpFacts DEF Inv, QueueOK
    <2>2. k = "start" /\ queue' = <<>>
        BY SMTT(20), <1>1, <2>1
    <2> QED BY <1>1, <1>2, <1>3, <1>4, <2>1, <2>2
<1>5. CASE ticker.pc # "off"
    <2>1. queue \in Seq(Kinds \ {"start"})
        BY <1>5 DEF Inv, QueueOK
    <2>2. k # "start" /\ queue' \in Seq(Kinds \ {"start"})
        BY SMTT(20), <1>1, <2>1
    <2> QED BY <1>1, <1>2, <1>3, <1>5, <2>2
<1> QED BY <1>4, <1>5

LEMMA SettledFacts ==
    ASSUME Inv, op.phase = "none"
    PROVE  /\ Quiet(inner) /\ inner.child_marker = inner.child /\ Holds(op, None, None, None)
           /\ op.pc # "stopped" /\ inner \in Inner
BY DEF Inv, TypeOK, World, Shape

LEMMA EnteredInv ==
    ASSUME Inv, NEW k \in Kinds, Enter(k), NEW in \in Inner, Begun(in, k), in.child = inner.child,
           in.retired_markers = inner.retired_markers, in.generation = inner.generation,
           Entering, UNCHANGED <<ticker, stop>>
    PROVE  Inv'
<1>1. /\ UNCHANGED <<source, bound, fam, next, nudge, hung, watched, poolGen, published, cancel, left, ticker, stop>>
    BY DEF Entering, procVars, pubVars
<1>2. /\ op = NoOp /\ stop # "exited" /\ queue' \in Seq(Kinds)
      /\ k = "start" => ticker.pc = "off" /\ queue' = <<>> /\ inner.child = None
      /\ k # "start" => ticker.pc # "off" /\ queue' \in Seq(Kinds \ {"start"})
    BY EnterFacts
<1>3. Holds(op, None, None, None) /\ op.pc # "stopped"
    BY <1>2, NoOpFacts DEF Holds
<1>4. /\ World(source', inner', op', fam', next') /\ Owned(inner', op', fam')
      /\ PoolOK' /\ BoundOK' /\ ExitOK'
    BY <1>1, <1>2, <1>3, BeginKeeps
<1>5. QueueOK'
    BY <1>1, <1>2 DEF QueueOK, Begun
<1>6. TypeOK'
    BY <1>1, <1>2 DEF Inv, TypeOK, Begun
<1> QED BY <1>4, <1>5, <1>6 DEF Inv

LEMMA EnterStartInv == Inv /\ EnterStart => Inv'
<1> SUFFICES ASSUME Inv, EnterStart PROVE Inv'
    OBVIOUS
<1>1. Enter("start") /\ StartLocked("start", inner, inner.state) /\ Entering /\ UNCHANGED <<ticker, stop>>
    BY DEF EnterStart
<1>2. op = NoOp /\ inner.child = None
    BY <1>1, EnterFacts DEF Kinds
<1>3. Quiet(inner) /\ inner.child_marker = None /\ inner \in Inner
    BY <1>2, SettledFacts, NoOpFacts
<1>4. inner.state \in WorkerState /\ inner.state # "Good"
    BY <1>2, <1>3 DEF Quiet, WorkerState
<1>5. Begun(inner, "start")
    BY <1>1, <1>2, <1>3, <1>4, StartBegins DEF Kinds
<1> QED BY <1>1, <1>3, <1>5, EnteredInv DEF Kinds

LEMMA EnterDrainInv == Inv /\ EnterDrain => Inv'
<1> SUFFICES ASSUME Inv, EnterDrain PROVE Inv'
    OBVIOUS
<1>1. Enter("drain_graceful") /\ DrainLocked("drain_graceful", inner) /\ Entering /\ UNCHANGED <<ticker, stop>>
    BY DEF EnterDrain
<1>2. Quiet(inner) /\ inner.child_marker = inner.child /\ inner \in Inner
    BY <1>1, EnterFacts, SettledFacts, NoOpFacts DEF Kinds
<1>3. Begun(inner, "drain_graceful")
    BY <1>1, <1>2, DrainBegins DEF Kinds
<1> QED BY <1>1, <1>2, <1>3, EnteredInv DEF Kinds

LEMMA EnterKillInv == Inv /\ EnterKill => Inv'
<1> SUFFICES ASSUME Inv, EnterKill PROVE Inv'
    OBVIOUS
<1>1. Enter("kill_and_restart") /\ Replace("kill_and_restart", inner) /\ Entering /\ UNCHANGED <<ticker, stop>>
    BY DEF EnterKill
<1>2. Quiet(inner) /\ inner.child_marker = inner.child /\ inner \in Inner
    BY <1>1, EnterFacts, SettledFacts, NoOpFacts DEF Kinds
<1>3. Begun(inner, "kill_and_restart")
    BY <1>1, <1>2, ReplaceBegins DEF Kinds
<1> QED BY <1>1, <1>2, <1>3, EnteredInv DEF Kinds

\* A waiter that finds nothing to do leaves only the queue.
LEMMA LeftQueueInv ==
    ASSUME Inv, NEW k \in Kinds \ {"start"}, Enter(k), Entering, UNCHANGED <<inner, op, stop>>,
           ticker' \in Tickers, ticker'.pc # "off"
    PROVE  Inv'
<1>1. /\ UNCHANGED <<source, bound, fam, next, nudge, hung, watched, poolGen, published, cancel, left, inner, op, stop>>
    BY DEF Entering, procVars, pubVars
<1>2. op = NoOp /\ stop # "exited" /\ queue' \in Seq(Kinds) /\ queue' \in Seq(Kinds \ {"start"})
    BY EnterFacts
<1>3. TypeOK'
    BY <1>1, <1>2 DEF Inv, TypeOK
<1>4. PoolOK' /\ QueueOK' /\ ExitOK'
    BY <1>1, <1>2, NoOpFacts DEF Inv, PoolOK, QueueOK, ExitOK
<1> QED BY <1>1, <1>2, <1>3, <1>4, Outside DEF Inv

LEMMA EnterReloadInv == Inv /\ EnterReload => Inv'
<1> SUFFICES ASSUME Inv, EnterReload PROVE Inv'
    OBVIOUS
<1>1. Enter("hot_reload") /\ Entering /\ UNCHANGED <<ticker, stop>>
    BY DEF EnterReload
<1>2. Quiet(inner) /\ inner.child_marker = inner.child /\ inner \in Inner
    BY <1>1, EnterFacts, SettledFacts, NoOpFacts DEF Kinds
<1>3. CASE source = "Inherited"
    <2>1. Begun(inner, "hot_reload")
        BY <1>2, <1>3, HotBegins DEF Kinds, EnterReload
    <2> QED BY <1>1, <1>2, <2>1, EnteredInv DEF Kinds
<1>4. CASE source # "Inherited"
    <2>1. UNCHANGED <<inner, op>>
        BY <1>4 DEF EnterReload
    <2>2. ticker \in Tickers /\ ticker.pc # "off"
        BY <1>1, EnterFacts DEF Kinds, Inv, TypeOK
    <2> QED BY <1>1, <2>1, <2>2, LeftQueueInv DEF Kinds
<1> QED BY <1>3, <1>4

LEMMA EnterRestartInv == Inv /\ EnterRestart => Inv'
<1> SUFFICES ASSUME Inv, EnterRestart PROVE Inv'
    OBVIOUS
<1> DEFINE k == "restart_debounced"
           in == [inner EXCEPT !.recent = TRUE]
<1>1. Enter(k) /\ Entering /\ UNCHANGED stop /\ k \in Kinds \ {"start"}
    BY DEF EnterRestart, Kinds
<1>2. Quiet(inner) /\ inner.child_marker = inner.child /\ inner \in Inner /\ op = NoOp
    BY <1>1, EnterFacts, SettledFacts, NoOpFacts
<1>3. /\ in \in Inner /\ in.child = inner.child /\ in.child_marker = inner.child_marker
      /\ in.retired_markers = inner.retired_markers /\ in.generation = inner.generation /\ Quiet(in)
    BY <1>2 DEF Inner, Quiet
<1>4. CASE Debounced
    <2>1. UNCHANGED <<inner, op>> /\ ticker' \in Tickers /\ ticker'.pc # "off"
        <3>1. UNCHANGED <<inner, op>> /\ ticker' = [pc |-> "after", kind |-> k, ok |-> TRUE]
            BY <1>4 DEF EnterRestart
        <3> QED BY <3>1 DEF Tickers, Kinds
    <2> QED BY <1>1, <2>1, LeftQueueInv
<1>5. CASE ~Debounced /\ ~inner.restart_failures
    <2>1. Replace(k, in) /\ UNCHANGED ticker
        BY <1>5 DEF EnterRestart
    <2> HIDE DEF in
    <2>2. Begun(in, k)
        BY <1>1, <1>3, <1>2, <2>1, ReplaceBegins
    <2> QED BY <1>1, <1>3, <2>1, <2>2, EnteredInv
<1>6. CASE ~Debounced /\ inner.restart_failures
    <2>1. /\ inner' = in /\ op' = [NoOp EXCEPT !.kind = k, !.pc = "backoff"] /\ UNCHANGED ticker
        BY <1>6 DEF EnterRestart
    <2> HIDE DEF in
    <2>2. /\ op' \in Transactions /\ op'.kind = k /\ op'.pc = "backoff" /\ op'.phase = "none"
          /\ op'.restore = "disarmed" /\ Holds(op', None, None, None)
        BY <1>1, <2>1 DEF NoOp, Transactions, Marks, Holds
    <2>3. UNCHANGED <<source, bound, fam, next, nudge, hung, watched, poolGen, published, cancel, left, ticker, stop>>
        BY <1>1, <2>1 DEF Entering, procVars, pubVars
    <2>4. stop # "exited" /\ queue' \in Seq(Kinds) /\ ticker.pc # "off" /\ queue' \in Seq(Kinds \ {"start"})
        BY <1>1, EnterFacts
    <2>5. TypeOK'
        BY <1>3, <2>1, <2>2, <2>3, <2>4 DEF Inv, TypeOK
    <2>6. Shape(source', inner', op')
        BY <1>2, <1>3, <2>1, <2>2 DEF Shape
    <2>7. Numbered(inner', op', fam', next') /\ Apart(inner', op')
        BY <1>2, <1>3, <2>1, <2>2, <2>3, NoOpFacts DEF Inv, World, Numbered, Apart, Holds
    <2>8. Healthy(inner', op', fam') /\ Owned(inner', op', fam')
        BY SMTT(20), <1>2, <1>3, <2>1, <2>2, <2>3, <2>4, NoOpFacts DEF Inv, World, Healthy, Owned, Holds
    <2>9. PoolOK' /\ BoundOK' /\ QueueOK' /\ ExitOK'
        BY <1>3, <2>1, <2>2, <2>3, <2>4 DEF Inv, PoolOK, BoundOK, QueueOK, ExitOK
    <2> QED BY <2>5, <2>6, <2>7, <2>8, <2>9 DEF Inv, World
<1> QED BY <1>4, <1>5, <1>6

LEMMA BackedOffInv == Inv /\ BackedOff => Inv'
<1> SUFFICES ASSUME Inv, BackedOff PROVE Inv'
    OBVIOUS
<1>1. /\ UNCHANGED <<source, queue, nudge, hung, watched, cancel, bound, fam, next, ticker, poolGen, published, stop, left>>
      /\ op.pc = "backoff" /\ Replace(op.kind, inner)
    BY DEF BackedOff, Still, procVars, pubVars
<1>2. op.phase = "none" /\ op.kind \in Kinds /\ stop # "exited" /\ op # NoOp
    BY <1>1, NoOpFacts DEF Inv, World, Shape, TypeOK, Transactions, ExitOK
<1>3. Quiet(inner) /\ inner.child_marker = inner.child /\ inner \in Inner /\ Holds(op, None, None, None)
    BY <1>2, SettledFacts
<1>4. Begun(inner, op.kind)
    BY <1>1, <1>2, <1>3, ReplaceBegins
<1>5. /\ World(source', inner', op', fam', next') /\ Owned(inner', op', fam')
      /\ PoolOK' /\ BoundOK' /\ ExitOK'
    BY <1>1, <1>2, <1>3, <1>4, BeginKeeps
<1>6. QueueOK'
    BY <1>1, <1>2, <1>4 DEF Inv, QueueOK, Begun
<1>7. TypeOK'
    BY <1>1, <1>4 DEF Inv, TypeOK, Begun
<1> QED BY <1>5, <1>6, <1>7 DEF Inv

\* A transaction that ends with the supervisor's own view of it unchanged.
LEMMA EndedInv ==
    ASSUME Inv, NEW in, Ends(in), in.child = inner.child, in.generation = inner.generation,
           UNCHANGED <<source, queue, nudge, hung, watched, cancel, next, poolGen, published>>,
           bound' \in BOOLEAN, left' \in Nat, (source = "Bind" /\ inner.child # None) => bound'
    PROVE  Inv'
<1>1. TypeOK'
    BY NoOpFacts DEF Inv, TypeOK, Ends
<1>2. PoolOK' /\ BoundOK'
    BY NoOpFacts DEF Inv, PoolOK, BoundOK, Ends
<1> QED BY <1>1, <1>2 DEF Inv, Ends

LEMMA BackoffCancelledInv == Inv /\ BackoffCancelled => Inv'
<1> SUFFICES ASSUME Inv, BackoffCancelled PROVE Inv'
    OBVIOUS
<1>1. /\ UNCHANGED <<source, queue, nudge, hung, watched, cancel, bound, next, poolGen, published, left>>
      /\ op.pc = "backoff" /\ Return(inner, fam, TRUE)
    BY DEF BackoffCancelled, Still, pubVars
<1>2. op.phase = "none" /\ stop # "exited" /\ op # NoOp /\ op.pc # "free"
    BY <1>1, NoOpFacts DEF Inv, World, Shape, ExitOK
<1>3. /\ Quiet(inner) /\ inner.child_marker = inner.child /\ inner \in Inner /\ Holds(op, None, None, None)
      /\ fam \in [Families -> Family]
    BY <1>2, SettledFacts DEF Inv, TypeOK
<1>4. Numbered(inner, NoOp, fam, next) /\ Apart(inner, NoOp) /\ Healthy(inner, NoOp, fam) /\ Owned(inner, NoOp, fam)
    BY <1>1, <1>2, <1>3, NoOpFacts DEF Inv, World, Numbered, Apart, Healthy, Owned, Holds
<1>5. Ends(inner)
    BY <1>1, <1>2, <1>3, <1>4, ReturnEnds
<1> QED BY <1>1, <1>5, EndedInv DEF Inv, TypeOK, BoundOK

---------------------------------------------------------------------------
(* cleanup_retired_markers.                                                *)

\* What a cleanup step does to the families: m is killed, the others are not touched.
LEMMA CleanupKills ==
    ASSUME Inv, NEW m \in inner.retired_markers
    PROVE  /\ m \in Families /\ Killed(fam, m) \in [Families -> Family] /\ Fewer(fam, Killed(fam, m))
           /\ \A k \in Families \ {m} : Killed(fam, m)[k] = fam[k]
           /\ inner.child # m
BY SMTT(20), KilledFacts DEF Inv, TypeOK, Inner, World, Apart, Marks

\* A step of a transaction that changes no family but to kill some of it.
LEMMA GotoKeeps ==
    ASSUME Inv, op.pc # "free", NEW o \in Transactions, NEW in \in Inner, NEW f \in [Families -> Family],
           Goto(o, in, f), UNCHANGED <<source, queue, nudge, hung, watched, cancel, poolGen, published>>,
           bound' \in BOOLEAN, next' \in Nat \ {0}, left' \in Nat,
           o.kind = op.kind, o.pc # "free", in.child \in {inner.child, None}, in.generation = inner.generation,
           World(source', in, o, f, next'), Owned(in, o, f),
           (source = "Bind" /\ (in.child # None \/ o.pc = "ready")) => bound'
    PROVE  Inv'
<1>1. inner' = in /\ op' = o /\ fam' = f /\ UNCHANGED <<ticker, stop>>
    BY DEF Goto
<1>2. op # NoOp /\ stop # "exited" /\ op.kind # "none"
    BY NoOpFacts DEF Inv, ExitOK, World, Shape
<1>3. TypeOK'
    BY <1>1 DEF Inv, TypeOK
<1>4. PoolOK' /\ BoundOK' /\ ExitOK'
    BY <1>1, <1>2 DEF Inv, PoolOK, BoundOK, ExitOK
<1>5. QueueOK'
    BY <1>1, <1>2, NoOpFacts DEF Inv, QueueOK
<1> QED BY <1>1, <1>3, <1>4, <1>5 DEF Inv

LEMMA CleanFacts ==
    ASSUME Inv, op.pc = "clean"
    PROVE  /\ Holds(op, None, None, None) /\ op.phase \in {"start", "drain", "hot"}
           /\ op.phase = "start" => inner.child = None
           /\ op.phase = "hot" => Quiet(inner) /\ op.restore = "disarmed"
           /\ op \in Transactions /\ inner \in Inner /\ fam \in [Families -> Family] /\ inner.child_marker = inner.child
BY Names DEF Inv, TypeOK, World, Shape, StartShape, DrainShape, HotShape, Holds, Transactions

\* In the cleanup the shape of a transaction depends on the child and the state only.
LEMMA CleanShape ==
    ASSUME Inv, op.pc = "clean", NEW in \in Inner, NEW o \in Transactions,
           in.child = inner.child, in.child_marker = inner.child_marker, in.state = inner.state,
           o.kind = op.kind, o.pc = "clean", o.phase = op.phase, o.restore = op.restore,
           Holds(o, None, None, None)
    PROVE  Shape(source, in, o)
<1>1. Holds(op, None, None, None)
    BY CleanFacts
<1> QED BY <1>1 DEF Inv, World, Shape, StartShape, DrainShape, HotShape, Holds, Quiet, RestoresTruth

\* The serving family and the candidate keep their masters, nobody is stopped.
LEMMA HealthyKept ==
    ASSUME Inv, op.pc # "stopped", NEW in \in Inner, NEW o \in Transactions, NEW g \in [Families -> Family],
           in.child = inner.child, o.cand \in {None, op.cand}, Fewer(fam, g),
           \A m \in Families \cap {inner.child, o.cand} : g[m].procs = fam[m].procs
    PROVE  Healthy(in, o, g)
<1>1. \A m \in Families : ~g[m].stopped
    BY DEF Inv, World, Healthy, Fewer
<1>2. ASSUME NEW m \in Families, m \in {inner.child, o.cand} PROVE Lives(g, m)
    <2>1. Lives(fam, m)
        BY <1>2, Names DEF Inv, World, Healthy
    <2>2. g[m].retiring = fam[m].retiring /\ g[m].crashed = fam[m].crashed /\ g[m].procs = fam[m].procs
        BY <1>2 DEF Fewer
    <2> QED BY Zenon, <2>1, <2>2 DEF Lives
<1>3. in.child \in Marks /\ o.cand \in Marks
    BY DEF Inner, Transactions
<1> QED BY <1>1, <1>2, <1>3 DEF Healthy, Marks

LEMMA CleanupMarkerInv == Inv /\ CleanupMarker => Inv'
<1> SUFFICES ASSUME Inv, CleanupMarker PROVE Inv'
    OBVIOUS
<1> USE Names
<1>1. /\ UNCHANGED <<source, queue, nudge, hung, watched, cancel, bound, next, poolGen, published>> /\ op.pc = "clean"
    BY DEF CleanupMarker, Still, pubVars
<1> DEFINE f(m) == Killed(fam, m)
           n(m) == IF inner.cleanup_failures[m] < MaxCleanups THEN inner.cleanup_failures[m] + 1 ELSE MaxCleanups
           counted(m) == [inner EXCEPT !.cleanup_failures[m] = n(m)]
<1>2. PICK m \in Pending, fails \in BOOLEAN :
        /\ Outcome(fails)
        /\ IF Gone(f(m), m) /\ ~fails
           THEN Goto(op, [inner EXCEPT !.retired_markers = @ \ {m}, !.cleanup_failures[m] = 0], f(m))
           ELSE IF Skips(n(m)) THEN Goto([op EXCEPT !.skipped = @ \cup {m}], counted(m), f(m))
           ELSE CleanupError(counted(m), f(m))
    BY DEF CleanupMarker
<1>3. /\ Holds(op, None, None, None) /\ op.phase \in {"start", "drain", "hot"}
      /\ op.phase = "start" => inner.child = None
      /\ op.phase = "hot" => Quiet(inner) /\ op.restore = "disarmed"
      /\ op \in Transactions /\ inner \in Inner /\ fam \in [Families -> Family] /\ inner.child_marker = inner.child
    BY <1>1, CleanFacts
<1>4. m \in inner.retired_markers /\ left' \in Nat /\ bound \in BOOLEAN /\ next \in Nat \ {0} /\ stop # "exited"
    BY SMTT(20), <1>1, <1>2, NoOpFacts DEF Pending, Outcome, Spend, Inv, TypeOK, ExitOK
<1> DEFINE g == f(m)
           c == counted(m)
<1>5. /\ m \in Families /\ g \in [Families -> Family] /\ Fewer(fam, g) /\ inner.child # m
      /\ \A k \in Families \ {m} : g[k] = fam[k]
    BY <1>4, CleanupKills
<1>6. n(m) \in 0 .. MaxCleanups
    BY SMTT(20), <1>3, <1>5, SupervisorAssumption DEF Inner
<1>7. /\ c \in Inner /\ c.child = inner.child /\ c.child_marker = inner.child_marker
      /\ c.retired_markers = inner.retired_markers /\ c.generation = inner.generation /\ c.state = inner.state
    BY <1>3, <1>5, <1>6 DEF Inner
<1>8. CASE Gone(g, m) /\ ~fails
    <2> DEFINE in == [inner EXCEPT !.retired_markers = @ \ {m}, !.cleanup_failures[m] = 0]
    <2>1. /\ in \in Inner /\ in.child = inner.child /\ in.child_marker = inner.child_marker
          /\ in.retired_markers = inner.retired_markers \ {m} /\ in.generation = inner.generation /\ in.state = inner.state
        <3>1. [inner.cleanup_failures EXCEPT ![m] = 0] \in [Families -> 0 .. MaxCleanups]
            BY SMTT(20), <1>3, <1>5, SupervisorAssumption DEF Inner
        <3> QED BY <1>3, <3>1 DEF Inner
    <2>2. Goto(op, in, g)
        BY <1>2, <1>8
    <2> HIDE DEF in, g, c
    <2>3. Shape(source, in, op)
        BY <1>1, <1>3, <2>1, CleanShape
    <2>4. Numbered(in, op, g, next) /\ Apart(in, op)
        BY SMTT(20), <1>5, <2>1 DEF Inv, World, Numbered, Apart, Fewer
    <2>5. Healthy(in, op, g)
        BY SMTT(20), <1>1, <1>3, <1>5, <2>1, HealthyKept DEF Inner, Marks, Holds
    <2>6. Owned(in, op, g)
        BY SMTT(20), <1>4, <1>5, <1>8, <2>1 DEF Inv, Owned, Gone, Fewer
    <2>7. (source = "Bind" /\ in.child # None) => bound
        BY <2>1 DEF Inv, BoundOK
    <2> QED BY SMTT(20), <1>1, <1>3, <1>4, <1>5, <2>1, <2>2, <2>3, <2>4, <2>5, <2>6, <2>7, GotoKeeps DEF World
<1>9. CASE ~(Gone(g, m) /\ ~fails) /\ Skips(n(m))
    <2> DEFINE o == [op EXCEPT !.skipped = @ \cup {m}]
    <2>1. /\ o \in Transactions /\ o.kind = op.kind /\ o.pc = "clean" /\ o.phase = op.phase /\ o.restore = op.restore
          /\ Holds(o, None, None, None)
        BY <1>1, <1>3, <1>5 DEF Transactions, Holds
    <2>2. Goto(o, c, g)
        BY <1>2, <1>9
    <2> HIDE DEF o, g, c
    <2>3. Shape(source, c, o)
        BY <1>1, <1>7, <2>1, CleanShape
    <2>4. Numbered(c, o, g, next) /\ Apart(c, o)
        BY SMTT(20), <1>3, <1>5, <1>7, <2>1 DEF Inv, World, Numbered, Apart, Fewer, Holds
    <2>5. Healthy(c, o, g)
        BY SMTT(20), <1>1, <1>3, <1>5, <1>7, <2>1, HealthyKept DEF Inner, Marks, Holds
    <2>6. Owned(c, o, g)
        BY <1>3, <1>4, <1>5, <1>7, <2>1 DEF Inv, Owned, Gone, Fewer, Holds
    <2>7. (source = "Bind" /\ c.child # None) => bound
        BY <1>7 DEF Inv, BoundOK
    <2> QED BY <1>1, <1>3, <1>4, <1>5, <1>7, <2>1, <2>2, <2>3, <2>4, <2>5, <2>6, <2>7, GotoKeeps DEF World
<1>10. CASE ~(Gone(g, m) /\ ~fails) /\ ~Skips(n(m))
    <2>1. CleanupError(c, g)
        BY <1>2, <1>10
    <2> HIDE DEF g, c
    <2>2. inner.child # None => g[inner.child].procs = fam[inner.child].procs
        BY <1>3, <1>5 DEF Inner, Marks
    <2>3. /\ Disarmed(op) \in Transactions /\ Disarmed(op).old = op.old /\ Disarmed(op).guard = op.guard
          /\ Disarmed(op).cand = op.cand /\ Disarmed(op).restore = "disarmed"
        BY <1>3 DEF Disarmed, Transactions
    <2> SUFFICES ASSUME NEW in \in Inner, NEW o \in Transactions, Fail(in, o, g),
                        in.child = inner.child, in.child_marker = inner.child_marker,
                        in.retired_markers = inner.retired_markers, in.generation = inner.generation,
                        o.old = op.old, o.guard = op.guard, o.cand = op.cand, o.restore = "disarmed", Quiet(in)
                 PROVE  Inv'
        <3>1. CASE op.phase = "drain"
            <4> DEFINE in == BadUnlessServing(c)
            <4>1. Fail(in, Disarmed(op), g)
                BY <2>1, <3>1 DEF CleanupError
            <4>2. /\ in \in Inner /\ in.child = inner.child /\ in.child_marker = inner.child_marker
                  /\ in.retired_markers = inner.retired_markers /\ in.generation = inner.generation /\ Quiet(in)
                BY <1>7 DEF BadUnlessServing, Inner, WorkerState, Quiet
            <4> QED BY <2>3, <4>1, <4>2
        <3>2. CASE op.phase = "start"
            <4> DEFINE in == [c EXCEPT !.state = "Bad"]
            <4>1. Fail(in, Disarmed(op), g)
                BY <2>1, <3>2 DEF CleanupError
            <4>2. /\ in \in Inner /\ in.child = inner.child /\ in.child_marker = inner.child_marker
                  /\ in.retired_markers = inner.retired_markers /\ in.generation = inner.generation /\ Quiet(in)
                BY <1>3, <1>7, <3>2 DEF Inner, WorkerState, Quiet
            <4> QED BY <2>3, <4>1, <4>2
        <3>3. CASE op.phase = "hot"
            <4>1. Fail(c, op, g)
                BY <2>1, <3>3 DEF CleanupError
            <4>2. Quiet(c)
                BY <1>3, <1>7, <3>3 DEF Quiet
            <4> QED BY <1>3, <1>7, <3>3, <4>1, <4>2
        <3> QED BY <1>3, <3>1, <3>2, <3>3
    <2>4. Quiet(Unwound(in, o))
        BY UnwoundFacts DEF Quiet
    <2>5. Ends(in)
        BY <1>1, <1>5, <2>2, <2>4, FailEnds
    <2> QED BY <1>1, <1>4, <2>5, EndedInv DEF Inv, BoundOK
<1> QED BY <1>8, <1>9, <1>10

---------------------------------------------------------------------------
(* drain_inner_locked.                                                     *)

LEMMA TakeChildInv == Inv /\ TakeChild => Inv'
<1> SUFFICES ASSUME Inv, TakeChild PROVE Inv'
    OBVIOUS
<1> USE Names
<1> DEFINE o == [op EXCEPT !.pc = "quiesce", !.old = inner.child_marker, !.guard = inner.child_marker,
                           !.restore = "Bad"]
           in == [inner EXCEPT !.child = None, !.child_marker = None]
<1>1. /\ UNCHANGED <<source, queue, nudge, hung, watched, cancel, bound, next, poolGen, published, left>>
      /\ op.pc = "clean" /\ op.phase = "drain" /\ inner.child # None /\ Goto(o, in, fam)
    BY DEF TakeChild, Still, pubVars
<1>2. /\ Holds(op, None, None, None) /\ op \in Transactions /\ inner \in Inner /\ inner.child_marker = inner.child
      /\ fam \in [Families -> Family] /\ bound \in BOOLEAN /\ next \in Nat \ {0} /\ left \in Nat
      /\ inner.child \in Families /\ stop # "exited" /\ op.kind # "none"
    BY <1>1, CleanFacts, NoOpFacts DEF Inv, TypeOK, Inner, Marks, ExitOK, World, Shape
<1>3. /\ in \in Inner /\ in.child = None /\ in.child_marker = None /\ in.generation = inner.generation
      /\ in.retired_markers = inner.retired_markers
    BY <1>2 DEF Inner, Marks
<1>4. /\ o \in Transactions /\ o.kind = op.kind /\ o.pc = "quiesce" /\ o.phase = "drain" /\ o.restore = "Bad"
      /\ Holds(o, None, inner.child, inner.child)
    BY <1>1, <1>2 DEF Transactions, Marks, WorkerState, Holds
<1> HIDE DEF o, in
<1>5. Shape(source, in, o)
    BY <1>1, <1>2, <1>3, <1>4 DEF Shape, DrainShape, RestoresTruth, Holds
<1>6. Numbered(in, o, fam, next) /\ Apart(in, o)
    BY <1>2, <1>3, <1>4 DEF Inv, World, Numbered, Apart, Holds, Inner
<1>7. Healthy(in, o, fam)
    BY <1>1, <1>3, <1>4 DEF Inv, World, Healthy, Holds
<1>8. Owned(in, o, fam)
    BY <1>2, <1>3, <1>4 DEF Inv, Owned, Holds
<1> QED BY <1>1, <1>2, <1>3, <1>4, <1>5, <1>6, <1>7, <1>8, GotoKeeps DEF World

\* The old family is gone: the drain is over, or the restart goes on to its start.
LEMMA DrainedInv ==
    ASSUME Inv, op.phase = "drain", op.pc # "stopped", NEW f \in [Families -> Family], Drained(inner, f),
           UNCHANGED <<source, queue, nudge, hung, watched, cancel, next, poolGen, published, left>>,
           inner.child = None, Fewer(fam, f), op.old # None => f[op.old].procs = {}
    PROVE  Inv'
<1> USE Names, NoOpFacts
<1> DEFINE out == [inner EXCEPT !.state = "NotStarted"]
           previous == IF op.kind = "restart_debounced" THEN "Starting" ELSE out.state
<1>1. /\ op \in Transactions /\ inner \in Inner /\ inner.child_marker = inner.child /\ op.pc # "free" /\ stop # "exited"
      /\ op.cand = None /\ op.guard = op.old /\ next \in Nat \ {0} /\ op.kind \in Kinds
    BY DEF Inv, TypeOK, World, Shape, DrainShape, ExitOK, Transactions
<1>2. /\ out \in Inner /\ out.child = None /\ out.child_marker = None /\ out.generation = inner.generation
      /\ out.retired_markers = inner.retired_markers /\ out.state = "NotStarted"
    BY <1>1 DEF Inner, WorkerState
<1>3. bound' \in BOOLEAN
    BY DEF Drained
<1>4. /\ op.kind = "drain_graceful" => Return(out, f, TRUE)
      /\ op.kind # "drain_graceful" => StartLocked(op.kind, out, previous) /\ fam' = f /\ UNCHANGED <<ticker, stop>>
    BY DEF Drained
<1>5. previous \in WorkerState /\ previous # "Good"
    BY <1>2 DEF WorkerState
<1> HIDE DEF out, previous
<1>6. \A m \in Families : ~f[m].stopped
    BY DEF Inv, World, Healthy, Fewer
<1>7. ASSUME NEW m \in Families, f[m].procs # {} PROVE m \in inner.retired_markers
    <2>1. fam[m].procs # {}
        BY <1>7 DEF Fewer
    <2>2. m \in {None, op.old} \cup inner.retired_markers
        BY <1>1, <2>1 DEF Inv, Owned
    <2> QED BY <1>7, <2>2
<1>8. ASSUME NEW o \in Transactions, Holds(o, None, None, None), NEW in \in Inner, in.child = None,
             in.retired_markers = inner.retired_markers
      PROVE  Numbered(in, o, f, next) /\ Apart(in, o) /\ Healthy(in, o, f) /\ Owned(in, o, f)
    <2>1. \A m \in Families : m >= next => f[m].procs = {} /\ ~f[m].retiring
        BY DEF Inv, World, Numbered, Fewer
    <2>2. Numbered(in, o, f, next)
        BY <1>1, <1>6, <1>8, <2>1 DEF Inv, World, Numbered, Holds
    <2> QED BY <1>6, <1>7, <1>8, <2>2 DEF Apart, Healthy, Owned, Holds, Inner
<1>9. CASE op.kind = "drain_graceful"
    <2>1. Quiet(out)
        BY <1>2 DEF Quiet
    <2>2. Numbered(out, NoOp, f, next) /\ Apart(out, NoOp) /\ Healthy(out, NoOp, f) /\ Owned(out, NoOp, f)
        BY <1>2, <1>8 DEF Holds
    <2>3. Ends(out)
        BY <1>1, <1>2, <1>4, <1>9, <2>1, <2>2, ReturnEnds
    <2> QED BY SMTT(20), <1>2, <1>3, <2>3, EndedInv DEF Inv, TypeOK
<1>10. CASE op.kind # "drain_graceful"
    <2>1. Begun(out, op.kind)
        BY <1>1, <1>2, <1>4, <1>5, <1>10, StartBegins
    <2>2. fam' = f /\ UNCHANGED <<ticker, stop>>
        BY <1>4, <1>10
    <2>3. /\ Numbered(inner', op', fam', next') /\ Apart(inner', op') /\ Healthy(inner', op', fam')
          /\ Owned(inner', op', fam')
        BY <1>2, <1>8, <2>1, <2>2 DEF Begun
    <2>4. TypeOK'
        BY <1>3, <2>1, <2>2 DEF Inv, TypeOK, Begun
    <2>5. PoolOK' /\ BoundOK' /\ ExitOK'
        BY <1>1, <1>2, <2>1, <2>2 DEF Inv, PoolOK, BoundOK, ExitOK, Begun
    <2>6. QueueOK'
        BY <1>1, <1>2, <2>1, <2>2 DEF Inv, QueueOK, Begun
    <2> QED BY <2>1, <2>3, <2>4, <2>5, <2>6 DEF Inv, World, Begun
<1> QED BY <1>9, <1>10

LEMMA NothingToDrainInv == Inv /\ NothingToDrain => Inv'
<1> SUFFICES ASSUME Inv, NothingToDrain PROVE Inv'
    OBVIOUS
<1>1. /\ UNCHANGED <<source, queue, nudge, hung, watched, cancel, next, poolGen, published, left>>
      /\ op.pc = "clean" /\ op.phase = "drain" /\ inner.child = None /\ Drained(inner, fam)
    BY DEF NothingToDrain, Still, pubVars
<1>2. op.old = None /\ fam \in [Families -> Family] /\ Fewer(fam, fam)
    BY <1>1, CleanFacts DEF Fewer, Holds
<1> QED BY <1>1, <1>2, DrainedInv

---------------------------------------------------------------------------
(* The candidate.                                                          *)

LEMMA ReadyToSpawnInv == Inv /\ ReadyToSpawn => Inv'
<1> SUFFICES ASSUME Inv, ReadyToSpawn PROVE Inv'
    OBVIOUS
<1> DEFINE o == [op EXCEPT !.pc = "spawn"]
<1>1. /\ UNCHANGED <<source, queue, nudge, hung, watched, cancel, bound, next, poolGen, published, left>>
      /\ op.pc = "clean" /\ op.phase = "start" /\ Goto(o, inner, fam)
    BY DEF ReadyToSpawn, Still, pubVars
<1>2. /\ Holds(op, None, None, None) /\ op \in Transactions /\ inner \in Inner /\ inner.child = None
      /\ fam \in [Families -> Family] /\ bound \in BOOLEAN /\ next \in Nat \ {0} /\ left \in Nat /\ stop # "exited"
    BY <1>1, CleanFacts, NoOpFacts DEF Inv, TypeOK, ExitOK
<1>3. /\ o \in Transactions /\ o.kind = op.kind /\ o.pc = "spawn" /\ o.phase = "start" /\ o.restore = op.restore
      /\ Holds(o, None, None, None)
    BY <1>1, <1>2 DEF Transactions, Holds
<1> HIDE DEF o
<1>4. Shape(source, inner, o)
    BY <1>1, <1>2, <1>3 DEF Inv, World, Shape, StartShape, RestoresTruth, Holds
<1>5. Numbered(inner, o, fam, next) /\ Apart(inner, o) /\ Owned(inner, o, fam)
    BY <1>2, <1>3 DEF Inv, World, Numbered, Apart, Owned, Holds
<1>6. Healthy(inner, o, fam)
    BY <1>1, <1>2, <1>3 DEF Inv, World, Healthy, Holds
<1> QED BY <1>1, <1>2, <1>3, <1>4, <1>5, <1>6, GotoKeeps DEF World

LEMMA CaptureOldInv == Inv /\ CaptureOld => Inv'
<1> SUFFICES ASSUME Inv, CaptureOld PROVE Inv'
    OBVIOUS
<1> DEFINE o == [op EXCEPT !.pc = "spawn", !.old = inner.child_marker, !.restore = Stable(inner.state)]
           in == [inner EXCEPT !.state = "Starting"]
<1>1. /\ UNCHANGED <<source, queue, nudge, hung, watched, cancel, bound, next, poolGen, published, left>>
      /\ op.pc = "clean" /\ op.phase = "hot" /\ inner.child # None /\ Goto(o, in, fam)
    BY DEF CaptureOld, Still, pubVars
<1>2. /\ Holds(op, None, None, None) /\ op \in Transactions /\ inner \in Inner /\ inner.child_marker = inner.child
      /\ fam \in [Families -> Family] /\ bound \in BOOLEAN /\ next \in Nat \ {0} /\ left \in Nat /\ stop # "exited"
      /\ Quiet(inner)
    BY <1>1, CleanFacts, NoOpFacts DEF Inv, TypeOK, ExitOK
<1>3. /\ in \in Inner /\ in.child = inner.child /\ in.child_marker = inner.child /\ in.generation = inner.generation
      /\ in.retired_markers = inner.retired_markers
    BY <1>2 DEF Inner, WorkerState
<1>4. Stable(inner.state) = "Good"
    BY <1>1, <1>2 DEF Stable, Quiet
<1>5. /\ o \in Transactions /\ o.kind = op.kind /\ o.pc = "spawn" /\ o.phase = "hot" /\ o.restore = "Good"
      /\ Holds(o, None, inner.child, None)
    BY <1>1, <1>2, <1>4 DEF Transactions, Holds, Inner, WorkerState
<1> HIDE DEF o, in
<1>6. Shape(source, in, o)
    BY SMTT(20), <1>1, <1>2, <1>3, <1>5 DEF Inv, World, Shape, HotShape, RestoresTruth, Holds
<1>7. Numbered(in, o, fam, next) /\ Apart(in, o) /\ Owned(in, o, fam)
    BY <1>2, <1>3, <1>5 DEF Inv, World, Numbered, Apart, Owned, Holds
<1>8. Healthy(in, o, fam)
    BY <1>1, <1>2, <1>3, <1>5 DEF Inv, World, Healthy, Holds
<1>9. (source = "Bind" /\ in.child # None) => bound
    BY <1>3 DEF Inv, BoundOK
<1> QED BY <1>1, <1>2, <1>3, <1>5, <1>6, <1>7, <1>8, <1>9, GotoKeeps DEF World

LEMMA SpawnInv == Inv /\ Spawn => Inv'
<1> SUFFICES ASSUME Inv, Spawn PROVE Inv'
    OBVIOUS
<1> USE Names
<1> DEFINE o == [op EXCEPT !.pc = "ready", !.cand = next]
           f == [fam EXCEPT ![next].procs = {"master", "worker"}]
<1>1. /\ UNCHANGED <<source, queue, nudge, hung, watched, cancel, poolGen, published, left>>
      /\ op.pc = "spawn" /\ next \in Families /\ Goto(o, inner, f) /\ next' = next + 1 /\ bound' = (source = "Bind")
    BY DEF Spawn, Still, pubVars
<1>2. /\ op \in Transactions /\ inner \in Inner /\ op.cand = None /\ op.guard = None /\ op.phase \in {"start", "hot"}
      /\ fam \in [Families -> Family] /\ next \in Nat \ {0} /\ left \in Nat /\ stop # "exited"
      /\ op.old = inner.child
    BY <1>1, NoOpFacts DEF Inv, TypeOK, ExitOK, World, Shape, StartShape, DrainShape, HotShape, Transactions
<1>3. /\ o \in Transactions /\ o.kind = op.kind /\ o.pc = "ready" /\ o.phase = op.phase /\ o.restore = op.restore
      /\ Holds(o, next, op.old, None)
    BY <1>1, <1>2 DEF Transactions, Holds, Marks
<1>4. /\ f \in [Families -> Family] /\ \A m \in Families \ {next} : f[m] = fam[m]
    BY SMTT(20), <1>1, <1>2 DEF Family
<1>5. /\ f[next].procs = {"master", "worker"} /\ f[next].stopped = fam[next].stopped
      /\ f[next].retiring = fam[next].retiring
    BY SMTT(20), <1>1, <1>2 DEF Family
<1>6. fam[next].procs = {} /\ ~fam[next].stopped /\ ~fam[next].retiring
    BY SMTT(20), <1>1, <1>2 DEF Inv, World, Numbered
<1> HIDE DEF o, f
<1>7. Shape(source, inner, o)
    BY <1>1, <1>2, <1>3 DEF Inv, World, Shape, StartShape, HotShape, RestoresTruth, Holds
<1>8. /\ inner.child < next /\ op.old < next /\ \A m \in inner.retired_markers : m < next
      /\ inner.retired_markers \subseteq Families /\ inner.child \in Nat /\ op.old \in Nat
    BY <1>2 DEF Inv, World, Numbered, Inner
<1>9. Numbered(inner, o, f, next')
    <2>1. ASSUME NEW m \in Families, m >= next + 1 PROVE m # next /\ m >= next
        <3>1. m \in Nat
            OBVIOUS
        <3> QED BY SMTT(20), <1>2, <2>1, <3>1
    <2>2. \A m \in Families : m >= next' => f[m].procs = {} /\ ~f[m].stopped /\ ~f[m].retiring
        BY <1>1, <1>4, <2>1 DEF Inv, World, Numbered
    <2>3. inner.child < next' /\ next < next' /\ op.old < next' /\ 0 < next'
        BY SMTT(20), <1>1, <1>2, <1>8
    <2>4. ASSUME NEW m \in inner.retired_markers PROVE m < next'
        <3>1. m \in Nat /\ m < next
            BY <1>8
        <3> QED BY SMTT(20), <1>1, <1>2, <3>1
    <2> QED BY <1>3, <2>2, <2>3, <2>4 DEF Numbered, Holds
<1>10. Apart(inner, o)
    BY SMTT(20), <1>1, <1>2, <1>3, <1>8 DEF Inv, World, Apart, Holds
<1>11. Healthy(inner, o, f)
    <2>1. Lives(f, next)
        BY <1>5, <1>6 DEF Lives
    <2>2. inner.child # None => inner.child \in Families \ {next} /\ Lives(f, inner.child)
        BY SMTT(20), <1>2, <1>4, <1>8 DEF Inv, World, Healthy, Lives, Inner, Marks
    <2>3. \A m \in Families : ~f[m].stopped
        BY <1>1, <1>4, <1>5, <1>6 DEF Inv, World, Healthy
    <2> QED BY <1>3, <2>1, <2>2, <2>3 DEF Healthy, Holds
<1>12. Owned(inner, o, f)
    BY SMTT(20), <1>2, <1>3, <1>4 DEF Inv, Owned, Holds
<1>13. next' \in Nat \ {0}
    BY SMTT(20), <1>1, <1>2
<1>14. bound' \in BOOLEAN /\ (source = "Bind" => bound') /\ op.pc # "free"
    BY <1>1
<1> QED BY SMTT(20), <1>1, <1>2, <1>3, <1>4, <1>7, <1>9, <1>10, <1>11, <1>12, <1>13, <1>14, GotoKeeps DEF World

---------------------------------------------------------------------------
(* Errors and dropped futures.                                             *)

LEMMA FailedInv ==
    ASSUME Inv, op.pc # "free",
           NEW in \in Inner, NEW o \in Transactions, NEW f \in [Families -> Family], Fail(in, o, f),
           UNCHANGED <<source, queue, nudge, hung, watched, cancel, next, poolGen, published>>,
           bound' \in {bound, source = "Bind"}, left' \in Nat,
           in.child = inner.child, in.child_marker = inner.child_marker,
           in.retired_markers = inner.retired_markers, in.generation = inner.generation,
           o.old = op.old, o.guard = op.guard, o.cand \in {op.cand, None},
           Fewer(fam, f), inner.child # None => f[inner.child].procs = fam[inner.child].procs,
           o.cand # op.cand => f[op.cand].procs = {},
           Quiet(Unwound(in, o))
    PROVE  Inv'
<1>1. Ends(in)
    BY FailEnds
<1>2. bound' \in BOOLEAN /\ ((source = "Bind" /\ inner.child # None) => bound')
    BY DEF Inv, TypeOK, BoundOK
<1> QED BY <1>1, <1>2, EndedInv

\* What is rolled back to is true of the child there is.
LEMMA RollbackQuiet ==
    ASSUME Inv, op.pc # "free", NEW o \in Transactions, o.restore = op.restore
    PROVE  Quiet(Unwound(inner, o))
<1>1. inner \in Inner /\ op \in Transactions
    BY DEF Inv, TypeOK
<1>2. Unwound(inner, o).child = inner.child
      /\ Unwound(inner, o).state = IF o.restore = "disarmed" THEN inner.state ELSE o.restore
    BY <1>1, UnwoundFacts
<1>3. (op.restore = "disarmed" /\ Quiet(inner)) \/ RestoresTruth(inner, op)
    BY <1>1 DEF Inv, World, Shape, StartShape, DrainShape, HotShape, Transactions
<1> QED BY <1>2, <1>3 DEF Quiet, RestoresTruth

LEMMA AbortInv == Inv /\ Abort => Inv'
<1> SUFFICES ASSUME Inv, Abort PROVE Inv'
    OBVIOUS
<1>1. /\ UNCHANGED <<source, queue, nudge, hung, watched, cancel, bound, next, poolGen, published>>
      /\ op.kind # "none" /\ Fail(inner, op, fam)
    BY DEF Abort, Still, pubVars
<1>2. /\ inner \in Inner /\ op \in Transactions /\ fam \in [Families -> Family] /\ Fewer(fam, fam)
      /\ op.pc # "free"
    BY <1>1, NoOpFacts DEF Inv, TypeOK, Fewer, World, Shape
<1>3. left' \in Nat
    BY SMTT(20) DEF Abort, Spend, Inv, TypeOK
<1> QED BY <1>1, <1>2, <1>3, FailedInv, RollbackQuiet

LEMMA NothingToReloadInv == Inv /\ NothingToReload => Inv'
<1> SUFFICES ASSUME Inv, NothingToReload PROVE Inv'
    OBVIOUS
<1>1. /\ UNCHANGED <<source, queue, nudge, hung, watched, cancel, bound, next, poolGen, published, left>>
      /\ op.pc = "clean" /\ Fail(inner, op, fam)
    BY DEF NothingToReload, Still, pubVars
<1>2. /\ inner \in Inner /\ op \in Transactions /\ fam \in [Families -> Family] /\ Fewer(fam, fam) /\ left \in Nat
    BY DEF Inv, TypeOK, Fewer
<1> QED BY <1>1, <1>2, FailedInv, RollbackQuiet

\* An error of the candidate, killed or not there yet.
LEMMA CandidateErrorInv ==
    ASSUME Inv, op.pc \in {"spawn", "ready"}, NEW o \in Transactions, NEW f \in [Families -> Family],
           CandidateError(inner, o, f),
           UNCHANGED <<source, queue, nudge, hung, watched, cancel, next, poolGen, published>>,
           bound' \in {bound, source = "Bind"}, left' \in Nat, o.restore = op.restore,
           o.old = op.old, o.guard = op.guard, o.cand \in {op.cand, None},
           Fewer(fam, f), inner.child # None => f[inner.child].procs = fam[inner.child].procs,
           o.cand # op.cand => f[op.cand].procs = {}
    PROVE  Inv'
<1>1. inner \in Inner /\ op \in Transactions
    BY DEF Inv, TypeOK
<1>2. CASE op.phase = "start"
    <2> DEFINE in == [inner EXCEPT !.state = "Bad"]
    <2>1. Fail(in, Disarmed(o), f)
        BY <1>2 DEF CandidateError
    <2>2. /\ in \in Inner /\ in.child = inner.child /\ in.child_marker = inner.child_marker /\ in.state = "Bad"
          /\ in.retired_markers = inner.retired_markers /\ in.generation = inner.generation
        BY <1>1 DEF Inner, WorkerState
    <2>3. /\ Disarmed(o) \in Transactions /\ Disarmed(o).restore = "disarmed"
          /\ Disarmed(o).old = o.old /\ Disarmed(o).guard = o.guard /\ Disarmed(o).cand = o.cand
        BY DEF Disarmed, Transactions
    <2> HIDE DEF in
    <2>4. Quiet(Unwound(in, Disarmed(o)))
        BY SMTT(20), <1>2, <2>2, <2>3, UnwoundFacts DEF Quiet, Inv, World, Shape, StartShape
    <2> QED BY <2>1, <2>2, <2>3, <2>4, FailedInv
<1>3. CASE op.phase # "start"
    <2>1. Fail(inner, o, f)
        BY <1>3 DEF CandidateError
    <2> QED BY <1>1, <2>1, FailedInv, RollbackQuiet
<1> QED BY <1>2, <1>3

LEMMA SpawnFailsInv == Inv /\ SpawnFails => Inv'
<1> SUFFICES ASSUME Inv, SpawnFails PROVE Inv'
    OBVIOUS
<1>1. /\ UNCHANGED <<source, queue, nudge, hung, watched, cancel, next, poolGen, published>>
      /\ op.pc = "spawn" /\ CandidateError(inner, op, fam) /\ bound' \in {bound, source = "Bind"}
    BY DEF SpawnFails, Still, pubVars
<1>2. op \in Transactions /\ fam \in [Families -> Family] /\ Fewer(fam, fam)
    BY DEF Inv, TypeOK, Fewer
<1>3. left' \in Nat
    BY SMTT(20) DEF SpawnFails, Spend, Inv, TypeOK
<1> QED BY <1>1, <1>2, <1>3, CandidateErrorInv

\* discard_candidate.
LEMMA DiscardFacts ==
    ASSUME Inv, op.cand # None
    PROVE  /\ Discarded(fam) \in Transactions /\ Killed(fam, op.cand) \in [Families -> Family]
           /\ Discarded(fam).old = op.old /\ Discarded(fam).guard = op.guard
           /\ Discarded(fam).restore = op.restore /\ Discarded(fam).cand \in {op.cand, None}
           /\ Discarded(fam).cand # op.cand => Killed(fam, op.cand)[op.cand].procs = {}
           /\ Fewer(fam, Killed(fam, op.cand))
           /\ inner.child # None => Killed(fam, op.cand)[inner.child].procs = fam[inner.child].procs
<1>1. op \in Transactions /\ inner \in Inner /\ fam \in [Families -> Family] /\ op.cand \in Marks /\ inner.child # op.cand
    BY DEF Inv, TypeOK, Transactions, World, Apart
<1>2. /\ Discarded(fam) \in Transactions
      /\ Discarded(fam).old = op.old /\ Discarded(fam).guard = op.guard
      /\ Discarded(fam).restore = op.restore /\ Discarded(fam).cand \in {op.cand, None}
      /\ Discarded(fam).cand # op.cand => Gone(Killed(fam, op.cand), op.cand)
    BY SMTT(20), <1>1 DEF Discarded, Transactions, Marks
<1>3. /\ Killed(fam, op.cand) \in [Families -> Family] /\ Fewer(fam, Killed(fam, op.cand))
      /\ \A k \in Families \ {op.cand} : Killed(fam, op.cand)[k] = fam[k]
    BY <1>1, KilledFacts
<1>4. inner.child # None => inner.child \in Families \ {op.cand}
    BY <1>1 DEF Inner, Marks
<1> QED BY <1>2, <1>3, <1>4 DEF Gone

LEMMA ReadyFailsInv == Inv /\ ReadyFails => Inv'
<1> SUFFICES ASSUME Inv, ReadyFails PROVE Inv'
    OBVIOUS
<1>1. /\ UNCHANGED <<source, queue, nudge, hung, watched, cancel, bound, next, poolGen, published>>
      /\ op.pc = "ready" /\ CandidateError(inner, Discarded(fam), Killed(fam, op.cand))
    BY DEF ReadyFails, Still, pubVars
<1>2. op.cand # None
    BY <1>1 DEF Inv, TypeOK, Transactions, World, Shape, StartShape, DrainShape, HotShape
<1>3. left' \in Nat
    BY SMTT(20) DEF ReadyFails, Spend, Inv, TypeOK
<1> QED BY <1>1, <1>2, <1>3, CandidateErrorInv, DiscardFacts

LEMMA HotQuiesceFailsInv == Inv /\ HotQuiesceFails => Inv'
<1> SUFFICES ASSUME Inv, HotQuiesceFails PROVE Inv'
    OBVIOUS
<1>1. /\ UNCHANGED <<source, queue, nudge, hung, watched, cancel, bound, next, poolGen, published>>
      /\ op.pc \in {"quiesce", "stopped"} /\ op.phase = "hot" /\ Fail(inner, Discarded(fam), Killed(fam, op.cand))
    BY DEF HotQuiesceFails, Still, pubVars
<1>2. op.cand # None /\ op.pc # "free" /\ inner \in Inner
    BY <1>1 DEF Inv, TypeOK, World, Shape, HotShape
<1>3. left' \in Nat
    BY SMTT(20) DEF HotQuiesceFails, Spend, Inv, TypeOK
<1> QED BY <1>1, <1>2, <1>3, FailedInv, DiscardFacts, RollbackQuiet

---------------------------------------------------------------------------
(* Promotions.                                                             *)

LEMMA PromotedFacts ==
    ASSUME Inv, op.cand # None
    PROVE  /\ Promoted \in Inner /\ Promoted.child = op.cand /\ Promoted.child_marker = op.cand
           /\ Promoted.state = "Good" /\ Promoted.generation = inner.generation + 1
           /\ Promoted.retired_markers = inner.retired_markers
           /\ op.cand \in Families /\ Lives(fam, op.cand) /\ op.cand \notin inner.retired_markers
<1>1. inner \in Inner /\ op.cand \in Families
    BY DEF Inv, TypeOK, Transactions, Marks
<1>2. inner.generation \in Nat /\ inner.generation + 1 \in Nat
    BY SMTT(20), <1>1 DEF Inner
<1> QED BY <1>1, <1>2 DEF Promoted, Inner, Marks, WorkerState, Inv, World, Healthy, Apart

\* PromotionHook leaves the pool at the generation that serves.
LEMMA HookFacts ==
    ASSUME Inv, PromotionHook(inner.generation + 1, op.cand), op.cand # None
    PROVE  poolGen' = inner.generation + 1 /\ published' \in {op.cand, Retired} /\ poolGen' \in Nat
BY SMTT(20) DEF PromotionHook, Inv, PoolOK, TypeOK, Inner

LEMMA StartPromotesInv == Inv /\ StartPromotes => Inv'
<1> SUFFICES ASSUME Inv, StartPromotes PROVE Inv'
    OBVIOUS
<1> USE Names, NoOpFacts
<1>1. /\ UNCHANGED <<source, queue, nudge, hung, watched, cancel, bound, next, left>>
      /\ op.pc = "ready" /\ op.phase = "start" /\ PromotionHook(inner.generation + 1, op.cand)
      /\ Return(Promoted, fam, TRUE)
    BY DEF StartPromotes, Probed, Still
<1>2. /\ op.cand # None /\ inner.child = None /\ op.guard = None /\ fam \in [Families -> Family]
      /\ next \in Nat \ {0} /\ stop # "exited"
    BY <1>1 DEF Inv, TypeOK, World, Shape, StartShape, ExitOK
<1>3. /\ Promoted \in Inner /\ Promoted.child = op.cand /\ Promoted.child_marker = op.cand
      /\ Promoted.state = "Good" /\ Promoted.generation = inner.generation + 1
      /\ Promoted.retired_markers = inner.retired_markers
      /\ op.cand \in Families /\ Lives(fam, op.cand) /\ op.cand \notin inner.retired_markers
    BY <1>2, PromotedFacts
<1>4. Quiet(Promoted)
    BY <1>2, <1>3 DEF Quiet
<1>5. Numbered(Promoted, NoOp, fam, next)
    BY <1>2, <1>3 DEF Inv, World, Numbered
<1>6. Apart(Promoted, NoOp) /\ Healthy(Promoted, NoOp, fam)
    BY <1>1, <1>3 DEF Inv, World, Healthy, Apart
<1>7. Owned(Promoted, NoOp, fam)
    BY <1>2, <1>3 DEF Inv, Owned
<1>8. Ends(Promoted)
    BY <1>1, <1>2, <1>3, <1>4, <1>5, <1>6, <1>7, ReturnEnds
<1>9. poolGen' = inner.generation + 1 /\ published' \in {op.cand, Retired} /\ poolGen' \in Nat
    BY <1>1, <1>2, HookFacts
<1>10. inner'.child = op.cand /\ inner'.generation = inner.generation + 1
    BY <1>3, <1>8 DEF Ends
<1>11. TypeOK'
    BY <1>1, <1>3, <1>8, <1>9 DEF Ends, Inv, TypeOK, Marks
<1>12. PoolOK'
    BY SMTT(20), <1>9, <1>10 DEF PoolOK
<1>13. BoundOK'
    BY <1>1, <1>8 DEF BoundOK, Inv, Ends
<1> QED BY <1>8, <1>11, <1>12, <1>13 DEF Inv, Ends

LEMMA SignalledFacts ==
    ASSUME NEW f \in [Families -> Family], NEW m \in Families
    PROVE  /\ Signalled(f, m) \in [Families -> Family]
           /\ \A k \in Families \ {m} : Signalled(f, m)[k] = f[k]
           /\ ~Signalled(f, m)[m].stopped /\ Signalled(f, m)[m].procs = f[m].procs
BY DEF Signalled, Family

LEMMA AfterSignalsFacts ==
    ASSUME Inv, NEW fails \in BOOLEAN
    PROVE  /\ AfterSignals(fails) \in Transactions /\ AfterSignals(fails).pc \in {"grace", "force"}
           /\ AfterSignals(fails).kind = op.kind /\ AfterSignals(fails).phase = op.phase
           /\ AfterSignals(fails).restore = op.restore
           /\ Holds(AfterSignals(fails), op.cand, op.old, op.guard)
BY DEF AfterSignals, Transactions, Holds, Inv, TypeOK

LEMMA CommitInv == Inv /\ Commit => Inv'
<1> SUFFICES ASSUME Inv, Commit PROVE Inv'
    OBVIOUS
<1> USE Names
<1> DEFINE f == Signalled(fam, op.old)
           in == [Promoted EXCEPT !.recent = TRUE]
<1>1. PICK fails \in BOOLEAN :
         /\ SignalOutcome(fails)
         /\ Goto([AfterSignals(fails) EXCEPT !.cand = None, !.guard = op.old, !.restore = "disarmed"], in, f)
    BY DEF Commit
<1>2. /\ UNCHANGED <<source, queue, nudge, hung, watched, cancel, bound, next>>
      /\ op.pc = "stopped" /\ op.phase = "hot" /\ PromotionHook(inner.generation + 1, op.cand)
    BY DEF Commit, Still
<1>3. left' \in Nat
    BY SMTT(20), <1>1 DEF SignalOutcome, Outcome, Spend, Inv, TypeOK
<1>4. /\ op.cand # None /\ inner.child # None /\ op.old = inner.child /\ op.guard = None /\ op.cand # op.old
      /\ fam \in [Families -> Family] /\ next \in Nat \ {0} /\ stop # "exited" /\ op.old \in Families
      /\ source = "Inherited" /\ op.kind # "none" /\ inner.child_marker = inner.child
    BY <1>2, NoOpFacts DEF Inv, TypeOK, World, Shape, HotShape, ExitOK, Apart, Transactions, Marks
<1> DEFINE o == [AfterSignals(fails) EXCEPT !.cand = None, !.guard = op.old, !.restore = "disarmed"]
<1>5. /\ o \in Transactions /\ o.pc \in {"grace", "force"} /\ o.kind = op.kind /\ o.phase = "hot"
      /\ o.restore = "disarmed" /\ Holds(o, None, op.old, op.old)
    BY <1>2, <1>4, AfterSignalsFacts DEF Transactions, Holds, Marks
<1>6. /\ Promoted \in Inner /\ Promoted.child = op.cand /\ Promoted.child_marker = op.cand
      /\ Promoted.state = "Good" /\ Promoted.generation = inner.generation + 1
      /\ Promoted.retired_markers = inner.retired_markers
      /\ op.cand \in Families /\ Lives(fam, op.cand) /\ op.cand \notin inner.retired_markers
    BY <1>4, PromotedFacts
<1>7. /\ in \in Inner /\ in.child = op.cand /\ in.child_marker = op.cand
      /\ in.state = "Good" /\ in.generation = inner.generation + 1 /\ in.retired_markers = inner.retired_markers
    BY <1>6 DEF Inner
<1>8. /\ f \in [Families -> Family] /\ \A k \in Families \ {op.old} : f[k] = fam[k]
      /\ ~f[op.old].stopped /\ f[op.old].procs = fam[op.old].procs
    BY <1>4, SignalledFacts
<1>9. inner' = in /\ op' = o /\ fam' = f /\ UNCHANGED <<ticker, stop>>
    BY <1>1 DEF Goto
<1> HIDE DEF o, in, f
<1>10. poolGen' = inner.generation + 1 /\ published' \in {op.cand, Retired} /\ poolGen' \in Nat
    BY <1>2, <1>4, HookFacts
<1>11. TypeOK'
    BY SMTT(20), <1>2, <1>3, <1>5, <1>6, <1>7, <1>8, <1>9, <1>10 DEF Inv, TypeOK, Marks
<1>12. Shape(source', inner', op')
    BY <1>2, <1>4, <1>5, <1>7, <1>9 DEF Shape, HotShape, Quiet, Holds
<1>13. Numbered(inner', op', fam', next')
    <2>1. op.old < next /\ op.cand < next /\ 0 < next /\ \A m \in inner.retired_markers : m < next
        BY <1>4 DEF Inv, World, Numbered
    <2>2. ASSUME NEW m \in Families, m >= next PROVE f[m].procs = {} /\ ~f[m].stopped /\ ~f[m].retiring
        <3>1. m # op.old
            BY SMTT(20), <2>1, <2>2, <1>4
        <3> QED BY <3>1, <2>2, <1>8 DEF Inv, World, Numbered
    <2> QED BY <1>2, <1>5, <1>7, <1>9, <2>1, <2>2 DEF Numbered, Holds
<1>14. Apart(inner', op')
    BY <1>5, <1>6, <1>7, <1>9 DEF Apart, Holds
<1>15. Healthy(inner', op', fam')
    <2>1. Lives(f, op.cand)
        BY <1>4, <1>6, <1>8 DEF Lives
    <2>2. \A m \in Families : ~f[m].stopped
        BY <1>8 DEF Inv, World, Healthy
    <2> QED BY <1>5, <1>7, <1>9, <2>1, <2>2 DEF Healthy, Holds
<1>16. Owned(inner', op', fam')
    BY <1>4, <1>5, <1>7, <1>8, <1>9 DEF Inv, Owned, Holds
<1>17. PoolOK' /\ ExitOK'
    BY SMTT(20), <1>4, <1>7, <1>9, <1>10 DEF PoolOK, ExitOK
<1>18. BoundOK'
    BY <1>2, <1>4 DEF BoundOK
<1>19. QueueOK'
    BY SMTT(20), <1>2, <1>4, <1>5, <1>9, NoOpFacts DEF Inv, QueueOK
<1> QED BY SMTT(20), <1>11, <1>12, <1>13, <1>14, <1>15, <1>16, <1>17, <1>18, <1>19 DEF Inv, World

---------------------------------------------------------------------------
(* The handover.                                                           *)

\* A step that moves on with the same markers in hand.
SameMarks(o) ==
    /\ o \in Transactions /\ o.kind = op.kind /\ o.phase = op.phase /\ o.restore = op.restore
    /\ Holds(o, op.cand, op.old, op.guard)

\* The families keep their processes, and only the old one may change.
OnlyOld(f) ==
    /\ f \in [Families -> Family]
    /\ \A k \in Families \ {op.old} : f[k] = fam[k]
    /\ \A k \in Families : f[k].procs = fam[k].procs

LEMMA MovesOnInv ==
    ASSUME Inv, op.pc # "free", NEW o, NEW f, Goto(o, inner, f), SameMarks(o), OnlyOld(f),
           UNCHANGED <<source, queue, nudge, hung, watched, cancel, bound, next, poolGen, published>>, left' \in Nat,
           o.pc # "free", o.pc # "ready", Shape(source, inner, o),
           inner.child # None => Lives(f, inner.child), op.old # None,
           f[op.old].stopped => o.pc = "stopped", \A k \in Families \ {op.old} : ~fam[k].stopped
    PROVE  Inv'
<1> USE Names
<1>1. /\ inner \in Inner /\ next \in Nat \ {0} /\ bound \in BOOLEAN /\ op.old \in Families /\ op.cand \in Marks
      /\ fam \in [Families -> Family] /\ stop # "exited" /\ op.old < next
    BY NoOpFacts DEF Inv, TypeOK, Transactions, Marks, ExitOK, World, Numbered
<1>2. o.cand = op.cand /\ o.old = op.old /\ o.guard = op.guard /\ o \in Transactions /\ o.kind = op.kind
    BY DEF SameMarks, Holds
<1>3. Numbered(inner, o, f, next)
    <2>1. ASSUME NEW m \in Families, m >= next PROVE f[m].procs = {} /\ ~f[m].stopped /\ ~f[m].retiring
        <3>1. m # op.old
            BY SMTT(20), <1>1, <2>1
        <3> QED BY <2>1, <3>1 DEF OnlyOld, Inv, World, Numbered
    <2> QED BY <1>2, <2>1 DEF Inv, World, Numbered
<1>4. Apart(inner, o)
    BY <1>2 DEF Inv, World, Apart
<1>5. Healthy(inner, o, f)
    <2>1. op.cand # None => op.cand \in Families \ {op.old} /\ Lives(fam, op.cand)
        BY <1>1 DEF Inv, World, Healthy, Apart, Marks
    <2>2. op.cand # None => Lives(f, op.cand)
        BY <2>1 DEF OnlyOld, Lives
    <2>3. \A m \in Families : f[m].stopped => (m = o.old /\ o.pc = "stopped")
        BY <1>2 DEF OnlyOld
    <2> QED BY <1>2, <2>2, <2>3 DEF Healthy
<1>6. Owned(inner, o, f)
    BY <1>1, <1>2 DEF Inv, Owned, OnlyOld
<1>7. f \in [Families -> Family]
    BY DEF OnlyOld
<1>8. (source = "Bind" /\ inner.child # None) => bound
    BY DEF Inv, BoundOK
<1> QED BY SMTT(20), <1>1, <1>2, <1>3, <1>4, <1>5, <1>6, <1>7, <1>8, GotoKeeps DEF World

LEMMA HandoverFacts ==
    ASSUME Inv, op.pc \in {"quiesce", "stopped", "grace", "force"}
    PROVE  /\ op \in Transactions /\ inner \in Inner /\ fam \in [Families -> Family] /\ left \in Nat
           /\ op.old \in Families /\ op.old # None /\ op.phase \in {"drain", "hot"}
           /\ op.phase = "drain" => inner.child = None
           /\ op.pc # "stopped" => \A k \in Families : ~fam[k].stopped
           /\ \A k \in Families \ {op.old} : ~fam[k].stopped
           /\ inner.child # None => Lives(fam, inner.child) /\ inner.child \in Families
           /\ OnlyOld(fam)
BY Names DEF Inv, TypeOK, Transactions, Marks, Inner, World, Shape, StartShape, DrainShape, HotShape, Healthy, OnlyOld

LEMMA CandidateReadyInv == Inv /\ CandidateReady => Inv'
<1> SUFFICES ASSUME Inv, CandidateReady PROVE Inv'
    OBVIOUS
<1> DEFINE o == [op EXCEPT !.pc = "quiesce"]
<1>1. /\ UNCHANGED <<source, queue, nudge, hung, watched, cancel, bound, next, poolGen, published, left>>
      /\ op.pc = "ready" /\ op.phase = "hot" /\ Goto(o, inner, fam)
    BY DEF CandidateReady, Probed, Still, pubVars
<1>2. /\ op \in Transactions /\ inner \in Inner /\ fam \in [Families -> Family] /\ left \in Nat
      /\ inner.child # None /\ op.old = inner.child /\ Lives(fam, inner.child) /\ \A k \in Families : ~fam[k].stopped
      /\ inner.child \in Families
    BY SMTT(20), <1>1, Names DEF Inv, TypeOK, World, Shape, HotShape, Healthy, Inner, Marks
<1>3. SameMarks(o) /\ o.pc = "quiesce"
    BY <1>2 DEF SameMarks, Transactions, Holds
<1> HIDE DEF o
<1>4. Shape(source, inner, o)
    BY <1>1, <1>3 DEF SameMarks, Holds, Inv, World, Shape, HotShape, RestoresTruth
<1>5. OnlyOld(fam)
    BY <1>2 DEF OnlyOld
<1> QED BY <1>1, <1>2, <1>3, <1>4, <1>5, MovesOnInv

LEMMA QuiesceInv == Inv /\ Quiesce => Inv'
<1> SUFFICES ASSUME Inv, Quiesce PROVE Inv'
    OBVIOUS
<1> DEFINE o == [op EXCEPT !.pc = "stopped"]
           f == [fam EXCEPT ![op.old].stopped = ~Gone(fam, op.old)]
<1>1. /\ UNCHANGED <<source, queue, nudge, hung, watched, cancel, bound, next, poolGen, published, left>>
      /\ op.pc = "quiesce" /\ Goto(o, inner, f)
    BY DEF Quiesce, Still, pubVars
<1>2. /\ op \in Transactions /\ inner \in Inner /\ fam \in [Families -> Family] /\ left \in Nat
      /\ op.old \in Families /\ op.old # None /\ op.phase \in {"drain", "hot"}
      /\ \A k \in Families \ {op.old} : ~fam[k].stopped
      /\ inner.child # None => Lives(fam, inner.child) /\ inner.child \in Families
    BY <1>1, HandoverFacts
<1>3. SameMarks(o) /\ o.pc = "stopped"
    BY <1>2 DEF SameMarks, Transactions, Holds
<1>4. OnlyOld(f) /\ \A k \in Families : f[k].retiring = fam[k].retiring /\ f[k].crashed = fam[k].crashed
    <2>1. [fam[op.old] EXCEPT !.stopped = ~Gone(fam, op.old)] \in Family
        <3>1. \A r \in Family, b \in BOOLEAN : [r EXCEPT !.stopped = b] \in Family
            BY DEF Family
        <3>2. (~Gone(fam, op.old)) \in BOOLEAN
            OBVIOUS
        <3> QED BY Zenon, <1>2, <3>1, <3>2
    <2>2. f \in [Families -> Family]
        BY <1>2, <2>1
    <2>3. \A k \in Families \ {op.old} : f[k] = fam[k]
        BY <1>2
    <2>4. \A k \in Families : f[k].procs = fam[k].procs /\ f[k].retiring = fam[k].retiring /\ f[k].crashed = fam[k].crashed
        BY SMTT(20), <1>2 DEF Family
    <2> QED BY <2>2, <2>3, <2>4 DEF OnlyOld
<1> HIDE DEF o, f
<1>5. Shape(source, inner, o)
    BY <1>1, <1>2, <1>3 DEF SameMarks, Holds, Inv, World, Shape, HotShape, DrainShape, RestoresTruth
<1>6. inner.child # None => Lives(f, inner.child)
    BY <1>2, <1>4 DEF OnlyOld, Lives
<1> QED BY <1>1, <1>2, <1>3, <1>4, <1>5, <1>6, MovesOnInv

LEMMA DrainQuiesceFailsInv == Inv /\ DrainQuiesceFails => Inv'
<1> SUFFICES ASSUME Inv, DrainQuiesceFails PROVE Inv'
    OBVIOUS
<1> USE Names
<1> DEFINE o == [op EXCEPT !.pc = "force", !.error = TRUE]
           f == Resumed(fam, op.old)
<1>1. /\ UNCHANGED <<source, queue, nudge, hung, watched, cancel, bound, next, poolGen, published>>
      /\ op.pc \in {"quiesce", "stopped"} /\ op.phase = "drain" /\ Goto(o, inner, f)
    BY DEF DrainQuiesceFails, Still, pubVars
<1>2. left' \in Nat
    BY SMTT(20) DEF DrainQuiesceFails, Spend, Inv, TypeOK
<1>3. /\ op \in Transactions /\ fam \in [Families -> Family] /\ op.old \in Families /\ op.old # None
      /\ inner.child = None /\ \A k \in Families \ {op.old} : ~fam[k].stopped
    BY <1>1, HandoverFacts
<1>4. SameMarks(o) /\ o.pc = "force"
    BY <1>3 DEF SameMarks, Transactions, Holds
<1>5. OnlyOld(f) /\ ~f[op.old].stopped
    <2>1. /\ f \in [Families -> Family] /\ \A k \in Families : f[k].procs = fam[k].procs
          /\ ~f[op.old].stopped
        BY <1>3, ResumedFacts DEF Marks
    <2>2. \A k \in Families \ {op.old} : f[k] = fam[k]
        BY <1>3 DEF Resumed
    <2> QED BY <2>1, <2>2 DEF OnlyOld
<1> HIDE DEF o, f
<1>6. Shape(source, inner, o)
    BY <1>1, <1>4 DEF SameMarks, Holds, Inv, World, Shape, DrainShape, RestoresTruth
<1> QED BY SMTT(20), <1>1, <1>2, <1>3, <1>4, <1>5, <1>6, MovesOnInv

LEMMA SignalInv == Inv /\ Signal => Inv'
<1> SUFFICES ASSUME Inv, Signal PROVE Inv'
    OBVIOUS
<1> DEFINE f == Signalled(fam, op.old)
<1>1. PICK fails \in BOOLEAN : SignalOutcome(fails) /\ Goto(AfterSignals(fails), inner, f)
    BY DEF Signal
<1>2. /\ UNCHANGED <<source, queue, nudge, hung, watched, cancel, bound, next, poolGen, published>>
      /\ op.pc = "stopped" /\ op.phase = "drain"
    BY DEF Signal, Still, pubVars
<1>3. left' \in Nat
    BY SMTT(20), <1>1 DEF SignalOutcome, Outcome, Spend, Inv, TypeOK
<1>4. /\ op \in Transactions /\ fam \in [Families -> Family] /\ op.old \in Families /\ op.old # None
      /\ inner.child = None /\ \A k \in Families \ {op.old} : ~fam[k].stopped
    BY <1>2, HandoverFacts
<1>5. SameMarks(AfterSignals(fails)) /\ AfterSignals(fails).pc \in {"grace", "force"}
    BY AfterSignalsFacts DEF SameMarks
<1>6. OnlyOld(f) /\ ~f[op.old].stopped
    BY SMTT(20), <1>4, SignalledFacts DEF OnlyOld
<1> HIDE DEF f
<1>7. Shape(source, inner, AfterSignals(fails))
    BY <1>2, <1>5 DEF SameMarks, Holds, Inv, World, Shape, DrainShape, RestoresTruth
<1> QED BY <1>1, <1>2, <1>3, <1>4, <1>5, <1>6, <1>7, MovesOnInv

LEMMA GraceOverInv == Inv /\ GraceOver => Inv'
<1> SUFFICES ASSUME Inv, GraceOver PROVE Inv'
    OBVIOUS
<1>1. PICK fails \in BOOLEAN : Outcome(fails) /\ Goto([op EXCEPT !.pc = "force", !.error = fails], inner, fam)
    BY DEF GraceOver
<1> DEFINE o == [op EXCEPT !.pc = "force", !.error = fails]
<1>2. /\ UNCHANGED <<source, queue, nudge, hung, watched, cancel, bound, next, poolGen, published>>
      /\ op.pc = "grace"
    BY DEF GraceOver, Still, pubVars
<1>3. left' \in Nat
    BY SMTT(20), <1>1 DEF Outcome, Spend, Inv, TypeOK
<1>4. /\ op \in Transactions /\ fam \in [Families -> Family] /\ op.old \in Families /\ op.old # None
      /\ \A k \in Families : ~fam[k].stopped /\ OnlyOld(fam)
      /\ inner.child # None => Lives(fam, inner.child)
      /\ op.phase \in {"drain", "hot"}
    BY <1>2, HandoverFacts
<1>5. SameMarks(o) /\ o.pc = "force"
    BY <1>4 DEF SameMarks, Transactions, Holds
<1>6. Goto(o, inner, fam)
    BY <1>1
<1> HIDE DEF o
<1>7. Shape(source, inner, o)
    BY <1>2, <1>4, <1>5 DEF SameMarks, Holds, Inv, World, Shape, HotShape, DrainShape, RestoresTruth
<1> QED BY <1>2, <1>3, <1>4, <1>5, <1>6, <1>7, MovesOnInv

\* finish_generation_drain: the old family is gone, or its marker is kept.
LEMMA DrainResultInv ==
    ASSUME Inv, op.pc \in {"grace", "force"}, NEW f \in [Families -> Family], NEW ok \in BOOLEAN,
           DrainResult(f, ok), Fewer(fam, f), \A k \in Families \ {op.old} : f[k] = fam[k],
           ok => f[op.old].procs = {},
           UNCHANGED <<source, queue, nudge, hung, watched, cancel, next, poolGen, published, left>>
    PROVE  Inv'
<1> USE Names, NoOpFacts
<1>1. /\ op \in Transactions /\ inner \in Inner /\ fam \in [Families -> Family] /\ left \in Nat
      /\ op.old \in Families /\ op.phase \in {"drain", "hot"}
      /\ op.phase = "drain" => inner.child = None
      /\ inner.child # None => inner.child \in Families
      /\ \A k \in Families : ~fam[k].stopped
    BY HandoverFacts
<1>2. /\ op.cand = None /\ op.guard = op.old /\ inner.child # op.old /\ op.pc # "free" /\ stop # "exited"
      /\ op.phase = "hot" => Quiet(inner) /\ inner.child # None
      /\ inner.child_marker = inner.child /\ next \in Nat \ {0} /\ bound \in BOOLEAN
    BY <1>1 DEF Inv, TypeOK, World, Shape, HotShape, DrainShape, ExitOK
<1>3. inner.child # None => f[inner.child] = fam[inner.child]
    BY <1>1, <1>2
<1> DEFINE o == IF ok THEN [op EXCEPT !.guard = None] ELSE op
<1>4. CASE op.phase = "drain" /\ ok
    <2>1. Drained(inner, f)
        BY <1>4 DEF DrainResult
    <2> QED BY <1>1, <1>4, <2>1, DrainedInv
<1>5. CASE op.phase = "drain" /\ ~ok
    <2> DEFINE in == [inner EXCEPT !.state = "Bad"]
    <2>1. Fail(in, Disarmed(op), f) /\ UNCHANGED bound
        BY <1>5 DEF DrainResult
    <2>2. /\ in \in Inner /\ in.child = inner.child /\ in.child_marker = inner.child_marker /\ in.state = "Bad"
          /\ in.retired_markers = inner.retired_markers /\ in.generation = inner.generation
        BY <1>1 DEF Inner, WorkerState
    <2>3. /\ Disarmed(op) \in Transactions /\ Disarmed(op).restore = "disarmed"
          /\ Disarmed(op).old = op.old /\ Disarmed(op).guard = op.guard /\ Disarmed(op).cand = op.cand
        BY <1>1 DEF Disarmed, Transactions
    <2> HIDE DEF in
    <2>4. Quiet(Unwound(in, Disarmed(op)))
        BY <1>1, <1>5, <2>2, <2>3, UnwoundFacts DEF Quiet
    <2> QED BY <1>1, <1>2, <1>3, <2>1, <2>2, <2>3, <2>4, FailedInv
<1>6. CASE op.phase = "hot" /\ ~ok
    <2>1. Fail(inner, op, f) /\ UNCHANGED bound
        BY <1>6 DEF DrainResult
    <2> QED BY <1>1, <1>2, <1>3, <2>1, FailedInv, RollbackQuiet
<1>7. CASE op.phase = "hot" /\ ok
    <2>1. Return(inner, f, TRUE) /\ UNCHANGED bound
        BY <1>7 DEF DrainResult
    <2>2. Numbered(inner, NoOp, f, next) /\ Apart(inner, NoOp)
        BY <1>2 DEF Inv, World, Numbered, Apart, Fewer
    <2>3. Healthy(inner, NoOp, f)
        <3>1. \A k \in Families : ~f[k].stopped
            BY <1>1 DEF Fewer
        <3>2. inner.child # None => Lives(f, inner.child)
            BY <1>3 DEF Inv, World, Healthy, Lives
        <3> QED BY <3>1, <3>2 DEF Healthy
    <2>4. Owned(inner, NoOp, f)
        <3> SUFFICES ASSUME NEW m \in Families, f[m].procs # {}
                     PROVE  m \in {inner.child} \cup inner.retired_markers
            BY DEF Owned
        <3>1. m # op.old /\ fam[m].procs # {}
            BY <1>7 DEF Fewer
        <3> QED BY <1>2, <3>1 DEF Inv, Owned
    <2>5. Ends(inner)
        BY <1>1, <1>2, <1>7, <2>1, <2>2, <2>3, <2>4, ReturnEnds
    <2> QED BY <1>1, <1>2, <2>1, <2>5, EndedInv DEF Inv, BoundOK
<1> QED BY <1>1, <1>4, <1>5, <1>6, <1>7

LEMMA GraceDoneInv == Inv /\ GraceDone => Inv'
<1> SUFFICES ASSUME Inv, GraceDone PROVE Inv'
    OBVIOUS
<1>1. /\ UNCHANGED <<source, queue, nudge, hung, watched, cancel, next, poolGen, published, left>>
      /\ op.pc = "grace" /\ fam[op.old].procs = {} /\ DrainResult(fam, TRUE)
    BY DEF GraceDone, Gone, Still, pubVars
<1>2. fam \in [Families -> Family] /\ Fewer(fam, fam)
    BY DEF Inv, TypeOK, Fewer
<1> QED BY <1>1, <1>2, DrainResultInv

LEMMA ForceKillInv == Inv /\ ForceKill => Inv'
<1> SUFFICES ASSUME Inv, ForceKill PROVE Inv'
    OBVIOUS
<1> DEFINE f == Killed(fam, op.old)
           ok == Gone(f, op.old) /\ ~op.error
<1>1. /\ UNCHANGED <<source, queue, nudge, hung, watched, cancel, next, poolGen, published, left>>
      /\ op.pc = "force" /\ DrainResult(f, ok)
    BY DEF ForceKill, Still, pubVars
<1>2. fam \in [Families -> Family] /\ op.old \in Marks
    BY DEF Inv, TypeOK, Transactions
<1>3. f \in [Families -> Family] /\ Fewer(fam, f) /\ \A k \in Families \ {op.old} : f[k] = fam[k]
    BY <1>2, KilledFacts
<1>4. ok \in BOOLEAN /\ (ok => f[op.old].procs = {})
    BY DEF Gone
<1> HIDE DEF f, ok
<1> QED BY <1>1, <1>3, <1>4, DrainResultInv

---------------------------------------------------------------------------
(* The whole supervisor.                                                   *)

LEMMA InitInv == Init => Inv
<1> SUFFICES ASSUME Init PROVE Inv
    OBVIOUS
<1> USE Names, NoOpFacts, SupervisorAssumption
<1>1. inner \in Inner /\ inner.child = None /\ inner.child_marker = None /\ inner.retired_markers = {}
      /\ inner.state = "NotStarted" /\ inner.generation = 0
    BY SMTT(20) DEF Init, Inner, Marks, WorkerState
<1>2. fam \in [Families -> Family] /\ \A m \in Families : fam[m].procs = {} /\ ~fam[m].stopped /\ ~fam[m].retiring
    BY DEF Init, Family
<1>3. ticker \in Tickers /\ ticker.pc = "off"
    BY DEF Init, Tickers, Kinds
<1>4. queue \in Seq(Kinds)
    BY SMTT(20) DEF Init, Kinds
<1>5. TypeOK
    <2>1. left \in Nat /\ next \in Nat \ {0} /\ poolGen \in Nat
        BY SMTT(20) DEF Init
    <2>2. source \in Sources /\ bound \in BOOLEAN /\ op \in Transactions /\ nudge \in BOOLEAN /\ hung \in BOOLEAN
        BY DEF Init
    <2>3. /\ watched \in WorkerState /\ published \in Marks \cup {Retired} /\ cancel \in BOOLEAN
          /\ stop \in {"run", "retired", "join", "drain", "stopped", "exited"}
        BY DEF Init, WorkerState, Marks
    <2> QED BY <1>1, <1>2, <1>3, <1>4, <2>1, <2>2, <2>3 DEF TypeOK
<1>6. Shape(source, inner, op) /\ Apart(inner, op)
    BY <1>1 DEF Init, Shape, Apart, Quiet, Holds
<1>7. Numbered(inner, op, fam, next)
    BY SMTT(20), <1>1, <1>2 DEF Init, Numbered
<1>8. Healthy(inner, op, fam) /\ Owned(inner, op, fam)
    BY <1>1, <1>2 DEF Init, Healthy, Owned
<1>9. PoolOK /\ BoundOK /\ ExitOK
    BY SMTT(20), <1>1 DEF Init, PoolOK, BoundOK, ExitOK
<1>10. QueueOK
    BY <1>1, <1>3 DEF Init, QueueOK
<1> QED BY SMTT(20), <1>5, <1>6, <1>7, <1>8, <1>9, <1>10 DEF Inv, World

LEMMA StutterInv == Inv /\ UNCHANGED vars => Inv'
<1> SUFFICES ASSUME Inv, UNCHANGED vars PROVE Inv'
    OBVIOUS
<1>1. UNCHANGED <<source, inner, bound, fam, next, op, queue, ticker, nudge, hung, watched, poolGen, published, cancel, stop, left>>
    BY DEF vars, procVars, monVars, pubVars
<1>2. TypeOK'
    BY <1>1 DEF Inv, TypeOK
<1>3. PoolOK' /\ QueueOK' /\ ExitOK'
    BY <1>1 DEF Inv, PoolOK, QueueOK, ExitOK, Gone
<1> QED BY <1>1, <1>2, <1>3, Outside DEF Inv

LEMMA NextInv == Inv /\ [Next]_vars => Inv'
<1> SUFFICES ASSUME Inv, [Next]_vars PROVE Inv'
    OBVIOUS
<1>1. CASE Begins
    BY <1>1, EnterStartInv, EnterDrainInv, EnterKillInv, EnterReloadInv, EnterRestartInv, BackedOffInv,
       BackoffCancelledInv DEF Begins
<1>2. CASE Cleans
    BY <1>2, CleanupMarkerInv, NothingToDrainInv, TakeChildInv, ReadyToSpawnInv, CaptureOldInv,
       NothingToReloadInv DEF Cleans
<1>3. CASE Starts
    BY SMTT(20), <1>3, SpawnInv, SpawnFailsInv, ReadyFailsInv, StartPromotesInv, CandidateReadyInv, HotQuiesceFailsInv,
       CommitInv DEF Starts
<1>4. CASE Drains
    BY <1>4, QuiesceInv, DrainQuiesceFailsInv, SignalInv, GraceDoneInv, GraceOverInv, ForceKillInv DEF Drains
<1>5. CASE Monitor
    BY <1>5, TickerStopsInv, TickerNudgedInv, TickInv, TickerAfterInv DEF Monitor
<1>6. CASE Abort \/ WindowOver \/ RequestRestart \/ Hang \/ Reload
    BY <1>6, AbortInv, WindowOverInv, RequestsInv, ReloadInv
<1>7. CASE StopRetires \/ Stopping
    BY <1>7, StoppingInv, ExitInv DEF Stopping
<1>8. CASE \E m \in Families : Crash(m) \/ Wedge(m) \/ FamilyExits(m)
    BY <1>8, CrashInv, WedgeInv, FamilyExitsInv
<1>9. CASE UNCHANGED vars
    BY <1>9, StutterInv
<1> QED BY SMTT(20), <1>1, <1>2, <1>3, <1>4, <1>5, <1>6, <1>7, <1>8, <1>9 DEF Next, Transaction

THEOREM Invariance == Spec => []Inv
BY InitInv, NextInv, PTL DEF Spec

\* Whatever crashes, fails or is dropped, every process family that still runs is the
\* serving one, is guarded by the running transaction or is queued for cleanup, and
\* after the drop of the owner only families no kill removes are left
\* (Inner::retired_markers, RetiredMarkerGuard, LsphpSupervisor::drop).
THEOREM NoFamilyLost == Spec => []FamiliesAccounted
<1>1. Inv => FamiliesAccounted
    BY DEF Inv, World, Shape, Owned, ExitOK, FamiliesAccounted, FamiliesOwned, ExitLeavesOnlyWedged, Gone
<1> QED BY <1>1, Invariance, PTL

\* However a transaction ended, and with the next one not begun, the state is a stable
\* one that says whether there is a child, no acceptor is left under SIGSTOP, and the
\* pool and the announcement stand for the serving family (StateRollback,
\* QuiescedGeneration::drop, the promotion hook).
THEOREM EndsSettled == Spec => []Settled
<1>1. Inv => SettledState
    BY NoOpFacts DEF Inv, World, Shape, Quiet, BoundOK, SettledState
<1>2. Inv => NothingLeftStopped
    BY DEF Inv, World, Healthy, NothingLeftStopped
<1>3. Inv => PublishedIsServing
    BY DEF Inv, PoolOK, PublishedIsServing
<1> QED BY <1>1, <1>2, <1>3, Invariance, PTL DEF Settled

\* As long as the masters involved do not die, the socket has an acceptor of a ready
\* family at every step of a candidate-first reload (hot_reload_locked).
THEOREM ReloadsHear == Spec => []HotReloadNeverDeaf
<1>1. Inv => HotReloadNeverDeaf
    <2> SUFFICES ASSUME Inv, op.phase = "hot", inner.child # None,
                        \A m \in {inner.child, op.cand} \ {None} : ~fam[m].crashed
                 PROVE  \E m \in Ready \ {None} : Accepts(m)
        BY DEF HotReloadNeverDeaf
    <2>1. /\ inner.child \in Families /\ Lives(fam, inner.child) /\ op.cand \in Marks
          /\ op.cand # None => Lives(fam, op.cand) /\ op.cand # op.old
          /\ \A m \in Families : fam[m].stopped => (m = op.old /\ op.pc = "stopped")
        BY DEF Inv, TypeOK, Inner, Transactions, Marks, World, Healthy, Apart
    <2>2. CASE op.pc = "stopped"
        <3>1. op.cand # None /\ op.cand \in Ready
            BY <2>2 DEF Inv, World, Shape, HotShape, Ready
        <3>2. Accepts(op.cand)
            BY <2>1, <3>1 DEF Lives, Accepts, Marks
        <3> QED BY <3>1, <3>2
    <2>3. CASE op.pc # "stopped"
        <3>1. Accepts(inner.child)
            BY <2>1, <2>3 DEF Lives, Accepts
        <3> QED BY <3>1 DEF Ready
    <2> QED BY <2>2, <2>3
<1> QED BY <1>1, Invariance, PTL

===========================================================================
