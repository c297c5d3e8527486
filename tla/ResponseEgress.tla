--------------------------- MODULE ResponseEgress ---------------------------
(***************************************************************************)
(* Response bodies on their way from the pipeline runtime to a transport   *)
(* core: buffered bodies (send_full), files (forward_file) and streams     *)
(* (forward_stream, pump_body).  Every chunk is charged to the server-wide *)
(* byte budget and to its connection's share of it, and stays charged      *)
(* until the transport has written it.                                     *)
(*                                                                         *)
(* A budget is what BodyBudget shows it to be: reservations that fit are   *)
(* taken at once by callers that do not wait, callers that wait are served *)
(* in order of arrival.                                                    *)
(***************************************************************************)
EXTENDS Naturals, SequencesExt, FiniteSetsExt

CONSTANTS
    Streams,      \* responses, each forwarded by one task
    Conns,        \* connections
    ConnOf,       \* the connection of each response
    Global,       \* the server-wide budget
    GlobalMax,    \* its size
    ShareMax,     \* CONNECTION_RESPONSE_MEM
    FrameClaim,   \* FRAME_CLAIM
    FileChunk,    \* the preferred size of a file read
    Threshold,    \* STREAM_THRESHOLD
    FullLeaseMin, \* FULL_LEASE_MIN
    Depth,        \* STREAM_CHANNEL_DEPTH, FILE_READ_AHEAD
    Sizes,        \* sizes of the frames and bodies the backend produces
    Reading,      \* connections whose peer keeps reading
    MaxFrames     \* bound: frames or reads of one response

EgressAssumption ==
    /\ ConnOf \in [Streams -> Conns]
    /\ Global \notin Conns
    /\ {GlobalMax, ShareMax, FrameClaim, FileChunk, Depth} \subseteq Nat \ {0}
    /\ {Threshold, FullLeaseMin, MaxFrames} \subseteq Nat
    /\ Sizes \subseteq Nat \ {0}
    /\ Reading \subseteq Conns

VARIABLES
    used,   \* bytes reserved on each budget
    line,   \* the tasks waiting on each budget, in order
    pc,     \* where each forwarding task is
    kind,   \* what it forwards
    lease,  \* what its ResponseLease holds
    frame,  \* the bytes in its hands
    todo,   \* frames it has yet to queue before it pumps
    made,   \* frames and reads so far
    eof,    \* whether the source was read to its end, or an error sent instead
    rx,     \* the transport's receiver
    queue,  \* chunks in the channel
    out     \* the chunk the transport is writing

budgetVars == <<used, line>>
taskVars == <<pc, kind, lease, frame, todo, made, eof>>
vars == <<budgetVars, taskVars, rx, queue, out>>

Budgets == Conns \cup {Global}
Cap(b) == IF b = Global THEN GlobalMax ELSE ShareMax
Fits(b, n) == used[b] + n <= Cap(b)

Lesser(a, b) == IF a < b THEN a ELSE b

\* Mutant: an oversized frame asks for all of its bytes
ConnectionShare_Unclamped(n) == n

ConnectionShare(n) == Lesser(n, ShareMax)
ChunkSize == Lesser(FileChunk, Lesser(GlobalMax, ShareMax))

NoLease == [g |-> 0, c |-> 0]
Chunk(n, l) == [n |-> n, g |-> l.g, c |-> l.c, abort |-> FALSE]
Abort == [Chunk(0, NoLease) EXCEPT !.abort = TRUE]

\* Waiting in acquire_wait: the budget asked, and for how much.
Waiting == {"claim", "share", "global", "rebook", "fullShare"}
Asked(s) == IF pc[s] = "global" THEN Global ELSE ConnOf[s]
Amount(s) ==
    CASE pc[s] = "claim" -> ConnectionShare(FrameClaim)
      [] pc[s] \in {"share", "global"} -> ChunkSize
      [] OTHER -> ConnectionShare(frame[s])

\* Type correctness: budgets, their queues, channels and tasks have the shapes the
\* forwarding tasks give them.
TypeOK ==
    /\ used \in [Budgets -> Nat] /\ \A b \in Budgets : used[b] <= Cap(b)
    /\ line \in [Budgets -> Seq(Streams)]
    /\ pc \in [Streams -> {"idle", "buffer", "fullGlobal", "fullTry", "slot", "pull", "read",
                           "charge", "chargeShare", "deliver", "end"} \cup Waiting]
    /\ kind \in [Streams -> {"full", "file", "stream"}]
    /\ lease \in [Streams -> [g : Nat, c : Nat]]
    /\ frame \in [Streams -> Nat] /\ todo \in [Streams -> Seq(Nat)]
    /\ made \in [Streams -> 0 .. MaxFrames]
    /\ eof \in [Streams -> BOOLEAN]
    /\ rx \in [Streams -> {"waiting", "open", "closed"}]
    /\ {queue, out} \subseteq [Streams -> Seq([n : Nat, g : Nat, c : Nat, abort : BOOLEAN])]

Init ==
    /\ used = [b \in Budgets |-> 0]
    /\ line = [b \in Budgets |-> <<>>]
    /\ pc = [s \in Streams |-> "idle"]
    /\ kind = [s \in Streams |-> "full"]
    /\ lease = [s \in Streams |-> NoLease]
    /\ frame = [s \in Streams |-> 0]
    /\ todo = [s \in Streams |-> <<>>]
    /\ made = [s \in Streams |-> 0]
    /\ eof = [s \in Streams |-> FALSE]
    /\ rx = [s \in Streams |-> "waiting"]
    /\ queue = [s \in Streams |-> <<>>]
    /\ out = [s \in Streams |-> <<>>]

Goto(s, there) == pc' = [pc EXCEPT ![s] = there]
Set(f, s, v) == [f EXCEPT ![s] = v]

\* What a sequence of chunks holds on either budget; a lease gives back both.
Held(chunks) ==
    [g |-> FoldLeft(LAMBDA a, x : a + x.g, 0, chunks),
     c |-> FoldLeft(LAMBDA a, x : a + x.c, 0, chunks)]
Returned(s, l) == [used EXCEPT ![Global] = @ - l.g, ![ConnOf[s]] = @ - l.c]

\* The task returns: its lease is dropped, and once neither end of the channel is
\* left so is what was queued after the receiver had gone.
Left(s) == IF rx[s] = "closed" THEN Held(queue[s]) ELSE NoLease
Return(s, items) ==
    /\ Goto(s, "end")
    /\ used' = Returned(s, [g |-> lease[s].g + Left(s).g, c |-> lease[s].c + Left(s).c])
    /\ lease' = Set(lease, s, NoLease)
    /\ frame' = Set(frame, s, 0)
    /\ todo' = Set(todo, s, <<>>)
    /\ queue' = Set(queue, s, IF rx[s] = "closed" THEN <<>> ELSE queue[s] \o items)

-----------------------------------------------------------------------------
(* forward_response_with_budget.                                             *)

\* Body::Full, Body::Empty and a cached file: a body the transport does not own,
\* or a small one, passes uncharged; a fresh one goes through send_full.
BeginFull(s, n, fresh) ==
    /\ pc[s] = "idle"
    /\ kind' = Set(kind, s, "full")
    /\ IF fresh /\ n >= FullLeaseMin
       THEN /\ Goto(s, "fullGlobal")
            /\ frame' = Set(frame, s, n)
            /\ UNCHANGED <<rx, out, eof>>
       ELSE /\ Goto(s, "end")
            /\ rx' = Set(rx, s, "open")
            /\ out' = Set(out, s, <<Chunk(0, NoLease)>>)
            /\ eof' = Set(eof, s, TRUE)
            /\ UNCHANGED frame
    /\ UNCHANGED <<budgetVars, lease, todo, made, queue>>

\* forward_file opens the file and answers with the head, or with a 502.
BeginFile(s, opened) ==
    /\ pc[s] = "idle"
    /\ kind' = Set(kind, s, "file")
    /\ Goto(s, IF opened THEN "slot" ELSE "end")
    /\ rx' = Set(rx, s, "open")
    /\ eof' = Set(eof, s, ~opened)
    /\ UNCHANGED <<budgetVars, lease, frame, todo, made, queue, out>>

\* forward_stream: an event stream is pumped at once, anything else is buffered.
BeginStream(s, now) ==
    /\ pc[s] = "idle"
    /\ kind' = Set(kind, s, "stream")
    /\ Goto(s, IF now THEN "slot" ELSE "buffer")
    /\ rx' = Set(rx, s, IF now THEN "open" ELSE "waiting")
    /\ UNCHANGED <<budgetVars, lease, frame, todo, made, eof, queue, out>>

Produce(s) == made[s] < MaxFrames /\ made' = Set(made, s, made[s] + 1)

\* A frame joins the buffer, or takes it past the threshold: the head goes out,
\* and the buffer and the frame are queued before the rest is pumped.
BufferFrame(s, n) ==
    /\ pc[s] = "buffer"
    /\ Produce(s)
    /\ IF frame[s] + n > Threshold
       THEN /\ Goto(s, "slot")
            /\ rx' = IF rx[s] = "closed" THEN rx ELSE Set(rx, s, "open")
            /\ todo' = Set(todo, s, IF frame[s] = 0 THEN <<n>> ELSE <<frame[s], n>>)
            /\ frame' = Set(frame, s, 0)
       ELSE /\ frame' = Set(frame, s, frame[s] + n)
            /\ UNCHANGED <<pc, rx, todo>>
    /\ UNCHANGED <<budgetVars, kind, lease, eof, queue, out>>

\* The source ends within the threshold: what was buffered is a fresh full body.
BufferEof(s) ==
    /\ pc[s] = "buffer"
    /\ IF frame[s] >= FullLeaseMin
       THEN /\ Goto(s, "fullGlobal")
            /\ kind' = Set(kind, s, "full")
            /\ UNCHANGED <<rx, out, eof, frame>>
       ELSE /\ Goto(s, "end")
            /\ rx' = IF rx[s] = "closed" THEN rx ELSE Set(rx, s, "open")
            /\ out' = IF rx[s] = "closed" THEN out ELSE Set(out, s, <<Chunk(0, NoLease)>>)
            /\ eof' = Set(eof, s, TRUE)
            /\ frame' = Set(frame, s, 0)
            /\ UNCHANGED kind
    /\ UNCHANGED <<budgetVars, lease, todo, made, queue>>

\* The source fails before anything was sent (502), or the receiver is gone.
BufferFails(s) ==
    /\ pc[s] = "buffer"
    /\ rx' = IF rx[s] = "closed" THEN rx ELSE Set(rx, s, "open")
    /\ eof' = Set(eof, s, rx[s] # "closed")
    /\ Return(s, <<>>)
    /\ UNCHANGED <<line, kind, made, out>>

-----------------------------------------------------------------------------
(* send_full.                                                                *)

\* Server-wide pressure sheds the response with a 503.
FullGlobal(s) ==
    /\ pc[s] = "fullGlobal"
    /\ IF Fits(Global, frame[s])
       THEN /\ used' = [used EXCEPT ![Global] = @ + frame[s]]
            /\ lease' = [lease EXCEPT ![s].g = frame[s]]
            /\ Goto(s, "fullTry")
            /\ UNCHANGED <<frame, rx, eof>>
       ELSE /\ Goto(s, "end")
            /\ frame' = Set(frame, s, 0)
            /\ rx' = IF rx[s] = "closed" THEN rx ELSE Set(rx, s, "open")
            /\ eof' = Set(eof, s, TRUE)
            /\ UNCHANGED <<used, lease>>
    /\ UNCHANGED <<line, kind, todo, made, queue, out>>

\* The share is taken at once if it fits, otherwise the task waits for it with
\* the server-wide bytes in hand.
FullTry(s) ==
    LET share == ConnectionShare(frame[s])
    IN  /\ pc[s] = "fullTry"
        /\ IF Fits(ConnOf[s], share)
           THEN /\ used' = [used EXCEPT ![ConnOf[s]] = @ + share]
                /\ lease' = [lease EXCEPT ![s].c = share]
                /\ Goto(s, "deliver")
           ELSE Goto(s, "fullShare") /\ UNCHANGED <<used, lease>>
        /\ UNCHANGED <<line, kind, frame, todo, made, eof, rx, queue, out>>

-----------------------------------------------------------------------------
(* BodyBufferLease::reserve_wait, on whichever budget the task waits.        *)

\* Where the task goes once its bytes are reserved.
After(s) ==
    CASE pc[s] = "claim" -> "pull"
      [] pc[s] = "share" -> "global"
      [] pc[s] = "global" -> "read"
      [] OTHER -> "deliver"

Take(s) ==
    /\ used' = [used EXCEPT ![Asked(s)] = @ + Amount(s)]
    /\ lease' = IF Asked(s) = Global THEN [lease EXCEPT ![s].g = @ + Amount(s)]
                                     ELSE [lease EXCEPT ![s].c = @ + Amount(s)]
    /\ Goto(s, After(s))

\* An amount that can never fit is refused, and the task returns; one that fits
\* is taken unless somebody is already waiting; otherwise the task gets in line.
Ask(s) ==
    LET b == Asked(s)
    IN  /\ pc[s] \in Waiting /\ ~Contains(line[b], s)
        /\ \/ /\ Amount(s) > Cap(b)
              /\ Return(s, <<>>)
              /\ UNCHANGED line
           \/ /\ Fits(b, Amount(s)) /\ line[b] = <<>>
              /\ Take(s)
              /\ UNCHANGED <<line, frame, todo, queue>>
           \/ /\ Amount(s) <= Cap(b)
              /\ ~Fits(b, Amount(s)) \/ line[b] # <<>>
              /\ line' = [line EXCEPT ![b] = Append(@, s)]
              /\ UNCHANGED <<used, pc, lease, frame, todo, queue>>
        /\ UNCHANGED <<kind, made, eof, rx, out>>

\* A release wakes the first in line, which takes its bytes if they fit.
Grant(s) ==
    LET b == Asked(s)
    IN  /\ pc[s] \in Waiting /\ line[b] # <<>> /\ Head(line[b]) = s
        /\ Fits(b, Amount(s))
        /\ Take(s)
        /\ line' = [line EXCEPT ![b] = Tail(@)]
        /\ UNCHANGED <<kind, frame, todo, made, eof, rx, queue, out>>

\* The receiver is gone (tx.closed, resp.closed): the task stops waiting for
\* bytes, or for the backend's next frame, and returns.
Closed(s) ==
    /\ rx[s] = "closed" /\ pc[s] \in Waiting \cup {"pull"}
    /\ Return(s, <<>>)
    /\ line' = [b \in Budgets |-> SelectSeq(line[b], LAMBDA q : q # s)]
    /\ UNCHANGED <<kind, made, eof, rx, out>>

-----------------------------------------------------------------------------
(* forward_file, pump_body and send_leased: the queue slot comes first.      *)

\* A file then waits for its bytes, a frame already in hand is charged, a pumped
\* stream claims part of the share before it pulls.
Slot(s) ==
    /\ pc[s] = "slot"
    /\ IF rx[s] = "closed"
       THEN Return(s, <<>>)
       ELSE /\ Len(queue[s]) < Depth
            /\ Goto(s, IF kind[s] = "file" THEN "share"
                       ELSE IF todo[s] # <<>> THEN "charge" ELSE "claim")
            /\ frame' = Set(frame, s, IF todo[s] = <<>> THEN 0 ELSE Head(todo[s]))
            /\ todo' = Set(todo, s, IF todo[s] = <<>> THEN <<>> ELSE Tail(todo[s]))
            /\ UNCHANGED <<used, lease, queue>>
    /\ UNCHANGED <<line, kind, made, eof, rx, out>>

\* forward_file reads up to ChunkSize bytes and gives back what it did not get;
\* the last read leaves nothing to do.
Read(s, n, last) ==
    LET excess == ChunkSize - n
    IN  /\ pc[s] = "read"
        /\ n \in 1 .. ChunkSize
        /\ Produce(s)
        /\ used' = Returned(s, [g |-> excess, c |-> excess])
        /\ lease' = Set(lease, s, [g |-> n, c |-> n])
        /\ frame' = Set(frame, s, n)
        /\ eof' = Set(eof, s, last)
        /\ Goto(s, "deliver")
        /\ UNCHANGED <<line, kind, todo, rx, queue, out>>

\* The file is shorter than its length was, or the read fails.
ReadFails(s) ==
    /\ pc[s] = "read"
    /\ Return(s, <<Abort>>)
    /\ UNCHANGED <<line, kind, made, eof, rx, out>>

Pull(s, n) ==
    /\ pc[s] = "pull"
    /\ Produce(s)
    /\ frame' = Set(frame, s, n)
    /\ Goto(s, "charge")
    /\ UNCHANGED <<budgetVars, kind, lease, todo, eof, rx, queue, out>>

PullEof(s) ==
    /\ pc[s] = "pull"
    /\ eof' = Set(eof, s, TRUE)
    /\ Return(s, <<>>)
    /\ UNCHANGED <<line, kind, made, rx, out>>

PullFails(s) ==
    /\ pc[s] = "pull"
    /\ Return(s, <<Abort>>)
    /\ UNCHANGED <<line, kind, made, eof, rx, out>>

\* send_leased: the frame exists already, so server-wide pressure refuses it and
\* the slot carries the abort.
Charge(s) ==
    /\ pc[s] = "charge"
    /\ IF Fits(Global, frame[s])
       THEN /\ used' = [used EXCEPT ![Global] = @ + frame[s]]
            /\ lease' = [lease EXCEPT ![s].g = frame[s]]
            /\ Goto(s, "chargeShare")
            /\ UNCHANGED <<frame, todo, queue>>
       ELSE Return(s, <<Abort>>)
    /\ UNCHANGED <<line, kind, made, eof, rx, out>>


\* Mutant: the claim is forgotten when the whole share is reserved
ChargeShare_ForgetsClaim(s) ==
    LET share == ConnectionShare(frame[s])
        taken == IF Fits(ConnOf[s], share) THEN share ELSE 0
    IN  /\ pc[s] = "chargeShare"
        /\ Goto(s, IF taken = share THEN "deliver" ELSE "rebook")
        /\ used' = [used EXCEPT ![ConnOf[s]] = @ + taken]
        /\ lease' = [lease EXCEPT ![s].c = taken]
        /\ UNCHANGED <<line, kind, frame, todo, made, eof, rx, queue, out>>

\* The claim is cut down or topped up to the frame's share; if that does not fit
\* the whole claim is given back before the task waits.
ChargeShare(s) ==
    LET share == ConnectionShare(frame[s])
        claimed == lease[s].c
        taken == IF share <= claimed \/ Fits(ConnOf[s], share - claimed) THEN share ELSE 0
    IN  /\ pc[s] = "chargeShare"
        /\ Goto(s, IF taken = share THEN "deliver" ELSE "rebook")
        /\ used' = [used EXCEPT ![ConnOf[s]] = @ - claimed + taken]
        /\ lease' = [lease EXCEPT ![s].c = taken]
        /\ UNCHANGED <<line, kind, frame, todo, made, eof, rx, queue, out>>

\* The chunk goes into its slot with its lease, or a full body to the transport.
\* A receiver already gone drops a full body at once, and a queued chunk when the
\* task returns.
Deliver(s) ==
    LET chunk == Chunk(frame[s], lease[s])
        full == kind[s] = "full"
        last == full \/ eof[s]
        gone == rx[s] = "closed"
    IN  /\ pc[s] = "deliver"
        /\ Goto(s, IF last THEN "end" ELSE "slot")
        /\ lease' = Set(lease, s, NoLease)
        /\ frame' = Set(frame, s, 0)
        /\ eof' = Set(eof, s, last)
        /\ rx' = IF full /\ ~gone THEN Set(rx, s, "open") ELSE rx
        /\ out' = IF full /\ ~gone THEN Set(out, s, <<chunk>>) ELSE out
        /\ queue' = IF full \/ (gone /\ last) THEN queue ELSE Set(queue, s, Append(queue[s], chunk))
        /\ used' = IF gone /\ last THEN Returned(s, lease[s]) ELSE used
        /\ UNCHANGED <<line, kind, todo, made>>

-----------------------------------------------------------------------------
(* The transport (ChannelBody, the H1 writer) and its peer.                  *)

\* The transport takes the next chunk once it has written the last one; an abort
\* ends the response and drops the receiver.
Receive(s) ==
    /\ rx[s] = "open" /\ queue[s] # <<>> /\ out[s] = <<>>
    /\ IF Head(queue[s]).abort
       THEN /\ rx' = Set(rx, s, "closed")
            /\ UNCHANGED out
       ELSE /\ out' = Set(out, s, <<Head(queue[s])>>)
            /\ UNCHANGED rx
    /\ queue' = Set(queue, s, Tail(queue[s]))
    /\ UNCHANGED <<budgetVars, taskVars>>

\* Its last byte is written: the chunk and its lease are dropped.
Written(s) ==
    /\ out[s] # <<>>
    /\ out' = Set(out, s, <<>>)
    /\ used' = Returned(s, Held(out[s]))
    /\ UNCHANGED <<line, taskVars, rx, queue>>

\* The client goes away: the receiver and all it holds are dropped.
Hangup(s) ==
    LET l == Held(queue[s] \o out[s])
    IN  /\ pc[s] # "idle" /\ rx[s] # "closed"
        /\ rx' = Set(rx, s, "closed")
        /\ queue' = Set(queue, s, <<>>)
        /\ out' = Set(out, s, <<>>)
        /\ used' = Returned(s, l)
        /\ UNCHANGED <<line, taskVars>>

-----------------------------------------------------------------------------
Forward(s) ==
    \/ \E n \in Sizes : BufferFrame(s, n) \/ Pull(s, n)
    \/ \E n \in 1 .. ChunkSize, last \in BOOLEAN : Read(s, n, last)
    \/ BufferEof(s) \/ BufferFails(s)
    \/ FullGlobal(s) \/ FullTry(s)
    \/ Ask(s) \/ Grant(s) \/ Closed(s)
    \/ Slot(s) \/ ReadFails(s) \/ PullEof(s) \/ PullFails(s)
    \/ Charge(s) \/ ChargeShare(s) \/ Deliver(s)

Next ==
    \E s \in Streams :
        \/ \E n \in Sizes, fresh \in BOOLEAN : BeginFull(s, n, fresh)
        \/ \E opened \in BOOLEAN : BeginFile(s, opened)
        \/ \E now \in BOOLEAN : BeginStream(s, now)
        \/ Forward(s)
        \/ Receive(s)
        \/ Written(s)
        \/ Hangup(s)

Spec == Init /\ [][Next]_vars

\* The runtime runs every ready task, backends and disks answer, and the peers
\* of the reading connections read.  Nobody has to hang up.
Fairness ==
    \A s \in Streams :
        /\ WF_vars(Forward(s))
        /\ ConnOf[s] \in Reading => WF_vars(Receive(s)) /\ WF_vars(Written(s))

LiveSpec == Spec /\ Fairness

-----------------------------------------------------------------------------
(* Properties.                                                               *)

ChunksOf(s) == queue[s] \o out[s]
StreamsOf(c) == {s \in Streams : ConnOf[s] = c}

\* Each budget counts exactly what the leases of tasks, queued chunks and chunks
\* being written hold, whatever is refused, cut short, aborted or hung up: no byte
\* of the server-wide budget or of a connection's share is lost for good.
LeasesExact ==
    /\ used[Global] = MapThenSumSet(LAMBDA s : lease[s].g + Held(ChunksOf(s)).g, Streams)
    /\ \A c \in Conns :
        used[c] = MapThenSumSet(LAMBDA s : lease[s].c + Held(ChunksOf(s)).c, StreamsOf(c))

\* connection_share: the bytes queued for a connection never exceed its share,
\* unless a single frame does, and then it is queued alone.
QueuedWithinShare ==
    \A c \in Conns :
        LET Bytes(s) == FoldLeft(LAMBDA a, x : a + x.n, 0, ChunksOf(s))
            charged == {s \in StreamsOf(c) : Bytes(s) > 0}
        IN  MapThenSumSet(Bytes, StreamsOf(c)) > ShareMax =>
                \E s \in charged : charged = {s} /\ Cardinality({i \in DOMAIN ChunksOf(s) :
                                                                  ChunksOf(s)[i].n > 0}) = 1

\* A body cut short never looks complete: when a task returns before the end of
\* its source and the transport is still there, an abort is in the channel (a
\* stream without a length would otherwise end cleanly).
NoSilentTruncation ==
    \A s \in Streams : pc[s] = "end" /\ rx[s] = "open" /\ ~eof[s] =>
        queue[s] # <<>> /\ Last(queue[s]).abort

\* Every response on a connection whose peer reads is forwarded to its end,
\* although other connections stall: tasks wait for the connection's other
\* streams to drain, and those do drain.
ReadersDrain ==
    \A s \in Streams : ConnOf[s] \in Reading =>
        (pc[s] # "idle" ~> pc[s] = "end" /\ ChunksOf(s) = <<>>)

=============================================================================
