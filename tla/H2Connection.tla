---------------------------- MODULE H2Connection ----------------------------
(***************************************************************************)
(* One HTTP/2 server connection (hj-h2/src/server): a single task that     *)
(* parses the peer's frames, runs one handler future per request, writes   *)
(* the responses under two levels of flow control, and drains on GOAWAY.   *)
(*                                                                         *)
(* The task owns all of the state below and nothing else touches it, so it *)
(* is one record, `conn`, and each macro or function of the code is an     *)
(* operator from a record to a record.  What interleaves is the order in   *)
(* which frames, finished handlers, body chunks, timers and the shutdown   *)
(* signal reach the task: those are the actions.                           *)
(*                                                                         *)
(* A header block is abstracted to what its decoding leads to (Verdicts),  *)
(* bytes to units of one frame, and the receive windows to whether a DATA  *)
(* frame overruns one (the code refills each at half, so a peer that keeps *)
(* to its credit always has some).                                         *)
(***************************************************************************)
EXTENDS Integers, Sequences, FiniteSets, SequencesExt

CONSTANTS
  Ids,            \* the stream ids the peer opens, odd and increasing
  None,           \* no stream, no response, no GOAWAY yet
  Streamed,       \* a response body that is pulled chunk by chunk
  Failed,         \* a chunk pull that ends in an error
  MaxConcurrent,  \* recv.max_concurrent
  MaxBody,        \* recv.max_request_body
  PerConn,        \* recv.per_conn_request_body (4 x max_request_body in the code)
  HeaderMem,      \* recv.pending_header_mem, in streams' header maps
  MaxWindow,      \* the largest send window, i32::MAX in the code
  ParkedMax,      \* streams with early credit, 4096 in the code
  ResetBurst,     \* RAPID_RESET_BURST
  NoProgress,     \* NO_PROGRESS_BUDGET
  FirstWindow,    \* the send windows before the peer's SETTINGS and grants
  Windows,        \* the initial windows a SETTINGS frame may set
  Grants,         \* the increments a WINDOW_UPDATE may carry
  Lengths,        \* the content-lengths a request may declare
  Shapes,         \* HEADERS frames: <<END_STREAM, END_HEADERS, depends on itself>>
  Verdicts,       \* what a header block may decode to (AllVerdicts)
  Faults,         \* the limits a DATA frame may run into (AllFaults)
  Bodies          \* what a handler may answer: None, a size, Streamed

\* What END_HEADERS leads to: a good block; one whose request declares too
\* large a body, is refused by early_reject, or finds the server-wide body
\* budget used up; a header list over the limit; a malformed request; an
\* HPACK error.
AllVerdicts == {"ok", "declared", "early", "starved", "toolarge", "malformed", "compression"}

\* The limit a DATA frame runs into: the connection's or the stream's receive
\* window, the server-wide body budget, or none of them.
AllFaults == {"none", "connection", "stream", "budget"}

\* What the constants must be for the limits to mean what they do in the code.
H2Assumption ==
  /\ Ids \subseteq {2 * n + 1 : n \in 0 .. 50} /\ Ids # {}
  /\ MaxConcurrent \in Nat \ {0} /\ ParkedMax >= MaxConcurrent
  /\ MaxBody \in Nat /\ PerConn >= MaxBody /\ HeaderMem \in Nat \ {0}
  /\ FirstWindow \in 0 .. MaxWindow /\ Windows \subseteq 0 .. MaxWindow
  /\ Grants \subseteq Nat \ {0} /\ Lengths \subseteq Nat
  /\ Shapes \subseteq BOOLEAN \X BOOLEAN \X BOOLEAN
  /\ Verdicts \subseteq AllVerdicts /\ Faults \subseteq AllFaults
  /\ \A b \in Bodies : b \in {None, Streamed} \/ b \in Nat \ {0}

\* Where the loop is: parsing buffered frames, collecting what is ready, or
\* blocked in select; "closed" after the loop broke, "broken" after an I/O error.
Phases == {"frames", "drain", "select", "closed", "broken"}

VARIABLES phase, conn

vars == <<phase, conn>>

(***************************************************************************)
(* The state of serve: StreamState per half-received request (rx), the     *)
(* handler futures (inflight), OutStream per response being written (out), *)
(* the chunk pulls in flight, the send schedule, the windows and the       *)
(* counters of Recv.  wire, late, dispatched and credit are history:       *)
(* what the peer has seen of a stream, and what it granted beyond the     *)
(* initial window less what was sent.                                      *)
(***************************************************************************)
Start ==
  [ reading |-> TRUE, accepting |-> TRUE, draining |-> FALSE, shutdown |-> FALSE,
    seen |-> FALSE, last |-> 0, goaway |-> None,
    block |-> None, discarding |-> FALSE,
    resetIds |-> <<>>, sentResetIds |-> <<>>,
    rx |-> [s \in Ids |-> None],
    inflight |-> [s \in Ids |-> "none"], cancelled |-> {},
    out |-> [s \in Ids |-> None], pulls |-> {}, schedule |-> <<>>, idle |-> {},
    parked |-> [s \in Ids |-> 0],
    sendConn |-> FirstWindow, initial |-> FirstWindow,
    buffered |-> 0, headerBytes |-> 0, debt |-> 0, quiet |-> 0,
    wire |-> [s \in Ids |-> "none"], late |-> {}, dispatched |-> {},
    credit |-> [s \in Ids |-> 0] ]

NewStream == [done |-> FALSE, end |-> FALSE, refused |-> FALSE, charge |-> 0,
              body |-> 0, length |-> None, armed |-> FALSE]

InflightSids(c) == {s \in Ids : c.inflight[s] = "running"}
Futures(c) == {s \in Ids : c.inflight[s] # "none"}
Receiving(c) == {s \in Ids : c.rx[s] # None}
Sending(c) == {s \in Ids : c.out[s] # None}

Least(a, b) == IF a < b THEN a ELSE b

(***************************************************************************)
(* What goes out on the wire.                                              *)
(***************************************************************************)
\* A HEADERS or DATA frame on s; `late` records one on a stream not open.
Frame(c, s, end) ==
  [c EXCEPT !.late = IF c.wire[s] \in {"request", "open"} THEN @ ELSE @ \cup {s},
            !.wire[s] = IF end THEN "ended" ELSE "open"]

\* RST_STREAM in either direction closes a stream the peer has opened.
ResetFrame(c, s) == IF s <= c.last THEN [c EXCEPT !.wire[s] = "reset"] ELSE c

\* Recv::goaway_last_stream_id: a later GOAWAY never names a higher stream.
GoawayFrame(c) ==
  [c EXCEPT !.goaway = IF @ = None THEN c.last ELSE Least(@, c.last)]

\* No frame is parsed again; the state only frames read is put to rest.
StopReading(c) ==
  [c EXCEPT !.reading = FALSE, !.accepting = FALSE, !.draining = FALSE,
            !.seen = TRUE, !.quiet = 0, !.debt = 0,
            !.resetIds = <<>>, !.sentResetIds = <<>>]

\* The goaway! macro and its StopReading outcome.
Goaway(c) == StopReading(GoawayFrame(c))

(***************************************************************************)
(* Receive-side bookkeeping (state.rs).                                    *)
(***************************************************************************)
\* RecentIds::insert: the oldest entry makes room at the cap.
Recent(seq, s) ==
  IF s \in ToSet(seq) THEN seq
  ELSE Append(IF Len(seq) >= 2 * MaxConcurrent THEN Tail(seq) ELSE seq, s)

ReleaseStream(c, st) ==
  [c EXCEPT !.buffered = @ - st.body, !.headerBytes = @ - st.charge]

DropReceiving_Keeps(c, s) == [c EXCEPT !.rx[s] = None]   \* the counters are not told

DropReceiving(c, s) ==
  IF c.rx[s] = None THEN c
  ELSE [ReleaseStream(c, c.rx[s]) EXCEPT !.rx[s] = None]

NoteReset(c, s) == [c EXCEPT !.resetIds = Recent(@, s)]

TeardownReceiving(c, s) ==
  [NoteReset(DropReceiving(c, s), s) EXCEPT !.sentResetIds = Recent(@, s)]

\* A trailer block still open on s is decoded to its end, and reset there.
ExpireReceiving(c, s) ==
  LET openBlock == c.block = s /\ ~c.discarding
      d == TeardownReceiving([c EXCEPT !.discarding = @ \/ openBlock], s)
  IN  IF openBlock THEN d ELSE ResetFrame(d, s)

Abort_Unmarked(c, s) == c   \* the handler runs on and answers

\* abort.abort() and the marker that its completion is to be dropped.
Abort(c, s) ==
  [c EXCEPT !.inflight[s] = "aborted",
            !.cancelled = IF Cardinality(@) < 2 * MaxConcurrent THEN @ \cup {s} ELSE @]

\* The ResetStream outcome: the response and the early credit are dropped.
ResetOutcome(c, s) ==
  [c EXCEPT !.out[s] = None, !.parked[s] = 0, !.credit[s] = 0]

\* Aborting a live handler draws on the rapid-reset budget.
AbortAndCharge(c, s) ==
  IF s \notin InflightSids(c) THEN ResetOutcome(c, s)
  ELSE LET d == [Abort(c, s) EXCEPT !.debt = Least(@ + 1, ResetBurst)]
       IN  IF c.debt + 1 > ResetBurst THEN Goaway(d) ELSE ResetOutcome(d, s)

\* The rst! macro.
Rst(c, s) == AbortAndCharge(TeardownReceiving(ResetFrame(c, s), s), s)

\* The reject_too_large! macro: a whole 413 or 431, then NO_ERROR if the
\* client is still sending.
RejectTooLarge(c, s, clientOpen) ==
  LET d == Frame(c, s, TRUE)
  IN  IF clientOpen THEN Rst(d, s) ELSE ResetOutcome(DropReceiving(d, s), s)

\* The complete! macro: the request is whole and its handler starts.
Complete(c, s) ==
  LET st == c.rx[s]
      d == [ReleaseStream(c, st) EXCEPT !.rx[s] = None, !.quiet = 0]
  IN  IF st.length # None /\ st.length # st.body
      THEN Rst(d, s)
      ELSE [d EXCEPT !.inflight[s] = "running", !.dispatched = @ \cup {s}]

\* Recv::admit_pending_headers: one header map is one unit.
AdmitOrRefuse(c, s, starved) ==
  IF (c.headerBytes # 0 /\ c.headerBytes + 1 > HeaderMem) \/ starved
  THEN Rst(c, s)
  ELSE [c EXCEPT !.rx[s].charge = 1, !.headerBytes = @ + 1]

\* The refuse_if_marked! macro: a stream over the cap never held a charge.
RefuseMarked(c, s) == Rst([c EXCEPT !.rx[s] = None], s)

\* The reject_early! macro: a whole response, then NO_ERROR.
RejectEarly(c, s) == Rst(Frame(c, s, TRUE), s)

\* The END_HEADERS arm of HEADERS and of CONTINUATION.
EndHeaders(c, s, verdict, length) ==
  LET st == c.rx[s]
      d == [c EXCEPT !.block = None]
      ok == [d EXCEPT !.rx[s].done = TRUE,
                      !.rx[s].length = IF st.done THEN @ ELSE length]
  IN  CASE verdict = "compression" -> Goaway(d)
        [] verdict = "malformed" -> Rst(DropReceiving(d, s), s)
        [] verdict # "compression" /\ verdict # "malformed" /\ st.refused -> RefuseMarked(d, s)
        [] verdict = "toolarge" /\ ~st.refused -> RejectTooLarge(d, s, ~st.end)
        [] verdict \in {"ok", "declared", "early", "starved"} /\ ~st.refused ->
             IF st.end THEN Complete(ok, s)
             ELSE CASE verdict = "declared" -> RejectTooLarge(ok, s, TRUE)
                    [] verdict = "early" -> RejectEarly(ok, s)
                    [] OTHER -> AdmitOrRefuse(ok, s, verdict = "starved")

(***************************************************************************)
(* process_frame, by kind.  Framed is what it checks before it looks at    *)
(* the kind: SETTINGS first, the no-progress budget, and that only a       *)
(* CONTINUATION of the same stream follows an open header block.  What the *)
(* kind does, handled, starts from the frame counted.                      *)
(***************************************************************************)
Counted == [conn EXCEPT !.seen = TRUE, !.quiet = @ + 1]

Framed(kind, s, handled) ==
  LET c == Counted
      continues == kind = "continuation" /\ s = conn.block
  IN  /\ phase = "frames" /\ conn.reading
      /\ UNCHANGED phase
      /\ conn' = IF ~conn.seen /\ kind # "settings" THEN Goaway(conn)
                 ELSE IF c.quiet > NoProgress THEN Goaway([c EXCEPT !.quiet = NoProgress])
                 ELSE IF (c.block # None \/ kind = "continuation") /\ ~continues THEN Goaway(c)
                 ELSE handled

\* A block decoded only to keep HPACK in step, then answered by a reset.
Discard(c, s, endHeaders, verdict) ==
  IF ~endHeaders THEN [c EXCEPT !.block = s, !.discarding = TRUE]
  ELSE IF verdict = "compression" THEN Goaway(c)
  ELSE Rst(c, s)

Active(c) ==
  Cardinality(Receiving(c)) + Cardinality(Futures(c)) + Cardinality(Sending(c))

HandleHeaders(c, s, endStream, endHeaders, self, verdict, length) ==
  LET opens == c.rx[s] = None
      d == IF opens THEN [c EXCEPT !.last = s, !.wire[s] = "request"] ELSE c
      refuse == opens /\ (~c.accepting \/ Active(c) >= MaxConcurrent)
      st == IF opens THEN [NewStream EXCEPT !.refused = refuse, !.end = endStream]
            ELSE [c.rx[s] EXCEPT !.end = @ \/ endStream]
      e == [d EXCEPT !.rx[s] = st]
  IN  IF opens /\ s <= c.last
      THEN IF s \in ToSet(c.resetIds) THEN Discard(c, s, endHeaders, verdict) ELSE Goaway(c)
      ELSE IF self \/ (~opens /\ c.rx[s].done /\ ~endStream)
      THEN Discard(DropReceiving(d, s), s, endHeaders, verdict)
      ELSE IF endHeaders THEN EndHeaders(e, s, verdict, length)
      ELSE [e EXCEPT !.block = s]

Headers(s, endStream, endHeaders, self, verdict, length) ==
  Framed("headers", s, HandleHeaders(Counted, s, endStream, endHeaders, self, verdict, length))

Continuation(s, endHeaders, verdict, length) ==
  LET c == Counted
      handled ==
        IF c.discarding
        THEN IF ~endHeaders THEN c
             ELSE Discard([c EXCEPT !.block = None, !.discarding = FALSE], s, TRUE, verdict)
        ELSE IF endHeaders THEN EndHeaders(c, s, verdict, length)
        ELSE c
  IN  Framed("continuation", s, handled)

\* DATA of n units.
HandleData(c, s, n, endStream, fault) ==
  LET st == c.rx[s]
      p == IF n > 0 THEN [c EXCEPT !.quiet = 0] ELSE c
      d == [p EXCEPT !.buffered = @ + n, !.rx[s].body = @ + n]
  IN  IF fault = "connection" THEN Goaway(c)
      ELSE IF st = None
      THEN IF s > c.last THEN Goaway(c)
           ELSE IF s \in ToSet(c.sentResetIds) THEN c
           ELSE Rst(c, s)
      ELSE IF fault = "stream" THEN Rst(DropReceiving(c, s), s)
      ELSE IF st.length # None /\ st.body + n > st.length THEN Rst(c, s)
      ELSE IF st.body + n > MaxBody THEN RejectTooLarge(c, s, ~endStream)
      ELSE IF c.buffered + n > PerConn THEN Goaway(c)
      ELSE IF fault = "budget" THEN Rst(p, s)
      ELSE IF endStream THEN Complete(d, s)
      ELSE d

Data(s, n, endStream, fault) ==
  Framed("data", s, HandleData(Counted, s, n, endStream, fault))

\* The peer's own RST_STREAM.
RstStream(s) ==
  LET c == Counted
      handled ==
        IF s > c.last THEN Goaway(c)
        ELSE AbortAndCharge(NoteReset(DropReceiving(ResetFrame(c, s), s), s), s)
  IN  Framed("rst_stream", s, handled)

\* A PRIORITY frame that makes s depend on itself.
PrioritySelf(s) == Framed("priority", s, Rst(Counted, s))

\* PING, PRIORITY, an unknown kind, or a SETTINGS frame that keeps the window.
Idles(kind) == Framed(kind, None, Counted)

\* Any frame that is a connection error by itself (its length, stream or
\* contents), over max_frame_size included.
BadFrame == Framed("bad", None, Goaway(Counted))

PeerGoaway ==
  Framed("goaway", None, [Counted EXCEPT !.draining = TRUE, !.accepting = FALSE])

\* SETTINGS_INITIAL_WINDOW_SIZE: every response under way shifts by the change.
SetWindow(w) ==
  LET c == Counted
      d == [c EXCEPT !.initial = w,
                     !.out = [s \in Ids |-> IF @[s] = None THEN None
                              ELSE [@[s] EXCEPT !.window = @ + w - c.initial]]]
      over == \E s \in Sending(d) : d.out[s].window > MaxWindow
  IN  Framed("settings", None, IF over THEN Goaway(d) ELSE d)

GrantConn(n) ==
  LET c == Counted
      d == [c EXCEPT !.sendConn = @ + n]
      handled == IF d.sendConn > MaxWindow THEN Goaway(d)
                 ELSE IF c.sendConn <= 0 /\ d.sendConn > 0 THEN [d EXCEPT !.quiet = 0]
                 ELSE d
  IN  Framed("window_update", None, handled)

\* A grant to a response under way, or to a stream whose response does not
\* exist yet: that credit is parked until begin_response.
HandleGrant(c, s, n) ==
  LET st == c.out[s]
      w == st.window + n
      tracked == c.parked[s] > 0 \/ Cardinality({t \in Ids : c.parked[t] > 0}) < ParkedMax
      p == c.parked[s] + n
  IN  IF s > c.last THEN Goaway(c)
      ELSE IF st # None
      THEN LET d == [c EXCEPT !.out[s].window = w, !.credit[s] = @ + n]
           IN  IF w > MaxWindow THEN ResetFrame([d EXCEPT !.out[s].done = TRUE], s)
               ELSE IF st.window <= 0 /\ w > 0 THEN [d EXCEPT !.quiet = 0]
               ELSE d
      ELSE IF s \in Receiving(c) \cup InflightSids(c)
      THEN LET d == [c EXCEPT !.credit[s] = @ + n]
           IN  IF ~tracked THEN d
               ELSE IF c.initial + p > MaxWindow THEN Rst([d EXCEPT !.parked[s] = 0], s)
               ELSE [d EXCEPT !.parked[s] = p]
      ELSE c

Grant(s, n) ==
  Framed("window_update", s, HandleGrant(Counted, s, n))

\* A WINDOW_UPDATE of 0 is a stream error.
GrantZero(s) ==
  LET c == Counted
  IN  Framed("window_update", s, IF s > c.last THEN Goaway(c) ELSE Rst(c, s))

(***************************************************************************)
(* Responses (send.rs).                                                    *)
(***************************************************************************)
\* begin_response: the head goes out; a body is registered with the window
\* the peer has granted so far.  `body` is None, a size, or Streamed.
BeginResponse(c, s, body) ==
  LET window == c.initial + c.parked[s]
      headed == [Frame(c, s, body = None) EXCEPT !.parked[s] = 0]
  IN  IF body = None
      THEN [headed EXCEPT !.credit[s] = 0]
      ELSE [headed EXCEPT
             !.out[s] = [pending |-> IF body = Streamed THEN 0 ELSE body,
                         home |-> body = Streamed, pulling |-> FALSE,
                         eof |-> body # Streamed, done |-> FALSE,
                         window |-> Least(window, MaxWindow), stall |-> FALSE],
             !.credit[s] = @ - (window - Least(window, MaxWindow)),
             !.schedule = Append(@, s)]

\* A future of inflight resolved: an aborted one yields nothing.
HandlerDone(c, s, body) ==
  LET d == [c EXCEPT !.inflight[s] = "none", !.cancelled = @ \ {s}]
  IN  IF c.inflight[s] = "aborted" \/ s \in c.cancelled THEN d
      ELSE BeginResponse(d, s, body)

\* apply_pull: n units of body, None for its end, or Failed.
ApplyPull(c, s, n) ==
  LET d == [c EXCEPT !.pulls = @ \ {s}, !.idle = @ \ {s}]
  IN  IF c.out[s] = None THEN d
      ELSE LET e == [d EXCEPT !.out[s].pulling = FALSE]
           IN  CASE n = None -> [e EXCEPT !.out[s].eof = TRUE]
                 [] n = Failed -> ResetFrame([e EXCEPT !.out[s].done = TRUE], s)
                 [] n \notin {None, Failed} ->
                      [e EXCEPT !.out[s].home = TRUE, !.out[s].pending = @ + n]

\* pump_one_frame: at most one DATA frame of one unit.
PumpOneFrame(c, s) ==
  LET st == c.out[s]
      ends == st.eof /\ st.pending <= 1
  IN  IF st.pending > 0
      THEN IF c.sendConn <= 0 \/ st.window <= 0 THEN c
           ELSE [Frame(c, s, ends) EXCEPT
                  !.sendConn = @ - 1, !.credit[s] = @ - 1,
                  !.out[s].window = @ - 1, !.out[s].pending = @ - 1,
                  !.out[s].done = ends]
      ELSE IF st.eof THEN [Frame(c, s, TRUE) EXCEPT !.out[s].done = TRUE]
      ELSE c

\* One visit of pump_streams: a frame, then a pull if the buffer is drained.
Visit(c, s) ==
  LET d == PumpOneFrame(c, s)
      st == d.out[s]
      pull == ~st.done /\ st.pending = 0 /\ ~st.eof /\ st.home
  IN  IF c.out[s] = None \/ c.out[s].done THEN ResetOutcome(c, s)
      ELSE IF st.done THEN ResetOutcome(d, s)
      ELSE [d EXCEPT !.out[s].home = @ /\ ~pull, !.out[s].pulling = @ \/ pull,
                     !.out[s].stall = st.pending > 0,
                     !.pulls = IF pull THEN @ \cup {s} ELSE @]

\* pump_streams: round the schedule until a whole round writes nothing.
RECURSIVE PumpStreams(_, _)
PumpStreams(c, visits) ==
  IF visits = 0 THEN c
  ELSE LET s == Head(c.schedule)
           d == Visit([c EXCEPT !.schedule = Tail(@)], s)
           e == IF d.out[s] = None THEN d ELSE [d EXCEPT !.schedule = Append(@, s)]
           wrote == d.wire[s] # c.wire[s] \/ d.sendConn # c.sendConn
       IN  PumpStreams(e, IF wrote THEN Len(e.schedule) ELSE visits - 1)

\* RST_STREAM and cancel_outstream for each of S.
ResetResponses(c, S) ==
  [c EXCEPT !.wire = [s \in Ids |-> IF s \in S THEN "reset" ELSE @[s]],
            !.out = [s \in Ids |-> IF s \in S THEN None ELSE @[s]],
            !.credit = [s \in Ids |-> IF s \in S THEN 0 ELSE @[s]]]

Idle(c) == {s \in Sending(c) : c.out[s].pulling /\ c.out[s].pending = 0 /\ ~c.out[s].done}

ShouldClose_MidUpload(c) ==   \* a drain forgets the requests still arriving
  LET produced == Futures(c) = {} /\ c.pulls = {}
  IN  produced /\ (~c.reading \/ (c.draining /\ Sending(c) = {}))
ShouldClose(c) ==
  LET produced == Futures(c) = {} /\ c.pulls = {}
  IN  \/ ~c.reading /\ produced
      \/ c.draining /\ produced /\ Sending(c) = {} /\ Receiving(c) = {}

\* abandon_drain: every stream still pending is reset.
AbandonDrain(c) ==
  LET received == FoldSet(LAMBDA s, d : ExpireReceiving(d, s), c, Receiving(c))
      live == InflightSids(c)
      aborted == FoldSet(LAMBDA s, d : ResetFrame(Abort(d, s), s), received, live)
      cleared == [ResetResponses(aborted, Sending(c)) EXCEPT
                   !.parked = [s \in Ids |-> 0], !.credit = [s \in Ids |-> 0]]
  IN  GoawayFrame(cleared)

(***************************************************************************)
(* The loop of serve.                                                      *)
(***************************************************************************)
Init ==
  /\ phase = "select"
  /\ conn = Start

\* advance_body_deadlines: a request with a body to come gets its deadline.
AdvanceBodyDeadlines(c) ==
  [c EXCEPT !.rx = [s \in Ids |-> IF @[s] = None THEN None
                    ELSE [@[s] EXCEPT !.armed = @ \/ (c.rx[s].done /\ ~c.rx[s].end)]]]

\* The frames at hand are parsed.  An open block or a body past its deadline
\* is given up here.
Parsed(blockDue, due) ==
  LET armed == AdvanceBodyDeadlines(IF blockDue THEN Goaway(conn) ELSE conn)
      Expired(s, d) == [ExpireReceiving(d, s) EXCEPT !.parked[s] = 0, !.credit[s] = 0]
  IN  /\ phase = "frames"
      /\ blockDue => conn.reading /\ conn.block # None
      /\ \A s \in due : conn.rx[s].armed
      /\ conn' = FoldSet(Expired, armed, due)
      /\ phase' = "drain"

\* A handler resolved, seen by the loop's sweep or by select.
Respond(s, body) ==
  /\ phase \in {"drain", "select"}
  /\ s \in Futures(conn)
  /\ conn' = HandlerDone(conn, s, body)
  /\ phase' = IF phase = "select" THEN "frames" ELSE phase

\* A chunk pull resolved; one whose response is gone was cancelled.
Pulled(s, n) ==
  /\ phase \in {"drain", "select"}
  /\ s \in conn.pulls
  /\ conn.out[s] = None => n = None
  /\ conn' = ApplyPull(conn, s, n)
  /\ phase' = IF phase = "select" THEN "frames" ELSE phase

\* The tail of a pass: pump, reset what stalled, flush, close or select.
Turn(stalled, waited) ==
  LET c == PumpStreams(conn, Len(conn.schedule))
      d == ResetResponses(c, stalled)
      e == [ResetResponses(d, waited) EXCEPT
             !.idle = IF c.shutdown THEN Idle(d) \ waited ELSE {}]
  IN  /\ phase = "drain"
      /\ \A s \in stalled : conn.out[s].stall /\ c.out[s] # None /\ c.out[s].pending > 0
      /\ waited \subseteq conn.idle \cap Idle(d)
      /\ conn' = e
      /\ phase' = IF ShouldClose(e) THEN "closed" ELSE "select"

\* Inbound bytes, or a body, stall or idle-stream deadline, start another pass.
Wake ==
  /\ phase = "select"
  /\ \/ conn.reading
     \/ \E s \in Sending(conn) : conn.out[s].stall
     \/ conn.idle # {}
  /\ phase' = "frames"
  /\ UNCHANGED conn

Shutdown ==
  /\ phase = "select" /\ ~conn.shutdown
  /\ conn' = LET c == [conn EXCEPT !.shutdown = TRUE]
             IN  IF c.reading /\ c.accepting
                 THEN [GoawayFrame(c) EXCEPT !.accepting = FALSE, !.draining = TRUE]
                 ELSE c
  /\ phase' = "frames"

Eof ==
  /\ phase = "select" /\ conn.reading
  /\ conn' = StopReading(conn)
  /\ phase' = "frames"

\* The partial-frame, header-block or connection-idle timer.
ReadTimer ==
  /\ phase = "select" /\ conn.reading
  /\ conn' = Goaway(conn)
  /\ phase' = "frames"

DrainTimer ==
  /\ phase = "select" /\ conn.reading /\ conn.draining
  /\ conn' = StopReading(AbandonDrain(conn))
  /\ phase' = "frames"

\* A read or a flush fails and serve returns the error.
Breaks ==
  /\ phase \in {"select", "drain"}
  /\ phase' = "broken"
  /\ conn' = Start

\* One reset credit returns with time.
Refill ==
  /\ conn.debt > 0 /\ phase = "select"
  /\ conn' = [conn EXCEPT !.debt = @ - 1]
  /\ UNCHANGED phase

\* A frame that starts or continues a header block, and what it decodes to.
HeaderFrames ==
  \E s \in Ids, verdict \in Verdicts, length \in Lengths \cup {None} :
    /\ verdict # "ok" => length = None
    /\ \/ \E shape \in Shapes :
            /\ shape[2] \/ (verdict = "ok" /\ length = None)
            /\ Headers(s, shape[1], shape[2], shape[3], verdict, length)
       \/ \E endHeaders \in BOOLEAN :
            /\ endHeaders \/ (verdict = "ok" /\ length = None)
            /\ Continuation(s, endHeaders, verdict, length)

DataFrames ==
  \E s \in Ids, n \in 0 .. 1, endStream \in BOOLEAN, fault \in Faults :
    Data(s, n, endStream, fault)

ControlFrames ==
  \/ \E s \in Ids : RstStream(s) \/ PrioritySelf(s) \/ GrantZero(s)
  \/ \E kind \in {"ping", "settings"} : Idles(kind)
  \/ BadFrame
  \/ PeerGoaway
  \/ \E w \in Windows : SetWindow(w)
  \/ \E n \in Grants : GrantConn(n) \/ \E s \in Ids : Grant(s, n)

Armed == {s \in Receiving(conn) : conn.rx[s].armed}
Stalled == {s \in Sending(conn) : conn.out[s].stall}

Loop ==
  \/ \E blockDue \in BOOLEAN, due \in SUBSET Armed : Parsed(blockDue, due)
  \/ \E stalled \in SUBSET Stalled, waited \in SUBSET conn.idle : Turn(stalled, waited)

Responses == \E s \in Ids, body \in Bodies : Respond(s, body)
Pulls == \E s \in Ids, n \in {1, None, Failed} : Pulled(s, n)

Next ==
  \/ HeaderFrames \/ DataFrames \/ ControlFrames
  \/ Loop \/ Responses \/ Pulls
  \/ Wake \/ Shutdown \/ Eof \/ ReadTimer \/ DrainTimer \/ Breaks \/ Refill

Spec == Init /\ [][Next]_vars

(***************************************************************************)
(* Fairness.  The task runs whenever it can, and what it waits for comes:  *)
(* a handler ends, as each has a backend timeout; a cancelled pull         *)
(* resolves when it is polled; the drain timer and the idle-stream grace   *)
(* fire.  The second is strong because select is biased towards the read   *)
(* arm and polls the timers only when nothing is there to read; no peer    *)
(* keeps it ready for ever (NoProgress bounds the frames that lead         *)
(* nowhere).                                                               *)
(***************************************************************************)
GraceOver ==
  \E stalled \in SUBSET Stalled, waited \in SUBSET conn.idle \ {{}} : Turn(stalled, waited)

Awaited ==
  \/ DrainTimer \/ GraceOver
  \/ \E s \in Ids, body \in Bodies : Respond(s, body)
  \/ \E s \in Ids : conn.out[s] = None /\ Pulled(s, None)

\* A pass goes on (Parsed, then Turn; each is enabled in its phase), and a
\* deadline of an idle stream starts another.
Advances ==
  \/ phase = "frames" /\ phase' = "drain"
  \/ phase = "drain" /\ phase' \in {"select", "closed"}
  \/ phase = "select" /\ conn.idle # {} /\ phase' = "frames"

Fairness ==
  /\ WF_phase(Advances)
  /\ SF_vars(Awaited)

LiveSpec == Spec /\ Fairness

(***************************************************************************)
(* Properties.                                                             *)
(***************************************************************************)
Total(f) == FoldFunction(+, 0, f)

\* The state is what serve's types allow.
TypeOK ==
  /\ phase \in Phases
  /\ \A b \in {conn.reading, conn.accepting, conn.draining, conn.seen, conn.discarding} :
       b \in BOOLEAN
  /\ conn.last \in Ids \cup {0}
  /\ conn.inflight \in [Ids -> {"none", "running", "aborted"}]
  /\ conn.wire \in [Ids -> {"none", "request", "open", "ended", "reset"}]
  /\ conn.quiet \in 0 .. NoProgress /\ conn.debt \in 0 .. ResetBurst

\* No HEADERS or DATA frame is queued on a stream after its END_STREAM or
\* after an RST_STREAM of either side, whatever the order in which resets,
\* handler completions and body chunks reach the task (rst!, cancel_outstream,
\* the cancelled markers and the aborted futures).
NothingAfterClose == conn.late = {}

\* Every response under way may send exactly what the peer granted: its window
\* is the current SETTINGS_INITIAL_WINDOW_SIZE plus every WINDOW_UPDATE for
\* the stream, those that came before the response existed included, less the
\* bytes sent (pending_window, InitialWindowDelta, begin_response).  Only the
\* clamp at i32::MAX gives any up.
CreditConserved ==
  \A s \in Sending(conn) :
    conn.out[s].window = conn.initial + conn.credit[s]

\* Early credit is held only for a stream that can still answer, so the map
\* cannot fill with dead streams on a long-lived connection.
ParkedOwned ==
  conn.reading =>
    \A s \in Ids : conn.parked[s] > 0 =>
      s \in Receiving(conn) \cup InflightSids(conn) \cup {conn.block}

\* When the task blocks in select it has written all that the windows allow,
\* and a response with nothing left to write has its next chunk on the way.
PumpedDry ==
  phase = "select" =>
    \A s \in Sending(conn) :
      LET st == conn.out[s]
      IN  \/ st.done
          \/ st.pending > 0 /\ (st.window <= 0 \/ conn.sendConn <= 0)
          \/ st.pending = 0 /\ s \in conn.pulls

\* The connection's counters are the sums they stand for, on every way a
\* stream ends: total_buffered and pending_header_bytes over the requests
\* being received.
CountersExact ==
  /\ conn.buffered = Total([s \in Ids |-> IF conn.rx[s] = None THEN 0 ELSE conn.rx[s].body])
  /\ conn.headerBytes = Total([s \in Ids |-> IF conn.rx[s] = None THEN 0 ELSE conn.rx[s].charge])

\* A cancelled marker stands for an aborted future that has not drained, and
\* every aborted one has its marker: the cap on the set never drops one, and
\* none outlives its future.
CancelledExact == conn.cancelled = {s \in Ids : conn.inflight[s] = "aborted"}

\* Every response is in the send schedule exactly once, so none is starved.
ScheduledOnce ==
  /\ Sending(conn) \subseteq ToSet(conn.schedule)
  /\ IsInjective(conn.schedule)

\* SETTINGS_MAX_CONCURRENT_STREAMS holds over every state a stream can be in,
\* but for the one whose header block is still open and will be refused.
ConcurrencyBounded ==
  Active(conn) <= MaxConcurrent
    + Cardinality({s \in Receiving(conn) : conn.rx[s].refused})

\* A request that reached a handler is at or below every last-stream-id the
\* server announced, so a peer that retries what lies above repeats nothing.
Announced ==
  conn.goaway # None => \A s \in conn.dispatched : s <= conn.goaway

\* When the loop ends, every request that reached a handler was answered to
\* its end or reset, but for a response the peer has left without credit; and
\* a drain that ends by itself leaves no stream it accepted unanswered, a body
\* still uploading included (should_close, abandon_drain).
ClosedAnswered ==
  phase = "closed" =>
    /\ \A s \in conn.dispatched :
         \/ conn.wire[s] \in {"ended", "reset"}
         \/ /\ s \in Sending(conn) /\ ~conn.reading
            /\ conn.out[s].pending > 0 /\ (conn.out[s].window <= 0 \/ conn.sendConn <= 0)
    /\ conn.reading =>
         \A s \in Ids \ {conn.block} : conn.wire[s] \notin {"request", "open"}

\* Once the shutdown signal is seen the connection ends, whatever the peer
\* uploads, leaves without credit or never reads, and whatever long poll a
\* backend holds (the drain timer, reset_drain_idle_streams).
DrainEnds == conn.shutdown ~> phase \in {"closed", "broken"}

=============================================================================
